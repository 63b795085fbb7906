----------------------------- MODULE EventStore -----------------------------
(***************************************************************************)
(* The events of the containers (src/domeagent/monitor/events/handler.go,  *)
(* src/domeagent/monitor/utils/timed_store.go): a bounded store per type,  *)
(* and the channels of the clients that watch.  The store's own lock is    *)
(* never held while anything blocks, so what happens under it is one step; *)
(* watcherLock is held while AddEvent sends.                               *)
(***************************************************************************)
EXTENDS Integers, Sequences, SequencesExt, FiniteSetsExt

CONSTANTS
  Adders,      \* the goroutines that call AddEvent
  Clients,     \* the callers of WatchEvents, each with one watch
  Types,       \* info.EventType
  Containers,  \* names of containers
  PrefixesOf,  \* per container those whose name and a "/" its own and a "/" begin with
  MaxTime,     \* bound: timestamps are 1 .. MaxTime
  MaxAge,      \* storagePolicy: age of an event that is evicted
  MaxItems,    \* storagePolicy: events kept per type
  ChannelCap,  \* capacity of an EventChannel (10)
  WatchRequests \* the requests the clients watch with

ASSUME EventAssumption ==
  /\ {MaxTime, MaxAge, MaxItems, ChannelCap} \subseteq Nat \ {0}
  /\ PrefixesOf \in [Containers -> SUBSET Containers] /\ IsFiniteSet(Clients)

VARIABLES
  eventStore, \* per type the buffer of its TimedStore, the oldest first
  added,      \* number of events so far, which also names them
  adding,     \* per adder its AddEvent: label, event, watchers to send to, in order
  watches,    \* per client the label of its call or watch, and its request
  channel,    \* per client the events in its EventChannel
  panicked    \* StopWatch was called with an id that is no watch

storeVars == <<eventStore, added>>
eventVars == <<storeVars, adding, watches, channel, panicked>>

Times == 1 .. MaxTime
NoTime == 0
NoLimit == -1
AnyContainer == ""
Event(id, t, c, time) == [id |-> id, type |-> t, container |-> c, time |-> time]
AnyEvents == [id : Nat, type : Types, container : Containers, time : Times]
Requests == [types : SUBSET Types \ {{}}, container : Containers \cup {AnyContainer},
             below : BOOLEAN, start : 0 .. MaxTime, end : 0 .. MaxTime,
             max : {NoLimit} \cup 1 .. MaxItems]
ASSUME WatchAssumption ==
  WatchRequests \subseteq { r \in Requests : r.start = NoTime /\ r.end = NoTime }
Idle == [label |-> "idle"]

EventInit ==
  /\ eventStore = [t \in Types |-> << >>] /\ added = 0
  /\ adding = [a \in Adders |-> Idle]
  /\ watches = [c \in Clients |-> [label |-> "none"]]
  /\ channel = [c \in Clients |-> << >>]
  /\ panicked = FALSE

-----------------------------------------------------------------------------
(* TimedStore.  sort.Sort keeps the order of equal timestamps in slices of *)
(* up to 12 elements, and sort.Search finds the first index for which its  *)
(* condition holds, or the length.                                         *)

Before(e, f) == e.time < f.time
FirstIndex(s, P(_)) == Min({ i \in DOMAIN s : P(s[i]) } \cup {Len(s) + 1})
From(s, i) == SubSeq(s, i, Len(s))
InsertByTime(s, e) == LET i == FirstIndex(s, LAMBDA f : Before(e, f))
                      IN SubSeq(s, 1, i - 1) \o <<e>> \o From(s, i)

StoreAdd(s, e) ==
  LET room == IF Len(s) + 1 > MaxItems THEN From(s, Len(s) + 2 - MaxItems) ELSE s
      sorted == InsertByTime(room, e)
      index == FirstIndex(sorted, LAMBDA f : f.time > e.time - MaxAge)
  IN IF index <= Len(sorted) THEN From(sorted, index) ELSE sorted

\* get(i) is element i of the buffer counted from its newest, which is 0
InTimeRange(s, start, end, max) ==
  LET get(i) == s[Len(s) - i]
      indices == 0 .. Len(s) - 1
      first(Q(_)) == Min({ i \in indices : Q(get(i)) } \cup {Len(s)})
      limit == IF start # NoTime /\ end # NoTime THEN NoLimit ELSE max
      startIndex == IF start = NoTime THEN Len(s) - 1
                    ELSE first(LAMBDA e : e.time < start) - 1
      endIndex == IF end = NoTime THEN 0 ELSE first(LAMBDA e : e.time <= end)
      found == startIndex - endIndex + 1
      number == IF limit # NoLimit /\ found > limit THEN limit ELSE found
      oldest == startIndex - (found - number)
  IN IF s = << >> \/ startIndex < 0 \/ endIndex = Len(s) THEN << >>
     ELSE [i \in 1 .. number |-> get(oldest - (i - 1))]

-----------------------------------------------------------------------------
(* GetEvents. *)

Above(d, c) == d = "/" \/ d \in PrefixesOf[c]

\* checkIfIsSubcontainer and checkIfEventSatisfiesRequest
Satisfies(e, r) ==
  /\ r.start # NoTime => r.start <= e.time
  /\ r.end # NoTime => e.time <= r.end
  /\ e.type \in r.types
  /\ r.container # AnyContainer =>
       IF r.below THEN Above(r.container, e.container) ELSE e.container = r.container

ByTime(s) == FoldLeft(InsertByTime, << >>, s)
LastOf(s, n) == IF n >= Len(s) \/ n <= 0 THEN s ELSE From(s, Len(s) - n + 1)

Satisfying(s, r) ==
  FoldLeft(LAMBDA es, e : IF Satisfies(e, r) THEN Append(es, e) ELSE es, << >>, s)
Found(store, r) ==
  FoldLeft(LAMBDA es, t : es \o Satisfying(InTimeRange(store[t], r.start, r.end, r.max), r),
           << >>, SetToSeq(r.types))

\* Mutant: the last events are taken before they are sorted.
GetEvents_Unsorted(store, r) == LastOf(Found(store, r), r.max)

GetEvents(store, r) == LastOf(ByTime(Found(store, r)), r.max)

-----------------------------------------------------------------------------
(* AddEvent. *)

At(a, label) == adding[a].label = label
Watching == { c \in Clients : watches[c].label \in {"watching", "stopping"} }
Locking == { c \in Clients : watches[c].label \in {"registering", "stopping"} }
Readers == { a \in Adders : At(a, "sending") }

AddTo(store, e) == [store EXCEPT ![e.type] = StoreAdd(@, e)]

\* updateEventStore, under eventsLock
Update(a, t, c, time) ==
  LET e == Event(added + 1, t, c, time)
  IN /\ At(a, "idle")
     /\ added' = added + 1
     /\ eventStore' = AddTo(eventStore, e)
     /\ adding' = [adding EXCEPT ![a] = [label |-> "stored", event |-> e]]
     /\ UNCHANGED <<watches, channel, panicked>>

\* the ways to go through a map
Orders(S) == { s \in [1 .. Cardinality(S) -> S] : IsInjective(s) }

\* findValidWatchers; RLock waits for a Lock that waits
FindWatchers(a) ==
  /\ At(a, "stored") /\ Locking = {}
  /\ LET valid == { c \in Watching : Satisfies(adding[a].event, watches[c].request) }
     IN \E order \in Orders(valid) :
          adding' = [adding EXCEPT ![a] =
            [label |-> "sending", event |-> adding[a].event, to |-> order]]
  /\ UNCHANGED <<storeVars, watches, channel, panicked>>

\* a full channel holds up those behind it as well
Send(a) ==
  /\ At(a, "sending") /\ adding[a].to # << >>
  /\ LET c == Head(adding[a].to)
     IN /\ Len(channel[c]) < ChannelCap
        /\ channel' = [channel EXCEPT ![c] = Append(@, adding[a].event.id)]
  /\ adding' = [adding EXCEPT ![a].to = Tail(@)]
  /\ UNCHANGED <<storeVars, watches, panicked>>

AddReturns(a) ==
  /\ At(a, "sending") /\ adding[a].to = << >>
  /\ adding' = [adding EXCEPT ![a] = Idle]
  /\ UNCHANGED <<storeVars, watches, channel, panicked>>

-----------------------------------------------------------------------------
(* WatchEvents and StopWatch: they ask for the lock, and have it when no   *)
(* AddEvent holds it.  A client stops listening when it calls StopWatch.   *)

SetWatch(c, w) == watches' = [watches EXCEPT ![c] = w]

AskWatch(c, r) ==
  /\ watches[c].label = "none"
  /\ SetWatch(c, [label |-> "registering", request |-> r])
  /\ UNCHANGED <<storeVars, adding, channel, panicked>>

WatchEvents(c) ==
  /\ watches[c].label = "registering" /\ Readers = {}
  /\ SetWatch(c, [watches[c] EXCEPT !.label = "watching"])
  /\ UNCHANGED <<storeVars, adding, channel, panicked>>

Receive(c) ==
  /\ watches[c].label = "watching" /\ channel[c] # << >>
  /\ channel' = [channel EXCEPT ![c] = Tail(@)]
  /\ UNCHANGED <<storeVars, adding, watches, panicked>>

StopListening(c) ==
  /\ watches[c].label = "watching"
  /\ SetWatch(c, [watches[c] EXCEPT !.label = "stopping"])
  /\ UNCHANGED <<storeVars, adding, channel, panicked>>

\* Mutant: the lock is not taken.
StopWatch_NoLock(c) ==
  /\ watches[c].label = "stopping"
  /\ SetWatch(c, [label |-> "stopped"])
  /\ channel' = [channel EXCEPT ![c] = << >>]
  /\ UNCHANGED <<storeVars, adding, panicked>>

\* close and delete
StopWatch(c) ==
  /\ watches[c].label = "stopping" /\ Readers = {}
  /\ SetWatch(c, [label |-> "stopped"])
  /\ channel' = [channel EXCEPT ![c] = << >>]
  /\ UNCHANGED <<storeVars, adding, panicked>>

\* the message says that there is no such watcher, and close takes it from nil
StopAgain(c) ==
  /\ watches[c].label = "stopped" /\ Readers = {}
  /\ panicked' = TRUE
  /\ UNCHANGED <<storeVars, adding, watches, channel>>

Adding(a) == FindWatchers(a) \/ Send(a) \/ AddReturns(a)
Client(c) ==
  \/ \E r \in WatchRequests : AskWatch(c, r)
  \/ WatchEvents(c) \/ Receive(c) \/ StopListening(c)
  \/ StopWatch(c) \/ StopAgain(c)

-----------------------------------------------------------------------------
StoredEvents == [id : 1 .. added, type : Types, container : Containers, time : Times]

EventTypeOK ==
  /\ added \in Nat
  /\ \A t \in Types : /\ eventStore[t] \in Seq(StoredEvents) /\ Len(eventStore[t]) <= MaxItems
  /\ \A a \in Adders : At(a, "sending") => adding[a].to \in Seq(Clients)
  /\ \A c \in Clients : /\ channel[c] \in Seq(1 .. added) /\ Len(channel[c]) <= ChannelCap
                        /\ c \in Watching => watches[c].request \in WatchRequests
  /\ panicked \in BOOLEAN

(* AddEvent never sends on a channel that StopWatch closed: who it found   *)
(* under watcherLock is still a watcher (events/handler.go:301-306, 314).  *)
SendsAreOpen == \A a \in Adders : At(a, "sending") => Range(adding[a].to) \subseteq Watching

-----------------------------------------------------------------------------
(* The store against a definition by sets, for bounded sequences of added  *)
(* events.                                                                 *)

Oldest(events) ==
  { e \in events : \A f \in events :
      Before(e, f) \/ (e.time = f.time /\ e.id <= f.id) }
Keep(events, e) ==
  LET rest == IF Cardinality(events) < MaxItems THEN events ELSE events \ Oldest(events)
  IN {e} \cup { f \in rest : f.time > e.time - MaxAge }
KeepIn(kept, e) == [kept EXCEPT ![e.type] = Keep(@, e)]

Match(events, r) == { e \in events : Satisfies(e, r) }
Sorted(s) == \A i, j \in DOMAIN s : i <= j => s[i].time <= s[j].time
IsLast(es, events, n) ==
  /\ Len(es) = (IF n = NoLimit THEN Cardinality(events) ELSE Min({n, Cardinality(events)}))
  /\ Sorted(es) /\ IsInjective(es) /\ Range(es) \subseteq events
  /\ \A e \in events \ Range(es), f \in Range(es) : e.time <= f.time
IsAnswer(es, kept, r) ==
  IF r.container = AnyContainer \/ r.max = NoLimit \/ (r.start # NoTime /\ r.end # NoTime)
  THEN IsLast(es, Match(kept, r), r.max)
  ELSE IsLast(es, Range(es) \cap Match(kept, r), r.max)

(* GetEvents returns, sorted, the last MaxEventsReturned of the events     *)
(* that satisfy the request and were neither displaced in a full store nor *)
(* too old when a later one was added, unless the request names a          *)
(* container and leaves one end open: then the limit was applied before    *)
(* others were left out, and fewer may come (events/handler.go:222-245,    *)
(* timed_store.go:46-132).                                                 *)
QueriesAreExact(adds, r) ==
  LET store == FoldLeft(AddTo, [t \in Types |-> << >>], adds)
      kept == FoldLeft(KeepIn, [t \in Types |-> {}], adds)
  IN IsAnswer(GetEvents(store, r), UNION { kept[t] : t \in Types }, r)
=============================================================================
