------------------------------- MODULE Events -------------------------------
(***************************************************************************)
(* The events of the manager (watchForNewOoms, WatchForEvents,             *)
(* GetPastEvents and CloseEventChannel of src/domeagent/monitor/manager.go)*)
(* : the instances of OomStream become events of EventStore, beside those  *)
(* of containers that are created and deleted.  A client that does not     *)
(* receive holds the publisher up, and with it the parser and the reader.  *)
(***************************************************************************)
EXTENDS OomStream, EventStore

CONSTANTS
  ContainerOf,  \* the name that is an instance's ContainerName, for each number of one
  VictimOf,     \* and its VictimContainerName
  Changing,     \* containers that are created and deleted
  MaxChanges,   \* bound: containers created and deleted
  QueryAdds,    \* the sequences of events the store is checked with
  QueryRequests \* the requests it is checked with

ASSUME PublisherAssumption ==
  /\ Adders = {"manager", "publisher"} /\ Types = {"oom", "oomKill", "creation"}
  /\ ContainerOf \in [0 .. MaxOoms -> Containers]
  /\ VictimOf \in [-MaxOoms .. 0 -> Containers]
  /\ Changing \subseteq Containers /\ MaxChanges \in Nat
  /\ \A s \in QueryAdds : s \in Seq(AnyEvents) /\ \A i \in DOMAIN s : s[i].id = i
  /\ QueryRequests \subseteq
       { r \in Requests : r.start # NoTime /\ r.end # NoTime => r.start <= r.end }

VARIABLES publishing, \* the types and containers of the events to add for an instance
          changes     \* number of containers created and deleted
vars == <<oomVars, eventVars, publishing, changes>>

Init == OomInit /\ EventInit /\ publishing = << >> /\ changes = 0

\* the kills that the log tells of when the agent starts are old
OldTime == 1

-----------------------------------------------------------------------------
TakeInstance ==
  /\ publishing = << >> /\ outStream # << >> /\ At("publisher", "idle")
  /\ LET oom == Head(outStream)
     IN publishing' = << <<"oom", ContainerOf[oom.container]>>,
                         <<"oomKill", VictimOf[oom.victim]>> >>
  /\ outStream' = Tail(outStream)
  /\ UNCHANGED <<logVars, readVars, parserPc, instance, taken, reported,
                 eventVars, changes>>

\* Mutant: an instance is one event.
Publish_Once ==
  /\ publishing # << >>
  /\ Update("publisher", publishing[1][1], publishing[1][2], OldTime)
  /\ publishing' = << >>
  /\ UNCHANGED <<oomVars, changes>>

Publish ==
  /\ publishing # << >>
  /\ Update("publisher", publishing[1][1], publishing[1][2], OldTime)
  /\ publishing' = Tail(publishing)
  /\ UNCHANGED <<oomVars, changes>>

\* createContainer and destroyContainer
ContainerChanged ==
  /\ changes < MaxChanges
  /\ \E c \in Changing : Update("manager", "creation", c, MaxTime)
  /\ changes' = changes + 1
  /\ UNCHANGED <<oomVars, publishing>>

AddingStep == /\ \E a \in Adders : Adding(a)
              /\ UNCHANGED <<oomVars, publishing, changes>>
ClientStep == /\ \E c \in Clients : Client(c)
              /\ UNCHANGED <<oomVars, publishing, changes>>
OomStep == /\ Kernel \/ Reader \/ Parser
           /\ UNCHANGED <<eventVars, publishing, changes>>

Running == ~ panicked /\ parserPc # "fatal"
Next == Running /\ (\/ TakeInstance \/ Publish \/ ContainerChanged
                    \/ AddingStep \/ ClientStep \/ OomStep)
Spec == Init /\ [][Next]_vars

\* Goroutines that may go on do, and a client that listens receives what is
\* in its channel and has the lock when it is free; nothing makes the kernel
\* write, or a client call.
Fairness ==
  /\ WF_vars(Running /\ (TakeInstance \/ Publish))
  /\ WF_vars(Running /\ Reader /\ UNCHANGED <<eventVars, publishing, changes>>)
  /\ WF_vars(Running /\ Parser /\ UNCHANGED <<eventVars, publishing, changes>>)
  /\ \A a \in Adders :
       WF_vars(Running /\ Adding(a) /\ UNCHANGED <<oomVars, publishing, changes>>)
  /\ \A c \in Clients :
       WF_vars(/\ Running /\ (WatchEvents(c) \/ StopWatch(c) \/ Receive(c))
               /\ UNCHANGED <<oomVars, publishing, changes>>)
FairSpec == Spec /\ Fairness

-----------------------------------------------------------------------------
TypeOK ==
  /\ OomTypeOK /\ EventTypeOK
  /\ publishing \in Seq({"oom", "oomKill"} \X Containers) /\ Len(publishing) <= 2
  /\ changes \in 0 .. MaxChanges

\* a client does not empty its channel any more
HeldUp == \E c \in Clients : /\ watches[c].label = "stopping"
                             /\ Len(channel[c]) = ChannelCap
Ended(n) == \E i \in Of(n, "kill") : i < Len(log)
BothAdded(n) == \E i \in DOMAIN reported :
                  reported[i].killed = n /\ added - changes >= 2 * i

(* A kill that is in the log with a line after it becomes two events at    *)
(* last, an OOM and an OOM kill, unless KillsAreReported leaves it out, a  *)
(* client stopped listening with its channel full, or the process ended:   *)
(* StopWatch panicked, or a last line could not be parsed                  *)
(* (oomparser.go:121-150, manager.go:551-583, events/handler.go:300-310).  *)
KillsBecomeEvents ==
  \A n \in 1 .. MaxOoms :
    n \in DOMAIN readable /\ Ended(n) /\ ~ Covered(n)
      ~> BothAdded(n) \/ HeldUp \/ ~ Running

(* GetEvents answers as QueriesAreExact says, for the sequences of events  *)
(* and the requests of the instance, which no state changes               *)
(* (events/handler.go:222-245, timed_store.go:46-132).                     *)
AllAreExact == \A s \in QueryAdds, r \in QueryRequests : QueriesAreExact(s, r)
AnswersAreExact == added = 0 => AllAreExact
=============================================================================
