--------------------------- MODULE ContainerStats ---------------------------
(***************************************************************************)
(* The way of a container's stats (housekeeping and updateStats of         *)
(* src/domeagent/monitor/container.go) into InfluxDB (AddStatsSampling and *)
(* AddStats of src/domeagent/monitor/storage/influxdb/influxdb.go): one    *)
(* goroutine per container, a keeper here, makes a point in each round,    *)
(* writes it to the retention policies whose interval is due, and appends  *)
(* it to the buffer that all keepers share.  A unit of time is one         *)
(* housekeepingInterval.                                                   *)
(***************************************************************************)
EXTENDS Integers, FiniteSets

CONSTANTS
  Keepers,        \* the housekeeping goroutines
  Names,          \* what getSeriesContainerName returns of their containers
  NameOf,         \* keeper -> name: a new container may take an old one's
  Intervals,      \* the keys of InfluxdbSamplingDatabases
  BufferDuration,
  MaxTime         \* bound: the time

ASSUME KeeperAssumption == NameOf \in [Keepers -> Names] /\ IsFiniteSet(Keepers)
ASSUME TimeAssumption == Intervals \subseteq Nat \ {0} /\ {BufferDuration, MaxTime} \subseteq Nat

VARIABLES
  now,  \* counted from influxdb.New
  \* per keeper: its label, lastHousekeeping, its point's time, the
  \* intervals to go, the one it samples, the counter it read, its points to flush
  keeper,
  \* lastSamplingParamsMap: per name whether it has an entry; per name and
  \* interval startSamplingTime and counter
  sampled, start, counter,
  \* influxdbStorage: how many points, and lastWrite
  points, lastWrite,
  \* history: points made that are neither in InfluxDB nor lost; per name and
  \* interval the samples written, and those decided on while a rival took one
  underWay, samples, overlaps

samplingVars == <<sampled, start, counter, samples, overlaps>>
storageVars == <<points, lastWrite>>
statsVars == <<now, keeper, samplingVars, storageVars, underWay>>

Idle == [label |-> "off", last |-> 0, at |-> 0, todo |-> {}, interval |-> 0,
         read |-> 0, toFlush |-> 0]

Zero == [n \in Names |-> [i \in Intervals |-> 0]]

StatsInit ==
  /\ now = 0 /\ keeper = [k \in Keepers |-> Idle]
  /\ sampled = {} /\ start = [n \in Names |-> 0] /\ counter = Zero
  /\ points = 0 /\ lastWrite = 0
  /\ underWay = 0 /\ samples = Zero /\ overlaps = Zero

Keeps(k, label) == keeper[k].label = label
Set(k, r) == keeper' = [keeper EXCEPT ![k] = r]

Tick == /\ now < MaxTime /\ now' = now + 1
        /\ UNCHANGED <<keeper, samplingVars, storageVars, underWay>>

-----------------------------------------------------------------------------
(* housekeeping                                                            *)

StartKeeper(k) ==
  /\ Keeps(k, "off")
  /\ Set(k, [Idle EXCEPT !.label = "wait", !.last = now])
  /\ UNCHANGED <<now, samplingVars, storageVars, underWay>>

Awake(k) == Keeps(k, "wait") /\ now >= keeper[k].last

\* c.stop is looked at between two rounds only
StopKeeper(k) ==
  /\ Awake(k)
  /\ Set(k, Idle)
  /\ UNCHANGED <<now, samplingVars, storageVars, underWay>>

\* nextHousekeeping: a round that is late is followed by one at once
Schedule(k) ==
  LET next == keeper[k].last + 1
  IN  Set(k, [Idle EXCEPT !.label = "wait", !.last = IF now < next THEN next ELSE now])

\* The stats are nil when the cgroup cannot be read, and may be partial: those
\* go on like others.
NoStats(k) ==
  /\ Awake(k)
  /\ Schedule(k)
  /\ UNCHANGED <<now, samplingVars, storageVars, underWay>>

\* GetStats, and the entry for a name that lastSamplingParamsMap does not have
GetStats(k) ==
  /\ Awake(k)
  /\ underWay' = underWay + 1
  /\ IF NameOf[k] \in sampled
       THEN /\ Set(k, [keeper[k] EXCEPT !.label = "sample", !.at = now, !.todo = Intervals])
            /\ UNCHANGED <<sampled, start, counter>>
       ELSE /\ Set(k, [keeper[k] EXCEPT !.label = "sample", !.at = now])
            /\ sampled' = sampled \cup {NameOf[k]}
            /\ start' = [start EXCEPT ![NameOf[k]] = now]
            /\ counter' = [counter EXCEPT ![NameOf[k]] = [i \in Intervals |-> 1]]
  /\ UNCHANGED <<now, samples, overlaps, storageVars>>

-----------------------------------------------------------------------------
(* AddStatsSampling: no lock between the test, the write and the counter.  *)

\* Mutant: the time since the start is compared with the interval alone.
Due_NoCounter(k, i) == keeper[k].at - start[NameOf[k]] >= i

Due(k, i) == keeper[k].at - start[NameOf[k]] >= counter[NameOf[k]][i] * i

\* Those that write a sample of the same name and interval, or have not
\* counted theirs yet.
Rivals(k, i) == {q \in Keepers \ {k} : /\ NameOf[q] = NameOf[k]
                                       /\ keeper[q].label \in {"write", "count"}
                                       /\ keeper[q].interval = i}

\* Intervals that are not due are passed over.
SampleIsDue(k) ==
  /\ Keeps(k, "sample")
  /\ \E i \in keeper[k].todo :
       /\ Due(k, i)
       /\ Set(k, [keeper[k] EXCEPT !.label = "write", !.todo = @ \ {i}, !.interval = i])
       /\ overlaps' = [overlaps EXCEPT ![NameOf[k]][i] = @ + Cardinality(Rivals(k, i))]
  /\ UNCHANGED <<now, sampled, start, counter, samples, storageVars, underWay>>

\* The sample is in InfluxDB; the counter is read again for its successor.
WriteSample(k) ==
  LET n == NameOf[k]  i == keeper[k].interval
  IN  /\ Keeps(k, "write")
      /\ samples' = [samples EXCEPT ![n][i] = @ + 1]
      /\ Set(k, [keeper[k] EXCEPT !.label = "count", !.read = counter[n][i]])
      /\ UNCHANGED <<now, sampled, start, counter, overlaps, storageVars, underWay>>

CountSample(k) ==
  /\ Keeps(k, "count")
  /\ counter' = [counter EXCEPT ![NameOf[k]][keeper[k].interval] = keeper[k].read + 1]
  /\ Set(k, [keeper[k] EXCEPT !.label = "sample", !.interval = 0, !.read = 0])
  /\ UNCHANGED <<now, sampled, start, samples, overlaps, storageVars, underWay>>

\* AddStats returns the error: the point does not get to the buffer either.
WriteFails(k) ==
  /\ Keeps(k, "write")
  /\ underWay' = underWay - 1
  /\ Schedule(k)
  /\ UNCHANGED <<now, samplingVars, storageVars>>

Sampled(k) == Keeps(k, "sample") /\ \A i \in keeper[k].todo : ~ Due(k, i)

-----------------------------------------------------------------------------
(* AddStats: the lock covers the appending and the taking of the buffer.   *)

ReadyToFlush == now - lastWrite >= BufferDuration

\* Mutant: the buffer is not emptied when it is taken.
AppendPoint_Keep(k) ==
  /\ Sampled(k)
  /\ points' = points + 1
  /\ IF ReadyToFlush
       THEN /\ Set(k, [Idle EXCEPT !.label = "flush", !.last = keeper[k].last,
                              !.toFlush = points + 1])
            /\ lastWrite' = now
       ELSE Schedule(k) /\ UNCHANGED lastWrite
  /\ UNCHANGED <<now, samplingVars, underWay>>

AppendPoint(k) ==
  /\ Sampled(k)
  /\ IF ReadyToFlush
       THEN /\ Set(k, [Idle EXCEPT !.label = "flush", !.last = keeper[k].last,
                              !.toFlush = points + 1])
            /\ points' = 0 /\ lastWrite' = now
       ELSE points' = points + 1 /\ Schedule(k) /\ UNCHANGED lastWrite
  /\ UNCHANGED <<now, samplingVars, underWay>>

FlushWorks(k) ==
  /\ Keeps(k, "flush")
  /\ underWay' = underWay - keeper[k].toFlush
  /\ Schedule(k)
  /\ UNCHANGED <<now, samplingVars, storageVars>>

\* A batch that cannot be written is logged and gone.
FlushFails(k) ==
  /\ Keeps(k, "flush")
  /\ underWay' = underWay - keeper[k].toFlush
  /\ Schedule(k)
  /\ UNCHANGED <<now, samplingVars, storageVars>>

\* the steps that wait for no other component
KeeperStep(k) ==
  \/ NoStats(k) \/ GetStats(k) \/ SampleIsDue(k) \/ CountSample(k) \/ AppendPoint(k)

-----------------------------------------------------------------------------
\* the points a keeper has, and all of them, each named by its keeper and a number
Holding(r) == CASE r.label \in {"off", "wait"} -> 0
                [] r.label = "flush" -> r.toFlush
                [] OTHER -> 1
InHand == Cardinality(UNION {{k} \X (1 .. Holding(keeper[k])) : k \in Keepers})

\* The end of the process takes everything; the next one starts at time 0.
ProcessEnds ==
  /\ now' = 0 /\ keeper' = [k \in Keepers |-> Idle]
  /\ sampled' = {} /\ start' = [n \in Names |-> 0] /\ counter' = Zero
  /\ samples' = Zero /\ overlaps' = Zero
  /\ points' = 0 /\ lastWrite' = 0
  /\ underWay' = underWay - points - InHand

-----------------------------------------------------------------------------

Round == [label : {"off", "wait", "sample", "write", "count", "flush"},
          last : 0..MaxTime + 1, at : 0..MaxTime, todo : SUBSET Intervals,
          interval : Intervals \cup {0}, read : Nat, toFlush : Nat]

StatsTypeOK ==
  /\ now \in 0..MaxTime /\ keeper \in [Keepers -> Round]
  /\ sampled \subseteq Names /\ start \in [Names -> 0..MaxTime]
  /\ {counter, samples, overlaps} \subseteq [Names -> [Intervals -> Nat]]
  /\ points \in Nat /\ lastWrite \in 0..MaxTime
  /\ underWay \in Nat

\* A point that GetStats made, until InfluxDB has it or a write that failed has
\* lost it, is in one place: in the hand of its keeper, in the buffer, or in a
\* batch that a keeper took.  No point is written twice and none falls between two flushes
\* of keepers that run at once.
PointsConserved == underWay = points + InHand

\* The samples of a container are at least their interval apart on average,
\* counted from the first round of its name: only a keeper that decided while
\* another one of the same name was writing may have written one more.
SamplesAreSpaced ==
  \A n \in sampled, i \in Intervals : (samples[n][i] - overlaps[n][i]) * i <= now - start[n]
=============================================================================
