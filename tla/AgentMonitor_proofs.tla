------------------------ MODULE AgentMonitor_proofs ------------------------
(***************************************************************************)
(* What AgentMonitor keeps for any number of hosts, policies, keepers and  *)
(* faults: the retention policies (AgentStart), the points and the         *)
(* distance of the samples (ContainerStats).                               *)
(***************************************************************************)
EXTENDS AgentMonitor, FiniteSetTheorems, TLAPS

-----------------------------------------------------------------------------
(* The start of the agents.                                                *)

StartInv == StartTypeOK /\ PoliciesAreKept

LEMMA StartInitInv == StartInit => StartInv
BY FaultAssumption DEF StartInit, StartInv, StartTypeOK, Labels, PoliciesAreKept

\* The end of a process: what it had to do is forsaken.
LEMMA DownInv ==
  ASSUME StartInv, NEW h \in Hosts, Down(h),
         faults' \in 0 .. MaxFaults, deaths' \in 0 .. MaxDeaths
  PROVE  StartInv'
<1>1. StartTypeOK'
  BY DEF StartInv, StartTypeOK, Down, Goto, Labels, influxVars
<1>2. PoliciesAreKept'
  BY DEF StartInv, StartTypeOK, PoliciesAreKept, Down, Goto, influxVars
<1> QED BY <1>1, <1>2 DEF StartInv

\* A step that leaves the policies and what is to do alone may go to any label
\* but from "drop".
LEMMA GotoInv ==
  ASSUME StartInv, NEW h \in Hosts, NEW label \in Labels, Goto(h, label), pc[h] # "drop",
         parameters' \in [Hosts -> BOOLEAN], database' \in BOOLEAN,
         UNCHANGED <<todo, policies, forsaken>>,
         faults' \in 0 .. MaxFaults, deaths' \in 0 .. MaxDeaths
  PROVE  StartInv'
<1>1. StartTypeOK'
  BY DEF StartInv, StartTypeOK, Goto
<1>2. PoliciesAreKept'
  BY DEF StartInv, StartTypeOK, PoliciesAreKept, Goto
<1> QED BY <1>1, <1>2 DEF StartInv

\* Before the policies are touched.
LEMMA SetUpStep ==
  ASSUME StartInv, NEW h \in Hosts,
         \/ SetConfiguration(h) \/ Register(h) \/ ShowDatabases(h) \/ CreateDatabase(h)
         \/ MonitorNew(h) \/ MonitorStart(h) \/ Die(h) \/ Restart(h)
  PROVE  StartInv'
<1> USE FaultAssumption
<1>1. StartTypeOK
  BY DEF StartInv
<1>2. CASE SetConfiguration(h)
  <2>1. faults' \in 0 .. MaxFaults
    BY <1>1, <1>2 DEF SetConfiguration, Fault, StartTypeOK
  <2>2. parameters' \in [Hosts -> BOOLEAN]
    BY <1>1, <1>2 DEF SetConfiguration, StartTypeOK
  <2> QED BY <1>1, <1>2, <2>1, <2>2, GotoInv
          DEF SetConfiguration, StartTypeOK, Labels, influxVars
<1>3. CASE Register(h)
  <2>1. CASE Down(h)
    BY <1>1, <1>3, <2>1, DownInv DEF Register, Fault, StartTypeOK
  <2>2. CASE ~ Down(h)
    BY <1>1, <1>3, <2>2, GotoInv DEF Register, StartTypeOK, Labels, influxVars
  <2> QED BY <2>1, <2>2
<1>4. CASE ShowDatabases(h)
  <2>1. CASE Down(h)
    BY <1>1, <1>4, <2>1, DownInv DEF ShowDatabases, Panics, Fails, Fault, StartTypeOK
  <2>2. CASE ~ Down(h)
    BY <1>1, <1>4, <2>2, GotoInv
    DEF ShowDatabases, Panics, Fails, StartTypeOK, Labels, influxVars
  <2> QED BY <2>1, <2>2
<1>5. CASE CreateDatabase(h)
  <2>1. faults' \in 0 .. MaxFaults
    BY <1>1, <1>5 DEF CreateDatabase, Fails, Fault, StartTypeOK
  <2>2. CASE Down(h)
    BY <1>1, <1>5, <2>1, <2>2, DownInv DEF CreateDatabase, Fails, StartTypeOK
  <2>3. CASE ~ Down(h)
    BY <1>1, <1>5, <2>1, <2>3, GotoInv DEF CreateDatabase, Fails, StartTypeOK, Labels
  <2> QED BY <2>2, <2>3
<1>6. CASE MonitorNew(h)
  <2>1. CASE Down(h)
    BY <1>1, <1>6, <2>1, DownInv DEF MonitorNew, Fails, Fault, StartTypeOK
  <2>2. CASE ~ Down(h)
    BY <1>1, <1>6, <2>2, GotoInv DEF MonitorNew, Fails, StartTypeOK, Labels, influxVars
  <2> QED BY <2>1, <2>2
<1>7. CASE MonitorStart(h)
  <2>1. faults' \in 0 .. MaxFaults
    BY <1>1, <1>7 DEF MonitorStart, Fault, StartTypeOK
  <2>2. PICK label \in {"running", "noMonitor"} : Goto(h, label)
    BY <1>7 DEF MonitorStart
  <2> QED BY <1>1, <1>7, <2>1, <2>2, GotoInv
          DEF MonitorStart, StartTypeOK, Labels, influxVars
<1>8. CASE Die(h)
  BY <1>1, <1>8, DownInv DEF Die, StartTypeOK
<1>9. CASE Restart(h)
  BY <1>1, <1>9, GotoInv DEF Restart, StartTypeOK, Labels, influxVars
<1> QED BY <1>2, <1>3, <1>4, <1>5, <1>6, <1>7, <1>8, <1>9

\* While a host is at "drop" any policy may be missing; then each one is its
\* to create, or created, or forsaken.
LEMMA PolicyStep ==
  ASSUME StartInv, NEW h \in Hosts,
         \/ ShowPolicies(h) \/ DropPolicy(h) \/ DropPolicies(h) \/ CreatePolicy(h)
  PROVE  StartInv'
<1> USE FaultAssumption
<1>1. StartTypeOK /\ PoliciesAreKept
  BY DEF StartInv
<1>2. CASE ShowPolicies(h)
  <2>1. CASE Down(h)
    BY <1>1, <1>2, <2>1, DownInv DEF ShowPolicies, Panics, Fails, Fault, StartTypeOK
  <2>2. CASE ~ Down(h)
    <3>1. /\ Goto(h, "drop") /\ todo' = [todo EXCEPT ![h] = policies]
          /\ UNCHANGED <<parameters, influxVars, faults, deaths, forsaken>>
      BY <1>2, <2>2 DEF ShowPolicies, Panics, Fails
    <3>2. StartTypeOK'
      BY <1>1, <3>1 DEF StartTypeOK, Goto, Labels, influxVars
    <3>3. PoliciesAreKept'
      BY <1>1, <3>1 DEF StartTypeOK, PoliciesAreKept, Goto, influxVars
    <3> QED BY <3>2, <3>3 DEF StartInv
  <2> QED BY <2>1, <2>2
<1>3. CASE DropPolicy(h)
  <2>1. CASE Down(h)
    BY <1>1, <1>3, <2>1, DownInv DEF DropPolicy, Panics, Fails, Fault, StartTypeOK
  <2>2. CASE ~ Down(h)
    <3>1. PICK p \in Policies :
            /\ Statement(h, p)
            /\ \/ policies' = policies \ {p} /\ UNCHANGED faults
               \/ Fault /\ UNCHANGED policies
            /\ UNCHANGED <<pc, parameters, database, deaths, forsaken>>
      BY <1>3, <2>2 DEF DropPolicy, Panics, Fails
    <3>2. StartTypeOK'
      BY <1>1, <3>1 DEF StartTypeOK, Statement, Fault
    <3>3. PoliciesAreKept'
      BY <1>1, <1>3, <3>1 DEF DropPolicy, Fails, Panics, Down, Goto, StartTypeOK, PoliciesAreKept
    <3> QED BY <3>2, <3>3 DEF StartInv
  <2> QED BY <2>1, <2>2
<1>4. CASE DropPolicies(h)
  <2>1. StartTypeOK'
    BY <1>1, <1>4 DEF DropPolicies, StartTypeOK, Goto, Labels, influxVars
  <2>2. PoliciesAreKept'
    BY <1>1, <1>4 DEF DropPolicies, StartTypeOK, PoliciesAreKept, Goto, influxVars
  <2> QED BY <2>1, <2>2 DEF StartInv
<1>5. CASE CreatePolicy(h)
  <2>1. CASE Down(h)
    BY <1>1, <1>5, <2>1, DownInv DEF CreatePolicy, Panics, Fails, Fault, StartTypeOK
  <2>2. CASE ~ Down(h)
    <3>1. PICK p \in Policies :
            /\ Statement(h, p)
            /\ \/ /\ policies' = policies \cup {p} /\ forsaken' = forsaken \ {p}
                  /\ UNCHANGED faults
               \/ /\ Fault /\ UNCHANGED policies
                  /\ forsaken' = forsaken \cup ({p} \ policies)
            /\ UNCHANGED <<pc, parameters, database, deaths>>
      BY <1>5, <2>2 DEF CreatePolicy, Panics, Fails
    <3>2. StartTypeOK'
      BY <1>1, <3>1 DEF StartTypeOK, Statement, Fault
    <3>3. PoliciesAreKept'
      BY <1>1, <3>1 DEF StartTypeOK, PoliciesAreKept, Statement
    <3> QED BY <3>2, <3>3 DEF StartInv
  <2> QED BY <2>1, <2>2
<1> QED BY <1>2, <1>3, <1>4, <1>5

\* The monitor that runs beside the starts changes the count of faults only.
LEMMA StartNextInv == StartInv /\ [Next]_vars => StartInv'
<1> SUFFICES ASSUME StartInv, [Next]_vars PROVE StartInv'
  OBVIOUS
<1>1. CASE \E h \in Hosts : StartStep(h)
  BY <1>1, SetUpStep, PolicyStep DEF StartStep
<1>2. CASE /\ UNCHANGED <<pc, parameters, todo, database, policies, deaths, forsaken>>
           /\ Fault \/ UNCHANGED faults
  <2>1. faults' \in 0 .. MaxFaults
    BY <1>2, FaultAssumption DEF StartInv, StartTypeOK, Fault
  <2> QED BY <1>2, <2>1 DEF StartInv, StartTypeOK, PoliciesAreKept
<1>3. CASE UNCHANGED startVars
  BY <1>2, <1>3 DEF startVars, agentVars, influxVars
<1>4. CASE \E k \in Keepers : Sample(k) \/ FlushPoints(k)
  BY <1>2, <1>4 DEF Sample, FlushPoints, agentVars, influxVars
<1> QED BY <1>1, <1>3, <1>4, LocalAssumption
        DEF Next, vars, Time, Elsewhere, Here, Containers, Keeping

\* The retention policies are missing only while a start is at them, or after
\* one that was cut short: for any number of hosts and of policies.
THEOREM PoliciesAreAlwaysKept == Spec => []PoliciesAreKept
<1>1. Init => StartInv
  BY StartInitInv DEF Init
<1>2. StartInv => PoliciesAreKept
  BY DEF StartInv
<1> QED BY <1>1, <1>2, StartNextInv, PTL DEF Spec

-----------------------------------------------------------------------------
(* The clock and the buffer.                                               *)

\* What a step of AgentMonitor does to the stats.
StatsStep ==
  \/ ProcessEnds \/ Tick \/ UNCHANGED statsVars
  \/ \E k \in Keepers :
       \/ StartKeeper(k) \/ StopKeeper(k) \/ NoStats(k) \/ GetStats(k)
       \/ SampleIsDue(k) \/ WriteSample(k) \/ WriteFails(k) \/ CountSample(k)
       \/ AppendPoint(k) \/ FlushWorks(k) \/ FlushFails(k)

LEMMA NextStatsStep == [Next]_vars => StatsStep
BY DEF Next, vars, Time, Elsewhere, Here, Containers, Keeping, Sample, FlushPoints,
       KeeperStep, StatsStep

ClockInv == now \in Nat /\ lastWrite \in 0 .. now /\ points \in Nat

LEMMA ClockNext == ClockInv /\ StatsStep => ClockInv'
<1> SUFFICES ASSUME ClockInv, StatsStep PROVE ClockInv'
  OBVIOUS
<1> USE DEF ClockInv
<1>1. CASE UNCHANGED <<now, points, lastWrite>>
  BY <1>1
<1>2. CASE Tick
  BY <1>2 DEF Tick, storageVars
<1>3. CASE ProcessEnds
  BY <1>3 DEF ProcessEnds
<1>4. ASSUME NEW k \in Keepers, AppendPoint(k)
      PROVE  ClockInv'
  BY <1>4 DEF AppendPoint
<1> QED BY <1>1, <1>2, <1>3, <1>4
        DEF StatsStep, statsVars, storageVars, samplingVars, StartKeeper, StopKeeper, NoStats,
            GetStats, SampleIsDue, WriteSample, WriteFails, CountSample, FlushWorks, FlushFails

-----------------------------------------------------------------------------
(* The samples.                                                            *)

Hold == [label : {"off", "wait", "sample", "write", "count", "flush"},
         last : Nat, at : Nat, todo : SUBSET Intervals, interval : Nat,
         read : Nat, toFlush : Nat]

\* The keepers of a name that write a sample of an interval, and those that
\* write it or have yet to count it.
Writing(n, i) == {k \in Keepers : /\ NameOf[k] = n /\ keeper[k].label = "write"
                                  /\ keeper[k].interval = i}
InRound(n, i) == {k \in Keepers : /\ NameOf[k] = n /\ keeper[k].label \in {"write", "count"}
                                  /\ keeper[k].interval = i}

\* The samples decided on, less those decided on beside a rival.
Decided(n, i) == samples[n][i] + Cardinality(Writing(n, i)) - overlaps[n][i]

StatsTyped ==
  /\ now \in Nat /\ keeper \in [Keepers -> Hold]
  /\ sampled \subseteq Names /\ start \in [Names -> Nat]
  /\ counter \in [Names -> [Intervals -> Nat]]
  /\ samples \in [Names -> [Intervals -> Nat]]
  /\ overlaps \in [Names -> [Intervals -> Nat]]

\* Times are past; whoever samples does it for a name that has its entry, and
\* nothing is counted for one that has none.
Entries ==
  /\ \A n \in Names : start[n] <= now
  /\ \A k \in Keepers :
       /\ keeper[k].at <= now
       /\ keeper[k].label \in {"sample", "write", "count"} => NameOf[k] \in sampled
       /\ keeper[k].label \in {"write", "count"} => keeper[k].interval \in Intervals
  /\ \A n \in Names \ sampled, i \in Intervals : samples[n][i] = 0 /\ overlaps[n][i] = 0

\* While nobody is between the decision and the count, the counter is ahead of
\* the decisions; a rival's count cannot take it behind them.
Spaced(n, i) ==
  /\ Decided(n, i) <= counter[n][i]
  /\ InRound(n, i) = {} => Decided(n, i) + 1 <= counter[n][i]
  /\ \A k \in InRound(n, i) : keeper[k].label = "count" => Decided(n, i) <= keeper[k].read
  /\ Decided(n, i) * i <= now - start[n]

SpacedInv == StatsTyped /\ Entries /\ \A n \in sampled, i \in Intervals : Spaced(n, i)

LEMMA FiniteRounds ==
  ASSUME NEW n, NEW i
  PROVE  /\ IsFiniteSet(Writing(n, i)) /\ Cardinality(Writing(n, i)) \in Nat
         /\ IsFiniteSet(InRound(n, i)) /\ Cardinality(InRound(n, i)) \in Nat
BY KeeperAssumption, FS_Subset, FS_CardinalityType DEF Writing, InRound

\* What is decided is a number.
LEMMA DecidedType ==
  ASSUME StatsTyped, NEW n \in Names, NEW i \in Intervals
  PROVE  /\ Decided(n, i) \in Int /\ counter[n][i] \in Nat /\ samples[n][i] \in Nat
         /\ overlaps[n][i] \in Nat /\ start[n] \in Nat /\ i \in Nat
BY FiniteRounds, TimeAssumption DEF StatsTyped, Decided

\* A step that leaves those in a round of a name and interval alone, and what
\* is counted of them, keeps its samples apart.
LEMMA Undisturbed ==
  ASSUME StatsTyped, NEW n \in Names, NEW i \in Intervals, Spaced(n, i),
         now' \in Nat, now <= now', start'[n] = start[n], counter'[n][i] = counter[n][i],
         samples'[n][i] = samples[n][i], overlaps'[n][i] = overlaps[n][i],
         InRound(n, i)' = InRound(n, i), \A k \in InRound(n, i) : keeper'[k] = keeper[k]
  PROVE  Spaced(n, i)'
<1>1. Writing(n, i)' = Writing(n, i)
  <2>1. Writing(n, i) = {k \in InRound(n, i) : keeper[k].label = "write"}
    BY DEF Writing, InRound
  <2>2. Writing(n, i)' = {k \in InRound(n, i)' : keeper'[k].label = "write"}
    BY DEF Writing, InRound
  <2> QED BY <2>1, <2>2
<1>2. Decided(n, i)' = Decided(n, i)
  BY <1>1 DEF Decided
<1>3. Decided(n, i) * i <= now' - start[n]
  <2>1. now \in Nat /\ start[n] \in Nat /\ Decided(n, i) * i \in Int
    BY DecidedType DEF StatsTyped
  <2> QED BY <2>1 DEF Spaced
<1> QED BY <1>2, <1>3 DEF Spaced

\* What a keeper does that is in no round of a name and interval, before or after.
LEMMA OtherRound ==
  ASSUME StatsTyped, NEW k \in Keepers, NEW r \in Hold, keeper' = [keeper EXCEPT ![k] = r],
         NEW n, NEW i, k \notin InRound(n, i), k \notin InRound(n, i)'
  PROVE  InRound(n, i)' = InRound(n, i) /\ \A q \in InRound(n, i) : keeper'[q] = keeper[q]
<1>1. \A q \in Keepers : q # k => keeper'[q] = keeper[q]
  BY DEF StatsTyped
<1> QED BY <1>1 DEF InRound

\* In particular one that does not sample.
LEMMA OutOfRound ==
  ASSUME StatsTyped, NEW k \in Keepers, NEW r \in Hold, keeper' = [keeper EXCEPT ![k] = r],
         {keeper[k].label, r.label} \cap {"write", "count"} = {}, NEW n, NEW i
  PROVE  InRound(n, i)' = InRound(n, i) /\ \A q \in InRound(n, i) : keeper'[q] = keeper[q]
<1>1. keeper'[k] = r
  BY DEF StatsTyped
<1>2. k \notin InRound(n, i) /\ k \notin InRound(n, i)'
  BY <1>1 DEF InRound
<1> QED BY <1>2, OtherRound

\* The rounds without a sample.
LEMMA IdleStep ==
  ASSUME SpacedInv, NEW k \in Keepers, NEW r \in Hold, keeper' = [keeper EXCEPT ![k] = r],
         {keeper[k].label, r.label} \cap {"write", "count"} = {},
         r.label # "sample", r.at <= now,
         UNCHANGED <<now, samplingVars>>
  PROVE  SpacedInv'
<1>1. StatsTyped /\ Entries
  BY DEF SpacedInv
<1>2. keeper'[k] = r /\ \A q \in Keepers : q # k => keeper'[q] = keeper[q]
  BY <1>1 DEF StatsTyped
<1>3. StatsTyped'
  BY <1>1 DEF StatsTyped, samplingVars
<1>4. Entries'
  BY <1>1, <1>2 DEF Entries, samplingVars
<1>5. ASSUME NEW n \in sampled, NEW i \in Intervals
      PROVE  Spaced(n, i)'
  <2>1. n \in Names /\ now \in Nat
    BY <1>1, <1>5 DEF StatsTyped
  <2>2. InRound(n, i)' = InRound(n, i) /\ \A q \in InRound(n, i) : keeper'[q] = keeper[q]
    BY <1>1, OutOfRound
  <2> QED BY <1>1, <2>1, <2>2, <1>5, Undisturbed DEF SpacedInv, samplingVars
<1> QED BY <1>3, <1>4, <1>5 DEF SpacedInv, samplingVars

\* A keeper's round begins; the first one of a name makes its entry.
LEMMA GetStatsStep ==
  ASSUME SpacedInv, NEW k \in Keepers, GetStats(k)
  PROVE  SpacedInv'
<1> DEFINE m == NameOf[k]
           old == [keeper[k] EXCEPT !.label = "sample", !.at = now, !.todo = Intervals]
           new == [keeper[k] EXCEPT !.label = "sample", !.at = now]
<1>1. StatsTyped /\ Entries /\ m \in Names /\ keeper[k] \in Hold /\ now \in Nat
  BY KeeperAssumption DEF SpacedInv, StatsTyped
<1>2. keeper[k].label = "wait" /\ UNCHANGED <<now, samples, overlaps>>
  BY DEF GetStats, Awake, Keeps
<1>3. /\ old \in Hold /\ old.label = "sample" /\ old.at = now
      /\ new \in Hold /\ new.label = "sample" /\ new.at = now
  <2> DEFINE h == keeper[k]
  <2>1. h \in Hold
    BY <1>1
  <2> HIDE DEF h
  <2> QED BY <1>1, <2>1 DEF Hold
<1>4. PICK r \in Hold : /\ r.label = "sample" /\ r.at = now
                        /\ keeper' = [keeper EXCEPT ![k] = r]
  BY <1>3 DEF GetStats, Set
<1>5. keeper'[k] = r /\ \A q \in Keepers : q # k => keeper'[q] = keeper[q]
  BY <1>1, <1>4 DEF StatsTyped
<1>6. /\ m \in sampled'
      /\ \/ m \in sampled /\ UNCHANGED <<sampled, start, counter>>
         \/ /\ m \notin sampled /\ sampled' = sampled \cup {m}
            /\ start' = [start EXCEPT ![m] = now]
            /\ counter' = [counter EXCEPT ![m] = [i \in Intervals |-> 1]]
  BY DEF GetStats
<1>7. StatsTyped'
  <2>1. keeper' \in [Keepers -> Hold]
    BY <1>1, <1>4 DEF StatsTyped
  <2>2. start' \in [Names -> Nat] /\ sampled' \subseteq Names
    BY <1>1, <1>6 DEF StatsTyped
  <2>3. counter' \in [Names -> [Intervals -> Nat]]
    <3>1. [i \in Intervals |-> 1] \in [Intervals -> Nat]
      OBVIOUS
    <3> QED BY <1>1, <1>6, <3>1 DEF StatsTyped
  <2> QED BY <1>1, <1>2, <2>1, <2>2, <2>3 DEF StatsTyped
<1>8. Entries'
  BY <1>1, <1>2, <1>4, <1>5, <1>6 DEF Entries, StatsTyped
<1>9. \A n, i : InRound(n, i)' = InRound(n, i) /\ \A q \in InRound(n, i) : keeper'[q] = keeper[q]
  BY <1>1, <1>2, <1>4, OutOfRound
<1>10. ASSUME NEW n \in sampled, NEW i \in Intervals
       PROVE  Spaced(n, i)'
  <2>1. n \in Names /\ start'[n] = start[n] /\ counter'[n][i] = counter[n][i]
    BY <1>1, <1>6 DEF StatsTyped
  <2> QED BY <1>1, <1>2, <1>9, <1>10, <2>1, Undisturbed DEF SpacedInv
<1>11. ASSUME m \notin sampled, NEW i \in Intervals
       PROVE  Spaced(m, i)'
  <2>1. start'[m] = now /\ counter'[m][i] = 1 /\ samples'[m][i] = 0 /\ overlaps'[m][i] = 0
    BY <1>1, <1>2, <1>6, <1>11 DEF Entries, StatsTyped
  <2>2. InRound(m, i)' = {}
    BY <1>1, <1>9, <1>11 DEF Entries, InRound
  <2>3. Writing(m, i)' = {}
    BY <2>2 DEF Writing, InRound
  <2>4. Decided(m, i)' = 0
    BY <2>1, <2>3, FS_EmptySet DEF Decided
  <2>5. i \in Nat
    BY TimeAssumption
  <2> QED BY <1>1, <1>2, <2>1, <2>2, <2>4, <2>5 DEF Spaced
<1> QED BY <1>6, <1>7, <1>8, <1>10, <1>11 DEF SpacedInv

\* A product does not grow with its smaller factor.
LEMMA Product ==
  ASSUME NEW a \in Int, NEW b \in Int, NEW i \in Nat, a <= b
  PROVE  a * i <= b * i
<1>1. (b - a) * i >= 0
  BY SMT
<1>2. (b - a) * i = b * i - a * i
  BY SMT
<1> QED BY <1>1, <1>2

\* What a decision makes of a keeper.
LEMMA DecisionType ==
  ASSUME NEW h \in Hold, NEW j \in Intervals, j \in Nat
  PROVE  LET r == [h EXCEPT !.label = "write", !.todo = @ \ {j}, !.interval = j]
         IN  r \in Hold /\ r.label = "write" /\ r.interval = j /\ r.at = h.at
BY DEF Hold

\* The decision: the first of a name and interval is due, and each that comes
\* while others are at it counts as one beside a rival.
LEMMA SampleIsDueStep ==
  ASSUME SpacedInv, NEW k \in Keepers, SampleIsDue(k)
  PROVE  SpacedInv'
<1> DEFINE m == NameOf[k]
<1>1. StatsTyped /\ Entries /\ m \in Names /\ keeper[k] \in Hold /\ now \in Nat
  BY KeeperAssumption DEF SpacedInv, StatsTyped
<1>2. PICK j \in keeper[k].todo :
        /\ Due(k, j)
        /\ keeper' = [keeper EXCEPT ![k] = [keeper[k] EXCEPT !.label = "write",
                                              !.todo = @ \ {j}, !.interval = j]]
        /\ overlaps' = [overlaps EXCEPT ![m][j] = @ + Cardinality(Rivals(k, j))]
  BY DEF SampleIsDue, Set
<1>3. /\ keeper[k].label = "sample" /\ m \in sampled
      /\ UNCHANGED <<now, sampled, start, counter, samples>>
  BY <1>1 DEF SampleIsDue, Keeps, Entries
<1>4. j \in Intervals /\ j \in Nat /\ keeper[k].at \in Nat
  BY <1>1, <1>2, TimeAssumption DEF Hold
<1>5. PICK r \in Hold : /\ r.label = "write" /\ r.interval = j /\ r.at = keeper[k].at
                        /\ keeper' = [keeper EXCEPT ![k] = r]
  BY <1>1, <1>2, <1>4, DecisionType
<1>6. keeper' = [keeper EXCEPT ![k] = r]
  BY <1>5
<1>7. keeper'[k] = r /\ \A q \in Keepers : q # k => keeper'[q] = keeper[q]
  BY <1>1, <1>6 DEF StatsTyped
<1>8. Rivals(k, j) = InRound(m, j)
  BY <1>3 DEF Rivals, InRound
<1>9. Cardinality(Rivals(k, j)) \in Nat
  BY <1>8, FiniteRounds
<1>10. StatsTyped'
  <2>1. keeper' \in [Keepers -> Hold]
    BY <1>1, <1>5, <1>6 DEF StatsTyped
  <2>2. overlaps' \in [Names -> [Intervals -> Nat]]
    <3>1. overlaps[m] \in [Intervals -> Nat] /\ overlaps[m][j] \in Nat
      BY <1>1, <1>4 DEF StatsTyped
    <3>2. overlaps[m][j] + Cardinality(Rivals(k, j)) \in Nat
      BY <1>9, <3>1
    <3>3. overlaps' = [overlaps EXCEPT ![m] = [overlaps[m] EXCEPT ![j] =
                         overlaps[m][j] + Cardinality(Rivals(k, j))]]
      BY <1>2
    <3> QED BY <1>1, <3>1, <3>2, <3>3 DEF StatsTyped
  <2> QED BY <1>1, <1>3, <2>1, <2>2 DEF StatsTyped
<1>11. Entries'
  BY <1>1, <1>2, <1>3, <1>4, <1>5, <1>7 DEF Entries, StatsTyped
<1>12. ASSUME NEW n \in sampled, NEW i \in Intervals, n # m \/ i # j
       PROVE  Spaced(n, i)'
  <2>1. n \in Names /\ overlaps'[n][i] = overlaps[n][i]
    BY <1>1, <1>2, <1>4, <1>12 DEF StatsTyped
  <2>2. InRound(n, i)' = InRound(n, i) /\ \A q \in InRound(n, i) : keeper'[q] = keeper[q]
    <3>1. k \notin InRound(n, i) /\ k \notin InRound(n, i)'
      BY <1>3, <1>5, <1>7, <1>12 DEF InRound
    <3> QED BY <1>1, <1>6, <3>1, OtherRound
  <2> QED BY <1>1, <1>3, <1>12, <2>1, <2>2, Undisturbed DEF SpacedInv
<1>13. Spaced(m, j)'
  <2> DEFINE c == counter[m][j]
             d == Decided(m, j)
             e == Decided(m, j)'
             w == Cardinality(InRound(m, j))
  <2>1. Spaced(m, j) /\ d \in Int /\ c \in Nat /\ start[m] \in Nat /\ w \in Nat
    BY <1>1, <1>3, <1>4, DecidedType, FiniteRounds DEF SpacedInv
  <2>2. Writing(m, j)' = Writing(m, j) \cup {k} /\ k \notin Writing(m, j)
    BY <1>3, <1>5, <1>7 DEF Writing
  <2>3. Cardinality(Writing(m, j)') = Cardinality(Writing(m, j)) + 1
    BY <2>2, FiniteRounds, FS_AddElement
  <2>4. samples'[m][j] = samples[m][j] /\ overlaps'[m][j] = overlaps[m][j] + w
    BY <1>1, <1>2, <1>3, <1>4, <1>8 DEF StatsTyped
  <2>5. e = d + 1 - w
    <3>1. samples[m][j] \in Nat /\ overlaps[m][j] \in Nat
      BY <1>1, <1>4 DEF StatsTyped
    <3>2. Cardinality(Writing(m, j)) \in Nat
      BY FiniteRounds
    <3>3. d = samples[m][j] + Cardinality(Writing(m, j)) - overlaps[m][j]
      BY DEF Decided
    <3>4. e = samples'[m][j] + Cardinality(Writing(m, j)') - overlaps'[m][j]
      BY DEF Decided
    <3> HIDE DEF d, e, w
    <3> QED BY <2>1, <2>3, <2>4, <3>1, <3>2, <3>3, <3>4
  <2>6. InRound(m, j)' = InRound(m, j) \cup {k}
    BY <1>3, <1>5, <1>7 DEF InRound
  <2>7. \A q \in InRound(m, j)' : keeper'[q].label = "count" =>
          q \in InRound(m, j) /\ keeper'[q] = keeper[q]
    BY <1>5, <1>7, <2>6 DEF InRound
  <2>8. CASE InRound(m, j) = {}
    <3>1. w = 0 /\ e = d + 1 /\ e <= c
      BY <2>1, <2>5, <2>8, FS_EmptySet DEF Spaced
    <3>2. e * j <= c * j
      BY <1>4, <2>1, <3>1, Product
    <3>3. c * j <= keeper[k].at - start[m] /\ keeper[k].at <= now
      BY <1>1, <1>2 DEF Due, Entries
    <3>4. e * j <= now - start[m]
      BY <1>1, <1>4, <2>1, <3>1, <3>2, <3>3
    <3>5. \A q \in InRound(m, j)' : keeper'[q].label # "count"
      BY <2>7, <2>8
    <3> HIDE DEF e, c
    <3> QED BY <1>3, <2>6, <3>1, <3>4, <3>5 DEF Spaced, e, c
  <2>9. CASE InRound(m, j) # {}
    <3>1. w # 0
      BY <2>9, FiniteRounds, FS_EmptySet
    <3>2. e <= d /\ e \in Int
      BY <2>1, <2>5, <3>1
    <3>3. e * j <= d * j /\ d * j <= now - start[m] /\ e * j \in Int /\ d * j \in Int
      BY <1>4, <2>1, <3>2, Product DEF Spaced
    <3>4. e * j <= now - start[m] /\ e <= c
      BY <1>1, <2>1, <3>2, <3>3 DEF Spaced
    <3>5. ASSUME NEW q \in InRound(m, j)', keeper'[q].label = "count"
          PROVE  e <= keeper'[q].read
      <4>1. q \in InRound(m, j) /\ keeper'[q] = keeper[q] /\ keeper[q].read \in Nat
        BY <1>1, <2>7, <3>5 DEF InRound, StatsTyped, Hold
      <4> QED BY <2>1, <3>2, <3>5, <4>1 DEF Spaced
    <3> HIDE DEF e, c
    <3> QED BY <1>3, <2>6, <3>4, <3>5 DEF Spaced, e, c
  <2> QED BY <2>8, <2>9
<1> QED BY <1>3, <1>10, <1>11, <1>12, <1>13 DEF SpacedInv

\* The write and the end of a write leave the decisions as they are, or take
\* one back.
LEMMA WriteStep ==
  ASSUME SpacedInv, NEW k \in Keepers, WriteSample(k) \/ WriteFails(k)
  PROVE  SpacedInv'
<1> DEFINE m == NameOf[k]
           written == IF WriteSample(k) THEN 1 ELSE 0
<1>1. StatsTyped /\ Entries /\ m \in Names /\ keeper[k] \in Hold /\ now \in Nat
  BY KeeperAssumption DEF SpacedInv, StatsTyped
<1>a. keeper[k].label = "write"
  BY DEF WriteSample, WriteFails, Keeps
<1>b. PICK j \in Intervals : j = keeper[k].interval
  BY <1>1, <1>a DEF Entries
<1>2. /\ keeper[k].label = "write" /\ m \in sampled /\ j \in Intervals /\ j \in Nat
      /\ keeper[k].interval = j
      /\ UNCHANGED <<now, sampled, start, counter, overlaps>>
  BY <1>1, <1>a, <1>b, TimeAssumption DEF WriteSample, WriteFails, Entries, samplingVars
<1>3. counter[m][j] \in Nat /\ samples[m][j] \in Nat
  BY <1>1, <1>2 DEF StatsTyped
<1>4. PICK r \in Hold :
        /\ keeper' = [keeper EXCEPT ![k] = r] /\ r.at <= now
        /\ IF WriteSample(k)
             THEN r.label = "count" /\ r.interval = j /\ r.read = counter[m][j]
             ELSE r.label = "wait"
  <2>1. CASE WriteSample(k)
    <3> DEFINE r == [keeper[k] EXCEPT !.label = "count", !.read = counter[m][j]]
    <3>1. /\ r \in Hold /\ r.label = "count" /\ r.interval = j /\ r.read = counter[m][j]
          /\ r.at = keeper[k].at
      BY <1>1, <1>2, <1>3 DEF Hold
    <3>2. keeper' = [keeper EXCEPT ![k] = r] /\ keeper[k].at <= now
      BY <1>1, <1>2, <2>1 DEF WriteSample, Set, Entries
    <3> QED BY <2>1, <3>1, <3>2
  <2>2. CASE ~ WriteSample(k)
    <3>1. Schedule(k)
      BY <2>2 DEF WriteFails
    <3> DEFINE next == IF now < keeper[k].last + 1 THEN keeper[k].last + 1 ELSE now
               r == [Idle EXCEPT !.label = "wait", !.last = next]
    <3>2. next \in Nat
      BY <1>1 DEF Hold
    <3> HIDE DEF next
    <3>3. r \in Hold /\ r.label = "wait" /\ r.at = 0
      BY <3>2 DEF Hold, Idle
    <3>4. keeper' = [keeper EXCEPT ![k] = r]
      BY <3>1 DEF Schedule, Set, next
    <3>5. /\ r \in Hold /\ keeper' = [keeper EXCEPT ![k] = r] /\ r.at <= now
          /\ IF WriteSample(k)
               THEN r.label = "count" /\ r.interval = j /\ r.read = counter[m][j]
               ELSE r.label = "wait"
      BY <1>1, <2>2, <3>3, <3>4
    <3> HIDE DEF r
    <3> QED BY <3>5
  <2> QED BY <2>1, <2>2
<1>5. keeper'[k] = r /\ \A q \in Keepers : q # k => keeper'[q] = keeper[q]
  BY <1>1, <1>4 DEF StatsTyped
<1>6. /\ samples'[m][j] = samples[m][j] + written
      /\ \A n \in Names, i \in Intervals : n # m \/ i # j => samples'[n][i] = samples[n][i]
      /\ samples' \in [Names -> [Intervals -> Nat]]
  <2>1. CASE WriteSample(k)
    <3>1. samples' = [samples EXCEPT ![m] = [samples[m] EXCEPT ![j] = samples[m][j] + 1]]
      BY <1>2, <2>1 DEF WriteSample
    <3>2. samples[m] \in [Intervals -> Nat] /\ samples[m][j] + 1 \in Nat
      BY <1>1, <1>2, <1>3 DEF StatsTyped
    <3> QED BY <1>1, <1>2, <2>1, <3>1, <3>2 DEF StatsTyped
  <2>2. CASE ~ WriteSample(k)
    <3>1. samples' = samples
      BY <2>2 DEF WriteFails, samplingVars
    <3> QED BY <1>1, <1>3, <2>2, <3>1 DEF StatsTyped
  <2> QED BY <2>1, <2>2
<1>7. StatsTyped'
  <2>1. keeper' \in [Keepers -> Hold]
    BY <1>1, <1>4 DEF StatsTyped
  <2> QED BY <1>1, <1>2, <1>6, <2>1 DEF StatsTyped
<1>8. Entries'
  <2>1. \A n \in Names \ sampled', i \in Intervals : samples'[n][i] = samples[n][i]
    BY <1>2, <1>6
  <2> QED BY <1>1, <1>2, <1>4, <1>5, <2>1 DEF Entries
<1>9. ASSUME NEW n \in sampled, NEW i \in Intervals, n # m \/ i # j
      PROVE  Spaced(n, i)'
  <2>1. n \in Names /\ samples'[n][i] = samples[n][i]
    BY <1>1, <1>6, <1>9 DEF StatsTyped
  <2>2. InRound(n, i)' = InRound(n, i) /\ \A q \in InRound(n, i) : keeper'[q] = keeper[q]
    <3>1. k \notin InRound(n, i) /\ k \notin InRound(n, i)'
      BY <1>2, <1>4, <1>5, <1>9 DEF InRound
    <3> QED BY <1>1, <1>4, <3>1, OtherRound
  <2>3. now' \in Nat /\ now <= now'
    BY <1>1, <1>2
  <2>4. /\ start'[n] = start[n] /\ counter'[n][i] = counter[n][i]
        /\ overlaps'[n][i] = overlaps[n][i]
    BY <1>2
  <2>5. Spaced(n, i)
    BY <1>9 DEF SpacedInv
  <2> QED BY <1>1, <2>1, <2>2, <2>3, <2>4, <2>5, Undisturbed
<1>10. Spaced(m, j)'
  <2> DEFINE c == counter[m][j]
             d == Decided(m, j)
             e == Decided(m, j)'
  <2>1. Spaced(m, j) /\ d \in Int /\ start[m] \in Nat
    BY <1>1, <1>2, DecidedType DEF SpacedInv
  <2>2. k \in InRound(m, j) /\ d <= c
    BY <1>2, <2>1 DEF InRound, Spaced
  <2>3. Writing(m, j)' = Writing(m, j) \ {k} /\ k \in Writing(m, j)
    BY <1>2, <1>4, <1>5 DEF Writing
  <2>4. Cardinality(Writing(m, j)') = Cardinality(Writing(m, j)) - 1
    BY <2>3, FiniteRounds, FS_RemoveElement
  <2>5. e = d + written - 1
    <3>1. overlaps[m][j] \in Nat /\ Cardinality(Writing(m, j)) \in Nat
      BY <1>1, <1>2, FiniteRounds DEF StatsTyped
    <3>2. d = samples[m][j] + Cardinality(Writing(m, j)) - overlaps[m][j]
      BY DEF Decided
    <3>3. e = samples'[m][j] + Cardinality(Writing(m, j)') - overlaps[m][j]
      BY <1>2 DEF Decided
    <3>4. written \in {0, 1}
      OBVIOUS
    <3>5. samples'[m][j] = samples[m][j] + written
      BY <1>6
    <3> HIDE DEF d, e, written
    <3>6. e = (samples[m][j] + written) + (Cardinality(Writing(m, j)) - 1) - overlaps[m][j]
      BY <2>4, <3>3, <3>5
    <3> QED BY <1>3, <3>1, <3>2, <3>4, <3>6
  <2>6. e <= d /\ e \in Int
    BY <2>1, <2>5
  <2>7. e * j <= d * j /\ d * j <= now - start[m] /\ e * j \in Int /\ d * j \in Int
    BY <1>2, <2>1, <2>6, Product DEF Spaced
  <2>8. e * j <= now - start[m]
    BY <1>1, <2>1, <2>7
  <2>9. InRound(m, j)' = {} => e + 1 <= c
    <3>1. InRound(m, j)' = {} => ~ WriteSample(k)
      BY <1>4, <1>5 DEF InRound
    <3>2. ~ WriteSample(k) => e = d - 1
      BY <2>1, <2>5
    <3> HIDE DEF c, d, e
    <3> QED BY <1>3, <2>1, <2>2, <3>1, <3>2 DEF c
  <2>10. ASSUME NEW q \in InRound(m, j)', keeper'[q].label = "count"
         PROVE  e <= keeper'[q].read
    <3>1. CASE q = k
      <4>1. keeper'[q].read = c
        BY <1>4, <1>5, <2>10, <3>1
      <4> QED BY <1>3, <2>1, <2>2, <2>6, <4>1
    <3>2. CASE q # k
      <4>1. q \in InRound(m, j) /\ keeper'[q] = keeper[q] /\ keeper[q].read \in Nat
        BY <1>1, <1>5, <3>2 DEF InRound, StatsTyped, Hold
      <4> QED BY <2>1, <2>6, <2>10, <4>1 DEF Spaced
    <3> QED BY <3>1, <3>2
  <2>11. e <= c
    BY <1>3, <2>1, <2>2, <2>6
  <2> HIDE DEF e, c
  <2> QED BY <1>2, <2>8, <2>9, <2>10, <2>11 DEF Spaced, e, c
<1> QED BY <1>2, <1>7, <1>8, <1>9, <1>10 DEF SpacedInv

\* The count: what a keeper has read was not behind the decisions, and what it
\* stores is ahead of them.
LEMMA CountStep ==
  ASSUME SpacedInv, NEW k \in Keepers, CountSample(k)
  PROVE  SpacedInv'
<1> DEFINE m == NameOf[k]
           r == [keeper[k] EXCEPT !.label = "sample", !.interval = 0, !.read = 0]
<1>1. StatsTyped /\ Entries /\ m \in Names /\ keeper[k] \in Hold /\ now \in Nat
  BY KeeperAssumption DEF SpacedInv, StatsTyped
<1>a. keeper[k].label = "count"
  BY DEF CountSample, Keeps
<1>b. PICK j \in Intervals : j = keeper[k].interval
  BY <1>1, <1>a DEF Entries
<1>2. /\ keeper[k].label = "count" /\ m \in sampled /\ j \in Intervals /\ j \in Nat
      /\ keeper[k].interval = j
      /\ UNCHANGED <<now, sampled, start, samples, overlaps>>
  BY <1>1, <1>a, <1>b, TimeAssumption DEF CountSample, Entries
<1>3. r \in Hold /\ r.label = "sample" /\ r.at = keeper[k].at /\ keeper[k].read \in Nat
  BY <1>1 DEF Hold
<1>4. keeper' = [keeper EXCEPT ![k] = r]
  BY DEF CountSample, Set
<1> HIDE DEF r
<1>5. keeper'[k] = r /\ \A q \in Keepers : q # k => keeper'[q] = keeper[q]
  BY <1>1, <1>4 DEF StatsTyped
<1>6. /\ counter'[m][j] = keeper[k].read + 1
      /\ \A n \in Names, i \in Intervals : n # m \/ i # j => counter'[n][i] = counter[n][i]
      /\ counter' \in [Names -> [Intervals -> Nat]]
  <2>1. counter' = [counter EXCEPT ![m] = [counter[m] EXCEPT ![j] = keeper[k].read + 1]]
    BY <1>2 DEF CountSample
  <2>2. counter[m] \in [Intervals -> Nat] /\ keeper[k].read + 1 \in Nat
    BY <1>1, <1>2, <1>3 DEF StatsTyped
  <2> QED BY <1>1, <1>2, <2>1, <2>2 DEF StatsTyped
<1>7. StatsTyped'
  <2>1. keeper' \in [Keepers -> Hold]
    BY <1>1, <1>3, <1>4 DEF StatsTyped
  <2> QED BY <1>1, <1>2, <1>6, <2>1 DEF StatsTyped
<1>8. Entries'
  BY <1>1, <1>2, <1>3, <1>5 DEF Entries
<1>9. ASSUME NEW n \in sampled, NEW i \in Intervals, n # m \/ i # j
      PROVE  Spaced(n, i)'
  <2>1. n \in Names /\ counter'[n][i] = counter[n][i]
    BY <1>1, <1>6, <1>9 DEF StatsTyped
  <2>2. InRound(n, i)' = InRound(n, i) /\ \A q \in InRound(n, i) : keeper'[q] = keeper[q]
    <3>1. k \notin InRound(n, i) /\ k \notin InRound(n, i)'
      BY <1>2, <1>3, <1>5, <1>9 DEF InRound
    <3> PICK s \in Hold : s = r
      BY <1>3
    <3> QED BY <1>1, <1>4, <3>1, OtherRound
  <2> QED BY <1>1, <1>2, <1>9, <2>1, <2>2, Undisturbed DEF SpacedInv
<1>10. Spaced(m, j)'
  <2> DEFINE c == counter'[m][j]
             d == Decided(m, j)
             e == Decided(m, j)'
  <2>1. Spaced(m, j) /\ d \in Int /\ start[m] \in Nat
    BY <1>1, <1>2, DecidedType DEF SpacedInv
  <2>2. k \in InRound(m, j)
    BY <1>2 DEF InRound
  <2>3. Writing(m, j)' = Writing(m, j)
    BY <1>2, <1>3, <1>5 DEF Writing
  <2>4. e = d
    BY <1>2, <2>3 DEF Decided
  <2>5. d + 1 <= c /\ d <= c
    <3>1. d <= keeper[k].read /\ c = keeper[k].read + 1
      BY <1>2, <1>6, <2>1, <2>2 DEF Spaced
    <3> HIDE DEF c, d
    <3> QED BY <1>3, <2>1, <3>1
  <2>6. \A q \in InRound(m, j)' : keeper'[q].label = "count" =>
          q \in InRound(m, j) /\ keeper'[q] = keeper[q]
    BY <1>3, <1>5 DEF InRound
  <2>7. \A q \in InRound(m, j)' : keeper'[q].label = "count" => d <= keeper'[q].read
    BY <2>1, <2>6 DEF Spaced
  <2>8. d * j <= now' - start'[m]
    BY <1>2, <2>1 DEF Spaced
  <2> HIDE DEF c, d, e
  <2> QED BY <2>4, <2>5, <2>7, <2>8, <1>2 DEF Spaced, e, c
<1> QED BY <1>2, <1>7, <1>8, <1>9, <1>10 DEF SpacedInv

\* Every step; that the buffer is a sequence gives the size of a batch.
LEMMA SpacedNext == ClockInv /\ SpacedInv /\ StatsStep => SpacedInv'
<1> SUFFICES ASSUME ClockInv, SpacedInv, StatsStep PROVE SpacedInv'
  OBVIOUS
<1>1. StatsTyped /\ Entries /\ now \in Nat
  BY DEF SpacedInv, StatsTyped
<1>2. CASE ProcessEnds
  <2>1. Idle \in Hold /\ Idle.label = "off" /\ Idle.at = 0
    BY DEF Idle, Hold
  <2>2. /\ now' = 0 /\ keeper' = [k \in Keepers |-> Idle] /\ sampled' = {}
        /\ start' = [n \in Names |-> 0] /\ counter' = Zero
        /\ samples' = Zero /\ overlaps' = Zero
    BY <1>2 DEF ProcessEnds
  <2>3. Zero \in [Names -> [Intervals -> Nat]]
        /\ \A n \in Names, i \in Intervals : Zero[n][i] = 0
    BY DEF Zero
  <2>4. StatsTyped'
    BY <2>1, <2>2, <2>3 DEF StatsTyped
  <2>5. Entries'
    BY <2>1, <2>2, <2>3 DEF Entries
  <2> QED BY <2>2, <2>4, <2>5 DEF SpacedInv
<1>3. CASE Tick \/ UNCHANGED statsVars
  <2>1. /\ now' \in Nat /\ now <= now'
        /\ UNCHANGED <<keeper, sampled, start, counter, samples, overlaps>>
    BY <1>1, <1>3 DEF Tick, statsVars, samplingVars
  <2>2. StatsTyped'
    BY <1>1, <2>1 DEF StatsTyped
  <2>3. Entries'
    <3>1. \A n \in Names : start[n] \in Nat
      BY <1>1 DEF StatsTyped
    <3>2. \A k \in Keepers : keeper[k].at \in Nat
      BY <1>1 DEF StatsTyped, Hold
    <3> QED BY <1>1, <2>1, <3>1, <3>2 DEF Entries
  <2>4. ASSUME NEW n \in sampled, NEW i \in Intervals
        PROVE  Spaced(n, i)'
    <3>1. n \in Names /\ Spaced(n, i)
      BY <1>1, <2>4 DEF SpacedInv, StatsTyped
    <3>2. InRound(n, i)' = InRound(n, i) /\ \A k \in InRound(n, i) : keeper'[k] = keeper[k]
      BY <2>1 DEF InRound
    <3> QED BY <1>1, <2>1, <3>1, <3>2, Undisturbed
  <2> QED BY <2>1, <2>2, <2>3, <2>4 DEF SpacedInv
<1>4. ASSUME NEW k \in Keepers,
             \/ StartKeeper(k) \/ StopKeeper(k) \/ NoStats(k)
             \/ AppendPoint(k) \/ FlushWorks(k) \/ FlushFails(k)
      PROVE  SpacedInv'
  <2>1. keeper[k] \in Hold /\ UNCHANGED <<now, samplingVars>>
    BY <1>1, <1>4
    DEF StatsTyped, StartKeeper, StopKeeper, NoStats, AppendPoint, FlushWorks, FlushFails
  <2>2. keeper[k].label \in {"off", "wait", "sample", "flush"}
    BY <1>4 DEF StartKeeper, StopKeeper, NoStats, AppendPoint, FlushWorks, FlushFails,
                Awake, Keeps, Sampled
  <2>3. PICK r \in Hold : /\ keeper' = [keeper EXCEPT ![k] = r]
                          /\ r.label \in {"off", "wait", "flush"} /\ r.at = 0
    <3> DEFINE next == IF now < keeper[k].last + 1 THEN keeper[k].last + 1 ELSE now
               late == [Idle EXCEPT !.label = "wait", !.last = next]
               begun == [Idle EXCEPT !.label = "wait", !.last = now]
               full == [Idle EXCEPT !.label = "flush", !.last = keeper[k].last,
                                    !.toFlush = points + 1]
    <3>1. keeper[k].last \in Nat /\ next \in Nat
      BY <1>1, <2>1 DEF Hold
    <3>2. Idle \in Hold /\ Idle.label = "off" /\ Idle.at = 0
      BY DEF Idle, Hold
    <3>3. begun \in Hold /\ begun.label = "wait" /\ begun.at = 0
      BY <1>1 DEF Idle, Hold
    <3>4. late \in Hold /\ late.label = "wait" /\ late.at = 0
      <4> HIDE DEF next
      <4> QED BY <3>1 DEF Idle, Hold
    <3>5. Schedule(k) => keeper' = [keeper EXCEPT ![k] = late]
      BY DEF Schedule, Set
    <3> HIDE DEF late
    <3>6. CASE StartKeeper(k)
      BY <3>3, <3>6 DEF StartKeeper, Set
    <3>7. CASE StopKeeper(k)
      BY <3>2, <3>7 DEF StopKeeper, Set
    <3>8. CASE NoStats(k) \/ FlushWorks(k) \/ FlushFails(k)
      BY <3>4, <3>5, <3>8 DEF NoStats, FlushWorks, FlushFails
    <3>9. CASE AppendPoint(k)
      <4>1. points + 1 \in Nat
        BY DEF ClockInv
      <4>2. full \in Hold /\ full.label = "flush" /\ full.at = 0
        BY <3>1, <4>1 DEF Idle, Hold
      <4>3. Schedule(k) \/ keeper' = [keeper EXCEPT ![k] = full]
        BY <3>9 DEF AppendPoint, Set
      <4> HIDE DEF full
      <4> QED BY <3>4, <3>5, <4>2, <4>3
    <3> QED BY <1>4, <3>6, <3>7, <3>8, <3>9
  <2>4. {keeper[k].label, r.label} \cap {"write", "count"} = {}
    BY <2>2, <2>3
  <2>5. r.label # "sample" /\ r.at <= now
    BY <1>1, <2>3
  <2> QED BY <2>1, <2>3, <2>4, <2>5, IdleStep
<1> QED BY <1>2, <1>3, <1>4, GetStatsStep, SampleIsDueStep, WriteStep, CountStep DEF StatsStep

LEMMA StatsStarts == StatsInit => SpacedInv
<1> SUFFICES ASSUME StatsInit PROVE SpacedInv
  OBVIOUS
<1>1. Idle \in Hold /\ Idle.label = "off" /\ Idle.at = 0
  BY DEF Idle, Hold
<1>2. Zero \in [Names -> [Intervals -> Nat]]
      /\ \A n \in Names, i \in Intervals : Zero[n][i] = 0
  BY DEF Zero
<1>3. StatsTyped /\ Entries /\ sampled = {}
  BY <1>1, <1>2 DEF StatsInit, StatsTyped, Entries
<1> QED BY <1>3 DEF SpacedInv

\* The samples of a container keep their interval, but for those of rivals, for
\* any number of keepers, names and intervals.
THEOREM SamplesAreAlwaysSpaced == Spec => []SamplesAreSpaced
<1>1. Init => SpacedInv
  BY StatsStarts DEF Init
<1>2. ClockInv /\ SpacedInv /\ [Next]_vars => ClockInv' /\ SpacedInv'
  BY NextStatsStep, ClockNext, SpacedNext
<1>3. SpacedInv => SamplesAreSpaced
  <2> SUFFICES ASSUME SpacedInv, NEW n \in sampled, NEW i \in Intervals
               PROVE  (samples[n][i] - overlaps[n][i]) * i <= now - start[n]
    BY DEF SamplesAreSpaced
  <2>1. StatsTyped /\ Spaced(n, i) /\ n \in Names /\ now \in Nat
    BY DEF SpacedInv, StatsTyped
  <2>2. /\ Decided(n, i) \in Int /\ samples[n][i] \in Nat /\ overlaps[n][i] \in Nat
        /\ start[n] \in Nat /\ i \in Nat /\ Cardinality(Writing(n, i)) \in Nat
    BY <2>1, DecidedType, FiniteRounds
  <2> DEFINE d == samples[n][i] - overlaps[n][i]
  <2>3. d \in Int /\ d <= Decided(n, i)
    BY <2>2 DEF Decided
  <2>4. d * i <= Decided(n, i) * i
    BY <2>2, <2>3, Product
  <2>5. Decided(n, i) * i <= now - start[n]
    BY <2>1 DEF Spaced
  <2>6. d * i \in Int /\ Decided(n, i) * i \in Int
    BY <2>2, <2>3
  <2> QED BY <2>1, <2>2, <2>4, <2>5, <2>6
<1>4. Init => ClockInv
  BY DEF Init, StatsInit, ClockInv
<1> QED BY <1>1, <1>2, <1>3, <1>4, PTL DEF Spec

-----------------------------------------------------------------------------
(* The points.                                                             *)

Hand(k) == {k} \X (1 .. Holding(keeper[k]))
Hands(S) == UNION {Hand(k) : k \in S}

ConservedInv == StatsTyped /\ points \in Nat /\ underWay \in Nat /\ PointsConserved

LEMMA NumberedSize ==
  ASSUME NEW k, NEW h \in Nat
  PROVE  IsFiniteSet({k} \X (1 .. h)) /\ Cardinality({k} \X (1 .. h)) = h
<1> DEFINE one == {k}
           numbers == 1 .. h
<1>1. IsFiniteSet(one) /\ Cardinality(one) = 1
  BY FS_Singleton
<1>2. IsFiniteSet(numbers) /\ Cardinality(numbers) = h
  BY FS_Interval
<1> HIDE DEF one, numbers
<1>3. IsFiniteSet(one \X numbers) /\ Cardinality(one \X numbers) = Cardinality(one) * Cardinality(numbers)
  BY <1>1, <1>2, FS_Product
<1>4. IsFiniteSet(one \X numbers) /\ Cardinality(one \X numbers) = h
  <2>1. Cardinality(one) * Cardinality(numbers) = 1 * h
    BY <1>1, <1>2
  <2>2. 1 * h = h
    OBVIOUS
  <2> QED BY <1>3, <2>1, <2>2
<1> QED BY <1>4 DEF one, numbers

LEMMA HandSize ==
  ASSUME NEW k, Holding(keeper[k]) \in Nat
  PROVE  IsFiniteSet(Hand(k)) /\ Cardinality(Hand(k)) = Holding(keeper[k])
BY NumberedSize DEF Hand

LEMMA HandsFinite ==
  ASSUME NEW S \in SUBSET Keepers, \A k \in S : Holding(keeper[k]) \in Nat
  PROVE  IsFiniteSet(Hands(S))
<1> DEFINE T == {Hand(k) : k \in S}
           f == [k \in S |-> Hand(k)]
<1>1. IsFiniteSet(S)
  BY KeeperAssumption, FS_Subset
<1>2. f \in Surjection(S, T)
  BY DEF Surjection
<1>3. IsFiniteSet(T)
  BY <1>1, <1>2, FS_Surjection
<1>4. \A H \in T : IsFiniteSet(H)
  BY HandSize
<1> QED BY <1>3, <1>4, FS_UNION DEF Hands

\* A keeper that comes to hold more or less changes what is in hand by as much.
LEMMA HandStep ==
  ASSUME keeper \in [Keepers -> Hold], NEW k \in Keepers, NEW r, Holding(r) \in Nat,
         keeper' = [keeper EXCEPT ![k] = r]
  PROVE  /\ InHand \in Nat /\ Holding(keeper[k]) \in Nat
         /\ Holding(keeper[k]) <= InHand
         /\ InHand' = InHand - Holding(keeper[k]) + Holding(r)
<1> DEFINE others == Hands(Keepers \ {k})
<1>1. \A q \in Keepers : Holding(keeper[q]) \in Nat
  BY DEF Hold, Holding
<1>2. keeper'[k] = r /\ \A q \in Keepers \ {k} : keeper'[q] = keeper[q]
  OBVIOUS
<1>3. IsFiniteSet(others) /\ Cardinality(others) \in Nat
  BY <1>1, HandsFinite, FS_CardinalityType
<1>4. Hands(Keepers) = others \cup Hand(k) /\ Hand(k) \cap others = {}
  BY DEF Hands, Hand
<1>5. Hands(Keepers)' = others \cup Hand(k)' /\ Hand(k)' \cap others = {}
  BY <1>2 DEF Hands, Hand
<1>6. IsFiniteSet(Hand(k)) /\ Cardinality(Hand(k)) = Holding(keeper[k])
  BY <1>1, HandSize
<1>7. IsFiniteSet(Hand(k)') /\ Cardinality(Hand(k)') = Holding(r)
  <2> DEFINE mine == {k} \X (1 .. Holding(r))
  <2>1. Hand(k)' = mine
    BY <1>2 DEF Hand, Holding
  <2>2. IsFiniteSet(mine) /\ Cardinality(mine) = Holding(r)
    BY NumberedSize
  <2> HIDE DEF mine
  <2> QED BY <2>1, <2>2
<1>8. InHand = Cardinality(Hands(Keepers)) /\ InHand' = Cardinality(Hands(Keepers)')
  BY DEF InHand, Hands, Hand
<1>9. InHand = Cardinality(others) + Holding(keeper[k])
  <2> DEFINE mine == Hand(k)
  <2>1. IsFiniteSet(mine) /\ Cardinality(mine) = Holding(keeper[k]) /\ others \cap mine = {}
        /\ InHand = Cardinality(others \cup mine)
    BY <1>4, <1>6, <1>8
  <2> HIDE DEF others, mine
  <2>2. Cardinality(others \cup mine) = Cardinality(others) + Cardinality(mine) - Cardinality({})
    BY <1>3, <2>1, FS_Union
  <2> QED BY <1>1, <1>3, <2>1, <2>2, FS_EmptySet
<1>10. InHand' = Cardinality(others) + Holding(r)
  <2> DEFINE mine == Hand(k)'
  <2>1. IsFiniteSet(mine) /\ Cardinality(mine) = Holding(r) /\ others \cap mine = {}
        /\ InHand' = Cardinality(others \cup mine)
    BY <1>5, <1>7, <1>8
  <2> HIDE DEF others, mine
  <2>2. Cardinality(others \cup mine) = Cardinality(others) + Cardinality(mine) - Cardinality({})
    BY <1>3, <2>1, FS_Union
  <2> QED BY <1>3, <2>1, <2>2, FS_EmptySet
<1> QED BY <1>1, <1>3, <1>9, <1>10

LEMMA ConservedNext ==
  ASSUME ConservedInv, StatsTyped', StatsStep
  PROVE  ConservedInv'
<1>1. /\ keeper \in [Keepers -> Hold] /\ keeper' \in [Keepers -> Hold]
      /\ points \in Nat /\ underWay \in Nat /\ underWay = points + InHand
  BY DEF ConservedInv, PointsConserved, StatsTyped
\* a step of a keeper, by what it has before and after
<1>2. ASSUME NEW k \in Keepers, NEW r, keeper' = [keeper EXCEPT ![k] = r],
             points' \in Nat, Holding(r) \in Nat,
             underWay' = underWay + points' - points
                                  + Holding(r) - Holding(keeper[k])
      PROVE  ConservedInv'
  <2>1. /\ InHand \in Nat /\ Holding(keeper[k]) \in Nat /\ Holding(keeper[k]) <= InHand
        /\ InHand' = InHand - Holding(keeper[k]) + Holding(r)
    BY <1>1, <1>2, HandStep
  <2> QED BY <1>1, <1>2, <2>1 DEF ConservedInv, PointsConserved
<1>3. CASE Tick \/ UNCHANGED statsVars
  <2>1. UNCHANGED <<keeper, points, underWay>>
    BY <1>3 DEF Tick, statsVars, storageVars
  <2> QED BY <1>1, <2>1 DEF ConservedInv, PointsConserved, InHand
<1>4. CASE ProcessEnds
  <2>1. /\ points' = 0 /\ underWay' = underWay - points - InHand
        /\ \A k \in Keepers : keeper'[k].label = "off"
    BY <1>4 DEF ProcessEnds, Idle
  <2>2. \A k \in Keepers : 1 .. Holding(keeper'[k]) = {}
    BY <2>1 DEF Holding
  <2>3. UNION {{k} \X (1 .. Holding(keeper'[k])) : k \in Keepers} = {}
    BY <2>2
  <2>4. InHand' = 0
    BY <2>3, FS_EmptySet DEF InHand, Holding
  <2>5. InHand \in Int
    <3>1. InHand = Cardinality(Hands(Keepers))
      BY DEF InHand, Hands, Hand
    <3>2. \A k \in Keepers : Holding(keeper[k]) \in Nat
      BY <1>1 DEF Hold, Holding
    <3> QED BY <3>1, <3>2, HandsFinite, FS_CardinalityType
  <2>6. underWay' = 0
    BY <1>1, <2>1, <2>5
  <2> QED BY <2>1, <2>4, <2>6 DEF ConservedInv, PointsConserved
<1>5. ASSUME NEW k \in Keepers
      PROVE  Schedule(k) => \E r : keeper' = [keeper EXCEPT ![k] = r] /\ Holding(r) = 0
  <2> DEFINE r(last) == [Idle EXCEPT !.label = "wait", !.last = last]
  <2>1. \A last : Holding(r(last)) = 0
    BY DEF Holding, Idle
  <2> HIDE DEF r
  <2> QED BY <2>1 DEF Schedule, Set, r
<1>6. ASSUME NEW k \in Keepers, StartKeeper(k) \/ StopKeeper(k) \/ NoStats(k)
      PROVE  ConservedInv'
  <2>1. /\ Holding(keeper[k]) = 0 /\ UNCHANGED <<points, underWay>>
    BY <1>6 DEF StartKeeper, StopKeeper, NoStats, Awake, Keeps, Holding, storageVars
  <2>2. PICK r : keeper' = [keeper EXCEPT ![k] = r] /\ Holding(r) = 0
    <3>1. CASE StartKeeper(k)
      <4> DEFINE r == [Idle EXCEPT !.label = "wait", !.last = now]
      <4>1. Holding(r) = 0
        BY DEF Holding, Idle
      <4>2. keeper' = [keeper EXCEPT ![k] = r]
        BY <3>1 DEF StartKeeper, Set
      <4> QED BY <4>1, <4>2
    <3>2. CASE StopKeeper(k)
      <4>1. Holding(Idle) = 0
        BY DEF Holding, Idle
      <4> QED BY <3>2, <4>1 DEF StopKeeper, Set
    <3> QED BY <1>5, <1>6, <3>1, <3>2 DEF NoStats
  <2>3. /\ points' \in Nat /\ Holding(r) \in Nat
        /\ underWay' = underWay + points' - points + Holding(r) - Holding(keeper[k])
    BY <1>1, <2>1, <2>2
  <2> QED BY <1>2, <2>2, <2>3
\* a round goes on with its point
<1>7. ASSUME NEW k \in Keepers, SampleIsDue(k) \/ WriteSample(k) \/ CountSample(k)
      PROVE  ConservedInv'
  <2>1. /\ UNCHANGED <<points, underWay>> /\ keeper[k].label \in {"sample", "write", "count"}
        /\ keeper'[k].label \in {"sample", "write", "count"}
        /\ keeper' = [keeper EXCEPT ![k] = keeper'[k]]
    <3>1. CASE SampleIsDue(k)
      BY <1>1, <3>1 DEF SampleIsDue, Keeps, Set, storageVars, Hold
    <3>2. CASE WriteSample(k)
      BY <1>1, <3>2 DEF WriteSample, Keeps, Set, storageVars, Hold
    <3>3. CASE CountSample(k)
      BY <1>1, <3>3 DEF CountSample, Keeps, Set, storageVars, Hold
    <3> QED BY <1>7, <3>1, <3>2, <3>3
  <2>2. Holding(keeper[k]) = 1 /\ Holding(keeper'[k]) = 1
    BY <2>1 DEF Holding
  <2> QED BY <1>1, <1>2, <2>1, <2>2
<1>8. ASSUME NEW k \in Keepers, GetStats(k)
      PROVE  ConservedInv'
  <2>1. /\ UNCHANGED points /\ underWay' = underWay + 1
        /\ keeper[k].label = "wait" /\ keeper'[k].label = "sample"
        /\ keeper' = [keeper EXCEPT ![k] = keeper'[k]]
    <3>1. UNCHANGED points /\ underWay' = underWay + 1 /\ keeper[k].label = "wait"
      BY <1>8 DEF GetStats, Awake, Keeps, storageVars
    <3>2. PICK rest : keeper' = [keeper EXCEPT ![k] =
                        [keeper[k] EXCEPT !.label = "sample", !.at = now, !.todo = rest]]
      <4>1. [keeper[k] EXCEPT !.label = "sample", !.at = now] =
              [keeper[k] EXCEPT !.label = "sample", !.at = now, !.todo = keeper[k].todo]
        BY <1>1 DEF Hold
      <4> QED BY <1>8, <4>1 DEF GetStats, Set
    <3>3. keeper[k] \in Hold
      BY <1>1
    <3>4. keeper'[k].label = "sample" /\ keeper' = [keeper EXCEPT ![k] = keeper'[k]]
      BY <1>1, <3>2, <3>3 DEF Hold
    <3> QED BY <3>1, <3>4
  <2>2. Holding(keeper[k]) = 0 /\ Holding(keeper'[k]) = 1
    BY <2>1 DEF Holding
  <2> QED BY <1>1, <1>2, <2>1, <2>2
<1>9. ASSUME NEW k \in Keepers, WriteFails(k)
      PROVE  ConservedInv'
  <2>1. UNCHANGED points /\ underWay' = underWay - 1 /\ Holding(keeper[k]) = 1
    BY <1>9 DEF WriteFails, Keeps, Holding, storageVars
  <2>2. PICK r : keeper' = [keeper EXCEPT ![k] = r] /\ Holding(r) = 0
    BY <1>5, <1>9 DEF WriteFails
  <2>3. /\ points' \in Nat /\ Holding(r) \in Nat
        /\ underWay' = underWay + points' - points + Holding(r) - Holding(keeper[k])
    BY <1>1, <2>1, <2>2
  <2> QED BY <1>2, <2>2, <2>3
\* the batch takes the whole buffer along
<1>10. ASSUME NEW k \in Keepers, AppendPoint(k)
       PROVE  ConservedInv'
  <2>1. Holding(keeper[k]) = 1 /\ UNCHANGED underWay
    BY <1>10 DEF AppendPoint, Sampled, Keeps, Holding
  <2>2. CASE ReadyToFlush
    <3> DEFINE r == [Idle EXCEPT !.label = "flush", !.last = keeper[k].last,
                                 !.toFlush = points + 1]
    <3>1. Holding(r) = points + 1
      BY DEF Holding, Idle
    <3>2. keeper' = [keeper EXCEPT ![k] = r] /\ points' = 0
      BY <1>10, <2>2 DEF AppendPoint, Set
    <3> HIDE DEF r
    <3>3. /\ points' \in Nat /\ Holding(r) \in Nat
          /\ underWay' = underWay + points' - points + Holding(r) - Holding(keeper[k])
      BY <1>1, <2>1, <3>1, <3>2
    <3> QED BY <1>2, <3>2, <3>3
  <2>3. CASE ~ ReadyToFlush
    <3>1. points' = points + 1 /\ Schedule(k)
      BY <1>10, <2>3 DEF AppendPoint
    <3>2. PICK r : keeper' = [keeper EXCEPT ![k] = r] /\ Holding(r) = 0
      BY <1>5, <3>1
    <3>3. /\ points' \in Nat /\ Holding(r) \in Nat
          /\ underWay' = underWay + points' - points + Holding(r) - Holding(keeper[k])
      BY <1>1, <2>1, <3>1, <3>2
    <3> QED BY <1>2, <3>2, <3>3
  <2> QED BY <2>2, <2>3
<1>11. ASSUME NEW k \in Keepers, FlushWorks(k) \/ FlushFails(k)
       PROVE  ConservedInv'
  <2>1. /\ UNCHANGED points /\ underWay' = underWay - keeper[k].toFlush
        /\ Holding(keeper[k]) = keeper[k].toFlush /\ keeper[k].toFlush \in Nat
    BY <1>1, <1>11 DEF FlushWorks, FlushFails, Keeps, Holding, storageVars, Hold
  <2>2. PICK r : keeper' = [keeper EXCEPT ![k] = r] /\ Holding(r) = 0
    BY <1>5, <1>11 DEF FlushWorks, FlushFails
  <2>3. /\ points' \in Nat /\ Holding(r) \in Nat
        /\ underWay' = underWay + points' - points + Holding(r) - Holding(keeper[k])
    BY <1>1, <2>1, <2>2
  <2> QED BY <1>2, <2>2, <2>3
<1> QED BY <1>3, <1>4, <1>6, <1>7, <1>8, <1>9, <1>10, <1>11 DEF StatsStep

LEMMA ConservedInit ==
  ASSUME StatsInit, StatsTyped
  PROVE  ConservedInv
<1>1. points = 0 /\ underWay = 0 /\ \A k \in Keepers : keeper[k].label = "off"
  BY DEF StatsInit, Idle
<1>2. \A k \in Keepers : 1 .. Holding(keeper[k]) = {}
  BY <1>1 DEF Holding
<1>3. UNION {{k} \X (1 .. Holding(keeper[k])) : k \in Keepers} = {}
  BY <1>2
<1>4. InHand = 0
  BY <1>3, FS_EmptySet DEF InHand
<1> QED BY <1>1, <1>4 DEF ConservedInv, PointsConserved

\* A point that was made is in one place until InfluxDB has it or it is lost,
\* for any number of keepers and any duration of the buffer: none is written
\* twice, and none falls between two keepers that flush at once.
THEOREM PointsAreConserved == Spec => []PointsConserved
<1>1. Init => ConservedInv
  BY StatsStarts, ConservedInit DEF Init, SpacedInv
<1>2. ConservedInv /\ ClockInv /\ SpacedInv /\ [Next]_vars
        => ConservedInv' /\ ClockInv' /\ SpacedInv'
  BY NextStatsStep, ClockNext, SpacedNext, ConservedNext DEF SpacedInv
<1>3. ConservedInv => PointsConserved
  BY DEF ConservedInv
<1>4. Init => ClockInv /\ SpacedInv
  BY StatsStarts DEF Init, StatsInit, ClockInv
<1> QED BY <1>1, <1>2, <1>3, <1>4, PTL DEF Spec

-----------------------------------------------------------------------------
(* The types.                                                              *)

\* A round that has begun was due; one that waits is at most one unit ahead.
Bounded(r) ==
  /\ r.last <= MaxTime + 1 /\ (r.label \notin {"off", "wait"} => r.last <= now)
  /\ r.interval \in Intervals \cup {0}

BoundInv ==
  /\ now \in 0 .. MaxTime /\ points \in Nat
  /\ \A k \in Keepers : Bounded(keeper[k])

LEMMA BoundNext ==
  ASSUME StatsTyped, BoundInv, StatsStep
  PROVE  BoundInv'
<1> USE TimeAssumption
<1>1. /\ keeper \in [Keepers -> Hold] /\ now \in 0 .. MaxTime /\ MaxTime \in Nat
      /\ \A k \in Keepers : keeper[k] \in Hold /\ keeper[k].last \in Nat /\ Bounded(keeper[k])
  BY DEF StatsTyped, BoundInv, Hold
<1>2. ASSUME NEW k \in Keepers, NEW r, keeper' = [keeper EXCEPT ![k] = r], Bounded(r),
             UNCHANGED now, points' \in Nat
      PROVE  BoundInv'
  <2>1. keeper'[k] = r /\ \A q \in Keepers : q # k => keeper'[q] = keeper[q]
    BY <1>1, <1>2
  <2>2. \A q \in Keepers : Bounded(keeper'[q])
    BY <1>1, <1>2, <2>1
  <2> QED BY <1>1, <1>2, <2>2 DEF BoundInv, Bounded
<1>3. CASE ProcessEnds
  <2>1. now' = 0 /\ points' = 0 /\ keeper' = [k \in Keepers |-> Idle]
    BY <1>3 DEF ProcessEnds
  <2>2. Idle.last = 0 /\ Idle.label = "off" /\ Idle.interval = 0
    BY DEF Idle
  <2> QED BY <1>1, <2>1, <2>2 DEF BoundInv, Bounded
<1>4. CASE Tick \/ UNCHANGED statsVars
  <2>1. UNCHANGED <<keeper, points>> /\ now' \in 0 .. MaxTime /\ now <= now'
    BY <1>1, <1>4 DEF Tick, statsVars, storageVars
  <2>2. \A k \in Keepers : Bounded(keeper[k])'
    BY <1>1, <2>1 DEF Bounded
  <2> QED BY <2>1, <2>2 DEF BoundInv
<1>5. ASSUME NEW k \in Keepers, Schedule(k), keeper[k].last <= now
      PROVE  \E r : keeper' = [keeper EXCEPT ![k] = r] /\ Bounded(r)
  <2> DEFINE next == IF now < keeper[k].last + 1 THEN keeper[k].last + 1 ELSE now
             r == [Idle EXCEPT !.label = "wait", !.last = next]
  <2>1. next \in Nat /\ next <= MaxTime + 1
    BY <1>1, <1>5
  <2>2. keeper' = [keeper EXCEPT ![k] = r]
    BY <1>5 DEF Schedule, Set
  <2> HIDE DEF next
  <2>3. r.last = next /\ r.label = "wait" /\ r.interval = 0
    BY DEF Idle
  <2>4. Bounded(r)
    BY <2>1, <2>3 DEF Bounded
  <2> HIDE DEF r
  <2> QED BY <2>2, <2>4
<1>6. ASSUME NEW k \in Keepers, StartKeeper(k) \/ StopKeeper(k) PROVE BoundInv'
  <2> DEFINE begun == [Idle EXCEPT !.label = "wait", !.last = now]
  <2>1. Bounded(begun) /\ Bounded(Idle)
    BY <1>1 DEF Bounded, Idle
  <2>2. keeper' = [keeper EXCEPT ![k] = begun] \/ keeper' = [keeper EXCEPT ![k] = Idle]
    BY <1>6 DEF StartKeeper, StopKeeper, Set
  <2>3. UNCHANGED now /\ points' \in Nat
    BY <1>6 DEF BoundInv, StartKeeper, StopKeeper, storageVars
  <2> HIDE DEF begun
  <2> QED BY <1>2, <2>1, <2>2, <2>3
<1>7. ASSUME NEW k \in Keepers,
             NoStats(k) \/ WriteFails(k) \/ FlushWorks(k) \/ FlushFails(k)
      PROVE  BoundInv'
  <2>1. keeper[k].last <= now
    BY <1>1, <1>7 DEF NoStats, WriteFails, FlushWorks, FlushFails, Awake, Keeps, Bounded
  <2>2. Schedule(k) /\ UNCHANGED now /\ points' \in Nat
    BY <1>7 DEF BoundInv, NoStats, WriteFails, FlushWorks, FlushFails, storageVars
  <2>3. PICK r : keeper' = [keeper EXCEPT ![k] = r] /\ Bounded(r)
    BY <1>5, <2>1, <2>2
  <2> QED BY <1>2, <2>2, <2>3
\* a round goes on: it keeps when it began
<1>8. ASSUME NEW k \in Keepers,
             GetStats(k) \/ SampleIsDue(k) \/ WriteSample(k) \/ CountSample(k)
      PROVE  BoundInv'
  <2>1. keeper[k].last <= now
    BY <1>1, <1>8 DEF GetStats, SampleIsDue, WriteSample, CountSample, Awake, Keeps, Bounded
  <2>2. UNCHANGED now /\ points' \in Nat
    BY <1>8 DEF BoundInv, GetStats, SampleIsDue, WriteSample, CountSample, storageVars
  <2>3. PICK r : /\ keeper' = [keeper EXCEPT ![k] = r] /\ r.last = keeper[k].last
                 /\ r.interval \in {keeper[k].interval} \cup Intervals \cup {0}
    <3> DEFINE h == keeper[k]
    <3>1. h \in Hold
      BY <1>1
    <3>2. /\ keeper' = [keeper EXCEPT ![k] = keeper'[k]] /\ keeper'[k].last = h.last
          /\ keeper'[k].interval \in {h.interval} \cup Intervals \cup {0}
      <4>1. CASE GetStats(k)
        <5>1. PICK rest : keeper' = [keeper EXCEPT ![k] =
                            [h EXCEPT !.label = "sample", !.at = now, !.todo = rest]]
          <6>1. [h EXCEPT !.label = "sample", !.at = now] =
                  [h EXCEPT !.label = "sample", !.at = now, !.todo = h.todo]
            BY <3>1 DEF Hold
          <6> QED BY <4>1, <6>1 DEF GetStats, Set
        <5> QED BY <1>1, <3>1, <5>1 DEF Hold
      <4>2. CASE SampleIsDue(k)
        <5>1. PICK i \in h.todo :
                keeper' = [keeper EXCEPT ![k] = [h EXCEPT !.label = "write", !.todo = @ \ {i},
                                                          !.interval = i]]
          BY <4>2 DEF SampleIsDue, Set
        <5>2. i \in Intervals
          BY <3>1, <5>1 DEF Hold
        <5> QED BY <1>1, <3>1, <5>1, <5>2 DEF Hold
      <4>3. CASE WriteSample(k)
        BY <1>1, <3>1, <4>3 DEF WriteSample, Set, Hold
      <4>4. CASE CountSample(k)
        BY <1>1, <3>1, <4>4 DEF CountSample, Set, Hold
      <4> QED BY <1>8, <4>1, <4>2, <4>3, <4>4
    <3> QED BY <3>2
  <2>4. Bounded(r)
    BY <1>1, <2>1, <2>3 DEF Bounded
  <2> QED BY <1>2, <2>2, <2>3, <2>4
<1>9. ASSUME NEW k \in Keepers, AppendPoint(k) PROVE BoundInv'
  <2>1. keeper[k].last <= now /\ UNCHANGED now
    BY <1>1, <1>9 DEF AppendPoint, Sampled, Keeps, Bounded
  <2>2. points' \in Nat
    BY <1>9 DEF AppendPoint, BoundInv
  <2>3. PICK r : keeper' = [keeper EXCEPT ![k] = r] /\ Bounded(r)
    <3> DEFINE full == [Idle EXCEPT !.label = "flush", !.last = keeper[k].last,
                                    !.toFlush = points + 1]
    <3>1. Bounded(full)
      BY <1>1, <2>1 DEF Bounded, Idle
    <3>2. Schedule(k) \/ keeper' = [keeper EXCEPT ![k] = full]
      BY <1>9 DEF AppendPoint, Set
    <3> HIDE DEF full
    <3> QED BY <1>5, <2>1, <3>1, <3>2
  <2> QED BY <1>2, <2>1, <2>2, <2>3
<1> QED BY <1>3, <1>4, <1>6, <1>7, <1>8, <1>9 DEF StatsStep

\* The variables of the starts and of the monitor keep their types; a round
\* is never more than one unit ahead of the time, and no more points are taken
\* back than were made: for any number of hosts, keepers and policies.
THEOREM MonitorTypes == Spec => []TypeOK
<1>1. Init => StartInv /\ ClockInv /\ SpacedInv
  BY StartInitInv, StatsStarts DEF Init, StatsInit, ClockInv
<1>2. Init => ConservedInv
  BY StatsStarts, ConservedInit DEF Init, SpacedInv
<1>3. Init => BoundInv
  BY TimeAssumption DEF Init, StatsInit, BoundInv, Bounded, Idle
<1>4. StartInv /\ ConservedInv /\ ClockInv /\ SpacedInv /\ BoundInv /\ [Next]_vars
        => StartInv' /\ ConservedInv' /\ ClockInv' /\ SpacedInv' /\ BoundInv'
  BY StartNextInv, NextStatsStep, ClockNext, SpacedNext, ConservedNext, BoundNext DEF SpacedInv
<1>5. StartInv /\ ConservedInv /\ ClockInv /\ SpacedInv /\ BoundInv => TypeOK
  <2> SUFFICES ASSUME StartInv, ConservedInv, ClockInv, SpacedInv, BoundInv PROVE TypeOK
    OBVIOUS
  <2>1. StatsTyped /\ Entries /\ now \in 0 .. MaxTime /\ MaxTime \in Nat
    BY TimeAssumption DEF SpacedInv, BoundInv
  <2>2. keeper \in [Keepers -> Round]
    <3>1. ASSUME NEW k \in Keepers PROVE keeper[k] \in Round
      <4> DEFINE h == keeper[k]
      <4>1. h \in Hold /\ h.at <= now /\ Bounded(h)
        BY <2>1 DEF StatsTyped, Entries, BoundInv
      <4> HIDE DEF h
      <4>2. /\ h.at \in 0 .. MaxTime /\ h.last \in 0 .. MaxTime + 1
            /\ h.interval \in Intervals \cup {0}
        BY <2>1, <4>1 DEF Hold, Bounded
      <4>3. h \in Round
        BY <4>1, <4>2 DEF Hold, Round
      <4> QED BY <4>3 DEF h
    <3> QED BY <2>1, <3>1 DEF StatsTyped
  <2>3. start \in [Names -> 0 .. MaxTime]
    <3>1. \A n \in Names : start[n] \in 0 .. MaxTime
      BY <2>1 DEF StatsTyped, Entries
    <3> QED BY <2>1, <3>1 DEF StatsTyped
  <2>4. lastWrite \in 0 .. MaxTime
    BY <2>1 DEF ClockInv
  <2>5. sampled \subseteq Names /\ {counter, samples, overlaps} \subseteq [Names -> [Intervals -> Nat]]
    BY <2>1 DEF StatsTyped
  <2>6. points \in Nat /\ underWay \in Nat
    BY DEF BoundInv, ConservedInv
  <2>7. StatsTypeOK
    BY <2>1, <2>2, <2>3, <2>4, <2>5, <2>6 DEF StatsTypeOK
  <2> QED BY <2>7 DEF StartInv, TypeOK
<1> QED BY <1>1, <1>2, <1>3, <1>4, <1>5, PTL DEF Spec
=============================================================================
