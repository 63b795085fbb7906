---------------------------- MODULE AgentMonitor ----------------------------
(***************************************************************************)
(* The agents of several hosts start on one database (AgentStart) while    *)
(* one of them has its monitor write to it (ContainerStats): a sample goes *)
(* to a retention policy that another host's start may just have taken.    *)
(***************************************************************************)
EXTENDS AgentStart, ContainerStats

CONSTANT Local  \* the host whose keepers are modelled

\* keepers may leave out policies whose interval is too long for MaxTime
ASSUME LocalAssumption == Local \in Hosts /\ Intervals \subseteq Policies

vars == <<startVars, statsVars>>

Init == StartInit /\ StatsInit

Elsewhere == \E h \in Hosts \ {Local} : StartStep(h) /\ UNCHANGED statsVars

Here ==
  /\ StartStep(Local)
  /\ IF pc'[Local] = "down" THEN ProcessEnds ELSE UNCHANGED statsVars

\* createContainer and destroyContainer of a manager that starts or runs
Containers ==
  /\ pc[Local] \in {"start", "running"}
  /\ \E k \in Keepers : StartKeeper(k) \/ StopKeeper(k)
  /\ UNCHANGED startVars

\* InfluxDB refuses a point whose retention policy it does not have.
Sample(k) ==
  /\ \/ WriteSample(k) /\ keeper[k].interval \in policies /\ UNCHANGED faults
     \/ WriteFails(k) /\ keeper[k].interval \notin policies /\ UNCHANGED faults
     \/ WriteFails(k) /\ Fault
  /\ UNCHANGED <<agentVars, influxVars, deaths, forsaken>>

FlushPoints(k) ==
  /\ \/ FlushWorks(k) /\ UNCHANGED faults
     \/ FlushFails(k) /\ Fault
  /\ UNCHANGED <<agentVars, influxVars, deaths, forsaken>>

\* The keepers that a failed Start leaves behind go on.
Keeping ==
  \E k \in Keepers : Sample(k) \/ FlushPoints(k) \/ (KeeperStep(k) /\ UNCHANGED startVars)

\* influxdb.New has returned
Time == pc[Local] \in {"start", "running", "noMonitor"} /\ Tick /\ UNCHANGED startVars

Next == Time \/ Elsewhere \/ Here \/ Containers \/ Keeping

Spec == Init /\ [][Next]_vars

TypeOK == StartTypeOK /\ StatsTypeOK
=============================================================================
