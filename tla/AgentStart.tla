----------------------------- MODULE AgentStart -----------------------------
(***************************************************************************)
(* How an agent starts (src/domeagent/agentmain/agentmain.go,              *)
(* agentConfiguration.go, sysInfo.go, monitor.go) and how its monitor sets *)
(* up the InfluxDB database that all hosts share (New of                   *)
(* src/domeagent/monitor/storage/influxdb/influxdb.go): it drops every     *)
(* retention policy and creates them again, one statement after another.   *)
(* The watchdog starts an agent that died again.                           *)
(***************************************************************************)
EXTENDS Naturals, FiniteSets

CONSTANTS
  Hosts,     \* the machines with an agent
  Policies,  \* InfluxdbSamplingDatabases: the retention policies
  MaxFaults, \* bound: calls that fail, of all hosts
  MaxDeaths  \* bound: agents that a signal ends

ASSUME FaultAssumption == {MaxFaults, MaxDeaths} \subseteq Nat

VARIABLES
  \* per agent: its label, whether monitorServer was given, policies to go
  pc, parameters, todo,
  \* InfluxDB: whether the database exists, and its policies but "default"
  database, policies,
  faults, deaths,
  \* history: the policies that a New which was cut short may have left away
  forsaken

agentVars == <<pc, parameters, todo>>
influxVars == <<database, policies>>
startVars == <<agentVars, influxVars, faults, deaths, forsaken>>

Goto(h, label) == pc' = [pc EXCEPT ![h] = label]
Fault == faults < MaxFaults /\ faults' = faults + 1

StartInit ==
  /\ pc = [h \in Hosts |-> "configuration"] /\ parameters = [h \in Hosts |-> FALSE]
  /\ todo = [h \in Hosts |-> {}]
  /\ database \in BOOLEAN /\ policies = (IF database THEN Policies ELSE {})
  /\ faults = 0 /\ deaths = 0
  /\ forsaken = Policies \ policies

-----------------------------------------------------------------------------
(* setConfiguration, SendClientInfo and prepareRunningEnv repeat a call    *)
(* that fails; only what changes the state is a step.                      *)

\* setConfiguration: an answer to its second call with another status leaves
\* receiveBytes as it is: the answer to the first call is taken for the
\* parameters of the monitor, none of which it has.
SetConfiguration(h) ==
  /\ pc[h] = "configuration"
  /\ Goto(h, "register")
  /\ \/ parameters' = [parameters EXCEPT ![h] = TRUE] /\ UNCHANGED faults
     \/ Fault /\ UNCHANGED parameters
  /\ UNCHANGED <<todo, influxVars, deaths, forsaken>>

\* The process ends: the daemon starts it again.
Down(h) ==
  /\ Goto(h, "down")
  /\ todo' = [todo EXCEPT ![h] = {}]
  /\ forsaken' = (IF pc[h] = "drop" \/ todo[h] # {} THEN Policies \ policies ELSE forsaken)
  /\ UNCHANGED <<parameters, influxVars>>

\* SendClientInfo: GetClientInfo ends the process when something cannot be
\* read.  Docker runs when prepareRunningEnv has returned.
Register(h) ==
  /\ pc[h] = "register"
  /\ \/ /\ Goto(h, "databases")
        /\ UNCHANGED <<parameters, todo, influxVars, faults, deaths, forsaken>>
     \/ Fault /\ Down(h) /\ UNCHANGED deaths

-----------------------------------------------------------------------------
(* influxdb.New.  queryDB returns an error that InfluxDB answers with; the *)
(* error of a call that does not come through is shadowed, and the answer  *)
(* looks empty: res[0] panics, and a DROP or a CREATE seems to have        *)
(* worked.  When New returns an error, which InfluxDB may answer any       *)
(* statement with, StartMonitor calls Start of a nil Manager, which panics *)
(* as well.                                                                *)

Panics(h) == Down(h) /\ UNCHANGED <<faults, deaths>>
Fails(h) == Fault /\ Down(h) /\ UNCHANGED deaths

ShowDatabases(h) ==
  /\ pc[h] = "databases"
  /\ \/ /\ parameters[h] /\ Goto(h, IF database THEN "list" ELSE "createDatabase")
        /\ UNCHANGED <<parameters, todo, influxVars, faults, deaths, forsaken>>
     \/ ~ parameters[h] /\ Panics(h)
     \/ Fails(h)

\* The answer "database already exists" is no error.
CreateDatabase(h) ==
  /\ pc[h] = "createDatabase"
  /\ \/ /\ \/ database' = TRUE /\ UNCHANGED faults
           \/ Fault /\ UNCHANGED database
        /\ Goto(h, "list")
        /\ UNCHANGED <<parameters, todo, policies, deaths, forsaken>>
     \/ Fails(h)

ShowPolicies(h) ==
  /\ pc[h] = "list"
  /\ \/ /\ database /\ Goto(h, "drop") /\ todo' = [todo EXCEPT ![h] = policies]
        /\ UNCHANGED <<parameters, influxVars, faults, deaths, forsaken>>
     \/ ~ database /\ Panics(h)
     \/ Fails(h)

Statement(h, p) == p \in todo[h] /\ todo' = [todo EXCEPT ![h] = @ \ {p}]

\* InfluxDB 0.9 answers with an error when the policy has gone; a call whose
\* answer is lost has worked
DropPolicy(h) ==
  /\ pc[h] = "drop"
  /\ \/ \E p \in Policies :
          /\ Statement(h, p)
          /\ \/ /\ p \in policies /\ policies' = policies \ {p} /\ UNCHANGED faults
             \/ Fault /\ UNCHANGED policies
          /\ UNCHANGED <<pc, parameters, database, deaths, forsaken>>
     \/ todo[h] \ policies # {} /\ Panics(h)
     \/ todo[h] # {} /\ Fails(h)

\* Mutant: the policies are not created again.
DropPolicies_Only(h) ==
  /\ pc[h] = "drop" /\ todo[h] = {}
  /\ Goto(h, "create")
  /\ UNCHANGED <<parameters, todo, influxVars, faults, deaths, forsaken>>

DropPolicies(h) ==
  /\ pc[h] = "drop" /\ todo[h] = {}
  /\ Goto(h, "create") /\ todo' = [todo EXCEPT ![h] = Policies]
  /\ UNCHANGED <<parameters, influxVars, faults, deaths, forsaken>>

\* ... and when another host has created it
CreatePolicy(h) ==
  /\ pc[h] = "create"
  /\ \/ \E p \in Policies :
          /\ Statement(h, p)
          /\ \/ /\ p \notin policies /\ policies' = policies \cup {p}
                /\ forsaken' = forsaken \ {p} /\ UNCHANGED faults
             \/ /\ Fault /\ UNCHANGED policies
                /\ forsaken' = forsaken \cup ({p} \ policies)
          /\ UNCHANGED <<pc, parameters, database, deaths>>
     \/ todo[h] \cap policies # {} /\ Panics(h)
     \/ todo[h] # {} /\ Fails(h)

-----------------------------------------------------------------------------
\* What is left of monitor.New reads the machine and the cgroups.
MonitorNew(h) ==
  /\ pc[h] = "create" /\ todo[h] = {}
  /\ \/ /\ Goto(h, "start")
        /\ UNCHANGED <<parameters, todo, influxVars, faults, deaths, forsaken>>
     \/ Fails(h)

\* An error of Start is logged, and the agent goes on without a monitor.
MonitorStart(h) ==
  /\ pc[h] = "start"
  /\ \/ Goto(h, "running") /\ UNCHANGED faults
     \/ Fault /\ Goto(h, "noMonitor")
  /\ UNCHANGED <<parameters, todo, influxVars, deaths, forsaken>>

Die(h) ==
  /\ pc[h] # "down"
  /\ deaths < MaxDeaths /\ deaths' = deaths + 1
  /\ Down(h) /\ UNCHANGED faults

\* keepDaemon of the daemon
Restart(h) ==
  /\ pc[h] = "down"
  /\ Goto(h, "configuration")
  /\ parameters' = [parameters EXCEPT ![h] = FALSE]
  /\ UNCHANGED <<todo, influxVars, faults, deaths, forsaken>>

StartStep(h) ==
  \/ SetConfiguration(h) \/ Register(h)
  \/ ShowDatabases(h) \/ CreateDatabase(h) \/ ShowPolicies(h)
  \/ DropPolicy(h) \/ DropPolicies(h) \/ CreatePolicy(h)
  \/ MonitorNew(h) \/ MonitorStart(h) \/ Die(h) \/ Restart(h)

-----------------------------------------------------------------------------

Labels == {"configuration", "register", "databases",
           "createDatabase", "list", "drop", "create", "start", "running",
           "noMonitor", "down"}

StartTypeOK ==
  /\ pc \in [Hosts -> Labels] /\ parameters \in [Hosts -> BOOLEAN]
  /\ todo \in [Hosts -> SUBSET Policies]
  /\ database \in BOOLEAN /\ policies \subseteq Policies
  /\ faults \in 0..MaxFaults /\ deaths \in 0..MaxDeaths
  /\ forsaken \subseteq Policies

\* A retention policy is missing only while an agent is still dropping them or
\* has its CREATE to send, or when a New that was cut short left it away and
\* none has created it since: however the starts of several hosts overlap, the
\* ones that end well leave all policies behind.
PoliciesAreKept ==
  Policies \ policies \subseteq
    forsaken \cup UNION {IF pc[h] = "drop" THEN Policies ELSE todo[h] : h \in Hosts}
=============================================================================
