----------------------------- MODULE HealthCheck -----------------------------
(***************************************************************************)
(* ServiceHealthCheck (src/domeagent/agentmain/task.go): a task that       *)
(* starts a container starts a goroutine that probes the service of the    *)
(* container until the container stops, or until CheckTimes probes in a    *)
(* row failed, which it reports as an instance feedback "down".  Nothing   *)
(* stops the goroutine of an earlier start: one that sleeps while its      *)
(* container is stopped and started again goes on beside the new one.  A   *)
(* restart starts one only if MonitorContainer has taken the container out *)
(* of aliveContainerSet.                                                   *)
(***************************************************************************)
EXTENDS Integers, Sequences

CONSTANTS
  MaxStarts,  \* bound: tasks that start the container
  CheckTimes  \* healthCheck.CheckTimes; 0 when the task does not give it

ASSUME MaxStartsAssumption == MaxStarts \in Nat
ASSUME CheckTimesAssumption == CheckTimes \in Nat

Checkers == 1 .. MaxStarts    \* a task, and the checker it may start
CheckTypes == { "none", "http", "tcp", "other" }

VARIABLES
  running,          \* the container
  service,          \* "ok", "bad", or "hangs": accepts, and never answers
  alive,            \* it is in aliveContainerSet
  listedStopped,    \* MonitorContainer's listing did not show it
  checkType,        \* what the task asks for
  checkerPc, failTimes,    \* the goroutines
  downs,            \* the checkers that sent "down"
  \* history: whose request to dockerd failed; the checker started last;
  \* outcomes of a checker's probes; whether the container was not running at
  \* some time since the checker was started
  failed, last, outcomes, stopSeen

dockerVars == <<running, service>>
monitorVars == <<alive, listedStopped>>
checkVars == <<checkType, failTimes, downs, outcomes>>
checkerVars == <<dockerVars, monitorVars, checkerPc, checkVars, failed, last,
                 stopSeen>>

Probed(k) == checkType[k] \in { "http", "tcp" }
NoChecker == 0

\* Of a task before it starts its checker, or that starts none.
TaskLabels == { "off", "started", "restarting", "restarted", "restartHas",
                "restartAdd", "kept", "returned" }

CheckerInit ==
  /\ running \in BOOLEAN
  /\ service = "ok"
  /\ alive \in BOOLEAN
  /\ listedStopped = FALSE
  /\ checkType \in [Checkers -> CheckTypes]
  /\ checkerPc = [k \in Checkers |-> "off"]
  /\ failTimes = [k \in Checkers |-> 0]
  /\ downs = {}
  /\ failed = {}
  /\ last = NoChecker
  /\ outcomes = [k \in Checkers |-> << >>]
  /\ stopSeen = [k \in Checkers |-> FALSE]

CheckerGoto(k, label) == checkerPc' = [checkerPc EXCEPT ![k] = label]

-----------------------------------------------------------------------------
(* The container and its service.                                          *)

\* It is stopped: by a task, a restart or itself.
Stops ==
  /\ running' = FALSE
  /\ stopSeen' = [k \in Checkers |-> stopSeen[k] \/ checkerPc[k] \notin TaskLabels]

Stop ==
  /\ running
  /\ Stops
  /\ UNCHANGED <<service, monitorVars, checkerPc, checkVars, failed, last>>

ServiceChanges ==
  /\ service' \in { "ok", "bad", "hangs" } \ { service }
  /\ UNCHANGED <<running, monitorVars, checkerPc, checkVars, failed, last, stopSeen>>

-----------------------------------------------------------------------------
(* The tasks that start the container, of which several may be under way.  *)

Arrives(k) ==
  /\ checkerPc[k] = "off"
  /\ \A j \in Checkers : j < k => checkerPc[j] # "off"

\* StartContainer of the handler, or of RunContainer; the answer may be lost.
Start(k) ==
  /\ Arrives(k)
  /\ ~ running
  /\ running' = TRUE
  /\ \/ CheckerGoto(k, "started") /\ UNCHANGED failed
     \/ CheckerGoto(k, "returned") /\ failed' = failed \cup { k }
  /\ UNCHANGED <<service, monitorVars, checkVars, last, stopSeen>>

\* aliveContainerSet.Add, and go ServiceHealthCheck.
GoCheck(k) ==
  /\ alive' = TRUE
  /\ CheckerGoto(k, "begin")
  /\ last' = k
  /\ stopSeen' = [stopSeen EXCEPT ![k] = ~ running]
  /\ UNCHANGED <<dockerVars, listedStopped, checkVars, failed>>

StartMonitored(k) == checkerPc[k] = "started" /\ GoCheck(k)

\* client.RestartContainer stops the container and starts it, or fails.
RestartStops(k) ==
  /\ Arrives(k)
  /\ \/ Stops /\ CheckerGoto(k, "restarting")
     \/ CheckerGoto(k, "restarted") /\ UNCHANGED <<running, stopSeen>>
  /\ UNCHANGED <<service, monitorVars, checkVars, failed, last>>

RestartStarts(k) ==
  /\ checkerPc[k] = "restarting"
  /\ running' \in { TRUE, running }
  /\ CheckerGoto(k, "restarted")
  /\ UNCHANGED <<service, monitorVars, checkVars, failed, last, stopSeen>>

\* isRunning; FALSE also when the inspection fails.
RestartInspect(k) ==
  /\ checkerPc[k] = "restarted"
  /\ \/ CheckerGoto(k, IF running THEN "restartHas" ELSE "returned")
        /\ UNCHANGED failed
     \/ CheckerGoto(k, "returned") /\ failed' = failed \cup { k }
  /\ UNCHANGED <<dockerVars, monitorVars, checkVars, last, stopSeen>>

\* !aliveContainerSet.Has: otherwise no checker is started.
RestartHas(k) ==
  /\ checkerPc[k] = "restartHas"
  /\ CheckerGoto(k, IF alive THEN "kept" ELSE "restartAdd")
  /\ UNCHANGED <<dockerVars, monitorVars, checkVars, failed, last, stopSeen>>

RestartMonitored(k) == checkerPc[k] = "restartAdd" /\ GoCheck(k)

StartTask(k) == StartMonitored(k) \/ RestartStarts(k) \/ RestartInspect(k)
           \/ RestartHas(k) \/ RestartMonitored(k)

\* MonitorContainer: the listing, and what it takes out of the set for it.
MonitorList ==
  /\ ~ listedStopped /\ ~ running
  /\ listedStopped' = TRUE
  /\ UNCHANGED <<dockerVars, alive, checkerPc, checkVars, failed, last, stopSeen>>

MonitorTake ==
  /\ listedStopped
  /\ listedStopped' = FALSE
  /\ alive' = FALSE
  /\ UNCHANGED <<dockerVars, checkerPc, checkVars, failed, last, stopSeen>>

-----------------------------------------------------------------------------
(* A checker.                                                              *)

\* CheckType none, or one that is neither http nor tcp; or no docker client.
Return(k) ==
  /\ checkerPc[k] = "begin"
  /\ \/ ~ Probed(k) /\ UNCHANGED failed
     \/ checkType[k] # "none" /\ failed' = failed \cup { k }
  /\ CheckerGoto(k, "gone")
  /\ UNCHANGED <<dockerVars, monitorVars, checkVars, last, stopSeen>>

Begin(k) ==
  /\ checkerPc[k] = "begin" /\ Probed(k)
  /\ CheckerGoto(k, "running")
  /\ UNCHANGED <<dockerVars, monitorVars, checkVars, failed, last, stopSeen>>

\* Mutant: the loop does not look at the container.
IsRunning_Always(k) ==
  /\ checkerPc[k] = "running"
  /\ CheckerGoto(k, "probe")
  /\ UNCHANGED <<dockerVars, monitorVars, checkVars, failed, last, stopSeen>>

\* ContainerIsRunning; an error of the request reads as not running.
IsRunning(k) ==
  /\ checkerPc[k] = "running"
  /\ CheckerGoto(k, IF running THEN "probe" ELSE "end")
  /\ UNCHANGED <<dockerVars, monitorVars, checkVars, failed, last, stopSeen>>

InspectFails(k) ==
  /\ checkerPc[k] = "running"
  /\ failed' = failed \cup { k }
  /\ CheckerGoto(k, "end")
  /\ UNCHANGED <<dockerVars, monitorVars, checkVars, last, stopSeen>>

\* client.Get with an allowed code, or DialTimeout.  The timeout of an http
\* check covers the dial only.  Whatever holds the port of a stopped container
\* may answer.
Answers(k) ==
  \/ service = "ok"
  \/ service = "hangs" /\ checkType[k] = "tcp"
Refuses(k) ==
  \/ service = "bad"
  \/ ~ running

\* Mutants: failures are added up across successes; or the cases are swapped.
FailTimes_Total(k, success) == IF success THEN failTimes[k] ELSE failTimes[k] + 1
FailTimes_Swapped(k, success) == IF success THEN failTimes[k] + 1 ELSE 0

FailTimes(k, success) == IF success THEN 0 ELSE failTimes[k] + 1

\* history: the last CheckTimes outcomes.
LastOutcomes(k, success) ==
  LET all == Append(outcomes[k], success)
  IN  IF Len(all) <= CheckTimes THEN all
      ELSE SubSeq(all, Len(all) - CheckTimes + 1, Len(all))

Probe(k) ==
  /\ checkerPc[k] = "probe"
  /\ \E success \in BOOLEAN :
       /\ IF success THEN Answers(k) ELSE Refuses(k)
       /\ failTimes' = [failTimes EXCEPT ![k] = FailTimes(k, success)]
       /\ outcomes' = [outcomes EXCEPT ![k] = LastOutcomes(k, success)]
  /\ CheckerGoto(k, "judge")
  /\ UNCHANGED <<dockerVars, monitorVars, checkType, downs, failed, last, stopSeen>>

\* failTimes >= CheckTimes leaves the loop, which otherwise sleeps.
TooMany(k) == failTimes[k] >= CheckTimes

\* Mutant: containerStop is set on this way out, too.
Judge_Quiet(k) ==
  /\ checkerPc[k] = "judge"
  /\ CheckerGoto(k, IF TooMany(k) THEN "end" ELSE "running")
  /\ UNCHANGED <<dockerVars, monitorVars, checkVars, failed, last, stopSeen>>

Judge(k) ==
  /\ checkerPc[k] = "judge"
  /\ CheckerGoto(k, IF TooMany(k) THEN "down" ELSE "running")
  /\ UNCHANGED <<dockerVars, monitorVars, checkVars, failed, last, stopSeen>>

ReportDown(k) ==
  /\ checkerPc[k] = "down"
  /\ downs' = downs \cup { k }
  /\ CheckerGoto(k, "end")
  /\ UNCHANGED <<dockerVars, monitorVars, checkType, failTimes, outcomes, failed,
                 last, stopSeen>>

Check(k) == Begin(k) \/ IsRunning(k) \/ Probe(k) \/ Judge(k) \/ ReportDown(k)

-----------------------------------------------------------------------------
CheckerNext ==
  \/ Stop \/ ServiceChanges \/ MonitorList \/ MonitorTake
  \/ \E k \in Checkers :
       \/ Start(k) \/ RestartStops(k) \/ StartTask(k)
       \/ Return(k) \/ InspectFails(k) \/ Check(k)

\* Goroutines run, dockerd answers, and so does a service that does not hang.
\* Of the rounds of MonitorContainer nothing is assumed.
CheckerSpec == CheckerInit /\ [][CheckerNext]_checkerVars
FairCheckerSpec ==
  /\ CheckerSpec
  /\ \A k \in Checkers :
       WF_checkerVars(StartTask(k)) /\ WF_checkerVars(Return(k)) /\ WF_checkerVars(Check(k))

-----------------------------------------------------------------------------
CheckerTypeOK ==
  /\ running \in BOOLEAN
  /\ service \in { "ok", "bad", "hangs" }
  /\ alive \in BOOLEAN
  /\ listedStopped \in BOOLEAN
  /\ checkType \in [Checkers -> CheckTypes]
  /\ checkerPc \in [Checkers -> TaskLabels \cup { "begin", "gone", "running",
                                                 "probe", "judge", "down", "end" }]
  /\ failTimes \in [Checkers -> 0 .. (IF CheckTimes = 0 THEN 1 ELSE CheckTimes)]
  /\ downs \subseteq Checkers
  /\ failed \subseteq Checkers
  /\ last \in Checkers \cup { NoChecker }
  /\ outcomes \in [Checkers -> Seq(BOOLEAN)]
  /\ stopSeen \in [Checkers -> BOOLEAN]

\* "failed too many times consecutively": a checker that reports "down" did so
\* after CheckTimes probes in a row that all failed.
DownAfterFailures ==
  \A k \in downs :
    /\ Len(outcomes[k]) = CheckTimes
    /\ \A i \in 1 .. CheckTimes : ~ outcomes[k][i]

\* A checker gives up without a report only when its container was not running
\* at some time since it was started, or its own inspection failed: it does not
\* end quietly beside a container that kept running.
QuietEndIsExplained ==
  \A k \in Checkers :
    checkerPc[k] = "end" /\ k \notin downs => stopSeen[k] \/ k \in failed

\* A checker saw the container stopped and ended, and a restart started no other
\* because it found the container in aliveContainerSet still: MonitorContainer
\* did not see that stop, or had not taken the container out yet.
Unreplaced(k) ==
  /\ checkerPc[k] = "end" /\ k \notin downs
  /\ \E j \in Checkers : checkerPc[j] = "kept"

\* A service that is dead for good while its container keeps running is
\* reported, by the checker started last at least, as long as no request to
\* dockerd fails.  The code fails the service whose checker is Unreplaced
\* (task.go:876): it is never reported.
DeadServiceIsReported ==
  \A k \in Checkers :
    <>[](/\ last = k /\ Probed(k) /\ ~ Unreplaced(k)
         /\ running /\ service = "bad" /\ failed = {})
      => <>(k \in downs)

\* No checker outlives its container for good, not even one whose service hung.
CheckersEnd ==
  \A k \in Checkers : <>[](~ running) =>
    <>[](checkerPc[k] \in { "off", "kept", "returned", "gone", "end" })
=============================================================================
