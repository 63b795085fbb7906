------------------------------ MODULE TaskAgent ------------------------------
(***************************************************************************)
(* Task execution and container monitoring of the agent                    *)
(* (src/domeagent/agentmain/task.go).                                      *)
(*                                                                         *)
(* Every message of the server starts one goroutine, Task(t), which acks   *)
(* the task, calls dockerd and finishes the task.  One more goroutine,     *)
(* MonitorContainer, polls dockerd for the running containers and reports  *)
(* the ones of aliveContainerSet that stopped, "normal" when a task        *)
(* stopped them and "unexcepted" otherwise.  The goroutines share          *)
(* aliveContainerSet, stopSetForFeedBack and the counter stopWaitGroup.    *)
(*                                                                         *)
(* Each action is the code of one goroutine between two points where       *)
(* another goroutine (or dockerd) can observe or change what it uses.      *)
(* A feedback counts as sent when SendTaskFeedBack takes it from           *)
(* sendFeedBackChannel; its way to the server is module FeedBackLink.      *)
(***************************************************************************)
EXTENDS Integers, Sequences, FiniteSets

CONSTANTS
  Tasks,        \* tasks the server may send, one goroutine each
  Containers,   \* containers that exist or may be created
  NoContainer,  \* an empty ContainerId
  Kinds,        \* the TaskTypes the server sends in this instance
  HealthChecks, \* whether a started container asks for a health check
  MaxDeaths     \* bound: containers that exit by themselves

WithId == { "StartContainer", "StopContainer", "RestartContainer",
            "RemoveContainer" }                   \* tasks naming a container
AllKinds == WithId \cup
            { "PullImage", "CreateContainer", "RunContainer", "Unknown" }

ASSUME TasksFinite == IsFiniteSet(Tasks)
ASSUME NoContainerAssumption == NoContainer \notin Containers
ASSUME KindsAssumption == Kinds \subseteq AllKinds
ASSUME HealthChecksAssumption == HealthChecks \subseteq BOOLEAN
ASSUME MaxDeathsAssumption == MaxDeaths \in Nat

VARIABLES
  \* dockerd
  clientOk,       \* DockerServerAddr is an endpoint docker.NewClient accepts
  status,         \* the state of each container in dockerd
  deaths,         \* containers that exited by themselves so far
  \* the goroutines running Task
  pc, kind, target, err, isRunning,
  \* the globals of task.go
  aliveContainerSet, stopSetForFeedBack, stopWaitGroup,
  \* the goroutine MonitorContainer
  monPc, aliveApi, oldAlive, monId,
  \* the goroutines running ServiceHealthCheck, per container
  checking, failing,
  \* what went through sendFeedBackChannel
  taskFeedBack, instanceFeedBack,
  \* history, read by no action: stops the monitor owes a "normal" for, the
  \* ones of its current listing, those whose entry the Remove after an earlier
  \* report took away, and the containers of the first listing
  stopDue, owedNormal, takenAway, host

dockerVars  == <<clientOk, status, deaths>>
taskVars    == <<pc, kind, target, err, isRunning>>
setVars     == <<aliveContainerSet, stopSetForFeedBack, stopWaitGroup>>
monitorVars == <<monPc, aliveApi, oldAlive, monId>>
checkVars   == <<checking, failing>>
outVars     == <<taskFeedBack, instanceFeedBack>>
historyVars == <<stopDue, owedNormal, takenAway, host>>
localVars   == <<kind, target, err, isRunning>>
restVars    == <<dockerVars, setVars, monitorVars, checkVars, historyVars>>
vars == <<dockerVars, taskVars, setVars, monitorVars, checkVars, outVars,
          historyVars>>

-----------------------------------------------------------------------------
Known == { "created", "running", "exited" }    \* what ListContainers(All) shows
\* Mutant: an empty ContainerId is not refused.
Existing_EmptyId ==
  { c \in Containers : status[c] \in Known } \cup { NoContainer }

Existing == { c \in Containers : status[c] \in Known }
Running == { c \in Containers : status[c] = "running" }

Init ==
  /\ clientOk \in BOOLEAN
  /\ status \in [Containers -> { "none" } \cup Known]
  /\ deaths = 0
  /\ pc = [t \in Tasks |-> "idle"]
  /\ kind = [t \in Tasks |-> "Unknown"]
  /\ target = [t \in Tasks |-> NoContainer]
  /\ err = [t \in Tasks |-> FALSE]
  /\ isRunning = [t \in Tasks |-> FALSE]
  /\ aliveContainerSet = {}
  /\ stopSetForFeedBack = {}
  /\ stopWaitGroup = 0
  /\ monPc = "client"
  /\ aliveApi = {}
  /\ oldAlive = {}
  /\ monId = NoContainer
  /\ checking = [c \in Containers |-> 0]
  /\ failing = [c \in Containers |-> 0]
  /\ taskFeedBack = [t \in Tasks |-> << >>]
  /\ instanceFeedBack = [c \in Containers |-> << >>]
  /\ stopDue = {}
  /\ owedNormal = {}
  /\ takenAway = {}
  /\ host = {}

-----------------------------------------------------------------------------
(* dockerd, as the handlers use it.                                        *)

DockerRuns(c) ==
  /\ status' = [status EXCEPT ![c] = "running"]
  /\ stopDue' = stopDue \ {c}

DockerExits(c, how) == status' = [status EXCEPT ![c] = how]

\* A container exits by itself.
Die(c) ==
  /\ deaths < MaxDeaths
  /\ status[c] = "running"
  /\ DockerExits(c, "exited")
  /\ deaths' = deaths + 1
  /\ UNCHANGED <<clientOk, taskVars, setVars, monitorVars, checkVars, outVars,
                 stopDue, owedNormal, takenAway, host>>

-----------------------------------------------------------------------------
(* The parts of a handler.                                                 *)

Goto(t, label) == pc' = [pc EXCEPT ![t] = label]
SendTask(t, phase) ==
  taskFeedBack' = [taskFeedBack EXCEPT ![t] = Append(@, phase)]
SendInstance(c, phase) ==
  instanceFeedBack' = [instanceFeedBack EXCEPT ![c] = Append(@, phase)]

\* aliveContainerSet.Add
AddAlive(S) == aliveContainerSet' = aliveContainerSet \cup S

\* go ServiceHealthCheck(c, info): it returns at once for CheckType "none".
GoHealthCheck(c) ==
  \E asked \in HealthChecks :
    checking' = [checking EXCEPT ![c] = IF asked THEN @ + 1 ELSE @]

\* The label a task's handler starts at, by TaskType.
Handler ==
  [ PullImage |-> "pull", RunContainer |-> "pull", CreateContainer |-> "create",
    StartContainer |-> "start", StopContainer |-> "stop",
    RestartContainer |-> "restart", RemoveContainer |-> "remove",
    Unknown |-> "failed" ]

Entries == { "pull", "create", "start", "stop", "restart", "remove" }

-----------------------------------------------------------------------------
(* Task: receive, ack, finish.                                             *)

\* ProcessTask reads a line and starts the goroutine; the line is a task of
\* the server, or nothing json.Unmarshal accepts.
Receive(t) ==
  /\ pc[t] = "idle"
  /\ \/ /\ \E k \in Kinds :
             /\ kind' = [kind EXCEPT ![t] = k]
             /\ \E id \in (IF k \in WithId
                             THEN Existing \cup { NoContainer }
                             ELSE { NoContainer }) :
                  target' = [target EXCEPT ![t] = id]
        /\ Goto(t, "ack")
     \/ Goto(t, "unparsed") /\ UNCHANGED <<kind, target>>
  /\ UNCHANGED <<restVars, err, isRunning, outVars>>

\* The line is no NodeTask: ack with id -1, and nothing more.
AckUnparsed(t) ==
  /\ pc[t] = "unparsed"
  /\ SendTask(t, "ackNoId")
  /\ Goto(t, "end")
  /\ UNCHANGED <<restVars, localVars, instanceFeedBack>>

Ack(t) ==
  /\ pc[t] = "ack"
  /\ SendTask(t, "ack")
  /\ Goto(t, Handler[kind[t]])
  /\ UNCHANGED <<restVars, localVars, instanceFeedBack>>

\* The handler's own json.Unmarshal fails, or CreateContainer refuses the
\* parameters.  The start half of RunContainer parses nothing.
Reject(t) ==
  /\ pc[t] \in Entries
  /\ ~ (kind[t] = "RunContainer" /\ pc[t] = "start")
  /\ Goto(t, "rejected")
  /\ UNCHANGED <<restVars, localVars, outVars>>

\* The answer to a rejected task is a second ack, with an error code.
AckRejected(t) ==
  /\ pc[t] = "rejected"
  /\ SendTask(t, "ackError")
  /\ Goto(t, "end")
  /\ UNCHANGED <<restVars, localVars, instanceFeedBack>>

\* docker.NewClient fails in the handler.
NoClient(t) ==
  /\ pc[t] \in Entries
  /\ ~ clientOk
  /\ Goto(t, "failed")
  /\ UNCHANGED <<restVars, localVars, outVars>>

\* Mutant: the handler does not return its error to Task.
FinishError_Nil(t) ==
  /\ pc[t] = "failed"
  /\ SendTask(t, "finishError")
  /\ Goto(t, "finish")
  /\ UNCHANGED <<restVars, localVars, instanceFeedBack>>

\* The "finish" with an error code that the handler (or the default case of
\* Task) sends before it returns its error.
FinishError(t) ==
  /\ pc[t] = "failed"
  /\ SendTask(t, "finishError")
  /\ Goto(t, "end")
  /\ UNCHANGED <<restVars, localVars, instanceFeedBack>>

\* Task's own "finish" when the handler returned no error.
FinishOk(t) ==
  /\ pc[t] = "finish"
  /\ SendTask(t, "finish")
  /\ Goto(t, "end")
  /\ UNCHANGED <<restVars, localVars, instanceFeedBack>>

-----------------------------------------------------------------------------
(* PullImage, CreateContainer, StartContainer; RunContainer is the three.  *)
(* An error of a call that reached dockerd (its answer was lost, say) does *)
(* not tell whether dockerd did it.                                        *)

PullImage(t) ==
  /\ pc[t] = "pull"
  /\ clientOk
  /\ \/ Goto(t, IF kind[t] = "RunContainer" THEN "create" ELSE "finish")
     \/ Goto(t, "failed")
  /\ UNCHANGED <<restVars, localVars, outVars>>

CreateContainer(t) ==
  /\ pc[t] = "create"
  /\ clientOk
  /\ \/ \E c \in Containers :
          /\ status[c] = "none"
          /\ status' = [status EXCEPT ![c] = "created"]
          /\ \/ /\ target' = [target EXCEPT ![t] = c]
                /\ Goto(t, IF kind[t] = "RunContainer" THEN "start"
                                                          ELSE "finish")
             \/ Goto(t, "failed") /\ UNCHANGED target
     \/ Goto(t, "failed") /\ UNCHANGED <<status, target>>
  /\ UNCHANGED <<clientOk, deaths, kind, err, isRunning, setVars, monitorVars,
                 checkVars, outVars, historyVars>>

\* client.StartContainer
StartContainer(t) ==
  /\ pc[t] = "start"
  /\ clientOk
  /\ \/ /\ target[t] \in Existing \ Running
        /\ DockerRuns(target[t])
        /\ Goto(t, "started") \/ Goto(t, "failed")
     \/ Goto(t, "failed") /\ UNCHANGED <<status, stopDue>>
  /\ UNCHANGED <<clientOk, deaths, localVars, setVars, monitorVars, checkVars,
                 outVars, owedNormal, takenAway, host>>

\* The instance feedback is sent before the container is monitored.
ReportStart(t) ==
  /\ pc[t] = "started"
  /\ SendInstance(target[t], "start")
  /\ Goto(t, "startAdd")
  /\ UNCHANGED <<restVars, localVars, taskFeedBack>>

StartMonitored(t) ==
  /\ pc[t] = "startAdd"
  /\ AddAlive({target[t]})
  /\ GoHealthCheck(target[t])
  /\ Goto(t, "finish")
  /\ UNCHANGED <<dockerVars, localVars, stopSetForFeedBack, stopWaitGroup,
                 monitorVars, failing, outVars, historyVars>>

-----------------------------------------------------------------------------
(* StopContainer                                                           *)

Stopping == { "stopApi", "stopOk", "stopFailed", "stopDone" }

StopEnter(t) ==
  /\ pc[t] = "stop"
  /\ clientOk
  /\ stopWaitGroup' = stopWaitGroup + 1
  /\ Goto(t, "stopApi")
  /\ UNCHANGED <<dockerVars, localVars, aliveContainerSet, stopSetForFeedBack,
                 monitorVars, checkVars, outVars, historyVars>>

\* client.StopContainer
StopContainer(t) ==
  /\ pc[t] = "stopApi"
  /\ \/ /\ target[t] \in Running
        /\ DockerExits(target[t], "exited")
        /\ \/ /\ stopDue' = stopDue \cup { target[t] }
              /\ err' = [err EXCEPT ![t] = FALSE]
              /\ Goto(t, "stopOk")
           \/ /\ err' = [err EXCEPT ![t] = TRUE]
              /\ Goto(t, "stopFailed")
              /\ UNCHANGED stopDue
     \/ /\ err' = [err EXCEPT ![t] = TRUE]
        /\ Goto(t, "stopFailed")
        /\ UNCHANGED <<status, stopDue>>
  /\ UNCHANGED <<clientOk, deaths, kind, target, isRunning, setVars,
                 monitorVars, checkVars, outVars, owedNormal, takenAway, host>>

StopSetAdd(t) ==
  /\ pc[t] = "stopOk"
  /\ stopSetForFeedBack' = stopSetForFeedBack \cup { target[t] }
  /\ takenAway' = takenAway \ { target[t] }
  /\ Goto(t, "stopDone")
  /\ UNCHANGED <<dockerVars, localVars, aliveContainerSet, stopWaitGroup,
                 monitorVars, checkVars, outVars, stopDue, owedNormal, host>>

\* Mutant: the error path returns without stopWaitGroup.Done().
StopError_Returns(t) ==
  /\ pc[t] = "stopFailed"
  /\ SendTask(t, "finishError")
  /\ Goto(t, "end")
  /\ UNCHANGED <<restVars, localVars, instanceFeedBack>>

\* The error feedback is sent inside the section stopWaitGroup counts.
StopError(t) ==
  /\ pc[t] = "stopFailed"
  /\ SendTask(t, "finishError")
  /\ Goto(t, "stopDone")
  /\ UNCHANGED <<restVars, localVars, instanceFeedBack>>

StopLeave(t) ==
  /\ pc[t] = "stopDone"
  /\ stopWaitGroup' = stopWaitGroup - 1
  /\ Goto(t, IF err[t] THEN "end" ELSE "finish")
  /\ UNCHANGED <<dockerVars, localVars, aliveContainerSet, stopSetForFeedBack,
                 monitorVars, checkVars, outVars, historyVars>>

-----------------------------------------------------------------------------
(* RestartContainer: dockerd stops the container, then starts it.          *)

RestartStops(t) ==
  /\ pc[t] = "restart"
  /\ clientOk
  /\ \/ /\ target[t] \in Running
        /\ DockerExits(target[t], "exited")
        /\ Goto(t, "restarting")
     \/ /\ target[t] \in Existing \ Running
        /\ Goto(t, "restarting")
        /\ UNCHANGED <<status>>
  /\ UNCHANGED <<clientOk, deaths, localVars, setVars, monitorVars, checkVars,
                 outVars, stopDue, owedNormal, takenAway, host>>

\* The call fails before it stopped anything: empty id, no such container.
RestartFails(t) ==
  /\ pc[t] = "restart"
  /\ clientOk
  /\ err' = [err EXCEPT ![t] = TRUE]
  /\ Goto(t, "restarted")
  /\ UNCHANGED <<restVars, kind, target, isRunning, outVars>>

RestartStarts(t) ==
  /\ pc[t] = "restarting"
  /\ \/ /\ target[t] \in Existing
        /\ DockerRuns(target[t])
        /\ \E failed \in BOOLEAN : err' = [err EXCEPT ![t] = failed]
     \/ /\ err' = [err EXCEPT ![t] = TRUE]
        /\ UNCHANGED <<status, stopDue>>
  /\ Goto(t, "restarted")
  /\ UNCHANGED <<clientOk, deaths, kind, target, isRunning, setVars,
                 monitorVars, checkVars, outVars, owedNormal, takenAway,
                 host>>

\* isRunning := ContainerIsRunning, which is FALSE when the inspection fails.
RestartInspect(t) ==
  /\ pc[t] = "restarted"
  /\ \E answered \in BOOLEAN :
       isRunning' = [isRunning EXCEPT ![t] = answered /\ target[t] \in Running]
  /\ Goto(t, "restartSend")
  /\ UNCHANGED <<restVars, kind, target, err, outVars>>

RestartReport(t) ==
  /\ pc[t] = "restartSend"
  /\ IF err[t]
       THEN SendTask(t, "finishError") /\ UNCHANGED instanceFeedBack
       ELSE SendInstance(target[t], "restart") /\ UNCHANGED taskFeedBack
  /\ Goto(t, "restartHas")
  /\ UNCHANGED <<restVars, localVars>>

Returned(t) == IF err[t] THEN "end" ELSE "finish"

\* if isRunning && !aliveContainerSet.Has(containerId)
RestartHas(t) ==
  /\ pc[t] = "restartHas"
  /\ Goto(t, IF isRunning[t] /\ target[t] \notin aliveContainerSet
               THEN "restartAdd" ELSE Returned(t))
  /\ UNCHANGED <<restVars, localVars, outVars>>

RestartMonitored(t) ==
  /\ pc[t] = "restartAdd"
  /\ GoHealthCheck(target[t])
  /\ AddAlive({target[t]})
  /\ Goto(t, Returned(t))
  /\ UNCHANGED <<dockerVars, localVars, stopSetForFeedBack, stopWaitGroup,
                 monitorVars, failing, outVars, historyVars>>

-----------------------------------------------------------------------------
(* RemoveContainer: a running container is removed only by force.          *)

RemoveContainer(t) ==
  /\ pc[t] = "remove"
  /\ clientOk
  /\ \/ /\ target[t] \in Existing
        /\ DockerExits(target[t], "removed")
        /\ Goto(t, "finish") \/ Goto(t, "failed")
     \/ Goto(t, "failed") /\ UNCHANGED <<status>>
  /\ UNCHANGED <<clientOk, deaths, localVars, setVars, monitorVars, checkVars,
                 outVars, stopDue, owedNormal, takenAway, host>>

TaskStep(t) ==
  \/ Receive(t) \/ AckUnparsed(t) \/ Ack(t) \/ Reject(t) \/ AckRejected(t)
  \/ NoClient(t) \/ FinishError(t) \/ FinishOk(t)
  \/ PullImage(t) \/ CreateContainer(t) \/ StartContainer(t)
  \/ ReportStart(t) \/ StartMonitored(t)
  \/ StopEnter(t) \/ StopContainer(t) \/ StopSetAdd(t) \/ StopError(t)
  \/ StopLeave(t)
  \/ RestartStops(t) \/ RestartFails(t) \/ RestartStarts(t)
  \/ RestartInspect(t) \/ RestartReport(t) \/ RestartHas(t)
  \/ RestartMonitored(t)
  \/ RemoveContainer(t)

-----------------------------------------------------------------------------
(* MonitorContainer                                                        *)

\* docker.NewClient, again every ten seconds until it succeeds.
MonitorClient ==
  /\ monPc = "client"
  /\ monPc' = IF clientOk THEN "initList" ELSE "client"
  /\ UNCHANGED <<dockerVars, taskVars, setVars, aliveApi, oldAlive, monId,
                 checkVars, outVars, historyVars>>

\* All containers of the host, or none when the call fails.
MonitorInitList ==
  /\ monPc = "initList"
  /\ \E listed \in { Existing, {} } :
       /\ oldAlive' = listed
       /\ host' = listed
  /\ monPc' = "initAdd"
  /\ UNCHANGED <<dockerVars, taskVars, setVars, aliveApi, monId, checkVars,
                 outVars, stopDue, owedNormal, takenAway>>

MonitorInitAdd ==
  /\ monPc = "initAdd"
  /\ AddAlive(oldAlive)
  /\ stopSetForFeedBack' = stopSetForFeedBack \cup oldAlive
  /\ oldAlive' = {}
  /\ monPc' = "list"
  /\ UNCHANGED <<dockerVars, taskVars, stopWaitGroup, aliveApi, monId,
                 checkVars, outVars, stopDue, owedNormal, takenAway, host>>

\* ListContainers(All: false); a failed call changes nothing and is tried
\* again after the sleep.
MonitorList ==
  /\ monPc = "list"
  /\ aliveApi' = Running
  /\ monPc' = "old"
  /\ owedNormal' = stopDue
  /\ UNCHANGED <<dockerVars, taskVars, setVars, oldAlive, monId, checkVars,
                 outVars, stopDue, takenAway, host>>

\* oldAliveContainerIds, of which only the ones dockerd did not list matter.
MonitorOld ==
  /\ monPc = "old"
  /\ oldAlive' = aliveContainerSet \ aliveApi
  /\ monPc' = IF oldAlive' = {} THEN "list" ELSE "scan"
  /\ UNCHANGED <<dockerVars, taskVars, setVars, aliveApi, monId, checkVars,
                 outVars, historyVars>>

\* Mutant: the id stays in aliveContainerSet.
MonitorTake_Stays ==
  /\ monPc = "scan"
  /\ \E c \in oldAlive : monId' = c /\ oldAlive' = oldAlive \ {c}
  /\ monPc' = "wait"
  /\ UNCHANGED <<dockerVars, taskVars, setVars, aliveApi, checkVars, outVars,
                 historyVars>>

\* The next id, in the order of the Go map: out of aliveContainerSet.
MonitorTake ==
  /\ monPc = "scan"
  /\ \E c \in oldAlive :
       /\ monId' = c
       /\ oldAlive' = oldAlive \ {c}
       /\ aliveContainerSet' = aliveContainerSet \ {c}
  /\ monPc' = "wait"
  /\ UNCHANGED <<dockerVars, taskVars, stopSetForFeedBack, stopWaitGroup,
                 aliveApi, checkVars, outVars, historyVars>>

\* Mutant: the report does not wait for the stops under way.
MonitorWait_Not ==
  /\ monPc = "wait"
  /\ monPc' = "has"
  /\ UNCHANGED <<dockerVars, taskVars, setVars, aliveApi, oldAlive, monId,
                 checkVars, outVars, historyVars>>

\* stopWaitGroup.Wait()
MonitorWait ==
  /\ monPc = "wait"
  /\ stopWaitGroup = 0
  /\ monPc' = "has"
  /\ UNCHANGED <<dockerVars, taskVars, setVars, aliveApi, oldAlive, monId,
                 checkVars, outVars, historyVars>>

\* stopSetForFeedBack.Has decides which of the two feedbacks is sent.  A normal
\* one speaks for the stops so far, and for none that comes while it is sent.
MonitorHas ==
  /\ monPc = "has"
  /\ IF monId \in stopSetForFeedBack
       THEN monPc' = "reportNormal" /\ stopDue' = stopDue \ { monId }
       ELSE monPc' = "reportUnexcepted" /\ UNCHANGED stopDue
  /\ UNCHANGED <<dockerVars, taskVars, setVars, aliveApi, oldAlive, monId,
                 checkVars, outVars, owedNormal, takenAway, host>>

NextId == IF oldAlive = {} THEN "list" ELSE "scan"

MonitorReport ==
  /\ \/ /\ monPc = "reportNormal"
        /\ SendInstance(monId, "stopNormal")
        /\ monPc' = "forget"
     \/ /\ monPc = "reportUnexcepted"
        /\ SendInstance(monId, "stopUnexcepted")
        /\ monPc' = NextId
  /\ UNCHANGED <<dockerVars, taskVars, setVars, aliveApi, oldAlive, monId,
                 checkVars, taskFeedBack, historyVars>>

\* stopSetForFeedBack.Remove, after the feedback went out: also of the entry of
\* a stop that came meanwhile.
MonitorForget ==
  /\ monPc = "forget"
  /\ stopSetForFeedBack' = stopSetForFeedBack \ { monId }
  /\ takenAway' = takenAway \cup (stopDue \cap { monId })
  /\ monPc' = NextId
  /\ UNCHANGED <<dockerVars, taskVars, aliveContainerSet, stopWaitGroup,
                 aliveApi, oldAlive, monId, checkVars, outVars, stopDue,
                 owedNormal, host>>

Monitor ==
  \/ MonitorClient \/ MonitorInitList \/ MonitorInitAdd \/ MonitorList
  \/ MonitorOld \/ MonitorTake \/ MonitorWait \/ MonitorHas \/ MonitorReport
  \/ MonitorForget

-----------------------------------------------------------------------------
(* ServiceHealthCheck; its loop of probes is module HealthCheck.           *)

CheckSeesStopped(c) ==
  /\ checking[c] > 0
  /\ c \notin Running
  /\ checking' = [checking EXCEPT ![c] = @ - 1]
  /\ UNCHANGED <<dockerVars, taskVars, setVars, monitorVars, failing, outVars,
                 historyVars>>

CheckFails(c) ==
  /\ checking[c] > 0
  /\ c \in Running
  /\ checking' = [checking EXCEPT ![c] = @ - 1]
  /\ failing' = [failing EXCEPT ![c] = @ + 1]
  /\ UNCHANGED <<dockerVars, taskVars, setVars, monitorVars, outVars,
                 historyVars>>

ReportDown(c) ==
  /\ failing[c] > 0
  /\ SendInstance(c, "down")
  /\ failing' = [failing EXCEPT ![c] = @ - 1]
  /\ UNCHANGED <<dockerVars, taskVars, setVars, monitorVars, checking,
                 taskFeedBack, historyVars>>

Check(c) == CheckSeesStopped(c) \/ CheckFails(c) \/ ReportDown(c)

Next ==
  \/ \E t \in Tasks : TaskStep(t)
  \/ Monitor
  \/ \E c \in Containers : Check(c) \/ Die(c)

Spec == Init /\ [][Next]_vars

\* Goroutines are scheduled, dockerd answers each call at last, and
\* SendTaskFeedBack takes what waits on the channel; the server owes nothing.
Run(t) == pc[t] # "idle" /\ TaskStep(t)

Fairness ==
  /\ \A t \in Tasks : WF_vars(Run(t))
  /\ WF_vars(Monitor)
  /\ \A c \in Containers : WF_vars(Check(c))

FairSpec == Spec /\ Fairness

-----------------------------------------------------------------------------
(* Properties                                                              *)

Labels == Entries \cup Stopping \cup
          { "idle", "ack", "unparsed", "rejected", "failed", "finish", "end",
            "started", "startAdd", "restarting", "restarted", "restartSend",
            "restartHas", "restartAdd" }
MonitorLabels == { "client", "initList", "initAdd", "list", "old", "scan",
                   "wait", "has", "reportNormal", "reportUnexcepted",
                   "forget" }
TaskPhases == { "ackNoId", "ack", "ackError", "finish", "finishError" }
InstancePhases == { "start", "restart", "stopNormal", "stopUnexcepted", "down" }
States == { "none", "removed" } \cup Known

DockerTypes ==
  /\ clientOk \in BOOLEAN
  /\ status \in [Containers -> States]
  /\ deaths \in Nat
TaskTypes ==
  /\ pc \in [Tasks -> Labels]
  /\ kind \in [Tasks -> AllKinds]
  /\ target \in [Tasks -> Containers \cup { NoContainer }]
  /\ err \in [Tasks -> BOOLEAN]
  /\ isRunning \in [Tasks -> BOOLEAN]
SetTypes ==
  /\ aliveContainerSet \subseteq Containers
  /\ stopSetForFeedBack \subseteq Containers
  /\ stopWaitGroup \in Int
MonitorTypes ==
  /\ monPc \in MonitorLabels
  /\ aliveApi \subseteq Containers
  /\ oldAlive \subseteq Containers
  /\ monId \in Containers \cup { NoContainer }
CheckTypes ==
  /\ checking \in [Containers -> Nat]
  /\ failing \in [Containers -> Nat]
OutTypes ==
  /\ taskFeedBack \in [Tasks -> Seq(TaskPhases)]
  /\ instanceFeedBack \in [Containers -> Seq(InstancePhases)]
HistoryTypes ==
  /\ stopDue \subseteq Containers
  /\ owedNormal \subseteq Containers
  /\ takenAway \subseteq Containers
  /\ host \subseteq Containers

\* Every variable of the agent keeps its type: dockerd, the locals of the
\* goroutines, the globals of task.go and what was sent.
TypeOK ==
  /\ DockerTypes
  /\ TaskTypes
  /\ SetTypes
  /\ MonitorTypes
  /\ CheckTypes
  /\ OutTypes
  /\ HistoryTypes

StoppingTasks == { t \in Tasks : pc[t] \in Stopping }

\* stopWaitGroup counts the StopContainer tasks between Add(1) and Done(), on
\* the error paths too: it never goes negative (which panics in Go) and no task
\* leaves without its Done (which would block MonitorContainer for ever).
WaitGroupCountsStops == stopWaitGroup = Cardinality(StoppingTasks)

\* A container that MonitorContainer's listing showed stopped because a
\* StopContainer call succeeded is reported "normal", whatever the order of the
\* goroutines: the task entered stopWaitGroup before the call and adds the
\* container to stopSetForFeedBack before it leaves.  A stop counts until the
\* container runs again or a later Has finds its entry.  The code fails one: a
\* stop that adds its entry while a report of the same container, for an
\* earlier stop, is between its Has and its Remove, which takes the entry away
\* (task.go:163-176), so that the stop is reported "unexcepted".
StopReportedNormal ==
  [][monPc = "has" /\ monPc' = "reportUnexcepted" /\ monId \in owedNormal
       => monId \in takenAway]_vars

\* The inductive strengthening of StopReportedNormal: a stop the monitor owes a
\* "normal" for is in stopSetForFeedBack, or its task is about to add it, or its
\* entry was taken away, and so is every owed container the current round has
\* not dealt with.
Entered(c) ==
  \/ c \in stopSetForFeedBack \cup takenAway
  \/ \E t \in Tasks : pc[t] = "stopOk" /\ target[t] = c

Handling == { "has", "reportNormal", "reportUnexcepted", "forget" }

Unsettled ==
  CASE monPc = "old"  -> Containers
    [] monPc = "wait" -> oldAlive \cup { monId }
    [] monPc \in Handling \cup { "scan" } -> oldAlive
    [] OTHER -> {}

StopsEntered ==
  /\ \A c \in stopDue : Entered(c)
  /\ \A c \in owedNormal \cap Unsettled : Entered(c)
  /\ monPc \in Handling \cup { "wait" } => monId \notin oldAlive
  /\ monPc = "has" /\ monId \in owedNormal
       => monId \in stopSetForFeedBack \cup takenAway

\* The locals of a handler that were checked earlier: a label reached only with
\* a container that existed.
TargetsExist ==
  \A t \in Tasks :
    /\ pc[t] \in { "stopOk", "started", "startAdd", "restartAdd" }
         => target[t] \in Containers
    /\ isRunning[t] => target[t] \in Containers
    /\ pc[t] = "idle" => ~ isRunning[t]

IsStop(phase) == phase \in { "stopNormal", "stopUnexcepted" }
IsStart(phase) == phase = "start"
Count(c, Test(_)) ==
  Cardinality({ i \in DOMAIN instanceFeedBack[c] : Test(instanceFeedBack[c][i]) })

\* The server hears of no more stops of a container than it has reasons to
\* think it runs: one per start feedback, one per RestartContainer, and one for
\* a container the agent found on the host.
StopsPaidByStarts ==
  \A c \in Containers :
    Count(c, IsStop) <=
      Count(c, IsStart)
      + Cardinality({ t \in Tasks : kind[t] = "RestartContainer" /\ target[t] = c })
      + (IF c \in host THEN 1 ELSE 0)

\* A container of aliveContainerSet that stops for good is taken out of it and
\* reported stopped: neither the tasks nor stopWaitGroup hold MonitorContainer
\* up for ever.
StopIsReported ==
  \A c \in Containers :
    c \in aliveContainerSet /\ status[c] \in { "exited", "removed" }
      ~> \/ c \in Running
         \/ /\ c \notin aliveContainerSet
            /\ Count(c, IsStop) > 0

\* The server sees, task by task, the protocol of module TaskProtocol.
Protocol == INSTANCE TaskProtocol
              WITH received <- { t \in Tasks : pc[t] # "idle" },
                   log <- taskFeedBack
ImplementsProtocol == Protocol!FairSpec

\* Why it does: what the log of a task holds at each label of its goroutine.
\* The labels behind the error feedback of a stop or restart are told apart by
\* err.
LogFollows(t) ==
  LET log == taskFeedBack[t] IN
  CASE pc[t] \in { "idle", "ack", "unparsed" } -> log = << >>
    [] pc[t] = "end" -> log # << >>
    [] pc[t] \in { "stopDone", "restartHas", "restartAdd" } ->
         IF err[t] THEN log # << >> ELSE log = << "ack" >>
    [] pc[t] = "stopOk" -> log = << "ack" >> /\ ~ err[t]
    [] pc[t] = "stopFailed" -> log = << "ack" >> /\ err[t]
    [] OTHER -> log = << "ack" >>

LogFollowsLabel == \A t \in Tasks : LogFollows(t)
=============================================================================
