-------------------------- MODULE TaskAgent_proofs --------------------------
(***************************************************************************)
(* Theorems about module TaskAgent, for every set of containers, every     *)
(* finite set of tasks and every bound on the containers' own exits.       *)
(***************************************************************************)
EXTENDS TaskAgent, FiniteSetTheorems, SequenceTheorems, TLAPS

LEMMA LabelsApart ==
  /\ Stopping \subseteq Labels
  /\ Entries \cap Stopping = {}
  /\ \A k \in AllKinds : Handler[k] \in Entries \cup { "failed" }
BY DEF Stopping, Entries, Labels, AllKinds, WithId, Handler

-----------------------------------------------------------------------------
(* Types                                                                   *)

Typed == TypeOK /\ TargetsExist

LEMMA InitTyped == Init => Typed
<1> SUFFICES ASSUME Init PROVE Typed
  OBVIOUS
<1> USE DEF Init
<1>1. DockerTypes
  BY DEF DockerTypes, States, Known
<1>2. TaskTypes /\ TargetsExist
  BY DEF TaskTypes, TargetsExist, AllKinds, Labels
<1>3. SetTypes /\ MonitorTypes
  BY DEF SetTypes, MonitorTypes, MonitorLabels
<1>4. CheckTypes
  BY DEF CheckTypes
<1>5. OutTypes /\ HistoryTypes
  BY DEF OutTypes, HistoryTypes
<1> QED
  BY <1>1, <1>2, <1>3, <1>4, <1>5 DEF Typed, TypeOK

\* A feedback about a container keeps the type of the log, also when the id of
\* the task named no container.
LEMMA SendInstanceType ==
  ASSUME OutTypes, NEW c, NEW phase \in InstancePhases, SendInstance(c, phase)
  PROVE  instanceFeedBack' \in [Containers -> Seq(InstancePhases)]
<1>1. CASE c \in Containers
  BY <1>1 DEF OutTypes, SendInstance
<1>2. CASE c \notin Containers
  BY <1>2 DEF OutTypes, SendInstance
<1> QED
  BY <1>1, <1>2

LEMMA GoHealthCheckType ==
  ASSUME CheckTypes, NEW c, GoHealthCheck(c)
  PROVE  checking' \in [Containers -> Nat]
<1>1. PICK asked \in HealthChecks :
        checking' = [checking EXCEPT ![c] = IF asked THEN @ + 1 ELSE @]
  BY DEF GoHealthCheck
<1>2. CASE c \in Containers
  BY <1>1, <1>2 DEF CheckTypes
<1>3. CASE c \notin Containers
  BY <1>1, <1>3 DEF CheckTypes
<1> QED
  BY <1>2, <1>3

LEMMA SameTypes ==
  /\ UNCHANGED dockerVars => (DockerTypes <=> DockerTypes')
  /\ UNCHANGED taskVars => (TaskTypes /\ TargetsExist <=> TaskTypes' /\ TargetsExist')
  /\ UNCHANGED setVars => (SetTypes <=> SetTypes')
  /\ UNCHANGED monitorVars => (MonitorTypes <=> MonitorTypes')
  /\ UNCHANGED checkVars => (CheckTypes <=> CheckTypes')
  /\ UNCHANGED outVars => (OutTypes <=> OutTypes')
  /\ UNCHANGED historyVars => (HistoryTypes <=> HistoryTypes')
BY DEF dockerVars, taskVars, setVars, monitorVars, checkVars, outVars, historyVars,
    DockerTypes, TaskTypes, TargetsExist, SetTypes, MonitorTypes, CheckTypes,
    OutTypes, HistoryTypes

LEMMA TaskTyped ==
  ASSUME Typed, NEW t \in Tasks, TaskStep(t)
  PROVE  Typed'
<1> USE DEF Typed, TypeOK
<1>1. CASE Receive(t)
  <2>1. TaskTypes' /\ TargetsExist'
    BY <1>1, KindsAssumption
    DEF Receive, restVars, TaskTypes, TargetsExist, Goto, Labels, Entries, Stopping,
        Existing
  <2> QED
    BY <1>1, <2>1, SameTypes DEF Receive, restVars, taskVars
<1>2. CASE AckUnparsed(t)
  <2>1. TaskTypes' /\ TargetsExist'
    BY <1>2
    DEF AckUnparsed, localVars, restVars, TaskTypes, TargetsExist, Goto, Labels,
        Entries, Stopping
  <2>2. OutTypes'
    BY <1>2
    DEF AckUnparsed, localVars, restVars, OutTypes, SendTask, TaskPhases,
        InstancePhases
  <2> QED
    BY <1>2, <2>1, <2>2, SameTypes DEF AckUnparsed, localVars, restVars, taskVars
<1>3. CASE Ack(t)
  <2>1. TaskTypes' /\ TargetsExist'
    BY <1>3, LabelsApart
    DEF Ack, localVars, restVars, TaskTypes, TargetsExist, Goto, Labels, Entries,
        Stopping
  <2>2. OutTypes'
    BY <1>3 DEF Ack, localVars, restVars, OutTypes, SendTask, TaskPhases, InstancePhases
  <2> QED
    BY <1>3, <2>1, <2>2, SameTypes DEF Ack, localVars, restVars, taskVars
<1>4. CASE Reject(t)
  <2>1. TaskTypes' /\ TargetsExist'
    BY <1>4
    DEF Reject, localVars, restVars, TaskTypes, TargetsExist, Goto, Labels, Entries,
        Stopping
  <2> QED
    BY <1>4, <2>1, SameTypes DEF Reject, localVars, restVars, taskVars
<1>5. CASE AckRejected(t)
  <2>1. TaskTypes' /\ TargetsExist'
    BY <1>5
    DEF AckRejected, localVars, restVars, TaskTypes, TargetsExist, Goto, Labels,
        Entries, Stopping
  <2>2. OutTypes'
    BY <1>5
    DEF AckRejected, localVars, restVars, OutTypes, SendTask, TaskPhases,
        InstancePhases
  <2> QED
    BY <1>5, <2>1, <2>2, SameTypes DEF AckRejected, localVars, restVars, taskVars
<1>6. CASE NoClient(t)
  <2>1. TaskTypes' /\ TargetsExist'
    BY <1>6
    DEF NoClient, localVars, restVars, TaskTypes, TargetsExist, Goto, Labels,
        Entries, Stopping
  <2> QED
    BY <1>6, <2>1, SameTypes DEF NoClient, localVars, restVars, taskVars
<1>7. CASE FinishError(t)
  <2>1. TaskTypes' /\ TargetsExist'
    BY <1>7
    DEF FinishError, localVars, restVars, TaskTypes, TargetsExist, Goto, Labels,
        Entries, Stopping
  <2>2. OutTypes'
    BY <1>7
    DEF FinishError, localVars, restVars, OutTypes, SendTask, TaskPhases,
        InstancePhases
  <2> QED
    BY <1>7, <2>1, <2>2, SameTypes DEF FinishError, localVars, restVars, taskVars
<1>8. CASE FinishOk(t)
  <2>1. TaskTypes' /\ TargetsExist'
    BY <1>8
    DEF FinishOk, localVars, restVars, TaskTypes, TargetsExist, Goto, Labels,
        Entries, Stopping
  <2>2. OutTypes'
    BY <1>8
    DEF FinishOk, localVars, restVars, OutTypes, SendTask, TaskPhases, InstancePhases
  <2> QED
    BY <1>8, <2>1, <2>2, SameTypes DEF FinishOk, localVars, restVars, taskVars
<1>9. CASE PullImage(t)
  <2>1. TaskTypes' /\ TargetsExist'
    BY <1>9
    DEF PullImage, localVars, restVars, TaskTypes, TargetsExist, Goto, Labels,
        Entries, Stopping
  <2> QED
    BY <1>9, <2>1, SameTypes DEF PullImage, localVars, restVars, taskVars
<1>10. CASE CreateContainer(t)
  <2>1. TaskTypes' /\ TargetsExist'
    BY <1>10
    DEF CreateContainer, TaskTypes, TargetsExist, Goto, Labels, Entries, Stopping
  <2>2. DockerTypes'
    BY <1>10 DEF CreateContainer, DockerTypes, States, Known
  <2> QED
    BY <1>10, <2>1, <2>2, SameTypes DEF CreateContainer, taskVars
<1>11. CASE StartContainer(t)
  <2>1. TaskTypes' /\ TargetsExist'
    BY <1>11
    DEF StartContainer, localVars, TaskTypes, TargetsExist, Goto, Labels, Entries,
        Stopping, Existing, Running
  <2>2. DockerTypes'
    BY <1>11 DEF StartContainer, localVars, DockerTypes, DockerRuns, States, Known
  <2>3. HistoryTypes'
    BY <1>11
    DEF StartContainer, localVars, HistoryTypes, TaskTypes, TargetsExist, DockerRuns,
        Running, Existing
  <2> QED
    BY <1>11, <2>1, <2>2, <2>3, SameTypes DEF StartContainer, localVars, taskVars
<1>12. CASE ReportStart(t)
  <2>1. TaskTypes' /\ TargetsExist'
    BY <1>12
    DEF ReportStart, localVars, restVars, TaskTypes, TargetsExist, Goto, Labels,
        Entries, Stopping
  <2>2. OutTypes'
    BY <1>12, SendInstanceType
    DEF ReportStart, localVars, restVars, OutTypes, TaskPhases, InstancePhases
  <2> QED
    BY <1>12, <2>1, <2>2, SameTypes DEF ReportStart, localVars, restVars, taskVars
<1>13. CASE StartMonitored(t)
  <2>1. TaskTypes' /\ TargetsExist'
    BY <1>13
    DEF StartMonitored, localVars, TaskTypes, TargetsExist, Goto, Labels, Entries,
        Stopping
  <2>2. SetTypes'
    BY <1>13 DEF StartMonitored, localVars, SetTypes, TaskTypes, TargetsExist, AddAlive
  <2>3. CheckTypes'
    BY <1>13, GoHealthCheckType DEF StartMonitored, localVars, CheckTypes
  <2> QED
    BY <1>13, <2>1, <2>2, <2>3, SameTypes DEF StartMonitored, localVars, taskVars
<1>14. CASE StopEnter(t)
  <2>1. TaskTypes' /\ TargetsExist'
    BY <1>14
    DEF StopEnter, localVars, TaskTypes, TargetsExist, Goto, Labels, Entries, Stopping
  <2>2. SetTypes'
    BY <1>14 DEF StopEnter, localVars, SetTypes, TaskTypes, TargetsExist
  <2> QED
    BY <1>14, <2>1, <2>2, SameTypes DEF StopEnter, localVars, taskVars
<1>15. CASE StopContainer(t)
  <2>1. TaskTypes' /\ TargetsExist'
    BY <1>15
    DEF StopContainer, TaskTypes, TargetsExist, Goto, Labels, Entries, Stopping,
        Running
  <2>2. DockerTypes'
    BY <1>15 DEF StopContainer, DockerTypes, DockerExits, States, Known
  <2>3. HistoryTypes'
    BY <1>15
    DEF StopContainer, HistoryTypes, TaskTypes, TargetsExist, DockerExits, Running
  <2> QED
    BY <1>15, <2>1, <2>2, <2>3, SameTypes DEF StopContainer, taskVars
<1>16. CASE StopSetAdd(t)
  <2>1. TaskTypes' /\ TargetsExist'
    BY <1>16
    DEF StopSetAdd, localVars, TaskTypes, TargetsExist, Goto, Labels, Entries,
        Stopping
  <2>2. SetTypes'
    BY <1>16 DEF StopSetAdd, localVars, SetTypes, TaskTypes, TargetsExist
  <2>3. HistoryTypes'
    BY <1>16 DEF StopSetAdd, HistoryTypes
  <2> QED
    BY <1>16, <2>1, <2>2, <2>3, SameTypes DEF StopSetAdd, localVars, taskVars
<1>17. CASE StopError(t)
  <2>1. TaskTypes' /\ TargetsExist'
    BY <1>17
    DEF StopError, localVars, restVars, TaskTypes, TargetsExist, Goto, Labels,
        Entries, Stopping
  <2>2. OutTypes'
    BY <1>17
    DEF StopError, localVars, restVars, OutTypes, SendTask, TaskPhases, InstancePhases
  <2> QED
    BY <1>17, <2>1, <2>2, SameTypes DEF StopError, localVars, restVars, taskVars
<1>18. CASE StopLeave(t)
  <2>1. TaskTypes' /\ TargetsExist'
    BY <1>18
    DEF StopLeave, localVars, TaskTypes, TargetsExist, Goto, Labels, Entries, Stopping
  <2>2. SetTypes'
    BY <1>18 DEF StopLeave, localVars, SetTypes, TaskTypes, TargetsExist
  <2> QED
    BY <1>18, <2>1, <2>2, SameTypes DEF StopLeave, localVars, taskVars
<1>19. CASE RestartStops(t)
  <2>1. TaskTypes' /\ TargetsExist'
    BY <1>19
    DEF RestartStops, localVars, TaskTypes, TargetsExist, Goto, Labels, Entries,
        Stopping, Existing, Running
  <2>2. DockerTypes'
    BY <1>19 DEF RestartStops, localVars, DockerTypes, DockerExits, States, Known
  <2>3. HistoryTypes'
    BY <1>19
    DEF RestartStops, localVars, HistoryTypes, TaskTypes, TargetsExist, DockerExits,
        Running, Existing
  <2> QED
    BY <1>19, <2>1, <2>2, <2>3, SameTypes DEF RestartStops, localVars, taskVars
<1>20. CASE RestartFails(t)
  <2>1. TaskTypes' /\ TargetsExist'
    BY <1>20
    DEF RestartFails, restVars, TaskTypes, TargetsExist, Goto, Labels, Entries,
        Stopping
  <2> QED
    BY <1>20, <2>1, SameTypes DEF RestartFails, restVars, taskVars
<1>21. CASE RestartStarts(t)
  <2>1. TaskTypes' /\ TargetsExist'
    BY <1>21
    DEF RestartStarts, TaskTypes, TargetsExist, Goto, Labels, Entries, Stopping,
        Existing
  <2>2. DockerTypes'
    BY <1>21 DEF RestartStarts, DockerTypes, DockerRuns, States, Known
  <2>3. HistoryTypes'
    BY <1>21
    DEF RestartStarts, HistoryTypes, TaskTypes, TargetsExist, DockerRuns, Existing
  <2> QED
    BY <1>21, <2>1, <2>2, <2>3, SameTypes DEF RestartStarts, taskVars
<1>22. CASE RestartInspect(t)
  <2>1. TaskTypes' /\ TargetsExist'
    BY <1>22
    DEF RestartInspect, restVars, TaskTypes, TargetsExist, Goto, Labels, Entries,
        Stopping, Running
  <2> QED
    BY <1>22, <2>1, SameTypes DEF RestartInspect, restVars, taskVars
<1>23. CASE RestartReport(t)
  <2>1. TaskTypes' /\ TargetsExist'
    BY <1>23
    DEF RestartReport, localVars, restVars, TaskTypes, TargetsExist, Goto, Labels,
        Entries, Stopping
  <2>2. OutTypes'
    <3>1. CASE err[t]
      <4>1. SendTask(t, "finishError") /\ UNCHANGED instanceFeedBack
        BY <1>23, <3>1 DEF RestartReport
      <4> QED
        BY <4>1 DEF OutTypes, SendTask, TaskPhases
    <3>2. CASE ~ err[t]
      BY <1>23, <3>2, SendInstanceType DEF RestartReport, OutTypes, InstancePhases
    <3> QED
      BY <3>1, <3>2
  <2> QED
    BY <1>23, <2>1, <2>2, SameTypes DEF RestartReport, localVars, restVars, taskVars
<1>24. CASE RestartHas(t)
  <2>1. TaskTypes' /\ TargetsExist'
    BY <1>24
    DEF RestartHas, localVars, restVars, TaskTypes, TargetsExist, Goto, Labels,
        Entries, Stopping, Returned
  <2> QED
    BY <1>24, <2>1, SameTypes DEF RestartHas, localVars, restVars, taskVars
<1>25. CASE RestartMonitored(t)
  <2>1. TaskTypes' /\ TargetsExist'
    BY <1>25
    DEF RestartMonitored, localVars, TaskTypes, TargetsExist, Goto, Labels, Entries,
        Stopping, Returned
  <2>2. SetTypes'
    BY <1>25
    DEF RestartMonitored, localVars, SetTypes, TaskTypes, TargetsExist, AddAlive
  <2>3. CheckTypes'
    BY <1>25, GoHealthCheckType DEF RestartMonitored, localVars, CheckTypes
  <2> QED
    BY <1>25, <2>1, <2>2, <2>3, SameTypes
    DEF RestartMonitored, localVars, taskVars
<1>26. CASE RemoveContainer(t)
  <2>1. TaskTypes' /\ TargetsExist'
    BY <1>26
    DEF RemoveContainer, localVars, TaskTypes, TargetsExist, Goto, Labels, Entries,
        Stopping, Existing
  <2>2. DockerTypes'
    BY <1>26 DEF RemoveContainer, localVars, DockerTypes, DockerExits, States, Known
  <2>3. HistoryTypes'
    BY <1>26
    DEF RemoveContainer, localVars, HistoryTypes, TaskTypes, TargetsExist,
        DockerExits, Existing
  <2> QED
    BY <1>26, <2>1, <2>2, <2>3, SameTypes DEF RemoveContainer, localVars, taskVars
<1> QED
  BY <1>1, <1>2, <1>3, <1>4, <1>5, <1>6, <1>7, <1>8, <1>9, <1>10, <1>11, <1>12, <1>13, <1>14, <1>15, <1>16, <1>17, <1>18, <1>19, <1>20, <1>21, <1>22, <1>23, <1>24, <1>25, <1>26
  DEF TaskStep

LEMMA MonitorTyped ==
  ASSUME Typed, Monitor
  PROVE  Typed'
<1> USE DEF Typed, TypeOK
<1>1. CASE MonitorClient
  <2>1. MonitorTypes'
    BY <1>1 DEF MonitorClient, MonitorTypes, MonitorLabels
  <2> QED
    BY <1>1, <2>1, SameTypes DEF MonitorClient
<1>2. CASE MonitorInitList
  <2>1. MonitorTypes'
    BY <1>2 DEF MonitorInitList, MonitorTypes, MonitorLabels, Existing
  <2>2. HistoryTypes'
    BY <1>2 DEF MonitorInitList, HistoryTypes, Existing
  <2> QED
    BY <1>2, <2>1, <2>2, SameTypes DEF MonitorInitList
<1>3. CASE MonitorInitAdd
  <2>1. SetTypes' /\ MonitorTypes'
    BY <1>3 DEF MonitorInitAdd, AddAlive, SetTypes, MonitorTypes, MonitorLabels
  <2>2. HistoryTypes'
    BY <1>3 DEF MonitorInitAdd, AddAlive, HistoryTypes, MonitorTypes
  <2> QED
    BY <1>3, <2>1, <2>2, SameTypes DEF MonitorInitAdd
<1>4. CASE MonitorList
  <2>1. MonitorTypes'
    BY <1>4 DEF MonitorList, MonitorTypes, MonitorLabels, Running
  <2>2. HistoryTypes'
    BY <1>4 DEF MonitorList, HistoryTypes
  <2> QED
    BY <1>4, <2>1, <2>2, SameTypes DEF MonitorList
<1>5. CASE MonitorOld
  <2>1. MonitorTypes'
    BY <1>5 DEF MonitorOld, MonitorTypes, MonitorLabels, SetTypes
  <2> QED
    BY <1>5, <2>1, SameTypes DEF MonitorOld
<1>6. CASE MonitorTake
  <2>1. SetTypes' /\ MonitorTypes'
    BY <1>6 DEF MonitorTake, SetTypes, MonitorTypes, MonitorLabels
  <2> QED
    BY <1>6, <2>1, SameTypes DEF MonitorTake
<1>7. CASE MonitorWait
  <2>1. MonitorTypes'
    BY <1>7 DEF MonitorWait, MonitorTypes, MonitorLabels
  <2> QED
    BY <1>7, <2>1, SameTypes DEF MonitorWait
<1>8. CASE MonitorHas
  <2>1. MonitorTypes'
    BY <1>8 DEF MonitorHas, MonitorTypes, MonitorLabels
  <2>2. HistoryTypes'
    BY <1>8 DEF MonitorHas, HistoryTypes
  <2> QED
    BY <1>8, <2>1, <2>2, SameTypes DEF MonitorHas
<1>9. CASE MonitorReport
  <2>1. MonitorTypes'
    BY <1>9 DEF MonitorReport, NextId, MonitorTypes, MonitorLabels
  <2>2. OutTypes'
    BY <1>9, SendInstanceType DEF MonitorReport, OutTypes, InstancePhases
  <2> QED
    BY <1>9, <2>1, <2>2, SameTypes DEF MonitorReport
<1>10. CASE MonitorForget
  <2>1. SetTypes' /\ MonitorTypes' /\ HistoryTypes'
    BY <1>10
    DEF MonitorForget, NextId, SetTypes, MonitorTypes, MonitorLabels, HistoryTypes
  <2> QED
    BY <1>10, <2>1, SameTypes DEF MonitorForget
<1> QED
  BY <1>1, <1>2, <1>3, <1>4, <1>5, <1>6, <1>7, <1>8, <1>9, <1>10 DEF Monitor

LEMMA EnvironmentTyped ==
  ASSUME Typed, NEW c \in Containers, Check(c) \/ Die(c)
  PROVE  Typed'
<1> USE DEF Typed, TypeOK
<1>1. CASE CheckSeesStopped(c)
  <2>1. CheckTypes'
    BY <1>1 DEF CheckSeesStopped, CheckTypes
  <2> QED
    BY <1>1, <2>1, SameTypes DEF CheckSeesStopped
<1>2. CASE CheckFails(c)
  <2>1. CheckTypes'
    BY <1>2 DEF CheckFails, CheckTypes
  <2> QED
    BY <1>2, <2>1, SameTypes DEF CheckFails
<1>3. CASE ReportDown(c)
  <2>1. CheckTypes'
    BY <1>3 DEF ReportDown, CheckTypes
  <2>2. OutTypes'
    BY <1>3, SendInstanceType DEF ReportDown, OutTypes, InstancePhases
  <2> QED
    BY <1>3, <2>1, <2>2, SameTypes DEF ReportDown
<1>4. CASE Die(c)
  <2>1. DockerTypes' /\ HistoryTypes'
    BY <1>4 DEF Die, DockerExits, DockerTypes, HistoryTypes, States, Known
  <2> QED
    BY <1>4, <2>1, SameTypes DEF Die
<1> QED
  BY <1>1, <1>2, <1>3, <1>4 DEF Check

LEMMA NextTyped == Typed /\ [Next]_vars => Typed'
<1>1. ASSUME Typed, Next PROVE Typed'
  BY <1>1, TaskTyped, MonitorTyped, EnvironmentTyped DEF Next
<1>2. ASSUME Typed, UNCHANGED vars PROVE Typed'
  BY <1>2, SameTypes DEF vars, Typed, TypeOK
<1> QED
  BY <1>1, <1>2

\* The type invariant: dockerd, the goroutines' locals, the globals of task.go
\* and both logs keep their types in every reachable state.
THEOREM TypeCorrect == Spec => []TypeOK
<1>1. Spec => []Typed
  BY InitTyped, NextTyped, PTL DEF Spec
<1> QED
  BY <1>1, PTL DEF Typed


-----------------------------------------------------------------------------
(* stopWaitGroup and the stops the monitor owes a "normal" for             *)

Inv == Typed /\ WaitGroupCountsStops /\ StopsEntered

LEMMA StoppingFinite ==
  /\ IsFiniteSet(StoppingTasks)
  /\ Cardinality(StoppingTasks) \in Nat
  /\ Cardinality(StoppingTasks) = 0 => StoppingTasks = {}
<1>1. StoppingTasks \subseteq Tasks
  BY DEF StoppingTasks
<1>2. IsFiniteSet(StoppingTasks)
  BY <1>1, TasksFinite, FS_Subset
<1> QED
  BY <1>2, FS_CardinalityType, FS_EmptySet

LEMMA InitInv == Init => Inv
<1> SUFFICES ASSUME Init PROVE Inv
  OBVIOUS
<1>1. StoppingTasks = {}
  BY DEF Init, StoppingTasks, Stopping
<1>2. WaitGroupCountsStops
  BY <1>1, FS_EmptySet DEF WaitGroupCountsStops, Init
<1>3. StopsEntered
  BY DEF Init, StopsEntered, Unsettled, Handling
<1> QED
  BY <1>2, <1>3, InitTyped DEF Inv

\* What a step of task t that is no part of StopContainer may do.
QuietStep(t) ==
  /\ pc[t] \notin Stopping /\ pc'[t] \notin Stopping
  /\ \A s \in Tasks \ {t} : pc'[s] = pc[s] /\ target'[s] = target[s]
  /\ stopDue' \subseteq stopDue
  /\ UNCHANGED <<stopSetForFeedBack, stopWaitGroup, owedNormal, takenAway,
                 monitorVars>>

\* A step that keeps every entered stop entered and leaves the monitor alone.
LEMMA EnteredPreserved ==
  ASSUME StopsEntered, UNCHANGED <<owedNormal, monitorVars>>,
         stopSetForFeedBack \cup takenAway
           \subseteq (stopSetForFeedBack \cup takenAway)',
         \A c \in Containers : Entered(c) => Entered(c)',
         \A c \in stopDue' : c \in stopDue \/ Entered(c)',
         Typed, Typed'
  PROVE  StopsEntered'
<1>1. stopDue \subseteq Containers /\ owedNormal \subseteq Containers
  BY DEF Typed, TypeOK, HistoryTypes
<1>2. Unsettled' = Unsettled
  BY DEF monitorVars, Unsettled, Handling
<1>3. \A c \in stopDue' : Entered(c)'
  BY <1>1 DEF StopsEntered
<1>4. \A c \in owedNormal' \cap Unsettled' : Entered(c)'
  BY <1>1, <1>2 DEF StopsEntered
<1>5. /\ (monPc \in Handling \cup { "wait" } => monId \notin oldAlive)'
      /\ (monPc = "has" /\ monId \in owedNormal
             => monId \in stopSetForFeedBack \cup takenAway)'
  BY DEF StopsEntered, monitorVars, Handling
<1> QED
  BY <1>3, <1>4, <1>5 DEF StopsEntered

LEMMA QuietInv ==
  ASSUME Inv, Typed', NEW t \in Tasks, QuietStep(t)
  PROVE  Inv'
<1>1. StoppingTasks' = StoppingTasks
  BY DEF QuietStep, StoppingTasks
<1>2. WaitGroupCountsStops'
  BY <1>1 DEF Inv, QuietStep, WaitGroupCountsStops
<1>3. \A c \in Containers : Entered(c) => Entered(c)'
  BY DEF QuietStep, Entered, Stopping
<1>4. StopsEntered'
  BY <1>3, EnteredPreserved DEF Inv, QuietStep, StopsEntered
<1> QED
  BY <1>2, <1>4 DEF Inv

StopStep(t) ==
  StopEnter(t) \/ StopContainer(t) \/ StopSetAdd(t) \/ StopError(t) \/ StopLeave(t)

LEMMA OtherTasksQuiet ==
  ASSUME Typed, NEW t \in Tasks, TaskStep(t), ~ StopStep(t)
  PROVE  QuietStep(t)
<1> USE DEF Typed, TypeOK, TaskTypes, QuietStep, Goto, Stopping, localVars, restVars,
            setVars, historyVars
<1>1. CASE Receive(t)
  BY <1>1 DEF Receive
<1>2. CASE AckUnparsed(t)
  BY <1>2 DEF AckUnparsed
<1>3. CASE Ack(t)
  BY <1>3, LabelsApart DEF Ack, Entries
<1>4. CASE Reject(t)
  BY <1>4 DEF Reject, Entries
<1>5. CASE AckRejected(t)
  BY <1>5 DEF AckRejected
<1>6. CASE NoClient(t)
  BY <1>6 DEF NoClient, Entries
<1>7. CASE FinishError(t)
  BY <1>7 DEF FinishError
<1>8. CASE FinishOk(t)
  BY <1>8 DEF FinishOk
<1>9. CASE PullImage(t)
  BY <1>9 DEF PullImage
<1>10. CASE CreateContainer(t)
  BY <1>10 DEF CreateContainer
<1>11. CASE StartContainer(t)
  BY <1>11 DEF StartContainer, DockerRuns
<1>12. CASE ReportStart(t)
  BY <1>12 DEF ReportStart
<1>13. CASE StartMonitored(t)
  BY <1>13 DEF StartMonitored
<1>14. CASE RestartStops(t)
  BY <1>14 DEF RestartStops, DockerExits
<1>15. CASE RestartFails(t)
  BY <1>15 DEF RestartFails
<1>16. CASE RestartStarts(t)
  BY <1>16 DEF RestartStarts, DockerRuns
<1>17. CASE RestartInspect(t)
  BY <1>17 DEF RestartInspect
<1>18. CASE RestartReport(t)
  BY <1>18 DEF RestartReport
<1>19. CASE RestartHas(t)
  BY <1>19 DEF RestartHas, Returned
<1>20. CASE RestartMonitored(t)
  BY <1>20 DEF RestartMonitored, Returned
<1>21. CASE RemoveContainer(t)
  BY <1>21 DEF RemoveContainer, DockerExits
<1> QED
  BY <1>1, <1>2, <1>3, <1>4, <1>5, <1>6, <1>7, <1>8, <1>9, <1>10, <1>11, <1>12, <1>13, <1>14, <1>15, <1>16, <1>17, <1>18, <1>19, <1>20, <1>21
  DEF TaskStep, StopStep

LEMMA StopStepQuiet ==
  ASSUME NEW t \in Tasks, StopStep(t)
  PROVE  UNCHANGED monitorVars
BY DEF StopStep, StopEnter, StopContainer, StopSetAdd, StopError, StopLeave,
       restVars

LEMMA StopInv ==
  ASSUME Inv, Typed', NEW t \in Tasks, StopStep(t)
  PROVE  Inv'
<1> USE DEF Inv, Goto, localVars, restVars, setVars, historyVars
<1>t. TaskTypes /\ SetTypes
  BY DEF Typed, TypeOK
<1>1. CASE StopEnter(t)
  <2>1. StoppingTasks' = StoppingTasks \cup {t} /\ t \notin StoppingTasks
    BY <1>1, <1>t DEF StopEnter, TaskTypes, StoppingTasks, Stopping
  <2>2. WaitGroupCountsStops'
    BY <1>1, <2>1, StoppingFinite, FS_AddElement DEF StopEnter, WaitGroupCountsStops
  <2>3. \A c \in Containers : Entered(c) => Entered(c)'
    BY <1>1, <1>t DEF StopEnter, TaskTypes, Entered
  <2>4. StopsEntered'
    BY <1>1, <2>3, EnteredPreserved DEF StopEnter, StopsEntered
  <2> QED
    BY <2>2, <2>4
<1>2. CASE StopContainer(t)
  <2>1. StoppingTasks' = StoppingTasks
    BY <1>2, <1>t DEF StopContainer, TaskTypes, StoppingTasks, Stopping
  <2>2. WaitGroupCountsStops'
    BY <1>2, <2>1 DEF StopContainer, WaitGroupCountsStops
  <2>3. \A c \in Containers : Entered(c) => Entered(c)'
    BY <1>2, <1>t DEF StopContainer, TaskTypes, Entered
  <2>4. stopDue' = stopDue \/ (stopDue' = stopDue \cup { target[t] } /\ Entered(target[t])')
    BY <1>2, <1>t DEF StopContainer, TaskTypes, Entered
  <2>5. StopsEntered'
    BY <1>2, <2>3, <2>4, EnteredPreserved DEF StopContainer
  <2> QED
    BY <2>2, <2>5
<1>3. CASE StopSetAdd(t)
  <2>1. StoppingTasks' = StoppingTasks
    BY <1>3, <1>t DEF StopSetAdd, TaskTypes, StoppingTasks, Stopping
  <2>2. WaitGroupCountsStops'
    BY <1>3, <2>1 DEF StopSetAdd, WaitGroupCountsStops
  <2>3. \A c \in Containers : Entered(c) => Entered(c)'
    BY <1>3, <1>t DEF StopSetAdd, TaskTypes, Entered
  <2>4. StopsEntered'
    BY <1>3, <2>3, EnteredPreserved DEF StopSetAdd, StopsEntered
  <2> QED
    BY <2>2, <2>4
<1>4. CASE StopError(t)
  <2>1. StoppingTasks' = StoppingTasks
    BY <1>4, <1>t DEF StopError, TaskTypes, StoppingTasks, Stopping
  <2>2. WaitGroupCountsStops'
    BY <1>4, <2>1 DEF StopError, WaitGroupCountsStops
  <2>3. \A c \in Containers : Entered(c) => Entered(c)'
    BY <1>4, <1>t DEF StopError, TaskTypes, Entered
  <2>4. StopsEntered'
    BY <1>4, <2>3, EnteredPreserved DEF StopError, StopsEntered
  <2> QED
    BY <2>2, <2>4
<1>5. CASE StopLeave(t)
  <2>1. StoppingTasks' = StoppingTasks \ {t} /\ t \in StoppingTasks
    BY <1>5, <1>t DEF StopLeave, TaskTypes, StoppingTasks, Stopping
  <2>2. WaitGroupCountsStops'
    BY <1>5, <2>1, StoppingFinite, FS_RemoveElement DEF StopLeave, WaitGroupCountsStops
  <2>3. \A c \in Containers : Entered(c) => Entered(c)'
    BY <1>5, <1>t DEF StopLeave, TaskTypes, Entered
  <2>4. StopsEntered'
    BY <1>5, <2>3, EnteredPreserved DEF StopLeave, StopsEntered
  <2> QED
    BY <2>2, <2>4
<1> QED
  BY <1>1, <1>2, <1>3, <1>4, <1>5 DEF StopStep

LEMMA MonitorInv ==
  ASSUME Inv, Typed', Monitor
  PROVE  Inv'
<1> USE DEF Inv
<1>t. /\ stopDue \subseteq Containers /\ owedNormal \subseteq Containers
      /\ oldAlive \subseteq Containers
  BY DEF Typed, TypeOK, HistoryTypes, MonitorTypes
<1>w. UNCHANGED <<pc, target, stopWaitGroup>>
  BY
  DEF Monitor, MonitorClient, MonitorInitList, MonitorInitAdd, MonitorList,
      MonitorOld, MonitorTake, MonitorWait, MonitorHas, MonitorReport, MonitorForget,
      taskVars, setVars
<1>1. WaitGroupCountsStops'
  BY <1>w DEF WaitGroupCountsStops, StoppingTasks
<1>2. CASE MonitorClient \/ MonitorInitList \/ MonitorInitAdd
  <2>1. \A c \in Containers : Entered(c) => Entered(c)'
    BY <1>2, <1>w DEF MonitorClient, MonitorInitList, MonitorInitAdd, Entered, setVars, historyVars
  <2>2. Unsettled' = {} /\ UNCHANGED stopDue
    BY <1>2
    DEF MonitorClient, MonitorInitList, MonitorInitAdd, Unsettled, Handling,
        historyVars
  <2> QED
    BY <1>1, <1>2, <1>t, <2>1, <2>2
    DEF MonitorClient, MonitorInitList, MonitorInitAdd, StopsEntered, Handling
<1>3. CASE MonitorList
  <2>1. \A c \in Containers : Entered(c) => Entered(c)'
    BY <1>3, <1>w DEF MonitorList, Entered, setVars, historyVars
  <2> QED
    BY <1>1, <1>3, <1>t, <2>1
    DEF MonitorList, StopsEntered, Handling
<1>4. CASE MonitorOld
  <2>1. \A c \in Containers : Entered(c) => Entered(c)'
    BY <1>4, <1>w DEF MonitorOld, Entered, setVars, historyVars
  <2>2. Unsettled' \subseteq Unsettled
    BY <1>4, Typed' DEF MonitorOld, Unsettled, Handling, Typed, TypeOK, MonitorTypes
  <2> QED
    BY <1>1, <1>4, <1>t, <2>1, <2>2
    DEF MonitorOld, StopsEntered, Handling, historyVars
<1>5. CASE MonitorTake
  <2>1. \A c \in Containers : Entered(c) => Entered(c)'
    BY <1>5, <1>w DEF MonitorTake, Entered, historyVars
  <2>2. Unsettled' \subseteq Unsettled /\ monId' \notin oldAlive'
    BY <1>5 DEF MonitorTake, Unsettled, Handling
  <2> QED
    BY <1>1, <1>5, <1>t, <2>1, <2>2
    DEF MonitorTake, StopsEntered, Handling, historyVars
<1>6. CASE MonitorWait
  <2>1. StoppingTasks = {}
    BY <1>6, StoppingFinite DEF MonitorWait, WaitGroupCountsStops
  <2>2. \A c : Entered(c) => c \in stopSetForFeedBack \cup takenAway
    BY <2>1 DEF Entered, StoppingTasks, Stopping
  <2>3. \A c \in Containers : Entered(c) => Entered(c)'
    BY <1>6, <1>w DEF MonitorWait, Entered, setVars, historyVars
  <2>4. Unsettled = oldAlive \cup { monId } /\ Unsettled' = oldAlive
    BY <1>6 DEF MonitorWait, Unsettled, Handling
  <2> QED
    BY <1>1, <1>6, <1>t, <2>2, <2>3, <2>4
    DEF MonitorWait, StopsEntered, Handling, historyVars, setVars
<1>7. CASE MonitorHas
  <2>1. \A c \in Containers : Entered(c) => Entered(c)'
    BY <1>7, <1>w DEF MonitorHas, Entered, setVars, historyVars
  <2>2. Unsettled = oldAlive /\ Unsettled' = oldAlive
    BY <1>7 DEF MonitorHas, Unsettled, Handling
  <2> QED
    BY <1>1, <1>7, <1>t, <2>1, <2>2
    DEF MonitorHas, StopsEntered, Handling, historyVars
<1>8. CASE MonitorReport
  <2>1. \A c \in Containers : Entered(c) => Entered(c)'
    BY <1>8, <1>w DEF MonitorReport, Entered, setVars, historyVars
  <2>2. Unsettled = oldAlive /\ Unsettled' \subseteq oldAlive
    BY <1>8 DEF MonitorReport, NextId, Unsettled, Handling
  <2> QED
    BY <1>1, <1>8, <1>t, <2>1, <2>2
    DEF MonitorReport, NextId, StopsEntered, Handling, historyVars
<1>9. CASE MonitorForget
  <2>1. \A c \in Containers \ { monId } : Entered(c) => Entered(c)'
    BY <1>9, <1>w DEF MonitorForget, Entered, historyVars
  <2>2. Unsettled = oldAlive /\ Unsettled' \subseteq oldAlive
    BY <1>9 DEF MonitorForget, NextId, Unsettled, Handling
  <2>3. stopDue' = stopDue /\ \A c \in stopDue : c = monId => Entered(c)'
    BY <1>9 DEF MonitorForget, Entered
  <2>4. \A c \in stopDue' : Entered(c)'
    BY <1>t, <2>1, <2>3 DEF StopsEntered
  <2>5. \A c \in owedNormal' \cap Unsettled' : Entered(c)'
    BY <1>9, <1>t, <2>1, <2>2 DEF MonitorForget, StopsEntered, Handling
  <2> QED
    BY <1>1, <1>9, <2>4, <2>5 DEF MonitorForget, NextId, StopsEntered, Handling
<1> QED
  BY <1>2, <1>3, <1>4, <1>5, <1>6, <1>7, <1>8, <1>9 DEF Monitor

LEMMA EnvironmentInv ==
  ASSUME Inv, Typed', NEW c \in Containers, Check(c) \/ Die(c)
  PROVE  Inv'
<1>1. UNCHANGED <<taskVars, setVars, monitorVars, stopDue, owedNormal, takenAway>>
  BY DEF Check, CheckSeesStopped, CheckFails, ReportDown, Die, historyVars
<1>2. WaitGroupCountsStops'
  BY <1>1 DEF Inv, WaitGroupCountsStops, StoppingTasks, taskVars, setVars
<1>3. \A d \in Containers : Entered(d) => Entered(d)'
  BY <1>1 DEF Entered, taskVars, setVars
<1>4. StopsEntered'
  BY <1>1, <1>3, EnteredPreserved DEF Inv, setVars, StopsEntered
<1> QED
  BY <1>2, <1>4 DEF Inv

LEMMA NextInv == Inv /\ [Next]_vars => Inv'
<1>1. ASSUME Inv, Next PROVE Inv'
  <2>t. Typed'
    BY <1>1, NextTyped DEF Inv
  <2>1. ASSUME NEW t \in Tasks, TaskStep(t) PROVE Inv'
    BY <1>1, <2>t, <2>1, OtherTasksQuiet, QuietInv, StopInv DEF Inv
  <2>2. CASE Monitor
    BY <1>1, <2>t, <2>2, MonitorInv
  <2>3. ASSUME NEW c \in Containers, Check(c) \/ Die(c) PROVE Inv'
    BY <1>1, <2>t, <2>3, EnvironmentInv
  <2> QED
    BY <1>1, <2>1, <2>2, <2>3 DEF Next
<1>2. ASSUME Inv, UNCHANGED vars PROVE Inv'
  <2>1. Typed'
    BY <1>2, NextTyped DEF Inv
  <2>2. WaitGroupCountsStops'
    BY <1>2 DEF Inv, WaitGroupCountsStops, StoppingTasks, vars, taskVars, setVars
  <2>3. \A d \in Containers : Entered(d) => Entered(d)'
    BY <1>2 DEF Entered, vars, taskVars, setVars, historyVars
  <2>4. StopsEntered'
    BY <1>2, <2>1, <2>3, EnteredPreserved
    DEF Inv, vars, setVars, historyVars, StopsEntered
  <2> QED
    BY <2>1, <2>2, <2>4 DEF Inv
<1> QED
  BY <1>1, <1>2

\* stopWaitGroup counts the StopContainer tasks between Add(1) and Done().
THEOREM WaitGroupCorrect == Spec => []WaitGroupCountsStops
<1>1. Spec => []Inv
  BY InitInv, NextInv, PTL DEF Spec
<1> QED
  BY <1>1, PTL DEF Inv

\* A container whose stop by a StopContainer task a listing of MonitorContainer
\* showed is reported "normal", with any number of tasks in any order, unless
\* the Remove after an earlier report of it took the entry of the stop away.
THEOREM StopsAreReportedNormal == Spec => StopReportedNormal
<1>1. Spec => []Inv
  BY InitInv, NextInv, PTL DEF Spec
<1>2. ASSUME Inv, [Next]_vars
      PROVE  [monPc = "has" /\ monPc' = "reportUnexcepted" /\ monId \in owedNormal
                => monId \in takenAway]_vars
  <2> SUFFICES ASSUME monPc = "has", monPc' = "reportUnexcepted",
                      monId \in owedNormal
               PROVE  monId \in takenAway
    OBVIOUS
  <2>1. MonitorHas
    <3>1. ASSUME NEW t \in Tasks, TaskStep(t) PROVE monPc' = monPc
      BY <1>2, <3>1, StopStepQuiet, OtherTasksQuiet DEF Inv, QuietStep, monitorVars
    <3>2. ASSUME NEW c \in Containers, Check(c) \/ Die(c) PROVE monPc' = monPc
      BY <3>2 DEF Check, CheckSeesStopped, CheckFails, ReportDown, Die, monitorVars
    <3>3. Monitor
      BY <1>2, <3>1, <3>2 DEF Next, vars, monitorVars
    <3> QED
      BY <3>3
      DEF Monitor, MonitorClient, MonitorInitList, MonitorInitAdd, MonitorList,
          MonitorOld, MonitorTake, MonitorWait, MonitorReport, MonitorForget
  <2>2. monId \notin stopSetForFeedBack
    BY <2>1 DEF MonitorHas
  <2> QED
    BY <1>2, <2>2 DEF Inv, StopsEntered
<1> QED
  BY <1>1, <1>2, PTL DEF Spec, StopReportedNormal

-----------------------------------------------------------------------------
(* The task feedbacks follow TaskProtocol                                  *)

LogInv == Typed /\ LogFollowsLabel

LEMMA Sent ==
  ASSUME OutTypes, NEW t \in Tasks, NEW phase \in TaskPhases, SendTask(t, phase)
  PROVE  taskFeedBack'[t] # << >>
<1>1. taskFeedBack'[t] = Append(taskFeedBack[t], phase)
  BY DEF OutTypes, SendTask
<1> QED
  BY <1>1, AppendProperties DEF OutTypes

LEMMA AppendToEmpty == \A x : Append(<< >>, x) = << x >>
OBVIOUS

\* A step of a task keeps its log in step with its label, and is a step of the
\* protocol: the first feedback acks, the second answers, there is no third.
LEMMA TaskStepFollows ==
  ASSUME LogInv, NEW t \in Tasks, TaskStep(t)
  PROVE  LogFollowsLabel' /\ [Protocol!Next]_(Protocol!vars)
<1> USE DEF LogInv, Typed, TypeOK, TaskTypes, OutTypes, LogFollowsLabel, LogFollows, Goto, localVars,
            restVars, outVars
<1>1. CASE Receive(t)
  <2>1. LogFollowsLabel'
    BY <1>1 DEF Receive
  <2>2. Protocol!Receive(t)
    BY <1>1 DEF Receive, Protocol!Receive
  <2> QED
    BY <2>1, <2>2 DEF Protocol!Next, Protocol!Reply
<1>2. CASE AckUnparsed(t)
  <2>3. \A s \in Tasks \ {t} : LogFollows(s)'
    BY <1>2 DEF AckUnparsed, SendTask
  <2>4. LogFollows(t)'
    BY <1>2, AppendToEmpty DEF AckUnparsed, SendTask
  <2>1. LogFollowsLabel'
    BY <2>3, <2>4
  <2>2. Protocol!Ack(t)
    BY <1>2, AppendToEmpty DEF AckUnparsed, SendTask, Protocol!Ack
  <2> QED
    BY <2>1, <2>2 DEF Protocol!Next, Protocol!Reply
<1>3. CASE Ack(t)
  <2>3. \A s \in Tasks \ {t} : LogFollows(s)'
    BY <1>3 DEF Ack, SendTask
  <2>4. LogFollows(t)'
    BY <1>3, AppendToEmpty, LabelsApart DEF Ack, Entries, SendTask
  <2>1. LogFollowsLabel'
    BY <2>3, <2>4
  <2>2. Protocol!Ack(t)
    BY <1>3, AppendToEmpty, LabelsApart DEF Ack, Entries, SendTask, Protocol!Ack
  <2> QED
    BY <2>1, <2>2 DEF Protocol!Next, Protocol!Reply
<1>4. CASE Reject(t)
  <2>1. LogFollowsLabel'
    BY <1>4 DEF Reject, Entries
  <2>2. UNCHANGED Protocol!vars
    BY <1>4 DEF Reject, Entries, Protocol!vars
  <2> QED
    BY <2>1, <2>2 DEF Protocol!Next, Protocol!Reply
<1>5. CASE AckRejected(t)
  <2>3. \A s \in Tasks \ {t} : LogFollows(s)'
    BY <1>5 DEF AckRejected, SendTask
  <2>4. LogFollows(t)'
    BY <1>5, Sent DEF AckRejected, TaskPhases
  <2>1. LogFollowsLabel'
    BY <2>3, <2>4
  <2>2. Protocol!Answer(t)
    BY <1>5 DEF AckRejected, SendTask, Protocol!Answer, Protocol!Answers
  <2> QED
    BY <2>1, <2>2 DEF Protocol!Next, Protocol!Reply
<1>6. CASE NoClient(t)
  <2>1. LogFollowsLabel'
    BY <1>6 DEF NoClient, Entries
  <2>2. UNCHANGED Protocol!vars
    BY <1>6 DEF NoClient, Entries, Protocol!vars
  <2> QED
    BY <2>1, <2>2 DEF Protocol!Next, Protocol!Reply
<1>7. CASE FinishError(t)
  <2>3. \A s \in Tasks \ {t} : LogFollows(s)'
    BY <1>7 DEF FinishError, SendTask
  <2>4. LogFollows(t)'
    BY <1>7, Sent DEF FinishError, TaskPhases
  <2>1. LogFollowsLabel'
    BY <2>3, <2>4
  <2>2. Protocol!Answer(t)
    BY <1>7 DEF FinishError, SendTask, Protocol!Answer, Protocol!Answers
  <2> QED
    BY <2>1, <2>2 DEF Protocol!Next, Protocol!Reply
<1>8. CASE FinishOk(t)
  <2>3. \A s \in Tasks \ {t} : LogFollows(s)'
    BY <1>8 DEF FinishOk, SendTask
  <2>4. LogFollows(t)'
    BY <1>8, Sent DEF FinishOk, TaskPhases
  <2>1. LogFollowsLabel'
    BY <2>3, <2>4
  <2>2. Protocol!Answer(t)
    BY <1>8 DEF FinishOk, SendTask, Protocol!Answer, Protocol!Answers
  <2> QED
    BY <2>1, <2>2 DEF Protocol!Next, Protocol!Reply
<1>9. CASE PullImage(t)
  <2>1. LogFollowsLabel'
    BY <1>9 DEF PullImage
  <2>2. UNCHANGED Protocol!vars
    BY <1>9 DEF PullImage, Protocol!vars
  <2> QED
    BY <2>1, <2>2 DEF Protocol!Next, Protocol!Reply
<1>10. CASE CreateContainer(t)
  <2>3. \A s \in Tasks \ {t} : LogFollows(s)'
    BY <1>10 DEF CreateContainer
  <2>4. LogFollows(t)'
    BY <1>10 DEF CreateContainer
  <2>1. LogFollowsLabel'
    BY <2>3, <2>4
  <2>2. UNCHANGED Protocol!vars
    BY <1>10 DEF CreateContainer, Protocol!vars
  <2> QED
    BY <2>1, <2>2 DEF Protocol!Next, Protocol!Reply
<1>11. CASE StartContainer(t)
  <2>1. LogFollowsLabel'
    BY <1>11 DEF StartContainer
  <2>2. UNCHANGED Protocol!vars
    BY <1>11 DEF StartContainer, Protocol!vars
  <2> QED
    BY <2>1, <2>2 DEF Protocol!Next, Protocol!Reply
<1>12. CASE ReportStart(t)
  <2>1. LogFollowsLabel'
    BY <1>12 DEF ReportStart
  <2>2. UNCHANGED Protocol!vars
    BY <1>12 DEF ReportStart, Protocol!vars
  <2> QED
    BY <2>1, <2>2 DEF Protocol!Next, Protocol!Reply
<1>13. CASE StartMonitored(t)
  <2>1. LogFollowsLabel'
    BY <1>13 DEF StartMonitored
  <2>2. UNCHANGED Protocol!vars
    BY <1>13 DEF StartMonitored, Protocol!vars
  <2> QED
    BY <2>1, <2>2 DEF Protocol!Next, Protocol!Reply
<1>14. CASE StopEnter(t)
  <2>1. LogFollowsLabel'
    BY <1>14 DEF StopEnter
  <2>2. UNCHANGED Protocol!vars
    BY <1>14 DEF StopEnter, Protocol!vars
  <2> QED
    BY <2>1, <2>2 DEF Protocol!Next, Protocol!Reply
<1>15. CASE StopContainer(t)
  <2>1. LogFollowsLabel'
    BY <1>15 DEF StopContainer
  <2>2. UNCHANGED Protocol!vars
    BY <1>15 DEF StopContainer, Protocol!vars
  <2> QED
    BY <2>1, <2>2 DEF Protocol!Next, Protocol!Reply
<1>16. CASE StopSetAdd(t)
  <2>1. LogFollowsLabel'
    BY <1>16 DEF StopSetAdd
  <2>2. UNCHANGED Protocol!vars
    BY <1>16 DEF StopSetAdd, Protocol!vars
  <2> QED
    BY <2>1, <2>2 DEF Protocol!Next, Protocol!Reply
<1>17. CASE StopError(t)
  <2>3. \A s \in Tasks \ {t} : LogFollows(s)'
    BY <1>17 DEF StopError, SendTask
  <2>4. LogFollows(t)'
    BY <1>17, Sent DEF StopError, TaskPhases
  <2>1. LogFollowsLabel'
    BY <2>3, <2>4
  <2>2. Protocol!Answer(t)
    BY <1>17 DEF StopError, SendTask, Protocol!Answer, Protocol!Answers
  <2> QED
    BY <2>1, <2>2 DEF Protocol!Next, Protocol!Reply
<1>18. CASE StopLeave(t)
  <2>3. \A s \in Tasks \ {t} : LogFollows(s)'
    BY <1>18 DEF StopLeave
  <2>4. LogFollows(t)'
    BY <1>18 DEF StopLeave
  <2>1. LogFollowsLabel'
    BY <2>3, <2>4
  <2>2. UNCHANGED Protocol!vars
    BY <1>18 DEF StopLeave, Protocol!vars
  <2> QED
    BY <2>1, <2>2 DEF Protocol!Next, Protocol!Reply
<1>19. CASE RestartStops(t)
  <2>1. LogFollowsLabel'
    BY <1>19 DEF RestartStops
  <2>2. UNCHANGED Protocol!vars
    BY <1>19 DEF RestartStops, Protocol!vars
  <2> QED
    BY <2>1, <2>2 DEF Protocol!Next, Protocol!Reply
<1>20. CASE RestartFails(t)
  <2>1. LogFollowsLabel'
    BY <1>20 DEF RestartFails
  <2>2. UNCHANGED Protocol!vars
    BY <1>20 DEF RestartFails, Protocol!vars
  <2> QED
    BY <2>1, <2>2 DEF Protocol!Next, Protocol!Reply
<1>21. CASE RestartStarts(t)
  <2>1. LogFollowsLabel'
    BY <1>21 DEF RestartStarts
  <2>2. UNCHANGED Protocol!vars
    BY <1>21 DEF RestartStarts, Protocol!vars
  <2> QED
    BY <2>1, <2>2 DEF Protocol!Next, Protocol!Reply
<1>22. CASE RestartInspect(t)
  <2>1. LogFollowsLabel'
    BY <1>22 DEF RestartInspect
  <2>2. UNCHANGED Protocol!vars
    BY <1>22 DEF RestartInspect, Protocol!vars
  <2> QED
    BY <2>1, <2>2 DEF Protocol!Next, Protocol!Reply
<1>23. CASE RestartReport(t)
  <2>3. \A s \in Tasks \ {t} : LogFollows(s)'
    BY <1>23 DEF RestartReport, SendTask
  <2>4. LogFollows(t)'
    BY <1>23, Sent DEF RestartReport, TaskPhases
  <2>1. LogFollowsLabel'
    BY <2>3, <2>4
  <2>2. Protocol!Answer(t) \/ UNCHANGED Protocol!vars
    BY <1>23
    DEF RestartReport, SendTask, Protocol!Answer, Protocol!Answers, Protocol!vars
  <2> QED
    BY <2>1, <2>2 DEF Protocol!Next, Protocol!Reply
<1>24. CASE RestartHas(t)
  <2>3. \A s \in Tasks \ {t} : LogFollows(s)'
    BY <1>24 DEF RestartHas
  <2>4. LogFollows(t)'
    BY <1>24 DEF RestartHas, Returned
  <2>1. LogFollowsLabel'
    BY <2>3, <2>4
  <2>2. UNCHANGED Protocol!vars
    BY <1>24 DEF RestartHas, Returned, Protocol!vars
  <2> QED
    BY <2>1, <2>2 DEF Protocol!Next, Protocol!Reply
<1>25. CASE RestartMonitored(t)
  <2>3. \A s \in Tasks \ {t} : LogFollows(s)'
    BY <1>25 DEF RestartMonitored
  <2>4. LogFollows(t)'
    BY <1>25 DEF RestartMonitored, Returned
  <2>1. LogFollowsLabel'
    BY <2>3, <2>4
  <2>2. UNCHANGED Protocol!vars
    BY <1>25 DEF RestartMonitored, Returned, Protocol!vars
  <2> QED
    BY <2>1, <2>2 DEF Protocol!Next, Protocol!Reply
<1>26. CASE RemoveContainer(t)
  <2>1. LogFollowsLabel'
    BY <1>26 DEF RemoveContainer
  <2>2. UNCHANGED Protocol!vars
    BY <1>26 DEF RemoveContainer, Protocol!vars
  <2> QED
    BY <2>1, <2>2 DEF Protocol!Next, Protocol!Reply
<1> QED
  BY <1>1, <1>2, <1>3, <1>4, <1>5, <1>6, <1>7, <1>8, <1>9, <1>10, <1>11, <1>12, <1>13, <1>14, <1>15, <1>16, <1>17, <1>18, <1>19, <1>20, <1>21, <1>22, <1>23, <1>24, <1>25, <1>26
  DEF TaskStep

\* Every step of TaskAgent is a step of the protocol or leaves it alone.
LEMMA NextFollows ==
  LogInv /\ [Next]_vars => LogInv' /\ [Protocol!Next]_(Protocol!vars)
<1>1. ASSUME LogInv, NEW t \in Tasks, TaskStep(t)
      PROVE  LogFollowsLabel' /\ [Protocol!Next]_(Protocol!vars)
  BY <1>1, TaskStepFollows
<1>2. ASSUME LogInv, Monitor \/ (\E c \in Containers : Check(c) \/ Die(c)) \/ UNCHANGED vars
      PROVE  LogFollowsLabel' /\ UNCHANGED Protocol!vars
  <2>1. UNCHANGED <<taskVars, taskFeedBack>>
    BY <1>2
    DEF Monitor, MonitorClient, MonitorInitList, MonitorInitAdd, MonitorList,
        MonitorOld, MonitorTake, MonitorWait, MonitorHas, MonitorReport,
        MonitorForget, Check, CheckSeesStopped, CheckFails, ReportDown, Die, vars,
        outVars
  <2> QED
    BY <1>2, <2>1 DEF LogInv, LogFollowsLabel, LogFollows, taskVars, Protocol!vars
<1>3. LogInv /\ [Next]_vars => Typed'
  BY NextTyped DEF LogInv
<1> QED
  BY <1>1, <1>2, <1>3 DEF Next, LogInv

\* Every behaviour of the agent's tasks, whatever the monitor, dockerd and the
\* other tasks do, is a behaviour of TaskProtocol: one ack, then one answer.
THEOREM TasksFollowProtocol == Spec => Protocol!Spec
<1>1. Init => LogInv /\ Protocol!Init
  BY InitTyped DEF Init, LogInv, LogFollowsLabel, LogFollows, Protocol!Init
<1> QED
  BY <1>1, NextFollows, PTL DEF Spec, Protocol!Spec

-----------------------------------------------------------------------------
(* The stops the server hears of                                           *)

RestartLabels == { "restart", "restarting", "restarted", "restartSend", "restartHas",
                   "restartAdd" }

\* A task that may create a container is no restart, and only restarts are at
\* the labels of RestartContainer.
KindFits ==
  \A t \in Tasks :
    /\ pc[t] \in { "idle", "pull", "create" } => kind[t] # "RestartContainer"
    /\ pc[t] \in RestartLabels => kind[t] = "RestartContainer"

\* The ids of a round are in aliveContainerSet until they are taken, and the
\* host is empty until the first listing.
Rounds ==
  /\ monPc \in { "scan", "wait" } \cup Handling => oldAlive \subseteq aliveContainerSet
  /\ monPc \in { "client", "initList" } => \A c \in Containers : c \notin host

\* The restarts of a container, and the tasks that may still put it into
\* aliveContainerSet.
Restarts(c) == { t \in Tasks : kind[t] = "RestartContainer" /\ target[t] = c }
Reserved(c) ==
  { t \in Tasks : /\ target[t] = c
                  /\ \/ pc[t] = "startAdd"
                     \/ kind[t] = "RestartContainer" /\ pc[t] \in { "ack" } \cup RestartLabels }

Stops(s) == { i \in DOMAIN s : IsStop(s[i]) }
Starts(s) == { i \in DOMAIN s : IsStart(s[i]) }

\* A stop that may be reported without another start: the container is in
\* aliveContainerSet, on its way into it, or taken for the report.
Held(c) == (IF c \in aliveContainerSet THEN 1 ELSE 0)
           + (IF monPc = "initAdd" /\ c \in oldAlive THEN 1 ELSE 0)
           + (IF monPc \in { "wait", "has", "reportNormal", "reportUnexcepted" } /\ monId = c
                THEN 1 ELSE 0)
Found(c) == IF c \in host THEN 1 ELSE 0

Balance(c) ==
  Cardinality(Stops(instanceFeedBack[c])) + Held(c) + Cardinality(Reserved(c))
    <= Cardinality(Starts(instanceFeedBack[c])) + Cardinality(Restarts(c)) + Found(c)

PaidInv == Typed /\ KindFits /\ Rounds /\ \A c \in Containers : Balance(c)

LEMMA OneElement ==
  ASSUME NEW S, NEW T, NEW t, IsFiniteSet(S), S \ {t} = T \ {t}
  PROVE  /\ IsFiniteSet(T) /\ Cardinality(S) \in Nat /\ Cardinality(T) \in Nat
         /\ Cardinality(T) + (IF t \in S THEN 1 ELSE 0)
              = Cardinality(S) + (IF t \in T THEN 1 ELSE 0)
<1> DEFINE U == S \ {t}
<1>1. IsFiniteSet(U) /\ Cardinality(S) \in Nat
  BY FS_Subset, FS_CardinalityType
<1>2. /\ t \in S => S = U \cup {t}
      /\ t \notin S => S = U
      /\ t \in T => T = U \cup {t}
      /\ t \notin T => T = U
  OBVIOUS
<1>3. t \notin U
  OBVIOUS
<1> HIDE DEF U
<1>4. IsFiniteSet(U \cup {t}) /\ Cardinality(U \cup {t}) = Cardinality(U) + 1 /\ Cardinality(U) \in Nat
  BY <1>1, <1>3, FS_AddElement, FS_CardinalityType
<1>5. /\ IsFiniteSet(T)
      /\ Cardinality(S) = Cardinality(U) + (IF t \in S THEN 1 ELSE 0)
      /\ Cardinality(T) = Cardinality(U) + (IF t \in T THEN 1 ELSE 0)
  <2>1. CASE t \in S /\ t \in T
    BY <1>1, <1>2, <1>4, <2>1
  <2>2. CASE t \in S /\ t \notin T
    BY <1>1, <1>2, <1>4, <2>2
  <2>3. CASE t \notin S /\ t \in T
    BY <1>1, <1>2, <1>4, <2>3
  <2>4. CASE t \notin S /\ t \notin T
    BY <1>1, <1>2, <1>4, <2>4
  <2> QED BY <2>1, <2>2, <2>3, <2>4
<1> QED BY <1>4, <1>5

LEMMA AppendCounts ==
  ASSUME NEW s \in Seq(InstancePhases), NEW phase \in InstancePhases
  PROVE  /\ Cardinality(Stops(s)) \in Nat /\ Cardinality(Starts(s)) \in Nat
         /\ Cardinality(Stops(Append(s, phase)))
              = Cardinality(Stops(s)) + (IF IsStop(phase) THEN 1 ELSE 0)
         /\ Cardinality(Starts(Append(s, phase)))
              = Cardinality(Starts(s)) + (IF IsStart(phase) THEN 1 ELSE 0)
<1> DEFINE e == Append(s, phase)
           n == Len(s) + 1
<1>1. /\ DOMAIN s = 1 .. Len(s) /\ Len(s) \in Nat /\ DOMAIN e = 1 .. n /\ e[n] = phase
      /\ \A i \in 1 .. Len(s) : e[i] = s[i]
  BY AppendProperties, LenProperties
<1> HIDE DEF e
<1>2. IsFiniteSet(1 .. Len(s))
  BY <1>1, FS_Interval
<1>3. /\ Stops(s) \subseteq 1 .. Len(s) /\ Starts(s) \subseteq 1 .. Len(s)
      /\ n \notin Stops(s) /\ n \notin Starts(s)
      /\ Stops(s) \ {n} = Stops(e) \ {n} /\ Starts(s) \ {n} = Starts(e) \ {n}
      /\ n \in Stops(e) <=> IsStop(phase)
      /\ n \in Starts(e) <=> IsStart(phase)
  BY <1>1 DEF Stops, Starts
<1>4. IsFiniteSet(Stops(s)) /\ IsFiniteSet(Starts(s))
  BY <1>2, <1>3, FS_Subset
<1>5. Cardinality(Stops(e)) = Cardinality(Stops(s)) + (IF IsStop(phase) THEN 1 ELSE 0)
      /\ Cardinality(Stops(s)) \in Nat
  <2> HIDE DEF n
  <2> QED BY <1>3, <1>4, OneElement
<1>6. Cardinality(Starts(e)) = Cardinality(Starts(s)) + (IF IsStart(phase) THEN 1 ELSE 0)
      /\ Cardinality(Starts(s)) \in Nat
  <2> HIDE DEF n
  <2> QED BY <1>3, <1>4, OneElement
<1> QED BY <1>5, <1>6 DEF e

\* What a feedback about a container adds to the counts.
LEMMA SendCounts ==
  ASSUME Typed, NEW d, NEW phase \in InstancePhases, SendInstance(d, phase), NEW c \in Containers
  PROVE  /\ Cardinality(Stops(instanceFeedBack[c])) \in Nat
         /\ Cardinality(Starts(instanceFeedBack[c])) \in Nat
         /\ Cardinality(Stops(instanceFeedBack'[c]))
              = Cardinality(Stops(instanceFeedBack[c]))
                + (IF c = d /\ IsStop(phase) THEN 1 ELSE 0)
         /\ Cardinality(Starts(instanceFeedBack'[c]))
              = Cardinality(Starts(instanceFeedBack[c]))
                + (IF c = d /\ IsStart(phase) THEN 1 ELSE 0)
<1>1. instanceFeedBack \in [Containers -> Seq(InstancePhases)]
  BY DEF Typed, TypeOK, OutTypes
<1>2. instanceFeedBack'[c] = IF c = d THEN Append(instanceFeedBack[c], phase)
                                      ELSE instanceFeedBack[c]
  BY <1>1 DEF SendInstance
<1> QED BY <1>1, <1>2, AppendCounts

LEMMA CountTypes ==
  ASSUME Typed, NEW c \in Containers
  PROVE  /\ Cardinality(Stops(instanceFeedBack[c])) \in Nat
         /\ Cardinality(Starts(instanceFeedBack[c])) \in Nat
         /\ IsFiniteSet(Reserved(c)) /\ Cardinality(Reserved(c)) \in Nat
         /\ IsFiniteSet(Restarts(c)) /\ Cardinality(Restarts(c)) \in Nat
         /\ Held(c) \in Nat /\ Found(c) \in Nat
<1>1. instanceFeedBack[c] \in Seq(InstancePhases) /\ "down" \in InstancePhases
  BY DEF Typed, TypeOK, OutTypes, InstancePhases
<1>2. Reserved(c) \subseteq Tasks /\ Restarts(c) \subseteq Tasks
  BY DEF Reserved, Restarts
<1>3. Held(c) \in Nat /\ Found(c) \in Nat
  BY DEF Held, Found
<1> QED BY <1>1, <1>2, <1>3, AppendCounts, TasksFinite, FS_Subset, FS_CardinalityType

\* What one task's step does to the tasks that count for a container.
LEMMA TaskCounts ==
  ASSUME Typed, NEW t \in Tasks, NEW c \in Containers,
         \A s \in Tasks \ {t} : pc'[s] = pc[s] /\ kind'[s] = kind[s] /\ target'[s] = target[s]
  PROVE  /\ Cardinality(Reserved(c)') \in Nat /\ Cardinality(Restarts(c)') \in Nat
         /\ Cardinality(Reserved(c)') + (IF t \in Reserved(c) THEN 1 ELSE 0)
              = Cardinality(Reserved(c)) + (IF t \in Reserved(c)' THEN 1 ELSE 0)
         /\ Cardinality(Restarts(c)') + (IF t \in Restarts(c) THEN 1 ELSE 0)
              = Cardinality(Restarts(c)) + (IF t \in Restarts(c)' THEN 1 ELSE 0)
<1> DEFINE reserved == Reserved(c)'
           restarts == Restarts(c)'
<1>1. Reserved(c) \ {t} = reserved \ {t}
  BY DEF Reserved
<1>2. Restarts(c) \ {t} = restarts \ {t}
  BY DEF Restarts
<1>3. IsFiniteSet(Reserved(c)) /\ IsFiniteSet(Restarts(c))
  BY CountTypes
<1> HIDE DEF reserved, restarts
<1>4. /\ Cardinality(reserved) \in Nat
      /\ Cardinality(reserved) + (IF t \in Reserved(c) THEN 1 ELSE 0)
           = Cardinality(Reserved(c)) + (IF t \in reserved THEN 1 ELSE 0)
  BY <1>1, <1>3, OneElement
<1>5. /\ Cardinality(restarts) \in Nat
      /\ Cardinality(restarts) + (IF t \in Restarts(c) THEN 1 ELSE 0)
           = Cardinality(Restarts(c)) + (IF t \in restarts THEN 1 ELSE 0)
  BY <1>2, <1>3, OneElement
<1> QED BY <1>4, <1>5 DEF reserved, restarts

\* A step of one task, by what it does to a container's account: the monitor
\* and the listing of the host stay.
LEMMA TaskBalance ==
  ASSUME Typed, NEW t \in Tasks, NEW c \in Containers, Balance(c),
         \A s \in Tasks \ {t} : pc'[s] = pc[s] /\ kind'[s] = kind[s] /\ target'[s] = target[s],
         UNCHANGED <<monPc, monId, oldAlive, host>>,
         Cardinality(Stops(instanceFeedBack'[c])) = Cardinality(Stops(instanceFeedBack[c])),
         NEW more \in Nat,
         Cardinality(Starts(instanceFeedBack'[c]))
           = Cardinality(Starts(instanceFeedBack[c])) + more,
         t \in Restarts(c) => t \in Restarts(c)',
         t \in Reserved(c)' => \/ t \in Reserved(c)
                               \/ t \notin Restarts(c) /\ t \in Restarts(c)'
                               \/ more = 1,
         c \in aliveContainerSet' => \/ c \in aliveContainerSet
                                     \/ t \in Reserved(c) /\ t \notin Reserved(c)'
  PROVE  Balance(c)'
<1>1. /\ Cardinality(Reserved(c)') \in Nat /\ Cardinality(Restarts(c)') \in Nat
      /\ Cardinality(Reserved(c)') + (IF t \in Reserved(c) THEN 1 ELSE 0)
           = Cardinality(Reserved(c)) + (IF t \in Reserved(c)' THEN 1 ELSE 0)
      /\ Cardinality(Restarts(c)') + (IF t \in Restarts(c) THEN 1 ELSE 0)
           = Cardinality(Restarts(c)) + (IF t \in Restarts(c)' THEN 1 ELSE 0)
  BY TaskCounts
<1>2. Found(c)' = Found(c)
  BY DEF Found
<1>3. Held(c)' + (IF c \in aliveContainerSet THEN 1 ELSE 0)
        = Held(c) + (IF c \in aliveContainerSet' THEN 1 ELSE 0)
      /\ Held(c) \in Nat /\ Held(c)' \in Nat
  BY DEF Held
<1>4. /\ Cardinality(Stops(instanceFeedBack[c])) \in Nat
      /\ Cardinality(Starts(instanceFeedBack[c])) \in Nat
      /\ Cardinality(Reserved(c)) \in Nat /\ Cardinality(Restarts(c)) \in Nat /\ Found(c) \in Nat
  BY CountTypes
<1> DEFINE stops == Cardinality(Stops(instanceFeedBack[c]))
           starts == Cardinality(Starts(instanceFeedBack[c]))
           reserved == Cardinality(Reserved(c))
           reserved2 == Cardinality(Reserved(c)')
           restarts == Cardinality(Restarts(c))
           restarts2 == Cardinality(Restarts(c)')
           held == Held(c)
           held2 == Held(c)'
           found == Found(c)
<1>5. stops + held + reserved <= starts + restarts + found
  BY DEF Balance
<1>6. Balance(c)' <=> stops + held2 + reserved2 <= (starts + more) + restarts2 + found
  BY <1>2 DEF Balance
<1>7. /\ reserved2 + (IF t \in Reserved(c) THEN 1 ELSE 0)
           = reserved + (IF t \in Reserved(c)' THEN 1 ELSE 0)
      /\ restarts2 + (IF t \in Restarts(c) THEN 1 ELSE 0)
           = restarts + (IF t \in Restarts(c)' THEN 1 ELSE 0)
      /\ held2 + (IF c \in aliveContainerSet THEN 1 ELSE 0)
           = held + (IF c \in aliveContainerSet' THEN 1 ELSE 0)
      /\ {stops, starts, reserved, reserved2, restarts, restarts2, held, held2, found} \subseteq Nat
  BY <1>1, <1>3, <1>4
<1> HIDE DEF stops, starts, reserved, reserved2, restarts, restarts2, held, held2, found
<1> QED BY <1>5, <1>6, <1>7

\* A step of a task that neither tells the server of the container nor touches
\* aliveContainerSet, and that reserves no container without a restart.
Keeps(t) ==
  /\ pc'[t] \in { "idle", "pull", "create" } => kind'[t] # "RestartContainer"
  /\ pc'[t] \in RestartLabels => kind'[t] = "RestartContainer"
  /\ \A s \in Tasks \ {t} : pc'[s] = pc[s] /\ kind'[s] = kind[s] /\ target'[s] = target[s]
  /\ UNCHANGED <<monPc, monId, oldAlive, host>>
PlainStep(t) ==
  /\ Keeps(t) /\ UNCHANGED <<aliveContainerSet, instanceFeedBack>>
  /\ \A c \in Containers :
       /\ t \in Restarts(c) => t \in Restarts(c)'
       /\ t \in Reserved(c)' => \/ t \in Reserved(c)
                                \/ t \notin Restarts(c) /\ t \in Restarts(c)'

LEMMA KeepsInv ==
  ASSUME PaidInv, NEW t \in Tasks, Keeps(t), aliveContainerSet \subseteq aliveContainerSet'
  PROVE  KindFits' /\ Rounds'
<1>1. KindFits'
  BY DEF PaidInv, KindFits, Keeps
<1>2. Rounds'
  BY DEF PaidInv, Rounds, Keeps, Handling
<1> QED BY <1>1, <1>2

LEMMA PlainInv ==
  ASSUME PaidInv, Typed', NEW t \in Tasks, PlainStep(t)
  PROVE  PaidInv'
<1>1. KindFits' /\ Rounds'
  BY KeepsInv DEF PlainStep
<1>2. ASSUME NEW c \in Containers PROVE Balance(c)'
  <2>1. Cardinality(Starts(instanceFeedBack'[c])) = Cardinality(Starts(instanceFeedBack[c])) + 0
    BY CountTypes DEF PaidInv, PlainStep
  <2>2. /\ t \in Restarts(c) => t \in Restarts(c)'
        /\ t \in Reserved(c)' => \/ t \in Reserved(c)
                                 \/ t \notin Restarts(c) /\ t \in Restarts(c)'
    BY DEF PlainStep
  <2>3. /\ \A s \in Tasks \ {t} : pc'[s] = pc[s] /\ kind'[s] = kind[s] /\ target'[s] = target[s]
        /\ UNCHANGED <<monPc, monId, oldAlive, host, aliveContainerSet, instanceFeedBack>>
    BY DEF PlainStep, Keeps
  <2>4. Typed /\ Balance(c)
    BY DEF PaidInv
  <2> QED BY <2>1, <2>2, <2>3, <2>4, TaskBalance
<1> QED BY <1>1, <1>2 DEF PaidInv

\* Most steps leave the kind and the target of the task alone, and go to a
\* label that reserves nothing the last one did not.
LEMMA SameTarget ==
  ASSUME Typed, NEW t \in Tasks, UNCHANGED <<kind, target>>, Keeps(t), pc'[t] # "startAdd",
         pc'[t] \in { "ack" } \cup RestartLabels => pc[t] \in { "ack" } \cup RestartLabels
  PROVE  \A c \in Containers : /\ t \in Restarts(c) => t \in Restarts(c)'
                               /\ t \in Reserved(c)' => t \in Reserved(c)
BY DEF Restarts, Reserved

LEMMA PlainTaskStep ==
  ASSUME PaidInv, NEW t \in Tasks, TaskStep(t), ~ ReportStart(t), ~ StartMonitored(t),
         ~ RestartReport(t), ~ RestartMonitored(t)
  PROVE  PlainStep(t)
<1>t. TaskTypes /\ KindFits /\ Typed
  BY DEF PaidInv, Typed, TypeOK
<1>s. ASSUME UNCHANGED <<kind, target, aliveContainerSet, instanceFeedBack,
                         monPc, monId, oldAlive, host>>,
             NEW label \in Labels, Goto(t, label),
             label \in { "idle", "pull", "create" } => kind[t] # "RestartContainer",
             label \in RestartLabels => kind[t] = "RestartContainer",
             label # "startAdd",
             label \in { "ack" } \cup RestartLabels => pc[t] \in { "ack" } \cup RestartLabels
      PROVE  PlainStep(t)
  <2>1. pc'[t] = label /\ \A s \in Tasks \ {t} : pc'[s] = pc[s]
    BY <1>s, <1>t DEF Goto, TaskTypes
  <2>2. Keeps(t)
    BY <1>s, <2>1 DEF Keeps
  <2> QED BY <1>s, <1>t, <2>1, <2>2, SameTarget DEF PlainStep
<1>l. /\ RestartLabels \subseteq Labels /\ Stopping \subseteq Labels /\ Entries \subseteq Labels
      /\ {"ack", "unparsed", "rejected", "failed", "finish", "end", "started"} \subseteq Labels
      /\ RestartLabels \cap ({"ack", "unparsed", "rejected", "failed", "finish", "end", "started",
                              "startAdd", "idle", "pull", "create", "start", "remove"}
                             \cup Stopping) = {}
      /\ Stopping \cap {"idle", "pull", "create", "start", "startAdd", "ack"} = {}
  BY DEF RestartLabels, Labels, Entries, Stopping
<1> USE DEF localVars, restVars, setVars, monitorVars, historyVars, outVars, dockerVars
<1>1. CASE Receive(t)
  <2>1. /\ pc[t] = "idle" /\ kind[t] # "RestartContainer" /\ pc'[t] \in {"ack", "unparsed"}
        /\ pc'[t] = "unparsed" => UNCHANGED <<kind, target>>
    BY <1>1, <1>t DEF Receive, KindFits, Goto, TaskTypes
  <2>2. /\ \A s \in Tasks \ {t} : pc'[s] = pc[s] /\ kind'[s] = kind[s] /\ target'[s] = target[s]
        /\ UNCHANGED <<aliveContainerSet, instanceFeedBack, monPc, monId, oldAlive, host>>
    BY <1>1, <1>t DEF Receive, Goto, TaskTypes
  <2>3. Keeps(t)
    BY <2>1, <2>2 DEF Keeps, RestartLabels
  <2>4. ASSUME NEW c \in Containers
        PROVE  /\ t \notin Restarts(c)
               /\ t \in Reserved(c)' => t \in Restarts(c)'
    BY <2>1 DEF Restarts, Reserved
  <2> QED BY <2>2, <2>3, <2>4 DEF PlainStep
<1>2. CASE AckUnparsed(t)
  BY <1>2, <1>s, <1>l DEF AckUnparsed
<1>3. CASE Ack(t)
  <2>1. kind[t] \in AllKinds /\ Handler[kind[t]] \in Entries \cup {"failed"}
    BY <1>t, LabelsApart DEF TaskTypes
  <2>2. /\ Handler[kind[t]] \in {"pull", "create"} => kind[t] # "RestartContainer"
        /\ Handler[kind[t]] \in RestartLabels => kind[t] = "RestartContainer"
    BY <2>1 DEF Handler, AllKinds, WithId, RestartLabels
  <2> QED BY <1>3, <1>s, <1>l, <2>1, <2>2 DEF Ack, Entries
<1>4. CASE Reject(t)
  BY <1>4, <1>s, <1>l DEF Reject
<1>5. CASE AckRejected(t)
  BY <1>5, <1>s, <1>l DEF AckRejected
<1>6. CASE NoClient(t)
  BY <1>6, <1>s, <1>l DEF NoClient
<1>7. CASE FinishError(t)
  BY <1>7, <1>s, <1>l DEF FinishError
<1>8. CASE FinishOk(t)
  BY <1>8, <1>s, <1>l DEF FinishOk
<1>9. CASE PullImage(t)
  <2>1. kind[t] # "RestartContainer"
    BY <1>9, <1>t DEF PullImage, KindFits
  <2>2. {"create", "finish", "failed"} \subseteq Labels
    BY <1>l DEF Entries
  <2> QED BY <1>9, <1>s, <1>l, <2>1, <2>2 DEF PullImage
<1>10. CASE CreateContainer(t)
  <2>1. kind[t] # "RestartContainer" /\ UNCHANGED kind /\ pc'[t] \in {"start", "finish", "failed"}
    BY <1>10, <1>t DEF CreateContainer, KindFits, Goto, TaskTypes
  <2>2. /\ \A s \in Tasks \ {t} : pc'[s] = pc[s] /\ kind'[s] = kind[s] /\ target'[s] = target[s]
        /\ UNCHANGED <<aliveContainerSet, instanceFeedBack, monPc, monId, oldAlive, host>>
    BY <1>10, <1>t DEF CreateContainer, Goto, TaskTypes
  <2>3. Keeps(t)
    BY <2>1, <2>2 DEF Keeps, RestartLabels
  <2>4. ASSUME NEW c \in Containers PROVE t \notin Restarts(c) /\ t \notin Reserved(c)'
    BY <2>1 DEF Restarts, Reserved
  <2> QED BY <2>2, <2>3, <2>4 DEF PlainStep
<1>11. CASE StartContainer(t)
  BY <1>11, <1>s, <1>l DEF StartContainer
<1>12. CASE StopEnter(t)
  BY <1>12, <1>s, <1>l DEF StopEnter, Stopping
<1>13. CASE StopContainer(t)
  BY <1>13, <1>s, <1>l DEF StopContainer, Stopping
<1>14. CASE StopSetAdd(t)
  BY <1>14, <1>s, <1>l DEF StopSetAdd, Stopping
<1>15. CASE StopError(t)
  BY <1>15, <1>s, <1>l DEF StopError, Stopping
<1>16. CASE StopLeave(t)
  BY <1>16, <1>s, <1>l DEF StopLeave, Stopping
<1>r. pc[t] \in RestartLabels => kind[t] = "RestartContainer"
  BY <1>t DEF KindFits
<1>17. CASE RestartStops(t)
  BY <1>17, <1>s, <1>l, <1>r DEF RestartStops, RestartLabels
<1>18. CASE RestartFails(t)
  BY <1>18, <1>s, <1>l, <1>r DEF RestartFails, RestartLabels
<1>19. CASE RestartStarts(t)
  BY <1>19, <1>s, <1>l, <1>r DEF RestartStarts, RestartLabels
<1>20. CASE RestartInspect(t)
  BY <1>20, <1>s, <1>l, <1>r DEF RestartInspect, RestartLabels
<1>21. CASE RestartHas(t)
  BY <1>21, <1>s, <1>l, <1>r DEF RestartHas, Returned, RestartLabels
<1>22. CASE RemoveContainer(t)
  BY <1>22, <1>s, <1>l DEF RemoveContainer
<1> QED
  BY <1>1, <1>2, <1>3, <1>4, <1>5, <1>6, <1>7, <1>8, <1>9, <1>10, <1>11, <1>12, <1>13, <1>14,
     <1>15, <1>16, <1>17, <1>18, <1>19, <1>20, <1>21, <1>22
  DEF TaskStep

\* A start pays for the stop that the container may be reported with, once it
\* is in aliveContainerSet.
LEMMA ReportStartPaid ==
  ASSUME PaidInv, Typed', NEW t \in Tasks, ReportStart(t)
  PROVE  PaidInv'
<1> USE DEF restVars, localVars, setVars, monitorVars, historyVars
<1>1. TaskTypes /\ target[t] \in Containers /\ Typed
  BY DEF PaidInv, Typed, TypeOK, TargetsExist, ReportStart
<1>2. /\ pc[t] = "started" /\ pc' = [pc EXCEPT ![t] = "startAdd"]
      /\ SendInstance(target[t], "start")
      /\ UNCHANGED <<kind, target, aliveContainerSet, monPc, monId, oldAlive, host>>
  BY DEF ReportStart, Goto
<1>3. pc'[t] = "startAdd" /\ \A s \in Tasks \ {t} : pc'[s] = pc[s]
  BY <1>1, <1>2 DEF TaskTypes
<1>4. Keeps(t)
  BY <1>2, <1>3 DEF Keeps, RestartLabels
<1>5. KindFits' /\ Rounds'
  BY <1>2, <1>4, KeepsInv
<1>6. "start" \in InstancePhases /\ ~ IsStop("start") /\ IsStart("start")
  BY DEF InstancePhases, IsStop, IsStart
<1>7. ASSUME NEW c \in Containers PROVE Balance(c)'
  <2> DEFINE more == IF c = target[t] THEN 1 ELSE 0
  <2>1. /\ Cardinality(Stops(instanceFeedBack'[c])) = Cardinality(Stops(instanceFeedBack[c]))
        /\ Cardinality(Starts(instanceFeedBack'[c]))
             = Cardinality(Starts(instanceFeedBack[c])) + more
    BY <1>1, <1>2, <1>6, SendCounts
  <2>2. /\ t \in Restarts(c) => t \in Restarts(c)'
        /\ t \in Reserved(c)' => more = 1
    BY <1>2, <1>3 DEF Restarts, Reserved
  <2>3. /\ \A s \in Tasks \ {t} : pc'[s] = pc[s] /\ kind'[s] = kind[s] /\ target'[s] = target[s]
        /\ more \in Nat /\ Balance(c)
    BY <1>2, <1>3 DEF PaidInv
  <2> HIDE DEF more
  <2> QED BY <1>1, <1>2, <2>1, <2>2, <2>3, TaskBalance
<1> QED BY <1>5, <1>7 DEF PaidInv

\* The feedback of a restart is neither a start nor a stop.
LEMMA RestartReportPaid ==
  ASSUME PaidInv, Typed', NEW t \in Tasks, RestartReport(t)
  PROVE  PaidInv'
<1> USE DEF restVars, localVars, setVars, monitorVars, historyVars
<1>1. TaskTypes /\ KindFits /\ Typed
  BY DEF PaidInv, Typed, TypeOK
<1>2. /\ pc[t] = "restartSend" /\ pc' = [pc EXCEPT ![t] = "restartHas"]
      /\ SendInstance(target[t], "restart") \/ UNCHANGED instanceFeedBack
      /\ UNCHANGED <<kind, target, aliveContainerSet, monPc, monId, oldAlive, host>>
  BY DEF RestartReport, Goto
<1>3. /\ pc'[t] = "restartHas" /\ kind[t] = "RestartContainer"
      /\ \A s \in Tasks \ {t} : pc'[s] = pc[s]
  BY <1>1, <1>2 DEF TaskTypes, KindFits, RestartLabels
<1>4. Keeps(t)
  BY <1>2, <1>3 DEF Keeps, RestartLabels
<1>5. KindFits' /\ Rounds'
  BY <1>2, <1>4, KeepsInv
<1>6. "restart" \in InstancePhases /\ ~ IsStop("restart") /\ ~ IsStart("restart")
  BY DEF InstancePhases, IsStop, IsStart
<1>7. ASSUME NEW c \in Containers PROVE Balance(c)'
  <2>1. /\ Cardinality(Stops(instanceFeedBack'[c])) = Cardinality(Stops(instanceFeedBack[c]))
        /\ Cardinality(Starts(instanceFeedBack'[c])) = Cardinality(Starts(instanceFeedBack[c])) + 0
    <3>1. CASE SendInstance(target[t], "restart")
      BY <1>1, <1>6, <3>1, SendCounts
    <3>2. CASE UNCHANGED instanceFeedBack
      BY <1>1, <3>2, CountTypes
    <3> QED BY <1>2, <3>1, <3>2
  <2>2. /\ t \in Restarts(c) => t \in Restarts(c)'
        /\ t \in Reserved(c)' => t \in Reserved(c)
    BY <1>2, <1>3 DEF Restarts, Reserved, RestartLabels
  <2>3. /\ \A s \in Tasks \ {t} : pc'[s] = pc[s] /\ kind'[s] = kind[s] /\ target'[s] = target[s]
        /\ Balance(c)
    BY <1>2, <1>3 DEF PaidInv
  <2> QED BY <1>1, <1>2, <2>1, <2>2, <2>3, TaskBalance
<1> QED BY <1>5, <1>7 DEF PaidInv

\* Who puts a container into aliveContainerSet had reserved it.
LEMMA MonitoredPaid ==
  ASSUME PaidInv, Typed', NEW t \in Tasks, StartMonitored(t) \/ RestartMonitored(t)
  PROVE  PaidInv'
<1> USE DEF restVars, localVars, setVars, monitorVars, historyVars, outVars
<1>1. TaskTypes /\ KindFits /\ Typed
  BY DEF PaidInv, Typed, TypeOK
<1>2. /\ pc[t] = "startAdd" \/ (pc[t] = "restartAdd" /\ kind[t] = "RestartContainer")
      /\ pc'[t] \in {"finish", "end"} /\ \A s \in Tasks \ {t} : pc'[s] = pc[s]
      /\ aliveContainerSet' = aliveContainerSet \cup {target[t]}
      /\ UNCHANGED <<kind, target, instanceFeedBack, monPc, monId, oldAlive, host>>
  <2>1. CASE StartMonitored(t)
    BY <1>1, <2>1 DEF StartMonitored, Goto, AddAlive, TaskTypes
  <2>2. CASE RestartMonitored(t)
    BY <1>1, <2>2 DEF RestartMonitored, Goto, AddAlive, TaskTypes, Returned, KindFits, RestartLabels
  <2> QED BY <2>1, <2>2
<1>3. Keeps(t)
  BY <1>2 DEF Keeps, RestartLabels
<1>4. KindFits' /\ Rounds'
  BY <1>2, <1>3, KeepsInv
<1>5. ASSUME NEW c \in Containers PROVE Balance(c)'
  <2>1. Cardinality(Starts(instanceFeedBack'[c])) = Cardinality(Starts(instanceFeedBack[c])) + 0
    BY <1>1, <1>2, CountTypes
  <2>2. /\ t \in Restarts(c) => t \in Restarts(c)'
        /\ t \notin Reserved(c)'
        /\ c = target[t] => t \in Reserved(c)
    BY <1>2 DEF Restarts, Reserved, RestartLabels
  <2>3. c \in aliveContainerSet' => c \in aliveContainerSet \/ t \in Reserved(c)
    BY <1>2, <2>2
  <2>4. /\ \A s \in Tasks \ {t} : pc'[s] = pc[s] /\ kind'[s] = kind[s] /\ target'[s] = target[s]
        /\ Balance(c)
    BY <1>2 DEF PaidInv
  <2>5. Cardinality(Stops(instanceFeedBack'[c])) = Cardinality(Stops(instanceFeedBack[c]))
    BY <1>2
  <2> QED BY <1>1, <1>2, <2>1, <2>2, <2>3, <2>4, <2>5, TaskBalance
<1> QED BY <1>4, <1>5 DEF PaidInv

\* A step of no task: what it holds of a container and what it tells of it.
LEMMA OtherBalance ==
  ASSUME Typed, NEW c \in Containers, Balance(c), UNCHANGED <<pc, kind, target>>,
         NEW told \in Nat,
         Cardinality(Stops(instanceFeedBack'[c])) = Cardinality(Stops(instanceFeedBack[c])) + told,
         Cardinality(Starts(instanceFeedBack'[c])) = Cardinality(Starts(instanceFeedBack[c])),
         told + Held(c)' + Found(c) <= Held(c) + Found(c)'
  PROVE  Balance(c)'
<1>1. Reserved(c)' = Reserved(c) /\ Restarts(c)' = Restarts(c)
  BY DEF Reserved, Restarts
<1>2. Held(c)' \in Nat /\ Found(c)' \in Nat
  BY DEF Held, Found
<1>3. /\ Cardinality(Stops(instanceFeedBack[c])) \in Nat
      /\ Cardinality(Starts(instanceFeedBack[c])) \in Nat
      /\ Cardinality(Reserved(c)) \in Nat /\ Cardinality(Restarts(c)) \in Nat
      /\ Held(c) \in Nat /\ Found(c) \in Nat
  BY CountTypes
<1> DEFINE stops == Cardinality(Stops(instanceFeedBack[c]))
           starts == Cardinality(Starts(instanceFeedBack[c]))
           reserved == Cardinality(Reserved(c))
           restarts == Cardinality(Restarts(c))
           held == Held(c)
           held2 == Held(c)'
           found == Found(c)
           found2 == Found(c)'
<1>4. stops + held + reserved <= starts + restarts + found
  BY DEF Balance
<1>5. Balance(c)' <=> (stops + told) + held2 + reserved <= starts + restarts + found2
  BY <1>1 DEF Balance
<1>6. /\ {stops, starts, reserved, restarts, held, held2, found, found2} \subseteq Nat
      /\ told + held2 + found <= held + found2
  BY <1>2, <1>3
<1> HIDE DEF stops, starts, reserved, restarts, held, held2, found, found2
<1> QED BY <1>4, <1>5, <1>6

LEMMA MonitorPaid ==
  ASSUME PaidInv, Typed', Monitor
  PROVE  PaidInv'
<1> USE DEF dockerVars, taskVars, setVars, checkVars, outVars, historyVars
<1>1. /\ Typed /\ KindFits /\ Rounds /\ monPc \in MonitorLabels
      /\ oldAlive \subseteq Containers /\ aliveContainerSet \subseteq Containers
  BY DEF PaidInv, Typed, TypeOK, MonitorTypes, SetTypes
<1>2. UNCHANGED <<pc, kind, target>> /\ KindFits'
  BY <1>1
  DEF Monitor, MonitorClient, MonitorInitList, MonitorInitAdd, MonitorList, MonitorOld,
      MonitorTake, MonitorWait, MonitorHas, MonitorReport, MonitorForget, KindFits
<1>3. ASSUME NEW c \in Containers, UNCHANGED instanceFeedBack,
             Held(c)' + Found(c) <= Held(c) + Found(c)'
      PROVE  Balance(c)'
  <2>1. /\ Cardinality(Stops(instanceFeedBack'[c])) = Cardinality(Stops(instanceFeedBack[c])) + 0
        /\ Cardinality(Starts(instanceFeedBack'[c])) = Cardinality(Starts(instanceFeedBack[c]))
    BY <1>1, <1>3, CountTypes
  <2>2. 0 + Held(c)' + Found(c) <= Held(c) + Found(c)'
    BY <1>3 DEF Held, Found
  <2> QED BY <1>1, <1>2, <1>3, <2>1, <2>2, OtherBalance DEF PaidInv
<1>4. CASE MonitorClient
  <2>1. Rounds' /\ UNCHANGED instanceFeedBack
    BY <1>1, <1>4 DEF MonitorClient, Rounds, Handling
  <2>2. \A c \in Containers : Held(c)' + Found(c) <= Held(c) + Found(c)'
    BY <1>4 DEF MonitorClient, Held, Found
  <2> QED BY <1>2, <1>3, <2>1, <2>2 DEF PaidInv
\* the listing of the host pays for what is on its way into aliveContainerSet
<1>5. CASE MonitorInitList
  <2>1. PICK listed \in { Existing, {} } :
          /\ oldAlive' = listed
          /\ host' = listed
    BY <1>5 DEF MonitorInitList
  <2>2. /\ monPc = "initList" /\ monPc' = "initAdd"
        /\ UNCHANGED <<instanceFeedBack, aliveContainerSet, monId>>
    BY <1>5 DEF MonitorInitList
  <2>3. ASSUME NEW c \in Containers PROVE Held(c)' + Found(c) <= Held(c) + Found(c)'
    <3>1. Found(c) = 0
      BY <1>1, <2>2 DEF Rounds, Found
    <3>2. c \in oldAlive' => Found(c)' = 1
      BY <2>1 DEF Existing, Known, Found
    <3>3. Found(c)' \in {0, 1}
      BY DEF Found
    <3> QED BY <2>2, <3>1, <3>2, <3>3 DEF Held
  <2>4. Rounds'
    BY <2>2 DEF Rounds, Handling
  <2> QED BY <1>2, <1>3, <2>2, <2>3, <2>4 DEF PaidInv
<1>6. CASE MonitorInitAdd
  <2>1. /\ monPc = "initAdd" /\ monPc' = "list" /\ oldAlive' = {}
        /\ aliveContainerSet' = aliveContainerSet \cup oldAlive
        /\ UNCHANGED <<instanceFeedBack, host>>
    BY <1>6 DEF MonitorInitAdd, AddAlive
  <2>2. \A c \in Containers : Held(c)' + Found(c) <= Held(c) + Found(c)'
    BY <2>1 DEF Held, Found
  <2>3. Rounds'
    BY <2>1 DEF Rounds, Handling
  <2> QED BY <1>2, <1>3, <2>1, <2>2, <2>3 DEF PaidInv
<1>7. CASE MonitorList
  <2>1. /\ monPc = "list" /\ monPc' = "old"
        /\ UNCHANGED <<instanceFeedBack, host, aliveContainerSet>>
    BY <1>7 DEF MonitorList
  <2>2. \A c \in Containers : Held(c)' + Found(c) <= Held(c) + Found(c)'
    BY <2>1 DEF Held, Found
  <2>3. Rounds'
    BY <2>1 DEF Rounds, Handling
  <2> QED BY <1>2, <1>3, <2>1, <2>2, <2>3 DEF PaidInv
<1>8. CASE MonitorOld
  <2>1. /\ monPc = "old" /\ monPc' \in {"list", "scan"} /\ oldAlive' = aliveContainerSet \ aliveApi
        /\ UNCHANGED <<instanceFeedBack, host, aliveContainerSet>>
    BY <1>8 DEF MonitorOld
  <2>2. \A c \in Containers : Held(c)' + Found(c) <= Held(c) + Found(c)'
    BY <2>1 DEF Held, Found
  <2>3. Rounds'
    BY <2>1 DEF Rounds, Handling
  <2> QED BY <1>2, <1>3, <2>1, <2>2, <2>3 DEF PaidInv
\* the id is taken out of aliveContainerSet for its report
<1>9. CASE MonitorTake
  <2>1. PICK d \in oldAlive : /\ monId' = d /\ oldAlive' = oldAlive \ {d}
                              /\ aliveContainerSet' = aliveContainerSet \ {d}
    BY <1>9 DEF MonitorTake
  <2>2. monPc = "scan" /\ monPc' = "wait" /\ UNCHANGED <<instanceFeedBack, host>>
    BY <1>9 DEF MonitorTake
  <2>3. oldAlive \subseteq aliveContainerSet
    BY <1>1, <2>2 DEF Rounds
  <2>4. \A c \in Containers : Held(c)' + Found(c) <= Held(c) + Found(c)'
    BY <2>1, <2>2, <2>3 DEF Held, Found
  <2>5. Rounds'
    BY <2>1, <2>2, <2>3 DEF Rounds
  <2> QED BY <1>2, <1>3, <2>2, <2>4, <2>5 DEF PaidInv
<1>10. CASE MonitorWait \/ MonitorHas
  <2>1. /\ monPc \in {"wait", "has"} /\ monPc' \in {"has", "reportNormal", "reportUnexcepted"}
        /\ UNCHANGED <<instanceFeedBack, host, aliveContainerSet, oldAlive, monId>>
    BY <1>10 DEF MonitorWait, MonitorHas
  <2>2. \A c \in Containers : Held(c)' + Found(c) <= Held(c) + Found(c)'
    BY <2>1 DEF Held, Found
  <2>3. Rounds'
    BY <1>1, <2>1 DEF Rounds, Handling
  <2> QED BY <1>2, <1>3, <2>1, <2>2, <2>3 DEF PaidInv
<1>11. CASE MonitorReport
  <2>1. /\ monPc \in {"reportNormal", "reportUnexcepted"} /\ monPc' \in {"forget", "list", "scan"}
        /\ UNCHANGED <<host, aliveContainerSet, oldAlive, monId>>
    BY <1>11 DEF MonitorReport, NextId
  <2>2. PICK phase \in {"stopNormal", "stopUnexcepted"} : SendInstance(monId, phase)
    BY <1>11 DEF MonitorReport
  <2>3. phase \in InstancePhases /\ IsStop(phase) /\ ~ IsStart(phase)
    BY DEF InstancePhases, IsStop, IsStart
  <2>4. ASSUME NEW c \in Containers PROVE Balance(c)'
    <3> DEFINE told == IF c = monId THEN 1 ELSE 0
    <3>1. /\ Cardinality(Stops(instanceFeedBack'[c]))
               = Cardinality(Stops(instanceFeedBack[c])) + told
          /\ Cardinality(Starts(instanceFeedBack'[c]))
               = Cardinality(Starts(instanceFeedBack[c]))
      BY <1>1, <2>2, <2>3, SendCounts
    <3>2. told + Held(c)' + Found(c) <= Held(c) + Found(c)'
      BY <2>1 DEF Held, Found
    <3>3. told \in Nat
      OBVIOUS
    <3> HIDE DEF told
    <3> QED BY <1>1, <1>2, <3>1, <3>2, <3>3, OtherBalance DEF PaidInv
  <2>5. Rounds'
    BY <1>1, <2>1 DEF Rounds, Handling
  <2> QED BY <1>2, <2>4, <2>5 DEF PaidInv
<1>12. CASE MonitorForget
  <2>1. /\ monPc = "forget" /\ monPc' \in {"list", "scan"}
        /\ UNCHANGED <<instanceFeedBack, host, aliveContainerSet, oldAlive, monId>>
    BY <1>12 DEF MonitorForget, NextId
  <2>2. \A c \in Containers : Held(c)' + Found(c) <= Held(c) + Found(c)'
    BY <2>1 DEF Held, Found
  <2>3. Rounds'
    BY <1>1, <2>1 DEF Rounds, Handling
  <2> QED BY <1>2, <1>3, <2>1, <2>2, <2>3 DEF PaidInv
<1> QED
  BY <1>4, <1>5, <1>6, <1>7, <1>8, <1>9, <1>10, <1>11, <1>12 DEF Monitor

\* Health checks and containers that exit tell the server of no stop.
LEMMA EnvironmentPaid ==
  ASSUME PaidInv, Typed', NEW d \in Containers, Check(d) \/ Die(d)
  PROVE  PaidInv'
<1>1. /\ UNCHANGED <<pc, kind, target, aliveContainerSet, monPc, monId, oldAlive, host>>
      /\ UNCHANGED instanceFeedBack \/ SendInstance(d, "down")
  BY DEF Check, Die, CheckSeesStopped, CheckFails, ReportDown, dockerVars, taskVars, setVars,
         monitorVars, outVars, historyVars
<1>2. KindFits' /\ Rounds'
  BY <1>1 DEF PaidInv, KindFits, Rounds, Handling
<1>3. "down" \in InstancePhases /\ ~ IsStop("down") /\ ~ IsStart("down")
  BY DEF InstancePhases, IsStop, IsStart
<1>4. ASSUME NEW c \in Containers PROVE Balance(c)'
  <2>1. Typed /\ Balance(c)
    BY DEF PaidInv
  <2>2. /\ Cardinality(Stops(instanceFeedBack'[c])) = Cardinality(Stops(instanceFeedBack[c])) + 0
        /\ Cardinality(Starts(instanceFeedBack'[c])) = Cardinality(Starts(instanceFeedBack[c]))
    <3>1. CASE UNCHANGED instanceFeedBack
      BY <2>1, <3>1, CountTypes
    <3>2. CASE SendInstance(d, "down")
      BY <1>3, <2>1, <3>2, SendCounts
    <3> QED BY <1>1, <3>1, <3>2
  <2>3. 0 + Held(c)' + Found(c) <= Held(c) + Found(c)'
    BY <1>1 DEF Held, Found
  <2> QED BY <1>1, <2>1, <2>2, <2>3, OtherBalance
<1> QED BY <1>2, <1>4 DEF PaidInv

LEMMA NextPaid == PaidInv /\ [Next]_vars => PaidInv'
<1> SUFFICES ASSUME PaidInv, [Next]_vars PROVE PaidInv'
  OBVIOUS
<1>1. Typed'
  BY NextTyped DEF PaidInv
<1>2. ASSUME NEW t \in Tasks, TaskStep(t) PROVE PaidInv'
  BY <1>1, <1>2, PlainTaskStep, PlainInv, ReportStartPaid, RestartReportPaid, MonitoredPaid
<1>3. CASE UNCHANGED vars
  BY <1>1, <1>3
  DEF vars, dockerVars, taskVars, setVars, monitorVars, outVars, historyVars, PaidInv, KindFits,
      Rounds, Handling, Balance, Held, Found, Reserved, Restarts
<1> QED BY <1>1, <1>2, <1>3, MonitorPaid, EnvironmentPaid DEF Next

\* The server hears of no more stops of a container than it has reasons to
\* think that it runs, in whatever order tasks and monitor take their turns.
THEOREM StopsArePaid == Spec => []StopsPaidByStarts
<1>1. Init => PaidInv
  <2> SUFFICES ASSUME Init PROVE PaidInv
    OBVIOUS
  <2>1. Typed /\ KindFits /\ Rounds
    BY InitTyped DEF Init, KindFits, Rounds, RestartLabels, Handling
  <2>2. ASSUME NEW c \in Containers PROVE Balance(c)
    <3>1. Held(c) = 0
      BY DEF Init, Held
    <3>2. Reserved(c) = {} /\ Restarts(c) = {} /\ instanceFeedBack[c] = << >>
      BY DEF Init, Reserved, Restarts, RestartLabels
    <3>3. Stops(<< >>) = {} /\ Starts(<< >>) = {}
      BY DEF Stops, Starts
    <3>4. Found(c) \in Nat
      BY DEF Found
    <3>5. /\ Cardinality(Stops(instanceFeedBack[c])) = 0
          /\ Cardinality(Starts(instanceFeedBack[c])) = 0
          /\ Cardinality(Reserved(c)) = 0 /\ Cardinality(Restarts(c)) = 0
      BY <3>2, <3>3, FS_EmptySet
    <3> QED BY <3>1, <3>4, <3>5 DEF Balance
  <2> QED BY <2>1, <2>2 DEF PaidInv
<1>2. PaidInv => StopsPaidByStarts
  <2> SUFFICES ASSUME PaidInv, NEW c \in Containers
               PROVE  Cardinality(Stops(instanceFeedBack[c]))
                        <= Cardinality(Starts(instanceFeedBack[c]))
                           + Cardinality(Restarts(c)) + Found(c)
    BY DEF StopsPaidByStarts, Count, Stops, Starts, Restarts, Found
  <2>1. Typed /\ Balance(c)
    BY DEF PaidInv
  <2> QED BY <2>1, CountTypes DEF Balance
<1> QED BY <1>1, <1>2, NextPaid, PTL DEF Spec
=============================================================================
