----------------------- MODULE TaskGoroutines_proofs ------------------------
(***************************************************************************)
(* Theorems about the goroutines that tasks leave behind: the health       *)
(* checks of a service (HealthCheck), for any tasks with any CheckTypes,   *)
(* any CheckTimes and any number of failed requests, and the log reports   *)
(* (ContainerLogs), for any tasks, sessions and number of lines.           *)
(***************************************************************************)
EXTENDS HealthCheck, ContainerLogs, SequenceTheorems, TLAPS

-----------------------------------------------------------------------------
(* HealthCheck: the checkers of a service report and end for a reason.     *)

CheckLabels == {"begin", "gone", "running", "probe", "judge", "down", "end"}
Labels == TaskLabels \cup CheckLabels

\* s is what is kept of the outcomes: it ends with n failures, if it has as many.
EndsWithFailures(s, n) ==
  /\ Len(s) <= CheckTimes /\ (n <= Len(s) \/ Len(s) = CheckTimes)
  /\ \A i \in 1 .. Len(s) : i > Len(s) - n => ~ s[i]

Types ==
  /\ running \in BOOLEAN /\ service \in {"ok", "bad", "hangs"}
  /\ alive \in BOOLEAN /\ listedStopped \in BOOLEAN
  /\ checkType \in [Checkers -> CheckTypes]
  /\ checkerPc \in [Checkers -> Labels] /\ failTimes \in [Checkers -> Nat]
  /\ downs \subseteq Checkers /\ failed \subseteq Checkers
  /\ last \in Checkers \cup { NoChecker }
  /\ outcomes \in [Checkers -> Seq(BOOLEAN)] /\ stopSeen \in [Checkers -> BOOLEAN]

\* A checker that has not judged its last probe has failed less than CheckTimes,
\* one that has and sends "down" at least as often; the outcomes it keeps say so.
Counted(k) ==
  /\ k \in downs => checkerPc[k] = "end"
  /\ k \in downs \/ checkerPc[k] = "down" => failTimes[k] >= CheckTimes
  /\ checkerPc[k] \in TaskLabels \cup {"begin", "running", "probe"} =>
       failTimes[k] = 0 \/ failTimes[k] < CheckTimes
  /\ failTimes[k] <= (IF CheckTimes = 0 THEN 1 ELSE CheckTimes)
  /\ EndsWithFailures(outcomes[k], failTimes[k])

\* A container that does not run was seen so by all that were started.
Explained(k) ==
  /\ ~ running /\ checkerPc[k] \notin TaskLabels => stopSeen[k]
  /\ checkerPc[k] = "end" /\ k \notin downs => stopSeen[k] \/ k \in failed

HealthInv == Types /\ \A k \in Checkers : Counted(k) /\ Explained(k)

-----------------------------------------------------------------------------
LEMMA HealthInit == CheckerInit => HealthInv
<1> USE CheckTimesAssumption
<1>1. << >> \in Seq(BOOLEAN) /\ Len(<< >>) = 0
  BY EmptySeq
<1> SUFFICES ASSUME CheckerInit PROVE HealthInv
  OBVIOUS
<1>2. Types
  <2> DEFINE empty == << >>
  <2>1. empty \in Seq(BOOLEAN) /\ outcomes = [k \in Checkers |-> empty]
    BY <1>1 DEF CheckerInit
  <2> HIDE DEF empty
  <2>2. outcomes \in [Checkers -> Seq(BOOLEAN)]
    BY <2>1
  <2>3. /\ running \in BOOLEAN /\ service \in {"ok", "bad", "hangs"}
        /\ alive \in BOOLEAN /\ listedStopped \in BOOLEAN
        /\ checkType \in [Checkers -> CheckTypes] /\ checkerPc \in [Checkers -> Labels]
        /\ downs \subseteq Checkers /\ failed \subseteq Checkers
        /\ last \in Checkers \cup { NoChecker } /\ stopSeen \in [Checkers -> BOOLEAN]
    BY DEF CheckerInit, Labels, TaskLabels
  <2>4. failTimes \in [Checkers -> Nat]
    BY DEF CheckerInit
  <2> QED BY <2>2, <2>3, <2>4 DEF Types
<1>3. ASSUME NEW k \in Checkers PROVE Counted(k) /\ Explained(k)
  <2>1. outcomes[k] = << >> /\ failTimes[k] = 0 /\ checkerPc[k] = "off" /\ k \notin downs
    BY DEF CheckerInit
  <2>2. EndsWithFailures(outcomes[k], failTimes[k])
    BY <1>1, <2>1 DEF EndsWithFailures
  <2> QED BY <2>1, <2>2 DEF Counted, Explained, TaskLabels
<1> QED BY <1>2, <1>3 DEF HealthInv

\* The outcome of one more probe, of which the oldest may be forgotten.
LEMMA OneMoreOutcome ==
  ASSUME NEW k \in Checkers, NEW success \in BOOLEAN,
         outcomes[k] \in Seq(BOOLEAN), failTimes[k] \in Nat,
         EndsWithFailures(outcomes[k], failTimes[k])
  PROVE  /\ LastOutcomes(k, success) \in Seq(BOOLEAN)
         /\ EndsWithFailures(LastOutcomes(k, success), FailTimes(k, success))
<1> DEFINE old == outcomes[k]
           all == Append(old, success)
           n == FailTimes(k, success)
<1>1. old \in Seq(BOOLEAN) /\ Len(old) \in Nat /\ Len(old) <= CheckTimes
  BY LenProperties DEF EndsWithFailures
<1>2. /\ all \in Seq(BOOLEAN) /\ Len(all) = Len(old) + 1
      /\ \A i \in 1 .. Len(old) : all[i] = old[i]
      /\ all[Len(old) + 1] = success
  BY <1>1, AppendProperties
<1>3. n = (IF success THEN 0 ELSE failTimes[k] + 1) /\ n \in Nat
  BY DEF FailTimes
<1>4. \A i \in 1 .. Len(all) : i > Len(all) - n => ~ all[i]
  <2> SUFFICES ASSUME NEW i \in 1 .. Len(all), i > Len(all) - n PROVE ~ all[i]
    OBVIOUS
  <2>1. ~ success /\ n = failTimes[k] + 1
    BY <1>1, <1>2, <1>3
  <2>2. CASE i = Len(old) + 1
    BY <1>2, <2>1, <2>2
  <2>3. CASE i # Len(old) + 1
    <3>1. i \in 1 .. Len(old) /\ i > Len(old) - failTimes[k]
      BY <1>1, <1>2, <2>1, <2>3
    <3>2. ~ old[i]
      BY <3>1 DEF EndsWithFailures
    <3> QED BY <1>2, <3>1, <3>2
  <2> QED BY <2>2, <2>3
<1>5. n <= Len(all) \/ Len(old) = CheckTimes
  BY <1>1, <1>2, <1>3 DEF EndsWithFailures
<1> HIDE DEF all, n
<1>6. CASE Len(all) <= CheckTimes
  <2>1. LastOutcomes(k, success) = all
    BY <1>6 DEF LastOutcomes, all
  <2>2. EndsWithFailures(all, n)
    BY <1>1, <1>2, <1>4, <1>5, <1>6, CheckTimesAssumption DEF EndsWithFailures
  <2> QED BY <1>2, <2>1, <2>2 DEF n
<1>7. CASE Len(all) > CheckTimes
  <2> DEFINE r == LastOutcomes(k, success)
  <2>1. Len(old) = CheckTimes /\ Len(all) = CheckTimes + 1
    BY <1>1, <1>2, <1>7, CheckTimesAssumption
  <2>2. r = SubSeq(all, 2, CheckTimes + 1)
    <3>1. ~ Len(all) <= CheckTimes /\ Len(all) - CheckTimes + 1 = 2
      BY <2>1, CheckTimesAssumption
    <3> QED BY <2>1, <3>1 DEF LastOutcomes, all
  <2>3. /\ r \in Seq(BOOLEAN) /\ Len(r) = CheckTimes
        /\ \A i \in 1 .. CheckTimes : r[i] = all[i + 1]
    <3>1. \A i \in 2 .. CheckTimes + 1 : all[i] \in BOOLEAN
      <4>1. \A i \in 2 .. CheckTimes + 1 : i \in 1 .. Len(all)
        BY <2>1, CheckTimesAssumption
      <4> QED BY <1>2, <4>1, ElementOfSeq
    <3>2. 2 \in Int /\ CheckTimes + 1 \in Int
      BY CheckTimesAssumption
    <3>3. /\ SubSeq(all, 2, CheckTimes + 1) \in Seq(BOOLEAN)
          /\ Len(SubSeq(all, 2, CheckTimes + 1)) =
               IF 2 <= CheckTimes + 1 THEN (CheckTimes + 1) - 2 + 1 ELSE 0
          /\ \A i \in 1 .. (CheckTimes + 1) - 2 + 1 :
               SubSeq(all, 2, CheckTimes + 1)[i] = all[2 + i - 1]
      BY <3>1, <3>2, SubSeqProperties
    <3> QED BY <2>2, <3>3, CheckTimesAssumption
  <2> HIDE DEF r
  <2>4. EndsWithFailures(r, n)
    <3>1. ASSUME NEW i \in 1 .. CheckTimes, i > CheckTimes - n PROVE ~ r[i]
      <4>1. i + 1 \in 1 .. Len(all) /\ i + 1 > Len(all) - n
        BY <1>3, <2>1, <3>1, CheckTimesAssumption
      <4> QED BY <1>4, <2>3, <4>1
    <3> QED BY <2>3, <3>1, CheckTimesAssumption DEF EndsWithFailures
  <2> QED BY <2>3, <2>4 DEF r, n
<1> QED BY <1>1, <1>2, <1>6, <1>7, CheckTimesAssumption
\* A step that moves one task or checker to a label and leaves its counts alone.
LEMMA MoveInv ==
  ASSUME HealthInv, NEW k \in Checkers, checkerPc[k] # "end",
         NEW label \in Labels, CheckerGoto(k, label),
         UNCHANGED <<service, checkType, failTimes, outcomes>>,
         running' \in BOOLEAN, alive' \in BOOLEAN, listedStopped' \in BOOLEAN,
         failed' \in {failed, failed \cup {k}}, last' \in {last, k},
         stopSeen' \in [Checkers -> BOOLEAN],
         \A j \in Checkers : j # k /\ stopSeen[j] => stopSeen'[j],
         \A j \in Checkers :
           j # k /\ ~ running' /\ checkerPc[j] \notin TaskLabels => stopSeen'[j],
         ~ running' /\ label \notin TaskLabels => stopSeen'[k],
         downs' \in {downs, downs \cup {k}}, k \in downs' => label = "end",
         k \in downs' \/ label = "down" => failTimes[k] >= CheckTimes,
         label \in TaskLabels \cup {"begin", "running", "probe"} =>
           failTimes[k] = 0 \/ failTimes[k] < CheckTimes,
         label = "end" /\ k \notin downs' => stopSeen'[k] \/ k \in failed'
  PROVE  HealthInv'
<1>1. Types'
  BY DEF HealthInv, Types, CheckerGoto
<1>2. ASSUME NEW j \in Checkers PROVE Counted(j)' /\ Explained(j)'
  <2>1. Counted(j) /\ Explained(j)
    BY <1>2 DEF HealthInv
  <2>2. /\ checkerPc'[k] = label
        /\ j # k => /\ checkerPc'[j] = checkerPc[j]
                    /\ j \in downs' <=> j \in downs
                    /\ j \in failed => j \in failed'
    BY DEF HealthInv, Types, CheckerGoto
  <2>3. EndsWithFailures(outcomes[j], failTimes[j])'
    BY <2>1 DEF Counted, EndsWithFailures
  <2>4. Counted(j)'
    <3>1. CASE j = k
      BY <2>1, <2>2, <2>3, <3>1 DEF Counted
    <3>2. CASE j # k
      BY <2>1, <2>2, <2>3, <3>2 DEF Counted
    <3> QED BY <3>1, <3>2
  <2>5. Explained(j)'
    <3>1. CASE j = k
      BY <2>1, <2>2, <3>1 DEF Explained
    <3>2. CASE j # k
      BY <2>1, <2>2, <3>2 DEF Explained
    <3> QED BY <3>1, <3>2
  <2> QED BY <2>4, <2>5
<1> QED BY <1>1, <1>2 DEF HealthInv

\* A step that moves one of them and changes, besides, whose request failed or
\* who reported.
LEMMA QuietMoveInv ==
  ASSUME HealthInv, NEW k \in Checkers, checkerPc[k] # "end",
         NEW label \in Labels, CheckerGoto(k, label),
         checkerPc[k] \in TaskLabels => label \in TaskLabels,
         UNCHANGED <<dockerVars, monitorVars, checkType, failTimes, outcomes, last,
                     stopSeen>>,
         failed' \in {failed, failed \cup {k}},
         downs' \in {downs, downs \cup {k}}, k \in downs' => label = "end",
         k \in downs' \/ label = "down" => failTimes[k] >= CheckTimes,
         label \in TaskLabels \cup {"begin", "running", "probe"} =>
           failTimes[k] = 0 \/ failTimes[k] < CheckTimes,
         label = "end" /\ k \notin downs' => stopSeen[k] \/ k \in failed'
  PROVE  HealthInv'
<1>1. /\ running' \in BOOLEAN /\ alive' \in BOOLEAN /\ listedStopped' \in BOOLEAN
      /\ stopSeen' \in [Checkers -> BOOLEAN]
      /\ UNCHANGED <<service, running, stopSeen>>
  BY DEF HealthInv, Types, dockerVars, monitorVars
<1>2. \A j \in Checkers : ~ running /\ checkerPc[j] \notin TaskLabels => stopSeen[j]
  BY DEF HealthInv, Explained
<1> QED BY <1>1, <1>2, MoveInv

\* One more probe of a checker.
LEMMA ProbeInv ==
  ASSUME HealthInv, NEW k \in Checkers, Probe(k)
  PROVE  HealthInv'
<1> USE CheckTimesAssumption
<1>1. PICK success \in BOOLEAN :
        /\ failTimes' = [failTimes EXCEPT ![k] = FailTimes(k, success)]
        /\ outcomes' = [outcomes EXCEPT ![k] = LastOutcomes(k, success)]
  BY DEF Probe
<1>2. /\ LastOutcomes(k, success) \in Seq(BOOLEAN)
      /\ EndsWithFailures(LastOutcomes(k, success), FailTimes(k, success))
  BY OneMoreOutcome DEF HealthInv, Types, Counted
<1>3. failTimes[k] \in Nat /\ (failTimes[k] = 0 \/ failTimes[k] < CheckTimes)
  BY DEF HealthInv, Types, Counted, Probe
<1>4. FailTimes(k, success) \in Nat
      /\ FailTimes(k, success) <= (IF CheckTimes = 0 THEN 1 ELSE CheckTimes)
  BY <1>3 DEF FailTimes
<1>5. /\ failTimes' \in [Checkers -> Nat] /\ failTimes'[k] = FailTimes(k, success)
      /\ outcomes' \in [Checkers -> Seq(BOOLEAN)] /\ outcomes'[k] = LastOutcomes(k, success)
      /\ \A j \in Checkers : j # k => failTimes'[j] = failTimes[j] /\ outcomes'[j] = outcomes[j]
  BY <1>1, <1>2, <1>4 DEF HealthInv, Types
<1>6. /\ checkerPc' \in [Checkers -> Labels] /\ checkerPc'[k] = "judge"
      /\ \A j \in Checkers : j # k => checkerPc'[j] = checkerPc[j]
  BY DEF HealthInv, Types, Probe, CheckerGoto, Labels, CheckLabels
<1>7. checkerPc[k] = "probe" /\ UNCHANGED <<running, service, alive, listedStopped, checkType,
                                           failed, last, downs, stopSeen>>
  BY DEF Probe, dockerVars, monitorVars
<1>8. Types'
  BY <1>5, <1>6, <1>7 DEF HealthInv, Types
<1>9. ASSUME NEW j \in Checkers PROVE Counted(j)' /\ Explained(j)'
  <2>1. Counted(j) /\ Explained(j)
    BY <1>9 DEF HealthInv
  <2>2. CASE j = k
    BY <1>2, <1>4, <1>5, <1>6, <1>7, <2>1, <2>2
    DEF Counted, Explained, EndsWithFailures, TaskLabels
  <2>3. CASE j # k
    BY <1>5, <1>6, <1>7, <2>1, <2>3 DEF Counted, Explained, EndsWithFailures
  <2> QED BY <2>2, <2>3
<1> QED BY <1>8, <1>9 DEF HealthInv

\* What the container, its service and MonitorContainer do.
LEMMA ContainerInv ==
  ASSUME HealthInv, Stop \/ ServiceChanges \/ MonitorList \/ MonitorTake
  PROVE  HealthInv'
<1>1. CASE Stop
  <2>1. /\ running' = FALSE
        /\ stopSeen' = [k \in Checkers |-> stopSeen[k] \/ checkerPc[k] \notin TaskLabels]
        /\ UNCHANGED <<service, alive, listedStopped, checkerPc, checkType, failTimes,
                       downs, outcomes, failed, last>>
    BY <1>1 DEF Stop, Stops, monitorVars, checkVars
  <2>2. Types'
    BY <2>1 DEF HealthInv, Types
  <2>3. ASSUME NEW j \in Checkers PROVE Counted(j)' /\ Explained(j)'
    <3>1. Counted(j) /\ Explained(j)
      BY <2>3 DEF HealthInv
    <3>2. stopSeen'[j] = (stopSeen[j] \/ checkerPc[j] \notin TaskLabels)
      BY <2>1
    <3> QED BY <2>1, <3>1, <3>2 DEF Counted, Explained, EndsWithFailures
  <2> QED BY <2>2, <2>3 DEF HealthInv
<1>2. CASE ServiceChanges \/ MonitorList \/ MonitorTake
  BY <1>2
  DEF HealthInv, Types, Counted, Explained, EndsWithFailures, ServiceChanges, MonitorList,
      MonitorTake, dockerVars, monitorVars, checkVars
<1> QED BY <1>1, <1>2

\* What the tasks do up to the start of a checker.
LEMMA StartInv ==
  ASSUME HealthInv, NEW k \in Checkers,
         Start(k) \/ RestartStops(k) \/ StartTask(k)
  PROVE  HealthInv'
<1>t. /\ Types /\ Counted(k)
      /\ \A j \in Checkers : ~ running /\ checkerPc[j] \notin TaskLabels => stopSeen[j]
  BY DEF HealthInv, Explained
<1>a. checkerPc[k] \in TaskLabels /\ checkerPc[k] # "end" /\ k \notin downs
  BY <1>t
  DEF Counted, Start, RestartStops, StartTask, Arrives, StartMonitored, RestartStarts,
      RestartInspect, RestartHas, RestartMonitored, TaskLabels
<1>b. failTimes[k] = 0 \/ failTimes[k] < CheckTimes
  BY <1>t, <1>a DEF Counted
<1>l. "end" \notin TaskLabels /\ "down" \notin TaskLabels /\ TaskLabels \subseteq Labels
  BY DEF TaskLabels, Labels
<1>1. CASE Start(k)
  <2>1. PICK label \in {"started", "returned"} : CheckerGoto(k, label)
    BY <1>1 DEF Start
  <2>2. label \in TaskLabels
    BY DEF TaskLabels
  <2>3. /\ running' = TRUE /\ UNCHANGED <<service, alive, listedStopped, checkType, failTimes, downs,
                                   outcomes, last, stopSeen>>
        /\ failed' \in {failed, failed \cup {k}}
    BY <1>1 DEF Start, monitorVars, checkVars
  <2> QED BY <1>t, <1>a, <1>b, <1>l, <2>1, <2>2, <2>3, MoveInv DEF Types
<1>2. CASE RestartStops(k)
  <2>1. UNCHANGED <<service, alive, listedStopped, checkType, failTimes, downs, outcomes,
                    failed, last>>
    BY <1>2 DEF RestartStops, monitorVars, checkVars
  <2>2. CASE Stops /\ CheckerGoto(k, "restarting")
    <3>1. /\ running' = FALSE /\ stopSeen' \in [Checkers -> BOOLEAN]
          /\ \A j \in Checkers :
               stopSeen'[j] = (stopSeen[j] \/ checkerPc[j] \notin TaskLabels)
      BY <1>t, <2>2 DEF Stops, Types
    <3>2. "restarting" \in TaskLabels
      BY DEF TaskLabels
    <3> QED BY <1>t, <1>a, <1>b, <1>l, <2>1, <2>2, <3>1, <3>2, MoveInv DEF Types
  <2>3. CASE CheckerGoto(k, "restarted") /\ UNCHANGED <<running, stopSeen>>
    <3>1. "restarted" \in TaskLabels
      BY DEF TaskLabels
    <3> QED BY <1>t, <1>a, <1>b, <1>l, <2>1, <2>3, <3>1, MoveInv DEF Types
  <2> QED BY <1>2, <2>2, <2>3 DEF RestartStops
<1>3. CASE StartMonitored(k) \/ RestartMonitored(k)
  <2>1. GoCheck(k)
    BY <1>3 DEF StartMonitored, RestartMonitored
  <2>2. /\ alive' = TRUE /\ CheckerGoto(k, "begin") /\ last' = k
        /\ stopSeen' \in [Checkers -> BOOLEAN] /\ stopSeen'[k] = ~ running
        /\ \A j \in Checkers : j # k => stopSeen'[j] = stopSeen[j]
        /\ UNCHANGED <<running, service, listedStopped, checkType, failTimes, downs, outcomes,
                       failed>>
    BY <1>t, <2>1 DEF GoCheck, Types, dockerVars, checkVars
  <2>3. "begin" \in Labels
    BY DEF Labels, CheckLabels
  <2> QED BY <1>t, <1>a, <1>b, <2>2, <2>3, MoveInv DEF Types
<1>4. CASE RestartStarts(k)
  <2>1. /\ running' \in {TRUE, running} /\ CheckerGoto(k, "restarted")
        /\ UNCHANGED <<service, alive, listedStopped, checkType, failTimes, downs, outcomes,
                       failed, last, stopSeen>>
    BY <1>4 DEF RestartStarts, monitorVars, checkVars
  <2>2. "restarted" \in TaskLabels
    BY DEF TaskLabels
  <2>3. /\ running' \in BOOLEAN
        /\ \A j \in Checkers : ~ running' /\ checkerPc[j] \notin TaskLabels => stopSeen'[j]
    <3>1. CASE running' = TRUE
      BY <3>1
    <3>2. CASE running' = running
      BY <1>t, <2>1, <3>2 DEF Types
    <3> QED BY <2>1, <3>1, <3>2
  <2> QED BY <1>t, <1>a, <1>b, <1>l, <2>1, <2>2, <2>3, MoveInv DEF Types
<1>5. CASE RestartInspect(k) \/ RestartHas(k)
  <2>1. PICK label \in TaskLabels : CheckerGoto(k, label)
    BY <1>5 DEF RestartInspect, RestartHas, TaskLabels
  <2>2. /\ UNCHANGED <<dockerVars, monitorVars, checkType, failTimes, downs, outcomes, last,
                       stopSeen>>
        /\ failed' \in {failed, failed \cup {k}}
    BY <1>5 DEF RestartInspect, RestartHas, checkVars
  <2> QED BY <1>a, <1>b, <1>l, <2>1, <2>2, QuietMoveInv
<1> QED BY <1>1, <1>2, <1>3, <1>4, <1>5 DEF StartTask

LEMMA HealthNext == HealthInv /\ [CheckerNext]_checkerVars => HealthInv'
<1> SUFFICES ASSUME HealthInv, [CheckerNext]_checkerVars PROVE HealthInv'
  OBVIOUS
<1> USE CheckTimesAssumption
<1>1. CASE UNCHANGED checkerVars
  BY <1>1
  DEF HealthInv, Types, Counted, Explained, EndsWithFailures, checkerVars, dockerVars,
      monitorVars, checkVars
<1>2. ASSUME NEW k \in Checkers, Return(k) \/ InspectFails(k) \/ Check(k)
      PROVE  HealthInv'
  <2>1. Counted(k) /\ Explained(k) /\ failTimes[k] \in Nat
    BY <1>2 DEF HealthInv, Types
  <2>2. checkerPc[k] \notin TaskLabels
    BY <1>2
    DEF Return, InspectFails, Check, Begin, IsRunning, Probe, Judge, ReportDown, TaskLabels
  <2>l. {"gone", "running", "probe", "down", "end"} \subseteq Labels \ TaskLabels
    BY DEF Labels, CheckLabels, TaskLabels
  <2>3. CASE Return(k)
    <3>1. checkerPc[k] = "begin" /\ CheckerGoto(k, "gone") /\ k \notin downs
          /\ UNCHANGED <<dockerVars, monitorVars, checkType, failTimes, downs, outcomes, last,
                         stopSeen>>
          /\ failed' \in {failed, failed \cup {k}}
      BY <2>1, <2>3 DEF Return, Counted, checkVars
    <3> QED BY <1>2, <2>2, <2>l, <3>1, QuietMoveInv
  <2>4. CASE Begin(k)
    <3>1. checkerPc[k] = "begin" /\ CheckerGoto(k, "running") /\ k \notin downs
          /\ (failTimes[k] = 0 \/ failTimes[k] < CheckTimes)
          /\ UNCHANGED <<dockerVars, monitorVars, checkType, failTimes, downs, outcomes, failed,
                         last, stopSeen>>
      BY <2>1, <2>4 DEF Begin, Counted, checkVars
    <3> QED BY <1>2, <2>2, <2>l, <3>1, QuietMoveInv
  <2>5. CASE IsRunning(k)
    <3>1. checkerPc[k] = "running" /\ k \notin downs
          /\ UNCHANGED <<dockerVars, monitorVars, checkType, failTimes, downs, outcomes, failed,
                         last, stopSeen>>
      BY <2>1, <2>5 DEF IsRunning, Counted, checkVars
    <3>2. CASE running
      <4>1. CheckerGoto(k, "probe") /\ (failTimes[k] = 0 \/ failTimes[k] < CheckTimes)
        BY <2>1, <2>5, <3>2 DEF IsRunning, Counted
      <4> QED BY <1>2, <2>2, <2>l, <3>1, <4>1, QuietMoveInv
    <3>3. CASE ~ running
      <4>1. CheckerGoto(k, "end") /\ stopSeen[k]
        BY <2>1, <2>2, <2>5, <3>3 DEF IsRunning, Explained
      <4> QED BY <1>2, <2>2, <2>l, <3>1, <4>1, QuietMoveInv
    <3> QED BY <3>2, <3>3
  <2>6. CASE InspectFails(k)
    <3>1. /\ checkerPc[k] = "running" /\ k \notin downs /\ CheckerGoto(k, "end")
          /\ failed' = failed \cup {k}
          /\ UNCHANGED <<dockerVars, monitorVars, checkType, failTimes, downs, outcomes, last,
                         stopSeen>>
      BY <2>1, <2>6 DEF InspectFails, Counted, checkVars
    <3> QED BY <1>2, <2>2, <2>l, <3>1, QuietMoveInv
  <2>7. CASE Probe(k)
    BY <1>2, <2>7, ProbeInv
  <2>8. CASE Judge(k)
    <3>1. checkerPc[k] = "judge" /\ k \notin downs
          /\ UNCHANGED <<dockerVars, monitorVars, checkType, failTimes, downs, outcomes, failed,
                         last, stopSeen>>
      BY <2>1, <2>8 DEF Judge, Counted, checkVars
    <3>2. CASE TooMany(k)
      <4>1. CheckerGoto(k, "down") /\ failTimes[k] >= CheckTimes
        BY <2>8, <3>2 DEF Judge, TooMany
      <4> QED BY <1>2, <2>2, <2>l, <3>1, <4>1, QuietMoveInv
    <3>3. CASE ~ TooMany(k)
      <4>1. CheckerGoto(k, "running") /\ failTimes[k] < CheckTimes
        BY <2>1, <2>8, <3>3 DEF Judge, TooMany
      <4> QED BY <1>2, <2>2, <2>l, <3>1, <4>1, QuietMoveInv
    <3> QED BY <3>2, <3>3
  <2>9. CASE ReportDown(k)
    <3>1. /\ checkerPc[k] = "down" /\ downs' = downs \cup {k} /\ CheckerGoto(k, "end")
          /\ failTimes[k] >= CheckTimes
          /\ UNCHANGED <<dockerVars, monitorVars, checkType, failTimes, outcomes, failed, last,
                         stopSeen>>
      BY <2>1, <2>9 DEF ReportDown, Counted
    <3> QED BY <1>2, <2>2, <2>l, <3>1, QuietMoveInv
  <2> QED BY <1>2, <2>3, <2>4, <2>5, <2>6, <2>7, <2>8, <2>9 DEF Check
<1> QED BY <1>1, <1>2, ContainerInv, StartInv DEF CheckerNext

-----------------------------------------------------------------------------
(* A checker reports "down" only when the last CheckTimes probes have all  *)
(* failed, whatever other checkers, restarts and the service do            *)
(* (task.go:212-300).                                                      *)
THEOREM DownFollowsFailures == CheckerSpec => []DownAfterFailures
<1>1. HealthInv => DownAfterFailures
  <2> SUFFICES ASSUME HealthInv, NEW k \in downs
               PROVE  Len(outcomes[k]) = CheckTimes /\ \A i \in 1 .. CheckTimes : ~ outcomes[k][i]
    BY DEF DownAfterFailures
  <2>1. /\ k \in Checkers /\ failTimes[k] \in Nat /\ outcomes[k] \in Seq(BOOLEAN)
        /\ failTimes[k] >= CheckTimes /\ EndsWithFailures(outcomes[k], failTimes[k])
    BY DEF HealthInv, Types, Counted
  <2>2. Len(outcomes[k]) = CheckTimes
    BY <2>1, CheckTimesAssumption, LenProperties DEF EndsWithFailures
  <2> QED BY <2>1, <2>2, CheckTimesAssumption DEF EndsWithFailures
<1> QED BY <1>1, HealthInit, HealthNext, PTL DEF CheckerSpec

(* A checker that ends without a report has been stopped with its          *)
(* container, or its own inspection failed (task.go:222-226, 265-269).     *)
THEOREM QuietEndsAreExplained == CheckerSpec => []QuietEndIsExplained
<1>1. HealthInv => QuietEndIsExplained
  BY DEF HealthInv, Explained, QuietEndIsExplained
<1> QED BY <1>1, HealthInit, HealthNext, PTL DEF CheckerSpec

(* The state of the checkers keeps its types; a checker counts no more     *)
(* failures than it needs to report (task.go:246-262).                     *)
THEOREM HealthTyped == CheckerSpec => []CheckerTypeOK
<1>1. HealthInv => CheckerTypeOK
  <2> SUFFICES ASSUME HealthInv PROVE CheckerTypeOK
    OBVIOUS
  <2>1. failTimes \in [Checkers -> 0 .. (IF CheckTimes = 0 THEN 1 ELSE CheckTimes)]
    BY CheckTimesAssumption DEF HealthInv, Types, Counted
  <2> QED BY <2>1 DEF HealthInv, Types, CheckerTypeOK, Labels, CheckLabels
<1> QED BY <1>1, HealthInit, HealthNext, PTL DEF CheckerSpec

-----------------------------------------------------------------------------
(* ContainerLogs: a report falls silent with its session and never leaves  *)
(* it behind.                                                              *)

PcLabels == {"has", "add", "loop", "read", "send", "remove", "finish", "failed",
             "finished", "refused"}

\* Who looked for its session and found it, or has it, sent no line too late.
LogsInv ==
  /\ pc \in [Tasks -> PcLabels] /\ session \in [Tasks -> Sessions]
  /\ late \in [Starters -> Nat]
  /\ \A t \in Starters : pc[t] \in {"read", "send"} \/ Active(t) => late[t] = 0
  /\ OneLateLine /\ SessionHasReporter

LEMMA LogsInit == Init => LogsInv
BY DEF Init, LogsInv, PcLabels, Tasks, Active, OneLateLine, SessionHasReporter

\* A step of one task that leaves the sessions alone: a reporter ends only when
\* its session is not in the set, and reads only when it is.
LEMMA GotoLogs ==
  ASSUME LogsInv, NEW t \in Tasks, NEW label \in PcLabels, Goto(t, label),
         UNCHANGED <<session, late, reportLogsSessionSet>>,
         Reporting(t) => label \in {"loop", "read", "send"} \/ ~ Active(t),
         label \in {"read", "send"} => pc[t] \in {"read", "send"} \/ Active(t)
  PROVE  LogsInv'
<1>1. /\ pc' \in [Tasks -> PcLabels] /\ pc'[t] = label
      /\ \A u \in Tasks : u # t => pc'[u] = pc[u]
  BY DEF LogsInv, Goto
<1>2. \A u \in Tasks : Active(u)' <=> Active(u)
  BY DEF Active
<1>3. Starters \subseteq Tasks
  BY DEF Tasks
<1>4. \A u \in Starters : pc'[u] \in {"read", "send"} \/ Active(u)' => late'[u] = 0
  <2> SUFFICES ASSUME NEW u \in Starters, pc'[u] \in {"read", "send"} \/ Active(u)'
               PROVE  late'[u] = 0
    OBVIOUS
  <2>1. pc[u] \in {"read", "send"} \/ Active(u)
    BY <1>1, <1>2, <1>3
  <2> QED BY <2>1 DEF LogsInv
<1>5. SessionHasReporter'
  <2> SUFFICES ASSUME NEW s \in reportLogsSessionSet'
               PROVE  \E u \in Starters : session'[u] = s /\ Reporting(u)'
    BY DEF SessionHasReporter
  <2>1. PICK u \in Starters : session[u] = s /\ Reporting(u)
    BY DEF LogsInv, SessionHasReporter
  <2>2. Active(u)
    BY <2>1 DEF Active
  <2>3. Reporting(u)'
    BY <1>1, <1>3, <2>1, <2>2 DEF Reporting
  <2> QED BY <2>1, <2>3
<1> QED BY <1>1, <1>4, <1>5 DEF LogsInv, OneLateLine

\* A session is taken out of the set; the task goes on, or is the follower's.
LEMMA RemoveLogs ==
  ASSUME LogsInv, NEW t \in Tasks, Remove(t), UNCHANGED <<session, late>>,
         NEW label \in {"loop", "finish"},
         \/ pc[t] = "read" /\ label = "loop" /\ Goto(t, label)
         \/ pc[t] = "remove" /\ Goto(t, label)
         \/ UNCHANGED pc
  PROVE  LogsInv'
<1>1. pc' \in [Tasks -> PcLabels]
  BY DEF LogsInv, Goto, PcLabels
<1>2. \A u \in Tasks : /\ Active(u)' => Active(u)
                       /\ pc'[u] \in {"read", "send"} => pc'[u] = pc[u]
                       /\ Reporting(u) => Reporting(u)'
  BY DEF LogsInv, Goto, Active, Remove, Reporting
<1>3. Starters \subseteq Tasks
  BY DEF Tasks
<1>4. \A u \in Starters : pc'[u] \in {"read", "send"} \/ Active(u)' => late'[u] = 0
  BY <1>2, <1>3 DEF LogsInv
<1>5. SessionHasReporter'
  <2> SUFFICES ASSUME NEW s \in reportLogsSessionSet'
               PROVE  \E u \in Starters : session'[u] = s /\ Reporting(u)'
    BY DEF SessionHasReporter
  <2>1. PICK u \in Starters : session[u] = s /\ Reporting(u)
    BY DEF LogsInv, SessionHasReporter, Remove
  <2> QED BY <1>2, <1>3, <2>1
<1> QED BY <1>1, <1>4, <1>5 DEF LogsInv, OneLateLine

LEMMA StartAddLogs ==
  ASSUME LogsInv, NEW t \in Starters, StartAdd(t)
  PROVE  LogsInv'
<1>1. /\ pc' \in [Tasks -> PcLabels] /\ pc'[t] = "loop"
      /\ \A u \in Tasks : u # t => pc'[u] = pc[u]
  BY DEF LogsInv, StartAdd, Goto, PcLabels, Tasks
<1>2. /\ reportLogsSessionSet' = reportLogsSessionSet \cup {session[t]}
      /\ late' = [u \in Starters |-> IF session[u] = session[t] THEN 0 ELSE late[u]]
      /\ session' = session
  BY DEF StartAdd
<1>3. Starters \subseteq Tasks
  BY DEF Tasks
<1>4. ASSUME NEW u \in Starters
      PROVE  /\ pc'[u] \in {"read", "send"} \/ Active(u)' => late'[u] = 0
             /\ late'[u] \in Nat /\ late'[u] <= 1
  <2>1. CASE session[u] = session[t]
    BY <1>2, <2>1
  <2>2. CASE session[u] # session[t]
    <3>1. u # t /\ pc'[u] = pc[u] /\ late'[u] = late[u] /\ (Active(u)' <=> Active(u))
      BY <1>1, <1>2, <1>3, <2>2 DEF Active
    <3> QED BY <3>1 DEF LogsInv, OneLateLine
  <2> QED BY <2>1, <2>2
<1>5. late' \in [Starters -> Nat]
  BY <1>2, <1>4
<1>6. SessionHasReporter'
  <2> SUFFICES ASSUME NEW s \in reportLogsSessionSet'
               PROVE  \E u \in Starters : session'[u] = s /\ Reporting(u)'
    BY DEF SessionHasReporter
  <2>1. CASE s = session[t]
    BY <1>1, <1>2, <2>1 DEF Reporting
  <2>2. CASE s # session[t]
    <3>1. PICK u \in Starters : session[u] = s /\ Reporting(u)
      BY <1>2, <2>2 DEF LogsInv, SessionHasReporter
    <3> QED BY <1>1, <1>2, <1>3, <2>2, <3>1 DEF Reporting
  <2> QED BY <2>1, <2>2
<1> QED BY <1>1, <1>2, <1>4, <1>5, <1>6 DEF LogsInv, OneLateLine

\* The line that was read before is sent.
LEMMA SendLogs ==
  ASSUME LogsInv, NEW t \in Starters, Send(t)
  PROVE  LogsInv'
<1>1. /\ pc' \in [Tasks -> PcLabels] /\ pc'[t] = "loop" /\ pc[t] = "send"
      /\ \A u \in Tasks : u # t => pc'[u] = pc[u]
  BY DEF LogsInv, Send, Goto, PcLabels, Tasks
<1>2. late[t] = 0 /\ UNCHANGED <<session, reportLogsSessionSet>>
  BY DEF LogsInv, Send
<1>3. Starters \subseteq Tasks /\ (\A u \in Starters : Active(u)' <=> Active(u))
  BY <1>2 DEF Tasks, Active
<1>4. /\ late' \in [Starters -> Nat] /\ late'[t] <= 1 /\ (Active(t) => late'[t] = 0)
      /\ \A u \in Starters : u # t => late'[u] = late[u]
  BY <1>2 DEF LogsInv, Send
<1>5. \A u \in Starters : pc'[u] \in {"read", "send"} \/ Active(u)' => late'[u] = 0
  BY <1>1, <1>3, <1>4 DEF LogsInv
<1>6. SessionHasReporter'
  <2>1. \A u \in Starters : Reporting(u) => Reporting(u)'
    BY <1>1, <1>3 DEF Reporting
  <2> QED BY <1>2, <2>1 DEF LogsInv, SessionHasReporter
<1> QED BY <1>1, <1>2, <1>4, <1>5, <1>6 DEF LogsInv, OneLateLine

LEMMA LogsNext == LogsInv /\ [Next]_vars => LogsInv'
<1> SUFFICES ASSUME LogsInv, [Next]_vars PROVE LogsInv'
  OBVIOUS
<1>1. Starters \subseteq Tasks /\ Stoppers \subseteq Tasks
  BY DEF Tasks
<1>2. ASSUME UNCHANGED <<pc, session, late, reportLogsSessionSet>> PROVE LogsInv'
  <2>1. \A t \in Starters : (Active(t)' <=> Active(t)) /\ (Reporting(t)' <=> Reporting(t))
    BY <1>2 DEF Active, Reporting
  <2> QED BY <1>2, <2>1 DEF LogsInv, OneLateLine, SessionHasReporter
<1>3. CASE RemoveContainer \/ UNCHANGED vars
  BY <1>2, <1>3 DEF RemoveContainer, vars
<1>4. ASSUME NEW t \in Tasks, Refuse(t) \/ Finish(t) PROVE LogsInv'
  <2>1. PICK label \in {"failed", "finished", "refused"} : Goto(t, label)
    BY <1>4 DEF Refuse, Finish
  <2> QED BY <1>4, <2>1, GotoLogs DEF Refuse, Finish, PcLabels, Reporting
<1>5. ASSUME NEW t \in Stoppers, StopHas(t) \/ StopRemove(t) PROVE LogsInv'
  <2>1. CASE StopHas(t)
    <3>1. PICK label \in {"remove", "failed"} : Goto(t, label)
      BY <2>1 DEF StopHas
    <3> QED BY <1>1, <2>1, <3>1, GotoLogs DEF StopHas, PcLabels, Reporting
  <2>2. CASE StopRemove(t)
    BY <1>1, <2>2, RemoveLogs DEF StopRemove
  <2> QED BY <1>5, <2>1, <2>2
<1>6. ASSUME NEW t \in Starters, Follow(t) PROVE LogsInv'
  <2>1. CASE FollowRemove(t)
    BY <1>1, <2>1, RemoveLogs DEF FollowRemove
  <2>2. CASE ~ FollowRemove(t)
    BY <1>2, <1>6, <2>2
    DEF Follow, LogsLine, LogsReturn, FollowExist, FollowHas, FollowGone
  <2> QED BY <2>1, <2>2
<1>7. ASSUME NEW t \in Starters, StartHas(t) \/ Loop(t) PROVE LogsInv'
  <2>1. CASE StartHas(t)
    <3>1. PICK label \in {"add", "failed"} : Goto(t, label)
      BY <2>1 DEF StartHas
    <3> QED BY <1>1, <2>1, <3>1, GotoLogs DEF StartHas, PcLabels, Reporting
  <2>2. CASE Loop(t)
    <3>1. CASE Active(t)
      BY <1>1, <2>2, <3>1, GotoLogs DEF Loop, PcLabels
    <3>2. CASE ~ Active(t)
      BY <1>1, <2>2, <3>2, GotoLogs DEF Loop, PcLabels
    <3> QED BY <3>1, <3>2
  <2> QED BY <1>7, <2>1, <2>2
<1>8. ASSUME NEW t \in Starters, Read(t) \/ ReadRaces(t) PROVE LogsInv'
  <2>1. PICK label \in {"send", "loop"} : Goto(t, label)
    BY <1>8 DEF Read, ReadRaces
  <2>2. pc[t] = "read" /\ UNCHANGED <<session, late, reportLogsSessionSet>>
    BY <1>8 DEF Read, ReadRaces
  <2> QED BY <1>1, <2>1, <2>2, GotoLogs DEF PcLabels
<1>9. ASSUME NEW t \in Starters, ReadError(t) PROVE LogsInv'
  BY <1>1, <1>9, RemoveLogs DEF ReadError
<1> QED BY <1>3, <1>4, <1>5, <1>6, <1>7, <1>8, <1>9, StartAddLogs, SendLogs
        DEF Next, Report

-----------------------------------------------------------------------------
(* Once its session is out of the set, a reporter sends one line at most,  *)
(* whoever took the session out and however often it is started again      *)
(* (task.go:980-1050).                                                     *)
THEOREM LateLinesAreFew == Spec => []OneLateLine
<1>1. LogsInv => OneLateLine
  BY DEF LogsInv
<1> QED BY <1>1, LogsInit, LogsNext, PTL DEF Spec

(* No task ends and leaves its session in the set, where it would refuse   *)
(* every later report (task.go:980-1050).                                  *)
THEOREM SessionsHaveReporters == Spec => []SessionHasReporter
<1>1. LogsInv => SessionHasReporter
  BY DEF LogsInv
<1> QED BY <1>1, LogsInit, LogsNext, PTL DEF Spec

-----------------------------------------------------------------------------
(* The types: what is in a buffer was put there.                           *)

FollowerLabels == {"off", "logs", "exist", "again", "gone", "remove"}

LogsTyped ==
  /\ exists \in BOOLEAN
  /\ follower \in [Starters -> FollowerLabels]
  /\ lines \in [Starters -> 0 .. MaxLines]
  /\ buffer \in [Starters -> Nat]
  /\ \A t \in Starters : buffer[t] <= lines[t]

\* The buffer and the follower of one task are changed at a time.
LEMMA LogsTypedStep ==
  ASSUME LogsTyped, exists' \in BOOLEAN, NEW t \in Starters,
         NEW label \in FollowerLabels, NEW b \in Nat, NEW l \in 0 .. MaxLines, b <= l,
         follower' = [follower EXCEPT ![t] = label],
         buffer' = [buffer EXCEPT ![t] = b], lines' = [lines EXCEPT ![t] = l]
  PROVE  LogsTyped'
BY DEF LogsTyped

LEMMA LogsTypedNext == LogsTyped /\ [Next]_vars => LogsTyped'
<1> SUFFICES ASSUME LogsTyped, [Next]_vars PROVE LogsTyped'
  OBVIOUS
<1>1. \A t \in Starters : /\ follower[t] \in FollowerLabels /\ buffer[t] \in Nat
                         /\ lines[t] \in 0 .. MaxLines /\ buffer[t] <= lines[t]
                         /\ follower = [follower EXCEPT ![t] = follower[t]]
                         /\ buffer = [buffer EXCEPT ![t] = buffer[t]]
                         /\ lines = [lines EXCEPT ![t] = lines[t]]
  BY DEF LogsTyped
<1>2. CASE UNCHANGED <<follower, buffer, lines>> /\ exists' \in BOOLEAN
  BY <1>2 DEF LogsTyped
<1>3. ASSUME NEW t \in Starters, Read(t) \/ ReadRaces(t) PROVE LogsTyped'
  <2>1. PICK b \in Nat : b <= lines[t] /\ buffer' = [buffer EXCEPT ![t] = b]
    <3>1. CASE Read(t)
      <4>1. CASE buffer[t] > 0
        <5>1. buffer[t] - 1 \in Nat /\ buffer[t] - 1 <= lines[t]
          BY <1>1, <4>1
        <5> QED BY <3>1, <4>1, <5>1 DEF Read
      <4>2. CASE ~ (buffer[t] > 0)
        BY <1>1, <3>1, <4>2 DEF Read
      <4> QED BY <4>1, <4>2
    <3>2. CASE ReadRaces(t)
      BY <1>1, <3>2 DEF ReadRaces
    <3> QED BY <1>3, <3>1, <3>2
  <2>2. UNCHANGED <<exists, follower, lines>>
    BY <1>3 DEF Read, ReadRaces
  <2> QED BY <1>1, <2>1, <2>2, LogsTypedStep DEF LogsTyped
<1>4. ASSUME NEW t \in Starters, LogsLine(t) PROVE LogsTyped'
  <2>1. /\ lines[t] + 1 \in 0 .. MaxLines /\ buffer[t] + 1 \in Nat
        /\ buffer[t] + 1 <= lines[t] + 1
    BY <1>1, <1>4, MaxLinesAssumption DEF LogsLine
  <2>2. /\ UNCHANGED <<exists, follower>>
        /\ lines' = [lines EXCEPT ![t] = lines[t] + 1]
        /\ buffer' = [buffer EXCEPT ![t] = buffer[t] + 1]
    BY <1>4 DEF LogsLine
  <2> QED BY <1>1, <2>1, <2>2, LogsTypedStep DEF LogsTyped
<1>5. ASSUME NEW t \in Starters,
             \/ StartAdd(t) \/ LogsReturn(t) \/ FollowExist(t) \/ FollowHas(t)
             \/ FollowGone(t) \/ FollowRemove(t)
      PROVE  LogsTyped'
  <2>1. PICK label \in FollowerLabels : follower' = [follower EXCEPT ![t] = label]
    BY <1>5 DEF StartAdd, LogsReturn, FollowExist, FollowHas, FollowGone, FollowRemove,
                FollowerLabels
  <2>2. UNCHANGED <<exists, buffer, lines>>
    BY <1>5 DEF StartAdd, LogsReturn, FollowExist, FollowHas, FollowGone, FollowRemove
  <2> QED BY <1>1, <2>1, <2>2, LogsTypedStep DEF LogsTyped
<1>6. ASSUME NEW t \in Tasks,
             \/ StartHas(t) \/ Loop(t) \/ ReadError(t) \/ Send(t)
             \/ StopHas(t) \/ StopRemove(t) \/ Refuse(t) \/ Finish(t)
      PROVE  LogsTyped'
  BY <1>2, <1>6 DEF LogsTyped, StartHas, Loop, ReadError, Send, StopHas, StopRemove,
                    Refuse, Finish
<1>7. CASE RemoveContainer \/ UNCHANGED vars
  BY <1>2, <1>7 DEF LogsTyped, RemoveContainer, vars
<1> QED BY <1>3, <1>4, <1>5, <1>6, <1>7 DEF Next, Report, Follow, Tasks

(* The reader takes from its buffer what its follower put there, also when *)
(* the two of them meet in it (task.go:984-1031): the types of the log      *)
(* reports, for any tasks, sessions and number of lines.                   *)
THEOREM LogsTypes == Spec => []TypeOK
<1>1. Init => LogsTyped
  BY MaxLinesAssumption DEF Init, LogsTyped, FollowerLabels
<1>2. LogsInv /\ LogsTyped => TypeOK
  <2> SUFFICES ASSUME LogsInv, LogsTyped PROVE TypeOK
    OBVIOUS
  <2>1. reportLogsSessionSet \subseteq Sessions
    <3>1. Starters \subseteq Tasks
      BY DEF Tasks
    <3> QED BY <3>1 DEF LogsInv, SessionHasReporter
  <2>2. buffer \in [Starters -> 0 .. MaxLines]
    <3>1. \A t \in Starters : buffer[t] \in 0 .. MaxLines
      BY MaxLinesAssumption DEF LogsTyped
    <3> QED BY <3>1 DEF LogsTyped
  <2> QED BY <2>1, <2>2 DEF LogsInv, LogsTyped, TypeOK, PcLabels, FollowerLabels
<1> QED BY <1>1, <1>2, LogsTypedNext, LogsInit, LogsNext, PTL DEF Spec
=============================================================================
