---------------------------- MODULE ContainerLogs ----------------------------
(***************************************************************************)
(* The ContainerLogs task (src/domeagent/agentmain/task.go): a task with   *)
(* StartReport reports the log lines of a container under a session until  *)
(* a second task without it, or the removal of the container, takes the    *)
(* session out of reportLogsSessionSet.  The task that reports has a       *)
(* goroutine of its own that follows the log of the container.             *)
(***************************************************************************)
EXTENDS Naturals, FiniteSets

CONSTANTS
  Starters,  \* tasks with StartReport
  Stoppers,  \* tasks without it
  Sessions,  \* the SessionIds of the tasks
  MaxLines   \* bound: log lines a follower puts into the buffer of its task

Tasks == Starters \cup Stoppers

ASSUME RolesApart == Starters \cap Stoppers = {}
ASSUME MaxLinesAssumption == MaxLines \in Nat

VARIABLES
  exists,               \* the container exists in dockerd
  reportLogsSessionSet,
  pc, session,          \* the tasks
  follower,             \* label of a starter's goroutine
  buffer, lines,        \* lines in logsBuffer now, and ever
  \* history: lines a starter sent since its session was last in the set
  late

vars == <<exists, reportLogsSessionSet, pc, session, follower, buffer, lines,
          late>>

Init ==
  /\ exists = TRUE
  /\ reportLogsSessionSet = {}
  /\ pc = [t \in Tasks |-> "has"]
  /\ session \in [Tasks -> Sessions]
  /\ follower = [t \in Starters |-> "off"]
  /\ buffer = [t \in Starters |-> 0]
  /\ lines = [t \in Starters |-> 0]
  /\ late = [t \in Starters |-> 0]

Goto(t, label) == pc' = [pc EXCEPT ![t] = label]
Active(t) == session[t] \in reportLogsSessionSet
Remove(t) ==
  reportLogsSessionSet' = reportLogsSessionSet \ { session[t] }

\* dockerd removes the container.
RemoveContainer ==
  /\ exists
  /\ exists' = FALSE
  /\ UNCHANGED <<reportLogsSessionSet, pc, session, follower, buffer, lines,
                 late>>

-----------------------------------------------------------------------------
(* A task that starts a report.                                            *)

\* The task cannot be parsed, has no docker client, or an empty ContainerId.
Refuse(t) ==
  /\ pc[t] = "has"
  /\ Goto(t, "failed")
  /\ UNCHANGED <<exists, reportLogsSessionSet, session, follower, buffer,
                 lines, late>>

\* reportLogsSessionSet.Has: the session has been started already, or not.
StartHas(t) ==
  /\ pc[t] = "has"
  /\ Goto(t, IF Active(t) THEN "failed" ELSE "add")
  /\ UNCHANGED <<exists, reportLogsSessionSet, session, follower, buffer,
                 lines, late>>

\* Add the session and go follow the log.
StartAdd(t) ==
  /\ pc[t] = "add"
  /\ reportLogsSessionSet' = reportLogsSessionSet \cup { session[t] }
  /\ late' = [u \in Starters |-> IF session[u] = session[t] THEN 0 ELSE late[u]]
  /\ follower' = [follower EXCEPT ![t] = "logs"]
  /\ Goto(t, "loop")
  /\ UNCHANGED <<exists, session, buffer, lines>>

\* Mutant: the loop does not look at the set again.
Loop_Always(t) ==
  /\ pc[t] = "loop"
  /\ Goto(t, "read")
  /\ UNCHANGED <<exists, reportLogsSessionSet, session, follower, buffer,
                 lines, late>>

\* for reportLogsSessionSet.Has(session)
Loop(t) ==
  /\ pc[t] = "loop"
  /\ Goto(t, IF Active(t) THEN "read" ELSE "finish")
  /\ UNCHANGED <<exists, reportLogsSessionSet, session, follower, buffer,
                 lines, late>>

\* A line is sent; at the end of the buffer the loop spins.
Read(t) ==
  /\ pc[t] = "read"
  /\ IF buffer[t] > 0
       THEN Goto(t, "send") /\ buffer' = [buffer EXCEPT ![t] = @ - 1]
       ELSE Goto(t, "loop") /\ UNCHANGED buffer
  /\ UNCHANGED <<exists, reportLogsSessionSet, session, follower, lines, late>>

\* The follower writes to the buffer meanwhile, without a lock: lines are lost
\* or read again.  The read may panic as well, which ends the agent and is left
\* out.
ReadRaces(t) ==
  /\ pc[t] = "read" /\ follower[t] = "logs" /\ exists
  /\ buffer' \in { [buffer EXCEPT ![t] = n] : n \in 0 .. lines[t] }
  /\ \E label \in { "send", "loop" } : Goto(t, label)
  /\ UNCHANGED <<exists, reportLogsSessionSet, session, follower, lines, late>>

\* Mutant: the report ends and its session stays in the set.
ReadError_Leaves(t) ==
  /\ pc[t] = "read"
  /\ Goto(t, "finish")
  /\ UNCHANGED <<exists, reportLogsSessionSet, session, follower, buffer,
                 lines, late>>

\* Any other error of the buffer ends the session.
ReadError(t) ==
  /\ pc[t] = "read"
  /\ Remove(t)
  /\ Goto(t, "loop")
  /\ UNCHANGED <<exists, session, follower, buffer, lines, late>>

Send(t) ==
  /\ pc[t] = "send"
  /\ late' = [late EXCEPT ![t] = IF Active(t) THEN 0 ELSE @ + 1]
  /\ Goto(t, "loop")
  /\ UNCHANGED <<exists, reportLogsSessionSet, session, follower, buffer, lines>>

-----------------------------------------------------------------------------
(* Its goroutine.                                                          *)

\* client.Logs(Follow): lines arrive until the call returns, which it does
\* when the container stops or the connection to dockerd fails.
LogsLine(t) ==
  /\ follower[t] = "logs"
  /\ exists
  /\ lines[t] < MaxLines
  /\ lines' = [lines EXCEPT ![t] = @ + 1]
  /\ buffer' = [buffer EXCEPT ![t] = @ + 1]
  /\ UNCHANGED <<exists, reportLogsSessionSet, pc, session, follower, late>>

LogsReturn(t) ==
  /\ follower[t] = "logs"
  /\ follower' = [follower EXCEPT ![t] = "exist"]
  /\ UNCHANGED <<exists, reportLogsSessionSet, pc, session, buffer, lines, late>>

\* for ContainerExist(..) && reportLogsSessionSet.Has(session): follow again,
\* otherwise look once more.
FollowExist(t) ==
  /\ follower[t] = "exist"
  /\ follower' = [follower EXCEPT ![t] = IF exists THEN "again" ELSE "gone"]
  /\ UNCHANGED <<exists, reportLogsSessionSet, pc, session, buffer, lines, late>>

FollowHas(t) ==
  /\ follower[t] = "again"
  /\ follower' = [follower EXCEPT ![t] = IF Active(t) THEN "logs" ELSE "gone"]
  /\ UNCHANGED <<exists, reportLogsSessionSet, pc, session, buffer, lines, late>>

\* Mutant: the follower just ends with its container.
FollowGone_Ends(t) ==
  /\ follower[t] = "gone"
  /\ follower' = [follower EXCEPT ![t] = "off"]
  /\ UNCHANGED <<exists, reportLogsSessionSet, pc, session, buffer, lines, late>>

\* if !ContainerExist(..) && Has(session): the session ends with the container.
FollowGone(t) ==
  /\ follower[t] = "gone"
  /\ follower' = [follower EXCEPT ![t] =
                    IF ~ exists /\ Active(t) THEN "remove" ELSE "off"]
  /\ UNCHANGED <<exists, reportLogsSessionSet, pc, session, buffer, lines, late>>

FollowRemove(t) ==
  /\ follower[t] = "remove"
  /\ Remove(t)
  /\ follower' = [follower EXCEPT ![t] = "off"]
  /\ UNCHANGED <<exists, pc, session, buffer, lines, late>>

-----------------------------------------------------------------------------
(* A task that stops a report.                                             *)

StopHas(t) ==
  /\ pc[t] = "has"
  /\ Goto(t, IF Active(t) THEN "remove" ELSE "failed")
  /\ UNCHANGED <<exists, reportLogsSessionSet, session, follower, buffer,
                 lines, late>>

StopRemove(t) ==
  /\ pc[t] = "remove"
  /\ Remove(t)
  /\ Goto(t, "finish")
  /\ UNCHANGED <<exists, session, follower, buffer, lines, late>>

\* Task sends "finish", or the handler one with an error code.
Finish(t) ==
  /\ pc[t] \in { "finish", "failed" }
  /\ Goto(t, IF pc[t] = "finish" THEN "finished" ELSE "refused")
  /\ UNCHANGED <<exists, reportLogsSessionSet, session, follower, buffer,
                 lines, late>>

-----------------------------------------------------------------------------
Report(t) == Loop(t) \/ Read(t) \/ ReadRaces(t) \/ ReadError(t) \/ Send(t)
Follow(t) ==
  \/ LogsLine(t) \/ LogsReturn(t)
  \/ FollowExist(t) \/ FollowHas(t) \/ FollowGone(t) \/ FollowRemove(t)

Next ==
  \/ \E t \in Starters : StartHas(t) \/ StartAdd(t) \/ Report(t) \/ Follow(t)
  \/ \E t \in Stoppers : StopHas(t) \/ StopRemove(t)
  \/ \E t \in Tasks : Refuse(t) \/ Finish(t)
  \/ RemoveContainer

Spec == Init /\ [][Next]_vars

\* Goroutines are scheduled, and the feedbacks of a report are taken from the
\* channel.  A follower's call returns once its container is gone.
FairSpec ==
  /\ Spec
  /\ \A t \in Starters :
       /\ WF_vars(StartAdd(t) \/ Report(t))
       /\ WF_vars(~ exists /\ LogsReturn(t))
       /\ WF_vars(FollowExist(t) \/ FollowHas(t) \/ FollowGone(t) \/ FollowRemove(t))
  /\ \A t \in Stoppers : WF_vars(StopRemove(t))
  /\ \A t \in Tasks : WF_vars(Finish(t))

-----------------------------------------------------------------------------
Reporting(t) == pc[t] \in { "loop", "read", "send" }

TypeOK ==
  /\ exists \in BOOLEAN
  /\ reportLogsSessionSet \subseteq Sessions
  /\ pc \in [Tasks -> { "has", "add", "loop", "read", "send", "remove",
                        "finish", "failed", "finished", "refused" }]
  /\ session \in [Tasks -> Sessions]
  /\ follower \in [Starters -> { "off", "logs", "exist", "again", "gone",
                                 "remove" }]
  /\ buffer \in [Starters -> 0 .. MaxLines]
  /\ lines \in [Starters -> 0 .. MaxLines]
  /\ late \in [Starters -> Nat]

\* Once its session is out of the set, a reporter sends at most the one line it
\* had read before, whoever took the session out and whatever its follower does.
OneLateLine == \A t \in Starters : late[t] <= 1

\* A session in the set has a task that reports it: a finished task never
\* leaves its session behind, where it would refuse every later StartReport.
SessionHasReporter ==
  \A s \in reportLogsSessionSet :
    \E t \in Starters : session[t] = s /\ Reporting(t)

\* When the container is removed, or the session is not in the set any more for
\* good, the reports end: each follower that outlives the container ends its
\* session.
ReportsEnd ==
  \A t \in Starters : ~ exists /\ Reporting(t) ~> pc[t] = "finished"
=============================================================================
