------------------------------ MODULE Watchdog ------------------------------
(***************************************************************************)
(* The agent and its daemon restart each other                             *)
(* (src/domeagent/main.go, src/domedaemon/main.go).  Each is started with  *)
(* the pid of the one that starts it, or without one by a user.  It polls  *)
(* the other with signal 0, starts a new one when that fails, and then     *)
(* waits for its child.  A daemon started without a pid starts the agent   *)
(* at once and only waits, never polls.                                    *)
(***************************************************************************)
EXTENDS Naturals, Sequences

CONSTANTS
  MaxPids,    \* bound: processes started
  MaxFailures \* bound: starts that fail, and pids given to another process

ASSUME BoundsAssumption == MaxPids \in Nat \ {0} /\ MaxFailures \in Nat

VARIABLES
  \* the processes, by pid: what it is, its label, the pid it polls, whether it
  \* was started without a pid, and how it ended
  proc,
  \* the pids of ended processes that other programs have now
  reused,
  failures

watchdogVars == <<proc, reused, failures>>

None == 0 \* --pid=-1
Pids == DOMAIN proc
Live(p) == p \in Pids /\ proc[p].ended = "no"
Lives(role) == \E p \in Pids : proc[p].role = role /\ Live(p)
Other(role) == IF role = "agent" THEN "daemon" ELSE "agent"

\* Waiter: a daemon that waits for its child and nothing else
Waiter(p) == proc[p].role = "daemon" /\ proc[p].first

New(role, pid) ==
  [role |-> role, watches |-> pid, first |-> pid = None, ended |-> "no",
   pc |-> IF role = "daemon" /\ pid = None THEN "spawn" ELSE "poll"]

\* A user starts one of the two.
WatchdogInit ==
  /\ \E role \in {"agent", "daemon"} : proc = << New(role, None) >>
  /\ reused = {} /\ failures = 0

Goto(p, label) == proc' = [proc EXCEPT ![p].pc = label]

-----------------------------------------------------------------------------
(* One process.                                                            *)

\* Signal(0) finds a process of that pid
Signalled(p) == Live(p) \/ p \in reused

Poll(p) ==
  /\ Live(p) /\ proc[p].pc = "poll"
  /\ ~ Signalled(proc[p].watches)
  /\ Goto(p, "spawn")
  /\ UNCHANGED <<reused, failures>>

\* Mutant: the child is not told the pid.
Spawn_NoPid(p) ==
  /\ Live(p) /\ proc[p].pc = "spawn"
  /\ Len(proc) < MaxPids
  /\ proc' = Append([proc EXCEPT ![p].pc = "wait", ![p].watches = Len(proc) + 1],
                    New(Other(proc[p].role), None))
  /\ UNCHANGED <<reused, failures>>

Spawn(p) ==
  /\ Live(p) /\ proc[p].pc = "spawn"
  /\ Len(proc) < MaxPids
  /\ proc' = Append([proc EXCEPT ![p].pc = "wait", ![p].watches = Len(proc) + 1],
                    New(Other(proc[p].role), p))
  /\ UNCHANGED <<reused, failures>>

\* Start fails, and so does Wait; the waiter tries again at once.
SpawnFails(p) ==
  /\ Live(p) /\ proc[p].pc = "spawn"
  /\ failures < MaxFailures
  /\ failures' = failures + 1
  /\ Goto(p, IF Waiter(p) THEN "spawn" ELSE "poll")
  /\ UNCHANGED reused

ChildEnded(p) == proc[p].watches \in Pids /\ ~ Live(proc[p].watches)

\* Mutant: only a child that exited counts as ended.
Wait_Exited(p) ==
  /\ Live(p) /\ proc[p].pc = "wait"
  /\ ChildEnded(p)
  /\ ~ Waiter(p)
  /\ Goto(p, IF proc[proc[p].watches].ended = "exit" THEN "poll" ELSE "spin")
  /\ UNCHANGED <<reused, failures>>

\* Wait returns, and the child is gone.
Wait(p) ==
  /\ Live(p) /\ proc[p].pc = "wait"
  /\ ChildEnded(p)
  /\ ~ Waiter(p)
  /\ Goto(p, "poll")
  /\ UNCHANGED <<reused, failures>>

\* Exited() is true of a child that exited and false of one that a signal
\* ended: the waiter goes on to Wait for it, which fails from then on.
WaiterWaits(p) ==
  /\ Live(p) /\ proc[p].pc = "wait"
  /\ ChildEnded(p)
  /\ Waiter(p)
  /\ Goto(p, IF proc[proc[p].watches].ended = "exit" THEN "spawn" ELSE "spin")
  /\ UNCHANGED <<reused, failures>>

Step(p) == Poll(p) \/ Spawn(p) \/ SpawnFails(p) \/ Wait(p) \/ WaiterWaits(p)

-----------------------------------------------------------------------------
(* The operating system.                                                   *)

\* A process exits, panics included, or a signal ends it.
End(p, how) ==
  /\ Live(p)
  /\ proc' = [proc EXCEPT ![p].ended = how]
  /\ UNCHANGED <<reused, failures>>

Reuse(p) ==
  /\ p \in Pids /\ ~ Live(p) /\ p \notin reused
  /\ failures < MaxFailures
  /\ failures' = failures + 1
  /\ reused' = reused \cup {p}
  /\ UNCHANGED proc

\* the other program ends
Release(p) ==
  /\ p \in reused
  /\ reused' = reused \ {p}
  /\ UNCHANGED <<proc, failures>>

WatchdogNext == \E p \in Pids :
  \/ Step(p)
  \/ End(p, "exit") \/ End(p, "signal")
  \/ Reuse(p) \/ Release(p)

WatchdogSpec == WatchdogInit /\ [][WatchdogNext]_watchdogVars

\* Processes run, and a start succeeds at last.
FairWatchdogSpec == WatchdogSpec /\ \A p \in 1 .. MaxPids : WF_watchdogVars(Step(p))

-----------------------------------------------------------------------------
WatchdogTypeOK ==
  /\ proc \in Seq([role : {"agent", "daemon"},
                   pc : {"poll", "spawn", "wait", "spin"},
                   watches : 0 .. MaxPids, first : BOOLEAN,
                   ended : {"no", "exit", "signal"}])
  /\ Len(proc) \in 1 .. MaxPids
  /\ \A p \in Pids : proc[p].pc = "wait" => proc[p].watches \in Pids
  /\ reused \subseteq Pids
  /\ failures \in 0 .. MaxFailures

(* However the two end and restart each other, there are never two agents  *)
(* that execute tasks on the host, and never two daemons that restart them *)
(* (domeagent/main.go:40-59, domedaemon/main.go:36-71).                    *)
OneOfEach ==
  \A p, q \in Pids : Live(p) /\ Live(q) /\ proc[p].role = proc[q].role => p = q

(* Who could restart an ended process cannot: no pid is left for a child,  *)
(* another program has the pid that is polled, or the daemon was started   *)
(* first and lost its agent to a signal.                                   *)
Blind(p) ==
  \/ Len(proc) = MaxPids
  \/ proc[p].watches \in reused
  \/ Waiter(p) /\ \E q \in Pids : proc[q].role = "agent" /\ proc[q].ended = "signal"

(* While one of the two lives and is not blind, the other comes back,      *)
(* whoever started whom and whatever starts fail.                          *)
ComesBack ==
  \A p \in 1 .. MaxPids :
    Live(p) /\ ~ Lives(Other(proc[p].role))
      ~> ~ Live(p) \/ Blind(p) \/ Lives(Other(proc[p].role))
=============================================================================
