---------------------------- MODULE TaskProtocol ----------------------------
(***************************************************************************)
(* What the server may rely on for the tasks it sends                      *)
(* (src/domeagent/agentmain/task.go, Task and its handlers): each task is  *)
(* acked once and then answered once, or, when its line is no task at all, *)
(* acked without its id and never answered.                                *)
(***************************************************************************)
EXTENDS Sequences

CONSTANT Tasks
VARIABLES received, \* the tasks the agent has read
          log       \* per task, the task feedbacks sent for it
vars == <<received, log>>

Answers == { "finish", "finishError", "ackError" }

Init ==
  /\ received = {}
  /\ log = [t \in Tasks |-> << >>]

Receive(t) ==
  /\ t \notin received
  /\ received' = received \cup {t}
  /\ UNCHANGED log

Ack(t) ==
  /\ t \in received
  /\ log[t] = << >>
  /\ \E ack \in { "ack", "ackNoId" } : log' = [log EXCEPT ![t] = Append(@, ack)]
  /\ UNCHANGED received

Answer(t) ==
  /\ log[t] = << "ack" >>
  /\ \E answer \in Answers : log' = [log EXCEPT ![t] = Append(@, answer)]
  /\ UNCHANGED received

Reply(t) == Ack(t) \/ Answer(t)

Next == \E t \in Tasks : Receive(t) \/ Reply(t)

Spec == Init /\ [][Next]_vars

FairSpec == Spec /\ \A t \in Tasks : WF_vars(Reply(t))
=============================================================================
