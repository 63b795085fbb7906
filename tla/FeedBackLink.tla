---------------------------- MODULE FeedBackLink ----------------------------
(***************************************************************************)
(* The websocket between agent and server: ProcessTask reads task lines    *)
(* from it and re-establishes it, SendTaskFeedBack writes to it the        *)
(* feedbacks it takes from sendFeedBackChannel                             *)
(* (src/domeagent/agentmain/task.go).  The two goroutines share only the   *)
(* variable taskClient, which ProcessTask assigns on every Dial: with nil  *)
(* when the Dial failed.                                                   *)
(***************************************************************************)
EXTENDS Naturals, Sequences

CONSTANTS
  MaxDials,        \* bound: connections that are established
  MaxDialFailures, \* bound: Dials that fail
  MaxFeedBacks,    \* bound: feedbacks offered on sendFeedBackChannel
  MaxRepeats,      \* bound: packages that went out although Write failed
  MaxTasks         \* bound: task lines the server writes

ASSUME MaxDialsAssumption == MaxDials \in Nat \ {0}
ASSUME MaxDialFailuresAssumption == MaxDialFailures \in Nat
ASSUME MaxFeedBacksAssumption == MaxFeedBacks \in Nat
ASSUME MaxRepeatsAssumption == MaxRepeats \in Nat
ASSUME MaxTasksAssumption == MaxTasks \in Nat

VARIABLES
  \* the connections; taskClient is one of them or nil
  conn, taskClient, dialFailures,
  \* ProcessTask: label, and what it has read of a line so far
  readerPc, partial,
  \* SendTaskFeedBack: label, and the number of feedbacks it has taken
  senderPc, taken,
  \* per connection the halves of lines the agent has yet to read; the task
  \* lines the server wrote; the lines ProcessTask started a Task for
  incoming, posted, started,
  \* the feedbacks that reached the wire, in the order written
  wire

readerVars == <<readerPc, partial>>
senderVars == <<senderPc, taken>>
serverVars == <<incoming, posted>>
vars == <<conn, taskClient, dialFailures, readerVars, senderVars, serverVars,
          started, wire>>

Conns == 1 .. MaxDials
Nil == 0
Open(n) == conn[n] = "open"
Line(m) == << <<m, "first">>, <<m, "last">> >>

Init ==
  /\ conn = [n \in Conns |-> "unused"]
  /\ taskClient = Nil
  /\ dialFailures = 0
  /\ readerPc = "dial"
  /\ partial = << >>
  /\ senderPc = "off"
  /\ taken = 0
  /\ incoming = [n \in Conns |-> << >>]
  /\ posted = 0
  /\ started = << >>
  /\ wire = << >>

-----------------------------------------------------------------------------
(* The network and the server.                                             *)

\* A connection is lost with some suffix of what was on its way to the agent;
\* neither end knows yet.  The last connection of the bound is not lost.
Break(n) ==
  /\ Open(n) /\ n < MaxDials
  /\ conn' = [conn EXCEPT ![n] = "broken"]
  /\ \E kept \in 0 .. Len(incoming[n]) :
       incoming' = [incoming EXCEPT ![n] = SubSeq(@, 1, kept)]
  /\ UNCHANGED <<taskClient, dialFailures, readerVars, senderVars, posted,
                 started, wire>>

\* The server writes a task line; the network may cut it anywhere, here in two.
PostTask(n) ==
  /\ Open(n)
  /\ posted < MaxTasks
  /\ posted' = posted + 1
  /\ incoming' = [incoming EXCEPT ![n] =
                    @ \o Line(posted + 1)]
  /\ UNCHANGED <<conn, taskClient, dialFailures, readerVars, senderVars,
                 started, wire>>

-----------------------------------------------------------------------------
(* ProcessTask                                                             *)

\* A successful Dial ends either dial loop.  The first one also starts the
\* sender.  receiveReader is Reset: nothing is buffered after ReadBytes failed.
DialOk ==
  /\ readerPc = "dial"
  /\ \E n \in Conns :
       /\ conn[n] = "unused"
       /\ \A m \in Conns : m < n => conn[m] # "unused"
       /\ conn' = [conn EXCEPT ![n] = "open"]
       /\ taskClient' = n
  /\ senderPc' = IF senderPc = "off" THEN "recv" ELSE senderPc
  /\ readerPc' = "read"
  /\ UNCHANGED <<dialFailures, partial, taken, serverVars, started, wire>>

\* A failed Dial leaves nil in taskClient.
DialFails ==
  /\ readerPc = "dial"
  /\ dialFailures < MaxDialFailures
  /\ dialFailures' = dialFailures + 1
  /\ taskClient' = Nil
  /\ readerPc' = "register"
  /\ UNCHANGED <<conn, partial, senderVars, serverVars, started, wire>>

\* SendClientInfo: it posts until the server accepts the node.
Register ==
  /\ readerPc = "register"
  /\ readerPc' = "dial"
  /\ UNCHANGED <<conn, taskClient, dialFailures, partial, senderVars,
                 serverVars, started, wire>>

\* The agent is gone: a panic, or log.Fatal.
EndAgent == senderPc' = "dead" /\ readerPc' = "dead"

\* GetClientInfo cannot read the name, CPU, memory, disks or network cards of
\* the host: log.Fatal.
RegisterFatal ==
  /\ readerPc = "register"
  /\ EndAgent
  /\ UNCHANGED <<conn, taskClient, dialFailures, partial, taken, serverVars,
                 started, wire>>

\* ReadBytes('\n') collects a line; a complete one starts go Task(line).
Read ==
  /\ readerPc = "read"
  /\ incoming[taskClient] # << >>
  /\ LET half == Head(incoming[taskClient]) IN
       IF half[2] = "first"
         THEN partial' = Append(partial, half) /\ UNCHANGED started
         ELSE /\ partial' = << >>
              /\ started' = Append(started, Append(partial, half))
  /\ incoming' = [incoming EXCEPT ![taskClient] = Tail(@)]
  /\ UNCHANGED <<conn, taskClient, dialFailures, readerPc, senderVars, posted,
                 wire>>

\* Mutant: what was read of the incomplete line stays in front of the next.
ReadError_Keeps ==
  /\ readerPc = "read"
  /\ ~ Open(taskClient)
  /\ readerPc' = "close"
  /\ UNCHANGED <<conn, taskClient, dialFailures, partial, senderVars,
                 serverVars, started, wire>>

\* ReadBytes fails: the incomplete line it returns is discarded.
ReadError ==
  /\ readerPc = "read"
  /\ ~ Open(taskClient)
  /\ partial' = << >>
  /\ readerPc' = "close"
  /\ UNCHANGED <<conn, taskClient, dialFailures, senderVars, serverVars,
                 started, wire>>

\* Mutant: the reader goes on without a new Dial.
Close_Reads ==
  /\ readerPc = "close"
  /\ conn' = [conn EXCEPT ![taskClient] = "closed"]
  /\ readerPc' = "read"
  /\ UNCHANGED <<taskClient, dialFailures, partial, senderVars, serverVars,
                 started, wire>>

\* The first taskClient.Close().
Close ==
  /\ readerPc = "close"
  /\ conn[taskClient] # "unclosed"
  /\ conn' = [conn EXCEPT ![taskClient] = "closed"]
  /\ readerPc' = "register"
  /\ UNCHANGED <<taskClient, dialFailures, partial, senderVars, serverVars,
                 started, wire>>

\* It answers with an error, and takes the socket away all the same.
CloseFails ==
  /\ readerPc = "close"
  /\ conn[taskClient] = "broken"
  /\ conn' = [conn EXCEPT ![taskClient] = "unclosed"]
  /\ UNCHANGED <<taskClient, dialFailures, readerVars, senderVars, serverVars,
                 started, wire>>

\* After each sleep Close is called again until it returns no error: those that
\* fail change nothing, and nothing says that one does not.
CloseAgain ==
  /\ readerPc = "close"
  /\ conn[taskClient] = "unclosed"
  /\ conn' = [conn EXCEPT ![taskClient] = "closed"]
  /\ readerPc' = "register"
  /\ UNCHANGED <<taskClient, dialFailures, partial, senderVars, serverVars,
                 started, wire>>

Reader ==
  \/ DialOk \/ DialFails \/ Register \/ RegisterFatal
  \/ Read \/ ReadError \/ Close \/ CloseFails

-----------------------------------------------------------------------------
(* SendTaskFeedBack                                                        *)

Take ==
  /\ senderPc = "recv"
  /\ taken < MaxFeedBacks
  /\ taken' = taken + 1
  /\ senderPc' = "check"
  /\ UNCHANGED <<conn, taskClient, dialFailures, readerVars, serverVars,
                 started, wire>>

\* if taskClient != nil; otherwise the loop spins.
Check ==
  /\ senderPc = "check"
  /\ senderPc' = IF taskClient = Nil THEN "check" ELSE "write"
  /\ UNCHANGED <<conn, taskClient, dialFailures, readerVars, taken, serverVars,
                 started, wire>>

\* taskClient is read again.  A write to a lost connection succeeds until the
\* agent notices the loss.
WriteOk ==
  /\ senderPc = "write"
  /\ taskClient # Nil
  /\ conn[taskClient] \in { "open", "broken" }
  /\ wire' = Append(wire, taken)
  /\ senderPc' = "recv"
  /\ UNCHANGED <<conn, taskClient, dialFailures, readerVars, taken, serverVars,
                 started>>

\* Fewer bytes than the package has: send the whole package again.  (The bytes
\* that went out are not told apart from a package that did not.)
WriteShort ==
  /\ senderPc = "write"
  /\ taskClient # Nil
  /\ conn[taskClient] \in { "open", "broken" }
  /\ senderPc' = "check"
  /\ UNCHANGED <<conn, taskClient, dialFailures, readerVars, taken, serverVars,
                 started, wire>>

\* Mutant: a package that could not be written is given up.
WriteError_GivesUp ==
  /\ senderPc = "write"
  /\ taskClient # Nil
  /\ ~ Open(taskClient)
  /\ senderPc' = "recv"
  /\ UNCHANGED <<conn, taskClient, dialFailures, readerVars, taken, serverVars,
                 started, wire>>

\* An error, which does not tell whether the package went out, and a sleep.
WriteError ==
  /\ senderPc = "write"
  /\ taskClient # Nil
  /\ ~ Open(taskClient)
  /\ senderPc' = "check"
  /\ \/ UNCHANGED wire
     \/ /\ conn[taskClient] = "broken"
        /\ Len(wire) < taken + MaxRepeats
        /\ wire' = Append(wire, taken)
  /\ UNCHANGED <<conn, taskClient, dialFailures, readerVars, taken, serverVars,
                 started>>

\* A Dial failed since the check: Write on a nil *websocket.Conn panics, and
\* with it the agent.
WriteNil ==
  /\ senderPc = "write"
  /\ taskClient = Nil
  /\ EndAgent
  /\ UNCHANGED <<conn, taskClient, dialFailures, partial, taken, serverVars,
                 started, wire>>

Sender == Take \/ Check \/ WriteOk \/ WriteShort \/ WriteError \/ WriteNil

-----------------------------------------------------------------------------
AgentEnded == senderPc = "dead"

Next ==
  \/ Reader \/ CloseAgain \/ Sender
  \/ \E n \in Conns : Break(n) \/ PostTask(n)

\* The server accepts a registration and a connection at last, and not every
\* write falls short.  Nothing is assumed of a Close that failed once.
Spec == Init /\ [][Next]_vars
FairSpec ==
  /\ Spec
  /\ WF_vars(Reader)
  /\ WF_vars(Sender)
  /\ SF_vars(WriteOk)

-----------------------------------------------------------------------------
Halves == (1 .. MaxTasks) \X { "first", "last" }

TypeOK ==
  /\ conn \in [Conns -> { "unused", "open", "broken", "unclosed", "closed" }]
  /\ taskClient \in Conns \cup { Nil }
  /\ dialFailures \in 0 .. MaxDialFailures
  /\ readerPc \in { "dial", "register", "read", "close", "dead" }
  /\ partial \in Seq(Halves)
  /\ senderPc \in { "off", "recv", "check", "write", "dead" }
  /\ taken \in 0 .. MaxFeedBacks
  /\ posted \in 0 .. MaxTasks
  /\ incoming \in [Conns -> Seq(Halves)]
  /\ started \in Seq(Seq(Halves))
  /\ wire \in Seq(1 .. MaxFeedBacks)

\* "discard the received incomplete task data": a Task is started only with a
\* whole line, never with one joined from two sessions.
WholeTasks == \A i \in DOMAIN started : \E m \in 1 .. MaxTasks : started[i] = Line(m)

\* Feedbacks reach the wire in the order they entered the channel, across lost
\* connections; none is skipped, and one is repeated only back to back.
FeedBackInOrder ==
  /\ \A i \in DOMAIN wire :
       wire[i] - (IF i = 1 THEN 0 ELSE wire[i - 1]) \in { 0, 1 }
  /\ senderPc = "recv" /\ wire # << >> => wire[Len(wire)] = taken

\* No connection is one whose Close fails for ever.
ClosesAtLast == \A n \in Conns : []<>(conn[n] # "unclosed")

\* A feedback taken from the channel is written to a connection that its end
\* of the agent still believes in, or the agent ended; unless Close keeps it
\* from a new connection.
FeedBackIsWritten ==
  ClosesAtLast =>
    \A m \in 1 .. MaxFeedBacks :
      taken = m ~> AgentEnded \/ (\E i \in DOMAIN wire : wire[i] = m)

\* A lost connection is replaced by one the agent reads from, or the agent
\* ended: "restart websocket connection when reading bytes error" (task.go:62).
Reconnects ==
  \A n \in Conns :
    taskClient = n /\ conn[n] = "broken"
      ~> AgentEnded \/ (taskClient > n /\ readerPc = "read")

\* What the code does of it: the loop of task.go:64-66 repeats a Close that
\* fails before it dials again, so that Close must succeed at last.
ReconnectsIfClosed == ClosesAtLast => Reconnects
=============================================================================
