----------------------------- MODULE OomStream -----------------------------
(***************************************************************************)
(* The stream of out-of-memory kills                                       *)
(* (src/domeagent/monitor/utils/oomparser/oomparser.go): one goroutine     *)
(* reads the lines of the kernel log, another one, StreamOoms, puts an     *)
(* instance together from the lines of each kill.  The kernel starts a     *)
(* kill with "invoked oom-killer", names the container in a line of its    *)
(* own if one hit its limit, and ends with "Killed process".  That line of *)
(* its own has two names: those of kill n are n and -n here.               *)
(***************************************************************************)
EXTENDS Integers, Sequences

CONSTANTS
  MaxOoms,    \* bound: kills
  Limited,    \* the kills for which a container hit its limit
  MaxOther,   \* bound: other lines of the log
  LineBuffer, \* capacity of lineChannel (10)
  OutBuffer   \* capacity of outStream (10)

ASSUME OomAssumption ==
  {MaxOoms, MaxOther} \subseteq Nat /\ Limited \subseteq 1 .. MaxOoms
ASSUME BufferAssumption == {LineBuffer, OutBuffer} \subseteq Nat \ {0}

VARIABLES
  \* the kernel: the lines of the log, and per kill whether lastLineRegexp
  \* matches the name of its process
  log, readable,
  \* readLinesFromFile: complete lines read, and whether linefragment holds a half
  pos, fragment, lineChannel,
  \* StreamOoms: its label, oomCurrentInstance, the lines it took, and outStream
  parserPc, instance, taken, outStream,
  \* history: the instances sent
  reported

logVars == <<log, readable>>
readVars == <<pos, fragment, lineChannel>>
parserVars == <<parserPc, instance, taken, outStream, reported>>
oomVars == <<logVars, readVars, parserVars>>

Root == 0 \* ContainerName "/" and VictimContainerName "", of a kill that no limit caused
Line(kind, n) == [kind |-> kind, oom |-> n]
Instance(c, v, killed) == [container |-> c, victim |-> v, killed |-> killed]

OomInit ==
  /\ log = << >> /\ readable = << >>
  /\ pos = 0 /\ fragment = FALSE /\ lineChannel = << >>
  /\ parserPc = "outer" /\ instance = Instance(Root, Root, 0) /\ taken = 0
  /\ outStream = << >> /\ reported = << >>

-----------------------------------------------------------------------------
(* The kernel. *)

Of(n, kind) == { i \in DOMAIN log : log[i] = Line(kind, n) }
Killed(n) == Of(n, "kill") # {}

\* the lines that may come next
NextLines ==
  LET n == Len(readable)
      between == n = 0 \/ Killed(n)
  IN (IF Len(SelectSeq(log, LAMBDA l : l.kind = "other")) < MaxOther
        THEN {Line("other", 0)} ELSE {})
     \cup (IF between /\ n < MaxOoms THEN {Line("start", n + 1)} ELSE {})
     \cup (IF between THEN {}
           ELSE IF n \in Limited /\ Of(n, "container") = {}
                THEN {Line("container", n)} ELSE {Line("kill", n)})

Write ==
  /\ \E l \in NextLines :
       /\ log' = Append(log, l)
       /\ IF l.kind = "start"
            THEN \E matches \in BOOLEAN : readable' = Append(readable, matches)
            ELSE UNCHANGED readable
  /\ UNCHANGED <<readVars, parserVars>>

-----------------------------------------------------------------------------
(* readLinesFromFile. *)

\* Mutant: the beginning that was read at the end of the file is forgotten.
ReadLine_NoFragment ==
  /\ pos < Len(log) /\ Len(lineChannel) < LineBuffer
  /\ lineChannel' = Append(lineChannel,
                           IF fragment THEN Line("other", 0) ELSE log[pos + 1])
  /\ pos' = pos + 1 /\ fragment' = FALSE
  /\ UNCHANGED <<logVars, parserVars>>

ReadLine ==
  /\ pos < Len(log) /\ Len(lineChannel) < LineBuffer
  /\ lineChannel' = Append(lineChannel, log[pos + 1])
  /\ pos' = pos + 1 /\ fragment' = FALSE
  /\ UNCHANGED <<logVars, parserVars>>

\* io.EOF in the middle of the line that comes next
ReadEof ==
  /\ pos = Len(log) /\ NextLines # {} /\ ~ fragment
  /\ fragment' = TRUE
  /\ UNCHANGED <<logVars, pos, lineChannel, parserVars>>

-----------------------------------------------------------------------------
(* StreamOoms. *)

NextLine == /\ lineChannel # << >>
           /\ lineChannel' = Tail(lineChannel)
           /\ taken' = taken + 1
           /\ UNCHANGED <<logVars, pos, fragment, reported>>

\* Mutant: the instance of the kill before is used again.
OuterLine_SameInstance ==
  /\ parserPc = "outer" /\ NextLine
  /\ parserPc' = IF Head(lineChannel).kind = "start" THEN "group" ELSE "outer"
  /\ UNCHANGED <<instance, outStream>>

OuterLine ==
  /\ parserPc = "outer" /\ NextLine
  /\ IF Head(lineChannel).kind = "start"
       THEN parserPc' = "group" /\ instance' = Instance(Root, Root, 0)
       ELSE UNCHANGED <<parserPc, instance>>
  /\ UNCHANGED outStream

\* getContainerName and getProcessNamePid
GroupLine ==
  /\ parserPc = "group" /\ NextLine
  /\ LET l == Head(lineChannel)
         names == l.kind = "container"
         finished == l.kind = "kill" /\ readable[l.oom]
     IN /\ instance' = Instance(IF names THEN l.oom ELSE instance.container,
                                IF names THEN - l.oom ELSE instance.victim,
                                IF finished THEN l.oom ELSE instance.killed)
        /\ parserPc' = IF finished THEN "last" ELSE "group"
  /\ UNCHANGED outStream

\* log.Fatalf: a line that is matched has a time or a pid that cannot be
\* parsed.  The process ends, and the line does not count as taken.
ParseFails ==
  /\ parserPc = "group" /\ lineChannel # << >>
  /\ Head(lineChannel).kind = "kill" /\ readable[Head(lineChannel).oom]
  /\ parserPc' = "fatal"
  /\ UNCHANGED <<logVars, readVars, instance, taken, outStream, reported>>

\* the loop reads one more line before it ends, and nobody looks at it
LastLine ==
  /\ parserPc = "last" /\ NextLine
  /\ parserPc' = "send"
  /\ UNCHANGED <<instance, outStream>>

SendInstance ==
  /\ parserPc = "send" /\ Len(outStream) < OutBuffer
  /\ outStream' = Append(outStream, instance)
  /\ reported' = Append(reported, instance)
  /\ parserPc' = "outer"
  /\ UNCHANGED <<logVars, readVars, instance, taken>>

Kernel == Write
Reader == ReadLine \/ ReadEof
Parser == OuterLine \/ GroupLine \/ ParseFails \/ LastLine \/ SendInstance

-----------------------------------------------------------------------------
OomTypeOK ==
  /\ log \in Seq([kind : {"start", "container", "kill", "other"}, oom : 0 .. MaxOoms])
  /\ fragment \in BOOLEAN
  /\ readable \in Seq(BOOLEAN) /\ Len(readable) <= MaxOoms
  /\ pos = taken + Len(lineChannel) /\ Len(lineChannel) <= LineBuffer
  /\ parserPc \in {"outer", "group", "last", "send", "fatal"}
  /\ {instance} \cup { reported[i] : i \in DOMAIN reported }
       \subseteq [container : 0 .. MaxOoms, victim : -MaxOoms .. 0, killed : 0 .. MaxOoms]
  /\ outStream \in Seq({ reported[i] : i \in DOMAIN reported })
  /\ Len(outStream) <= OutBuffer

IsReported(n) == \/ \E i \in DOMAIN reported : reported[i].killed = n
                 \/ parserPc \in {"last", "send"} /\ instance.killed = n

\* A kill is covered by the one before it, when that has just ended as its
\* first line comes: that line was the one too many.
Covered(n) == \/ ~ readable[n]
              \/ \E i \in Of(n, "start") :
                   i > 1 /\ log[i - 1] = Line("kill", n - 1) /\ readable[n - 1]

(* Every kill StreamOoms has read to its end is reported, except one whose *)
(* process has a name lastLineRegexp does not match, and one that directly *)
(* follows a kill whose process has one that it matches                    *)
(* (oomparser.go:128-152).  The line that ends the process of the agent is *)
(* not read to its end.                                                    *)
KillsAreReported ==
  \A n \in DOMAIN readable :
    (\E i \in Of(n, "kill") : i <= taken) => IsReported(n) \/ Covered(n)

\* the kill of r ended with a line that was matched, and r names its container
\* and its victim, each by the name that is its own
OfItsKill(r) ==
  /\ r.killed \in DOMAIN readable /\ readable[r.killed]
  /\ r.container + r.victim = 0
  /\ IF r.killed \in Limited THEN r.container = r.killed
     ELSE \/ r.container = Root
          \/ /\ r.container < r.killed /\ r.container \in Limited
             /\ ~ readable[r.container]

(* The kills are reported in their order, each once, and each with the two *)
(* names of its own line, if it has one: the first as the container, the   *)
(* second as the victim.  If it has none, the report may still have those  *)
(* of an earlier kill: of one whose last line lastLineRegexp does not      *)
(* match, as the loop goes on with its instance (oomparser.go:46-55,       *)
(* 128-147).                                                               *)
ReportsNameTheirs ==
  /\ \A i \in DOMAIN reported :
       /\ OfItsKill(reported[i])
       /\ \A j \in 1 .. i - 1 : reported[j].killed < reported[i].killed
  /\ parserPc \in {"last", "send"} =>
       /\ OfItsKill(instance)
       /\ \A i \in DOMAIN reported : reported[i].killed < instance.killed
=============================================================================
