---------------------------- MODULE Events_proofs ----------------------------
(***************************************************************************)
(* Theorems about the stream of kills, the event store, what it answers    *)
(* and its watchers, for every number of kills, clients and goroutines     *)
(* that add events, and for every size of the buffers.                     *)
(***************************************************************************)
EXTENDS Events, FiniteSetTheorems, SequenceTheorems, NaturalsInduction, WellFoundedInduction, TLAPS

Lines == [kind : {"start", "container", "kill", "other"}, oom : 0 .. MaxOoms]
Instances == [container : 0 .. MaxOoms, victim : -MaxOoms .. 0, killed : 0 .. MaxOoms]

-----------------------------------------------------------------------------
(* The stream of kills: the parts of its inductive invariant.              *)

\* lineChannel holds the lines between what was taken and what was read.
Channel ==
  /\ lineChannel \in Seq(Lines) /\ taken \in Nat /\ pos <= Len(log)
  /\ \A i \in DOMAIN lineChannel : lineChannel[i] = log[taken + i]

\* The log is one of kills that start and end one after the other.
Grammar ==
  /\ \A i \in DOMAIN log : log[i].kind = "start" => log[i].oom \in DOMAIN readable
  /\ \A n \in DOMAIN readable : Of(n, "start") # {} /\ (n < Len(readable) => Killed(n))
  /\ \A i \in DOMAIN log : log[i].kind = "kill" =>
       /\ log[i].oom \in DOMAIN readable
       /\ \E l \in 1 .. i - 1 : log[l] = Line("start", log[i].oom)
       /\ \A l \in 1 .. i - 1 : log[l].kind = "start" =>
            \/ log[l].oom = log[i].oom
            \/ \E k \in 1 .. i - 1 : log[k] = Line("kill", log[l].oom)
       /\ i < Len(log) /\ log[i + 1].kind = "start" => log[i + 1].oom = log[i].oom + 1
       /\ i = Len(log) => log[i].oom = Len(readable)

ReadTo(n, kind) == \E i \in Of(n, kind) : i <= taken

\* Before the loop's last line, the kill of the instance was the line taken last.
LastTaken ==
  parserPc = "last" =>
    taken > 0 /\ log[taken] = Line("kill", instance.killed) /\ readable[instance.killed]

\* A kill of which the parser has read the first line and not the last is being
\* read, or is covered.
Begun ==
  \A n \in DOMAIN readable :
    ReadTo(n, "start") /\ ~ ReadTo(n, "kill") => parserPc \in {"group", "fatal"} \/ Covered(n)

OomInv == /\ OomTypeOK /\ Channel /\ Grammar /\ LastTaken /\ Begun /\ KillsAreReported
          /\ reported \in Seq(Instances)

-----------------------------------------------------------------------------
(* The kernel.                                                             *)

LEMMA NextLineIs ==
  ASSUME OomTypeOK, NEW l \in NextLines
  PROVE  LET n == Len(readable)
         IN /\ l \in Lines
            /\ \/ l = Line("other", 0)
               \/ l = Line("start", n + 1) /\ n < MaxOoms /\ (n = 0 \/ Killed(n))
               \/ l = Line("container", n) /\ n > 0
               \/ l = Line("kill", n) /\ n > 0 /\ ~ Killed(n)
<1> DEFINE n == Len(readable)
<1>1. n \in 0 .. MaxOoms /\ MaxOoms \in Nat
  BY OomAssumption, LenProperties DEF OomTypeOK
<1>2. \/ l = Line("other", 0)
      \/ l = Line("start", n + 1) /\ n < MaxOoms /\ (n = 0 \/ Killed(n))
      \/ l = Line("container", n) /\ n # 0
      \/ l = Line("kill", n) /\ n # 0 /\ ~ Killed(n)
  BY DEF NextLines
<1>3. l \in Lines
  BY <1>1, <1>2 DEF Line, Lines
<1> QED BY <1>1, <1>2, <1>3

LEMMA WriteInv ==
  ASSUME OomInv, Write
  PROVE  OomInv'
<1> DEFINE n == Len(readable)
           end == Len(log)
<1>1. PICK l \in NextLines :
        /\ log' = Append(log, l)
        /\ IF l.kind = "start" THEN \E matches \in BOOLEAN : readable' = Append(readable, matches)
                               ELSE UNCHANGED readable
  BY DEF Write
<1>2. /\ UNCHANGED <<pos, fragment, lineChannel, parserPc, instance, taken, outStream, reported>>
  BY DEF Write, readVars, parserVars
<1>3. /\ l \in Lines
      /\ \/ l = Line("other", 0)
         \/ l = Line("start", n + 1) /\ n < MaxOoms /\ (n = 0 \/ Killed(n))
         \/ l = Line("container", n) /\ n > 0
         \/ l = Line("kill", n) /\ n > 0 /\ ~ Killed(n)
  BY NextLineIs DEF OomInv
<1>4. /\ log \in Seq(Lines) /\ readable \in Seq(BOOLEAN) /\ n \in 0 .. MaxOoms /\ MaxOoms \in Nat
      /\ end \in Nat /\ DOMAIN log = 1 .. end /\ DOMAIN readable = 1 .. n
      /\ taken \in Nat /\ pos \in Nat /\ pos <= end /\ pos = taken + Len(lineChannel)
      /\ Len(lineChannel) \in Nat /\ DOMAIN lineChannel = 1 .. Len(lineChannel)
  <2>1. log \in Seq(Lines) /\ readable \in Seq(BOOLEAN) /\ n <= MaxOoms
    BY DEF OomInv, OomTypeOK, Lines
  <2> QED BY <2>1, OomAssumption, LenProperties DEF OomInv, OomTypeOK, Channel
<1>5. /\ log' \in Seq(Lines) /\ Len(log') = end + 1 /\ DOMAIN log' = 1 .. end + 1
      /\ \A i \in 1 .. end : log'[i] = log[i]
      /\ log'[end + 1] = l
  BY <1>1, <1>3, <1>4, AppendProperties, LenProperties
<1>6. /\ readable' \in Seq(BOOLEAN) /\ Len(readable') = IF l.kind = "start" THEN n + 1 ELSE n
      /\ DOMAIN readable' = 1 .. Len(readable')
      /\ \A i \in 1 .. n : readable'[i] = readable[i]
  <2>1. CASE l.kind = "start"
    <3>1. PICK matches \in BOOLEAN : readable' = Append(readable, matches)
      BY <1>1, <2>1
    <3> QED BY <1>4, <2>1, <3>1, AppendProperties, LenProperties
  <2>2. CASE l.kind # "start"
    BY <1>1, <1>4, <2>2
  <2> QED BY <2>1, <2>2
<1>7. /\ Line("start", n + 1).kind = "start" /\ Line("container", n).kind = "container"
      /\ Line("kill", n).kind = "kill" /\ Line("other", 0).kind = "other"
      /\ Line("start", n + 1).oom = n + 1 /\ Line("kill", n).oom = n
  BY DEF Line
<1>8. Len(readable') \in n .. MaxOoms
  BY <1>3, <1>4, <1>6, <1>7
<1>9. \A m, k : Of(m, k) \subseteq Of(m, k)'
  BY <1>4, <1>5 DEF Of
<1>10. \A m, k : Of(m, k)' \subseteq Of(m, k) \cup (IF l = Line(k, m) THEN {end + 1} ELSE {})
  BY <1>4, <1>5 DEF Of
<1>11. l \in {Line("start", n + 1), Line("kill", n)} => \A m, k : l = Line(k, m) => end + 1 \in Of(m, k)'
  BY <1>4, <1>5 DEF Of
<1>12. OomTypeOK'
  <2>1. log' \in Seq([kind : {"start", "container", "kill", "other"}, oom : 0 .. MaxOoms])
    BY <1>5 DEF Lines
  <2> QED BY <1>2, <1>4, <1>6, <1>8, <2>1 DEF OomInv, OomTypeOK
<1>13. Channel'
  <2>1. \A i \in DOMAIN lineChannel : taken + i \in 1 .. end
    BY <1>4
  <2> QED BY <1>2, <1>4, <1>5, <2>1 DEF OomInv, Channel
<1>14. Grammar'
  <2>1. ASSUME NEW i \in DOMAIN log', log'[i].kind = "start"
        PROVE  log'[i].oom \in DOMAIN readable'
    <3>1. CASE i \in 1 .. end
      BY <1>4, <1>5, <1>6, <1>8, <2>1, <3>1 DEF OomInv, Grammar
    <3>2. CASE i = end + 1
      <4>1. l.kind = "start" /\ l = Line("start", n + 1)
        BY <1>3, <1>5, <1>7, <2>1, <3>2
      <4>2. log'[i].oom = n + 1 /\ n + 1 \in 1 .. Len(readable')
        BY <1>4, <1>5, <1>6, <1>7, <3>2, <4>1
      <4> QED BY <1>6, <4>2
    <3> QED BY <1>4, <1>5, <3>1, <3>2
  <2>2. ASSUME NEW m \in DOMAIN readable'
        PROVE  Of(m, "start")' # {} /\ (m < Len(readable') => Killed(m)')
    <3>1. CASE m \in DOMAIN readable
      <4>1. Of(m, "start")' # {}
        BY <1>9, <3>1 DEF OomInv, Grammar
      <4>2. ASSUME m < Len(readable') PROVE Killed(m)
        <5>1. CASE m < n
          BY <3>1, <5>1 DEF OomInv, Grammar
        <5>2. CASE m = n
          BY <1>3, <1>4, <1>6, <1>7, <3>1, <4>2, <5>2
        <5> QED BY <1>4, <3>1, <5>1, <5>2
      <4>3. Killed(m) => Killed(m)'
        BY <1>9 DEF Killed
      <4> QED BY <4>1, <4>2, <4>3
    <3>2. CASE m \notin DOMAIN readable
      <4>1. m = n + 1 /\ l = Line("start", n + 1) /\ Len(readable') = m
        BY <1>3, <1>4, <1>6, <1>7, <3>2
      <4> QED BY <1>11, <4>1
    <3> QED BY <3>1, <3>2
  <2>3. ASSUME NEW i \in DOMAIN log', log'[i].kind = "kill"
        PROVE  /\ log'[i].oom \in DOMAIN readable'
               /\ \E j \in 1 .. i - 1 : log'[j] = Line("start", log'[i].oom)
               /\ \A j \in 1 .. i - 1 : log'[j].kind = "start" =>
                    \/ log'[j].oom = log'[i].oom
                    \/ \E k \in 1 .. i - 1 : log'[k] = Line("kill", log'[j].oom)
               /\ i < Len(log') /\ log'[i + 1].kind = "start" => log'[i + 1].oom = log'[i].oom + 1
               /\ i = Len(log') => log'[i].oom = Len(readable')
    <3>1. CASE i \in 1 .. end
      <4>1. /\ log'[i] = log[i] /\ log[i].kind = "kill"
            /\ \A j \in 1 .. i - 1 : log'[j] = log[j]
        BY <1>4, <1>5, <2>3, <3>1
      <4>2. /\ log[i].oom \in DOMAIN readable
            /\ \E j \in 1 .. i - 1 : log[j] = Line("start", log[i].oom)
            /\ \A j \in 1 .. i - 1 : log[j].kind = "start" =>
                    \/ log[j].oom = log[i].oom
                    \/ \E k \in 1 .. i - 1 : log[k] = Line("kill", log[j].oom)
            /\ i < Len(log) /\ log[i + 1].kind = "start" => log[i + 1].oom = log[i].oom + 1
            /\ i = Len(log) => log[i].oom = Len(readable)
        BY <1>4, <3>1, <4>1 DEF OomInv, Grammar
      <4>3. i = end => (log'[i + 1].kind = "start" => log'[i + 1].oom = log'[i].oom + 1)
        BY <1>3, <1>5, <1>7, <4>1, <4>2
      <4>4. i # end => i + 1 \in 1 .. end /\ log'[i + 1] = log[i + 1]
        BY <1>4, <1>5, <3>1
      <4>5. i # Len(log')
        BY <1>4, <1>5, <3>1
      <4>6. log'[i].oom \in DOMAIN readable'
        BY <1>4, <1>6, <1>8, <4>1, <4>2
      <4>7. \E j \in 1 .. i - 1 : log'[j] = Line("start", log'[i].oom)
        BY <4>1, <4>2
      <4>8. \A j \in 1 .. i - 1 : log'[j].kind = "start" =>
                    \/ log'[j].oom = log'[i].oom
                    \/ \E k \in 1 .. i - 1 : log'[k] = Line("kill", log'[j].oom)
        <5>1. ASSUME NEW j \in 1 .. i - 1, NEW k \in 1 .. i - 1, log[k] = Line("kill", log[j].oom)
              PROVE  log'[k] = Line("kill", log'[j].oom)
          BY <4>1, <5>1
        <5> QED BY <4>1, <4>2, <5>1
      <4>9. i < Len(log') /\ log'[i + 1].kind = "start" => log'[i + 1].oom = log'[i].oom + 1
        BY <1>4, <1>5, <3>1, <4>1, <4>2, <4>3, <4>4
      <4> QED BY <4>5, <4>6, <4>7, <4>8, <4>9
    <3>2. CASE i = end + 1
      <4>1. log'[i] = Line("kill", n) /\ n > 0 /\ Len(readable') = n
        BY <1>3, <1>5, <1>6, <1>7, <2>3, <3>2
      <4>2. \A j \in 1 .. end : log'[j] = log[j]
        BY <1>5
      <4>3. n \in DOMAIN readable
        BY <1>4, <4>1
      <4>4. PICK s \in Of(n, "start") : TRUE
        BY <4>3 DEF OomInv, Grammar
      <4>5. s \in 1 .. end /\ log[s] = Line("start", n)
        BY <1>4, <4>4 DEF Of
      <4>6. ASSUME NEW j \in 1 .. end, log[j].kind = "start"
            PROVE  log[j].oom = n \/ \E k \in 1 .. end : log[k] = Line("kill", log[j].oom)
        <5>1. log[j].oom \in 1 .. n
          BY <1>4, <4>6 DEF OomInv, Grammar
        <5>2. log[j].oom < n => Killed(log[j].oom)
          BY <1>4, <5>1 DEF OomInv, Grammar
        <5> QED BY <1>4, <5>1, <5>2 DEF Killed, Of
      <4>7. i - 1 = end /\ log'[i].oom = n
        BY <1>4, <1>7, <3>2, <4>1
      <4>8. n \in DOMAIN readable' /\ (i = Len(log') => n = Len(readable')) /\ ~ i < Len(log')
        <5>1. n \in DOMAIN readable'
          BY <1>4, <1>6, <4>1, <4>3
        <5>2. ~ i < Len(log')
          BY <1>4, <1>5, <3>2
        <5> QED BY <4>1, <5>1, <5>2
      <4>9. \E j \in 1 .. end : log'[j] = Line("start", n)
        BY <4>2, <4>5
      <4>10. ASSUME NEW j \in 1 .. end, log'[j].kind = "start"
             PROVE  log'[j].oom = n \/ \E k \in 1 .. end : log'[k] = Line("kill", log'[j].oom)
        <5>1. log[j].kind = "start" /\ log'[j] = log[j]
          BY <4>2, <4>10
        <5>2. CASE log[j].oom = n
          BY <5>1, <5>2
        <5>3. ASSUME NEW k \in 1 .. end, log[k] = Line("kill", log[j].oom)
              PROVE  log'[k] = Line("kill", log'[j].oom)
          BY <4>2, <5>1, <5>3
        <5> QED BY <4>6, <5>1, <5>2, <5>3
      <4> QED BY <4>7, <4>8, <4>9, <4>10
    <3> QED BY <1>4, <1>5, <3>1, <3>2
  <2> QED BY <2>1, <2>2, <2>3 DEF Grammar
<1>15. \A m \in DOMAIN readable : Covered(m) => Covered(m)'
  <2>1. ASSUME NEW m \in DOMAIN readable, NEW i \in Of(m, "start"),
               i > 1, log[i - 1] = Line("kill", m - 1), readable[m - 1]
        PROVE  Covered(m)'
    <3>1. i \in 1 .. end /\ i - 1 \in 1 .. end
      BY <1>4, <2>1 DEF Of
    <3>2. m - 1 \in DOMAIN readable
      <4>1. log[i - 1].kind = "kill" /\ log[i - 1].oom = m - 1
        BY <2>1 DEF Line
      <4> QED BY <1>4, <3>1, <4>1 DEF OomInv, Grammar
    <3>3. i \in Of(m, "start")' /\ log'[i - 1] = log[i - 1] /\ readable'[m - 1]
      BY <1>4, <1>5, <1>6, <1>9, <2>1, <3>1, <3>2
    <3>4. log'[i - 1] = Line("kill", m - 1)
      BY <2>1, <3>3
    <3> QED BY <2>1, <3>3, <3>4 DEF Covered
  <2>2. ASSUME NEW m \in DOMAIN readable, ~ readable[m] PROVE Covered(m)'
    BY <1>4, <1>6, <2>2 DEF Covered
  <2> QED BY <2>1, <2>2 DEF Covered
<1>16. \A m, k : ReadTo(m, k)' <=> ReadTo(m, k)
  BY <1>2, <1>4, <1>9, <1>10 DEF ReadTo
<1>17. LastTaken'
  <2>1. ASSUME parserPc = "last"
        PROVE  taken > 0 /\ log'[taken] = Line("kill", instance.killed) /\ readable'[instance.killed]
    <3>1. taken > 0 /\ log[taken] = Line("kill", instance.killed) /\ readable[instance.killed]
      BY <2>1 DEF OomInv, LastTaken
    <3>2. taken \in 1 .. end
      BY <1>4, <3>1
    <3>3. log[taken].kind = "kill" /\ log[taken].oom = instance.killed
      BY <3>1 DEF Line
    <3>4. instance.killed \in DOMAIN readable
      BY <1>4, <3>2, <3>3 DEF OomInv, Grammar
    <3> QED BY <1>4, <1>5, <1>6, <3>1, <3>2, <3>4
  <2> QED BY <1>2, <2>1 DEF LastTaken
<1>18. \A m \in DOMAIN readable' \ DOMAIN readable, k \in {"start", "kill"} : ~ ReadTo(m, k)
  <2>1. ASSUME NEW m \in DOMAIN readable' \ DOMAIN readable, NEW k \in {"start", "kill"},
               NEW i \in Of(m, k)
        PROVE  FALSE
    <3>1. i \in DOMAIN log /\ log[i].kind = k /\ log[i].oom = m
      BY DEF Of, Line
    <3> QED BY <3>1 DEF OomInv, Grammar
  <2> QED BY <2>1 DEF ReadTo
<1>19. Begun'
  <2>1. ASSUME NEW m \in DOMAIN readable', ReadTo(m, "start")', ~ ReadTo(m, "kill")'
        PROVE  parserPc' \in {"group", "fatal"} \/ Covered(m)'
    <3>1. m \in DOMAIN readable
      BY <1>16, <1>18, <2>1
    <3> QED BY <1>2, <1>15, <1>16, <2>1, <3>1 DEF OomInv, Begun
  <2> QED BY <2>1 DEF Begun
<1>20. KillsAreReported'
  <2>1. ASSUME NEW m \in DOMAIN readable', ReadTo(m, "kill")'
        PROVE  IsReported(m)' \/ Covered(m)'
    <3>1. m \in DOMAIN readable /\ ReadTo(m, "kill")
      BY <1>16, <1>18, <2>1
    <3>2. IsReported(m) \/ Covered(m)
      BY <3>1 DEF OomInv, KillsAreReported, ReadTo
    <3>3. IsReported(m) => IsReported(m)'
      BY <1>2 DEF IsReported
    <3> QED BY <1>15, <3>1, <3>2, <3>3
  <2> QED BY <2>1 DEF KillsAreReported, ReadTo
<1> QED BY <1>2, <1>12, <1>13, <1>14, <1>17, <1>19, <1>20 DEF OomInv

-----------------------------------------------------------------------------
(* The reader and the parser.                                              *)

\* What they do leaves the log alone.
LEMMA LogStays ==
  ASSUME UNCHANGED logVars
  PROVE  /\ UNCHANGED <<log, readable>>
         /\ Grammar => Grammar'
         /\ \A m, k : Of(m, k)' = Of(m, k)
         /\ \A m : Covered(m)' <=> Covered(m)
BY DEF logVars, Grammar, Of, Killed, Covered

LEMMA OomTypes ==
  ASSUME OomInv
  PROVE  /\ log \in Seq(Lines) /\ readable \in Seq(BOOLEAN) /\ lineChannel \in Seq(Lines)
         /\ Len(log) \in Nat /\ DOMAIN log = 1 .. Len(log)
         /\ Len(readable) \in 0 .. MaxOoms /\ DOMAIN readable = 1 .. Len(readable)
         /\ Len(lineChannel) \in Nat /\ DOMAIN lineChannel = 1 .. Len(lineChannel)
         /\ taken \in Nat /\ pos \in Nat /\ pos = taken + Len(lineChannel) /\ pos <= Len(log)
         /\ instance \in Instances /\ MaxOoms \in Nat
<1>1. /\ log \in Seq(Lines) /\ readable \in Seq(BOOLEAN) /\ lineChannel \in Seq(Lines)
      /\ Len(readable) <= MaxOoms /\ taken \in Nat /\ pos <= Len(log)
      /\ pos = taken + Len(lineChannel) /\ instance \in Instances /\ MaxOoms \in Nat
  BY OomAssumption DEF OomInv, OomTypeOK, Channel, Lines, Instances
<1> QED BY <1>1, LenProperties

LEMMA ReaderInv ==
  ASSUME OomInv, Reader
  PROVE  OomInv'
<1>1. UNCHANGED <<log, readable, parserPc, instance, taken, outStream, reported>>
  BY DEF Reader, ReadLine, ReadEof, logVars, parserVars
<1>2. Grammar' /\ LastTaken' /\ Begun' /\ KillsAreReported'
  BY <1>1 DEF OomInv, Grammar, LastTaken, Begun, KillsAreReported, ReadTo, IsReported, Covered,
              Of, Killed
<1>3. CASE ReadLine
  <2>1. /\ pos < Len(log) /\ Len(lineChannel) < LineBuffer /\ pos' = pos + 1 /\ fragment' = FALSE
        /\ lineChannel' = Append(lineChannel, log[pos + 1])
    BY <1>3 DEF ReadLine
  <2>2. pos + 1 \in 1 .. Len(log) /\ log[pos + 1] \in Lines
    BY <2>1, OomTypes, ElementOfSeq
  <2>3. /\ lineChannel' \in Seq(Lines) /\ Len(lineChannel') = Len(lineChannel) + 1
        /\ DOMAIN lineChannel' = 1 .. Len(lineChannel) + 1
        /\ \A i \in 1 .. Len(lineChannel) : lineChannel'[i] = lineChannel[i]
        /\ lineChannel'[Len(lineChannel) + 1] = log[pos + 1]
    BY <2>1, <2>2, OomTypes, AppendProperties, LenProperties
  <2>4. OomTypeOK'
    <3>1. pos' = taken + Len(lineChannel') /\ Len(lineChannel') <= LineBuffer
      BY <2>1, <2>3, OomTypes, BufferAssumption
    <3> QED BY <1>1, <2>1, <3>1 DEF OomInv, OomTypeOK
  <2>5. Channel'
    <3>1. ASSUME NEW i \in DOMAIN lineChannel' PROVE lineChannel'[i] = log[taken + i]
      <4>1. CASE i \in DOMAIN lineChannel
        BY <2>3, <4>1, OomTypes DEF OomInv, Channel
      <4>2. CASE i \notin DOMAIN lineChannel
        <5>1. /\ Len(lineChannel) \in Nat /\ DOMAIN lineChannel = 1 .. Len(lineChannel)
              /\ taken \in Nat /\ pos = taken + Len(lineChannel)
          BY OomTypes
        <5>2. i = Len(lineChannel) + 1
          BY <2>3, <4>2, <5>1
        <5>3. taken + i = pos + 1
          BY <5>1, <5>2
        <5> QED BY <2>3, <5>2, <5>3
      <4> QED BY <4>1, <4>2
    <3> QED BY <1>1, <2>1, <2>2, <2>3, <3>1, OomTypes DEF Channel
  <2> QED BY <1>1, <1>2, <2>4, <2>5 DEF OomInv
<1>4. CASE ReadEof
  BY <1>1, <1>2, <1>4 DEF ReadEof, OomInv, OomTypeOK, Channel
<1> QED BY <1>3, <1>4 DEF Reader

\* The line that is taken is the next one of the log.
LEMMA LineTaken ==
  ASSUME OomInv, NextLine
  PROVE  /\ taken' = taken + 1 /\ taken + 1 \in DOMAIN log /\ taken + 1 \in 1 .. Len(log)
         /\ Head(lineChannel) = log[taken + 1] /\ Head(lineChannel) \in Lines
         /\ Channel' /\ Grammar'
         /\ pos' = taken' + Len(lineChannel') /\ Len(lineChannel') <= LineBuffer
         /\ UNCHANGED <<log, readable, fragment, reported>>
         /\ \A m, k : Of(m, k)' = Of(m, k)
         /\ \A m : Covered(m)' <=> Covered(m)
         /\ \A m, k : ReadTo(m, k)' <=> ReadTo(m, k) \/ log[taken + 1] = Line(k, m)
<1>1. /\ lineChannel # << >> /\ lineChannel' = Tail(lineChannel) /\ taken' = taken + 1
      /\ UNCHANGED <<logVars, pos, fragment, reported>> /\ Len(lineChannel) <= LineBuffer
  BY DEF NextLine, OomInv, OomTypeOK
<1>2. /\ UNCHANGED <<log, readable>> /\ Grammar'
      /\ \A m, k : Of(m, k)' = Of(m, k)
      /\ \A m : Covered(m)' <=> Covered(m)
  BY <1>1, LogStays DEF OomInv
<1>3. /\ Head(lineChannel) = lineChannel[1] /\ Head(lineChannel) \in Lines
      /\ lineChannel' \in Seq(Lines) /\ Len(lineChannel') = Len(lineChannel) - 1
      /\ Len(lineChannel) \in Nat \ {0} /\ DOMAIN lineChannel' = 1 .. Len(lineChannel) - 1
      /\ \A i \in 1 .. Len(lineChannel) - 1 : lineChannel'[i] = lineChannel[i + 1]
  <2>1. lineChannel \in Seq(Lines)
    BY OomTypes
  <2>2. Len(lineChannel) \in Nat \ {0}
    BY <1>1, <2>1, EmptySeq
  <2>3. /\ Head(lineChannel) \in Lines /\ lineChannel' \in Seq(Lines)
        /\ Len(lineChannel') = Len(lineChannel) - 1
        /\ \A i \in 1 .. Len(lineChannel) - 1 : lineChannel'[i] = lineChannel[i + 1]
    BY <1>1, <2>1, HeadTailProperties
  <2>4. DOMAIN lineChannel' = 1 .. Len(lineChannel) - 1
    BY <2>3, LenProperties
  <2>5. Head(lineChannel) = lineChannel[1]
    BY <2>1, <2>2
  <2> QED BY <2>2, <2>3, <2>4, <2>5
<1>4. /\ taken \in Nat /\ pos = taken + Len(lineChannel) /\ pos <= Len(log) /\ Len(log) \in Nat
      /\ DOMAIN log = 1 .. Len(log) /\ DOMAIN lineChannel = 1 .. Len(lineChannel)
      /\ \A i \in DOMAIN lineChannel : lineChannel[i] = log[taken + i]
  BY OomTypes DEF OomInv, Channel
<1>5. taken + 1 \in 1 .. Len(log) /\ Head(lineChannel) = log[taken + 1]
  BY <1>3, <1>4
<1>6. Channel'
  <2>1. ASSUME NEW i \in DOMAIN lineChannel' PROVE lineChannel'[i] = log[taken' + i]
    <3>1. i \in 1 .. Len(lineChannel) - 1 /\ i + 1 \in DOMAIN lineChannel
      BY <1>3, <1>4
    <3>2. taken' + i = taken + (i + 1)
      BY <1>1, <1>4, <3>1
    <3> QED BY <1>3, <1>4, <3>1, <3>2
  <2> QED BY <1>1, <1>2, <1>3, <1>4, <2>1 DEF Channel
<1>7. pos' = taken' + Len(lineChannel') /\ Len(lineChannel') <= LineBuffer
  BY <1>1, <1>3, <1>4, BufferAssumption
<1>8. ASSUME NEW m, NEW k
      PROVE  ReadTo(m, k)' <=> ReadTo(m, k) \/ log[taken + 1] = Line(k, m)
  <2>1. ReadTo(m, k)' <=> \E i \in Of(m, k) : i <= taken + 1
    BY <1>1, <1>2 DEF ReadTo
  <2>2. \A i \in Of(m, k) : i \in 1 .. Len(log) /\ (i <= taken + 1 <=> i <= taken \/ i = taken + 1)
    BY <1>4 DEF Of
  <2>3. taken + 1 \in Of(m, k) <=> log[taken + 1] = Line(k, m)
    BY <1>4, <1>5 DEF Of
  <2>4. taken + 1 <= taken + 1
    BY <1>4
  <2> QED BY <2>1, <2>2, <2>3, <2>4 DEF ReadTo
<1> QED BY <1>1, <1>2, <1>3, <1>4, <1>5, <1>6, <1>7, <1>8

\* The type of the parser's state, when it sends nothing.
LEMMA ParserTypes ==
  ASSUME OomInv, NextLine, UNCHANGED outStream, instance' \in Instances,
         parserPc' \in {"outer", "group", "last", "send", "fatal"}
  PROVE  OomTypeOK'
BY LineTaken DEF OomInv, OomTypeOK, Instances

\* A kill that has begun and whose end comes next is the one whose line it is.
LEMMA EndsInOrder ==
  ASSUME OomInv, taken + 1 \in DOMAIN log, NEW j, log[taken + 1] = Line("kill", j),
         NEW m, ReadTo(m, "start"), ~ ReadTo(m, "kill")
  PROVE  m = j
<1>1. PICK i \in Of(m, "start") : i <= taken
  BY DEF ReadTo
<1>2. i \in 1 .. (taken + 1) - 1 /\ log[i].kind = "start" /\ log[i].oom = m
  BY <1>1, OomTypes DEF Of, Line
<1>3. log[taken + 1].kind = "kill" /\ log[taken + 1].oom = j
  BY DEF Line
<1>4. m = j \/ \E k \in 1 .. (taken + 1) - 1 : log[k] = Line("kill", m)
  BY <1>2, <1>3 DEF OomInv, Grammar
<1>5. ASSUME NEW k \in 1 .. (taken + 1) - 1, log[k] = Line("kill", m) PROVE FALSE
  <2>1. k \in Of(m, "kill") /\ k <= taken
    BY <1>5, OomTypes DEF Of
  <2> QED BY <2>1 DEF ReadTo
<1> QED BY <1>4, <1>5

\* The first line of a kill was read if its last line comes next.
LEMMA EndsBegun ==
  ASSUME OomInv, taken + 1 \in DOMAIN log, NEW j, log[taken + 1] = Line("kill", j)
  PROVE  ReadTo(j, "start") /\ j \in DOMAIN readable
<1>1. log[taken + 1].kind = "kill" /\ log[taken + 1].oom = j
  BY DEF Line
<1>2. PICK l \in 1 .. (taken + 1) - 1 : log[l] = Line("start", j)
  BY <1>1 DEF OomInv, Grammar
<1>3. l \in Of(j, "start") /\ l <= taken
  BY <1>2, OomTypes DEF Of
<1> QED BY <1>1, <1>3 DEF OomInv, Grammar, ReadTo

LEMMA OuterLineInv ==
  ASSUME OomInv, OuterLine
  PROVE  OomInv'
<1> DEFINE l == log[taken + 1]
<1>1. /\ parserPc = "outer" /\ NextLine /\ UNCHANGED outStream
      /\ IF Head(lineChannel).kind = "start"
           THEN parserPc' = "group" /\ instance' = Instance(Root, Root, 0)
           ELSE UNCHANGED <<parserPc, instance>>
  BY DEF OuterLine
<1>2. /\ taken' = taken + 1 /\ taken + 1 \in DOMAIN log /\ Head(lineChannel) = l /\ l \in Lines
      /\ Channel' /\ Grammar' /\ UNCHANGED <<log, readable, reported>>
      /\ \A m : Covered(m)' <=> Covered(m)
      /\ \A m, k : ReadTo(m, k)' <=> ReadTo(m, k) \/ l = Line(k, m)
  BY <1>1, LineTaken
<1>3. OomTypeOK'
  <2>1. Instance(Root, Root, 0) \in Instances
    BY OomTypes DEF Instance, Root, Instances
  <2> QED BY <1>1, <2>1, ParserTypes, OomTypes
<1>4. LastTaken'
  BY <1>1 DEF LastTaken
<1>5. \A m : IsReported(m)' <=> IsReported(m)
  BY <1>1, <1>2 DEF IsReported
<1>6. Begun'
  <2>1. ASSUME NEW m \in DOMAIN readable, ReadTo(m, "start")', ~ ReadTo(m, "kill")'
        PROVE  parserPc' = "group" \/ Covered(m)
    <3>1. l = Line("start", m) => parserPc' = "group"
      BY <1>1, <1>2 DEF Line
    <3> QED BY <1>1, <1>2, <2>1, <3>1 DEF OomInv, Begun
  <2> QED BY <1>2, <2>1 DEF Begun
<1>7. KillsAreReported'
  <2>1. ASSUME NEW m \in DOMAIN readable, ReadTo(m, "kill")' PROVE IsReported(m) \/ Covered(m)
    <3>1. CASE ReadTo(m, "kill")
      BY <3>1 DEF OomInv, KillsAreReported, ReadTo
    <3>2. CASE ~ ReadTo(m, "kill")
      <4>1. ReadTo(m, "start")
        BY <1>2, <2>1, <3>2, EndsBegun
      <4> QED BY <1>1, <3>2, <4>1 DEF OomInv, Begun
    <3> QED BY <3>1, <3>2
  <2> QED BY <1>2, <1>5, <2>1 DEF KillsAreReported, ReadTo
<1> QED BY <1>2, <1>3, <1>4, <1>6, <1>7 DEF OomInv

LEMMA GroupLineInv ==
  ASSUME OomInv, GroupLine
  PROVE  OomInv'
<1> DEFINE l == log[taken + 1]
           finished == l.kind = "kill" /\ readable[l.oom]
<1>1. /\ taken' = taken + 1 /\ taken + 1 \in DOMAIN log /\ Head(lineChannel) = l /\ l \in Lines
      /\ Channel' /\ Grammar' /\ UNCHANGED <<log, readable, reported>>
      /\ \A m : Covered(m)' <=> Covered(m)
      /\ \A m, k : ReadTo(m, k)' <=> ReadTo(m, k) \/ l = Line(k, m)
  BY LineTaken DEF GroupLine
<1>2. /\ parserPc = "group" /\ NextLine /\ UNCHANGED outStream
      /\ parserPc' = IF finished THEN "last" ELSE "group"
      /\ instance' = [container |-> IF l.kind = "container" THEN l.oom ELSE instance.container,
                      victim |-> IF l.kind = "container" THEN - l.oom ELSE instance.victim,
                      killed |-> IF finished THEN l.oom ELSE instance.killed]
  BY <1>1 DEF GroupLine, Instance
<1>3. l = [kind |-> l.kind, oom |-> l.oom] /\ l.oom \in 0 .. MaxOoms
  BY <1>1 DEF Lines
<1>4. OomTypeOK'
  <2>1. instance' \in Instances
    <3>1. instance \in Instances /\ MaxOoms \in Nat
      BY OomTypes
    <3>2. - l.oom \in -MaxOoms .. 0
      BY <1>3, <3>1
    <3> HIDE DEF l, finished
    <3> QED BY <1>2, <1>3, <3>1, <3>2 DEF Instances
  <2>2. parserPc' \in {"outer", "group", "last", "send", "fatal"}
    BY <1>2
  <2> QED BY <1>2, <2>1, <2>2, ParserTypes
<1>5. finished => l = Line("kill", l.oom) /\ instance'.killed = l.oom
  BY <1>2, <1>3 DEF Line
<1>6. LastTaken'
  <2>1. taken + 1 > 0
    BY OomTypes
  <2> QED BY <1>1, <1>2, <1>5, <2>1 DEF LastTaken
<1>7. \A m : IsReported(m) => IsReported(m)'
  BY <1>1, <1>2 DEF IsReported
<1>8. Begun'
  <2>1. ASSUME NEW m \in DOMAIN readable, ReadTo(m, "start")', ~ ReadTo(m, "kill")', finished
        PROVE  FALSE
    <3>1. ~ ReadTo(m, "kill") /\ l # Line("kill", m) /\ (ReadTo(m, "start") \/ l = Line("start", m))
      BY <1>1, <2>1
    <3>2. l # Line("start", m)
      BY <2>1 DEF Line
    <3>3. m # l.oom
      BY <1>5, <2>1, <3>1
    <3> HIDE DEF finished
    <3> QED BY <1>1, <1>5, <2>1, <3>1, <3>2, <3>3, EndsInOrder
  <2> QED BY <1>1, <1>2, <2>1 DEF Begun
<1>9. KillsAreReported'
  <2>1. ASSUME NEW m \in DOMAIN readable, ReadTo(m, "kill")' PROVE IsReported(m)' \/ Covered(m)
    <3>1. CASE ReadTo(m, "kill")
      BY <1>7, <3>1 DEF OomInv, KillsAreReported, ReadTo
    <3>2. CASE l = Line("kill", m) /\ ~ readable[m]
      BY <3>2 DEF Covered
    <3>3. CASE l = Line("kill", m) /\ readable[m]
      <4>1. finished /\ l.oom = m
        BY <3>3 DEF Line
      <4> QED BY <1>2, <1>5, <4>1 DEF IsReported
    <3> QED BY <1>1, <2>1, <3>1, <3>2, <3>3
  <2> QED BY <1>1, <2>1 DEF KillsAreReported, ReadTo
<1> QED BY <1>1, <1>4, <1>6, <1>8, <1>9 DEF OomInv

LEMMA ParseFailsInv ==
  ASSUME OomInv, ParseFails
  PROVE  OomInv'
<1>1. /\ parserPc = "group" /\ parserPc' = "fatal"
      /\ UNCHANGED <<log, readable, pos, fragment, lineChannel, instance, taken, outStream, reported>>
  BY DEF ParseFails, logVars, readVars
<1>2. OomTypeOK'
  BY <1>1 DEF OomInv, OomTypeOK
<1>3. Channel' /\ Grammar' /\ LastTaken' /\ Begun' /\ KillsAreReported' /\ reported' \in Seq(Instances)
  BY <1>1 DEF OomInv, Channel, Grammar, LastTaken, Begun, KillsAreReported, ReadTo, IsReported,
              Covered, Of, Killed
<1> QED BY <1>2, <1>3 DEF OomInv

LEMMA LastLineInv ==
  ASSUME OomInv, LastLine
  PROVE  OomInv'
<1> DEFINE l == log[taken + 1]
<1>1. /\ taken' = taken + 1 /\ taken + 1 \in DOMAIN log /\ Head(lineChannel) = l /\ l \in Lines
      /\ Channel' /\ Grammar' /\ UNCHANGED <<log, readable, reported>>
      /\ \A m : Covered(m)' <=> Covered(m)
      /\ \A m, k : ReadTo(m, k)' <=> ReadTo(m, k) \/ l = Line(k, m)
  BY LineTaken DEF LastLine
<1>2. parserPc = "last" /\ NextLine /\ UNCHANGED <<outStream, instance>> /\ parserPc' = "send"
  BY DEF LastLine
<1>3. OomTypeOK'
  BY <1>2, ParserTypes, OomTypes
<1>4. \A m : IsReported(m)' <=> IsReported(m)
  BY <1>1, <1>2 DEF IsReported
\* The line nobody looks at may be the first of a kill, that is covered then.
<1>5. ASSUME NEW m \in DOMAIN readable, l = Line("start", m) PROVE Covered(m)
  <2>1. taken > 0 /\ log[taken] = Line("kill", instance.killed) /\ readable[instance.killed]
    BY <1>2 DEF OomInv, LastTaken
  <2>2. /\ taken \in Nat /\ Len(log) \in Nat /\ DOMAIN log = 1 .. Len(log)
        /\ instance.killed \in Nat
    BY OomTypes DEF Instances
  <2>3. taken \in DOMAIN log /\ taken < Len(log) /\ taken + 1 > 1 /\ (taken + 1) - 1 = taken
    BY <1>1, <2>1, <2>2
  <2>4. l.kind = "start" /\ l.oom = m /\ log[taken].kind = "kill" /\ log[taken].oom = instance.killed
    BY <1>5, <2>1 DEF Line
  <2>5. m = instance.killed + 1
    BY <2>3, <2>4 DEF OomInv, Grammar
  <2>6. instance.killed = m - 1
    BY <2>2, <2>5
  <2>7. taken + 1 \in Of(m, "start")
    BY <1>1, <1>5 DEF Of
  <2> QED BY <2>1, <2>3, <2>6, <2>7 DEF Covered
<1>6. Begun'
  <2>1. ASSUME NEW m \in DOMAIN readable, ReadTo(m, "start")', ~ ReadTo(m, "kill")' PROVE Covered(m)
    BY <1>1, <1>2, <1>5, <2>1 DEF OomInv, Begun
  <2> QED BY <1>1, <2>1 DEF Begun
<1>7. KillsAreReported'
  <2>1. ASSUME NEW m \in DOMAIN readable, ReadTo(m, "kill")' PROVE IsReported(m) \/ Covered(m)
    <3>1. CASE ReadTo(m, "kill")
      BY <3>1 DEF OomInv, KillsAreReported, ReadTo
    <3>2. CASE ~ ReadTo(m, "kill")
      <4>1. ReadTo(m, "start")
        BY <1>1, <2>1, <3>2, EndsBegun
      <4> QED BY <1>2, <3>2, <4>1 DEF OomInv, Begun
    <3> QED BY <3>1, <3>2
  <2> QED BY <1>1, <1>4, <2>1 DEF KillsAreReported, ReadTo
<1>8. LastTaken'
  BY <1>2 DEF LastTaken
<1> QED BY <1>1, <1>3, <1>6, <1>7, <1>8 DEF OomInv

LEMMA SeqGrows ==
  ASSUME NEW S, NEW T, S \subseteq T, NEW s \in Seq(S)
  PROVE  s \in Seq(T)
OBVIOUS

LEMMA SendInstanceInv ==
  ASSUME OomInv, SendInstance
  PROVE  OomInv'
<1>1. /\ parserPc = "send" /\ parserPc' = "outer"
      /\ Len(outStream) < OutBuffer /\ outStream' = Append(outStream, instance)
      /\ reported' = Append(reported, instance)
      /\ UNCHANGED <<logVars, readVars, instance, taken>>
      /\ UNCHANGED <<pos, fragment, lineChannel>>
  BY DEF SendInstance, readVars
<1>2. /\ UNCHANGED <<log, readable>> /\ Grammar'
      /\ \A m, k : Of(m, k)' = Of(m, k)
      /\ \A m : Covered(m)' <=> Covered(m)
  BY <1>1, LogStays DEF OomInv
<1>3. Channel' /\ LastTaken'
  BY <1>1, <1>2 DEF OomInv, Channel, LastTaken
<1>4. reported \in Seq(Instances) /\ instance \in Instances
  BY OomTypes DEF OomInv
<1>5. /\ reported' \in Seq(Instances) /\ Len(reported') = Len(reported) + 1
      /\ Len(reported) \in Nat /\ DOMAIN reported = 1 .. Len(reported)
      /\ DOMAIN reported' = 1 .. Len(reported) + 1
      /\ \A i \in 1 .. Len(reported) : reported'[i] = reported[i]
      /\ reported'[Len(reported) + 1] = instance
  BY <1>1, <1>4, AppendProperties, LenProperties
<1> DEFINE sent == { reported[i] : i \in DOMAIN reported }
<1>6. sent' \subseteq Instances /\ sent \subseteq sent' /\ instance \in sent'
  <2>1. ASSUME NEW i \in DOMAIN reported' PROVE reported'[i] \in Instances
    BY <1>5, <2>1, ElementOfSeq
  <2>2. \A i \in DOMAIN reported : i \in DOMAIN reported' /\ reported'[i] = reported[i]
    BY <1>5
  <2>3. Len(reported) + 1 \in DOMAIN reported'
    BY <1>5
  <2> QED BY <1>5, <2>1, <2>2, <2>3
<1>7. outStream' \in Seq(sent') /\ Len(outStream') <= OutBuffer
  <2>1. outStream \in Seq(sent) /\ Len(outStream) \in Nat
    BY LenProperties DEF OomInv, OomTypeOK
  <2>2. outStream \in Seq(sent')
    BY <1>6, <2>1, SeqGrows
  <2> QED BY <1>1, <1>6, <2>1, <2>2, BufferAssumption, AppendProperties
<1>8. OomTypeOK'
  <2>1. {instance} \cup sent' \subseteq [container : 0 .. MaxOoms, victim : -MaxOoms .. 0, killed : 0 .. MaxOoms]
    BY <1>4, <1>6 DEF Instances
  <2> HIDE DEF sent
  <2>2. (OomTypeOK /\ {instance} \cup sent' \subseteq [container : 0 .. MaxOoms, victim : -MaxOoms .. 0, killed : 0 .. MaxOoms]
         /\ outStream' \in Seq(sent') /\ Len(outStream') <= OutBuffer) => OomTypeOK'
    BY <1>1, <1>2 DEF OomTypeOK, sent
  <2> QED BY <1>7, <2>1, <2>2 DEF OomInv
<1>9. \A m : IsReported(m) => IsReported(m)'
  <2>1. ASSUME NEW m, NEW i \in DOMAIN reported, reported[i].killed = m PROVE IsReported(m)'
    <3>1. i \in DOMAIN reported' /\ reported'[i] = reported[i]
      BY <1>5
    <3> QED BY <2>1, <3>1 DEF IsReported
  <2>2. ASSUME NEW m, instance.killed = m PROVE IsReported(m)'
    <3>1. Len(reported) + 1 \in DOMAIN reported' /\ reported'[Len(reported) + 1] = instance
      BY <1>5
    <3> QED BY <2>2, <3>1 DEF IsReported
  <2> QED BY <2>1, <2>2 DEF IsReported
<1>10. \A m, k : ReadTo(m, k)' <=> ReadTo(m, k)
  BY <1>1, <1>2 DEF ReadTo
<1>11. Begun' /\ KillsAreReported'
  <2>1. ASSUME NEW m \in DOMAIN readable, ReadTo(m, "kill") PROVE IsReported(m)' \/ Covered(m)
    BY <1>9, <2>1 DEF OomInv, KillsAreReported, ReadTo
  <2>2. ASSUME NEW m \in DOMAIN readable, ReadTo(m, "start"), ~ ReadTo(m, "kill") PROVE Covered(m)
    BY <1>1, <2>2 DEF OomInv, Begun
  <2>3. KillsAreReported'
    BY <1>1, <1>2, <2>1 DEF KillsAreReported, ReadTo
  <2> QED BY <1>2, <1>10, <2>2, <2>3 DEF Begun
<1> QED BY <1>2, <1>3, <1>5, <1>8, <1>11 DEF OomInv

\* What the publisher takes is an instance that was sent.
LEMMA TakeInstanceOom ==
  ASSUME OomInv, TakeInstance
  PROVE  /\ OomInv' /\ Head(outStream).container \in 0 .. MaxOoms
         /\ Head(outStream).victim \in -MaxOoms .. 0
<1> DEFINE sent == { reported[i] : i \in DOMAIN reported }
<1>1. /\ outStream # << >> /\ outStream' = Tail(outStream)
      /\ UNCHANGED <<log, readable, pos, fragment, lineChannel, parserPc, instance, taken, reported>>
  BY DEF TakeInstance, logVars, readVars
<1>2. outStream \in Seq(sent) /\ sent \subseteq [container : 0 .. MaxOoms, victim : -MaxOoms .. 0, killed : 0 .. MaxOoms]
      /\ Len(outStream) <= OutBuffer
  BY DEF OomInv, OomTypeOK
<1>3. /\ Head(outStream) \in sent /\ outStream' \in Seq(sent)
      /\ Len(outStream') = Len(outStream) - 1 /\ Len(outStream) \in Nat
  BY <1>1, <1>2, HeadTailProperties, LenProperties
<1>4. Head(outStream).container \in 0 .. MaxOoms /\ Head(outStream).victim \in -MaxOoms .. 0
  BY <1>2, <1>3
<1>5. Len(outStream') <= OutBuffer
  BY <1>2, <1>3, BufferAssumption
<1>6. OomTypeOK'
  BY <1>1, <1>3, <1>5 DEF OomInv, OomTypeOK
<1>7. Channel' /\ Grammar' /\ LastTaken' /\ Begun' /\ KillsAreReported' /\ reported' \in Seq(Instances)
  BY <1>1 DEF OomInv, Channel, Grammar, LastTaken, Begun, KillsAreReported, ReadTo, IsReported,
              Covered, Of, Killed
<1> QED BY <1>4, <1>6, <1>7 DEF OomInv

LEMMA OomStays ==
  ASSUME OomInv, UNCHANGED oomVars
  PROVE  OomInv'
<1>1. UNCHANGED <<log, readable, pos, fragment, lineChannel, parserPc, instance, taken, outStream,
                  reported>>
  BY DEF oomVars, logVars, readVars, parserVars
<1>2. OomTypeOK'
  BY <1>1 DEF OomInv, OomTypeOK
<1>3. Channel' /\ Grammar' /\ LastTaken' /\ Begun' /\ KillsAreReported' /\ reported' \in Seq(Instances)
  BY <1>1 DEF OomInv, Channel, Grammar, LastTaken, Begun, KillsAreReported, ReadTo, IsReported,
              Covered, Of, Killed
<1> QED BY <1>2, <1>3 DEF OomInv

LEMMA OomStarts == OomInit => OomInv
<1> SUFFICES ASSUME OomInit PROVE OomInv
  OBVIOUS
<1>1. /\ log = << >> /\ readable = << >> /\ pos = 0 /\ fragment = FALSE /\ lineChannel = << >>
      /\ parserPc = "outer" /\ instance = Instance(Root, Root, 0) /\ taken = 0
      /\ outStream = << >> /\ reported = << >>
  BY DEF OomInit
<1>2. Instance(Root, Root, 0) \in Instances /\ {MaxOoms, LineBuffer, OutBuffer} \subseteq Nat
  BY OomAssumption, BufferAssumption DEF Instance, Root, Instances
<1>3. DOMAIN readable = {} /\ DOMAIN log = {} /\ DOMAIN lineChannel = {} /\ DOMAIN reported = {}
      /\ Len(lineChannel) = 0 /\ Len(readable) = 0 /\ Len(log) = 0 /\ Len(outStream) = 0
  BY <1>1
<1>4. OomTypeOK
  <2>1. log \in Seq(Lines) /\ readable \in Seq(BOOLEAN) /\ \A S : outStream \in Seq(S)
    BY <1>1
  <2>2. { reported[i] : i \in DOMAIN reported } = {}
    BY <1>3
  <2>3. pos = taken + Len(lineChannel)
    BY <1>1, <1>3
  <2>4. {instance} \cup { reported[i] : i \in DOMAIN reported }
          \subseteq [container : 0 .. MaxOoms, victim : -MaxOoms .. 0, killed : 0 .. MaxOoms]
    BY <1>1, <1>2, <2>2 DEF Instances
  <2>5. Len(readable) <= MaxOoms /\ Len(lineChannel) <= LineBuffer /\ Len(outStream) <= OutBuffer
    BY <1>2, <1>3
  <2>6. fragment \in BOOLEAN /\ parserPc \in {"outer", "group", "last", "send", "fatal"}
    BY <1>1
  <2>7. log \in Seq([kind : {"start", "container", "kill", "other"}, oom : 0 .. MaxOoms])
    BY <2>1 DEF Lines
  <2> QED BY <2>1, <2>3, <2>4, <2>5, <2>6, <2>7 DEF OomTypeOK
<1>5. lineChannel \in Seq(Lines) /\ reported \in Seq(Instances)
  BY <1>1
<1> QED BY <1>1, <1>3, <1>4, <1>5 DEF OomInv, Channel, Grammar, LastTaken, Begun, KillsAreReported

-----------------------------------------------------------------------------
(* The container that a report names.                                      *)

\* The lines of the kills come in the order of their ranks.
Rank(l) == 3 * l.oom + (IF l.kind = "start" THEN 0 ELSE IF l.kind = "container" THEN 1 ELSE 2)
OfKill(l) == l.kind # "other"
Ranked ==
  /\ \A i, j \in DOMAIN log :
       i < j /\ OfKill(log[i]) /\ OfKill(log[j]) => Rank(log[i]) < Rank(log[j])
  /\ \A i \in DOMAIN log : OfKill(log[i]) => log[i].oom \in DOMAIN readable
  /\ \A n \in DOMAIN readable :
       /\ n < Len(readable) => Killed(n)
       /\ Of(n, "container") # {} => n \in Limited
       /\ Killed(n) /\ n \in Limited => Of(n, "container") # {}

\* What the instance says, while its kill is read: the container of the kill
\* that is being read, if its line came, or of an earlier one that the loop did
\* not see the end of.
Holds(c) ==
  /\ \A n \in DOMAIN readable :
       ReadTo(n, "container") /\ ~ ReadTo(n, "kill") => c = n
  /\ \/ c = Root
     \/ /\ c \in Limited /\ ReadTo(c, "container")
        /\ ReadTo(c, "kill") => ~ readable[c]

Named(r) == OfItsKill(r) /\ ReadTo(r.killed, "kill")

InTurn ==
  \A i \in DOMAIN reported :
    Named(reported[i]) /\ \A j \in 1 .. i - 1 : reported[j].killed < reported[i].killed

NameInv ==
  /\ Ranked /\ InTurn
  /\ parserPc = "group" => Holds(instance.container) /\ instance.container + instance.victim = 0
  /\ parserPc \in {"last", "send"} =>
       Named(instance) /\ \A i \in DOMAIN reported : reported[i].killed < instance.killed

LEMMA RankIs ==
  ASSUME NEW l \in Lines, NEW m \in Lines
  PROVE  /\ Rank(l) \in 3 * l.oom .. 3 * l.oom + 2 /\ l.oom \in Nat
         /\ l.oom < m.oom => Rank(l) < Rank(m)
         /\ l.kind = "kill" => Rank(l) = 3 * l.oom + 2
         /\ l.kind = "container" => Rank(l) = 3 * l.oom + 1
         /\ l.kind = "start" => Rank(l) = 3 * l.oom
<1>1. l.oom \in Nat /\ m.oom \in Nat
  BY OomAssumption DEF Lines
<1>2. Rank(l) \in 3 * l.oom .. 3 * l.oom + 2 /\ Rank(m) \in 3 * m.oom .. 3 * m.oom + 2
  BY <1>1 DEF Rank
<1>3. l.oom < m.oom => Rank(l) < Rank(m)
  BY <1>1, <1>2
<1> QED BY <1>1, <1>2, <1>3 DEF Rank

LEMMA WriteRanked ==
  ASSUME OomInv, Ranked, Write
  PROVE  /\ Ranked'
         /\ \A m, k : ReadTo(m, k)' <=> ReadTo(m, k)
         /\ DOMAIN readable \subseteq DOMAIN readable'
         /\ \A m \in DOMAIN readable : readable'[m] = readable[m]
<1> DEFINE n == Len(readable)
           end == Len(log)
<1>1. PICK l \in NextLines :
        /\ log' = Append(log, l)
        /\ IF l.kind = "start" THEN \E matches \in BOOLEAN : readable' = Append(readable, matches)
                               ELSE UNCHANGED readable
  BY DEF Write
<1>2. taken' = taken
  BY DEF Write, parserVars
<1>3. /\ l \in Lines
      /\ \/ l = Line("other", 0)
         \/ l = Line("start", n + 1) /\ (n = 0 \/ Killed(n))
         \/ l = Line("container", n) /\ n > 0
         \/ l = Line("kill", n) /\ n > 0
  BY NextLineIs DEF OomInv
<1>4. /\ l = Line("container", n) => ~ Killed(n) /\ n \in Limited /\ Of(n, "container") = {}
      /\ l = Line("kill", n) => ~ Killed(n) /\ (n \in Limited => Of(n, "container") # {})
  BY DEF NextLines, Line
<1>5. /\ log \in Seq(Lines) /\ readable \in Seq(BOOLEAN) /\ n \in Nat /\ end \in Nat
      /\ DOMAIN log = 1 .. end /\ DOMAIN readable = 1 .. n
      /\ taken \in Nat /\ taken <= end
  BY OomTypes
<1>6. /\ DOMAIN log' = 1 .. end + 1 /\ \A i \in 1 .. end : log'[i] = log[i]
      /\ log'[end + 1] = l
  BY <1>1, <1>3, <1>5, AppendProperties, LenProperties
<1>7. /\ Len(readable') = IF l.kind = "start" THEN n + 1 ELSE n
      /\ DOMAIN readable' = 1 .. Len(readable')
      /\ \A i \in 1 .. n : readable'[i] = readable[i]
  <2>1. CASE l.kind = "start"
    <3>1. PICK matches \in BOOLEAN : readable' = Append(readable, matches)
      BY <1>1, <2>1
    <3> QED BY <1>5, <2>1, <3>1, AppendProperties, LenProperties
  <2>2. CASE l.kind # "start"
    BY <1>1, <1>5, <2>2
  <2> QED BY <2>1, <2>2
<1>8. \A m, k : Of(m, k)' = Of(m, k) \cup (IF l = Line(k, m) THEN {end + 1} ELSE {})
  BY <1>5, <1>6 DEF Of
<1>9. ASSUME NEW i \in 1 .. end, OfKill(log[i]), OfKill(l)
      PROVE  Rank(log[i]) < Rank(l)
  <2>1. log[i] \in Lines /\ log[i].oom \in 1 .. n
    BY <1>5, <1>9, ElementOfSeq DEF Ranked
  <2>2. log[i] = Line(log[i].kind, log[i].oom) /\ log[i].kind \in {"start", "container", "kill"}
    BY <1>9, <2>1 DEF Lines, Line, OfKill
  <2>3. l.oom \in {n, n + 1} /\ (l.oom = n + 1 \/ l.oom >= log[i].oom)
    BY <1>3, <1>5, <1>9, <2>1 DEF Line, OfKill
  <2>4. CASE log[i].oom < l.oom
    BY <1>3, <2>1, <2>4, RankIs
  <2>5. CASE log[i].oom = l.oom
    <3>1. l = Line(l.kind, n) /\ l.kind \in {"container", "kill"} /\ log[i].oom = n
      BY <1>3, <1>5, <1>9, <2>1, <2>5 DEF Line, OfKill
    <3>2. i \in Of(n, log[i].kind)
      BY <1>5, <2>2, <3>1 DEF Of
    <3>3. log[i].kind # "kill" /\ (l.kind = "container" => log[i].kind = "start")
      BY <1>4, <2>2, <3>1, <3>2 DEF Killed
    <3>4. Rank(log[i]) = 3 * n + (IF log[i].kind = "start" THEN 0 ELSE 1)
      BY <2>2, <3>1, <3>3 DEF Rank
    <3>5. Rank(l) = 3 * n + (IF l.kind = "container" THEN 1 ELSE 2)
      BY <2>5, <3>1 DEF Rank
    <3> QED BY <1>5, <3>1, <3>3, <3>4, <3>5
  <2> QED BY <1>5, <2>1, <2>3, <2>4, <2>5
<1>10. OfKill(l) => l.oom \in DOMAIN readable'
  BY <1>3, <1>5, <1>7 DEF Line, OfKill
<1>11. \A i, j \in DOMAIN log' :
         i < j /\ OfKill(log'[i]) /\ OfKill(log'[j]) => Rank(log'[i]) < Rank(log'[j])
  <2>1. ASSUME NEW i \in DOMAIN log', NEW j \in DOMAIN log', i < j,
               OfKill(log'[i]), OfKill(log'[j])
        PROVE  Rank(log'[i]) < Rank(log'[j])
    <3>1. i \in 1 .. end /\ (j \in 1 .. end \/ j = end + 1)
      BY <1>5, <1>6, <2>1
    <3>2. CASE j \in 1 .. end
      BY <1>5, <1>6, <2>1, <3>1, <3>2 DEF Ranked
    <3>3. CASE j = end + 1
      BY <1>6, <1>9, <2>1, <3>1, <3>3
    <3> QED BY <3>1, <3>2, <3>3
  <2> QED BY <2>1
<1>12. \A i \in DOMAIN log' : OfKill(log'[i]) => log'[i].oom \in DOMAIN readable'
  <2>1. ASSUME NEW i \in DOMAIN log', OfKill(log'[i]) PROVE log'[i].oom \in DOMAIN readable'
    <3>1. CASE i \in 1 .. end
      <4>1. log[i].oom \in 1 .. n
        BY <1>5, <1>6, <2>1, <3>1 DEF Ranked
      <4> QED BY <1>5, <1>6, <1>7, <3>1, <4>1
    <3>2. CASE i = end + 1
      BY <1>6, <1>10, <2>1, <3>2
    <3> QED BY <1>5, <1>6, <3>1, <3>2
  <2> QED BY <2>1
<1>13. ASSUME NEW m \in DOMAIN readable'
       PROVE  /\ m < Len(readable') => Killed(m)'
              /\ Of(m, "container")' # {} => m \in Limited
              /\ Killed(m)' /\ m \in Limited => Of(m, "container")' # {}
  <2>1. CASE m \in 1 .. n
    <3>1. /\ m < n => Killed(m)
          /\ Of(m, "container") # {} => m \in Limited
          /\ Killed(m) /\ m \in Limited => Of(m, "container") # {}
      BY <1>5, <2>1 DEF Ranked
    <3>2. Killed(m)' <=> Killed(m) \/ l = Line("kill", m)
      BY <1>8 DEF Killed
    <3>3. Of(m, "container")' # {} <=> Of(m, "container") # {} \/ l = Line("container", m)
      BY <1>8
    <3>4. m < Len(readable') => m < n \/ (Killed(n) /\ m = n)
      BY <1>3, <1>5, <1>7, <2>1 DEF Line
    <3>5. l = Line("kill", m) \/ l = Line("container", m) => m = n
      BY <1>3 DEF Line
    <3> QED BY <1>4, <3>1, <3>2, <3>3, <3>4, <3>5
  <2>2. CASE m = n + 1 /\ l.kind = "start"
    <3>1. Of(m, "kill")' = {} /\ Of(m, "container")' = {}
      <4>1. Of(m, "kill") = {} /\ Of(m, "container") = {}
        <5>1. ASSUME NEW k \in {"kill", "container"}, NEW i \in Of(m, k) PROVE FALSE
          <6>1. i \in DOMAIN log /\ log[i].oom = m /\ OfKill(log[i])
            BY <5>1 DEF Of, Line, OfKill
          <6> QED BY <1>5, <2>2, <6>1 DEF Ranked
        <5> QED BY <5>1
      <4> QED BY <1>8, <2>2, <4>1 DEF Line
    <3> QED BY <1>5, <1>7, <2>2, <3>1 DEF Killed
  <2> QED BY <1>5, <1>7, <2>1, <2>2
<1>14. \A m, k : ReadTo(m, k)' <=> ReadTo(m, k)
  BY <1>2, <1>5, <1>8 DEF ReadTo
<1>15. Ranked'
  BY <1>11, <1>12, <1>13 DEF Ranked
<1> QED BY <1>5, <1>7, <1>14, <1>15

\* Of a line that the log has, the rank tells whether it was read before the
\* one that comes next.
LEMMA ReadInOrder ==
  ASSUME OomInv, Ranked, taken + 1 \in DOMAIN log, OfKill(log[taken + 1]),
         NEW m, NEW k \in {"start", "container", "kill"}, Of(m, k) # {}
  PROVE  ReadTo(m, k) <=> Rank(Line(k, m)) < Rank(log[taken + 1])
<1> DEFINE next == taken + 1
<1>1. taken \in Nat /\ DOMAIN log = 1 .. Len(log) /\ Len(log) \in Nat /\ log \in Seq(Lines)
  BY OomTypes
<1>2. \A i \in Of(m, k) : i \in DOMAIN log /\ log[i] = Line(k, m) /\ OfKill(log[i])
  BY DEF Of, Line, OfKill
<1>3. \A i \in Of(m, k) : Rank(log[i]) \in Nat /\ Rank(log[next]) \in Nat
  <2>1. ASSUME NEW i \in DOMAIN log PROVE Rank(log[i]) \in Nat
    <3>1. log[i] \in Lines
      BY <1>1, ElementOfSeq
    <3> QED BY <3>1, RankIs, SMTT(30)
  <2> QED BY <1>2, <2>1
<1>4. \A i \in Of(m, k) : i <= taken => Rank(log[i]) < Rank(log[next])
  BY <1>1, <1>2 DEF Ranked
<1>5. \A i \in Of(m, k) : Rank(log[i]) < Rank(log[next]) => i <= taken
  BY <1>1, <1>2, <1>3, SMTT(30) DEF Ranked
<1> QED BY <1>2, <1>4, <1>5 DEF ReadTo

\* What was read of the kill m, when the line of a kill comes next.
LEMMA ReadOf ==
  ASSUME OomInv, Ranked, taken + 1 \in DOMAIN log, OfKill(log[taken + 1]),
         NEW m \in DOMAIN readable
  PROVE  LET l == log[taken + 1]
         IN /\ m < l.oom => ReadTo(m, "kill")
            /\ ReadTo(m, "kill") => m < l.oom
            /\ ReadTo(m, "container") => m < l.oom \/ (m = l.oom /\ l.kind = "kill")
            /\ l = Line("kill", m) /\ m \in Limited => ReadTo(m, "container")
<1> DEFINE l == log[taken + 1]
<1>1. l \in Lines /\ l.oom \in DOMAIN readable /\ l.kind \in {"start", "container", "kill"}
  <2>1. l \in Lines
    BY OomTypes, ElementOfSeq
  <2> QED BY <2>1 DEF Ranked, OfKill, Lines
<1>2. DOMAIN readable = 1 .. Len(readable) /\ Len(readable) \in Nat /\ m \in Nat /\ l.oom \in Nat
  BY <1>1, OomTypes
<1>3. /\ Rank(Line("kill", m)) = 3 * m + 2 /\ Rank(Line("container", m)) = 3 * m + 1
      /\ Rank(l) = 3 * l.oom + (IF l.kind = "start" THEN 0 ELSE IF l.kind = "container" THEN 1 ELSE 2)
  BY DEF Rank, Line
<1>4. \A k \in {"start", "container", "kill"} :
        Of(m, k) # {} => (ReadTo(m, k) <=> Rank(Line(k, m)) < Rank(l))
  BY ReadInOrder
<1>5. \A k : ReadTo(m, k) => Of(m, k) # {}
  BY DEF ReadTo
<1> HIDE DEF l
<1>6. m < l.oom => ReadTo(m, "kill")
  <2>1. ASSUME m < l.oom PROVE Of(m, "kill") # {}
    BY <1>1, <1>2, <2>1 DEF Ranked, Killed
  <2> QED BY <1>1, <1>2, <1>3, <1>4, <2>1, SMTT(30)
<1>7. ReadTo(m, "kill") => m < l.oom
  BY <1>1, <1>2, <1>3, <1>4, <1>5, SMTT(30)
<1>8. ReadTo(m, "container") => m < l.oom \/ (m = l.oom /\ l.kind = "kill")
  BY <1>1, <1>2, <1>3, <1>4, <1>5, SMTT(30)
<1>9. l = Line("kill", m) /\ m \in Limited => ReadTo(m, "container")
  <2>1. ASSUME l = Line("kill", m), m \in Limited PROVE ReadTo(m, "container")
    <3>1. taken + 1 \in Of(m, "kill")
      BY <2>1 DEF Of, l
    <3>2. Of(m, "container") # {}
      BY <2>1, <3>1 DEF Ranked, Killed
    <3>3. l.oom = m /\ l.kind = "kill"
      BY <2>1 DEF Line
    <3> QED BY <1>2, <1>3, <1>4, <3>2, <3>3
  <2> QED BY <2>1
<1> QED BY <1>6, <1>7, <1>8, <1>9 DEF l

\* The log and what was read of it only grow.
Grows ==
  /\ DOMAIN readable \subseteq DOMAIN readable'
  /\ \A m \in DOMAIN readable : readable'[m] = readable[m]
  /\ \A m, k : ReadTo(m, k) => ReadTo(m, k)'

LEMMA LimitedIs == Limited \subseteq 1 .. MaxOoms /\ MaxOoms \in Nat
BY OomAssumption

LEMMA NamedStays ==
  ASSUME OomInv, Grows, NEW r, r.killed \in Nat, Named(r)
  PROVE  Named(r)'
<1>1. r.killed \in DOMAIN readable /\ readable'[r.killed] = readable[r.killed]
  BY DEF Grows, Named, OfItsKill
<1>2. r.container < r.killed /\ r.container \in Limited
        => readable'[r.container] = readable[r.container]
  <2>1. ASSUME r.container < r.killed, r.container \in Limited
        PROVE  r.container \in DOMAIN readable
    <3>1. /\ DOMAIN readable = 1 .. Len(readable) /\ Len(readable) \in Nat
      BY OomTypes
    <3>2. r.container \in 1 .. MaxOoms /\ MaxOoms \in Nat
      BY <2>1, LimitedIs
    <3> QED BY <1>1, <2>1, <3>1, <3>2
  <2> QED BY <2>1 DEF Grows
<1> QED BY <1>1, <1>2 DEF Grows, Named, OfItsKill

LEMMA InTurnStays ==
  ASSUME OomInv, InTurn, Grows, UNCHANGED reported
  PROVE  InTurn'
<1>1. ASSUME NEW i \in DOMAIN reported PROVE Named(reported[i])'
  <2>1. reported[i] \in Instances
    BY <1>1, ElementOfSeq, LenProperties DEF OomInv
  <2>2. reported[i].killed \in Nat
    BY <2>1, OomTypes DEF Instances
  <2>3. Named(reported[i])
    BY <1>1 DEF InTurn
  <2> DEFINE r == reported[i]
  <2> HIDE DEF r
  <2>4. ASSUME NEW s, s.killed \in Nat, Named(s) PROVE Named(s)'
    BY <2>4, NamedStays
  <2> QED BY <2>2, <2>3, <2>4 DEF Named, OfItsKill
<1> QED BY <1>1 DEF InTurn

\* A line is taken.
LEMMA TakenGrows ==
  ASSUME OomInv, Ranked, InTurn, NextLine
  PROVE  Ranked' /\ InTurn' /\ Grows
<1>1. /\ UNCHANGED <<log, readable, reported>>
      /\ \A m, k : ReadTo(m, k)' <=> ReadTo(m, k) \/ log[taken + 1] = Line(k, m)
  BY LineTaken
<1>2. Ranked'
  BY <1>1 DEF Ranked, Killed, Of
<1>3. Grows
  BY <1>1 DEF Grows
<1> QED BY <1>1, <1>2, <1>3, InTurnStays

LEMMA OuterNames ==
  ASSUME OomInv, NameInv, OuterLine
  PROVE  NameInv'
<1> DEFINE l == log[taken + 1]
<1>1. /\ parserPc = "outer" /\ NextLine
      /\ IF Head(lineChannel).kind = "start"
           THEN parserPc' = "group" /\ instance' = Instance(Root, Root, 0)
           ELSE UNCHANGED <<parserPc, instance>>
  BY DEF OuterLine
<1>2. /\ taken + 1 \in DOMAIN log /\ Head(lineChannel) = l /\ UNCHANGED <<log, readable>>
      /\ \A m, k : ReadTo(m, k)' <=> ReadTo(m, k) \/ l = Line(k, m)
  BY <1>1, LineTaken
<1>3. Ranked' /\ InTurn' /\ \A m, k : l = Line(k, m) => k = l.kind
  BY <1>1, TakenGrows DEF NameInv, Line
<1>4. ASSUME parserPc' = "group"
      PROVE  Holds(instance.container)' /\ instance'.container + instance'.victim = 0
  <2>1. l.kind = "start" /\ OfKill(l) /\ instance'.container = Root /\ instance'.victim = Root
    BY <1>1, <1>2, <1>4 DEF OfKill, Instance
  <2>2. ASSUME NEW m \in DOMAIN readable, ReadTo(m, "container")', ~ ReadTo(m, "kill")' PROVE FALSE
    <3>1. ReadTo(m, "container") /\ ~ ReadTo(m, "kill")
      BY <1>2, <1>3, <2>1, <2>2
    <3> QED BY <1>2, <2>1, <3>1, ReadOf DEF NameInv
  <2>3. Holds(instance.container)'
    BY <1>2, <2>1, <2>2 DEF Holds
  <2>4. instance'.container + instance'.victim = 0
    BY <2>1 DEF Root
  <2> QED BY <2>3, <2>4
<1>5. parserPc' \notin {"last", "send"}
  BY <1>1
<1> QED BY <1>3, <1>4, <1>5 DEF NameInv

LEMMA GroupNames ==
  ASSUME OomInv, NameInv, GroupLine
  PROVE  NameInv'
<1> DEFINE l == log[taken + 1]
           finished == l.kind = "kill" /\ readable[l.oom]
           c == instance.container
           v == instance.victim
<1>1. /\ taken + 1 \in DOMAIN log /\ Head(lineChannel) = l /\ l \in Lines
      /\ UNCHANGED <<log, readable, reported>>
      /\ \A m, k : ReadTo(m, k)' <=> ReadTo(m, k) \/ l = Line(k, m)
  BY LineTaken DEF GroupLine
<1>2. /\ parserPc = "group" /\ NextLine
      /\ parserPc' = IF finished THEN "last" ELSE "group"
      /\ instance' = [container |-> IF l.kind = "container" THEN l.oom ELSE c,
                      victim |-> IF l.kind = "container" THEN - l.oom ELSE v,
                      killed |-> IF finished THEN l.oom ELSE instance.killed]
  BY <1>1 DEF GroupLine, Instance
<1>3. /\ l = Line(l.kind, l.oom) /\ l.oom \in Nat
      /\ \A m, k : l = Line(k, m) => k = l.kind /\ m = l.oom
  BY <1>1, OomTypes DEF Lines, Line
<1> PICK j \in Nat : j = l.oom
  BY <1>3
<1>4. Ranked' /\ InTurn' /\ Holds(c) /\ Ranked /\ c + v = 0
  BY <1>2, TakenGrows DEF NameInv
<1>5. OfKill(l) => l.oom \in DOMAIN readable
  BY <1>1 DEF NameInv, Ranked
<1>6. /\ DOMAIN readable = 1 .. Len(readable) /\ Len(readable) \in Nat
      /\ c \in Nat /\ Limited \subseteq 1 .. MaxOoms
  BY OomTypes, OomAssumption DEF Instances
<1>7. ASSUME NEW m, ReadTo(m, "container") PROVE m \in DOMAIN readable
  <2>1. PICK i \in DOMAIN log : log[i] = Line("container", m)
    BY <1>7 DEF ReadTo, Of
  <2>2. OfKill(log[i]) /\ log[i].oom = m
    BY <2>1 DEF OfKill, Line
  <2> QED BY <2>2 DEF NameInv, Ranked
<1>8. ASSUME parserPc' = "group" PROVE Holds(instance.container)'
  <2>1. CASE l.kind = "container"
    <3>1. OfKill(l) /\ l = Line("container", j) /\ j \in DOMAIN readable
          /\ instance'.container = j
      BY <1>2, <1>3, <1>5, <2>1 DEF OfKill
    <3>2. ASSUME NEW m \in DOMAIN readable, ReadTo(m, "container")', ~ ReadTo(m, "kill")'
          PROVE  j = m
      <4>1. ReadTo(m, "container") => m < l.oom \/ (m = l.oom /\ l.kind = "kill")
        BY <1>1, <1>4, <3>1, ReadOf
      <4>2. m < l.oom => ReadTo(m, "kill")
        BY <1>1, <1>4, <3>1, ReadOf
      <4> HIDE DEF l
      <4> QED BY <1>1, <1>3, <2>1, <3>2, <4>1, <4>2
    <3>3. j \in Limited /\ ReadTo(j, "container")'
      <4>1. taken + 1 \in Of(j, "container")
        BY <1>1, <3>1 DEF Of
      <4>2. j \in Limited
        BY <1>4, <3>1, <4>1 DEF Ranked
      <4> QED BY <1>1, <3>1, <4>2
    <3>4. ~ ReadTo(j, "kill")'
      <4>1. ~ ReadTo(j, "kill")
        BY <1>1, <1>4, <3>1, ReadOf
      <4> HIDE DEF l
      <4> QED BY <1>1, <1>3, <2>1, <4>1
    <3> HIDE DEF l
    <3> QED BY <1>1, <3>1, <3>2, <3>3, <3>4 DEF Holds
  <2>2. CASE l.kind # "container"
    <3>1. instance'.container = c /\ \A m : l # Line("container", m)
      BY <1>2, <2>2 DEF Line
    <3>2. ~ finished
      BY <1>2, <1>8
    <3>3. ASSUME NEW m, l = Line("kill", m) PROVE ~ readable[m]
      BY <3>2, <3>3 DEF Line
    <3> HIDE DEF l, c, finished
    <3> QED BY <1>1, <1>4, <3>1, <3>3 DEF Holds
  <2> QED BY <2>1, <2>2
<1>9. instance'.container + instance'.victim = 0
  BY <1>2, <1>4
<1>10. ASSUME parserPc' \in {"last", "send"}
      PROVE  /\ Named(instance)'
             /\ \A i \in DOMAIN reported' : reported'[i].killed < instance'.killed
  <2>1. finished
    BY <1>2, <1>10
  <2>2. /\ OfKill(l) /\ l = Line("kill", j) /\ j \in DOMAIN readable /\ readable[j]
        /\ instance'.container = c /\ instance'.killed = j
    BY <1>2, <1>3, <1>5, <2>1 DEF OfKill
  <2>3. ReadTo(j, "kill")'
    BY <1>1, <2>2
  <2>4. j \in Limited => c = j
    BY <1>1, <1>3, <1>4, <2>2, ReadOf DEF Holds
  <2>5. ASSUME j \notin Limited, c # Root PROVE c < j /\ c \in Limited /\ ~ readable[c]
    <3>1. c \in Limited /\ ReadTo(c, "container") /\ (ReadTo(c, "kill") => ~ readable[c])
      BY <1>4, <2>5 DEF Holds
    <3>2. c \in DOMAIN readable
      BY <1>7, <3>1
    <3>3. c < j
      <4>1. c < j \/ c = j
        BY <1>1, <1>4, <2>2, <3>1, <3>2, ReadOf
      <4> QED BY <2>5, <3>1, <4>1
    <3>4. ReadTo(c, "kill")
      BY <1>1, <1>4, <2>2, <3>2, <3>3, ReadOf
    <3> QED BY <3>1, <3>3, <3>4
  <2>6. ASSUME NEW i \in DOMAIN reported PROVE reported[i].killed < j
    <3>1. reported[i].killed \in DOMAIN readable /\ ReadTo(reported[i].killed, "kill")
      BY <2>6 DEF NameInv, InTurn, Named, OfItsKill
    <3> QED BY <1>1, <1>4, <2>2, <3>1, ReadOf
  <2> HIDE DEF c, l
  <2>7. Named(instance)'
    BY <1>1, <1>9, <2>2, <2>3, <2>4, <2>5 DEF Named, OfItsKill
  <2> QED BY <1>1, <2>2, <2>6, <2>7
<1> QED BY <1>4, <1>8, <1>9, <1>10 DEF NameInv

LEMMA LastNames ==
  ASSUME OomInv, NameInv, LastLine
  PROVE  NameInv'
<1>1. parserPc = "last" /\ NextLine /\ UNCHANGED instance /\ parserPc' = "send"
  BY DEF LastLine
<1>2. Ranked' /\ InTurn' /\ Grows /\ UNCHANGED reported
  BY <1>1, TakenGrows, LineTaken DEF NameInv
<1>3. Named(instance) /\ \A i \in DOMAIN reported : reported[i].killed < instance.killed
  BY <1>1 DEF NameInv
<1>4. ASSUME NEW s, s.killed \in Nat, Named(s) PROVE Named(s)'
  BY <1>2, <1>4, NamedStays
<1>5. Named(instance)'
  <2>1. instance.killed \in Nat
    BY OomTypes DEF Instances
  <2> QED BY <1>1, <1>3, <1>4, <2>1 DEF Named, OfItsKill
<1> QED BY <1>1, <1>2, <1>3, <1>5 DEF NameInv

LEMMA SendNames ==
  ASSUME OomInv, NameInv, SendInstance
  PROVE  NameInv'
<1>1. /\ parserPc = "send" /\ parserPc' = "outer" /\ reported' = Append(reported, instance)
      /\ UNCHANGED <<log, readable, taken>>
  BY DEF SendInstance, logVars
<1>2. Ranked' /\ \A m, k : ReadTo(m, k)' <=> ReadTo(m, k)
  BY <1>1 DEF NameInv, Ranked, ReadTo, Killed, Of
<1>3. Named(instance) /\ \A i \in DOMAIN reported : reported[i].killed < instance.killed
  BY <1>1 DEF NameInv
<1>4. /\ DOMAIN reported' = 1 .. Len(reported) + 1 /\ DOMAIN reported = 1 .. Len(reported)
      /\ Len(reported) \in Nat
      /\ \A i \in 1 .. Len(reported) : reported'[i] = reported[i]
      /\ reported'[Len(reported) + 1] = instance
  <2>1. reported \in Seq(Instances) /\ instance \in Instances
    BY OomTypes DEF OomInv
  <2> QED BY <1>1, <2>1, AppendProperties, LenProperties
<1>5. ASSUME NEW i \in DOMAIN reported'
      PROVE  /\ Named(reported[i])'
             /\ \A j \in 1 .. i - 1 : reported'[j].killed < reported'[i].killed
  <2>1. CASE i \in 1 .. Len(reported)
    <3>1. /\ Named(reported[i])
          /\ \A j \in 1 .. i - 1 : reported[j].killed < reported[i].killed
      BY <1>4, <2>1 DEF NameInv, InTurn
    <3>2. \A j \in 1 .. i - 1 : j \in 1 .. Len(reported)
      BY <1>4, <2>1
    <3> QED BY <1>1, <1>2, <1>4, <2>1, <3>1, <3>2 DEF Named, OfItsKill
  <2>2. CASE i = Len(reported) + 1
    <3>1. \A j \in 1 .. i - 1 : j \in DOMAIN reported
      BY <1>4, <2>2
    <3> QED BY <1>1, <1>2, <1>3, <1>4, <2>2, <3>1 DEF Named, OfItsKill
  <2> QED BY <1>4, <2>1, <2>2
<1>6. InTurn'
  BY <1>5 DEF InTurn
<1> QED BY <1>1, <1>2, <1>6 DEF NameInv

LEMMA ParseFailsNames ==
  ASSUME NameInv, ParseFails
  PROVE  NameInv'
<1>1. parserPc' = "fatal" /\ UNCHANGED <<log, readable, taken, reported>>
  BY DEF ParseFails, logVars
<1>2. Ranked' /\ InTurn'
  BY <1>1 DEF NameInv, Ranked, InTurn, Named, OfItsKill, ReadTo, Killed, Of
<1> QED BY <1>1, <1>2 DEF NameInv

\* The kernel and the reader leave the parser alone.
LEMMA WriteNames ==
  ASSUME OomInv, NameInv, Write
  PROVE  NameInv'
<1>1. UNCHANGED <<parserPc, instance, reported>>
  BY DEF Write, parserVars
<1>2. /\ Ranked' /\ \A m, k : ReadTo(m, k)' <=> ReadTo(m, k)
      /\ DOMAIN readable \subseteq DOMAIN readable'
      /\ \A m \in DOMAIN readable : readable'[m] = readable[m]
  BY WriteRanked DEF NameInv
<1>3. Grows
  BY <1>2 DEF Grows
<1>4. InTurn'
  BY <1>1, <1>3, InTurnStays DEF NameInv
<1>5. ASSUME NEW m, NEW k, k # "other", ReadTo(m, k) PROVE m \in DOMAIN readable
  <2>1. PICK i \in DOMAIN log : log[i] = Line(k, m)
    BY <1>5 DEF ReadTo, Of
  <2>2. OfKill(log[i]) /\ log[i].oom = m
    BY <1>5, <2>1 DEF OfKill, Line
  <2> QED BY <2>2 DEF NameInv, Ranked
<1>6. ASSUME NEW c, Holds(c) PROVE Holds(c)'
  <2>1. ASSUME NEW m \in DOMAIN readable', ReadTo(m, "container"), ~ ReadTo(m, "kill") PROVE c = m
    BY <1>5, <1>6, <2>1 DEF Holds
  <2>2. c = Root \/ (c \in Limited /\ ReadTo(c, "container") /\ (ReadTo(c, "kill") => ~ readable'[c]))
    BY <1>2, <1>5, <1>6 DEF Holds
  <2> QED BY <1>2, <2>1, <2>2 DEF Holds
<1>7. ASSUME parserPc = "group"
      PROVE  Holds(instance.container)' /\ instance'.container + instance'.victim = 0
  BY <1>1, <1>6, <1>7 DEF NameInv, Holds
<1>8. ASSUME NEW s, s.killed \in Nat, Named(s) PROVE Named(s)'
  BY <1>3, <1>8, NamedStays
<1>9. ASSUME parserPc \in {"last", "send"} PROVE Named(instance)'
  <2>1. instance.killed \in Nat
    BY OomTypes DEF Instances
  <2> QED BY <1>1, <1>8, <1>9, <2>1 DEF NameInv, Named, OfItsKill
<1> QED BY <1>1, <1>2, <1>4, <1>7, <1>9 DEF NameInv

\* The steps that leave the log, what was read of it and the reports alone.
LEMMA NamesStay ==
  ASSUME NameInv, UNCHANGED <<log, readable, taken, parserPc, instance, reported>>
  PROVE  NameInv'
BY DEF NameInv, Ranked, InTurn, Holds, Named, OfItsKill, ReadTo, Killed, Of

-----------------------------------------------------------------------------
(* The store of one type of events.                                        *)

\* Min is what its name says, of infinite sets too.
LEMMA MinIsLeast ==
  ASSUME NEW S \in SUBSET Nat, S # {}
  PROVE  Min(S) \in S /\ \A y \in S : Min(S) <= y
<1>1. PICK x \in S : \A y \in S : ~ (<<y, x>> \in OpToRel(<, Nat))
  BY NatLessThanWellFounded, WFMin
<1>2. \A y \in S : x <= y
  <2>1. ASSUME NEW y \in S, y < x PROVE FALSE
    <3>1. <<y, x>> \in Nat \X Nat /\ <<y, x>>[1] < <<y, x>>[2]
      BY <2>1
    <3>2. <<y, x>> \in OpToRel(<, Nat)
      BY <3>1 DEF OpToRel
    <3> QED BY <1>1, <3>2
  <2> QED BY <2>1
<1> QED BY <1>2 DEF Min

LEMMA MinInRange ==
  ASSUME NEW n \in Nat, NEW D, D \subseteq 1 .. n
  PROVE  Min(D \cup {n + 1}) \in 1 .. n + 1
<1>1. D \cup {n + 1} \in SUBSET Nat /\ D \cup {n + 1} # {}
  OBVIOUS
<1>2. Min(D \cup {n + 1}) \in D \cup {n + 1}
  BY <1>1, MinIsLeast
<1>3. D \cup {n + 1} \subseteq 1 .. n + 1
  OBVIOUS
<1> QED BY <1>2, <1>3

\* What is left of a sequence from an index on.
LEMMA FromIs ==
  ASSUME NEW S, NEW s \in Seq(S), NEW i \in 1 .. Len(s) + 1
  PROVE  From(s, i) \in Seq(S) /\ Len(From(s, i)) = Len(s) + 1 - i
<1>1. Len(s) \in Nat /\ DOMAIN s = 1 .. Len(s) /\ i \in Int /\ i >= 1
  BY LenProperties
<1>2. \A j \in i .. Len(s) : s[j] \in S
  BY <1>1, ElementOfSeq
<1>3. /\ SubSeq(s, i, Len(s)) \in Seq(S)
      /\ Len(SubSeq(s, i, Len(s))) = IF i <= Len(s) THEN Len(s) - i + 1 ELSE 0
  BY <1>1, <1>2, SubSeqProperties
<1> QED BY <1>1, <1>3 DEF From

LEMMA InsertIs ==
  ASSUME NEW S, NEW s \in Seq(S), NEW e \in S
  PROVE  InsertByTime(s, e) \in Seq(S) /\ Len(InsertByTime(s, e)) = Len(s) + 1
<1> DEFINE D == { j \in DOMAIN s : Before(e, s[j]) }
           i == Min(D \cup {Len(s) + 1})
<1>1. Len(s) \in Nat /\ DOMAIN s = 1 .. Len(s)
  BY LenProperties
<1>2. i \in 1 .. Len(s) + 1
  BY <1>1, MinInRange
<1>3. InsertByTime(s, e) = SubSeq(s, 1, i - 1) \o <<e>> \o From(s, i)
  BY DEF InsertByTime, FirstIndex
<1> HIDE DEF i
<1>4. SubSeq(s, 1, i - 1) \in Seq(S) /\ Len(SubSeq(s, 1, i - 1)) = i - 1
  <2>1. \A j \in 1 .. i - 1 : s[j] \in S
    BY <1>1, <1>2, ElementOfSeq
  <2>2. /\ SubSeq(s, 1, i - 1) \in Seq(S)
        /\ Len(SubSeq(s, 1, i - 1)) = IF 1 <= i - 1 THEN (i - 1) - 1 + 1 ELSE 0
    BY <1>1, <1>2, <2>1, SubSeqProperties
  <2> QED BY <1>1, <1>2, <2>2
<1>5. <<e>> \in Seq(S) /\ Len(<<e>>) = 1
  OBVIOUS
<1>6. From(s, i) \in Seq(S) /\ Len(From(s, i)) = Len(s) + 1 - i
  BY <1>2, FromIs
<1> DEFINE front == SubSeq(s, 1, i - 1) \o <<e>>
           back == From(s, i)
<1>7. front \in Seq(S) /\ Len(front) = i
  BY <1>1, <1>2, <1>4, <1>5, ConcatProperties
<1>8. InsertByTime(s, e) = front \o back
  BY <1>3
<1>9. back \in Seq(S) /\ Len(back) = Len(s) + 1 - i
  BY <1>6
<1> HIDE DEF front, back
<1>10. front \o back \in Seq(S) /\ Len(front \o back) = Len(front) + Len(back)
  BY <1>7, <1>9, ConcatProperties
<1> QED BY <1>1, <1>2, <1>7, <1>8, <1>9, <1>10

\* A store keeps no more than it may, all of it events that were added.
LEMMA StoreAddIs ==
  ASSUME NEW S, NEW s \in Seq(S), NEW e \in S, Len(s) <= MaxItems
  PROVE  StoreAdd(s, e) \in Seq(S) /\ Len(StoreAdd(s, e)) <= MaxItems
<1> DEFINE room == IF Len(s) + 1 > MaxItems THEN From(s, Len(s) + 2 - MaxItems) ELSE s
           sorted == InsertByTime(room, e)
           D == { j \in DOMAIN sorted : sorted[j].time > e.time - MaxAge }
           index == Min(D \cup {Len(sorted) + 1})
<1>1. MaxItems \in Nat \ {0} /\ Len(s) \in Nat
  BY EventAssumption, LenProperties
<1>2. room \in Seq(S) /\ Len(room) <= MaxItems - 1 /\ Len(room) \in Nat
  <2>1. CASE Len(s) + 1 > MaxItems
    <3>1. Len(s) + 2 - MaxItems \in 1 .. Len(s) + 1
      BY <1>1, <2>1
    <3>2. room = From(s, Len(s) + 2 - MaxItems)
      BY <2>1
    <3>3. room \in Seq(S) /\ Len(room) = Len(s) + 1 - (Len(s) + 2 - MaxItems)
      BY <3>1, <3>2, FromIs
    <3> QED BY <1>1, <3>3, LenProperties
  <2>2. CASE ~ Len(s) + 1 > MaxItems
    BY <1>1, <2>2
  <2> QED BY <2>1, <2>2
<1> HIDE DEF room
<1>3. sorted \in Seq(S) /\ Len(sorted) <= MaxItems /\ Len(sorted) \in Nat
  <2>1. sorted \in Seq(S) /\ Len(sorted) = Len(room) + 1
    BY <1>2, InsertIs
  <2> QED BY <1>1, <1>2, <2>1
<1>4. StoreAdd(s, e) = IF index <= Len(sorted) THEN From(sorted, index) ELSE sorted
  BY DEF StoreAdd, FirstIndex, room
<1> HIDE DEF sorted
<1>5. index \in 1 .. Len(sorted) + 1
  <2>1. D \subseteq 1 .. Len(sorted)
    BY <1>3, LenProperties
  <2> HIDE DEF D
  <2> QED BY <1>3, <2>1, MinInRange
<1> HIDE DEF index
<1>6. From(sorted, index) \in Seq(S) /\ Len(From(sorted, index)) = Len(sorted) + 1 - index
  BY <1>3, <1>5, FromIs
<1> QED BY <1>1, <1>3, <1>4, <1>5, <1>6

-----------------------------------------------------------------------------
(* The order of a store.  sort.Search finds the first index for which its  *)
(* condition holds only in a buffer sorted by time.                        *)

\* The events of the buffer from its i-th on.
LEMMA FromAt ==
  ASSUME NEW S, NEW s \in Seq(S), NEW i \in 1 .. Len(s) + 1
  PROVE  \A k \in DOMAIN From(s, i) : k + i - 1 \in i .. Len(s) /\ From(s, i)[k] = s[k + i - 1]
<1>1. Len(s) \in Nat /\ DOMAIN s = 1 .. Len(s) /\ i \in Int /\ i >= 1
  BY LenProperties
<1>2. \A j \in i .. Len(s) : s[j] \in S
  BY <1>1, ElementOfSeq
<1>3. \A k \in 1 .. Len(s) - i + 1 : SubSeq(s, i, Len(s))[k] = s[i + k - 1]
  BY <1>1, <1>2, SubSeqProperties
<1>4. From(s, i) \in Seq(S) /\ Len(From(s, i)) = Len(s) + 1 - i
  BY FromIs
<1>5. DOMAIN From(s, i) = 1 .. Len(s) + 1 - i
  BY <1>4, LenProperties
<1> QED BY <1>1, <1>3, <1>5 DEF From

\* r is s with e put in as its i-th, behind all that are not later.
PutIn(r, s, e, i) ==
  /\ \A k \in 1 .. Len(s) + 1 : r[k] = IF k < i THEN s[k] ELSE IF k = i THEN e ELSE s[k - 1]
  /\ \A k \in DOMAIN s : s[k].time <= e.time <=> k < i

\* InsertByTime puts the event where it belongs.
LEMMA InsertsAt ==
  ASSUME NEW S, NEW s \in Seq(S), NEW e \in S, \A f \in S : f.time \in Int, Sorted(s)
  PROVE  \E i \in 1 .. Len(s) + 1 : PutIn(InsertByTime(s, e), s, e, i)
<1> DEFINE D == { j \in DOMAIN s : Before(e, s[j]) }
           i == Min(D \cup {Len(s) + 1})
<1>1. Len(s) \in Nat /\ DOMAIN s = 1 .. Len(s) /\ \A k \in DOMAIN s : s[k] \in S
  BY LenProperties, ElementOfSeq
<1>2. i \in 1 .. Len(s) + 1 /\ i \in D \cup {Len(s) + 1} /\ \A y \in D : i <= y
  <2>1. D \cup {Len(s) + 1} \in SUBSET Nat /\ D \cup {Len(s) + 1} # {}
    BY <1>1
  <2>2. i \in D \cup {Len(s) + 1} /\ \A y \in D \cup {Len(s) + 1} : i <= y
    BY <2>1, MinIsLeast
  <2> QED BY <1>1, <2>2
<1>3. InsertByTime(s, e) = SubSeq(s, 1, i - 1) \o <<e>> \o From(s, i)
  BY DEF InsertByTime, FirstIndex
<1>4. \A k \in DOMAIN s : s[k].time <= e.time <=> k < i
  <2> TAKE k \in DOMAIN s
  <2>1. k < i => s[k].time <= e.time
    <3>1. k \in Int /\ i \in Int /\ s[k].time \in Int /\ e.time \in Int
      BY <1>1, <1>2
    <3>2. e.time < s[k].time => k \in D
      BY DEF Before
    <3> HIDE DEF D, i
    <3> QED BY <1>2, <3>1, <3>2
  <2>2. k >= i => e.time < s[k].time
    <3>1. k >= i => i \in D
      BY <1>1, <1>2
    <3>2. k >= i => e.time < s[i].time /\ i \in DOMAIN s /\ s[i].time <= s[k].time
      BY <1>1, <1>2, <3>1 DEF Before, Sorted
    <3> QED BY <1>1, <3>2
  <2> QED BY <1>1, <1>2, <2>1, <2>2
<1> HIDE DEF D, i
<1>5. /\ SubSeq(s, 1, i - 1) \in Seq(S) /\ Len(SubSeq(s, 1, i - 1)) = i - 1
      /\ \A k \in 1 .. i - 1 : SubSeq(s, 1, i - 1)[k] = s[k]
  <2>1. \A j \in 1 .. i - 1 : s[j] \in S
    BY <1>1, <1>2
  <2>2. /\ SubSeq(s, 1, i - 1) \in Seq(S)
        /\ Len(SubSeq(s, 1, i - 1)) = IF 1 <= i - 1 THEN (i - 1) - 1 + 1 ELSE 0
        /\ \A k \in 1 .. (i - 1) - 1 + 1 : SubSeq(s, 1, i - 1)[k] = s[1 + k - 1]
    BY <1>1, <1>2, <2>1, SubSeqProperties
  <2> QED BY <1>1, <1>2, <2>2
<1>6. <<e>> \in Seq(S) /\ Len(<<e>>) = 1 /\ <<e>>[1] = e
  OBVIOUS
<1>7. /\ From(s, i) \in Seq(S) /\ Len(From(s, i)) = Len(s) + 1 - i
      /\ \A k \in 1 .. Len(s) + 1 - i : From(s, i)[k] = s[k + i - 1]
  <2>1. From(s, i) \in Seq(S) /\ Len(From(s, i)) = Len(s) + 1 - i
    BY <1>2, FromIs
  <2> QED BY <1>2, <2>1, FromAt, LenProperties
<1> DEFINE front == SubSeq(s, 1, i - 1) \o <<e>>
           back == From(s, i)
<1>8. /\ front \in Seq(S) /\ Len(front) = i
      /\ \A k \in 1 .. i : front[k] = IF k < i THEN s[k] ELSE e
  <2>1. /\ front \in Seq(S) /\ Len(front) = i - 1 + 1
        /\ \A k \in 1 .. i - 1 + 1 : front[k] =
             IF k <= i - 1 THEN SubSeq(s, 1, i - 1)[k] ELSE <<e>>[k - (i - 1)]
    BY <1>5, <1>6, ConcatProperties
  <2> QED BY <1>1, <1>2, <1>5, <1>6, <2>1
<1>9. /\ back \in Seq(S) /\ Len(back) = Len(s) + 1 - i
      /\ \A k \in 1 .. Len(s) + 1 - i : back[k] = s[k + i - 1]
  BY <1>7
<1>10. InsertByTime(s, e) = front \o back
  BY <1>3
<1> HIDE DEF front, back
<1>11. \A k \in 1 .. Len(s) + 1 :
         InsertByTime(s, e)[k] = IF k < i THEN s[k] ELSE IF k = i THEN e ELSE s[k - 1]
  <2>1. \A k \in 1 .. Len(front) + Len(back) :
          (front \o back)[k] = IF k <= Len(front) THEN front[k] ELSE back[k - Len(front)]
    BY <1>8, <1>9, ConcatProperties
  <2> SUFFICES ASSUME NEW k \in 1 .. Len(s) + 1
               PROVE  (front \o back)[k] = IF k < i THEN s[k] ELSE IF k = i THEN e ELSE s[k - 1]
    BY <1>10
  <2>2. (front \o back)[k] = IF k <= i THEN front[k] ELSE back[k - i]
    BY <1>1, <1>2, <1>8, <1>9, <2>1
  <2>3. CASE k <= i
    BY <1>1, <1>2, <1>8, <2>2, <2>3
  <2>4. CASE k > i
    <3>1. k - i \in 1 .. Len(s) + 1 - i /\ k - i + i - 1 = k - 1
      BY <1>1, <1>2, <2>4
    <3>2. back[k - i] = s[k - 1]
      BY <1>9, <3>1
    <3> QED BY <1>1, <1>2, <2>2, <2>4, <3>2
  <2>5. k <= i \/ k > i
    BY <1>1, <1>2
  <2> QED BY <2>3, <2>4, <2>5
<1> QED BY <1>2, <1>4, <1>11 DEF PutIn

\* A buffer in the order of time and, at the same time, of adding.
Precedes(e, f) == e.time < f.time \/ (e.time = f.time /\ e.id < f.id)
InOrder(s) == \A i, j \in DOMAIN s : i < j => Precedes(s[i], s[j])

\* Inserting keeps the order, and adds the event only.
LEMMA InsertKeeps ==
  ASSUME NEW S, NEW s \in Seq(S), NEW e \in S, \A f \in S : f.time \in Int, Sorted(s)
  PROVE  LET r == InsertByTime(s, e)
         IN /\ Sorted(r) /\ Range(r) = Range(s) \cup {e}
            /\ InOrder(s) /\ (\A f \in Range(s) : f.id < e.id) => InOrder(r)
<1> DEFINE r == InsertByTime(s, e)
           n == Len(s)
<1>1. n \in Nat /\ DOMAIN s = 1 .. n /\ \A k \in 1 .. n : s[k] \in S /\ s[k].time \in Int
  BY LenProperties, ElementOfSeq
<1>2. r \in Seq(S) /\ Len(r) = n + 1 /\ DOMAIN r = 1 .. n + 1
  <2>1. r \in Seq(S) /\ Len(r) = n + 1
    BY InsertIs
  <2> QED BY <2>1, LenProperties
<1>3. PICK i \in 1 .. n + 1 :
        /\ \A k \in 1 .. n + 1 : r[k] = IF k < i THEN s[k] ELSE IF k = i THEN e ELSE s[k - 1]
        /\ \A k \in 1 .. n : s[k].time <= e.time <=> k < i
  <2>1. \E i \in 1 .. n + 1 : PutIn(r, s, e, i)
    BY InsertsAt
  <2> QED BY <1>1, <2>1 DEF PutIn
<1> HIDE DEF r, n
<1>4. ASSUME NEW j \in 1 .. n + 1, NEW k \in 1 .. n + 1, j < k
      PROVE  \/ k = i /\ r[k] = e /\ \E a \in 1 .. n : r[j] = s[a] /\ s[a].time <= e.time
             \/ j = i /\ r[j] = e /\ \E b \in 1 .. n : r[k] = s[b] /\ e.time < s[b].time
             \/ \E a, b \in 1 .. n : a < b /\ r[j] = s[a] /\ r[k] = s[b]
  <2>1. CASE k = i
    BY <1>1, <1>3, <1>4, <2>1
  <2>2. CASE j = i
    <3>1. k - 1 \in 1 .. n /\ ~ k - 1 < i /\ r[k] = s[k - 1] /\ r[j] = e
      BY <1>1, <1>3, <1>4, <2>2
    <3>2. e.time < s[k - 1].time
      BY <1>1, <1>3, <3>1
    <3> QED BY <2>2, <3>1, <3>2
  <2>3. CASE k < i
    BY <1>1, <1>3, <1>4, <2>3
  <2>4. CASE j < i /\ i < k
    <3>1. j \in 1 .. n /\ k - 1 \in 1 .. n /\ j < k - 1 /\ r[j] = s[j] /\ r[k] = s[k - 1]
      BY <1>1, <1>3, <1>4, <2>4
    <3> QED BY <3>1
  <2>5. CASE i < j
    <3>1. j - 1 \in 1 .. n /\ k - 1 \in 1 .. n /\ j - 1 < k - 1
      BY <1>1, <1>4, <2>5
    <3>2. ~ j < i /\ j # i /\ ~ k < i /\ k # i
      BY <1>1, <1>4, <2>5
    <3>3. r[j] = s[j - 1] /\ r[k] = s[k - 1]
      BY <1>3, <3>2
    <3> QED BY <3>1, <3>3
  <2> QED BY <1>1, <1>3, <1>4, <2>1, <2>2, <2>3, <2>4, <2>5
<1>5. Sorted(r)
  <2> SUFFICES ASSUME NEW j \in 1 .. n + 1, NEW k \in 1 .. n + 1, j < k
               PROVE  r[j].time <= r[k].time
    <3>1. \A j \in 1 .. n + 1 : r[j].time \in Int
      BY <1>2, ElementOfSeq
    <3> QED BY <1>1, <1>2, <3>1 DEF Sorted
  <2>1. \A a, b \in 1 .. n : a < b => s[a].time <= s[b].time
    BY <1>1 DEF Sorted
  <2>2. CASE \E a \in 1 .. n : r[k] = e /\ r[j] = s[a] /\ s[a].time <= e.time
    BY <2>2
  <2>3. CASE \E b \in 1 .. n : r[j] = e /\ r[k] = s[b] /\ e.time < s[b].time
    <3>1. \A b \in 1 .. n : e.time < s[b].time => e.time <= s[b].time
      BY <1>1
    <3> QED BY <2>3, <3>1
  <2>4. CASE \E a, b \in 1 .. n : a < b /\ r[j] = s[a] /\ r[k] = s[b]
    BY <2>1, <2>4
  <2> QED BY <1>4, <2>2, <2>3, <2>4
<1>6. Range(r) = Range(s) \cup {e}
  <2>1. Range(r) = { r[k] : k \in 1 .. n + 1 } /\ Range(s) = { s[k] : k \in 1 .. n }
    BY <1>1, <1>2 DEF Range
  <2>2. ASSUME NEW k \in 1 .. n + 1 PROVE r[k] \in Range(s) \cup {e}
    <3>1. k < i => k \in 1 .. n
      BY <1>1, <1>3
    <3>2. k > i => k - 1 \in 1 .. n
      BY <1>1, <1>3
    <3> QED BY <1>1, <1>3, <2>1, <3>1, <3>2
  <2>3. ASSUME NEW k \in 1 .. n PROVE s[k] \in Range(r)
    <3>1. CASE k < i
      BY <1>1, <1>3, <2>1, <3>1
    <3>2. CASE k >= i
      <4>1. k + 1 \in 1 .. n + 1 /\ ~ k + 1 < i /\ k + 1 # i /\ k + 1 - 1 = k
        BY <1>1, <3>2
      <4>2. r[k + 1] = s[k]
        BY <1>3, <4>1
      <4> QED BY <2>1, <4>1, <4>2
    <3> QED BY <1>1, <1>3, <3>1, <3>2
  <2>4. e \in Range(r)
    <3>1. i \in 1 .. n + 1 /\ ~ i < i
      BY <1>1
    <3>2. r[i] = e
      BY <1>3, <3>1
    <3> QED BY <2>1, <3>2
  <2> QED BY <2>1, <2>2, <2>3, <2>4
<1>7. ASSUME InOrder(s), \A f \in Range(s) : f.id < e.id PROVE InOrder(r)
  <2>1. \A a, b \in 1 .. n : a < b => Precedes(s[a], s[b])
    BY <1>1, <1>7 DEF InOrder
  <2>2. \A a \in 1 .. n : s[a].id < e.id
    BY <1>1, <1>7 DEF Range
  <2>3. e.time \in Int
    OBVIOUS
  <2> SUFFICES ASSUME NEW j \in 1 .. n + 1, NEW k \in 1 .. n + 1, j < k
               PROVE  Precedes(r[j], r[k])
    BY <1>2 DEF InOrder
  <2>4. CASE \E a \in 1 .. n : r[k] = e /\ r[j] = s[a] /\ s[a].time <= e.time
    BY <1>1, <2>2, <2>3, <2>4 DEF Precedes
  <2>5. CASE \E b \in 1 .. n : r[j] = e /\ r[k] = s[b] /\ e.time < s[b].time
    BY <2>5 DEF Precedes
  <2>6. CASE \E a, b \in 1 .. n : a < b /\ r[j] = s[a] /\ r[k] = s[b]
    BY <2>1, <2>6
  <2> QED BY <1>4, <2>4, <2>5, <2>6
<1> QED BY <1>5, <1>6, <1>7 DEF r

\* What is left of a buffer is as the buffer was.
LEMMA FromKeeps ==
  ASSUME NEW S, NEW s \in Seq(S), NEW i \in 1 .. Len(s) + 1
  PROVE  /\ Range(From(s, i)) = { s[k] : k \in i .. Len(s) }
         /\ Sorted(s) => Sorted(From(s, i))
         /\ InOrder(s) => InOrder(From(s, i))
         /\ IsInjective(s) => IsInjective(From(s, i))
<1> DEFINE n == Len(s)
           r == From(s, i)
<1>1. n \in Nat /\ DOMAIN s = 1 .. n /\ i \in Nat /\ i >= 1
  BY LenProperties
<1>2. DOMAIN r = 1 .. n + 1 - i
  <2>1. r \in Seq(S) /\ Len(r) = n + 1 - i
    BY FromIs
  <2> QED BY <2>1, LenProperties
<1>3. \A k \in 1 .. n + 1 - i : k + i - 1 \in i .. n /\ k + i - 1 \in 1 .. n /\ r[k] = s[k + i - 1]
  <2>1. \A k \in DOMAIN r : k + i - 1 \in i .. n /\ r[k] = s[k + i - 1]
    BY FromAt
  <2> QED BY <1>1, <1>2, <2>1
<1> HIDE DEF r, n
<1>4. \A j, k \in 1 .. n + 1 - i :
        (j <= k <=> j + i - 1 <= k + i - 1) /\ (j < k <=> j + i - 1 < k + i - 1)
  BY <1>1
<1>5. Range(r) = { s[k] : k \in i .. n }
  <2>1. Range(r) = { r[k] : k \in 1 .. n + 1 - i }
    BY <1>2 DEF Range
  <2>2. ASSUME NEW k \in i .. n PROVE s[k] \in Range(r)
    <3>1. k - i + 1 \in 1 .. n + 1 - i /\ k - i + 1 + i - 1 = k
      BY <1>1
    <3>2. r[k - i + 1] = s[k]
      BY <1>3, <3>1
    <3> QED BY <2>1, <3>1, <3>2
  <2> QED BY <1>3, <2>1, <2>2
<1>6. Sorted(s) => Sorted(r)
  BY <1>1, <1>2, <1>3, <1>4 DEF Sorted
<1>7. InOrder(s) => InOrder(r)
  BY <1>1, <1>2, <1>3, <1>4 DEF InOrder
<1>8. IsInjective(s) => IsInjective(r)
  <2> SUFFICES ASSUME IsInjective(s), NEW j \in 1 .. n + 1 - i, NEW k \in 1 .. n + 1 - i, r[j] = r[k]
               PROVE  j = k
    BY <1>2 DEF IsInjective
  <2>1. j + i - 1 = k + i - 1
    BY <1>1, <1>3 DEF IsInjective
  <2> QED BY <1>1, <2>1
<1> QED BY <1>5, <1>6, <1>7, <1>8 DEF r, n

\* Before the event is put in, a full store gives up its first.
Room(s) == IF Len(s) = MaxItems THEN Tail(s) ELSE s

\* Making room keeps the order.
LEMMA RoomIs ==
  ASSUME NEW S, NEW s \in Seq(S), Len(s) <= MaxItems
  PROVE  LET room == IF Len(s) + 1 > MaxItems THEN From(s, Len(s) + 2 - MaxItems) ELSE s
         IN /\ room = Room(s) /\ Room(s) \in Seq(S) /\ Range(Room(s)) \subseteq Range(s)
            /\ Sorted(s) => Sorted(Room(s))
            /\ InOrder(s) => InOrder(Room(s))
            /\ Len(s) = MaxItems => Range(Room(s)) = { s[k] : k \in 2 .. Len(s) }
<1>1. MaxItems \in Nat \ {0} /\ Len(s) \in Nat
  BY EventAssumption, LenProperties
<1>2. CASE Len(s) = MaxItems
  <2>1. Len(s) + 2 - MaxItems = 2 /\ Len(s) + 1 > MaxItems /\ 2 \in 1 .. Len(s) + 1 /\ 1 <= Len(s)
    BY <1>1, <1>2
  <2>2. From(s, 2) = Tail(s)
    BY <1>1, <2>1 DEF From
  <2>3. /\ From(s, 2) \in Seq(S) /\ Range(From(s, 2)) = { s[k] : k \in 2 .. Len(s) }
        /\ Sorted(s) => Sorted(From(s, 2))
        /\ InOrder(s) => InOrder(From(s, 2))
    BY <2>1, FromIs, FromKeeps
  <2>4. { s[k] : k \in 2 .. Len(s) } \subseteq Range(s)
    BY <1>1, LenProperties DEF Range
  <2> QED BY <1>2, <2>1, <2>2, <2>3, <2>4 DEF Room
<1>3. CASE Len(s) < MaxItems
  <2>1. ~ Len(s) + 1 > MaxItems /\ Len(s) # MaxItems
    BY <1>1, <1>3
  <2> QED BY <2>1 DEF Room
<1> QED BY <1>1, <1>2, <1>3

\* A sorted store stays sorted, and has, besides the event added, those of its
\* events that were not given up and are not too old.
LEMMA StoreAddSorted ==
  ASSUME NEW S, \A f \in S : f.time \in Int, NEW s \in Seq(S), NEW e \in S,
         Len(s) <= MaxItems, Sorted(s)
  PROVE  /\ Sorted(StoreAdd(s, e))
         /\ Range(StoreAdd(s, e)) =
              {e} \cup { f \in Range(Room(s)) : f.time > e.time - MaxAge }
         /\ InOrder(s) /\ (\A f \in Range(s) : f.id < e.id) => InOrder(StoreAdd(s, e))
<1> DEFINE room == Room(s)
           sorted == InsertByTime(room, e)
           D == { j \in DOMAIN sorted : sorted[j].time > e.time - MaxAge }
           index == Min(D \cup {Len(sorted) + 1})
           n == Len(sorted)
<1>1. MaxAge \in Nat \ {0} /\ e.time \in Int
  BY EventAssumption
<1>2. /\ room \in Seq(S) /\ Range(room) \subseteq Range(s) /\ Sorted(room)
      /\ InOrder(s) => InOrder(room)
  BY RoomIs
<1>3. StoreAdd(s, e) = IF index <= n THEN From(sorted, index) ELSE sorted
  <2>1. (IF Len(s) + 1 > MaxItems THEN From(s, Len(s) + 2 - MaxItems) ELSE s) = room
    BY RoomIs
  <2> HIDE DEF room
  <2> QED BY <2>1 DEF StoreAdd, FirstIndex
<1> HIDE DEF room
<1>4. /\ sorted \in Seq(S) /\ Sorted(sorted) /\ Range(sorted) = Range(room) \cup {e}
      /\ InOrder(s) /\ (\A f \in Range(s) : f.id < e.id) => InOrder(sorted)
  BY <1>2, InsertIs, InsertKeeps
<1> HIDE DEF sorted
<1>5. /\ n \in Nat /\ DOMAIN sorted = 1 .. n /\ Range(sorted) = { sorted[k] : k \in 1 .. n }
      /\ \A k \in 1 .. n : sorted[k].time \in Int
  <2>1. n \in Nat /\ DOMAIN sorted = 1 .. n /\ \A k \in 1 .. n : sorted[k] \in S
    BY <1>4, LenProperties, ElementOfSeq
  <2> QED BY <2>1 DEF Range
<1> HIDE DEF n
<1>6. /\ index \in D /\ index \in 1 .. n
      /\ \A k \in 1 .. n : k >= index <=> sorted[k].time > e.time - MaxAge
  <2>1. PICK i \in D : sorted[i] = e
    <3>1. \E i \in 1 .. n : sorted[i] = e
      BY <1>4, <1>5
    <3> QED BY <1>1, <1>5, <3>1
  <2>2. D \cup {n + 1} \in SUBSET Nat /\ D \cup {n + 1} # {}
    BY <1>5
  <2>3. index \in D \cup {n + 1} /\ \A y \in D \cup {n + 1} : index <= y
    BY <2>2, MinIsLeast DEF n
  <2> HIDE DEF index
  <2>4. index \in D
    <3>1. index <= i /\ i < n + 1 /\ i \in Int /\ index \in Int /\ index # n + 1
      BY <1>5, <2>1, <2>3
    <3> HIDE DEF D
    <3> QED BY <1>5, <2>3, <3>1
  <2>5. ASSUME NEW k \in 1 .. n PROVE k >= index <=> sorted[k].time > e.time - MaxAge
    <3>1. k \in Int /\ index \in 1 .. n /\ index \in Int /\ sorted[index].time > e.time - MaxAge
      BY <1>5, <2>4
    <3>2. k >= index => sorted[index].time <= sorted[k].time
      BY <1>4, <1>5, <3>1 DEF Sorted
    <3>3. sorted[k].time > e.time - MaxAge => k \in D
      BY <1>5
    <3> QED BY <1>1, <1>5, <2>3, <3>1, <3>2, <3>3
  <2> QED BY <1>5, <2>4, <2>5
<1> HIDE DEF index
<1>7. /\ StoreAdd(s, e) = From(sorted, index)
      /\ Range(From(sorted, index)) = { sorted[k] : k \in index .. n }
      /\ Sorted(From(sorted, index))
      /\ InOrder(sorted) => InOrder(From(sorted, index))
  <2>1. index \in 1 .. n + 1 /\ index <= n
    BY <1>5, <1>6
  <2> QED BY <1>3, <1>4, <2>1, FromKeeps DEF n
<1>8. { sorted[k] : k \in index .. n } = { f \in Range(sorted) : f.time > e.time - MaxAge }
  <2>1. \A k \in 1 .. n : k \in index .. n <=> sorted[k].time > e.time - MaxAge
    BY <1>5, <1>6
  <2>2. index .. n \subseteq 1 .. n
    BY <1>5, <1>6
  <2> QED BY <1>5, <2>1, <2>2
<1>9. Range(StoreAdd(s, e)) = {e} \cup { f \in Range(room) : f.time > e.time - MaxAge }
  <2>1. e.time > e.time - MaxAge
    BY <1>1
  <2> QED BY <1>4, <1>7, <1>8, <2>1
<1> QED BY <1>4, <1>7, <1>9 DEF room

-----------------------------------------------------------------------------
(* The store as a set of events.                                           *)

\* In order means sorted, and each event once.
LEMMA InOrderIs ==
  ASSUME NEW S, \A f \in S : f.time \in Int /\ f.id \in Int, NEW s \in Seq(S), InOrder(s)
  PROVE  Sorted(s) /\ IsInjective(s)
<1>1. Len(s) \in Nat /\ DOMAIN s = 1 .. Len(s) /\ \A k \in DOMAIN s : s[k].time \in Int /\ s[k].id \in Int
  BY LenProperties, ElementOfSeq
<1>2. \A i, j \in DOMAIN s : i < j => s[i].time <= s[j].time
  BY <1>1 DEF InOrder, Precedes
<1>3. \A i, j \in DOMAIN s : i < j => s[i] # s[j]
  BY <1>1 DEF InOrder, Precedes
<1> QED BY <1>1, <1>2, <1>3 DEF Sorted, IsInjective

\* The events of a buffer, counted as a set.
LEMMA RangeCounts ==
  ASSUME NEW S, NEW s \in Seq(S)
  PROVE  /\ IsFiniteSet(Range(s)) /\ Cardinality(Range(s)) \in Nat
         /\ Cardinality(Range(s)) <= Len(s)
         /\ IsInjective(s) <=> Cardinality(Range(s)) = Len(s)
<1>1. Len(s) \in Nat /\ DOMAIN s = 1 .. Len(s)
  BY LenProperties
<1>2. s \in Surjection(1 .. Len(s), Range(s))
  <2>1. s \in [1 .. Len(s) -> Range(s)]
    BY <1>1 DEF Range
  <2> QED BY <1>1, <2>1 DEF Surjection, Range
<1>3. IsFiniteSet(1 .. Len(s)) /\ Cardinality(1 .. Len(s)) = Len(s)
  BY <1>1, FS_Interval
<1>4. /\ IsFiniteSet(Range(s)) /\ Cardinality(Range(s)) <= Len(s)
      /\ Cardinality(Range(s)) = Len(s) <=> s \in Injection(1 .. Len(s), Range(s))
  BY <1>2, <1>3, FS_Surjection
<1>5. s \in Injection(1 .. Len(s), Range(s)) <=> IsInjective(s)
  BY <1>1, <1>2 DEF Injection, Surjection, IsInjective
<1> QED BY <1>4, <1>5, FS_CardinalityType

\* With the first of a full store goes its oldest event, and no other.
LEMMA OldestIs ==
  ASSUME NEW S, \A f \in S : f.time \in Int /\ f.id \in Int, NEW s \in Seq(S), InOrder(s),
         s # << >>
  PROVE  Range(s) \ Oldest(Range(s)) = { s[k] : k \in 2 .. Len(s) }
<1> DEFINE n == Len(s)
<1>1. /\ n \in Nat /\ n # 0 /\ DOMAIN s = 1 .. n /\ Range(s) = { s[k] : k \in 1 .. n }
      /\ \A k \in 1 .. n : s[k].time \in Int /\ s[k].id \in Int
  <2>1. n \in Nat /\ n # 0 /\ DOMAIN s = 1 .. n
    BY LenProperties
  <2> QED BY <2>1, ElementOfSeq DEF Range
<1> HIDE DEF n
<1>2. \A i, j \in 1 .. n : i < j => Precedes(s[i], s[j])
  BY <1>1 DEF InOrder
<1>3. s[1] \in Oldest(Range(s))
  <2> SUFFICES ASSUME NEW k \in 1 .. n
               PROVE  Before(s[1], s[k]) \/ (s[1].time = s[k].time /\ s[1].id <= s[k].id)
    BY <1>1 DEF Oldest
  <2>1. k = 1 \/ Precedes(s[1], s[k])
    BY <1>1, <1>2
  <2> QED BY <1>1, <2>1 DEF Precedes, Before
<1>4. ASSUME NEW k \in 2 .. n PROVE s[k] \notin Oldest(Range(s))
  <2>1. k \in 1 .. n /\ 1 \in 1 .. n /\ Precedes(s[1], s[k])
    BY <1>1, <1>2
  <2> QED BY <1>1, <2>1 DEF Precedes, Before, Oldest
<1>5. \A k \in 1 .. n : k = 1 \/ k \in 2 .. n
  BY <1>1
<1>6. \A k \in 2 .. n : k \in 1 .. n
  BY <1>1
<1> QED BY <1>1, <1>3, <1>4, <1>5, <1>6 DEF n

\* What StoreAdd does to the events of the store is Keep.
LEMMA StoreAddKeeps ==
  ASSUME NEW S, \A f \in S : f.time \in Int /\ f.id \in Int, NEW s \in Seq(S), NEW e \in S,
         Len(s) <= MaxItems, InOrder(s), \A f \in Range(s) : f.id < e.id
  PROVE  InOrder(StoreAdd(s, e)) /\ Range(StoreAdd(s, e)) = Keep(Range(s), e)
<1>1. /\ InOrder(StoreAdd(s, e))
      /\ Range(StoreAdd(s, e)) = {e} \cup { f \in Range(Room(s)) : f.time > e.time - MaxAge }
  BY InOrderIs, StoreAddSorted
<1>2. Cardinality(Range(s)) = Len(s) /\ Len(s) \in Nat /\ MaxItems \in Nat \ {0}
  BY InOrderIs, RangeCounts, EventAssumption
<1>3. Range(Room(s)) = IF Cardinality(Range(s)) < MaxItems THEN Range(s) ELSE Range(s) \ Oldest(Range(s))
  <2>1. CASE Len(s) = MaxItems
    <3>1. s # << >> /\ ~ Cardinality(Range(s)) < MaxItems
      BY <1>2, <2>1
    <3> QED BY <2>1, <3>1, RoomIs, OldestIs
  <2>2. CASE Len(s) < MaxItems
    BY <1>2, <2>2 DEF Room
  <2> QED BY <1>2, <2>1, <2>2
<1> QED BY <1>1, <1>3 DEF Keep

-----------------------------------------------------------------------------
(* A range of time.                                                        *)

LEMMA MinBelow ==
  ASSUME NEW n \in Nat, NEW D, D \subseteq 0 .. n - 1
  PROVE  /\ Min(D \cup {n}) \in 0 .. n
         /\ Min(D \cup {n}) \in D \/ Min(D \cup {n}) = n
         /\ \A y \in D : Min(D \cup {n}) <= y
<1>1. D \cup {n} \in SUBSET Nat /\ D \cup {n} # {}
  OBVIOUS
<1>2. Min(D \cup {n}) \in D \cup {n} /\ \A y \in D \cup {n} : Min(D \cup {n}) <= y
  BY <1>1, MinIsLeast
<1>3. D \cup {n} \subseteq 0 .. n
  OBVIOUS
<1> QED BY <1>2, <1>3

\* The places of the events in a range of time.
Within(s, start, end) ==
  { k \in DOMAIN s : /\ start # NoTime => start <= s[k].time
                     /\ end # NoTime => s[k].time <= end }
\* n, or less if the request has a limit that counts.
AtMost(n, start, end, max) ==
  IF (start = NoTime \/ end = NoTime) /\ max # NoLimit /\ n > max THEN max ELSE n
\* The last m events up to place b.
LastUpTo(s, b, m) == [i \in 1 .. m |-> s[b - m + i]]

\* The answer for a range of time are the events that lie in it, or the last
\* of them if there is a limit and the range is open.
AnswersExactly(s, start, end, max) ==
  \E b \in 0 .. Len(s) : \E n \in 0 .. b :
    /\ Within(s, start, end) = b - n + 1 .. b
    /\ InTimeRange(s, start, end, max) = LastUpTo(s, b, AtMost(n, start, end, max))

\* The two searches of InTimeRange end up at the bounds of the range.
LEMMA RangeIsExact ==
  ASSUME NEW S, \A f \in S : f.time \in Int, NEW s \in Seq(S), Sorted(s),
         NEW start \in Nat, NEW end \in Nat, start # NoTime /\ end # NoTime => start <= end,
         NEW max \in (Nat \ {0}) \cup {NoLimit}
  PROVE  AnswersExactly(s, start, end, max)
<1> DEFINE L == Len(s)
           older == { i \in 0 .. L - 1 : s[L - i].time < start }
           notLater == { i \in 0 .. L - 1 : s[L - i].time <= end }
           limit == IF start # NoTime /\ end # NoTime THEN NoLimit ELSE max
           startIndex == IF start = NoTime THEN L - 1 ELSE Min(older \cup {L}) - 1
           endIndex == IF end = NoTime THEN 0 ELSE Min(notLater \cup {L})
           found == startIndex - endIndex + 1
           number == IF limit # NoLimit /\ found > limit THEN limit ELSE found
           oldest == startIndex - (found - number)
<1>1. L \in Nat /\ DOMAIN s = 1 .. L /\ \A k \in 1 .. L : s[k].time \in Int
  BY LenProperties, ElementOfSeq
<1>2. InTimeRange(s, start, end, max) =
        IF s = << >> \/ startIndex < 0 \/ endIndex = L THEN << >>
        ELSE [i \in 1 .. number |-> s[L - (oldest - (i - 1))]]
  BY DEF InTimeRange
<1>3. /\ startIndex \in -1 .. L - 1
      /\ \A k \in 1 .. L : (start # NoTime => start <= s[k].time) <=> k >= L - startIndex
  <2>1. CASE start = NoTime
    BY <1>1, <2>1
  <2>2. CASE start # NoTime
    <3> DEFINE m == Min(older \cup {L})
    <3>1. m \in 0 .. L /\ (m \in older \/ m = L) /\ \A y \in older : m <= y
      <4>1. older \subseteq 0 .. L - 1
        OBVIOUS
      <4> HIDE DEF older
      <4> QED BY <1>1, <4>1, MinBelow
    <3>2. startIndex = m - 1
      BY <2>2
    <3> HIDE DEF startIndex, m, L
    <3>3. ASSUME NEW k \in 1 .. L, k >= L - startIndex PROVE start <= s[k].time
      <4>1. L - k \in 0 .. L - 1 /\ L - (L - k) = k /\ L - k < m
        BY <1>1, <3>1, <3>2, <3>3
      <4>2. L - k \notin older
        <5> HIDE DEF older
        <5> QED BY <1>1, <3>1, <4>1
      <4> QED BY <1>1, <4>1, <4>2
    <3>4. ASSUME NEW k \in 1 .. L, k < L - startIndex PROVE s[k].time < start
      <4>1. m # L /\ m \in older
        BY <1>1, <3>1, <3>2, <3>4
      <4>2. L - m \in 1 .. L /\ s[L - m].time < start /\ k <= L - m
        BY <1>1, <3>1, <3>2, <3>4, <4>1
      <4>3. s[k].time <= s[L - m].time
        BY <1>1, <4>2 DEF Sorted
      <4> QED BY <1>1, <4>2, <4>3
    <3>5. startIndex \in -1 .. L - 1
      BY <1>1, <3>1, <3>2
    <3> QED BY <1>1, <2>2, <3>3, <3>4, <3>5
  <2> QED BY <2>1, <2>2
<1>4. /\ endIndex \in 0 .. L
      /\ \A k \in 1 .. L : (end # NoTime => s[k].time <= end) <=> k <= L - endIndex
  <2>1. CASE end = NoTime
    BY <1>1, <2>1
  <2>2. CASE end # NoTime
    <3> DEFINE m == Min(notLater \cup {L})
    <3>1. m \in 0 .. L /\ (m \in notLater \/ m = L) /\ \A y \in notLater : m <= y
      <4>1. notLater \subseteq 0 .. L - 1
        OBVIOUS
      <4> HIDE DEF notLater
      <4> QED BY <1>1, <4>1, MinBelow
    <3>2. endIndex = m
      BY <2>2
    <3> HIDE DEF endIndex, m, L
    <3>3. ASSUME NEW k \in 1 .. L, k <= L - endIndex PROVE s[k].time <= end
      <4>1. m # L /\ m \in notLater
        BY <1>1, <3>1, <3>2, <3>3
      <4>2. L - m \in 1 .. L /\ s[L - m].time <= end /\ k <= L - m
        BY <1>1, <3>1, <3>2, <3>3, <4>1
      <4>3. s[k].time <= s[L - m].time
        BY <1>1, <4>2 DEF Sorted
      <4> QED BY <1>1, <4>2, <4>3
    <3>4. ASSUME NEW k \in 1 .. L, k > L - endIndex PROVE ~ s[k].time <= end
      <4>1. L - k \in 0 .. L - 1 /\ L - (L - k) = k /\ L - k < m
        BY <1>1, <3>1, <3>2, <3>4
      <4>2. L - k \notin notLater
        <5> HIDE DEF notLater
        <5> QED BY <1>1, <3>1, <4>1
      <4> QED BY <1>1, <4>1, <4>2
    <3>5. endIndex \in 0 .. L
      BY <3>1, <3>2
    <3> QED BY <1>1, <2>2, <3>3, <3>4, <3>5
  <2> QED BY <2>1, <2>2
<1>5. Within(s, start, end) = { k \in 1 .. L : L - startIndex <= k /\ k <= L - endIndex }
  <2> HIDE DEF startIndex, endIndex, L
  <2>1. Within(s, start, end) =
          { k \in 1 .. L : /\ start # NoTime => start <= s[k].time
                           /\ end # NoTime => s[k].time <= end }
    BY <1>1 DEF Within
  <2> QED BY <1>1, <1>3, <1>4, <2>1
<1>6. CASE s = << >> \/ startIndex < 0 \/ endIndex = L
  <2>1. InTimeRange(s, start, end, max) = << >>
    BY <1>2, <1>6
  <2>2. Within(s, start, end) = {}
    <3>1. s = << >> => L = 0
      OBVIOUS
    <3> HIDE DEF startIndex, endIndex, L
    <3> QED BY <1>1, <1>3, <1>4, <1>5, <1>6, <3>1
  <2>3. AtMost(0, start, end, max) = 0
    BY DEF AtMost, NoLimit
  <2>4. LastUpTo(s, 0, 0) = << >>
    BY DEF LastUpTo
  <2>5. 0 \in 0 .. L /\ 0 \in 0 .. 0 /\ 0 - 0 + 1 .. 0 = {}
    BY <1>1
  <2> QED BY <2>1, <2>2, <2>3, <2>4, <2>5 DEF AnswersExactly
<1>7. CASE s # << >> /\ startIndex >= 0 /\ endIndex < L
  <2> DEFINE b == L - endIndex
  <2>1. found \in 0 .. b
    <3>1. start = NoTime \/ end = NoTime \/ start <= end
      OBVIOUS
    <3> HIDE DEF startIndex, endIndex, L
    <3>2. CASE endIndex = 0
      BY <1>1, <1>3, <1>4, <1>7, <3>2
    <3>3. CASE endIndex # 0
      <4>1. b + 1 \in 1 .. L /\ ~ b + 1 <= L - endIndex
        BY <1>1, <1>4, <1>7, <3>3
      <4>2. end # NoTime /\ ~ s[b + 1].time <= end
        BY <1>4, <4>1
      <4>3. start # NoTime => start <= s[b + 1].time
        BY <1>1, <3>1, <4>1, <4>2
      <4>4. b + 1 >= L - startIndex
        BY <1>3, <4>1, <4>3
      <4> QED BY <1>1, <1>3, <1>4, <1>7, <4>4
    <3> QED BY <3>2, <3>3
  <2>2. Within(s, start, end) = b - found + 1 .. b
    <3> HIDE DEF startIndex, endIndex, L
    <3>1. b - found + 1 = L - startIndex /\ b \in 0 .. L /\ L - startIndex >= 1
      BY <1>1, <1>3, <1>4, <1>7
    <3>2. b = L - endIndex
      OBVIOUS
    <3> HIDE DEF b, found
    <3> QED BY <1>1, <1>5, <2>1, <3>1, <3>2
  <2>3. number = AtMost(found, start, end, max)
    <3> HIDE DEF found
    <3> QED BY DEF AtMost
  <2>4. InTimeRange(s, start, end, max) = [i \in 1 .. number |-> s[L - (oldest - (i - 1))]]
    <3> HIDE DEF startIndex, endIndex, L, number, oldest
    <3> QED BY <1>1, <1>2, <1>3, <1>4, <1>7
  <2>5. number \in Int
    <3> HIDE DEF found
    <3> QED BY <2>1 DEF NoLimit
  <2>6. \A i \in 1 .. number : L - (oldest - (i - 1)) = b - number + i
    <3> HIDE DEF startIndex, endIndex, L, number
    <3> QED BY <1>1, <1>3, <1>4, <2>5
  <2>7. InTimeRange(s, start, end, max) = LastUpTo(s, b, number)
    <3> HIDE DEF startIndex, endIndex, L, number, oldest, b
    <3> QED BY <2>4, <2>6 DEF LastUpTo
  <2>8. b \in 0 .. L
    <3> HIDE DEF endIndex, L
    <3> QED BY <1>1, <1>4
  <2> HIDE DEF b, found, number
  <2> QED BY <2>1, <2>2, <2>3, <2>7, <2>8 DEF AnswersExactly
<1> QED
  <2> HIDE DEF startIndex, endIndex, L
  <2> QED BY <1>1, <1>3, <1>4, <1>6, <1>7

-----------------------------------------------------------------------------
(* Folds.  What a fold over a sequence computes is shown by induction on   *)
(* the sequence, which is stated here with sets of numbers.                *)

\* Induction: a set with 0, and with each number whose predecessor it has.
LEMMA UpTo ==
  ASSUME NEW n \in Nat, NEW D, 0 \in D, \A k \in 1 .. n : k - 1 \in D => k \in D
  PROVE  0 .. n \subseteq D
<1> DEFINE others == (0 .. n) \ D
<1> SUFFICES ASSUME others # {} PROVE FALSE
  OBVIOUS
<1> DEFINE k == Min(others)
<1>1. k \in others /\ \A j \in others : k <= j
  <2>1. others \in SUBSET Nat
    OBVIOUS
  <2> HIDE DEF others
  <2> QED BY <2>1, MinIsLeast
<1> HIDE DEF k
<1>2. k \in 1 .. n /\ k - 1 \in 0 .. n /\ ~ k <= k - 1
  BY <1>1
<1>3. k - 1 \in D
  BY <1>1, <1>2
<1> QED BY <1>1, <1>2, <1>3

LEMMA MaxIsGreatest ==
  ASSUME NEW n \in Nat, NEW S \in SUBSET (1 .. n), S # {}
  PROVE  Max(S) \in S /\ \A y \in S : y <= Max(S)
<1> DEFINE bounds == { u \in 0 .. n : \A y \in S : y <= u }
           m == Min(bounds)
<1>1. m \in bounds /\ \A u \in bounds : m <= u
  <2>1. n \in bounds /\ bounds \in SUBSET Nat
    OBVIOUS
  <2> HIDE DEF bounds
  <2> QED BY <2>1, MinIsLeast
<1> HIDE DEF m
<1>2. m \in S
  <2> SUFFICES ASSUME m \notin S PROVE FALSE
    OBVIOUS
  <2>1. \A y \in S : y <= m - 1 /\ y \in 1 .. n
    BY <1>1
  <2>2. m \in 0 .. n /\ \E y \in S : TRUE
    BY <1>1
  <2>3. m - 1 \in bounds
    BY <2>1, <2>2
  <2> HIDE DEF bounds
  <2>4. m <= m - 1
    BY <1>1, <2>3
  <2> QED BY <2>2, <2>4
<1>3. \A y \in S : m >= y
  BY <1>1
<1> QED BY <1>2, <1>3 DEF Max

\* The function by which FoldLeft is defined, with op for the operator folded.
Folds(f, op, b, s) ==
  f = [t \in SUBSET DOMAIN s |-> IF t = {} THEN b ELSE op[<<f[t \ {Max(t)}], s[Max(t)]>>]]

\* It exists if the operator does not leave the values V.
LEMMA FoldExists ==
  ASSUME NEW S, NEW V, NEW s \in Seq(S), NEW b \in V, NEW op \in [V \X S -> V]
  PROVE  \E f \in [SUBSET DOMAIN s -> V] : Folds(f, op, b, s)
<1> DEFINE n == Len(s)
           Is(f, k) == \A t \in SUBSET (1 .. k) :
                         f[t] = IF t = {} THEN b ELSE op[<<f[t \ {Max(t)}], s[Max(t)]>>]
           D == { k \in 0 .. n : \E f \in [SUBSET (1 .. k) -> V] : Is(f, k) }
<1>1. n \in Nat /\ DOMAIN s = 1 .. n /\ \A k \in 1 .. n : s[k] \in S
  BY LenProperties, ElementOfSeq
<1>2. 0 \in D
  <2> DEFINE f == [t \in SUBSET (1 .. 0) |-> b]
  <2>1. f \in [SUBSET (1 .. 0) -> V] /\ Is(f, 0)
    OBVIOUS
  <2> HIDE DEF f, Is
  <2>2. \E h \in [SUBSET (1 .. 0) -> V] : Is(h, 0)
    BY <2>1
  <2>3. 0 \in 0 .. n
    BY <1>1
  <2> QED BY <2>2, <2>3
<1>3. ASSUME NEW k \in 1 .. n, k - 1 \in D PROVE k \in D
  <2>1. PICK f \in [SUBSET (1 .. k - 1) -> V] : Is(f, k - 1)
    BY <1>3
  <2> DEFINE g == [t \in SUBSET (1 .. k) |->
                     IF k \in t THEN op[<<f[t \ {k}], s[k]>>] ELSE f[t]]
  <2>2. ASSUME NEW t \in SUBSET (1 .. k)
        PROVE  t \ {k} \in SUBSET (1 .. k - 1) /\ (k \notin t => t \in SUBSET (1 .. k - 1))
    BY <1>1
  <2>3. g \in [SUBSET (1 .. k) -> V]
    <3>1. ASSUME NEW t \in SUBSET (1 .. k)
          PROVE  (IF k \in t THEN op[<<f[t \ {k}], s[k]>>] ELSE f[t]) \in V
      BY <1>1, <2>1, <2>2
    <3> QED BY <3>1
  <2>4. \A t \in SUBSET (1 .. k - 1) : g[t] = f[t]
    <3>1. \A t \in SUBSET (1 .. k - 1) : t \in SUBSET (1 .. k) /\ k \notin t
      BY <1>1
    <3> QED BY <3>1
  <2>5. ASSUME NEW t \in SUBSET (1 .. k)
        PROVE  g[t] = IF t = {} THEN b ELSE op[<<g[t \ {Max(t)}], s[Max(t)]>>]
    <3>1. CASE k \in t
      <4>1. Max(t) = k
        <5>1. k \in Nat /\ t # {} /\ t \in SUBSET (1 .. k)
          BY <1>1, <3>1
        <5>2. Max(t) \in t /\ \A y \in t : y <= Max(t)
          BY <5>1, MaxIsGreatest
        <5>3. Max(t) \in 1 .. k /\ k <= Max(t)
          BY <3>1, <5>1, <5>2
        <5> QED BY <5>1, <5>3
      <4>2. g[t] = op[<<f[t \ {k}], s[k]>>] /\ g[t \ {k}] = f[t \ {k}]
        BY <2>2, <2>4, <3>1
      <4> QED BY <3>1, <4>1, <4>2
    <3>2. CASE k \notin t /\ t # {}
      <4>1. t \in SUBSET (1 .. k - 1) /\ t \ {Max(t)} \in SUBSET (1 .. k - 1)
        BY <2>2, <3>2
      <4>2. g[t] = f[t] /\ g[t \ {Max(t)}] = f[t \ {Max(t)}]
        BY <2>4, <4>1
      <4> QED BY <2>1, <3>2, <4>1, <4>2
    <3>3. CASE t = {}
      <4>1. t \in SUBSET (1 .. k - 1)
        BY <3>3
      <4>2. g[t] = f[t]
        BY <2>4, <4>1
      <4> QED BY <2>1, <3>3, <4>1, <4>2
    <3> QED BY <3>1, <3>2, <3>3
  <2>6. Is(g, k)
    <3> HIDE DEF g
    <3> QED BY <2>5
  <2> HIDE DEF g, Is
  <2> QED BY <1>1, <2>3, <2>6
<1>4. n \in D
  <2>1. \A k \in 1 .. n : k - 1 \in D => k \in D
    BY <1>3
  <2> HIDE DEF D, n
  <2>2. 0 .. n \subseteq D
    BY <1>1, <1>2, <2>1, UpTo
  <2> QED BY <1>1, <2>2
<1>5. PICK f \in [SUBSET DOMAIN s -> V] : Is(f, n)
  BY <1>1, <1>4
<1>6. Folds(f, op, b, s)
  BY <1>1, <1>5 DEF Folds
<1> QED BY <1>6

\* FoldLeft goes down from the last element, which is the greatest index.
LEMMA PrefixIs ==
  ASSUME NEW n \in Nat, NEW k \in 1 .. n
  PROVE  /\ 1 .. k \in SUBSET (1 .. n) /\ 1 .. k # {}
         /\ Max(1 .. k) = k /\ (1 .. k) \ {Max(1 .. k)} = 1 .. k - 1
<1>1. k \in Nat /\ 1 .. k \in SUBSET (1 .. n) /\ k \in 1 .. k
  OBVIOUS
<1>2. Max(1 .. k) \in 1 .. k /\ \A y \in 1 .. k : y <= Max(1 .. k)
  <2> DEFINE S == 1 .. k
  <2>1. S \in SUBSET (1 .. k) /\ S # {}
    BY <1>1
  <2> HIDE DEF S
  <2>2. Max(S) \in S /\ \A y \in S : y <= Max(S)
    BY <1>1, <2>1, MaxIsGreatest
  <2> QED BY <2>2 DEF S
<1>3. Max(1 .. k) = k
  BY <1>1, <1>2
<1>4. (1 .. k) \ {k} = 1 .. k - 1
  BY <1>1
<1>5. (1 .. k) \ {Max(1 .. k)} = 1 .. k - 1
  BY <1>3, <1>4
<1>6. 1 .. k # {}
  BY <1>1
<1> QED BY <1>1, <1>3, <1>5, <1>6

\* What FoldLeft applies its operator to is an element of the sequence.
LEMMA MaxIn ==
  ASSUME NEW S, NEW s \in Seq(S), NEW t \in SUBSET DOMAIN s, t # {}
  PROVE  Max(t) \in DOMAIN s /\ s[Max(t)] \in S
<1>1. Len(s) \in Nat /\ DOMAIN s = 1 .. Len(s)
  BY LenProperties
<1>2. Max(t) \in t
  BY <1>1, MaxIsGreatest
<1> QED BY <1>2, ElementOfSeq

LEMMA PriorIs ==
  ASSUME NEW S, NEW V, NEW s \in Seq(S), NEW g \in [0 .. Len(s) -> V], NEW k \in 1 .. Len(s)
  PROVE  k - 1 \in 0 .. Len(s) /\ g[k - 1] \in V /\ s[k] \in S
<1>1. Len(s) \in Nat
  BY LenProperties
<1> QED BY <1>1, ElementOfSeq



\* Its values on the way from b to the result are in V, each from the one before.
FoldsWithin(f, op, V, b, s) ==
  /\ f[{}] = b
  /\ \A t \in SUBSET DOMAIN s :
       t # {} /\ f[t \ {Max(t)}] \in V => f[t] = op[<<f[t \ {Max(t)}], s[Max(t)]>>]
Steps(g, op, b, s, result) ==
  /\ g[0] = b /\ g[Len(s)] = result
  /\ \A k \in 1 .. Len(s) : g[k] = op[<<g[k - 1], s[k]>>]

\* From the function on sets of indices to the values of the fold, one by one.
LEMMA FoldSteps ==
  ASSUME NEW S, NEW V, NEW s \in Seq(S), NEW b \in V, NEW op \in [V \X S -> V],
         NEW iter, FoldsWithin(iter, op, V, b, s)
  PROVE  \E g \in [0 .. Len(s) -> V] : Steps(g, op, b, s, iter[DOMAIN s])
<1> DEFINE n == Len(s)
           g == [k \in 0 .. n |-> iter[1 .. k]]
           D == { k \in 0 .. n : g[k] \in V }
<1>1. n \in Nat /\ DOMAIN s = 1 .. n /\ \A k \in 1 .. n : s[k] \in S
  BY LenProperties, ElementOfSeq
<1>2. g[0] = b /\ iter[DOMAIN s] = g[n]
  BY <1>1 DEF FoldsWithin
<1>3. ASSUME NEW k \in 1 .. n, g[k - 1] \in V
      PROVE  g[k] = op[<<g[k - 1], s[k]>>] /\ g[k] \in V
  <2>1. g[k] = iter[1 .. k] /\ g[k - 1] = iter[1 .. k - 1]
    BY <1>1
  <2>2. /\ 1 .. k \in SUBSET DOMAIN s /\ 1 .. k # {}
        /\ Max(1 .. k) = k /\ (1 .. k) \ {Max(1 .. k)} = 1 .. k - 1
    BY <1>1, PrefixIs
  <2>3. iter[1 .. k] = op[<<iter[1 .. k - 1], s[k]>>]
    BY <1>3, <2>1, <2>2 DEF FoldsWithin
  <2> HIDE DEF g
  <2> QED BY <1>1, <1>3, <2>1, <2>3
<1>4. \A k \in 0 .. n : g[k] \in V
  <2>1. 0 \in D /\ \A k \in 1 .. n : k - 1 \in D => k \in D
    <3>1. 0 \in 0 .. n /\ \A k \in 1 .. n : k \in 0 .. n
      BY <1>1
    <3> HIDE DEF g
    <3> QED BY <1>2, <1>3, <3>1
  <2>2. 0 .. n \subseteq D
    <3> HIDE DEF D
    <3> QED BY <1>1, <2>1, UpTo
  <2> QED BY <2>2
<1>5. g \in [0 .. n -> V]
  BY <1>4
<1>6. \A k \in 1 .. n : g[k] = op[<<g[k - 1], s[k]>>]
  <2> HIDE DEF g
  <2> QED BY <1>1, <1>3, <1>4
<1> HIDE DEF g
<1> QED BY <1>2, <1>5, <1>6 DEF Steps

\* The sorting, one event after the other.
LEMMA ByTimeSteps ==
  ASSUME NEW S, NEW s \in Seq(S)
  PROVE  \E g \in [0 .. Len(s) -> Seq(S)] :
           /\ g[0] = << >> /\ ByTime(s) = g[Len(s)]
           /\ \A k \in 1 .. Len(s) : g[k] = InsertByTime(g[k - 1], s[k])
<1> DEFINE op == [p \in Seq(S) \X S |-> InsertByTime(p[1], p[2])]
           Body(f) == [t \in SUBSET DOMAIN s |->
                         IF t = {} THEN << >> ELSE InsertByTime(f[t \ {Max(t)}], s[Max(t)])]
           iter == CHOOSE f : f = Body(f)
<1>1. \A t \in SUBSET DOMAIN s : t # {} => Max(t) \in DOMAIN s /\ s[Max(t)] \in S
  BY MaxIn
<1>2. << >> \in Seq(S) /\ \A p \in Seq(S) \X S : InsertByTime(p[1], p[2]) \in Seq(S)
  BY InsertIs
<1>3. op \in [Seq(S) \X S -> Seq(S)]
  BY <1>2
<1>4. \A q \in Seq(S), e \in S : op[<<q, e>>] = InsertByTime(q, e)
  OBVIOUS
<1> HIDE DEF op
<1>5. iter = Body(iter)
  <2>1. PICK f \in [SUBSET DOMAIN s -> Seq(S)] : Folds(f, op, << >>, s)
    BY <1>2, <1>3, FoldExists
  <2>2. f = Body(f)
    BY <1>1, <1>4, <2>1 DEF Folds
  <2> HIDE DEF Body
  <2> QED BY <2>2
<1>6. ByTime(s) = iter[DOMAIN s]
  BY DEF ByTime, FoldLeft, MapThenFoldSet
<1> HIDE DEF iter
<1>7. FoldsWithin(iter, op, Seq(S), << >>, s)
  BY <1>1, <1>4, <1>5 DEF FoldsWithin
<1>8. PICK g \in [0 .. Len(s) -> Seq(S)] : Steps(g, op, << >>, s, iter[DOMAIN s])
  BY <1>2, <1>3, <1>7, FoldSteps
<1>9. \A k \in 1 .. Len(s) : g[k] = InsertByTime(g[k - 1], s[k])
  BY <1>4, <1>8, PriorIs DEF Steps
<1> QED BY <1>6, <1>8, <1>9 DEF Steps

-----------------------------------------------------------------------------
(* GetEvents.                                                              *)

\* What Append, \o and SetToSeq do to the elements, and to their being different.
LEMMA AppendIs ==
  ASSUME NEW S, NEW q \in Seq(S), NEW e \in S
  PROVE  /\ Append(q, e) \in Seq(S) /\ Range(Append(q, e)) = Range(q) \cup {e}
         /\ IsInjective(q) /\ e \notin Range(q) => IsInjective(Append(q, e))
<1> DEFINE n == Len(q)
           r == Append(q, e)
<1>1. /\ r \in Seq(S) /\ n \in Nat /\ DOMAIN q = 1 .. n /\ DOMAIN r = 1 .. n + 1
      /\ \A k \in 1 .. n : r[k] = q[k]
      /\ r[n + 1] = e
  <2>1. n \in Nat /\ DOMAIN q = 1 .. n
    BY LenProperties
  <2>2. /\ r \in Seq(S) /\ Len(r) = n + 1 /\ r[n + 1] = e
        /\ \A k \in 1 .. n : r[k] = q[k]
    BY AppendProperties
  <2> QED BY <2>1, <2>2, LenProperties
<1> HIDE DEF r, n
<1>2. Range(q) = { q[k] : k \in 1 .. n } /\ Range(r) = { r[k] : k \in 1 .. n + 1 }
  BY <1>1 DEF Range
<1>3. \A k \in 1 .. n + 1 : k \in 1 .. n \/ k = n + 1
  BY <1>1
<1>4. n + 1 \in 1 .. n + 1 /\ \A k \in 1 .. n : k \in 1 .. n + 1
  BY <1>1
<1>5. Range(r) = Range(q) \cup {e}
  BY <1>1, <1>2, <1>3, <1>4
<1>6. IsInjective(q) /\ e \notin Range(q) => IsInjective(r)
  BY <1>1, <1>2, <1>3 DEF IsInjective
<1> QED BY <1>1, <1>5, <1>6 DEF r

LEMMA ConcatIs ==
  ASSUME NEW S, NEW p \in Seq(S), NEW q \in Seq(S)
  PROVE  /\ p \o q \in Seq(S) /\ Range(p \o q) = Range(p) \cup Range(q)
         /\ IsInjective(p) /\ IsInjective(q) /\ Range(p) \cap Range(q) = {} => IsInjective(p \o q)
<1> DEFINE m == Len(p)
           n == Len(q)
           r == p \o q
<1>1. m \in Nat /\ n \in Nat /\ DOMAIN p = 1 .. m /\ DOMAIN q = 1 .. n
  BY LenProperties
<1>2. /\ r \in Seq(S) /\ DOMAIN r = 1 .. m + n
      /\ \A k \in 1 .. m + n : r[k] = IF k <= m THEN p[k] ELSE q[k - m]
  <2>1. /\ r \in Seq(S) /\ Len(r) = m + n
        /\ \A k \in 1 .. m + n : r[k] = IF k <= m THEN p[k] ELSE q[k - m]
    BY ConcatProperties
  <2> QED BY <2>1, LenProperties
<1> HIDE DEF r, m, n
<1>3. /\ Range(p) = { p[k] : k \in 1 .. m } /\ Range(q) = { q[k] : k \in 1 .. n }
      /\ Range(r) = { r[k] : k \in 1 .. m + n }
  BY <1>1, <1>2 DEF Range
<1>4. \A k \in 1 .. m + n : \/ k \in 1 .. m /\ r[k] = p[k] /\ k <= m
                            \/ k - m \in 1 .. n /\ r[k] = q[k - m] /\ k > m
  BY <1>1, <1>2
<1>5. \A k \in 1 .. m : k \in 1 .. m + n /\ r[k] = p[k]
  BY <1>1, <1>2
<1>6. ASSUME NEW k \in 1 .. n PROVE k + m \in 1 .. m + n /\ r[k + m] = q[k]
  <2> DEFINE j == k + m
  <2>1. j \in 1 .. m + n /\ ~ j <= m /\ j - m = k
    BY <1>1
  <2> HIDE DEF j
  <2>2. r[j] = q[j - m]
    BY <1>2, <2>1
  <2> QED BY <2>1, <2>2 DEF j
<1>7. Range(r) = Range(p) \cup Range(q)
  BY <1>3, <1>4, <1>5, <1>6
<1>8. ASSUME IsInjective(p), IsInjective(q), Range(p) \cap Range(q) = {} PROVE IsInjective(r)
  <2> SUFFICES ASSUME NEW j \in 1 .. m + n, NEW k \in 1 .. m + n, r[j] = r[k] PROVE j = k
    BY <1>2 DEF IsInjective
  <2>1. CASE j \in 1 .. m /\ r[j] = p[j] /\ k \in 1 .. m /\ r[k] = p[k]
    BY <1>1, <1>8, <2>1 DEF IsInjective
  <2>2. CASE j - m \in 1 .. n /\ r[j] = q[j - m] /\ k - m \in 1 .. n /\ r[k] = q[k - m]
    <3>1. j - m = k - m
      BY <1>1, <1>8, <2>2 DEF IsInjective
    <3> QED BY <1>1, <3>1
  <2>3. CASE j \in 1 .. m /\ r[j] = p[j] /\ k - m \in 1 .. n /\ r[k] = q[k - m]
    BY <1>3, <1>8, <2>3
  <2>4. CASE j - m \in 1 .. n /\ r[j] = q[j - m] /\ k \in 1 .. m /\ r[k] = p[k]
    BY <1>3, <1>8, <2>4
  <2> QED BY <1>4, <2>1, <2>2, <2>3, <2>4
<1> QED BY <1>2, <1>7, <1>8 DEF r

LEMMA SetToSeqIs ==
  ASSUME NEW T, IsFiniteSet(T)
  PROVE  SetToSeq(T) \in Seq(T) /\ IsInjective(SetToSeq(T)) /\ Range(SetToSeq(T)) = T
<1> DEFINE n == Cardinality(T)
           s == SetToSeq(T)
<1>1. n \in Nat /\ ExistsBijection(1 .. n, T)
  BY FS_CardinalityType
<1>2. \E f \in [1 .. n -> T] : IsInjective(f)
  BY <1>1 DEF ExistsBijection, Bijection, Injection, IsInjective
<1>3. s \in [1 .. n -> T] /\ IsInjective(s)
  BY <1>2 DEF SetToSeq
<1> HIDE DEF s
<1>4. s \in Injection(1 .. n, T)
  BY <1>3 DEF Injection, IsInjective
<1>5. Cardinality(1 .. n) = n
  BY <1>1, FS_Interval
<1>6. s \in Surjection(1 .. n, T)
  BY <1>4, <1>5, FS_Injection
<1>7. Range(s) = T
  BY <1>6 DEF Surjection, Range
<1>8. s \in Seq(T)
  BY <1>1, <1>3, SeqDef
<1> QED BY <1>3, <1>7, <1>8 DEF s

\* The sorting sorts, and loses nothing.
LEMMA ByTimeIs ==
  ASSUME NEW S, NEW s \in Seq(S), \A f \in S : f.time \in Int
  PROVE  /\ ByTime(s) \in Seq(S) /\ Len(ByTime(s)) = Len(s)
         /\ Sorted(ByTime(s)) /\ Range(ByTime(s)) = Range(s)
         /\ IsInjective(s) => IsInjective(ByTime(s))
<1> DEFINE n == Len(s)
<1>1. n \in Nat /\ DOMAIN s = 1 .. n /\ \A k \in 1 .. n : s[k] \in S
  BY LenProperties, ElementOfSeq
<1>2. PICK g \in [0 .. n -> Seq(S)] :
        /\ g[0] = << >> /\ ByTime(s) = g[n]
        /\ \A k \in 1 .. n : g[k] = InsertByTime(g[k - 1], s[k])
  BY ByTimeSteps
<1> DEFINE Good(k) == Len(g[k]) = k /\ Sorted(g[k]) /\ Range(g[k]) = { s[i] : i \in 1 .. k }
           D == { k \in 0 .. n : Good(k) }
<1> HIDE DEF n
<1>3. 0 \in D
  <2>1. Good(0)
    BY <1>2 DEF Sorted, Range
  <2>2. 0 \in 0 .. n
    BY <1>1
  <2> QED BY <2>1, <2>2
<1>4. ASSUME NEW k \in 1 .. n, k - 1 \in D PROVE k \in D
  <2>1. g[k - 1] \in Seq(S) /\ s[k] \in S /\ Good(k - 1) /\ g[k] = InsertByTime(g[k - 1], s[k])
    BY <1>1, <1>2, <1>4
  <2>2. /\ Len(g[k]) = k - 1 + 1 /\ Sorted(g[k])
        /\ Range(g[k]) = { s[i] : i \in 1 .. k - 1 } \cup {s[k]}
    <3> DEFINE h == g[k - 1]
    <3>1. h \in Seq(S) /\ Len(h) = k - 1 /\ Sorted(h) /\ Range(h) = { s[i] : i \in 1 .. k - 1 }
      BY <2>1
    <3> HIDE DEF h
    <3>2. /\ Len(InsertByTime(h, s[k])) = k - 1 + 1 /\ Sorted(InsertByTime(h, s[k]))
          /\ Range(InsertByTime(h, s[k])) = Range(h) \cup {s[k]}
      <4>1. s[k] \in S
        BY <2>1
      <4>2. Len(InsertByTime(h, s[k])) = Len(h) + 1
        BY <3>1, <4>1, InsertIs
      <4>3. Sorted(InsertByTime(h, s[k])) /\ Range(InsertByTime(h, s[k])) = Range(h) \cup {s[k]}
        BY <3>1, <4>1, InsertKeeps
      <4> QED BY <3>1, <4>2, <4>3
    <3>3. g[k] = InsertByTime(h, s[k])
      BY <2>1 DEF h
    <3> QED BY <3>1, <3>2, <3>3
  <2>3. 1 .. k = (1 .. k - 1) \cup {k} /\ k - 1 + 1 = k /\ k \in 0 .. n
    BY <1>1
  <2>4. { s[i] : i \in 1 .. k } = { s[i] : i \in 1 .. k - 1 } \cup {s[k]}
    BY <2>3
  <2> QED BY <2>2, <2>3, <2>4
<1>5. Good(n)
  <2>1. n \in D
    <3> HIDE DEF D
    <3>1. 0 .. n \subseteq D
      BY <1>1, <1>3, <1>4, UpTo
    <3> QED BY <1>1, <3>1
  <2> QED BY <2>1
<1>6. /\ ByTime(s) \in Seq(S) /\ Len(ByTime(s)) = n
      /\ Sorted(ByTime(s)) /\ Range(ByTime(s)) = Range(s)
  <2>1. n \in 0 .. n /\ g[n] \in Seq(S) /\ Range(s) = { s[i] : i \in 1 .. n }
    BY <1>1 DEF Range
  <2> QED BY <1>2, <1>5, <2>1
<1>7. IsInjective(s) => IsInjective(ByTime(s))
  BY <1>6, RangeCounts DEF n
<1> QED BY <1>6, <1>7 DEF n

\* The events of an answer that satisfy the request, one after the other.
Filters(g, s, r) ==
  /\ g[0] = << >> /\ Satisfying(s, r) = g[Len(s)]
  /\ \A k \in 1 .. Len(s) :
       /\ Satisfies(s[k], r) => g[k] = Append(g[k - 1], s[k])
       /\ ~ Satisfies(s[k], r) => g[k] = g[k - 1]

LEMMA SatisfyingSteps ==
  ASSUME NEW S, NEW s \in Seq(S), NEW r
  PROVE  \E g \in [0 .. Len(s) -> Seq(S)] : Filters(g, s, r)
<1> DEFINE With(es, e) == IF Satisfies(e, r) THEN Append(es, e) ELSE es
           op == [p \in Seq(S) \X S |-> With(p[1], p[2])]
           Body(f) == [t \in SUBSET DOMAIN s |->
                         IF t = {} THEN << >> ELSE With(f[t \ {Max(t)}], s[Max(t)])]
           iter == CHOOSE f : f = Body(f)
<1>1. \A t \in SUBSET DOMAIN s : t # {} => Max(t) \in DOMAIN s /\ s[Max(t)] \in S
  BY MaxIn
<1>2. << >> \in Seq(S) /\ \A p \in Seq(S) \X S : With(p[1], p[2]) \in Seq(S)
  BY AppendIs
<1>3. Satisfying(s, r) = iter[DOMAIN s]
  BY DEF Satisfying, FoldLeft, MapThenFoldSet
<1> HIDE DEF With
<1>4. op \in [Seq(S) \X S -> Seq(S)]
  BY <1>2
<1>5. \A q \in Seq(S), e \in S : op[<<q, e>>] = With(q, e)
  OBVIOUS
<1> HIDE DEF op
<1>6. iter = Body(iter)
  <2>1. PICK f \in [SUBSET DOMAIN s -> Seq(S)] : Folds(f, op, << >>, s)
    BY <1>2, <1>4, FoldExists
  <2>2. f = Body(f)
    BY <1>1, <1>5, <2>1 DEF Folds
  <2> HIDE DEF Body
  <2> QED BY <2>2
<1> HIDE DEF iter
<1>7. FoldsWithin(iter, op, Seq(S), << >>, s)
  BY <1>1, <1>5, <1>6 DEF FoldsWithin
<1>8. PICK g \in [0 .. Len(s) -> Seq(S)] : Steps(g, op, << >>, s, iter[DOMAIN s])
  BY <1>2, <1>4, <1>7, FoldSteps
<1>9. \A k \in 1 .. Len(s) : g[k] = With(g[k - 1], s[k])
  BY <1>5, <1>8, PriorIs DEF Steps
<1> QED BY <1>3, <1>8, <1>9 DEF Steps, With, Filters

\* Those of the events that satisfy the request, each once if it came once.
LEMMA SatisfyingIs ==
  ASSUME NEW S, NEW s \in Seq(S), NEW r
  PROVE  /\ Satisfying(s, r) \in Seq(S)
         /\ Range(Satisfying(s, r)) = { e \in Range(s) : Satisfies(e, r) }
         /\ IsInjective(s) => IsInjective(Satisfying(s, r))
<1> DEFINE n == Len(s)
<1>1. n \in Nat /\ DOMAIN s = 1 .. n /\ \A k \in 1 .. n : s[k] \in S
  BY LenProperties, ElementOfSeq
<1>2. PICK g \in [0 .. Len(s) -> Seq(S)] : Filters(g, s, r)
  BY SatisfyingSteps
<1> DEFINE Upto(k) == { i \in 1 .. k : Satisfies(s[i], r) }
           Good(k) == /\ Range(g[k]) = { s[i] : i \in Upto(k) }
                      /\ IsInjective(s) => IsInjective(g[k])
           D == { k \in 0 .. n : Good(k) }
<1> HIDE DEF n
<1>3. 0 \in D
  <2>1. Good(0)
    <3>1. Range(<< >>) = {} /\ IsInjective(<< >>)
      BY DEF Range, IsInjective
    <3>2. Upto(0) = {} /\ g[0] = << >>
      BY <1>2 DEF Filters
    <3> QED BY <3>1, <3>2
  <2>2. 0 \in 0 .. n
    BY <1>1
  <2> QED BY <2>1, <2>2
<1>4. ASSUME NEW k \in 1 .. n, k - 1 \in D PROVE k \in D
  <2> DEFINE h == g[k - 1]
  <2>1. /\ k \in 0 .. n /\ h \in Seq(S) /\ s[k] \in S
        /\ Range(h) = { s[i] : i \in Upto(k - 1) } /\ (IsInjective(s) => IsInjective(h))
        /\ Satisfies(s[k], r) => g[k] = Append(h, s[k])
        /\ ~ Satisfies(s[k], r) => g[k] = h
    <3>1. k \in 0 .. n /\ h \in Seq(S) /\ s[k] \in S
      BY <1>1, <1>2, PriorIs DEF n
    <3>2. Good(k - 1)
      BY <1>4
    <3>3. /\ Satisfies(s[k], r) => g[k] = Append(h, s[k])
          /\ ~ Satisfies(s[k], r) => g[k] = h
      BY <1>2 DEF Filters, n
    <3> QED BY <3>1, <3>2, <3>3
  <2> HIDE DEF h
  <2>2. Upto(k) = Upto(k - 1) \cup (IF Satisfies(s[k], r) THEN {k} ELSE {})
    <3>1. 1 .. k = (1 .. k - 1) \cup {k}
      BY <1>1
    <3> QED BY <3>1
  <2>3. IsInjective(s) => s[k] \notin { s[i] : i \in Upto(k - 1) }
    <3>1. \A i \in 1 .. k - 1 : i \in 1 .. n /\ i # k
      BY <1>1
    <3> QED BY <1>1, <3>1 DEF IsInjective
  <2>4. CASE Satisfies(s[k], r)
    <3>1. /\ Range(Append(h, s[k])) = Range(h) \cup {s[k]}
          /\ IsInjective(s) => IsInjective(Append(h, s[k]))
      <4>1. h \in Seq(S) /\ s[k] \in S /\ (IsInjective(s) => IsInjective(h) /\ s[k] \notin Range(h))
        BY <2>1, <2>3
      <4> HIDE DEF Upto
      <4>2. /\ Range(Append(h, s[k])) = Range(h) \cup {s[k]}
            /\ IsInjective(h) /\ s[k] \notin Range(h) => IsInjective(Append(h, s[k]))
        BY <4>1, AppendIs
      <4> QED BY <4>1, <4>2
    <3>2. { s[i] : i \in Upto(k) } = { s[i] : i \in Upto(k - 1) } \cup {s[k]}
      <4> HIDE DEF Upto
      <4> QED BY <2>2, <2>4
    <3> QED BY <2>1, <2>4, <3>1, <3>2
  <2>5. CASE ~ Satisfies(s[k], r)
    <3>1. Upto(k) = Upto(k - 1)
      BY <2>2, <2>5
    <3> QED BY <2>1, <2>5, <3>1
  <2> QED BY <2>4, <2>5
<1>5. Good(n) /\ n \in 0 .. n
  <2>1. n \in D
    <3> HIDE DEF D
    <3>1. 0 .. n \subseteq D
      BY <1>1, <1>3, <1>4, UpTo
    <3> QED BY <1>1, <3>1
  <2> QED BY <2>1
<1>6. { s[i] : i \in Upto(n) } = { e \in Range(s) : Satisfies(e, r) }
  BY <1>1 DEF Range
<1>7. Satisfying(s, r) = g[n] /\ g[n] \in Seq(S)
  BY <1>1, <1>2, <1>5 DEF Filters, n
<1> HIDE DEF Upto
<1> QED BY <1>5, <1>6, <1>7

\* The answers of the types of the request, one behind the other.
Part(store, r, t) == Satisfying(InTimeRange(store[t], r.start, r.end, r.max), r)
Gathers(g, store, r, types) ==
  /\ g[0] = << >> /\ Found(store, r) = g[Len(types)]
  /\ \A k \in 1 .. Len(types) : g[k] = g[k - 1] \o Part(store, r, types[k])

LEMMA FoundSteps ==
  ASSUME NEW S, NEW store, NEW r, IsFiniteSet(r.types),
         \A t \in r.types : Part(store, r, t) \in Seq(S)
  PROVE  LET types == SetToSeq(r.types)
         IN \E g \in [0 .. Len(types) -> Seq(S)] : Gathers(g, store, r, types)
<1> DEFINE s == SetToSeq(r.types)
           With(es, t) == es \o Satisfying(InTimeRange(store[t], r.start, r.end, r.max), r)
           op == [p \in Seq(S) \X r.types |-> With(p[1], p[2])]
           Body(f) == [t \in SUBSET DOMAIN s |->
                         IF t = {} THEN << >> ELSE With(f[t \ {Max(t)}], s[Max(t)])]
           iter == CHOOSE f : f = Body(f)
<1>1. s \in Seq(r.types)
  BY SetToSeqIs
<1>2. Found(store, r) = iter[DOMAIN s]
  BY DEF Found, FoldLeft, MapThenFoldSet
<1>3. ASSUME NEW q \in Seq(S), NEW t \in r.types
      PROVE  With(q, t) = q \o Part(store, r, t) /\ q \o Part(store, r, t) \in Seq(S)
  <2>1. Part(store, r, t) \in Seq(S)
    OBVIOUS
  <2>2. q \o Part(store, r, t) \in Seq(S)
    BY <2>1, ConcatIs
  <2> QED BY <2>2 DEF Part
<1> HIDE DEF s, With
<1>4. \A t \in SUBSET DOMAIN s : t # {} => Max(t) \in DOMAIN s /\ s[Max(t)] \in r.types
  BY <1>1, MaxIn
<1>5. << >> \in Seq(S) /\ op \in [Seq(S) \X r.types -> Seq(S)]
  <2>1. \A p \in Seq(S) \X r.types : With(p[1], p[2]) \in Seq(S)
    BY <1>3
  <2> QED BY <2>1
<1>6. \A q \in Seq(S), e \in r.types : op[<<q, e>>] = With(q, e)
  OBVIOUS
<1> HIDE DEF op
<1>7. iter = Body(iter)
  <2>1. PICK f \in [SUBSET DOMAIN s -> Seq(S)] : Folds(f, op, << >>, s)
    BY <1>1, <1>5, FoldExists
  <2>2. f = Body(f)
    BY <1>4, <1>6, <2>1 DEF Folds
  <2> HIDE DEF Body
  <2> QED BY <2>2
<1> HIDE DEF iter
<1>8. FoldsWithin(iter, op, Seq(S), << >>, s)
  BY <1>4, <1>6, <1>7 DEF FoldsWithin
<1>9. PICK g \in [0 .. Len(s) -> Seq(S)] : Steps(g, op, << >>, s, iter[DOMAIN s])
  BY <1>1, <1>5, <1>8, FoldSteps
<1>10. \A k \in 1 .. Len(s) : g[k] = g[k - 1] \o Part(store, r, s[k])
  <2> SUFFICES ASSUME NEW k \in 1 .. Len(s) PROVE g[k] = g[k - 1] \o Part(store, r, s[k])
    OBVIOUS
  <2>1. g[k - 1] \in Seq(S) /\ s[k] \in r.types /\ g[k] = op[<<g[k - 1], s[k]>>]
    BY <1>1, <1>9, PriorIs DEF Steps
  <2> QED BY <1>3, <1>6, <2>1
<1> QED BY <1>2, <1>9, <1>10 DEF Steps, Gathers, s

\* The answers of two types have no event in common.
Apart(store, r) ==
  \A t \in r.types :
    /\ IsInjective(Part(store, r, t))
    /\ \A u \in r.types \ {t} : Range(Part(store, r, t)) \cap Range(Part(store, r, u)) = {}

\* What is found are the events of all the answers.
LEMMA FoundIs ==
  ASSUME NEW S, NEW store, NEW r, IsFiniteSet(r.types),
         \A t \in r.types : Part(store, r, t) \in Seq(S)
  PROVE  /\ Found(store, r) \in Seq(S)
         /\ Range(Found(store, r)) = UNION { Range(Part(store, r, t)) : t \in r.types }
         /\ Apart(store, r) => IsInjective(Found(store, r))
<1> DEFINE s == SetToSeq(r.types)
           part(i) == Part(store, r, s[i])
           n == Len(s)
<1>1. s \in Seq(r.types) /\ IsInjective(s) /\ Range(s) = r.types
  BY SetToSeqIs
<1>2. PICK g \in [0 .. n -> Seq(S)] : Gathers(g, store, r, s)
  BY FoundSteps
<1> HIDE DEF s
<1>3. /\ n \in Nat /\ DOMAIN s = 1 .. n /\ r.types = { s[i] : i \in 1 .. n }
      /\ \A k \in 1 .. n : s[k] \in r.types /\ part(k) \in Seq(S)
  BY <1>1, LenProperties, ElementOfSeq DEF Range
<1>4. /\ g[0] = << >> /\ Found(store, r) = g[n]
      /\ \A k \in 1 .. n : g[k] = g[k - 1] \o part(k)
  BY <1>2 DEF Gathers
<1> DEFINE Upto(k) == UNION { Range(part(i)) : i \in 1 .. k }
           Good(k) == /\ Range(g[k]) = Upto(k)
                      /\ Apart(store, r) => IsInjective(g[k])
           D == { k \in 0 .. n : Good(k) }
<1> HIDE DEF n
<1>5. 0 \in D
  <2>1. Good(0)
    <3>1. Range(<< >>) = {} /\ IsInjective(<< >>)
      BY DEF Range, IsInjective
    <3>2. 1 .. 0 = {}
      OBVIOUS
    <3>3. Upto(0) = {}
      <4> HIDE DEF part
      <4> QED BY <3>2
    <3> QED BY <1>4, <3>1, <3>3
  <2>2. 0 \in 0 .. n
    BY <1>3
  <2> QED BY <2>1, <2>2
<1>6. ASSUME NEW k \in 1 .. n, k - 1 \in D PROVE k \in D
  <2> DEFINE h == g[k - 1]
             p == part(k)
  <2>n. n \in Nat
    BY <1>3
  <2>1. k \in 0 .. n /\ h \in Seq(S) /\ p \in Seq(S) /\ g[k] = h \o p
    <3>1. k \in 0 .. n /\ k - 1 \in 0 .. n
      BY <2>n
    <3>2. h \in Seq(S)
      BY <3>1
    <3> HIDE DEF part
    <3> QED BY <1>3, <1>4, <3>1, <3>2
  <2>2. Range(h) = Upto(k - 1) /\ (Apart(store, r) => IsInjective(h))
    BY <1>6
  <2>3. 1 .. k = (1 .. k - 1) \cup {k}
    BY <2>n
  <2>4. Apart(store, r) => IsInjective(p) /\ Upto(k - 1) \cap Range(p) = {}
    <3>1. ASSUME Apart(store, r), NEW i \in 1 .. k - 1
          PROVE  Range(part(i)) \cap Range(p) = {}
      <4>1. i \in 1 .. n /\ i # k
        BY <1>3
      <4>2. s[i] \in r.types /\ s[k] \in r.types \ {s[i]}
        BY <1>1, <1>3, <4>1 DEF IsInjective
      <4> QED BY <3>1, <4>2 DEF Apart
    <3>2. Apart(store, r) => IsInjective(p)
      BY <1>3 DEF Apart
    <3> HIDE DEF part, p
    <3> QED BY <3>1, <3>2
  <2>5. Upto(k) = Upto(k - 1) \cup Range(p)
    <3> HIDE DEF part
    <3> QED BY <2>3
  <2> HIDE DEF h, p, Upto
  <2>6. /\ Range(h \o p) = Range(h) \cup Range(p)
        /\ IsInjective(h) /\ IsInjective(p) /\ Range(h) \cap Range(p) = {} => IsInjective(h \o p)
    BY <2>1, ConcatIs
  <2>7. Good(k)
    BY <2>1, <2>2, <2>4, <2>5, <2>6
  <2> QED BY <2>1, <2>7
<1>7. Good(n) /\ n \in 0 .. n
  <2>1. n \in D
    <3> HIDE DEF D
    <3>1. 0 .. n \subseteq D
      BY <1>3, <1>5, <1>6, UpTo
    <3> QED BY <1>3, <3>1
  <2> QED BY <2>1
<1>8. Upto(n) = UNION { Range(Part(store, r, t)) : t \in r.types }
  BY <1>3
<1>9. g[n] \in Seq(S)
  BY <1>3, <1>7, <1>2 DEF n
<1> HIDE DEF Upto
<1> QED BY <1>4, <1>7, <1>8, <1>9

\* IsLast for what is sorted already.
LEMMA LastOfIs ==
  ASSUME NEW S, \A f \in S : f.time \in Int, NEW s \in Seq(S), Sorted(s), IsInjective(s),
         NEW n \in {NoLimit} \cup (Nat \ {0})
  PROVE  /\ LastOf(s, n) \in Seq(S) /\ IsLast(LastOf(s, n), Range(s), n)
<1>1. /\ Len(s) \in Nat /\ DOMAIN s = 1 .. Len(s) /\ Cardinality(Range(s)) = Len(s)
      /\ Range(s) = { s[k] : k \in 1 .. Len(s) }
  BY LenProperties, RangeCounts DEF Range
<1>2. CASE n = NoLimit \/ n >= Len(s)
  <2>1. LastOf(s, n) = s
    BY <1>1, <1>2 DEF LastOf, NoLimit
  <2>2. n # NoLimit => Min({n, Len(s)}) = Len(s)
    <3> SUFFICES ASSUME n # NoLimit PROVE Min({n, Len(s)}) = Len(s)
      OBVIOUS
    <3>1. {n, Len(s)} \in SUBSET Nat /\ {n, Len(s)} # {} /\ n >= Len(s) /\ n \in Nat
      BY <1>1, <1>2 DEF NoLimit
    <3>2. Min({n, Len(s)}) \in {n, Len(s)} /\ \A y \in {n, Len(s)} : Min({n, Len(s)}) <= y
      BY <3>1, MinIsLeast
    <3> QED BY <1>1, <3>1, <3>2
  <2> QED BY <1>1, <2>1, <2>2 DEF IsLast
<1>3. CASE n \in Nat \ {0} /\ n < Len(s)
  <2> DEFINE i == Len(s) - n + 1
             r == From(s, i)
  <2>1. i \in 1 .. Len(s) /\ i \in 1 .. Len(s) + 1 /\ LastOf(s, n) = r /\ Len(s) + 1 - i = n
    BY <1>1, <1>3 DEF LastOf
  <2> HIDE DEF i
  <2>2. r \in Seq(S) /\ Len(r) = n
    BY <2>1, FromIs
  <2>3. Range(r) = { s[k] : k \in i .. Len(s) } /\ Sorted(r)
    BY <2>1, FromKeeps
  <2>4. IsInjective(r)
    BY <2>1, FromKeeps
  <2>5. \A k \in i .. Len(s) : k \in 1 .. Len(s)
    BY <1>1, <2>1
  <2>6. Range(r) \subseteq Range(s)
    BY <1>1, <2>3, <2>5
  <2>7. ASSUME NEW e \in Range(s) \ Range(r), NEW f \in Range(r) PROVE e.time <= f.time
    <3>1. PICK j \in 1 .. Len(s), k \in i .. Len(s) : e = s[j] /\ f = s[k]
      BY <1>1, <2>3, <2>7
    <3>2. j < i
      BY <1>1, <2>1, <2>3, <2>7, <3>1
    <3>3. j <= k /\ k \in 1 .. Len(s)
      BY <1>1, <2>1, <2>5, <3>1, <3>2
    <3> QED BY <1>1, <3>1, <3>3 DEF Sorted
  <2>8. n # NoLimit /\ Min({n, Len(s)}) = n
    <3>1. {n, Len(s)} \in SUBSET Nat /\ {n, Len(s)} # {}
      BY <1>1, <1>3
    <3>2. Min({n, Len(s)}) \in {n, Len(s)} /\ \A y \in {n, Len(s)} : Min({n, Len(s)}) <= y
      BY <3>1, MinIsLeast
    <3> QED BY <1>1, <1>3, <3>2 DEF NoLimit
  <2> HIDE DEF r
  <2> QED BY <1>1, <2>1, <2>2, <2>3, <2>4, <2>6, <2>7, <2>8 DEF IsLast
<1> QED BY <1>1, <1>2, <1>3

\* The requests that GetEvents answers: an inverted range of time panics.
Answered == { r \in Requests : r.start # NoTime /\ r.end # NoTime => r.start <= r.end }
\* The answer of the store of a type, before it is filtered.
Taken(s, r) == InTimeRange(s, r.start, r.end, r.max)
\* The events in the range of time of the request.
InTime(events, r) ==
  { e \in events : (r.start # NoTime => r.start <= e.time) /\ (r.end # NoTime => e.time <= r.end) }
\* All of the events, or the last n of them.
TakesLast(part, events, n) ==
  \/ part = events
  \/ /\ n # NoLimit /\ part \subseteq events /\ Cardinality(part) = n
     /\ \A e \in events \ part, f \in part : e.time <= f.time

\* The last m events up to place b, as a set.
LEMMA LastUpToIs ==
  ASSUME NEW S, NEW s \in Seq(S), NEW b \in 0 .. Len(s), NEW m \in 0 .. b
  PROVE  LET q == LastUpTo(s, b, m)
         IN /\ q \in Seq(S) /\ Len(q) = m /\ Range(q) = { s[k] : k \in b - m + 1 .. b }
            /\ IsInjective(s) => IsInjective(q)
<1> DEFINE q == LastUpTo(s, b, m)
<1>1. /\ Len(s) \in Nat /\ b \in Nat /\ m \in Nat /\ m <= b /\ b <= Len(s)
      /\ DOMAIN s = 1 .. Len(s) /\ \A k \in 1 .. Len(s) : s[k] \in S
  BY LenProperties, ElementOfSeq
<1>2. \A i \in 1 .. m : b - m + i \in 1 .. Len(s) /\ b - m + i \in b - m + 1 .. b
  BY <1>1
<1>3. DOMAIN q = 1 .. m /\ (\A i \in 1 .. m : q[i] = s[b - m + i]) /\ q \in [1 .. m -> S]
  BY <1>1, <1>2 DEF LastUpTo
<1> HIDE DEF q
<1>4. q \in Seq(S) /\ Len(q) = m
  <2>1. q \in Seq(S)
    BY <1>1, <1>3, SeqDef
  <2> QED BY <1>1, <1>3, <2>1, LenProperties
<1>5. Range(q) = { s[k] : k \in b - m + 1 .. b }
  <2>1. ASSUME NEW k \in b - m + 1 .. b PROVE s[k] \in Range(q)
    <3> DEFINE i == k - (b - m)
    <3>1. i \in 1 .. m /\ b - m + i = k
      BY <1>1
    <3> HIDE DEF i
    <3> QED BY <1>3, <3>1 DEF Range
  <2>2. Range(q) = { q[i] : i \in 1 .. m }
    BY <1>3 DEF Range
  <2> QED BY <1>2, <1>3, <2>1, <2>2
<1>6. ASSUME IsInjective(s) PROVE IsInjective(q)
  <2> SUFFICES ASSUME NEW i \in 1 .. m, NEW j \in 1 .. m, q[i] = q[j] PROVE i = j
    BY <1>3 DEF IsInjective
  <2>1. b - m + i = b - m + j
    BY <1>1, <1>2, <1>3, <1>6 DEF IsInjective
  <2> QED BY <1>1, <2>1
<1> QED BY <1>4, <1>5, <1>6 DEF q

\* RangeIsExact with sets of events in the place of places.
LEMMA TakenIs ==
  ASSUME NEW S, \A f \in S : f.time \in Int, NEW s \in Seq(S), Sorted(s), IsInjective(s),
         NEW r \in Answered
  PROVE  /\ Taken(s, r) \in Seq(S) /\ IsInjective(Taken(s, r))
         /\ TakesLast(Range(Taken(s, r)), InTime(Range(s), r), r.max)
         /\ r.start # NoTime /\ r.end # NoTime => Range(Taken(s, r)) = InTime(Range(s), r)
<1>1. /\ r.start \in Nat /\ r.end \in Nat /\ r.max \in (Nat \ {0}) \cup {NoLimit}
      /\ r.start # NoTime /\ r.end # NoTime => r.start <= r.end
  BY EventAssumption DEF Answered, Requests, Times, NoTime
<1>2. AnswersExactly(s, r.start, r.end, r.max)
  BY <1>1, RangeIsExact
<1>a. PICK b \in 0 .. Len(s) : \E n \in 0 .. b :
        /\ Within(s, r.start, r.end) = b - n + 1 .. b
        /\ Taken(s, r) = LastUpTo(s, b, AtMost(n, r.start, r.end, r.max))
  BY <1>2 DEF AnswersExactly, Taken
<1>3. PICK n \in 0 .. b :
        /\ Within(s, r.start, r.end) = b - n + 1 .. b
        /\ Taken(s, r) = LastUpTo(s, b, AtMost(n, r.start, r.end, r.max))
  BY <1>a
<1> DEFINE m == AtMost(n, r.start, r.end, r.max)
           q == Taken(s, r)
<1>4. /\ Len(s) \in Nat /\ b \in Nat /\ n \in Nat /\ n <= b /\ b <= Len(s)
      /\ DOMAIN s = 1 .. Len(s) /\ \A k \in 1 .. Len(s) : s[k] \in S /\ s[k].time \in Int
  BY LenProperties, ElementOfSeq
<1>5. /\ m \in 0 .. n
      /\ m = n \/ (r.max # NoLimit /\ m = r.max /\ (r.start = NoTime \/ r.end = NoTime))
  BY <1>1, <1>4 DEF AtMost
<1> HIDE DEF m
<1>6. m \in 0 .. b
  BY <1>4, <1>5
<1>7. /\ q \in Seq(S) /\ Len(q) = m /\ Range(q) = { s[k] : k \in b - m + 1 .. b }
      /\ IsInjective(q)
  BY <1>3, <1>6, LastUpToIs DEF m
<1>8. InTime(Range(s), r) = { s[k] : k \in b - n + 1 .. b }
  <2>1. Range(s) = { s[k] : k \in 1 .. Len(s) }
    BY <1>4 DEF Range
  <2>2. InTime(Range(s), r) = { s[k] : k \in Within(s, r.start, r.end) }
    BY <1>4, <2>1 DEF InTime, Within
  <2> QED BY <1>3, <2>2
<1> HIDE DEF q
<1>9. CASE m = n
  BY <1>7, <1>8, <1>9 DEF TakesLast, q
<1>10. CASE r.max # NoLimit /\ m = r.max /\ (r.start = NoTime \/ r.end = NoTime)
  <2>1. b - m + 1 .. b \subseteq b - n + 1 .. b
    BY <1>4, <1>5
  <2>2. Range(q) \subseteq InTime(Range(s), r)
    BY <1>7, <1>8, <2>1
  <2>3. Cardinality(Range(q)) = m
    BY <1>7, RangeCounts
  <2>4. ASSUME NEW e \in InTime(Range(s), r) \ Range(q), NEW f \in Range(q)
        PROVE  e.time <= f.time
    <3>1. PICK j \in b - n + 1 .. b, k \in b - m + 1 .. b : e = s[j] /\ f = s[k]
      BY <1>7, <1>8
    <3>2. j \notin b - m + 1 .. b
      BY <1>7, <3>1
    <3>3. j \in 1 .. Len(s) /\ k \in 1 .. Len(s) /\ j <= k
      BY <1>4, <1>6, <3>2
    <3> QED BY <1>4, <3>1, <3>3 DEF Sorted
  <2> QED BY <1>7, <1>10, <2>2, <2>3, <2>4 DEF TakesLast, q
<1> QED BY <1>5, <1>9, <1>10

\* The last of events that have the last of more events among them.
LEMMA LastOfMore ==
  ASSUME NEW S, \A f \in S : f.time \in Int, NEW A \in Seq(S), NEW M \in SUBSET S, IsFiniteSet(M),
         NEW X \in SUBSET M, NEW n \in Nat \ {0}, n # NoLimit, IsLast(A, X, n),
         \A e \in M \ X : \E Y \in SUBSET X : /\ Cardinality(Y) = n
                                              /\ \A f \in Y : e.time <= f.time
  PROVE  IsLast(A, M, n)
<1>1. CASE M = X
  BY <1>1
<1>2. CASE M # X
  <2>1. /\ IsFiniteSet(X) /\ Cardinality(X) \in Nat /\ Cardinality(M) \in Nat
        /\ Cardinality(X) <= Cardinality(M)
    BY FS_Subset, FS_CardinalityType
  <2>2. n <= Cardinality(X)
    <3>1. PICK Y \in SUBSET X : Cardinality(Y) = n
      BY <1>2
    <3> QED BY <2>1, <3>1, FS_Subset
  <2>3. Min({n, Cardinality(X)}) = n /\ Min({n, Cardinality(M)}) = n
    <3> SUFFICES ASSUME NEW c \in Nat, n <= c PROVE Min({n, c}) = n
      BY <2>1, <2>2
    <3>1. {n, c} \in SUBSET Nat /\ {n, c} # {}
      OBVIOUS
    <3>2. Min({n, c}) \in {n, c} /\ \A y \in {n, c} : Min({n, c}) <= y
      BY <3>1, MinIsLeast
    <3> QED BY <3>2
  <2>4. /\ Len(A) = n /\ Sorted(A) /\ IsInjective(A) /\ Range(A) \subseteq X
        /\ \A e \in X \ Range(A), f \in Range(A) : e.time <= f.time
    BY <2>3 DEF IsLast
  <2>5. Cardinality(Range(A)) = n /\ IsFiniteSet(Range(A))
    BY <2>4, RangeCounts
  <2>6. ASSUME NEW e \in M \ Range(A), NEW f \in Range(A) PROVE e.time <= f.time
    <3>1. CASE e \in X
      BY <2>4, <3>1
    <3>2. CASE e \notin X
      <4>1. PICK Y \in SUBSET X : Cardinality(Y) = n /\ \A g \in Y : e.time <= g.time
        BY <3>2
      <4>2. CASE Y \subseteq Range(A)
        <5>1. Y = Range(A)
          BY <2>5, <4>1, <4>2, FS_Subset
        <5> QED BY <4>1, <5>1
      <4>3. CASE ~ Y \subseteq Range(A)
        <5>1. PICK g \in Y : g \in X \ Range(A)
          BY <4>3
        <5>2. e.time <= g.time /\ g.time <= f.time
          BY <2>4, <4>1, <5>1
        <5>3. e.time \in Int /\ f.time \in Int /\ g.time \in Int
          BY <2>4, <5>1
        <5> QED BY <5>2, <5>3
      <4> QED BY <4>2, <4>3
    <3> QED BY <3>1, <3>2
  <2> QED BY <2>3, <2>4, <2>6 DEF IsLast
<1> QED BY <1>1, <1>2

\* Stores as Update makes them.
WellStored(store) ==
  \A t \in Types : /\ store[t] \in Seq(AnyEvents) /\ Sorted(store[t]) /\ IsInjective(store[t])
                   /\ \A e \in Range(store[t]) : e.type = t
AllIn(store) == UNION { Range(store[t]) : t \in Types }

\* The answer of one type: of the events it takes, those that satisfy the request.
LEMMA PartIs ==
  ASSUME NEW store, WellStored(store), NEW r \in Answered, NEW t \in r.types
  PROVE  /\ Part(store, r, t) \in Seq(AnyEvents) /\ IsInjective(Part(store, r, t))
         /\ Range(Part(store, r, t)) = { e \in Range(Taken(store[t], r)) : Satisfies(e, r) }
         /\ TakesLast(Range(Taken(store[t], r)), InTime(Range(store[t]), r), r.max)
         /\ r.start # NoTime /\ r.end # NoTime =>
              Range(Taken(store[t], r)) = InTime(Range(store[t]), r)
<1>1. /\ store[t] \in Seq(AnyEvents) /\ Sorted(store[t]) /\ IsInjective(store[t])
      /\ \A f \in AnyEvents : f.time \in Int
  <2>1. t \in Types
    BY DEF Answered, Requests
  <2>2. \A f \in AnyEvents : f.time \in Int
    BY DEF AnyEvents, Times
  <2> QED BY <2>1, <2>2 DEF WellStored
<1>2. /\ Taken(store[t], r) \in Seq(AnyEvents) /\ IsInjective(Taken(store[t], r))
      /\ TakesLast(Range(Taken(store[t], r)), InTime(Range(store[t]), r), r.max)
      /\ r.start # NoTime /\ r.end # NoTime =>
           Range(Taken(store[t], r)) = InTime(Range(store[t]), r)
  BY <1>1, TakenIs
<1>3. /\ Satisfying(Taken(store[t], r), r) \in Seq(AnyEvents)
      /\ IsInjective(Satisfying(Taken(store[t], r), r))
      /\ Range(Satisfying(Taken(store[t], r), r)) =
           { e \in Range(Taken(store[t], r)) : Satisfies(e, r) }
  <2> DEFINE q == Taken(store[t], r)
  <2>1. q \in Seq(AnyEvents) /\ IsInjective(q)
    BY <1>2
  <2> HIDE DEF q
  <2>2. /\ Satisfying(q, r) \in Seq(AnyEvents) /\ IsInjective(Satisfying(q, r))
        /\ Range(Satisfying(q, r)) = { e \in Range(q) : Satisfies(e, r) }
    BY <2>1, SatisfyingIs
  <2> QED BY <2>2 DEF q
<1>4. Part(store, r, t) = Satisfying(Taken(store[t], r), r)
  BY DEF Part, Taken
<1> QED BY <1>2, <1>3, <1>4

\* What is found are the matching events in time, or the last of them per type.
LEMMA FoundMatches ==
  ASSUME IsFiniteSet(Types), NEW store, WellStored(store), NEW r \in Answered
  PROVE  LET X == Range(Found(store, r))
             M == Match(AllIn(store), r)
         IN /\ Found(store, r) \in Seq(AnyEvents) /\ IsInjective(Found(store, r))
            /\ X \subseteq M
            /\ r.max = NoLimit \/ (r.start # NoTime /\ r.end # NoTime) => X = M
            /\ r.container = AnyContainer =>
                 \A e \in M \ X : \E Y \in SUBSET X : /\ Cardinality(Y) = r.max
                                                      /\ \A f \in Y : e.time <= f.time
<1> DEFINE takes(t) == Range(Taken(store[t], r))
           inTime(t) == InTime(Range(store[t]), r)
           X == Range(Found(store, r))
           M == Match(AllIn(store), r)
<1>1. r.types \in SUBSET Types /\ IsFiniteSet(r.types)
  <2>1. r.types \in SUBSET Types
    BY DEF Answered, Requests
  <2> QED BY <2>1, FS_Subset
<1>2. \A t \in r.types :
        /\ Part(store, r, t) \in Seq(AnyEvents) /\ IsInjective(Part(store, r, t))
        /\ Range(Part(store, r, t)) = { e \in takes(t) : Satisfies(e, r) }
        /\ TakesLast(takes(t), inTime(t), r.max)
        /\ r.start # NoTime /\ r.end # NoTime => takes(t) = inTime(t)
  BY PartIs
<1>3. \A t \in r.types : takes(t) \subseteq inTime(t)
  BY <1>2 DEF TakesLast
<1>4. \A t \in r.types : \A e \in inTime(t) : e.type = t /\ e \in Range(store[t])
  BY <1>1 DEF WellStored, InTime
<1>5. Apart(store, r)
  <2> HIDE DEF takes, inTime
  <2>1. \A t \in r.types : \A e \in Range(Part(store, r, t)) : e.type = t
    BY <1>2, <1>3, <1>4
  <2> QED BY <1>2, <2>1 DEF Apart
<1>6. /\ Found(store, r) \in Seq(AnyEvents) /\ IsInjective(Found(store, r))
      /\ X = UNION { Range(Part(store, r, t)) : t \in r.types }
  BY <1>1, <1>2, <1>5, FoundIs
<1>7. \A e : e \in X <=> \E t \in r.types : e \in takes(t) /\ Satisfies(e, r)
  <2> HIDE DEF takes, inTime
  <2> QED BY <1>2, <1>6
<1>8. \A e : e \in M <=> \E t \in r.types : e \in inTime(t) /\ Satisfies(e, r)
  <2>1. ASSUME NEW e \in M PROVE \E t \in r.types : e \in inTime(t) /\ Satisfies(e, r)
    <3>1. Satisfies(e, r) /\ \E t \in Types : e \in Range(store[t])
      BY DEF Match, AllIn
    <3>2. PICK t \in Types : e \in Range(store[t])
      BY <3>1
    <3>3. e.type = t
      BY <3>2 DEF WellStored
    <3>4. t \in r.types /\ e \in inTime(t)
      BY <3>1, <3>2, <3>3 DEF Satisfies, InTime
    <3> QED BY <3>1, <3>4
  <2>2. ASSUME NEW t \in r.types, NEW e \in inTime(t), Satisfies(e, r) PROVE e \in M
    BY <1>1, <1>4, <2>2 DEF Match, AllIn
  <2> HIDE DEF M, inTime
  <2> QED BY <2>1, <2>2
<1> HIDE DEF X, M, takes, inTime
<1>9. X \subseteq M
  BY <1>3, <1>7, <1>8
<1>10. ASSUME r.max = NoLimit \/ (r.start # NoTime /\ r.end # NoTime) PROVE X = M
  <2>1. \A t \in r.types : takes(t) = inTime(t)
    BY <1>2, <1>10 DEF TakesLast
  <2> QED BY <1>7, <1>8, <2>1
<1>11. ASSUME r.container = AnyContainer, NEW e \in M \ X
       PROVE  \E Y \in SUBSET X : Cardinality(Y) = r.max /\ \A f \in Y : e.time <= f.time
  <2>1. PICK t \in r.types : e \in inTime(t) /\ Satisfies(e, r)
    BY <1>8
  <2>2. e \notin takes(t)
    BY <1>7, <2>1
  <2>3. Cardinality(takes(t)) = r.max /\ \A f \in takes(t) : e.time <= f.time
    BY <1>2, <2>1, <2>2 DEF TakesLast
  <2>4. takes(t) \subseteq X
    <3> SUFFICES ASSUME NEW f \in takes(t) PROVE Satisfies(f, r)
      BY <1>7
    <3>1. f \in inTime(t) /\ f.type = t
      BY <1>3, <1>4
    <3> QED BY <1>11, <3>1 DEF Satisfies, inTime, InTime
  <2> QED BY <2>3, <2>4
<1> QED BY <1>6, <1>9, <1>10, <1>11 DEF X, M

\* Of stores as Update makes them, GetEvents answers every request exactly.
LEMMA AnswerIs ==
  ASSUME IsFiniteSet(Types), NEW store, WellStored(store), NEW r \in Answered
  PROVE  IsAnswer(GetEvents(store, r), AllIn(store), r)
<1> DEFINE B == ByTime(Found(store, r))
           A == GetEvents(store, r)
           X == Range(Found(store, r))
           M == Match(AllIn(store), r)
           S == AnyEvents
<1>1. \A f \in S : f.time \in Int
  BY DEF AnyEvents, Times
<1>2. r.max = NoLimit \/ (r.max \in Nat \ {0} /\ r.max # NoLimit)
  BY EventAssumption DEF Answered, Requests, NoLimit
<1>3. /\ Found(store, r) \in Seq(S) /\ IsInjective(Found(store, r))
      /\ X \subseteq M
      /\ r.max = NoLimit \/ (r.start # NoTime /\ r.end # NoTime) => X = M
      /\ r.container = AnyContainer =>
           \A e \in M \ X : \E Y \in SUBSET X : /\ Cardinality(Y) = r.max
                                                /\ \A f \in Y : e.time <= f.time
  BY FoundMatches
<1>4. B \in Seq(S) /\ Sorted(B) /\ Range(B) = X /\ IsInjective(B)
  BY <1>1, <1>3, ByTimeIs
<1>5. A \in Seq(S) /\ IsLast(A, X, r.max)
  <2> HIDE DEF B, X
  <2>1. LastOf(B, r.max) \in Seq(S) /\ IsLast(LastOf(B, r.max), Range(B), r.max)
    BY <1>1, <1>2, <1>4, LastOfIs
  <2> QED BY <1>4, <2>1 DEF GetEvents, B
<1>6. M \in SUBSET S /\ IsFiniteSet(M)
  <2> DEFINE range == [t \in Types |-> Range(store[t])]
             ranges == { range[t] : t \in Types }
  <2>1. \A t \in Types : Range(store[t]) \subseteq S /\ IsFiniteSet(Range(store[t]))
    <3> SUFFICES ASSUME NEW t \in Types
                 PROVE  Range(store[t]) \subseteq S /\ IsFiniteSet(Range(store[t]))
      OBVIOUS
    <3>1. store[t] \in Seq(S)
      BY DEF WellStored
    <3>2. \A k \in DOMAIN store[t] : store[t][k] \in S
      BY <3>1, LenProperties, ElementOfSeq
    <3> QED BY <3>1, <3>2, RangeCounts DEF Range
  <2>2. IsFiniteSet(ranges)
    <3>1. range \in Surjection(Types, ranges)
      BY DEF Surjection
    <3> QED BY <3>1, FS_Surjection
  <2>3. IsFiniteSet(UNION ranges)
    <3>1. \A R \in ranges : IsFiniteSet(R)
      BY <2>1
    <3> HIDE DEF ranges
    <3> QED BY <2>2, <3>1, FS_UNION
  <2>4. AllIn(store) = UNION ranges /\ M \subseteq AllIn(store) /\ AllIn(store) \subseteq S
    BY <2>1 DEF AllIn, Match
  <2> HIDE DEF ranges, M
  <2> QED BY <2>3, <2>4, FS_Subset
<1> HIDE DEF A, B, X, M, S
<1>7. CASE r.max = NoLimit \/ (r.start # NoTime /\ r.end # NoTime)
  BY <1>3, <1>5, <1>7 DEF IsAnswer, A, M
<1>8. CASE r.container = AnyContainer /\ r.max # NoLimit
  <2>1. X \in SUBSET M /\ r.max \in Nat \ {0}
    BY <1>2, <1>3, <1>8
  <2>2. \A e \in M \ X : \E Y \in SUBSET X : /\ Cardinality(Y) = r.max
                                             /\ \A f \in Y : e.time <= f.time
    BY <1>3, <1>8
  <2>3. IsLast(A, M, r.max)
    BY <1>1, <1>5, <1>6, <1>8, <2>1, <2>2, LastOfMore
  <2> QED BY <1>8, <2>3 DEF IsAnswer, A, M
<1>9. CASE r.max \in Nat \ {0} /\ r.max # NoLimit /\ ~ (r.start # NoTime /\ r.end # NoTime)
           /\ r.container # AnyContainer
  <2>1. Len(A) <= r.max /\ Sorted(A) /\ IsInjective(A) /\ Range(A) \subseteq X
    <3>1. IsFiniteSet(X) /\ Cardinality(X) \in Nat
      <4>1. IsFiniteSet(X)
        BY <1>3, <1>6, FS_Subset
      <4> QED BY <4>1, FS_CardinalityType
    <3>2. {r.max, Cardinality(X)} \in SUBSET Nat /\ {r.max, Cardinality(X)} # {}
      BY <1>9, <3>1
    <3>3. Min({r.max, Cardinality(X)}) <= r.max
      BY <3>2, MinIsLeast
    <3> QED BY <1>5, <1>9, <3>3 DEF IsLast
  <2>2. Range(A) \cap M = Range(A) /\ Cardinality(Range(A)) = Len(A) /\ Len(A) \in Nat
    BY <1>3, <1>5, <2>1, RangeCounts, LenProperties
  <2>3. Min({r.max, Len(A)}) = Len(A)
    <3>1. {r.max, Len(A)} \in SUBSET Nat /\ {r.max, Len(A)} # {}
      BY <1>9, <2>2
    <3>2. /\ Min({r.max, Len(A)}) \in {r.max, Len(A)}
          /\ \A y \in {r.max, Len(A)} : Min({r.max, Len(A)}) <= y
      BY <3>1, MinIsLeast
    <3> QED BY <1>9, <2>1, <2>2, <3>2
  <2>4. IsLast(A, Range(A) \cap M, r.max)
    <3>1. Len(A) = Min({r.max, Cardinality(Range(A) \cap M)})
      BY <2>2, <2>3
    <3> QED BY <1>9, <2>1, <2>2, <3>1 DEF IsLast
  <2> QED BY <1>9, <2>4 DEF IsAnswer, A, M
<1> QED BY <1>2, <1>7, <1>8, <1>9

-----------------------------------------------------------------------------
(* The stores of all types.                                                *)

Stores == [Types -> { s \in Seq(AnyEvents) : Len(s) <= MaxItems }]
\* The first n events added, as far as they are kept, are in their stores.
Ordered(store, n) ==
  \A t \in Types : /\ InOrder(store[t])
                   /\ \A e \in Range(store[t]) : e.type = t /\ e.id <= n
Contents(store) == [t \in Types |-> Range(store[t])]

\* The types of the fields of events.
LEMMA EventFields ==
  /\ \A f \in AnyEvents : f.id \in Nat /\ f.time \in Int /\ f.type \in Types
  /\ \A s \in Seq(AnyEvents) : Range(s) \subseteq AnyEvents
<1>1. ASSUME NEW s \in Seq(AnyEvents) PROVE Range(s) \subseteq AnyEvents
  BY LenProperties, ElementOfSeq DEF Range
<1>2. \A f \in AnyEvents : f.id \in Nat /\ f.time \in Int /\ f.type \in Types
  BY DEF AnyEvents, Times
<1> QED BY <1>1, <1>2

\* Adding changes the store of one type.
LEMMA AddToIs ==
  ASSUME NEW store \in Stores, NEW e \in AnyEvents
  PROVE  /\ AddTo(store, e) \in Stores /\ e.type \in Types
         /\ AddTo(store, e)[e.type] = StoreAdd(store[e.type], e)
         /\ \A t \in Types \ {e.type} : AddTo(store, e)[t] = store[t]
<1>1. e.type \in Types /\ store[e.type] \in Seq(AnyEvents) /\ Len(store[e.type]) <= MaxItems
  BY EventFields DEF Stores
<1>2. /\ StoreAdd(store[e.type], e) \in Seq(AnyEvents)
      /\ Len(StoreAdd(store[e.type], e)) <= MaxItems
  BY <1>1, StoreAddIs
<1> QED BY <1>1, <1>2 DEF AddTo, Stores

\* Adding an event does to the sets of events what KeepIn says.
LEMMA AddToKeeps ==
  ASSUME NEW store \in Stores, NEW n \in Nat, Ordered(store, n),
         NEW e \in AnyEvents, e.id = n + 1
  PROVE  /\ Ordered(AddTo(store, e), n + 1)
         /\ Contents(AddTo(store, e)) = KeepIn(Contents(store), e)
<1> DEFINE t == e.type
           s == store[t]
           new == AddTo(store, e)
<1>1. /\ t \in Types /\ new[t] = StoreAdd(s, e)
      /\ \A u \in Types \ {t} : new[u] = store[u]
  BY AddToIs
<1>2. /\ \A u \in Types : InOrder(store[u])
      /\ \A u \in Types : \A f \in Range(store[u]) : f \in AnyEvents /\ f.type = u /\ f.id <= n
  BY EventFields DEF Ordered, Stores
<1>3. /\ InOrder(StoreAdd(s, e)) /\ Range(StoreAdd(s, e)) = Keep(Range(s), e)
  <2>1. s \in Seq(AnyEvents) /\ Len(s) <= MaxItems /\ InOrder(s)
    BY <1>1, <1>2 DEF Stores
  <2>2. \A f \in AnyEvents : f.time \in Int /\ f.id \in Int
    BY EventFields
  <2>3. \A f \in Range(s) : f.id < e.id
    BY <1>1, <1>2, <2>2
  <2> HIDE DEF s
  <2> QED BY <2>1, <2>2, <2>3, StoreAddKeeps
<1>4. Keep(Range(s), e) \subseteq Range(s) \cup {e}
  BY DEF Keep
<1> HIDE DEF new
<1>5. Ordered(new, n + 1)
  <2> SUFFICES ASSUME NEW u \in Types
               PROVE  /\ InOrder(new[u])
                      /\ \A f \in Range(new[u]) : f.type = u /\ f.id <= n + 1
    BY DEF Ordered
  <2>1. CASE u = t
    <3>1. InOrder(new[u]) /\ Range(new[u]) \subseteq Range(s) \cup {e}
      BY <1>1, <1>3, <1>4, <2>1
    <3>2. \A f \in Range(s) : f.type = u /\ f.id <= n + 1
      BY <1>2, <2>1, EventFields
    <3> QED BY <2>1, <3>1, <3>2
  <2>2. CASE u # t
    <3>1. new[u] = store[u]
      BY <1>1, <2>2
    <3> QED BY <1>2, <3>1, EventFields
  <2> QED BY <2>1, <2>2
<1>6. Contents(new) = KeepIn(Contents(store), e)
  <2>1. \A u \in Types : Range(new[u]) = IF u = t THEN Keep(Range(store[u]), e) ELSE Range(store[u])
    BY <1>1, <1>3
  <2> QED BY <1>1, <2>1 DEF Contents, KeepIn
<1> QED BY <1>5, <1>6 DEF new

\* Stores in order are stores that GetEvents can answer from.
LEMMA OrderedIs ==
  ASSUME NEW store \in Stores, NEW n, Ordered(store, n)
  PROVE  WellStored(store)
<1> SUFFICES ASSUME NEW t \in Types
             PROVE  Sorted(store[t]) /\ IsInjective(store[t])
  BY DEF WellStored, Ordered, Stores
<1>1. store[t] \in Seq(AnyEvents) /\ InOrder(store[t])
  BY DEF Ordered, Stores
<1>2. \A f \in AnyEvents : f.time \in Int /\ f.id \in Int
  BY EventFields
<1> QED BY <1>1, <1>2, InOrderIs

-----------------------------------------------------------------------------
(* The sequences of events that the runs check.                            *)

Empty == [t \in Types |-> << >>]
Filled(adds) == FoldLeft(AddTo, Empty, adds)
NoneKept == [t \in Types |-> {}]
KeptOf(adds) == FoldLeft(KeepIn, NoneKept, adds)
Fills(g, adds) ==
  /\ g[0] = Empty /\ Filled(adds) = g[Len(adds)]
  /\ \A k \in 1 .. Len(adds) : g[k] = AddTo(g[k - 1], adds[k])
KeepsIn(g, adds) ==
  /\ g[0] = NoneKept /\ KeptOf(adds) = g[Len(adds)]
  /\ \A k \in 1 .. Len(adds) : g[k] = KeepIn(g[k - 1], adds[k])

\* The stores, and the sets, event by event.
LEMMA FilledSteps ==
  ASSUME NEW s \in Seq(AnyEvents)
  PROVE  \E g \in [0 .. Len(s) -> Stores] : Fills(g, s)
<1> DEFINE S == AnyEvents
           op == [p \in Stores \X S |-> AddTo(p[1], p[2])]
           Body(f) == [t \in SUBSET DOMAIN s |->
                         IF t = {} THEN Empty ELSE AddTo(f[t \ {Max(t)}], s[Max(t)])]
           iter == CHOOSE f : f = Body(f)
<1>1. \A t \in SUBSET DOMAIN s : t # {} => Max(t) \in DOMAIN s /\ s[Max(t)] \in S
  BY MaxIn
<1>2. Empty \in Stores /\ \A p \in Stores \X S : AddTo(p[1], p[2]) \in Stores
  <2>1. << >> \in Seq(AnyEvents) /\ Len(<< >>) <= MaxItems
    BY EventAssumption
  <2> QED BY <2>1, AddToIs DEF Empty, Stores
<1> HIDE DEF S
<1>3. op \in [Stores \X S -> Stores]
  BY <1>2
<1>4. \A q \in Stores, e \in S : op[<<q, e>>] = AddTo(q, e)
  OBVIOUS
<1> HIDE DEF op
<1>5. iter = Body(iter)
  <2>1. PICK f \in [SUBSET DOMAIN s -> Stores] : Folds(f, op, Empty, s)
    BY <1>2, <1>3, FoldExists DEF S
  <2>2. f = Body(f)
    BY <1>1, <1>4, <2>1 DEF Folds
  <2> HIDE DEF Body
  <2> QED BY <2>2
<1>6. Filled(s) = iter[DOMAIN s]
  BY DEF Filled, FoldLeft, MapThenFoldSet
<1> HIDE DEF iter
<1>7. FoldsWithin(iter, op, Stores, Empty, s)
  BY <1>1, <1>4, <1>5 DEF FoldsWithin
<1>8. PICK g \in [0 .. Len(s) -> Stores] : Steps(g, op, Empty, s, iter[DOMAIN s])
  BY <1>2, <1>3, <1>7, FoldSteps DEF S
<1>9. \A k \in 1 .. Len(s) : g[k] = AddTo(g[k - 1], s[k])
  BY <1>4, <1>8, PriorIs DEF Steps, S
<1> QED BY <1>6, <1>8, <1>9 DEF Steps, Fills

LEMMA KeptSteps ==
  ASSUME NEW s \in Seq(AnyEvents)
  PROVE  \E g \in [0 .. Len(s) -> [Types -> SUBSET AnyEvents]] : KeepsIn(g, s)
<1> DEFINE S == AnyEvents
           V == [Types -> SUBSET AnyEvents]
           op == [p \in V \X S |-> KeepIn(p[1], p[2])]
           Body(f) == [t \in SUBSET DOMAIN s |->
                         IF t = {} THEN NoneKept ELSE KeepIn(f[t \ {Max(t)}], s[Max(t)])]
           iter == CHOOSE f : f = Body(f)
<1>1. \A t \in SUBSET DOMAIN s : t # {} => Max(t) \in DOMAIN s /\ s[Max(t)] \in S
  BY MaxIn
<1>2. NoneKept \in V /\ \A p \in V \X S : KeepIn(p[1], p[2]) \in V
  <2>1. ASSUME NEW kept \in V, NEW e \in S PROVE KeepIn(kept, e) \in V
    <3>1. Keep(kept[e.type], e) \subseteq kept[e.type] \cup {e} /\ kept[e.type] \subseteq S
      BY EventFields DEF Keep
    <3>2. Keep(kept[e.type], e) \in SUBSET S
      BY <3>1
    <3> QED BY <3>2 DEF KeepIn
  <2> QED BY <2>1 DEF NoneKept
<1> HIDE DEF S, V
<1>3. op \in [V \X S -> V]
  BY <1>2
<1>4. \A q \in V, e \in S : op[<<q, e>>] = KeepIn(q, e)
  OBVIOUS
<1> HIDE DEF op
<1>5. iter = Body(iter)
  <2>1. PICK f \in [SUBSET DOMAIN s -> V] : Folds(f, op, NoneKept, s)
    BY <1>2, <1>3, FoldExists DEF S
  <2>2. f = Body(f)
    BY <1>1, <1>4, <2>1 DEF Folds
  <2> HIDE DEF Body
  <2> QED BY <2>2
<1>6. KeptOf(s) = iter[DOMAIN s]
  BY DEF KeptOf, FoldLeft, MapThenFoldSet
<1> HIDE DEF iter
<1>7. FoldsWithin(iter, op, V, NoneKept, s)
  BY <1>1, <1>4, <1>5 DEF FoldsWithin
<1>8. PICK g \in [0 .. Len(s) -> V] : Steps(g, op, NoneKept, s, iter[DOMAIN s])
  BY <1>2, <1>3, <1>7, FoldSteps DEF S
<1>9. \A k \in 1 .. Len(s) : g[k] = KeepIn(g[k - 1], s[k])
  BY <1>4, <1>8, PriorIs DEF Steps, S
<1> QED BY <1>6, <1>8, <1>9 DEF Steps, KeepsIn, V

\* Filled step by step, the stores are in order and have what is kept.
LEMMA FilledIs ==
  ASSUME NEW s \in Seq(AnyEvents), \A i \in DOMAIN s : s[i].id = i
  PROVE  Filled(s) \in Stores /\ Ordered(Filled(s), Len(s)) /\ Contents(Filled(s)) = KeptOf(s)
<1>1. PICK g \in [0 .. Len(s) -> Stores] : Fills(g, s)
  BY FilledSteps
<1>2. PICK h \in [0 .. Len(s) -> [Types -> SUBSET AnyEvents]] : KeepsIn(h, s)
  BY KeptSteps
<1> DEFINE n == Len(s)
           Good(k) == Ordered(g[k], k) /\ Contents(g[k]) = h[k]
           D == { k \in 0 .. n : Good(k) }
<1>3. n \in Nat /\ DOMAIN s = 1 .. n /\ \A k \in 1 .. n : s[k] \in AnyEvents
  BY LenProperties, ElementOfSeq
<1>4. 0 \in D
  <2>1. Good(0)
    BY <1>1, <1>2 DEF Fills, KeepsIn, Empty, NoneKept, Ordered, Contents, InOrder, Range
  <2>2. 0 \in 0 .. n
    BY <1>3
  <2> QED BY <2>1, <2>2
<1>5. ASSUME NEW k \in 1 .. n, k - 1 \in D PROVE k \in D
  <2>1. k \in 0 .. n /\ k - 1 \in Nat /\ k - 1 \in 0 .. n /\ k = k - 1 + 1
    BY <1>3
  <2>2. g[k - 1] \in Stores /\ s[k] \in AnyEvents /\ s[k].id = k
    BY <1>3, <2>1
  <2>3. Ordered(g[k - 1], k - 1) /\ Contents(g[k - 1]) = h[k - 1]
    BY <1>5
  <2>4. g[k] = AddTo(g[k - 1], s[k]) /\ h[k] = KeepIn(h[k - 1], s[k])
    BY <1>1, <1>2 DEF Fills, KeepsIn
  <2> DEFINE j == k - 1
  <2> HIDE DEF j
  <2>5. /\ Ordered(AddTo(g[j], s[k]), j + 1)
        /\ Contents(AddTo(g[j], s[k])) = KeepIn(Contents(g[j]), s[k])
    BY <2>1, <2>2, <2>3, AddToKeeps DEF j
  <2>6. Good(k)
    BY <2>1, <2>3, <2>4, <2>5 DEF j
  <2> QED BY <2>1, <2>6
<1>6. Good(n) /\ n \in 0 .. n
  <2>1. n \in D
    <3> HIDE DEF D, n
    <3>1. 0 .. n \subseteq D
      BY <1>3, <1>4, <1>5, UpTo
    <3> QED BY <1>3, <3>1
  <2> QED BY <2>1
<1>7. Filled(s) = g[n] /\ KeptOf(s) = h[n]
  BY <1>1, <1>2 DEF Fills, KeepsIn
<1> QED BY <1>6, <1>7

\* And so GetEvents answers from them as from the sets.
LEMMA FilledQueries ==
  ASSUME IsFiniteSet(Types), NEW s \in Seq(AnyEvents), \A i \in DOMAIN s : s[i].id = i,
         NEW r \in Answered
  PROVE  QueriesAreExact(s, r)
<1>1. Filled(s) \in Stores /\ Ordered(Filled(s), Len(s)) /\ Contents(Filled(s)) = KeptOf(s)
  BY FilledIs
<1>2. WellStored(Filled(s))
  BY <1>1, OrderedIs
<1>3. IsAnswer(GetEvents(Filled(s), r), AllIn(Filled(s)), r)
  BY <1>2, AnswerIs
<1>4. AllIn(Filled(s)) = UNION { KeptOf(s)[t] : t \in Types }
  BY <1>1 DEF AllIn, Contents
<1>5. IsAnswer(GetEvents(Filled(s), r), UNION { KeptOf(s)[t] : t \in Types }, r)
  BY <1>3, <1>4
<1> QED BY <1>5 DEF QueriesAreExact, Filled, KeptOf, Empty, NoneKept

-----------------------------------------------------------------------------
(* AddEvent, its callers and the clients that watch.                       *)

AddCalls == {Idle} \cup [label : {"stored"}, event : StoredEvents]
            \cup [label : {"sending"}, event : StoredEvents, to : Seq(Clients)]
WatchStates == [label : {"none", "stopped"}]
               \cup [label : {"registering", "watching", "stopping"}, request : WatchRequests]

Storing ==
  /\ added \in Nat /\ panicked \in BOOLEAN
  /\ eventStore \in [Types -> Seq(StoredEvents)]
  /\ \A t \in Types : Len(eventStore[t]) <= MaxItems
Calling == adding \in [Adders -> AddCalls]
Watched == watches \in [Clients -> WatchStates]
Channels ==
  /\ channel \in [Clients -> Seq(1 .. added)]
  /\ \A c \in Clients : Len(channel[c]) <= ChannelCap
Publishing ==
  /\ publishing \in Seq({"oom", "oomKill"} \X Containers) /\ Len(publishing) <= 2
  /\ changes \in 0 .. MaxChanges

EventInv == Storing /\ Calling /\ Watched /\ Channels /\ SendsAreOpen
Inv == OomInv /\ EventInv /\ Publishing

LEMMA EventStarts == EventInit => EventInv
<1> SUFFICES ASSUME EventInit PROVE EventInv
  OBVIOUS
<1>1. /\ eventStore = [t \in Types |-> << >>] /\ added = 0 /\ panicked = FALSE
      /\ adding = [a \in Adders |-> Idle]
      /\ watches = [c \in Clients |-> [label |-> "none"]]
      /\ channel = [c \in Clients |-> << >>]
  BY DEF EventInit
<1>2. {MaxItems, ChannelCap} \subseteq Nat /\ Len(<< >>) = 0
  BY EventAssumption
<1>3. Storing
  <2>1. << >> \in Seq(StoredEvents)
    OBVIOUS
  <2>2. eventStore \in [Types -> Seq(StoredEvents)]
    BY <1>1, <2>1
  <2>3. \A t \in Types : Len(eventStore[t]) <= MaxItems
    BY <1>1, <1>2
  <2> QED BY <1>1, <2>2, <2>3 DEF Storing
<1>4. Calling
  BY <1>1 DEF Calling, AddCalls
<1>5. Watched
  <2>1. [label |-> "none"] \in WatchStates
    BY DEF WatchStates
  <2> QED BY <1>1, <2>1 DEF Watched
<1>6. Channels
  <2>1. \A S : << >> \in Seq(S)
    OBVIOUS
  <2> QED BY <1>1, <1>2, <2>1 DEF Channels
<1>7. SendsAreOpen
  BY <1>1 DEF SendsAreOpen, At, Idle
<1> QED BY <1>3, <1>4, <1>5, <1>6, <1>7 DEF EventInv

LEMMA EventStays ==
  ASSUME EventInv, UNCHANGED eventVars
  PROVE  EventInv'
<1>1. UNCHANGED <<eventStore, added, adding, watches, channel, panicked>>
  BY DEF eventVars, storeVars
<1> QED BY <1>1 DEF EventInv, Storing, Calling, Watched, Channels, SendsAreOpen, StoredEvents,
                    AddCalls, At, Watching

\* An event that is added is kept; those that were named before still are.
LEMMA UpdateInv ==
  ASSUME EventInv, NEW a \in Adders, NEW t \in Types, NEW c \in Containers, NEW time \in Times,
         Update(a, t, c, time)
  PROVE  EventInv'
<1> DEFINE e == Event(added + 1, t, c, time)
<1>1. /\ added' = added + 1 /\ added \in Nat
      /\ eventStore' = [eventStore EXCEPT ![t] = StoreAdd(@, e)]
      /\ adding' = [adding EXCEPT ![a] = [label |-> "stored", event |-> e]]
      /\ UNCHANGED <<watches, channel, panicked>>
  BY DEF Update, AddTo, Event, EventInv, Storing
<1>2. StoredEvents \subseteq StoredEvents' /\ 1 .. added \subseteq (1 .. added)'
  BY <1>1 DEF StoredEvents
<1>3. e \in StoredEvents'
  BY <1>1 DEF Event, StoredEvents, Times
<1> HIDE DEF e
<1>4. Storing'
  <2>1. \A u \in Types : eventStore[u] \in Seq(StoredEvents)' /\ Len(eventStore[u]) <= MaxItems
    BY <1>2, SeqGrows DEF EventInv, Storing
  <2>2. \A u \in Types : /\ eventStore'[u] \in Seq(StoredEvents)'
                         /\ Len(eventStore'[u]) <= MaxItems
    <3>1. /\ StoreAdd(eventStore[t], e) \in Seq(StoredEvents)'
          /\ Len(StoreAdd(eventStore[t], e)) <= MaxItems
      BY <1>3, <2>1, StoreAddIs
    <3>2. eventStore'[t] = StoreAdd(eventStore[t], e)
      BY <1>1 DEF EventInv, Storing
    <3>3. \A u \in Types \ {t} : eventStore'[u] = eventStore[u]
      BY <1>1 DEF EventInv, Storing
    <3> QED BY <2>1, <3>1, <3>2, <3>3
  <2>3. DOMAIN eventStore' = Types /\ eventStore' = [u \in DOMAIN eventStore' |-> eventStore'[u]]
    BY <1>1 DEF EventInv, Storing
  <2>4. eventStore' \in [Types -> Seq(StoredEvents)']
    BY <2>2, <2>3
  <2> QED BY <1>1, <2>2, <2>4 DEF Storing, EventInv
<1>5. Calling'
  <2>1. AddCalls \subseteq AddCalls'
    BY <1>2 DEF AddCalls
  <2>2. [label |-> "stored", event |-> e] \in AddCalls'
    BY <1>3 DEF AddCalls
  <2> HIDE DEF AddCalls
  <2> QED BY <1>1, <2>1, <2>2 DEF Calling, EventInv
<1>6. Watched'
  BY <1>1 DEF Watched, EventInv, WatchStates
<1>7. Channels'
  <2>1. \A d \in Clients : channel[d] \in Seq(1 .. added)'
    BY <1>2, SeqGrows DEF EventInv, Channels
  <2> QED BY <1>1, <2>1 DEF Channels, EventInv
<1>8. SendsAreOpen'
  <2>1. \A b \in Adders : At(b, "sending")' => b # a /\ adding'[b] = adding[b] /\ At(b, "sending")
    BY <1>1 DEF EventInv, Calling, At
  <2> QED BY <1>1, <2>1 DEF EventInv, SendsAreOpen, Watching
<1> QED BY <1>4, <1>5, <1>6, <1>7, <1>8 DEF EventInv

LEMMA CallIs ==
  ASSUME EventInv, NEW a \in Adders
  PROVE  /\ At(a, "stored") => adding[a] \in [label : {"stored"}, event : StoredEvents]
         /\ At(a, "sending") =>
              adding[a] \in [label : {"sending"}, event : StoredEvents, to : Seq(Clients)]
BY DEF EventInv, Calling, AddCalls, At, Idle

\* Who is found is a watcher, and those to send to only become fewer.
LEMMA AddingInv ==
  ASSUME EventInv, NEW a \in Adders, Adding(a)
  PROVE  EventInv'
<1>1. UNCHANGED <<eventStore, added, watches, panicked>> /\ Storing' /\ Watched'
      /\ StoredEvents' = StoredEvents
  BY DEF Adding, FindWatchers, Send, AddReturns, storeVars, EventInv, Storing, Watched, StoredEvents,
         WatchStates
<1>2. AddCalls' = AddCalls /\ Watching' = Watching
  BY <1>1 DEF AddCalls, Watching
<1>3. CASE FindWatchers(a)
  <2> DEFINE valid == { c \in Watching : Satisfies(adding[a].event, watches[c].request) }
             call(order) == [label |-> "sending", event |-> adding[a].event, to |-> order]
  <2>1. /\ UNCHANGED channel
        /\ \E order \in Orders(valid) : adding' = [adding EXCEPT ![a] = call(order)]
    BY <1>3 DEF FindWatchers
  <2>2. valid \subseteq Watching /\ Watching \subseteq Clients
    BY DEF Watching
  <2>3. adding[a].event \in StoredEvents
    BY <1>3, CallIs DEF FindWatchers
  <2> HIDE DEF valid
  <2>4. PICK order \in Orders(valid) : adding' = [adding EXCEPT ![a] = call(order)]
    BY <2>1
  <2>5. order \in Seq(Clients) /\ Range(order) \subseteq Watching
    <3>1. IsFiniteSet(valid)
      BY <2>2, EventAssumption, FS_Subset
    <3>2. Cardinality(valid) \in Nat
      BY <3>1, FS_CardinalityType
    <3>3. order \in [1 .. Cardinality(valid) -> valid]
      BY DEF Orders
    <3> QED BY <2>2, <3>2, <3>3 DEF Range
  <2>6. call(order) \in AddCalls /\ call(order).to = order
    BY <2>3, <2>5 DEF AddCalls
  <2> HIDE DEF call
  <2>7. Calling'
    BY <1>2, <2>4, <2>6 DEF Calling, EventInv
  <2>8. SendsAreOpen'
    BY <1>2, <2>4, <2>5, <2>6 DEF EventInv, Calling, SendsAreOpen, At
  <2> QED BY <1>1, <2>1, <2>7, <2>8 DEF EventInv, Channels
<1>4. CASE Send(a)
  <2> DEFINE c == Head(adding[a].to)
             rest == Tail(adding[a].to)
  <2>1. /\ adding[a].to # << >> /\ Len(channel[c]) < ChannelCap
        /\ channel' = [channel EXCEPT ![c] = Append(@, adding[a].event.id)]
        /\ adding' = [adding EXCEPT ![a].to = Tail(@)]
    BY <1>4 DEF Send
  <2>2. adding[a] \in [label : {"sending"}, event : StoredEvents, to : Seq(Clients)]
    BY <1>4, CallIs DEF Send
  <2>3. /\ c \in Clients /\ rest \in Seq(Clients) /\ Range(rest) \subseteq Range(adding[a].to)
        /\ adding[a].event.id \in 1 .. added
    <3> DEFINE to == adding[a].to
    <3>1. to \in Seq(Clients) /\ to # << >> /\ adding[a].event.id \in 1 .. added
      BY <2>1, <2>2 DEF StoredEvents
    <3> HIDE DEF to
    <3>2. /\ Head(to) \in Clients /\ Tail(to) \in Seq(Clients) /\ Len(Tail(to)) = Len(to) - 1
          /\ \A i \in 1 .. Len(Tail(to)) : Tail(to)[i] = to[i + 1]
      BY <3>1, HeadTailProperties
    <3>3. /\ DOMAIN to = 1 .. Len(to) /\ Len(to) \in Nat
          /\ DOMAIN Tail(to) = 1 .. Len(Tail(to))
      BY <3>1, <3>2, LenProperties
    <3>4. \A i \in 1 .. Len(to) - 1 : i + 1 \in 1 .. Len(to)
      BY <3>3
    <3>5. Range(Tail(to)) \subseteq Range(to)
      BY <3>2, <3>3, <3>4 DEF Range
    <3> QED BY <3>1, <3>2, <3>5 DEF to
  <2> HIDE DEF c, rest
  <2>4. [adding[a] EXCEPT !.to = rest] \in AddCalls
    BY <2>2, <2>3 DEF AddCalls
  <2>5. adding' = [adding EXCEPT ![a] = [adding[a] EXCEPT !.to = rest]]
    BY <2>1 DEF rest
  <2>6. Calling'
    BY <1>2, <2>4, <2>5 DEF Calling, EventInv
  <2>7. SendsAreOpen'
    <3>1. ASSUME NEW b \in Adders, At(b, "sending")' PROVE Range(adding'[b].to) \subseteq Watching'
      <4>1. CASE b = a
        <5>1. adding'[a] = [adding[a] EXCEPT !.to = rest]
          BY <2>5 DEF EventInv, Calling
        <5>2. adding'[a].to = rest
          BY <2>2, <5>1
        <5>3. At(a, "sending")
          BY <1>4 DEF Send
        <5> QED BY <1>2, <2>3, <4>1, <5>2, <5>3 DEF EventInv, SendsAreOpen
      <4>2. CASE b # a
        <5>1. adding'[b] = adding[b]
          BY <2>5, <4>2 DEF EventInv, Calling
        <5> QED BY <1>2, <3>1, <5>1 DEF EventInv, SendsAreOpen, At
      <4> QED BY <4>1, <4>2
    <3> QED BY <3>1 DEF SendsAreOpen
  <2>8. Channels'
    <3>1. channel[c] \in Seq(1 .. added) /\ ChannelCap \in Nat
      BY <2>3, EventAssumption DEF EventInv, Channels
    <3>2. /\ Append(channel[c], adding[a].event.id) \in Seq(1 .. added)
          /\ Len(Append(channel[c], adding[a].event.id)) = Len(channel[c]) + 1
      BY <2>3, <3>1, AppendProperties
    <3>3. Len(channel[c]) \in Nat
      BY <3>1, LenProperties
    <3>4. Len(channel[c]) + 1 <= ChannelCap
      BY <2>1, <3>1, <3>3
    <3> QED BY <1>1, <2>1, <2>3, <3>2, <3>4 DEF EventInv, Channels
  <2> QED BY <1>1, <2>6, <2>7, <2>8 DEF EventInv
<1>5. CASE AddReturns(a)
  <2>1. adding' = [adding EXCEPT ![a] = Idle] /\ UNCHANGED channel
    BY <1>5 DEF AddReturns
  <2>2. Calling'
    BY <1>2, <2>1 DEF Calling, EventInv, AddCalls
  <2>3. SendsAreOpen'
    BY <1>2, <2>1 DEF EventInv, Calling, SendsAreOpen, At, Idle
  <2> QED BY <1>1, <2>1, <2>2, <2>3 DEF EventInv, Channels
<1> QED BY <1>3, <1>4, <1>5 DEF Adding

\* A watch is closed only when nobody sends.
LEMMA ClientInv ==
  ASSUME EventInv, NEW c \in Clients, Client(c)
  PROVE  EventInv'
<1>1. UNCHANGED <<eventStore, added, adding>> /\ panicked' \in BOOLEAN
  BY DEF Client, AskWatch, WatchEvents, Receive, StopListening, StopWatch, StopAgain, storeVars,
         EventInv, Storing
<1>2. Storing' /\ Calling' /\ (1 .. added)' = 1 .. added
  BY <1>1 DEF EventInv, Storing, Calling, StoredEvents, AddCalls
<1>3. WatchStates' = WatchStates
  BY DEF WatchStates
\* what an action leaves to show
<1>4. ASSUME NEW w \in WatchStates, SetWatch(c, w),
             w.label \in {"watching", "stopping"} \/ c \notin Watching \/ Readers = {}
      PROVE  Watched' /\ SendsAreOpen'
  <2>1. watches' = [watches EXCEPT ![c] = w]
    BY <1>4 DEF SetWatch
  <2>2. Watched'
    BY <1>3, <2>1 DEF EventInv, Watched
  <2>3. Watching \ {c} \subseteq Watching'
    BY <2>1 DEF EventInv, Watched, Watching
  <2>4. w.label \in {"watching", "stopping"} => c \in Watching'
    BY <2>1 DEF EventInv, Watched, Watching
  <2>5. SendsAreOpen'
    BY <1>1, <1>4, <2>3, <2>4 DEF EventInv, SendsAreOpen, Readers, At
  <2> QED BY <2>2, <2>5
<1>5. c \in Watching \/ watches[c].label = "registering" =>
        watches[c] \in [label : {"registering", "watching", "stopping"}, request : WatchRequests]
  BY DEF EventInv, Watched, WatchStates, Watching
<1>6. CASE \E r \in WatchRequests : AskWatch(c, r)
  <2>1. PICK r \in WatchRequests : AskWatch(c, r)
    BY <1>6
  <2>2. [label |-> "registering", request |-> r] \in WatchStates
    BY DEF WatchStates
  <2>3. c \notin Watching
    BY <2>1 DEF AskWatch, Watching
  <2>4. Watched' /\ SendsAreOpen'
    BY <1>4, <2>1, <2>2, <2>3 DEF AskWatch
  <2> QED BY <1>2, <2>1, <2>4 DEF AskWatch, EventInv, Channels
<1>7. CASE WatchEvents(c)
  <2> DEFINE w == [watches[c] EXCEPT !.label = "watching"]
  <2>1. w \in WatchStates /\ w.label = "watching"
    BY <1>5, <1>7 DEF WatchEvents, WatchStates
  <2>2. SetWatch(c, w) /\ UNCHANGED channel
    BY <1>7 DEF WatchEvents
  <2> HIDE DEF w
  <2>3. Watched' /\ SendsAreOpen'
    BY <1>4, <2>1, <2>2
  <2> QED BY <1>2, <2>2, <2>3 DEF EventInv, Channels
<1>8. CASE StopListening(c)
  <2> DEFINE w == [watches[c] EXCEPT !.label = "stopping"]
  <2>1. w \in WatchStates /\ w.label = "stopping"
    BY <1>5, <1>8 DEF StopListening, WatchStates, Watching
  <2>2. SetWatch(c, w) /\ UNCHANGED channel
    BY <1>8 DEF StopListening
  <2> HIDE DEF w
  <2>3. Watched' /\ SendsAreOpen'
    BY <1>4, <2>1, <2>2
  <2> QED BY <1>2, <2>2, <2>3 DEF EventInv, Channels
<1>9. CASE Receive(c)
  <2>1. channel[c] # << >> /\ channel' = [channel EXCEPT ![c] = Tail(@)] /\ UNCHANGED watches
    BY <1>9 DEF Receive
  <2>2. channel[c] \in Seq(1 .. added) /\ Len(channel[c]) <= ChannelCap /\ ChannelCap \in Nat
    BY EventAssumption DEF EventInv, Channels
  <2>3. /\ Tail(channel[c]) \in Seq(1 .. added) /\ Len(Tail(channel[c])) <= ChannelCap
    <3>1. /\ Tail(channel[c]) \in Seq(1 .. added) /\ Len(Tail(channel[c])) = Len(channel[c]) - 1
          /\ Len(channel[c]) \in Nat
      BY <2>1, <2>2, HeadTailProperties, LenProperties
    <3> QED BY <2>2, <3>1
  <2>4. Channels'
    BY <1>2, <2>1, <2>3 DEF EventInv, Channels
  <2>5. Watched' /\ SendsAreOpen'
    BY <1>1, <1>3, <2>1 DEF EventInv, Watched, SendsAreOpen, At, Watching
  <2> QED BY <1>2, <2>4, <2>5 DEF EventInv
<1>10. CASE StopWatch(c)
  <2>1. [label |-> "stopped"] \in WatchStates
    BY DEF WatchStates
  <2>2. Watched' /\ SendsAreOpen'
    BY <1>4, <1>10, <2>1 DEF StopWatch
  <2>3. channel' = [channel EXCEPT ![c] = << >>]
    BY <1>10 DEF StopWatch
  <2>4. << >> \in Seq(1 .. added) /\ Len(<< >>) <= ChannelCap
    BY EventAssumption
  <2>5. Channels'
    BY <1>2, <2>3, <2>4 DEF EventInv, Channels
  <2> QED BY <1>2, <2>2, <2>5 DEF EventInv
<1>11. CASE StopAgain(c)
  <2>1. UNCHANGED <<watches, channel>>
    BY <1>11 DEF StopAgain
  <2> QED BY <1>1, <1>2, <1>3, <2>1 DEF EventInv, Watched, Channels, SendsAreOpen, At, Watching
<1> QED BY <1>6, <1>7, <1>8, <1>9, <1>10, <1>11 DEF Client

-----------------------------------------------------------------------------
(* The steps of the manager.                                               *)

LEMMA PublishIs ==
  ASSUME Inv, publishing # << >>
  PROVE  /\ publishing[1][1] \in Types /\ publishing[1][2] \in Containers /\ OldTime \in Times
         /\ Tail(publishing) \in Seq({"oom", "oomKill"} \X Containers)
         /\ Len(Tail(publishing)) <= 2
<1>1. /\ publishing \in Seq({"oom", "oomKill"} \X Containers)
      /\ Len(publishing) \in Nat /\ Len(publishing) <= 2
  BY LenProperties DEF Inv, Publishing
<1>2. /\ Head(publishing) \in {"oom", "oomKill"} \X Containers
      /\ Tail(publishing) \in Seq({"oom", "oomKill"} \X Containers)
      /\ Len(Tail(publishing)) = Len(publishing) - 1
  BY <1>1, HeadTailProperties
<1>3. publishing[1] = Head(publishing)
  BY <1>1
<1>4. OldTime \in Times
  BY EventAssumption DEF OldTime, Times
<1> QED BY <1>1, <1>2, <1>3, <1>4, PublisherAssumption

LEMMA InvStep ==
  ASSUME Inv, [Next]_vars
  PROVE  Inv'
<1>1. CASE TakeInstance
  <2> DEFINE c == Head(outStream).container
             v == Head(outStream).victim
             instances == << <<"oom", ContainerOf[c]>>, <<"oomKill", VictimOf[v]>> >>
  <2>1. OomInv' /\ c \in 0 .. MaxOoms /\ v \in -MaxOoms .. 0
    BY <1>1, TakeInstanceOom DEF Inv
  <2>2. ContainerOf[c] \in Containers /\ VictimOf[v] \in Containers
    BY <2>1, PublisherAssumption
  <2>3. publishing' = instances /\ UNCHANGED <<eventVars, changes>>
    BY <1>1 DEF TakeInstance
  <2>4. instances \in Seq({"oom", "oomKill"} \X Containers) /\ Len(instances) = 2
    BY <2>2
  <2>5. EventInv'
    BY <2>3, EventStays DEF Inv
  <2> HIDE DEF instances
  <2> QED BY <2>1, <2>3, <2>4, <2>5 DEF Inv, Publishing
<1>2. CASE Publish
  <2>1. /\ publishing # << >> /\ publishing' = Tail(publishing) /\ UNCHANGED <<oomVars, changes>>
        /\ Update("publisher", publishing[1][1], publishing[1][2], OldTime)
    BY <1>2 DEF Publish
  <2>2. EventInv'
    BY <2>1, PublishIs, UpdateInv, PublisherAssumption DEF Inv
  <2>3. OomInv'
    BY <2>1, OomStays DEF Inv
  <2> QED BY <2>1, <2>2, <2>3, PublishIs DEF Inv, Publishing
<1>3. CASE ContainerChanged
  <2>1. PICK c \in Changing : Update("manager", "creation", c, MaxTime)
    BY <1>3 DEF ContainerChanged
  <2>2. MaxTime \in Times /\ c \in Containers /\ MaxChanges \in Nat
    BY EventAssumption, PublisherAssumption DEF Times
  <2>3. EventInv'
    BY <2>1, <2>2, UpdateInv, PublisherAssumption DEF Inv
  <2>4. changes < MaxChanges /\ changes' = changes + 1 /\ UNCHANGED <<oomVars, publishing>>
    BY <1>3 DEF ContainerChanged
  <2>5. OomInv'
    BY <2>4, OomStays DEF Inv
  <2> QED BY <2>2, <2>3, <2>4, <2>5 DEF Inv, Publishing
<1>4. CASE AddingStep
  <2>1. UNCHANGED <<oomVars, publishing, changes>> /\ \E a \in Adders : Adding(a)
    BY <1>4 DEF AddingStep
  <2> QED BY <2>1, AddingInv, OomStays DEF Inv, Publishing
<1>5. CASE ClientStep
  <2>1. UNCHANGED <<oomVars, publishing, changes>> /\ \E c \in Clients : Client(c)
    BY <1>5 DEF ClientStep
  <2> QED BY <2>1, ClientInv, OomStays DEF Inv, Publishing
<1>6. CASE OomStep
  <2>1. UNCHANGED <<eventVars, publishing, changes>> /\ (Kernel \/ Reader \/ Parser)
    BY <1>6 DEF OomStep
  <2>2. OomInv'
    BY <2>1, WriteInv, ReaderInv, OuterLineInv, GroupLineInv, ParseFailsInv, LastLineInv,
       SendInstanceInv
    DEF Inv, Kernel, Parser
  <2> QED BY <2>1, <2>2, EventStays DEF Inv, Publishing
<1>7. CASE UNCHANGED vars
  BY <1>7, OomStays, EventStays DEF vars, Inv, Publishing
<1> QED BY <1>1, <1>2, <1>3, <1>4, <1>5, <1>6, <1>7 DEF Next

LEMMA InvAlways == Spec => []Inv
<1>1. Init => Inv
  <2>1. ASSUME publishing = << >>, changes = 0 PROVE Publishing
    BY <2>1, PublisherAssumption DEF Publishing
  <2> QED BY <2>1, OomStarts, EventStarts DEF Init, Inv
<1>2. Inv /\ [Next]_vars => Inv'
  BY InvStep
<1> QED BY <1>1, <1>2, PTL DEF Spec

LEMMA NamesStep ==
  ASSUME Inv, NameInv, [Next]_vars
  PROVE  NameInv'
<1>1. CASE TakeInstance \/ Publish \/ ContainerChanged \/ AddingStep \/ ClientStep
           \/ Reader \/ UNCHANGED vars
  <2>1. UNCHANGED <<log, readable, taken, parserPc, instance, reported>>
    BY <1>1 DEF TakeInstance, Publish, ContainerChanged, AddingStep, ClientStep, Reader, ReadLine,
                ReadEof, vars, oomVars, logVars, parserVars
  <2> QED BY <2>1, NamesStay
<1>2. CASE Kernel \/ Parser
  BY <1>2, WriteNames, OuterNames, GroupNames, ParseFailsNames, LastNames, SendNames DEF Inv, Kernel, Parser
<1> QED BY <1>1, <1>2 DEF Next, OomStep

LEMMA NamesAlways == Spec => [](Inv /\ NameInv)
<1>1. Init => NameInv
  BY DEF Init, OomInit, NameInv, Ranked, InTurn
<1>2. Inv /\ NameInv /\ [Next]_vars => NameInv'
  BY NamesStep
<1> QED BY <1>1, <1>2, InvAlways, PTL DEF Spec

-----------------------------------------------------------------------------
(* The stores over time.                                                   *)

StoresInOrder == Ordered(eventStore, added)
StoresAreSorted == \A t \in Types : Sorted(eventStore[t])

LEMMA StoreIs ==
  ASSUME Inv
  PROVE  eventStore \in Stores /\ added \in Nat
<1>1. StoredEvents \subseteq AnyEvents
  BY DEF StoredEvents, AnyEvents
<1>2. /\ eventStore \in [Types -> Seq(StoredEvents)] /\ added \in Nat
      /\ \A t \in Types : Len(eventStore[t]) <= MaxItems
  BY DEF Inv, EventInv, Storing
<1>3. Seq(StoredEvents) \subseteq Seq(AnyEvents)
  BY <1>1, SeqGrows
<1> QED BY <1>2, <1>3 DEF Stores

\* A step adds the next event to its store, or none to any.
AddsOne == \E e \in AnyEvents : /\ e.id = added + 1 /\ added' = added + 1
                                /\ eventStore' = AddTo(eventStore, e)

LEMMA UpdateStore ==
  ASSUME Inv, NEW a \in Adders, NEW t \in Types, NEW c \in Containers, NEW time \in Times,
         Update(a, t, c, time)
  PROVE  AddsOne
<1> DEFINE e == Event(added + 1, t, c, time)
<1>1. e \in AnyEvents /\ e.id = added + 1
  BY DEF Event, AnyEvents, Inv, EventInv, Storing
<1>2. added' = added + 1 /\ eventStore' = AddTo(eventStore, e)
  BY DEF Update
<1> QED BY <1>1, <1>2 DEF AddsOne

LEMMA StoreStep ==
  ASSUME Inv, [Next]_vars
  PROVE  UNCHANGED <<eventStore, added>> \/ AddsOne
<1>1. CASE Publish
  <2>1. publishing # << >> /\ Update("publisher", publishing[1][1], publishing[1][2], OldTime)
    BY <1>1 DEF Publish
  <2> QED BY <2>1, PublishIs, UpdateStore, PublisherAssumption
<1>2. CASE ContainerChanged
  <2>1. PICK c \in Changing : Update("manager", "creation", c, MaxTime)
    BY <1>2 DEF ContainerChanged
  <2>2. MaxTime \in Times /\ c \in Containers
    BY EventAssumption, PublisherAssumption DEF Times
  <2> QED BY <2>1, <2>2, UpdateStore, PublisherAssumption
<1>3. CASE TakeInstance \/ OomStep \/ UNCHANGED vars
  BY <1>3 DEF TakeInstance, OomStep, vars, eventVars, storeVars
<1>4. CASE AddingStep
  BY <1>4 DEF AddingStep, Adding, FindWatchers, Send, AddReturns, storeVars
<1>5. CASE ClientStep
  BY <1>5 DEF ClientStep, Client, AskWatch, WatchEvents, Receive, StopListening, StopWatch,
              StopAgain, storeVars
<1> QED BY <1>1, <1>2, <1>3, <1>4, <1>5 DEF Next

LEMMA OrderedStep ==
  ASSUME Inv, StoresInOrder, [Next]_vars
  PROVE  StoresInOrder'
<1>1. CASE UNCHANGED <<eventStore, added>>
  BY <1>1 DEF StoresInOrder, Ordered
<1>2. CASE AddsOne
  <2>1. PICK e \in AnyEvents : /\ e.id = added + 1 /\ added' = added + 1
                               /\ eventStore' = AddTo(eventStore, e)
    BY <1>2 DEF AddsOne
  <2>2. Ordered(AddTo(eventStore, e), added + 1)
    BY <2>1, StoreIs, AddToKeeps DEF StoresInOrder
  <2>3. Ordered(eventStore', added')
    BY <2>1, <2>2
  <2> QED BY <2>3 DEF StoresInOrder, Ordered
<1> QED BY <1>1, <1>2, StoreStep

LEMMA OrderedAlways == Spec => [](Inv /\ StoresInOrder)
<1>1. Init => StoresInOrder
  BY DEF Init, EventInit, StoresInOrder, Ordered, InOrder, Range
<1>2. Inv /\ StoresInOrder /\ [Next]_vars => StoresInOrder'
  BY OrderedStep
<1> QED BY <1>1, <1>2, InvAlways, PTL DEF Spec

-----------------------------------------------------------------------------
(* The theorems.                                                           *)

(* Every goroutine's state is one that its code can be in: the lines in    *)
(* lineChannel are those of the log between what the parser took and what  *)
(* the reader read, no buffer holds more than its capacity, no store more  *)
(* than MaxItems, and all of it events that were added.                    *)
THEOREM EventTypes == Spec => []TypeOK
<1>1. Inv => TypeOK
  <2>1. ASSUME Inv PROVE EventTypeOK
    <3>1. \A a \in Adders : At(a, "sending") => adding[a].to \in Seq(Clients)
      BY <2>1, CallIs DEF Inv
    <3>2. \A c \in Clients : c \in Watching => watches[c].request \in WatchRequests
      BY <2>1 DEF Inv, EventInv, Watched, WatchStates, Watching
    <3> QED BY <2>1, <3>1, <3>2 DEF Inv, EventInv, Storing, Channels, EventTypeOK
  <2> QED BY <2>1 DEF Inv, OomInv, Publishing, TypeOK
<1> QED BY <1>1, InvAlways, PTL

(* Every kill that StreamOoms has read to its end is reported, except the  *)
(* two that the code loses: one whose process has a name lastLineRegexp    *)
(* does not match, and one whose first line is the line that the loop      *)
(* reads, and drops, after the kill before it (oomparser.go:128-152).      *)
THEOREM OomsAreReported == Spec => []KillsAreReported
<1>1. Inv => KillsAreReported
  BY DEF Inv, OomInv
<1> QED BY <1>1, InvAlways, PTL

(* The kills are reported in their order, each once and with the container *)
(* whose limit caused it.  A kill that no limit caused is reported with    *)
(* the root, or with the container of an earlier kill: of one whose last   *)
(* line lastLineRegexp did not match, so that the loop went on into the    *)
(* next one with its instance (oomparser.go:128-147).                      *)
THEOREM KillsAreNamed == Spec => []ReportsNameTheirs
<1>1. NameInv => ReportsNameTheirs
  BY DEF NameInv, InTurn, Named, ReportsNameTheirs
<1> QED BY <1>1, NamesAlways, PTL

(* AddEvent never sends on a channel that StopWatch closed, however many   *)
(* goroutines add events and however many clients come and go: a watch is  *)
(* closed under the lock that AddEvent holds while it sends                *)
(* (events/handler.go:301-306, 314).                                       *)
THEOREM OpenSends == Spec => []SendsAreOpen
<1>1. Inv => SendsAreOpen
  BY DEF Inv, EventInv
<1> QED BY <1>1, InvAlways, PTL

\* Every request for events of one type that InTimeRange can answer.
RangesAreExact ==
  \A t \in Types : \A start, end \in 0 .. MaxTime : \A max \in {NoLimit} \cup 1 .. MaxItems :
    (start # NoTime /\ end # NoTime => start <= end)
      => AnswersExactly(eventStore[t], start, end, max)

(* The store of a type is sorted by time at every moment, though the kills *)
(* that the log tells of are older than what the manager adds meanwhile;   *)
(* and so GetEvents gets from it, for any range of time, exactly the       *)
(* events in that range, or the last of them if there is a limit           *)
(* (timed_store.go:46-132).                                                *)
THEOREM RangesAreAlwaysExact == Spec => [](StoresAreSorted /\ RangesAreExact)
<1>1. Inv /\ StoresInOrder => StoresAreSorted /\ RangesAreExact
  <2> SUFFICES ASSUME Inv, StoresInOrder PROVE StoresAreSorted /\ RangesAreExact
    OBVIOUS
  <2>1. eventStore \in Stores /\ WellStored(eventStore)
    BY StoreIs, OrderedIs DEF StoresInOrder
  <2>2. StoresAreSorted
    BY <2>1 DEF WellStored, StoresAreSorted
  <2> SUFFICES ASSUME NEW t \in Types,
                      NEW start \in 0 .. MaxTime, NEW end \in 0 .. MaxTime,
                      NEW max \in {NoLimit} \cup 1 .. MaxItems,
                      start # NoTime /\ end # NoTime => start <= end
               PROVE  AnswersExactly(eventStore[t], start, end, max)
    BY <2>2 DEF RangesAreExact
  <2>3. /\ eventStore[t] \in Seq(AnyEvents) /\ Sorted(eventStore[t])
        /\ \A e \in AnyEvents : e.time \in Int
    BY <2>1, EventFields DEF WellStored
  <2>4. start \in Nat /\ end \in Nat /\ max \in (Nat \ {0}) \cup {NoLimit}
    BY EventAssumption
  <2> QED BY <2>3, <2>4, RangeIsExact
<1> QED BY <1>1, OrderedAlways, PTL

\* The events in the stores, as sets, and what a step may do with them.
Kept == Contents(eventStore)
KeepsAnother == \E e \in AnyEvents : /\ e.id = added + 1 /\ added' = added + 1
                                     /\ Kept' = KeepIn(Kept, e)

(* The buffers of the stores, cut, sorted and searched by index, implement *)
(* sets of events: at first none is kept, and every event added, by        *)
(* whatever goroutine and however old, displaces the oldest of its type if *)
(* MaxItems are kept, and all that are MaxAge older than it, and nothing   *)
(* else; no other step changes what is kept.  Of equally old events the    *)
(* oldest is the first that was added (handler.go:268-284,                 *)
(* timed_store.go:46-66).                                                  *)
THEOREM StoresKeepTheLast ==
  Spec => Kept = NoneKept /\ added = 0 /\ [][KeepsAnother]_<<Kept, added>>
<1>1. Init => Kept = NoneKept /\ added = 0
  BY DEF Init, EventInit, Kept, Contents, NoneKept, Range
<1>2. Inv /\ StoresInOrder /\ [Next]_vars => [KeepsAnother]_<<Kept, added>>
  <2> SUFFICES ASSUME Inv, StoresInOrder, [Next]_vars PROVE [KeepsAnother]_<<Kept, added>>
    OBVIOUS
  <2>1. CASE UNCHANGED <<eventStore, added>>
    BY <2>1 DEF Kept, Contents
  <2>2. CASE AddsOne
    <3>1. PICK e \in AnyEvents : /\ e.id = added + 1 /\ added' = added + 1
                                 /\ eventStore' = AddTo(eventStore, e)
      BY <2>2 DEF AddsOne
    <3>2. Contents(AddTo(eventStore, e)) = KeepIn(Contents(eventStore), e)
      BY <3>1, StoreIs, AddToKeeps DEF StoresInOrder
    <3>3. Kept' = Contents(AddTo(eventStore, e))
      BY <3>1 DEF Kept, Contents
    <3>4. KeepsAnother
      BY <3>1, <3>2, <3>3 DEF KeepsAnother, Kept
    <3> QED BY <3>4
  <2> QED BY <2>1, <2>2, StoreStep
<1> QED BY <1>1, <1>2, OrderedAlways, PTL DEF Spec

\* A request names finitely many types.
LEMMA FewTypes == IsFiniteSet(Types)
<1>1. /\ IsFiniteSet({}) /\ IsFiniteSet({} \cup {"oom"})
      /\ IsFiniteSet(({} \cup {"oom"}) \cup {"oomKill"})
      /\ IsFiniteSet((({} \cup {"oom"}) \cup {"oomKill"}) \cup {"creation"})
  BY FS_EmptySet, FS_AddElement
<1>2. Types = (({} \cup {"oom"}) \cup {"oomKill"}) \cup {"creation"}
  BY PublisherAssumption
<1> QED BY <1>1, <1>2

\* Every request that GetEvents answers, in whatever state it is asked.
StoresAnswerExactly ==
  \A r \in Answered : IsAnswer(GetEvents(eventStore, r), UNION { Kept[t] : t \in Types }, r)

(* Whenever it is asked, and whatever it is asked that is no inverted      *)
(* range of time, GetEvents returns of the events kept those that satisfy  *)
(* the request, sorted by time, each once, and of them the last            *)
(* MaxEventsReturned; unless the request names a container, has a limit    *)
(* and leaves one end open: then they are only some of those               *)
(* (handler.go:222-245, timed_store.go:72-132).                            *)
THEOREM EveryAnswerIsExact == Spec => []StoresAnswerExactly
<1>1. Inv /\ StoresInOrder => StoresAnswerExactly
  <2> SUFFICES ASSUME Inv, StoresInOrder, NEW r \in Answered
               PROVE  IsAnswer(GetEvents(eventStore, r), UNION { Kept[t] : t \in Types }, r)
    BY DEF StoresAnswerExactly
  <2>1. WellStored(eventStore)
    BY StoreIs, OrderedIs DEF StoresInOrder
  <2>2. AllIn(eventStore) = UNION { Kept[t] : t \in Types }
    BY DEF AllIn, Kept, Contents
  <2> QED BY <2>1, <2>2, FewTypes, AnswerIs
<1> QED BY <1>1, OrderedAlways, PTL

(* For every sequence of events added, of any length, and every request    *)
(* that does not panic, GetEvents answers as the definition by sets says.  *)
(* The runs check it on a few (handler.go:222-245, timed_store.go:46-132). *)
THEOREM QueriesAnswerExactly == Spec => []AnswersAreExact
<1>1. AllAreExact
  <2> SUFFICES ASSUME NEW s \in QueryAdds, NEW r \in QueryRequests
               PROVE  QueriesAreExact(s, r)
    BY DEF AllAreExact
  <2>1. s \in Seq(AnyEvents) /\ \A i \in DOMAIN s : s[i].id = i
    BY PublisherAssumption
  <2>2. r \in Answered
    BY PublisherAssumption DEF Answered
  <2> QED BY <2>1, <2>2, FewTypes, FilledQueries
<1>2. AnswersAreExact
  BY <1>1 DEF AnswersAreExact
<1> QED BY <1>2, PTL

\* The event f has to make room, or is too old.
Displaced(t, f) ==
  \E e \in Range(eventStore'[t]) :
    \/ Len(eventStore[t]) = MaxItems /\ f = Head(eventStore[t])
    \/ f.time + MaxAge <= e.time
OnlyDisplacedGo ==
  \A t \in Types : \A f \in Range(eventStore[t]) : f \in Range(eventStore'[t]) \/ Displaced(t, f)

(* An event leaves its store only when another one is added: because it    *)
(* was the first of a full store, or because the new one is MaxAge later   *)
(* (timed_store.go:46-66).                                                 *)
THEOREM NoEventIsLost == Spec => [][OnlyDisplacedGo]_eventStore
<1>1. Inv /\ StoresInOrder /\ [Next]_vars => [OnlyDisplacedGo]_eventStore
  <2> SUFFICES ASSUME Inv, StoresInOrder, NEW e \in AnyEvents,
                      eventStore' = AddTo(eventStore, e)
               PROVE  OnlyDisplacedGo
    BY StoreStep DEF AddsOne
  <2> SUFFICES ASSUME NEW u \in Types, NEW f \in Range(eventStore[u]),
                      f \notin Range(eventStore'[u])
               PROVE  Displaced(u, f)
    BY DEF OnlyDisplacedGo
  <2> DEFINE t == e.type
             s == eventStore[t]
  <2>1. /\ s \in Seq(AnyEvents) /\ Len(s) <= MaxItems /\ Sorted(s)
        /\ eventStore'[t] = StoreAdd(s, e)
        /\ \A v \in Types \ {t} : eventStore'[v] = eventStore[v]
        /\ \A g \in AnyEvents : g.time \in Int
    <3>1. eventStore \in Stores /\ WellStored(eventStore)
      BY StoreIs, OrderedIs DEF StoresInOrder
    <3>2. t \in Types /\ \A g \in AnyEvents : g.time \in Int
      BY EventFields
    <3> QED BY <3>1, <3>2, AddToIs DEF Stores, WellStored
  <2>2. u = t
    BY <2>1
  <2> HIDE DEF t
  <2>3. Range(eventStore'[t]) = {e} \cup { g \in Range(Room(s)) : g.time > e.time - MaxAge }
    BY <2>1, StoreAddSorted
  <2>4. CASE f \in Range(Room(s))
    <3>1. f \in AnyEvents
      BY <2>1, <2>2, ElementOfSeq DEF Range
    <3>2. ~ f.time > e.time - MaxAge /\ f.time \in Int /\ e.time \in Int /\ MaxAge \in Nat
      BY <2>1, <2>2, <2>3, <2>4, <3>1, EventAssumption
    <3> QED BY <2>2, <2>3, <3>2 DEF Displaced
  <2>5. CASE f \notin Range(Room(s))
    <3>1. Len(s) = MaxItems
      BY <2>2, <2>5 DEF Room
    <3>2. PICK k \in 1 .. Len(s) : f = s[k]
      BY <2>1, <2>2, LenProperties DEF Range
    <3>3. k = 1
      <4>1. /\ DOMAIN Tail(s) = 1 .. Len(s) - 1 /\ Room(s) = Tail(s)
            /\ \A j \in 1 .. Len(s) - 1 : Tail(s)[j] = s[j + 1]
        <5>1. s \in Seq(AnyEvents) /\ s # << >> /\ Len(s) \in Nat
          BY <2>1, <3>2, LenProperties
        <5> HIDE DEF s
        <5>2. /\ Tail(s) \in Seq(AnyEvents) /\ Len(Tail(s)) = Len(s) - 1
              /\ \A j \in 1 .. Len(Tail(s)) : Tail(s)[j] = s[j + 1]
          BY <5>1, HeadTailProperties
        <5> QED BY <3>1, <5>1, <5>2, LenProperties DEF Room
      <4>2. ASSUME k # 1 PROVE FALSE
        <5>1. k - 1 \in 1 .. Len(s) - 1 /\ Tail(s)[k - 1] = s[k]
          BY <2>1, <3>2, <4>1, <4>2, LenProperties
        <5> QED BY <2>5, <3>2, <4>1, <5>1 DEF Range
      <4> QED BY <4>2
    <3>4. f = Head(s)
      BY <3>2, <3>3
    <3> QED BY <2>2, <2>3, <3>1, <3>4 DEF Displaced
  <2> QED BY <2>4, <2>5
<1> QED BY <1>1, OrderedAlways, PTL DEF Spec
=============================================================================
