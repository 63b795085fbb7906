------------------------- MODULE AgentPeers_proofs --------------------------
(***************************************************************************)
(* Theorems about what the agent is tied to: its server (FeedBackLink), for *)
(* every number of connections, failed dials, tasks and feedbacks, and its *)
(* daemon (Watchdog), for every number of processes and of failed starts.  *)
(***************************************************************************)
EXTENDS FeedBackLink, Watchdog, SequenceTheorems, TLAPS

-----------------------------------------------------------------------------
(* FeedBackLink: no task is glued together and no feedback is skipped or   *)
(* reordered.                                                              *)

-----------------------------------------------------------------------------
(* The feedbacks.                                                          *)

LastWritten == IF wire = << >> THEN 0 ELSE wire[Len(wire)]

\* A sender that waits for a feedback has written all it took, and one that
\* has a feedback has written all but that one, if not that one, too.
OrderInv ==
  /\ wire \in Seq(Nat) /\ taken \in Nat
  /\ senderPc \in {"off", "recv", "check", "write", "dead"}
  /\ \A i \in DOMAIN wire : wire[i] - (IF i = 1 THEN 0 ELSE wire[i - 1]) \in {0, 1}
  /\ LastWritten \in IF senderPc \in {"off", "recv"} THEN {taken} ELSE {taken - 1, taken}

\* The feedback that was taken last may be written, once more or for the first time.
LEMMA WireGrows ==
  ASSUME OrderInv, senderPc \notin {"off", "recv"}, wire' = Append(wire, taken)
  PROVE  /\ wire' \in Seq(Nat)
         /\ \A i \in DOMAIN wire' :
              wire'[i] - (IF i = 1 THEN 0 ELSE wire'[i - 1]) \in {0, 1}
         /\ LastWritten' = taken
<1>1. wire \in Seq(Nat) /\ taken \in Nat /\ LastWritten \in {taken - 1, taken}
  BY DEF OrderInv
<1>2. /\ wire' \in Seq(Nat) /\ Len(wire') = Len(wire) + 1
      /\ \A i \in 1 .. Len(wire) : wire'[i] = wire[i]
      /\ wire'[Len(wire) + 1] = taken
  BY <1>1, AppendProperties
<1>3. Len(wire) \in Nat /\ DOMAIN wire = 1 .. Len(wire) /\ DOMAIN wire' = 1 .. Len(wire) + 1
  BY <1>1, <1>2
<1>4. ASSUME NEW i \in DOMAIN wire'
      PROVE  wire'[i] - (IF i = 1 THEN 0 ELSE wire'[i - 1]) \in {0, 1}
  <2>1. CASE i \in 1 .. Len(wire)
    <3>1. i = 1 \/ i - 1 \in 1 .. Len(wire)
      BY <1>3, <2>1
    <3>2. wire[i] - (IF i = 1 THEN 0 ELSE wire[i - 1]) \in {0, 1}
      BY <1>3, <2>1 DEF OrderInv
    <3> QED BY <1>2, <2>1, <3>1, <3>2
  <2>2. CASE i = Len(wire) + 1
    <3>1. wire # << >> => Len(wire) \in 1 .. Len(wire) /\ wire[Len(wire)] = LastWritten
      BY <1>1, <1>3 DEF LastWritten
    <3>2. wire = << >> => Len(wire) = 0 /\ LastWritten = 0
      BY DEF LastWritten
    <3>3. i # 1 => wire'[i - 1] = LastWritten
      <4>1. i # 1 => i - 1 = Len(wire) /\ Len(wire) \in 1 .. Len(wire)
        BY <1>3, <2>2
      <4>2. i # 1 => wire # << >>
        BY <1>3, <4>1, EmptySeq
      <4> QED BY <1>2, <3>1, <4>1, <4>2
    <3>4. i = 1 => LastWritten = 0
      BY <1>1, <1>3, <2>2, <3>1, <3>2
    <3> QED BY <1>1, <1>2, <2>2, <3>3, <3>4
  <2> QED BY <1>3, <2>1, <2>2
<1>5. LastWritten' = taken
  BY <1>2, <1>3 DEF LastWritten
<1> QED BY <1>2, <1>4, <1>5

LEMMA OrderNext == OrderInv /\ [Next]_vars => OrderInv'
<1> SUFFICES ASSUME OrderInv, [Next]_vars PROVE OrderInv'
  OBVIOUS
<1> USE MaxFeedBacksAssumption
<1>1. CASE Reader \/ CloseAgain \/ \E n \in Conns : Break(n) \/ PostTask(n)
  BY <1>1 DEF OrderInv, LastWritten, Reader, DialOk, DialFails, Register, RegisterFatal, EndAgent,
              Read, ReadError, Close, CloseFails, CloseAgain, Break, PostTask, vars, senderVars
<1>2. CASE Take
  BY <1>2 DEF OrderInv, LastWritten, Take
<1>3. CASE Check \/ WriteShort \/ WriteNil
  BY <1>3 DEF OrderInv, LastWritten, Check, WriteShort, WriteNil, EndAgent
<1>4. CASE WriteOk
  BY <1>4, WireGrows DEF OrderInv, WriteOk
<1>5. CASE WriteError
  <2>1. CASE UNCHANGED wire
    BY <1>5, <2>1 DEF OrderInv, LastWritten, WriteError
  <2>2. CASE wire' = Append(wire, taken)
    BY <1>5, <2>2, WireGrows DEF OrderInv, WriteError
  <2> QED BY <1>5, <2>1, <2>2 DEF WriteError
<1>6. CASE UNCHANGED vars
  BY <1>6 DEF OrderInv, LastWritten, vars, senderVars
<1> QED BY <1>1, <1>2, <1>3, <1>4, <1>5, <1>6 DEF Next, Sender

(* Feedbacks reach the wire in the order they entered the channel; none is *)
(* skipped and one is repeated only back to back, whatever connections are *)
(* lost and whatever writes fail (task.go:86-124).                         *)
THEOREM FeedBacksStayInOrder == Spec => []FeedBackInOrder
<1>1. Init => OrderInv
  BY DEF Init, OrderInv, LastWritten
<1>2. OrderInv => FeedBackInOrder
  BY DEF OrderInv, FeedBackInOrder, LastWritten
<1> QED BY <1>1, <1>2, OrderNext, PTL DEF Spec

-----------------------------------------------------------------------------
(* The tasks: an unread first half is followed by its last half, a last    *)
(* half by the first half of another line.                                 *)

Follows(h, g) == IF h[2] = "first" THEN g = <<h[1], "last">> ELSE g[2] = "first"
Chain(q) == q \in Seq(Halves) /\ \A i \in 1 .. Len(q) - 1 : Follows(q[i], q[i + 1])

\* What was read of a line, and what is to be read after it.
Fits(p, q) ==
  \/ p = << >> /\ (q # << >> => q[1][2] = "first")
  \/ \E m \in 1 .. MaxTasks :
       p = << <<m, "first">> >> /\ (q # << >> => q[1] = <<m, "last">>)

\* ... of a connection that lost nothing
Whole(p, q) == IF q = << >> THEN p = << >> ELSE q[Len(q)][2] = "last"

\* A connection is the reader's from its dial to its close, and only there is
\* anything to read.
LinkInv ==
  /\ conn \in [Conns -> {"unused", "open", "broken", "unclosed", "closed"}]
  /\ posted \in 0 .. MaxTasks
  /\ incoming \in [Conns -> Seq(Halves)]
  /\ \A n \in Conns : conn[n] = "unused" => incoming[n] = << >>
  /\ \A n \in Conns : Open(n) => readerPc = "read" /\ n = taskClient
  /\ readerPc \in {"read", "close"} => taskClient \in Conns
  /\ readerPc # "read" => partial = << >>
  /\ readerPc = "read" =>
       /\ Chain(incoming[taskClient]) /\ Fits(partial, incoming[taskClient])
       /\ Open(taskClient) => Whole(partial, incoming[taskClient])
  /\ WholeTasks /\ started \in Seq(Seq(Halves))
\* A line that is cut is one of the same kind.
LEMMA ChainCut ==
  ASSUME NEW p, NEW q, NEW k \in 0 .. Len(q), Chain(q), Fits(p, q)
  PROVE  Chain(SubSeq(q, 1, k)) /\ Fits(p, SubSeq(q, 1, k))
<1> DEFINE r == SubSeq(q, 1, k)
<1>1. q \in Seq(Halves) /\ Len(q) \in Nat
  BY DEF Chain
<1>2. r \in Seq(Halves) /\ Len(r) = k /\ \A i \in 1 .. k : r[i] = q[i]
  BY <1>1, SubSeqProperties
<1>3. Chain(r)
  <2>1. \A i \in 1 .. k - 1 : i \in 1 .. k /\ i + 1 \in 1 .. k /\ i \in 1 .. Len(q) - 1
    BY <1>1
  <2> QED BY <1>2, <2>1 DEF Chain
<1>4. r # << >> => r[1] = q[1] /\ q # << >>
  BY <1>1, <1>2, EmptySeq
<1> HIDE DEF r
<1>5. Fits(p, r)
  BY <1>4 DEF Fits
<1> QED BY <1>3, <1>5 DEF r

\* The server writes a line of two halves after others.
LEMMA ChainGrows ==
  ASSUME NEW p, NEW q, NEW m \in 1 .. MaxTasks, Chain(q), Fits(p, q), Whole(p, q)
  PROVE  LET r == q \o Line(m) IN Chain(r) /\ Fits(p, r) /\ Whole(p, r)
<1> DEFINE r == q \o Line(m)
<1>1. q \in Seq(Halves) /\ Len(q) \in Nat
  BY DEF Chain
<1>2. Line(m) \in Seq(Halves) /\ Len(Line(m)) = 2
      /\ Line(m)[1] = <<m, "first">> /\ Line(m)[2] = <<m, "last">>
  BY DEF Line, Halves
<1> HIDE DEF r
<1>3. /\ r \in Seq(Halves) /\ Len(r) = Len(q) + 2
      /\ \A i \in 1 .. Len(q) : r[i] = q[i]
      /\ r[Len(q) + 1] = <<m, "first">> /\ r[Len(q) + 2] = <<m, "last">>
  <2> DEFINE two == Line(m)
  <2> HIDE DEF two
  <2>1. two \in Seq(Halves) /\ Len(two) = 2
        /\ two[1] = <<m, "first">> /\ two[2] = <<m, "last">>
    BY <1>2 DEF two
  <2>2. r = q \o two
    BY DEF r, two
  <2>3. /\ r \in Seq(Halves) /\ Len(r) = Len(q) + 2
        /\ \A i \in 1 .. Len(r) : r[i] = IF i <= Len(q) THEN q[i] ELSE two[i - Len(q)]
    <3>1. /\ q \o two \in Seq(Halves) /\ Len(q \o two) = Len(q) + Len(two)
          /\ \A i \in 1 .. Len(q) + Len(two) :
               (q \o two)[i] = IF i <= Len(q) THEN q[i] ELSE two[i - Len(q)]
      BY <1>1, <2>1, ConcatProperties
    <3> HIDE DEF two
    <3> QED BY <1>1, <2>1, <2>2, <3>1
  <2>4. r[Len(q) + 1] = two[1] /\ r[Len(q) + 2] = two[2]
    <3>1. /\ Len(q) + 1 \in 1 .. Len(r) /\ ~ Len(q) + 1 <= Len(q) /\ (Len(q) + 1) - Len(q) = 1
          /\ Len(q) + 2 \in 1 .. Len(r) /\ ~ Len(q) + 2 <= Len(q) /\ (Len(q) + 2) - Len(q) = 2
      BY <1>1, <2>3
    <3> QED BY <2>3, <3>1
  <2>5. \A i \in 1 .. Len(q) : i \in 1 .. Len(r) /\ i <= Len(q)
    BY <1>1, <2>3
  <2> QED BY <2>1, <2>3, <2>4, <2>5
<1>4. q # << >> => Len(q) \in 1 .. Len(q) /\ 1 \in 1 .. Len(q) /\ q[Len(q)][2] = "last"
  BY <1>1, EmptySeq DEF Whole
<1>5. q = << >> => Len(q) = 0 /\ p = << >>
  BY DEF Whole
<1>6. Chain(r)
  <2>1. ASSUME NEW i \in 1 .. Len(q) + 1 PROVE Follows(r[i], r[i + 1])
    <3>1. CASE i \in 1 .. Len(q) - 1
      <4>1. i \in 1 .. Len(q) /\ i + 1 \in 1 .. Len(q)
        BY <1>1, <3>1
      <4> QED BY <1>3, <3>1, <4>1 DEF Chain
    <3>2. CASE i = Len(q)
      <4>1. q # << >>
        BY <1>5, <3>2
      <4>2. r[i][2] = "last" /\ r[i + 1] = <<m, "first">>
        BY <1>3, <1>4, <3>2, <4>1
      <4> QED BY <4>2 DEF Follows
    <3>3. CASE i = Len(q) + 1
      <4>1. r[i] = <<m, "first">> /\ r[i + 1] = <<m, "last">>
        BY <1>1, <1>3, <3>3
      <4> QED BY <4>1 DEF Follows
    <3> QED BY <1>1, <3>1, <3>2, <3>3
  <2> QED BY <1>1, <1>3, <2>1 DEF Chain
<1>7. Fits(p, r)
  <2>1. CASE q = << >>
    BY <1>3, <1>5, <2>1 DEF Fits
  <2>2. CASE q # << >>
    <3>1. r[1] = q[1]
      BY <1>3, <1>4, <2>2
    <3> QED BY <2>2, <3>1 DEF Fits
  <2> QED BY <2>1, <2>2
<1>8. Whole(p, r)
  <2>1. r # << >> /\ r[Len(r)][2] = "last"
    BY <1>1, <1>3, EmptySeq
  <2> QED BY <2>1 DEF Whole
<1> QED BY <1>6, <1>7, <1>8 DEF r

\* What AppendProperties says, in parts that the provers find each.
LEMMA Appending ==
  ASSUME NEW S, NEW q \in Seq(S), NEW e \in S
  PROVE  /\ Append(q, e) \in Seq(S) /\ Len(Append(q, e)) = Len(q) + 1
         /\ \A i \in 1 .. Len(q) : Append(q, e)[i] = q[i]
         /\ Append(q, e)[Len(q) + 1] = e
<1>1. Append(q, e) \in Seq(S) /\ Len(Append(q, e)) = Len(q) + 1
  BY AppendProperties, Zenon
<1>2. \A i \in 1 .. Len(q) : Append(q, e)[i] = q[i]
  BY AppendProperties, SMT
<1>3. Append(q, e)[Len(q) + 1] = e
  BY AppendProperties, Zenon
<1> QED BY <1>1, <1>2, <1>3

LEMMA AppendToOne ==
  ASSUME NEW h, NEW g
  PROVE  Append(<< h >>, g) = << h, g >>
<1> DEFINE S == {h, g}
<1>1. << h >> \in Seq(S) /\ Len(<< h >>) = 1 /\ << h >>[1] = h /\ g \in S
  OBVIOUS
<1>2. << h, g >> \in Seq(S) /\ Len(<< h, g >>) = 2
      /\ << h, g >>[1] = h /\ << h, g >>[2] = g
  OBVIOUS
<1> HIDE DEF S
<1>3. \A s \in Seq(S) : Len(s) = 1 /\ s[1] = h => Append(s, g) = << h, g >>
  <2> SUFFICES ASSUME NEW s \in Seq(S), Len(s) = 1, s[1] = h
               PROVE  Append(s, g) = << h, g >>
    OBVIOUS
  <2>1. /\ Append(s, g) \in Seq(S) /\ Len(Append(s, g)) = Len(s) + 1
        /\ \A i \in 1 .. Len(s) : Append(s, g)[i] = s[i]
        /\ Append(s, g)[Len(s) + 1] = g
    BY <1>1, Appending
  <2>2. \A t \in Seq(S) : Len(t) = 2 /\ t[1] = h /\ t[2] = g => Append(s, g) = t
    <3> SUFFICES ASSUME NEW t \in Seq(S), Len(t) = 2, t[1] = h, t[2] = g
                 PROVE  Append(s, g) = t
      OBVIOUS
    <3>1. \A i \in 1 .. 2 : Append(s, g)[i] = t[i]
      BY <2>1
    <3> QED BY <2>1, <3>1, SeqEqual
  <2> QED BY <1>2, <2>2
<1> QED BY <1>1, <1>3

\* The reader takes the next half: the beginning of a line, or its end.
LEMMA ChainRead ==
  ASSUME NEW p, NEW q, Chain(q), Fits(p, q), q # << >>
  PROVE  /\ Chain(Tail(q))
         /\ \/ /\ Head(q)[2] = "first" /\ p = << >>
               /\ Fits(Append(p, Head(q)), Tail(q))
               /\ Whole(p, q) => Whole(Append(p, Head(q)), Tail(q))
            \/ /\ Head(q)[2] = "last" /\ Fits(<< >>, Tail(q))
               /\ \E m \in 1 .. MaxTasks : Append(p, Head(q)) = Line(m)
               /\ Whole(p, q) => Whole(<< >>, Tail(q))
<1> DEFINE r == Tail(q)
<1>1. q \in Seq(Halves) /\ Len(q) \in Nat /\ Len(q) > 0
  BY EmptySeq DEF Chain
<1>2. /\ Head(q) = q[1] /\ r \in Seq(Halves) /\ Len(r) = Len(q) - 1
      /\ \A i \in 1 .. Len(r) : r[i] = q[i + 1]
  BY <1>1, HeadTailProperties
<1>3. q[1] \in Halves
  BY <1>1, ElementOfSeq
<1> HIDE DEF r
<1>4. Chain(r)
  <2>1. ASSUME NEW i \in 1 .. Len(r) - 1 PROVE Follows(r[i], r[i + 1])
    <3>1. i \in 1 .. Len(r) /\ i + 1 \in 1 .. Len(r) /\ i + 1 \in 1 .. Len(q) - 1
      BY <1>1, <1>2
    <3>2. r[i] = q[i + 1] /\ r[i + 1] = q[(i + 1) + 1]
      BY <1>2, <3>1
    <3> QED BY <3>1, <3>2 DEF Chain
  <2> QED BY <1>2, <2>1 DEF Chain
<1>5. r # << >> => Follows(q[1], r[1])
  <2>1. r # << >> => 1 \in 1 .. Len(r) /\ 1 \in 1 .. Len(q) - 1
    BY <1>1, <1>2, EmptySeq
  <2> QED BY <1>2, <2>1 DEF Chain
<1>6. r # << >> => r[Len(r)] = q[Len(q)]
  <2>1. r # << >> => Len(r) \in 1 .. Len(r) /\ Len(r) + 1 = Len(q)
    BY <1>1, <1>2, EmptySeq
  <2> QED BY <1>2, <2>1
<1>7. r = << >> => q[Len(q)] = q[1]
  <2>1. r = << >> => Len(r) = 0
    BY EmptySeq
  <2>2. Len(r) = 0 => Len(q) = 1
    BY <1>1, <1>2
  <2> QED BY <2>1, <2>2
<1>8. CASE p = << >> /\ q[1][2] = "first"
  <2>1. PICK m \in 1 .. MaxTasks : q[1] = <<m, "first">>
    BY <1>3, <1>8 DEF Halves
  <2>2. Append(p, q[1]) = << <<m, "first">> >>
    BY <1>8, <2>1
  <2>3. r # << >> => r[1] = <<m, "last">>
    BY <1>5, <2>1 DEF Follows
  <2>4. Fits(Append(p, q[1]), r)
    BY <2>2, <2>3 DEF Fits
  <2>5. Whole(p, q) => r # << >> /\ Whole(Append(p, q[1]), r)
    BY <1>6, <1>7, <2>1 DEF Whole
  <2> QED BY <1>2, <1>4, <1>8, <2>4, <2>5 DEF r
<1>9. CASE \E m \in 1 .. MaxTasks : p = << <<m, "first">> >> /\ q[1] = <<m, "last">>
  <2>1. PICK m \in 1 .. MaxTasks : p = << <<m, "first">> >> /\ q[1] = <<m, "last">>
    BY <1>9
  <2>2. Append(p, q[1]) = Line(m)
    BY <2>1, AppendToOne DEF Line
  <2>3. r # << >> => r[1][2] = "first"
    BY <1>5, <2>1 DEF Follows
  <2>4. Fits(<< >>, r)
    BY <2>3 DEF Fits
  <2>5. Whole(p, q) => Whole(<< >>, r)
    BY <1>6 DEF Whole
  <2>6. q[1][2] = "last"
    BY <2>1
  <2> QED BY <1>2, <1>4, <2>2, <2>4, <2>5, <2>6 DEF r
<1> QED BY <1>8, <1>9 DEF Fits
-----------------------------------------------------------------------------
LEMMA LinkInit == Init => LinkInv
<1>1. << >> \in Seq(Halves) /\ << >> \in Seq(Seq(Halves))
  OBVIOUS
<1> QED BY <1>1, MaxTasksAssumption DEF Init, LinkInv, WholeTasks, Open, Nil

\* A connection loses a suffix of what was on its way.
LEMMA BreakStep ==
  ASSUME LinkInv, NEW n \in Conns, Break(n)
  PROVE  LinkInv'
<1>1. readerPc = "read" /\ n = taskClient
  BY DEF LinkInv, Break
<1>2. PICK kept \in 0 .. Len(incoming[n]) :
        incoming' = [incoming EXCEPT ![n] = SubSeq(@, 1, kept)]
  BY DEF Break
<1>3. Chain(SubSeq(incoming[n], 1, kept)) /\ Fits(partial, SubSeq(incoming[n], 1, kept))
  BY <1>1, ChainCut DEF LinkInv
<1>4. incoming' \in [Conns -> Seq(Halves)] /\ incoming'[n] = SubSeq(incoming[n], 1, kept)
      /\ \A m \in Conns \ {n} : incoming'[m] = incoming[m]
  BY <1>2, <1>3 DEF LinkInv, Chain
<1>5. conn' \in [Conns -> {"unused", "open", "broken", "unclosed", "closed"}] /\ conn'[n] = "broken"
      /\ \A m \in Conns \ {n} : conn'[m] = conn[m]
  BY DEF LinkInv, Break
<1>6. UNCHANGED <<taskClient, readerPc, partial, posted, started>>
  BY DEF Break, readerVars
<1> QED BY <1>1, <1>3, <1>4, <1>5, <1>6 DEF LinkInv, Open, WholeTasks

\* The server writes a line of its own.
LEMMA PostTaskStep ==
  ASSUME LinkInv, NEW n \in Conns, PostTask(n)
  PROVE  LinkInv'
<1>1. readerPc = "read" /\ n = taskClient /\ Open(n)
  BY DEF LinkInv, PostTask
<1>2. posted + 1 \in 1 .. MaxTasks /\ posted' \in 0 .. MaxTasks
  BY MaxTasksAssumption DEF LinkInv, PostTask
<1> DEFINE q == incoming[n] \o Line(posted + 1)
<1>3. Chain(q) /\ Fits(partial, q) /\ Whole(partial, q)
  BY <1>1, <1>2, ChainGrows DEF LinkInv
<1>4. q \in Seq(Halves)
  BY <1>3 DEF Chain
<1> HIDE DEF q
<1>5. incoming' \in [Conns -> Seq(Halves)] /\ incoming'[n] = q
      /\ \A m \in Conns \ {n} : incoming'[m] = incoming[m]
  BY <1>4 DEF LinkInv, PostTask, q
<1>6. UNCHANGED <<conn, taskClient, readerPc, partial, started>>
  BY DEF PostTask, readerVars
<1> QED BY <1>1, <1>2, <1>3, <1>5, <1>6 DEF LinkInv, Open, WholeTasks

\* A new connection has nothing to read.
LEMMA DialStep ==
  ASSUME LinkInv, DialOk
  PROVE  LinkInv'
<1>1. PICK n \in Conns : /\ conn[n] = "unused" /\ taskClient' = n
                         /\ conn' = [conn EXCEPT ![n] = "open"]
  BY DEF DialOk
<1>2. incoming[n] = << >> /\ partial = << >> /\ \A m \in Conns : ~ Open(m)
  BY <1>1 DEF LinkInv, DialOk
<1>3. Chain(<< >>) /\ Fits(<< >>, << >>) /\ Whole(<< >>, << >>)
  <2>1. << >> \in Seq(Halves) /\ 1 .. Len(<< >>) - 1 = {}
    BY EmptySeq
  <2> QED BY <2>1 DEF Chain, Fits, Whole
<1>4. conn' \in [Conns -> {"unused", "open", "broken", "unclosed", "closed"}] /\ conn'[n] = "open"
      /\ \A m \in Conns \ {n} : conn'[m] = conn[m]
  BY <1>1 DEF LinkInv
<1>5. readerPc' = "read" /\ UNCHANGED <<incoming, posted, partial, started>>
  BY DEF DialOk, serverVars
<1> QED BY <1>1, <1>2, <1>3, <1>4, <1>5 DEF LinkInv, Open, WholeTasks

\* A half is read; with the last one a Task is started.
LEMMA ReadStep ==
  ASSUME LinkInv, Read
  PROVE  LinkInv'
<1>1. taskClient \in Conns /\ readerPc = "read"
  BY DEF LinkInv, Read
<1> DEFINE q == incoming[taskClient]
           h == Head(q)
<1>2. Chain(q) /\ Fits(partial, q) /\ q # << >> /\ (Open(taskClient) => Whole(partial, q))
  BY <1>1 DEF LinkInv, Read
<1>3. incoming' = [incoming EXCEPT ![taskClient] = Tail(q)]
      /\ UNCHANGED <<conn, taskClient, readerPc, posted>>
  BY DEF Read
<1>4. Chain(Tail(q))
  BY <1>2, ChainRead
<1>5. incoming' \in [Conns -> Seq(Halves)] /\ incoming'[taskClient] = Tail(q)
      /\ \A m \in Conns \ {taskClient} : incoming'[m] = incoming[m]
  BY <1>1, <1>3, <1>4 DEF LinkInv, Chain
<1>6. /\ Fits(partial', Tail(q)) /\ (Open(taskClient) => Whole(partial', Tail(q)))
      /\ WholeTasks' /\ started' \in Seq(Seq(Halves))
  <2>1. CASE h[2] = "first"
    <3>1. partial' = Append(partial, h) /\ started' = started
      BY <2>1 DEF Read
    <3>2. Fits(Append(partial, h), Tail(q))
          /\ (Whole(partial, q) => Whole(Append(partial, h), Tail(q)))
      BY <1>2, <2>1, ChainRead
    <3> QED BY <1>2, <3>1, <3>2 DEF LinkInv, WholeTasks
  <2>2. CASE h[2] # "first"
    <3>1. partial' = << >> /\ started' = Append(started, Append(partial, h))
      BY <2>2 DEF Read
    <3>2. Fits(<< >>, Tail(q)) /\ (Whole(partial, q) => Whole(<< >>, Tail(q)))
      BY <1>2, <2>2, ChainRead
    <3>3. PICK m \in 1 .. MaxTasks : Append(partial, h) = Line(m)
      BY <1>2, <2>2, ChainRead
    <3>4. Line(m) \in Seq(Halves)
      BY DEF Line, Halves
    <3> DEFINE S == Seq(Halves)
    <3> HIDE DEF S
    <3>5. started \in Seq(S) /\ Line(m) \in S /\ started' = Append(started, Line(m))
      BY <3>1, <3>3, <3>4 DEF S, LinkInv
    <3>6. /\ started' \in Seq(S) /\ DOMAIN started' = 1 .. Len(started) + 1
          /\ \A i \in 1 .. Len(started) : started'[i] = started[i]
          /\ started'[Len(started) + 1] = Line(m)
      BY <3>5, AppendProperties, LenProperties
    <3>7. DOMAIN started = 1 .. Len(started) /\ Len(started) \in Nat
      BY <3>5, LenProperties
    <3>8. WholeTasks'
      <4>1. \A i \in 1 .. Len(started) + 1 : i \in 1 .. Len(started) \/ i = Len(started) + 1
        BY <3>7
      <4> QED BY <3>6, <3>7, <4>1 DEF LinkInv, WholeTasks
    <3> QED BY <1>2, <3>1, <3>2, <3>6, <3>8 DEF S
  <2> QED BY <2>1, <2>2
<1> HIDE DEF q, h
<1> QED BY <1>1, <1>2, <1>3, <1>4, <1>5, <1>6 DEF LinkInv, Open, q

LEMMA LinkNext == LinkInv /\ [Next]_vars => LinkInv'
<1> SUFFICES ASSUME LinkInv, [Next]_vars PROVE LinkInv'
  OBVIOUS
<1>1. CASE DialFails \/ Register
  BY <1>1 DEF LinkInv, DialFails, Register, Open, WholeTasks, serverVars, senderVars
<1>2. CASE ReadError
  BY <1>2 DEF LinkInv, ReadError, Open, WholeTasks, serverVars, senderVars
<1>3. CASE Close \/ CloseFails \/ CloseAgain
  BY <1>3 DEF LinkInv, Close, CloseFails, CloseAgain, readerVars, Open, WholeTasks, serverVars, senderVars
<1>4. CASE WriteNil \/ RegisterFatal
  <2>1. readerPc # "read" /\ readerPc' = "dead"
    BY <1>4 DEF LinkInv, WriteNil, RegisterFatal, EndAgent, Conns, Nil
  <2>2. UNCHANGED <<conn, taskClient, partial, incoming, posted, started>>
    BY <1>4 DEF WriteNil, RegisterFatal, serverVars
  <2> QED BY <2>1, <2>2 DEF LinkInv, Open, WholeTasks
<1>5. CASE Take \/ Check \/ WriteOk \/ WriteShort \/ WriteError \/ UNCHANGED vars
  <2>1. UNCHANGED <<conn, taskClient, readerPc, partial, incoming, posted, started>>
    BY <1>5 DEF Take, Check, WriteOk, WriteShort, WriteError, vars,
                readerVars, serverVars
  <2> QED BY <2>1 DEF LinkInv, Open, WholeTasks
<1> QED BY <1>1, <1>2, <1>3, <1>4, <1>5, DialStep, ReadStep, BreakStep, PostTaskStep
        DEF Next, Reader, Sender

(* A Task is started with one whole line, never with what is left of a     *)
(* lost connection and the beginning of a later one (task.go:46-84).       *)
THEOREM TasksStayWhole == Spec => []WholeTasks
<1>1. LinkInv => WholeTasks
  BY DEF LinkInv
<1> QED BY <1>1, LinkInit, LinkNext, PTL DEF Spec

-----------------------------------------------------------------------------
(* The types: what is written is a feedback that was taken.                *)

\* What LinkInv and OrderInv do not say of the types.
LinkTyped ==
  /\ taskClient \in Conns \cup { Nil }
  /\ dialFailures \in 0 .. MaxDialFailures
  /\ readerPc \in { "dial", "register", "read", "close", "dead" }
  /\ taken \in 0 .. MaxFeedBacks
  /\ senderPc \in { "check", "write" } => taken > 0
  /\ wire \in Seq(1 .. MaxFeedBacks)

LEMMA TypedNext ==
  ASSUME OrderInv, LinkTyped, [Next]_vars
  PROVE  LinkTyped'
<1> USE MaxFeedBacksAssumption, MaxDialFailuresAssumption
<1>1. CASE Reader
  <2>1. UNCHANGED <<wire, taken>> /\ dialFailures' \in 0 .. MaxDialFailures
    BY <1>1 DEF LinkTyped, Reader, DialOk, DialFails, Register, RegisterFatal,
                EndAgent, Read, ReadError, Close, CloseFails, readerVars, senderVars
  <2>2. /\ taskClient' \in Conns \cup { Nil }
        /\ readerPc' \in { "dial", "register", "read", "close", "dead" }
    BY <1>1 DEF LinkTyped, Reader, DialOk, DialFails, Register, RegisterFatal,
                EndAgent, Read, ReadError, Close, CloseFails, readerVars
  <2>3. senderPc' \in { senderPc, "recv", "dead" }
    BY <1>1 DEF Reader, DialOk, DialFails, Register, RegisterFatal,
                EndAgent, Read, ReadError, Close, CloseFails, readerVars, senderVars
  <2> QED BY <2>1, <2>2, <2>3 DEF LinkTyped
<1>2. CASE Take \/ Check \/ WriteShort \/ WriteNil
  <2>1. /\ UNCHANGED <<taskClient, dialFailures, wire>>
        /\ readerPc' = readerPc \/ readerPc' = "dead"
    BY <1>2 DEF Take, Check, WriteShort, WriteNil, EndAgent, readerVars
  <2>2. taken' \in 0 .. MaxFeedBacks /\ taken' > 0
    BY <1>2 DEF LinkTyped, Take, Check, WriteShort, WriteNil
  <2> QED BY <2>1, <2>2 DEF LinkTyped
<1>3. CASE WriteOk \/ WriteError
  <2>1. /\ UNCHANGED <<taskClient, dialFailures, readerPc, taken>>
        /\ taken \in 1 .. MaxFeedBacks
    BY <1>3 DEF LinkTyped, WriteOk, WriteError, readerVars
  <2>2. wire' = wire \/ wire' = Append(wire, taken)
    BY <1>3 DEF WriteOk, WriteError
  <2>3. wire' \in Seq(1 .. MaxFeedBacks)
    BY <2>1, <2>2, AppendProperties DEF LinkTyped
  <2> QED BY <2>1, <2>3 DEF LinkTyped
<1>4. CASE CloseAgain \/ UNCHANGED vars \/ \E n \in Conns : Break(n) \/ PostTask(n)
  BY <1>4 DEF LinkTyped, CloseAgain, Break, PostTask, vars, readerVars, senderVars
<1> QED BY <1>1, <1>2, <1>3, <1>4 DEF Next, Sender

(* What is written to the server is a feedback that was taken from the     *)
(* channel, and what is kept of a line belongs to one (task.go:46-124): the *)
(* types of the link, for any number of connections, tasks and feedbacks.  *)
THEOREM LinkTypes == Spec => []TypeOK
<1>1. Init => LinkTyped
  BY MaxFeedBacksAssumption, MaxDialFailuresAssumption DEF Init, LinkTyped
<1>2. Init => OrderInv
  BY DEF Init, OrderInv, LastWritten
<1>3. LinkInv /\ OrderInv /\ LinkTyped => TypeOK
  <2> SUFFICES ASSUME LinkInv, OrderInv, LinkTyped PROVE partial \in Seq(Halves)
    BY DEF LinkInv, OrderInv, LinkTyped, TypeOK
  <2>1. CASE partial = << >>
    BY <2>1
  <2>2. CASE \E m \in 1 .. MaxTasks : partial = << <<m, "first">> >>
    <3>1. \A m \in 1 .. MaxTasks : <<m, "first">> \in Halves
      BY DEF Halves
    <3> QED BY <2>2, <3>1
  <2> QED BY <2>1, <2>2 DEF LinkInv, Fits
<1> QED BY <1>1, <1>2, <1>3, TypedNext, LinkInit, LinkNext, OrderNext, PTL DEF Spec

-----------------------------------------------------------------------------
(* Watchdog: there are never two agents or two daemons.                    *)

Process == [role : {"agent", "daemon"}, pc : {"poll", "spawn", "wait", "spin"},
            watches : 0 .. MaxPids, first : BOOLEAN,
            ended : {"no", "exit", "signal"}]

\* Two processes that live are an agent and a daemon that look at each other,
\* and neither is about to start another.
Paired ==
  \A p, q \in Pids :
    Live(p) /\ Live(q) /\ p # q =>
      /\ proc[p].role # proc[q].role
      /\ proc[p].watches = q
      /\ proc[p].pc # "spawn"

Inv == WatchdogTypeOK /\ Paired

-----------------------------------------------------------------------------
\* A new process is a process that polls the one that started it.
LEMMA NewIsProcess ==
  ASSUME NEW role \in {"agent", "daemon"}, NEW pid \in 0 .. MaxPids
  PROVE  /\ New(role, pid) \in Process
         /\ New(role, pid).role = role /\ New(role, pid).watches = pid
         /\ New(role, pid).ended = "no"
         /\ pid # None => New(role, pid).pc = "poll"
BY DEF New, Process

\* Every process starts with its type, alone.
LEMMA InitInv == WatchdogInit => Inv
<1> SUFFICES ASSUME WatchdogInit PROVE Inv
  OBVIOUS
<1>1. PICK role \in {"agent", "daemon"} : proc = << New(role, None) >>
  BY DEF WatchdogInit
<1>2. New(role, None) \in Process /\ New(role, None).pc # "wait"
  BY BoundsAssumption, NewIsProcess DEF None, New
<1>3. proc \in Seq(Process) /\ Len(proc) = 1 /\ Pids = {1} /\ proc[1] = New(role, None)
  BY <1>1, <1>2 DEF Pids
<1>4. WatchdogTypeOK
  BY <1>2, <1>3, BoundsAssumption DEF WatchdogTypeOK, Process, WatchdogInit
<1>5. Paired
  BY <1>3 DEF Paired
<1> QED BY <1>4, <1>5 DEF Inv

\* A step that changes the label of one process only keeps the types.
LEMMA GotoTyped ==
  ASSUME WatchdogTypeOK, NEW p \in Pids, NEW label \in {"poll", "spawn", "spin"},
         Goto(p, label)
  PROVE  /\ proc' \in Seq(Process) /\ Len(proc') = Len(proc) /\ Pids' = Pids
         /\ \A q \in Pids : q # p => proc'[q] = proc[q]
         /\ proc'[p] = [proc[p] EXCEPT !.pc = label]
         /\ \A q \in Pids : proc'[q].pc = "wait" => proc'[q].watches \in Pids
<1>1. proc \in Seq(Process) /\ Pids = 1 .. Len(proc)
  BY DEF WatchdogTypeOK, Pids, Process
<1>2. proc' = [proc EXCEPT ![p].pc = label]
  BY DEF Goto
<1>3. proc[p] \in Process
  BY <1>1, ElementOfSeq
<1>4. proc'[p] = [proc[p] EXCEPT !.pc = label]
  BY <1>1, <1>2
<1>5. proc'[p] \in Process
  BY <1>3, <1>4 DEF Process
<1>6. \A q \in Pids : q # p => proc'[q] = proc[q]
  BY <1>1, <1>2
<1>7. proc' \in Seq(Process) /\ Len(proc') = Len(proc) /\ Pids' = Pids
  <2>1. proc' = [proc EXCEPT ![p] = proc'[p]]
    BY <1>1, <1>2, <1>4
  <2> QED BY <1>1, <1>5, <2>1, ExceptSeq DEF Pids
<1>8. proc'[p].pc = label
  BY <1>3, <1>4 DEF Process
<1>9. \A q \in Pids : proc'[q].pc = "wait" => proc'[q].watches \in Pids
  BY <1>6, <1>8 DEF WatchdogTypeOK
<1> QED BY <1>4, <1>6, <1>7, <1>9

\* Such a step keeps the pairs, if it leads to "spawn" only when no other
\* process lives.
LEMMA GotoPaired ==
  ASSUME Inv, NEW p \in Pids, NEW label \in {"poll", "spawn", "spin"},
         Goto(p, label), label = "spawn" => \A q \in Pids : Live(q) => q = p
  PROVE  Paired'
<1>1. WatchdogTypeOK /\ Paired
  BY DEF Inv
<1>2. /\ Pids' = Pids /\ proc'[p] = [proc[p] EXCEPT !.pc = label]
      /\ \A q \in Pids : q # p => proc'[q] = proc[q]
  BY <1>1, GotoTyped
<1>3. proc[p] \in Process
  <2>1. proc \in Seq(Process) /\ p \in 1 .. Len(proc)
    BY <1>1 DEF WatchdogTypeOK, Pids, Process
  <2> QED BY <2>1, ElementOfSeq
<1>4. /\ proc'[p].role = proc[p].role /\ proc'[p].watches = proc[p].watches
      /\ proc'[p].ended = proc[p].ended /\ proc'[p].pc = label
  BY <1>2, <1>3 DEF Process
<1>5. \A q \in Pids : /\ proc'[q].role = proc[q].role /\ proc'[q].watches = proc[q].watches
                      /\ proc'[q].ended = proc[q].ended
  BY <1>2, <1>4
<1>6. ASSUME NEW q \in Pids, NEW r \in Pids, Live(q), Live(r), q # r
      PROVE  /\ proc[q].role # proc[r].role /\ proc[q].watches = r
             /\ proc'[q].pc # "spawn"
  <2>1. proc[q].role # proc[r].role /\ proc[q].watches = r /\ proc[q].pc # "spawn"
    BY <1>1, <1>6 DEF Paired
  <2>2. q = p => label # "spawn"
    BY <1>6
  <2> QED BY <1>2, <1>4, <2>1, <2>2
<1>7. \A q \in Pids : Live(q)' <=> Live(q)
  BY <1>2, <1>5 DEF Live
<1> QED BY <1>2, <1>5, <1>6, <1>7 DEF Paired

-----------------------------------------------------------------------------
\* A process that watches another, and finds it ended, is the only one that
\* lives: were there a third, it would be the one watched.
LEMMA Alone ==
  ASSUME Paired, NEW p \in Pids, Live(p), ~ Live(proc[p].watches)
  PROVE  \A q \in Pids : Live(q) => q = p
BY DEF Paired

\* The steps that only go to another label.
LEMMA LabelStep ==
  ASSUME Inv, NEW p \in Pids, Poll(p) \/ SpawnFails(p) \/ Wait(p) \/ WaiterWaits(p)
  PROVE  Inv'
<1>1. WatchdogTypeOK /\ Paired
  BY DEF Inv
<1>2. \E label \in {"poll", "spawn", "spin"} :
        Goto(p, label) /\ (label = "spawn" => \A q \in Pids : Live(q) => q = p)
  <2>1. CASE Poll(p)
    BY <1>1, <2>1, Alone DEF Poll, Signalled
  <2>2. CASE SpawnFails(p)
    <3>1. \A q \in Pids : Live(q) => q = p
      BY <1>1, <2>2 DEF Paired, SpawnFails
    <3> QED BY <2>2, <3>1 DEF SpawnFails
  <2>3. CASE Wait(p)
    BY <2>3 DEF Wait
  <2>4. CASE WaiterWaits(p)
    BY <1>1, <2>4, Alone DEF WaiterWaits, ChildEnded
  <2> QED BY <2>1, <2>2, <2>3, <2>4
<1>3. PICK label \in {"poll", "spawn", "spin"} :
        Goto(p, label) /\ (label = "spawn" => \A q \in Pids : Live(q) => q = p)
  BY <1>2
<1>4. /\ proc' \in Seq(Process) /\ Len(proc') = Len(proc) /\ Pids' = Pids
      /\ \A q \in Pids : proc'[q].pc = "wait" => proc'[q].watches \in Pids
  BY <1>1, <1>3, GotoTyped
<1>5. reused' = reused /\ failures' \in 0 .. MaxFailures
  BY <1>1, BoundsAssumption DEF WatchdogTypeOK, Poll, SpawnFails, Wait, WaiterWaits
<1>6. WatchdogTypeOK'
  BY <1>1, <1>4, <1>5 DEF WatchdogTypeOK, Process
<1>7. Paired'
  BY <1>3, GotoPaired
<1> QED BY <1>6, <1>7 DEF Inv

\* The child is paired with the one that starts it, which was alone.
LEMMA SpawnStep ==
  ASSUME Inv, NEW p \in Pids, Spawn(p)
  PROVE  Inv'
<1> DEFINE n == Len(proc) + 1
           child == New(Other(proc[p].role), p)
           parent == [proc[p] EXCEPT !.pc = "wait", !.watches = n]
           rest == [proc EXCEPT ![p] = parent]
<1>1. WatchdogTypeOK /\ Paired /\ proc \in Seq(Process) /\ Pids = 1 .. Len(proc) /\ Len(proc) \in Nat
  BY DEF Inv, WatchdogTypeOK, Process, Pids
<1>2. Live(p) /\ proc[p].pc = "spawn" /\ Len(proc) < MaxPids
  BY DEF Spawn
<1>3. \A q \in Pids : Live(q) => q = p
  BY <1>1, <1>2 DEF Paired
<1>4. proc[p] \in Process /\ proc[p].ended = "no"
  BY <1>1, <1>2, ElementOfSeq DEF Live
<1>5. n \in 0 .. MaxPids /\ p \in 0 .. MaxPids /\ p # None /\ n # p
  BY <1>1, <1>2, BoundsAssumption DEF None
<1>6. Other(proc[p].role) \in {"agent", "daemon"} /\ Other(proc[p].role) # proc[p].role
  BY <1>4 DEF Other, Process
<1>7. /\ child \in Process /\ child.role # proc[p].role /\ child.watches = p
      /\ child.pc = "poll" /\ child.ended = "no"
  BY <1>5, <1>6, NewIsProcess
<1>8. /\ parent \in Process /\ parent.role = proc[p].role /\ parent.watches = n
      /\ parent.pc = "wait" /\ parent.ended = "no"
  BY <1>4, <1>5 DEF Process
<1>9. rest \in Seq(Process) /\ Len(rest) = Len(proc)
      /\ \A q \in 1 .. Len(proc) : rest[q] = IF q = p THEN parent ELSE proc[q]
  <2> HIDE DEF parent
  <2> QED BY <1>1, <1>8, ExceptSeq
<1>10. proc' = Append(rest, child)
  BY DEF Spawn
<1>11. /\ proc' \in Seq(Process) /\ Len(proc') = n /\ proc'[n] = child /\ proc'[p] = parent
       /\ \A q \in Pids : q # p => proc'[q] = proc[q]
  <2> HIDE DEF rest, child, parent
  <2> QED BY <1>1, <1>7, <1>9, <1>10, AppendProperties
<1>12. Pids' = Pids \cup {n} /\ n \notin Pids
  BY <1>1, <1>11 DEF Pids
<1> HIDE DEF rest, child, parent
<1>13. WatchdogTypeOK'
  <2>1. \A q \in Pids' : proc'[q].pc = "wait" => proc'[q].watches \in Pids'
    BY <1>1, <1>7, <1>8, <1>11, <1>12 DEF WatchdogTypeOK
  <2>2. Len(proc') \in 1 .. MaxPids
    BY <1>1, <1>2, <1>11, BoundsAssumption
  <2>3. reused' \subseteq Pids' /\ failures' \in 0 .. MaxFailures
    BY <1>1, <1>12 DEF WatchdogTypeOK, Spawn
  <2> QED BY <1>11, <2>1, <2>2, <2>3 DEF WatchdogTypeOK, Process
<1>14. Paired'
  <2>1. \A q \in Pids' : Live(q)' => q = p \/ q = n
    BY <1>3, <1>11, <1>12 DEF Live
  <2> QED BY <2>1, <1>7, <1>8, <1>11 DEF Paired
<1> QED BY <1>13, <1>14 DEF Inv

\* Processes that end, and pids that others take.
LEMMA SystemStep ==
  ASSUME Inv, NEW p \in Pids,
         End(p, "exit") \/ End(p, "signal") \/ Reuse(p) \/ Release(p)
  PROVE  Inv'
<1>1. WatchdogTypeOK /\ Paired /\ proc \in Seq(Process) /\ Pids = 1 .. Len(proc)
  BY DEF Inv, WatchdogTypeOK, Process, Pids
<1>2. ASSUME NEW how \in {"exit", "signal"}, End(p, how)
      PROVE  Inv'
  <2>1. proc[p] \in Process
    BY <1>1, ElementOfSeq
  <2> DEFINE ended == [proc[p] EXCEPT !.ended = how]
  <2>2. /\ ended \in Process /\ ended.ended # "no" /\ ended.pc = proc[p].pc
        /\ ended.watches = proc[p].watches
    BY <2>1 DEF Process
  <2>3. proc' = [proc EXCEPT ![p] = ended]
    BY <1>1, <1>2 DEF End
  <2> HIDE DEF ended
  <2>4. /\ proc' \in Seq(Process) /\ Len(proc') = Len(proc)
        /\ \A q \in Pids : proc'[q] = IF q = p THEN ended ELSE proc[q]
    BY <1>1, <2>2, <2>3, ExceptSeq
  <2>5. Pids' = Pids
    BY <2>4 DEF Pids
  <2>6. WatchdogTypeOK'
    <3>1. \A q \in Pids' : proc'[q].pc = "wait" => proc'[q].watches \in Pids'
      BY <1>1, <2>2, <2>4, <2>5 DEF WatchdogTypeOK
    <3> QED BY <1>1, <1>2, <2>4, <2>5, <3>1 DEF WatchdogTypeOK, Process, End
  <2>7. Paired'
    BY <1>1, <2>2, <2>4, <2>5 DEF Paired, Live
  <2> QED BY <2>6, <2>7 DEF Inv
<1>3. CASE Reuse(p) \/ Release(p)
  <2>1. proc' = proc /\ reused' \subseteq Pids /\ failures' \in 0 .. MaxFailures
    BY <1>1, <1>3, BoundsAssumption DEF WatchdogTypeOK, Reuse, Release
  <2>2. Pids' = Pids
    BY <2>1 DEF Pids
  <2> QED BY <1>1, <2>1, <2>2 DEF Inv, WatchdogTypeOK, Paired, Live
<1> QED BY <1>2, <1>3

\* Every step keeps the invariant.
LEMMA NextInv == Inv /\ [WatchdogNext]_watchdogVars => Inv'
<1> SUFFICES ASSUME Inv, [WatchdogNext]_watchdogVars PROVE Inv'
  OBVIOUS
<1>1. CASE WatchdogNext
  <2>1. PICK p \in Pids : \/ Step(p) \/ End(p, "exit") \/ End(p, "signal")
                          \/ Reuse(p) \/ Release(p)
    BY <1>1 DEF WatchdogNext
  <2> QED BY <2>1, LabelStep, SpawnStep, SystemStep DEF Step
<1>2. CASE UNCHANGED watchdogVars
  BY <1>2 DEF watchdogVars, Inv, WatchdogTypeOK, Paired, Live, Pids
<1> QED BY <1>1, <1>2

LEMMA AlwaysInv == WatchdogSpec => []Inv
BY InitInv, NextInv, PTL DEF WatchdogSpec

\* The processes keep their types.
THEOREM WatchdogTyped == WatchdogSpec => []WatchdogTypeOK
<1>1. Inv => WatchdogTypeOK
  BY DEF Inv
<1> QED BY <1>1, AlwaysInv, PTL

\* There are never two agents that execute tasks, and never two daemons that
\* restart them, however many processes end and are started.
THEOREM OneOfEachAlways == WatchdogSpec => []OneOfEach
<1>1. Inv => OneOfEach
  BY DEF Inv, Paired, OneOfEach
<1> QED BY <1>1, AlwaysInv, PTL
=============================================================================
