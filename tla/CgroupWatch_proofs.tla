------------------------- MODULE CgroupWatch_proofs -------------------------
(***************************************************************************)
(* Theorems about the watches of the raw handler, for every set of mount   *)
(* points, every tree of names and every number of changes.                *)
(***************************************************************************)
EXTENDS CgroupWatch, SequenceTheorems, TLAPS

USE DEF Note

-----------------------------------------------------------------------------
(* The parts of the inductive invariant.                                   *)

\* The directories are trees.
Tree ==
  /\ \A d \in Dirs : d[2] = Root => Exists(d)
  /\ \A d \in NonRoot : Exists(d) => Exists(InDir(d))

\* A call of watchDirectory has been made by the one below it, for a directory
\* in its own, and the outermost call is for the event or for a root.
Calls ==
  /\ pc = "start" => event = Start
  /\ starting # {} => event = Start /\ pc # "idle"
  /\ \A i \in DOMAIN stack : stack[i].todo \subseteq { d \in NonRoot : InDir(d) = stack[i].dir }
  /\ \A i \in DOMAIN stack :
       IF i < Len(stack) THEN stack[i].dir[2] # Root /\ InDir(stack[i].dir) = stack[i + 1].dir
       ELSE IF event = Start THEN stack[i].dir[2] = Root ELSE stack[i].dir = event.dir

\* A call that is past AddWatch has its watch, if it is not of a lost container.
CallsWatch ==
  \A i \in DOMAIN stack :
    i > 1 \/ pc # "add" => bound[stack[i].dir] # NoInode \/ stack[i].dir[2] \in lost

\* The deletion of the directory above is in the queue before the creation of d.
Reborn(d) ==
  \E i, j \in DOMAIN queue :
    /\ i < j /\ queue[i] = [kind |-> "delete", dir |-> InDir(d)]
    /\ queue[j] = [kind |-> "create", dir |-> d]

\* What is in the queue: a directory exists again, or a deletion is followed by a
\* creation in what was deleted, only for the lost; a creation is of a directory
\* in a watched one.
Queued ==
  \A d \in NonRoot :
    /\ Pending("delete", d) /\ Exists(d) => d[2] \in lost
    /\ Reborn(d) => Lost(d[2])
    /\ Pending("create", d) => bound[InDir(d)] # NoInode \/ Lost(d[2])

\* That also holds of the creation that is worked on.
Working ==
  \A d \in NonRoot :
    pc = "add" /\ Len(stack) = 1 /\ event # Start /\ event.dir = d
      => bound[InDir(d)] # NoInode \/ Lost(d[2])

\* A watch is of the directory that exists, or of one whose deletion is still to
\* be worked off, and so is the watch of the directory above.
Watches ==
  /\ \A d \in Dirs : bound[d] # NoInode /\ bound[d] # inode[d]
       => Lost(d[2]) \/ (d[2] # Root /\ ~ Exists(d) /\ Pending("delete", d))
  /\ \A d \in NonRoot : Exists(d) /\ bound[d] # NoInode
       => Lost(d[2]) \/ bound[InDir(d)] = inode[InDir(d)]

\* A call is going to add the watch of d.
ToBeAdded(d) ==
  \/ pc = "add" /\ Top.dir = d
  \/ pc = "read" /\ d[2] # Root /\ Top.dir = InDir(d)
  \/ \E i \in DOMAIN stack : d \in stack[i].todo

\* A directory that has no watch will have one.
Missing ==
  /\ \A d \in NonRoot : Exists(d) /\ bound[d] = NoInode
       => \/ Lost(d[2]) \/ bound[InDir(d)] = NoInode
          \/ ToBeAdded(d) \/ Pending("create", d)
  /\ \A h \in Hierarchies : bound[<<h, Root>>] = NoInode
       => Root \in lost \/ h \in starting \/ (pc = "add" /\ Top.dir = <<h, Root>>)

\* A container whose creation was told last is recorded, and the outermost call
\* tells of it only if it was not.
Telling ==
  /\ \A n \in Names : told[n] = "add" => containersWatched[n] # {} \/ n \in lost
  /\ stack # << >> /\ event # Start /\ (Len(stack) > 1 \/ pc # "add")
       => \/ stack[Len(stack)].already
          \/ told[event.dir[2]] # "add" \/ event.dir[2] \in lost

Inv == /\ TypeOK /\ Tree /\ Calls /\ CallsWatch /\ Queued /\ Working
       /\ Watches /\ Missing /\ Telling /\ CreationIsToldOnce

-----------------------------------------------------------------------------
(* Names and directories.                                                  *)

LEMMA Above ==
  \A d \in NonRoot :
    d \in Dirs /\ d[2] \in Names \ {Root} /\ InDir(d) \in Dirs /\ InDir(d)[2] = Parent[d[2]]
BY NameAssumption DEF NonRoot, Dirs, InDir

\* What lies in something lost is lost.
LEMMA LostBelow ==
  /\ \A n \in lost : Lost(n)
  /\ \A d \in NonRoot : Lost(InDir(d)[2]) => Lost(d[2])
<1>1. \A n \in lost : Lost(n)
  BY DEF Lost
<1>2. ASSUME NEW d \in NonRoot, Lost(InDir(d)[2]) PROVE Lost(d[2])
  BY <1>2, Above DEF Lost, Downward
<1> QED BY <1>1, <1>2

\* What is lost stays so.
LEMMA LostGrows ==
  ASSUME lost \subseteq lost'
  PROVE  /\ \A n \in Names : Lost(n) => Lost(n)'
         /\ \A n \in lost' : Lost(n)'
         /\ \A d \in NonRoot : Lost(InDir(d)[2])' => Lost(d[2])'
<1>1. \A n \in Names : Lost(n) => Lost(n)'
  BY DEF Lost
<1>2. \A n \in lost' : Lost(n)'
  BY DEF Lost
<1>3. ASSUME NEW d \in NonRoot, Lost(InDir(d)[2])' PROVE Lost(d[2])'
  BY <1>3, Above DEF Lost, Downward
<1> QED BY <1>1, <1>2, <1>3

-----------------------------------------------------------------------------
(* The queue.                                                              *)

LEMMA QueueAppend ==
  ASSUME queue \in Seq(Changed), NEW k \in {"create", "delete"}, NEW e \in NonRoot,
         queue' = Append(queue, [kind |-> k, dir |-> e])
  PROVE  /\ queue' \in Seq(Changed)
         /\ \A d \in NonRoot :
              /\ Pending("create", d)' <=> Pending("create", d) \/ (k = "create" /\ e = d)
              /\ Pending("delete", d)' <=> Pending("delete", d) \/ (k = "delete" /\ e = d)
              /\ Reborn(d)' => \/ Reborn(d)
                               \/ k = "create" /\ e = d /\ Pending("delete", InDir(d))
<1> DEFINE c == [kind |-> k, dir |-> e]
<1>1. c \in Changed
  BY DEF Changed, NonRoot
<1>2. /\ queue' \in Seq(Changed) /\ Len(queue') = Len(queue) + 1 /\ Len(queue) \in Nat
      /\ DOMAIN queue = 1 .. Len(queue) /\ DOMAIN queue' = 1 .. Len(queue) + 1
      /\ \A i \in 1 .. Len(queue) : queue'[i] = queue[i]
      /\ queue'[Len(queue) + 1] = c
  BY <1>1, AppendProperties
<1>3. ASSUME NEW kind \in {"create", "delete"}, NEW d \in NonRoot
      PROVE  Pending(kind, d)' <=> Pending(kind, d) \/ (k = kind /\ e = d)
  BY <1>2 DEF Pending
<1>4. ASSUME NEW d \in NonRoot, Reborn(d)'
      PROVE  Reborn(d) \/ (k = "create" /\ e = d /\ Pending("delete", InDir(d)))
  <2>1. PICK i, j \in 1 .. Len(queue) + 1 :
          /\ i < j /\ queue'[i] = [kind |-> "delete", dir |-> InDir(d)]
          /\ queue'[j] = [kind |-> "create", dir |-> d]
    BY <1>2, <1>4 DEF Reborn
  <2>2. i \in 1 .. Len(queue)
    BY <1>2, <2>1
  <2>3. CASE j \in 1 .. Len(queue)
    BY <1>2, <2>1, <2>2, <2>3 DEF Reborn
  <2>4. CASE j = Len(queue) + 1
    BY <1>2, <2>1, <2>2, <2>4 DEF Pending
  <2> QED BY <1>2, <2>1, <2>3, <2>4
<1> QED BY <1>2, <1>3, <1>4

LEMMA QueueTail ==
  ASSUME queue \in Seq(Changed), queue # << >>, queue' = Tail(queue)
  PROVE  /\ queue' \in Seq(Changed) /\ Head(queue) \in Changed
         /\ \A d \in NonRoot :
              /\ Pending("create", d)' => Pending("create", d)
              /\ Pending("create", d) =>
                   Pending("create", d)' \/ Head(queue) = [kind |-> "create", dir |-> d]
              /\ Pending("delete", d)' => Pending("delete", d)
              /\ Pending("delete", d) =>
                   Pending("delete", d)' \/ Head(queue) = [kind |-> "delete", dir |-> d]
              /\ Reborn(d)' => Reborn(d)
              /\ Pending("create", d)' /\ Head(queue) = [kind |-> "delete", dir |-> InDir(d)]
                   => Reborn(d)
         /\ \A d \in NonRoot : Head(queue) = [kind |-> "create", dir |-> d] => Pending("create", d)
         /\ \A d \in NonRoot : Head(queue) = [kind |-> "delete", dir |-> d] => Pending("delete", d)
<1>1. /\ queue' \in Seq(Changed) /\ Len(queue') = Len(queue) - 1 /\ Len(queue) \in Nat \ {0}
      /\ DOMAIN queue = 1 .. Len(queue) /\ DOMAIN queue' = 1 .. Len(queue) - 1
      /\ \A i \in 1 .. Len(queue) - 1 : queue'[i] = queue[i + 1]
      /\ Head(queue) = queue[1] /\ Head(queue) \in Changed
  BY HeadTailProperties, EmptySeq
<1>2. ASSUME NEW kind \in {"create", "delete"}, NEW d \in NonRoot
      PROVE  /\ Pending(kind, d)' => Pending(kind, d)
             /\ Pending(kind, d) => Pending(kind, d)' \/ Head(queue) = [kind |-> kind, dir |-> d]
             /\ Head(queue) = [kind |-> kind, dir |-> d] => Pending(kind, d)
  <2>1. ASSUME NEW i \in 1 .. Len(queue), queue[i] = [kind |-> kind, dir |-> d], i # 1
        PROVE  Pending(kind, d)'
    <3>1. i - 1 \in 1 .. Len(queue) - 1 /\ queue'[i - 1] = queue[i]
      BY <1>1, <2>1
    <3> QED BY <1>1, <2>1, <3>1 DEF Pending
  <2>2. ASSUME NEW i \in 1 .. Len(queue) - 1, queue'[i] = [kind |-> kind, dir |-> d]
        PROVE  Pending(kind, d)
    <3>1. i + 1 \in 1 .. Len(queue) /\ queue[i + 1] = queue'[i]
      BY <1>1
    <3> QED BY <1>1, <2>2, <3>1 DEF Pending
  <2>3. Pending(kind, d)' => Pending(kind, d)
    BY <1>1, <2>2 DEF Pending
  <2>4. Pending(kind, d) => Pending(kind, d)' \/ Head(queue) = [kind |-> kind, dir |-> d]
    BY <1>1, <2>1 DEF Pending
  <2>5. Head(queue) = [kind |-> kind, dir |-> d] => Pending(kind, d)
    <3>1. 1 \in DOMAIN queue
      BY <1>1
    <3> QED BY <1>1, <3>1 DEF Pending
  <2> QED BY <2>3, <2>4, <2>5
<1>3. ASSUME NEW d \in NonRoot, Reborn(d)' PROVE Reborn(d)
  <2>1. PICK i, j \in 1 .. Len(queue) - 1 :
          /\ i < j /\ queue'[i] = [kind |-> "delete", dir |-> InDir(d)]
          /\ queue'[j] = [kind |-> "create", dir |-> d]
    BY <1>1, <1>3 DEF Reborn
  <2>2. /\ i + 1 \in DOMAIN queue /\ j + 1 \in DOMAIN queue /\ i + 1 < j + 1
        /\ queue[i + 1] = queue'[i] /\ queue[j + 1] = queue'[j]
    BY <1>1, <2>1
  <2> QED BY <2>1, <2>2 DEF Reborn
<1>4. ASSUME NEW d \in NonRoot, Pending("create", d)',
             Head(queue) = [kind |-> "delete", dir |-> InDir(d)]
      PROVE  Reborn(d)
  <2>1. PICK j \in 1 .. Len(queue) - 1 : queue'[j] = [kind |-> "create", dir |-> d]
    BY <1>1, <1>4 DEF Pending
  <2>2. j + 1 \in DOMAIN queue /\ 1 \in DOMAIN queue /\ 1 < j + 1 /\ queue[j + 1] = queue'[j]
    BY <1>1
  <2> QED BY <1>1, <1>4, <2>1, <2>2 DEF Reborn
<1> QED BY <1>1, <1>2, <1>3, <1>4
LEMMA QueueConcat ==
  ASSUME queue \in Seq(Changed), NEW t \in Seq(Changed), NEW D,
         \A i \in DOMAIN t : t[i].dir \in D, queue' = queue \o t
  PROVE  /\ queue' \in Seq(Changed)
         /\ \A d \in NonRoot \ D :
              /\ Pending("create", d)' <=> Pending("create", d)
              /\ Pending("delete", d)' <=> Pending("delete", d)
              /\ Reborn(d)' => Reborn(d)
<1>1. /\ queue' \in Seq(Changed) /\ Len(queue) \in Nat /\ Len(t) \in Nat
      /\ DOMAIN queue = 1 .. Len(queue) /\ DOMAIN t = 1 .. Len(t)
      /\ DOMAIN queue' = 1 .. Len(queue) + Len(t)
      /\ \A i \in 1 .. Len(queue) : queue'[i] = queue[i]
      /\ \A i \in Len(queue) + 1 .. Len(queue) + Len(t) : queue'[i] = t[i - Len(queue)]
  BY ConcatProperties, LenProperties
<1>2. ASSUME NEW d \in NonRoot \ D, NEW kind, NEW i \in DOMAIN queue', queue'[i] = Note(kind, d)
      PROVE  i \in DOMAIN queue
  <2>1. CASE i \in Len(queue) + 1 .. Len(queue) + Len(t)
    <3>1. i - Len(queue) \in DOMAIN t
      BY <1>1, <2>1
    <3>2. t[i - Len(queue)].dir \in D
      BY <3>1
    <3> QED BY <1>1, <1>2, <2>1, <3>2
  <2> QED BY <1>1, <2>1
<1>3. ASSUME NEW d \in NonRoot \ D, NEW kind PROVE Pending(kind, d)' <=> Pending(kind, d)
  BY <1>1, <1>2 DEF Pending
<1>4. ASSUME NEW d \in NonRoot \ D, Reborn(d)' PROVE Reborn(d)
  <2>1. PICK i, j \in DOMAIN queue' :
          /\ i < j /\ queue'[i] = [kind |-> "delete", dir |-> InDir(d)]
          /\ queue'[j] = [kind |-> "create", dir |-> d]
    BY <1>4 DEF Reborn
  <2>2. j \in DOMAIN queue
    BY <1>2, <2>1
  <2>3. i \in DOMAIN queue
    BY <1>1, <2>1, <2>2
  <2> QED BY <1>1, <2>1, <2>2, <2>3 DEF Reborn
<1> QED BY <1>1, <1>3, <1>4

-----------------------------------------------------------------------------
(* The kernel.                                                             *)

\* What a change tells of: the directory above is watched; if it does not tell, that
\* one is not, or the change is lost.
LEMMA ChangeTells ==
  ASSUME TypeOK, NEW k \in {"create", "delete"}, NEW e \in NonRoot, NEW names, Tell(e, k, names)
  PROVE  /\ queue' \in Seq(Changed)
         /\ lost' \in {lost \cup names, lost \cup names \cup {e[2]}}
         /\ \E tells \in BOOLEAN :
              /\ IF tells THEN bound[InDir(e)] = inode[InDir(e)]
                 ELSE bound[InDir(e)] # inode[InDir(e)] \/ e[2] \in lost'
              /\ \A d \in NonRoot :
                   /\ Pending("create", d)' <=>
                        Pending("create", d) \/ (tells /\ k = "create" /\ e = d)
                   /\ Pending("delete", d)' <=>
                        Pending("delete", d) \/ (tells /\ k = "delete" /\ e = d)
                   /\ Reborn(d)' => \/ Reborn(d)
                                    \/ tells /\ k = "create" /\ e = d /\ Pending("delete", InDir(d))
<1>1. queue \in Seq(Changed)
  BY DEF TypeOK
<1>2. CASE bound[InDir(e)] = inode[InDir(e)] /\ queue' = Append(queue, Note(k, e))
  <2>1. lost' \in {lost \cup names, lost \cup names \cup {e[2]}}
    BY DEF Tell
  <2>2. /\ queue' \in Seq(Changed)
        /\ \A d \in NonRoot :
             /\ Pending("create", d)' <=> Pending("create", d) \/ (k = "create" /\ e = d)
             /\ Pending("delete", d)' <=> Pending("delete", d) \/ (k = "delete" /\ e = d)
             /\ Reborn(d)' => \/ Reborn(d)
                              \/ k = "create" /\ e = d /\ Pending("delete", InDir(d))
    BY <1>1, <1>2, QueueAppend
  <2> DEFINE tells == TRUE
  <2>3. tells \in BOOLEAN /\ (tells <=> TRUE)
    OBVIOUS
  <2> HIDE DEF tells
  <2> QED BY <1>2, <2>1, <2>2, <2>3
<1>3. CASE queue' = queue /\ (bound[InDir(e)] # inode[InDir(e)] \/ e[2] \in lost')
  <2>1. lost' \in {lost \cup names, lost \cup names \cup {e[2]}}
    BY DEF Tell
  <2>2. \A d \in NonRoot : /\ Pending("create", d)' <=> Pending("create", d)
                           /\ Pending("delete", d)' <=> Pending("delete", d)
                           /\ Reborn(d)' <=> Reborn(d)
    BY <1>3 DEF Pending, Reborn
  <2>3. queue' \in Seq(Changed)
    BY <1>1, <1>3
  <2> DEFINE tells == FALSE
  <2>4. tells \in BOOLEAN /\ (tells <=> FALSE)
    OBVIOUS
  <2> HIDE DEF tells
  <2> QED BY <1>3, <2>1, <2>2, <2>3, <2>4
<1> QED BY <1>2, <1>3 DEF Tell, Current

LEMMA MakeDirInv ==
  ASSUME Inv, NEW e \in NonRoot, MakeDir(e)
  PROVE  Inv'
<1>1. /\ ~ Exists(e) /\ Exists(InDir(e)) /\ changes' = changes + 1 /\ changes + 1 \in 1 .. MaxChanges
      /\ inode' = [inode EXCEPT ![e] = changes + 2]
      /\ UNCHANGED <<watchVars, callVars, told, twice, dropped>>
      /\ lost \subseteq lost' /\ lost' \subseteq lost \cup {e[2]}
      /\ Pending("delete", e) => e[2] \in lost'
  BY ChangesAssumption DEF MakeDir, Change, Tell, Inv, TypeOK
<1>2. e \in Dirs /\ InDir(e) \in Dirs /\ e[2] \in Names \ {Root}
  BY Above
<1>3. /\ inode \in [Dirs -> 0 .. MaxChanges + 1] /\ bound \in [Dirs -> 0 .. MaxChanges + 1]
      /\ lost \subseteq Names
      /\ changes + 2 \in 1 .. MaxChanges + 1
  BY <1>1, ChangesAssumption DEF Inv, TypeOK
<1>4. lost \subseteq lost'
  BY <1>1
<1>5. /\ \A n \in Names : Lost(n) => Lost(n)'
      /\ \A n \in lost' : Lost(n)'
      /\ \A n \in lost : Lost(n)
      /\ \A d \in NonRoot : Lost(InDir(d)[2]) => Lost(d[2])
  BY <1>4, LostGrows, LostBelow
<1>q. queue' \in Seq(Changed)
  BY ChangeTells DEF MakeDir, Inv
<1>6. PICK tells \in BOOLEAN :
        /\ IF tells THEN bound[InDir(e)] = inode[InDir(e)]
           ELSE bound[InDir(e)] # inode[InDir(e)] \/ e[2] \in lost'
        /\ \A d \in NonRoot :
             /\ Pending("create", d)' <=> Pending("create", d) \/ (tells /\ e = d)
             /\ Pending("delete", d)' <=> Pending("delete", d)
             /\ Reborn(d)' => \/ Reborn(d)
                              \/ tells /\ e = d /\ Pending("delete", InDir(d))
  BY ChangeTells DEF MakeDir, Inv
<1>7. /\ \A d \in Dirs : d # e => inode'[d] = inode[d] /\ (Exists(d)' <=> Exists(d))
      /\ inode'[e] = changes + 2 /\ Exists(e)' /\ inode[e] = NoInode
  BY <1>1, <1>2, <1>3 DEF Exists, NoInode
<1>8. TypeOK'
  <2>1. inode' \in [Dirs -> 0 .. MaxChanges + 1]
    <3>1. changes + 2 \in 0 .. MaxChanges + 1
      BY <1>3
    <3> QED BY <1>1, <1>3, <3>1
  <2>2. changes' \in 0 .. MaxChanges /\ lost' \subseteq Names
    BY <1>1, <1>2, <1>3, ChangesAssumption
  <2> QED BY <1>1, <1>q, <2>1, <2>2 DEF Inv, TypeOK, watchVars, callVars
<1>9. Tree'
  BY <1>1, <1>2, <1>7, Above DEF Inv, Tree, NonRoot
<1>10. Calls' /\ CallsWatch' /\ Telling' /\ CreationIsToldOnce'
  <2>1. Calls'
    BY <1>1 DEF Inv, Calls, callVars
  <2>2. CallsWatch'
    BY <1>1, <1>4 DEF Inv, CallsWatch, callVars, watchVars
  <2>3. Telling'
    BY <1>1, <1>4 DEF Inv, Telling, callVars, watchVars
  <2>4. CreationIsToldOnce'
    BY <1>1, <1>4 DEF Inv, CreationIsToldOnce
  <2> QED BY <2>1, <2>2, <2>3, <2>4
<1>11. Queued'
  <2> SUFFICES ASSUME NEW d \in NonRoot
               PROVE  /\ Pending("delete", d)' /\ Exists(d)' => d[2] \in lost'
                      /\ Reborn(d)' => Lost(d[2])'
                      /\ Pending("create", d)' => bound'[InDir(d)] # NoInode \/ Lost(d[2])'
    BY DEF Queued
  <2>1. Pending("delete", d)' /\ Exists(d)' => d[2] \in lost'
    BY <1>1, <1>4, <1>6, <1>7, Above DEF Inv, Queued
  <2>2. Reborn(d)' => Lost(d[2])'
    <3>1. e = d /\ Pending("delete", InDir(d)) => Lost(d[2])
      <4>1. \A c : Pending("delete", c) => c \in NonRoot
        BY <1>3 DEF Inv, TypeOK, Pending, Changed, NonRoot
      <4> QED BY <1>1, <1>5, <4>1 DEF Inv, Queued
    <3> QED BY <1>5, <1>6, <3>1, Above DEF Inv, Queued
  <2>3. Pending("create", d)' => bound'[InDir(d)] # NoInode \/ Lost(d[2])'
    BY <1>1, <1>5, <1>6, Above DEF Inv, Queued, watchVars, Exists
  <2> QED BY <2>1, <2>2, <2>3
<1>12. Working'
  BY <1>1, <1>5, Above DEF Inv, Working, callVars, watchVars
<1>13. Watches'
  <2>1. ASSUME NEW d \in Dirs, bound'[d] # NoInode, bound'[d] # inode'[d]
        PROVE  Lost(d[2])' \/ (d[2] # Root /\ ~ Exists(d)' /\ Pending("delete", d)')
    <3>1. d[2] \in Names /\ (d[2] # Root => d \in NonRoot)
      BY DEF Dirs, NonRoot
    <3>2. bound[d] # NoInode
      BY <1>1, <2>1 DEF watchVars
    <3>3. CASE d = e
      <4>1. Lost(e[2]) \/ Pending("delete", e)
        BY <1>3, <1>7, <3>2, <3>3 DEF Inv, Watches, NoInode
      <4> QED BY <1>1, <1>5, <3>1, <3>3, <4>1
    <3>4. CASE d # e
      BY <1>1, <1>5, <1>6, <1>7, <2>1, <3>1, <3>2, <3>4 DEF Inv, Watches, watchVars
    <3> QED BY <3>3, <3>4
  <2>2. ASSUME NEW d \in NonRoot, Exists(d)', bound'[d] # NoInode
        PROVE  Lost(d[2])' \/ bound'[InDir(d)] = inode'[InDir(d)]
    <3>1. d \in Dirs /\ InDir(d) \in Dirs /\ d[2] \in Names
      BY Above
    <3>2. CASE d = e
      <4>1. Lost(e[2]) \/ Pending("delete", e)
        BY <1>1, <1>2, <1>7, <2>2, <3>2 DEF Inv, Watches, NoInode, watchVars
      <4> QED BY <1>1, <1>5, <3>1, <3>2, <4>1
    <3>3. CASE d # e
      <4>1. Exists(d) /\ InDir(d) # e
        BY <1>1, <1>7, <2>2, <3>1, <3>3 DEF Inv, Tree
      <4> QED BY <1>1, <1>5, <1>7, <2>2, <3>1, <3>3, <4>1 DEF Inv, Watches, watchVars
    <3> QED BY <3>2, <3>3
  <2> QED BY <2>1, <2>2 DEF Watches
<1>14. Missing'
  <2>1. \A d \in Dirs : ToBeAdded(d) => ToBeAdded(d)'
    BY <1>1 DEF ToBeAdded, callVars, Top
  <2>2. ASSUME NEW d \in NonRoot, Exists(d)', bound'[d] = NoInode
        PROVE  \/ Lost(d[2])' \/ bound'[InDir(d)] = NoInode
               \/ ToBeAdded(d)' \/ Pending("create", d)'
    <3>1. d \in Dirs /\ InDir(d) \in Dirs /\ d[2] \in Names
      BY Above
    <3>2. CASE d = e
      <4>1. bound[InDir(e)] = NoInode \/ bound[InDir(e)] = inode[InDir(e)] \/ Lost(InDir(e)[2])
        BY <1>1, <1>2 DEF Inv, Watches
      <4> QED BY <1>1, <1>5, <1>6, <3>1, <3>2, <4>1 DEF watchVars
    <3>3. CASE d # e
      <4>1. Exists(d)
        BY <1>7, <2>2, <3>1, <3>3
      <4> QED BY <1>1, <1>5, <1>6, <2>1, <2>2, <3>1, <4>1 DEF Inv, Missing, watchVars
    <3> QED BY <3>2, <3>3
  <2>3. ASSUME NEW h \in Hierarchies, bound'[<<h, Root>>] = NoInode
        PROVE  Root \in lost' \/ h \in starting' \/ (pc = "add" /\ Top.dir = <<h, Root>>)'
    BY <1>1, <1>4, <2>3 DEF Inv, Missing, watchVars, callVars, Top
  <2> QED BY <2>2, <2>3 DEF Missing
<1> QED BY <1>8, <1>9, <1>10, <1>11, <1>12, <1>13, <1>14 DEF Inv

LEMMA RemoveDirInv ==
  ASSUME Inv, NEW e \in NonRoot, RemoveDir(e)
  PROVE  Inv'
<1>1. /\ Exists(e) /\ Children(e) = {} /\ changes' = changes + 1 /\ changes + 1 \in 1 .. MaxChanges
      /\ inode' = [inode EXCEPT ![e] = NoInode]
      /\ UNCHANGED <<watchVars, callVars, told, twice>>
      /\ lost \subseteq lost' /\ lost' \subseteq lost \cup {e[2]}
      /\ dropped' \in {dropped, dropped \cup {e}}
  BY ChangesAssumption DEF RemoveDir, Change, Tell, Inv, TypeOK
<1>2. e \in Dirs /\ InDir(e) \in Dirs /\ e[2] \in Names \ {Root}
  BY Above
<1>3. inode \in [Dirs -> 0 .. MaxChanges + 1] /\ NoInode \in 0 .. MaxChanges + 1
  BY <1>1, ChangesAssumption DEF Inv, TypeOK, NoInode
<1>5. /\ \A n \in Names : Lost(n) => Lost(n)'
      /\ \A n \in lost' : Lost(n)'
      /\ \A d \in NonRoot : Lost(InDir(d)[2]) => Lost(d[2])
  BY <1>1, LostGrows, LostBelow
<1>q. queue' \in Seq(Changed)
  BY ChangeTells DEF RemoveDir, Inv
<1>6. PICK tells \in BOOLEAN :
        /\ IF tells THEN bound[InDir(e)] = inode[InDir(e)]
           ELSE bound[InDir(e)] # inode[InDir(e)] \/ e[2] \in lost'
        /\ \A d \in NonRoot :
             /\ Pending("create", d)' <=> Pending("create", d)
             /\ Pending("delete", d)' <=> Pending("delete", d) \/ (tells /\ e = d)
             /\ Reborn(d)' => Reborn(d)
  BY ChangeTells DEF RemoveDir, Inv
<1>7. /\ \A d \in Dirs : d # e => inode'[d] = inode[d] /\ (Exists(d)' <=> Exists(d))
      /\ inode'[e] = NoInode /\ ~ Exists(e)' /\ inode[e] # NoInode
  BY <1>1, <1>2, <1>3 DEF Exists
<1>8. TypeOK'
  <2>1. inode' \in [Dirs -> 0 .. MaxChanges + 1]
    BY <1>1, <1>3
  <2>2. changes' \in 0 .. MaxChanges /\ dropped' \subseteq Dirs /\ lost' \subseteq Names
    BY <1>1, <1>2, ChangesAssumption DEF Inv, TypeOK
  <2> QED BY <1>1, <1>q, <2>1, <2>2 DEF Inv, TypeOK, watchVars, callVars
<1>9. Tree'
  <2>1. ASSUME NEW d \in NonRoot, Exists(d)' PROVE Exists(InDir(d))'
    <3>1. d # e /\ Exists(d) /\ d \in Dirs /\ InDir(d) \in Dirs /\ d[2] # Root
      BY <1>7, <2>1, Above
    <3>2. InDir(d) # e
      BY <1>1, <3>1 DEF Children
    <3> QED BY <1>7, <3>1, <3>2 DEF Inv, Tree
  <2> QED BY <1>2, <1>7, <2>1 DEF Inv, Tree
<1>10. Calls' /\ CallsWatch' /\ Telling' /\ CreationIsToldOnce'
  <2>1. Calls'
    BY <1>1 DEF Inv, Calls, callVars
  <2>2. CallsWatch'
    BY <1>1 DEF Inv, CallsWatch, callVars, watchVars
  <2>3. Telling'
    BY <1>1 DEF Inv, Telling, callVars, watchVars
  <2>4. CreationIsToldOnce'
    BY <1>1 DEF Inv, CreationIsToldOnce
  <2> QED BY <2>1, <2>2, <2>3, <2>4
<1>11. Queued'
  <2>1. ASSUME NEW d \in NonRoot
        PROVE  /\ Pending("delete", d)' /\ Exists(d)' => d[2] \in lost'
               /\ Reborn(d)' => Lost(d[2])'
               /\ Pending("create", d)' => bound'[InDir(d)] # NoInode \/ Lost(d[2])'
    BY <1>1, <1>5, <1>6, <1>7, Above DEF Inv, Queued, watchVars
  <2> QED BY <2>1 DEF Queued
<1>12. Working'
  BY <1>1, <1>5, Above DEF Inv, Working, callVars, watchVars
<1>13. Watches'
  <2>1. ASSUME NEW d \in Dirs, bound'[d] # NoInode, bound'[d] # inode'[d]
        PROVE  Lost(d[2])' \/ (d[2] # Root /\ ~ Exists(d)' /\ Pending("delete", d)')
    <3>1. d[2] \in Names /\ (d[2] # Root => d \in NonRoot)
      BY DEF Dirs, NonRoot
    <3>2. bound[d] # NoInode
      BY <1>1, <2>1 DEF watchVars
    <3>3. CASE d = e
      <4>1. Lost(e[2]) \/ bound[InDir(e)] = inode[InDir(e)]
        BY <1>1, <3>2, <3>3 DEF Inv, Watches
      <4> QED BY <1>2, <1>5, <1>6, <1>7, <3>3, <4>1
    <3>4. CASE d # e
      BY <1>1, <1>5, <1>6, <1>7, <2>1, <3>1, <3>2, <3>4 DEF Inv, Watches, watchVars
    <3> QED BY <3>3, <3>4
  <2>2. ASSUME NEW d \in NonRoot, Exists(d)', bound'[d] # NoInode
        PROVE  Lost(d[2])' \/ bound'[InDir(d)] = inode'[InDir(d)]
    <3>1. d # e /\ Exists(d) /\ d \in Dirs /\ InDir(d) \in Dirs /\ d[2] \in Names \ {Root}
      BY <1>7, <2>2, Above
    <3>2. InDir(d) # e
      BY <1>1, <3>1 DEF Children
    <3> QED BY <1>1, <1>5, <1>7, <2>2, <3>1, <3>2 DEF Inv, Watches, watchVars
  <2> QED BY <2>1, <2>2 DEF Watches
<1>14. Missing'
  <2>1. \A d \in Dirs : ToBeAdded(d) => ToBeAdded(d)'
    BY <1>1 DEF ToBeAdded, callVars, Top
  <2>2. ASSUME NEW d \in NonRoot, Exists(d)', bound'[d] = NoInode
        PROVE  \/ Lost(d[2])' \/ bound'[InDir(d)] = NoInode
               \/ ToBeAdded(d)' \/ Pending("create", d)'
    <3>1. d \in Dirs /\ d # e /\ Exists(d) /\ d[2] \in Names
      BY <1>7, <2>2, Above
    <3> QED BY <1>1, <1>5, <1>6, <2>1, <2>2, <3>1 DEF Inv, Missing, watchVars
  <2>3. ASSUME NEW h \in Hierarchies, bound'[<<h, Root>>] = NoInode
        PROVE  Root \in lost' \/ h \in starting' \/ (pc = "add" /\ Top.dir = <<h, Root>>)'
    BY <1>1, <2>3 DEF Inv, Missing, watchVars, callVars, Top
  <2> QED BY <2>2, <2>3 DEF Missing
<1> QED BY <1>8, <1>9, <1>10, <1>11, <1>12, <1>13, <1>14 DEF Inv

\* n lies below itself, and so does what lies in it.
LEMMA BelowDown ==
  ASSUME NEW n \in Names
  PROVE  /\ n \in Below[n] /\ Below[n] \subseteq Names
         /\ \A m \in Names \ {Root} : Parent[m] \in Below[n] => m \in Below[n]
BY NameAssumption DEF Below, Downward

\* The tree has no cycle: a name does not lie below itself.
LEMMA NotBelowItself ==
  ASSUME NEW n \in Names \ {Root}
  PROVE  Parent[n] \notin Below[n] /\ Root \notin Below[n]
<1> DEFINE S == Names \ Below[n]
<1>1. Root \notin Below[n]
  <2>1. Names \ {Root} \in SUBSET Names /\ Downward(Names \ {Root}) /\ n \in Names \ {Root}
    BY DEF Downward
  <2> QED BY <2>1 DEF Below
<1>2. ASSUME Parent[n] \in Below[n] PROVE FALSE
  <2>1. ASSUME NEW m \in Names \ {Root}, Parent[m] \in S, m \in Below[n] PROVE FALSE
    <3> DEFINE T == Below[n] \ {m}
    <3>1. m # n
      BY <1>2, <2>1
    <3>2. T \in SUBSET Names /\ n \in T /\ Downward(T)
      BY <2>1, <3>1, BelowDown DEF Downward
    <3> HIDE DEF T
    <3>3. m \in T
      BY <2>1, <3>2 DEF Below
    <3> QED BY <3>3 DEF T
  <2>2. S \in SUBSET Names /\ Downward(S) /\ Root \in S
    BY <1>1, <2>1, NameAssumption DEF Downward
  <2> HIDE DEF S
  <2>3. S = Names
    BY <2>2, PathAssumption
  <2> QED BY <2>3, BelowDown DEF S
<1> QED BY <1>1, <1>2

\* What is renamed is lost, by its old name and by its new one.
LEMMA RenameInv ==
  ASSUME Inv, NEW e \in NonRoot, NEW f \in NonRoot, Rename(e, f)
  PROVE  Inv'
<1>1. /\ Exists(e) /\ ~ Exists(f) /\ InDir(f) = InDir(e)
      /\ changes' = changes + 1 /\ changes + 1 \in 1 .. MaxChanges
      /\ UNCHANGED <<watchVars, callVars, told, twice>>
      /\ lost' = lost \cup Below[e[2]] \cup Below[f[2]]
      /\ dropped' \in {dropped, dropped \cup {e}}
  BY ChangesAssumption DEF Rename, Change, Inv, TypeOK
<1>2. /\ e \in Dirs /\ f \in Dirs /\ InDir(e) \in Dirs /\ InDir(f) \in Dirs
      /\ e[2] \in Names \ {Root} /\ f[2] \in Names \ {Root}
  BY Above
<1>3. PICK moved \in SUBSET Under[f] :
        /\ \A x \in moved : x = f \/ InDir(x) \in moved
        /\ inode' = [x \in Dirs |-> IF x = f \/ x \in moved THEN changes + 2
                                  ELSE IF x \in Under[e] \cup Under[f] THEN NoInode
                                  ELSE inode[x]]
  BY DEF Rename
<1>4. lost \subseteq lost' /\ lost' \subseteq Names
  BY <1>1, <1>2, BelowDown DEF Inv, TypeOK
<1>5. /\ \A n \in Names : Lost(n) => Lost(n)'
      /\ \A n \in lost' : Lost(n)'
      /\ \A d \in NonRoot : Lost(InDir(d)[2])' => Lost(d[2])'
  BY <1>4, LostGrows
<1>6. \A x \in Under[e] \cup Under[f] : x \in Dirs /\ x[2] \in lost' /\ Lost(x[2])'
  BY <1>1, <1>2, <1>5 DEF Under
<1>7. \A d \in NonRoot : InDir(d) \in Under[e] \cup Under[f] => d \in Under[e] \cup Under[f]
  <2>1. ASSUME NEW d \in NonRoot, NEW c \in {e, f}, InDir(d) \in Under[c] PROVE d \in Under[c]
    <3>1. d \in Dirs /\ d[2] \in Names \ {Root} /\ InDir(d)[1] = d[1] /\ InDir(d)[2] = Parent[d[2]]
      BY Above DEF InDir
    <3>2. c \in Dirs /\ c[2] \in Names
      BY <1>2
    <3> QED BY <2>1, <3>1, <3>2, BelowDown DEF Under
  <2> QED BY <2>1
<1>8. /\ \A d \in Dirs : d \notin Under[e] \cup Under[f] =>
           inode'[d] = inode[d] /\ (Exists(d)' <=> Exists(d))
      /\ e \in Under[e] /\ f \in Under[f]
      /\ inode' \in [Dirs -> 0 .. MaxChanges + 1]
  <2>1. e \in Under[e] /\ f \in Under[f]
    BY <1>2, BelowDown DEF Under
  <2>2. \A d \in Dirs : d \notin Under[e] \cup Under[f] => inode'[d] = inode[d]
    BY <1>3, <2>1
  <2>3. inode \in [Dirs -> 0 .. MaxChanges + 1] /\ changes + 2 \in 0 .. MaxChanges + 1
        /\ NoInode \in 0 .. MaxChanges + 1
    BY <1>1, ChangesAssumption DEF Inv, TypeOK, NoInode
  <2> QED BY <1>3, <2>1, <2>2, <2>3 DEF Exists
<1>9. /\ queue' \in Seq(Changed)
      /\ \A d \in NonRoot : d \notin Under[e] \cup Under[f] =>
           /\ Pending("create", d)' <=> Pending("create", d)
           /\ Pending("delete", d)' <=> Pending("delete", d)
           /\ Reborn(d)' => Reborn(d)
  <2>1. queue \in Seq(Changed)
    BY DEF Inv, TypeOK
  <2>2. CASE queue' = queue
    BY <2>1, <2>2 DEF Pending, Reborn
  <2>3. ASSUME NEW events \in { << >>, <<Note("delete", e)>>, <<Note("create", f)>>,
                               <<Note("delete", e), Note("create", f)>> },
               queue' = queue \o events
        PROVE  /\ queue' \in Seq(Changed)
               /\ \A d \in NonRoot \ {e, f} :
                    /\ Pending("create", d)' <=> Pending("create", d)
                    /\ Pending("delete", d)' <=> Pending("delete", d)
                    /\ Reborn(d)' => Reborn(d)
    <3>1. Note("delete", e) \in Changed /\ Note("create", f) \in Changed
      BY DEF Changed
    <3>2. /\ events \in Seq(Changed)
          /\ \A i \in DOMAIN events : events[i] \in {Note("delete", e), Note("create", f)}
      <4> HIDE DEF Note
      <4>1. CASE events = << >>
        BY <4>1
      <4>2. CASE events = <<Note("delete", e)>>
        BY <3>1, <4>2
      <4>3. CASE events = <<Note("create", f)>>
        BY <3>1, <4>3
      <4>4. CASE events = <<Note("delete", e), Note("create", f)>>
        BY <3>1, <4>4
      <4> QED BY <2>3, <4>1, <4>2, <4>3, <4>4
    <3>3. \A i \in DOMAIN events : events[i].dir \in {e, f}
      BY <3>2
    <3> QED BY <2>1, <2>3, <3>2, <3>3, QueueConcat
  <2> QED BY <1>8, <2>2, <2>3 DEF Rename
<1>10. TypeOK'
  <2>1. changes' \in 0 .. MaxChanges /\ dropped' \subseteq Dirs
    BY <1>1, <1>2, ChangesAssumption DEF Inv, TypeOK
  <2> QED BY <1>1, <1>4, <1>8, <1>9, <2>1 DEF Inv, TypeOK, watchVars, callVars
<1>11. Tree'
  <2>1. ASSUME NEW d \in Dirs, d[2] = Root PROVE Exists(d)'
    <3>1. d \notin Under[e] \cup Under[f]
      BY <1>2, <2>1, NotBelowItself DEF Under
    <3> QED BY <1>8, <2>1, <3>1 DEF Inv, Tree
  <2>2. ASSUME NEW d \in NonRoot, Exists(d)' PROVE Exists(InDir(d))'
    <3>1. d \in Dirs /\ InDir(d) \in Dirs
      BY Above
    <3>2. changes + 2 # NoInode
      BY <1>1, ChangesAssumption DEF Inv, TypeOK, NoInode
    <3>3. CASE d = f
      <4>1. InDir(f)[2] = Parent[e[2]] /\ InDir(f)[2] = Parent[f[2]]
        BY <1>1, Above
      <4>2. InDir(f) \notin Under[e] \cup Under[f]
        BY <1>2, <4>1, NotBelowItself DEF Under
      <4>3. Exists(InDir(f))
        BY <1>1 DEF Inv, Tree
      <4> QED BY <1>2, <1>8, <3>3, <4>2, <4>3
    <3>4. CASE d # f /\ d \in moved
      <4>1. InDir(d) \in moved
        BY <1>3, <3>4
      <4> QED BY <1>3, <3>1, <3>2, <4>1 DEF Exists
    <3>5. CASE d # f /\ d \notin moved
      <4>1. d \notin Under[e] \cup Under[f]
        BY <1>3, <2>2, <3>1, <3>5 DEF Exists
      <4>2. Exists(d) /\ InDir(d) \notin Under[e] \cup Under[f]
        BY <1>7, <1>8, <2>2, <3>1, <4>1
      <4> QED BY <1>8, <3>1, <4>2 DEF Inv, Tree
    <3> QED BY <3>3, <3>4, <3>5
  <2> QED BY <2>1, <2>2 DEF Tree
<1>12. Calls' /\ CallsWatch' /\ Telling' /\ CreationIsToldOnce'
  <2>1. Calls'
    BY <1>1 DEF Inv, Calls, callVars
  <2>2. CallsWatch'
    BY <1>1, <1>4 DEF Inv, CallsWatch, callVars, watchVars
  <2>3. Telling'
    BY <1>1, <1>4 DEF Inv, Telling, callVars, watchVars
  <2>4. CreationIsToldOnce'
    BY <1>1, <1>4 DEF Inv, CreationIsToldOnce
  <2> QED BY <2>1, <2>2, <2>3, <2>4
<1>13. Queued'
  <2>1. ASSUME NEW d \in NonRoot
        PROVE  /\ Pending("delete", d)' /\ Exists(d)' => d[2] \in lost'
               /\ Reborn(d)' => Lost(d[2])'
               /\ Pending("create", d)' => bound'[InDir(d)] # NoInode \/ Lost(d[2])'
    <3>1. d \in Dirs /\ d[2] \in Names
      BY Above
    <3>2. CASE d \in Under[e] \cup Under[f]
      BY <1>6, <3>2
    <3>3. CASE d \notin Under[e] \cup Under[f]
      BY <1>1, <1>4, <1>5, <1>8, <1>9, <3>1, <3>3 DEF Inv, Queued, watchVars
    <3> QED BY <3>2, <3>3
  <2> QED BY <2>1 DEF Queued
<1>14. Working'
  BY <1>1, <1>5, Above DEF Inv, Working, callVars, watchVars
<1>15. Watches'
  <2>1. ASSUME NEW d \in Dirs, bound'[d] # NoInode, bound'[d] # inode'[d]
        PROVE  Lost(d[2])' \/ (d[2] # Root /\ ~ Exists(d)' /\ Pending("delete", d)')
    <3>1. d[2] \in Names /\ (d[2] # Root => d \in NonRoot)
      BY DEF Dirs, NonRoot
    <3>2. CASE d \in Under[e] \cup Under[f]
      BY <1>6, <3>2
    <3>3. CASE d \notin Under[e] \cup Under[f]
      BY <1>1, <1>5, <1>8, <1>9, <2>1, <3>1, <3>3 DEF Inv, Watches, watchVars
    <3> QED BY <3>2, <3>3
  <2>2. ASSUME NEW d \in NonRoot, Exists(d)', bound'[d] # NoInode
        PROVE  Lost(d[2])' \/ bound'[InDir(d)] = inode'[InDir(d)]
    <3>1. d \in Dirs /\ InDir(d) \in Dirs /\ d[2] \in Names
      BY Above
    <3>2. CASE d \in Under[e] \cup Under[f]
      BY <1>6, <3>2
    <3>3. CASE d \notin Under[e] \cup Under[f]
      <4>1. InDir(d) \notin Under[e] \cup Under[f]
        BY <1>7, <3>3
      <4> QED BY <1>1, <1>5, <1>8, <2>2, <3>1, <3>3, <4>1 DEF Inv, Watches, watchVars
    <3> QED BY <3>2, <3>3
  <2> QED BY <2>1, <2>2 DEF Watches
<1>16. Missing'
  <2>1. \A d \in Dirs : ToBeAdded(d) => ToBeAdded(d)'
    BY <1>1 DEF ToBeAdded, callVars, Top
  <2>2. ASSUME NEW d \in NonRoot, Exists(d)', bound'[d] = NoInode
        PROVE  \/ Lost(d[2])' \/ bound'[InDir(d)] = NoInode
               \/ ToBeAdded(d)' \/ Pending("create", d)'
    <3>1. d \in Dirs /\ d[2] \in Names
      BY Above
    <3>2. CASE d \in Under[e] \cup Under[f]
      BY <1>6, <3>2
    <3>3. CASE d \notin Under[e] \cup Under[f]
      BY <1>1, <1>5, <1>8, <1>9, <2>1, <2>2, <3>1, <3>3 DEF Inv, Missing, watchVars
    <3> QED BY <3>2, <3>3
  <2>3. ASSUME NEW h \in Hierarchies, bound'[<<h, Root>>] = NoInode
        PROVE  Root \in lost' \/ h \in starting' \/ (pc = "add" /\ Top.dir = <<h, Root>>)'
    BY <1>1, <1>4, <2>3 DEF Inv, Missing, watchVars, callVars, Top
  <2> QED BY <2>2, <2>3 DEF Missing
<1> QED BY <1>10, <1>11, <1>12, <1>13, <1>14, <1>15, <1>16 DEF Inv

-----------------------------------------------------------------------------
(* watchDirectory.  Its steps leave the kernel alone.                      *)

LEMMA Unmoved ==
  ASSUME UNCHANGED kernelVars
  PROVE  /\ Tree => Tree'
         /\ \A d : Exists(d)' <=> Exists(d)
         /\ \A k, d : Pending(k, d)' <=> Pending(k, d)
         /\ \A d : Reborn(d)' <=> Reborn(d)
BY DEF kernelVars, Tree, Exists, Pending, Reborn

LEMMA FirstOf ==
  ASSUME NEW S, NEW s \in Seq(S), s # << >>
  PROVE  /\ Head(s) = s[1] /\ s[1] \in S /\ Len(s) \in Nat \ {0}
         /\ DOMAIN s = 1 .. Len(s) /\ 1 \in DOMAIN s
<1>1. Len(s) \in Nat \ {0} /\ DOMAIN s = 1 .. Len(s)
  BY EmptySeq, LenProperties
<1> QED BY <1>1

LEMMA Calling ==
  ASSUME TypeOK, stack # << >>
  PROVE  /\ stack \in Seq(Frames) /\ Top = stack[1] /\ Top \in Frames
         /\ Len(stack) \in Nat \ {0} /\ DOMAIN stack = 1 .. Len(stack)
         /\ Top.dir \in Dirs /\ Top.dir[1] \in Hierarchies /\ Top.dir[2] \in Names
         /\ 1 \in DOMAIN stack
         /\ \A i \in DOMAIN stack : stack[i] \in Frames /\ stack[i].dir \in Dirs
<1>1. stack \in Seq(Frames)
  BY DEF TypeOK
<1>2. /\ Top = stack[1] /\ Top \in Frames /\ Len(stack) \in Nat \ {0}
      /\ DOMAIN stack = 1 .. Len(stack) /\ 1 \in DOMAIN stack
  BY <1>1, FirstOf DEF Top
<1>3. Top.dir \in Dirs
  BY <1>2 DEF Frames
<1>4. ASSUME NEW i \in DOMAIN stack PROVE stack[i] \in Frames /\ stack[i].dir \in Dirs
  <2>1. stack[i] \in Frames
    BY <1>1, <1>2, ElementOfSeq
  <2> QED BY <2>1 DEF Frames
<1> QED BY <1>1, <1>2, <1>3, <1>4 DEF Dirs

\* A watch that is removed goes with its record.
LEMMA RmWorksWatches ==
  ASSUME TypeOK, NEW e \in Dirs, RmWorks(e)
  PROVE  /\ \A d \in Dirs : d # e => bound'[d] = bound[d]
         /\ bound'[e] = NoInode
         /\ bound' \in [Dirs -> 0 .. MaxChanges + 1]
         /\ containersWatched' \in [Names -> SUBSET Hierarchies]
         /\ containersWatched'[e[2]] = containersWatched[e[2]] \ {e[1]}
         /\ \A n \in Names \ {e[2]} : containersWatched'[n] = containersWatched[n]
         /\ \A d \in Dirs : (bound'[d] # NoInode) = (d[1] \in containersWatched'[d[2]])
<1>1. /\ bound \in [Dirs -> 0 .. MaxChanges + 1] /\ NoInode \in 0 .. MaxChanges + 1
      /\ containersWatched \in [Names -> SUBSET Hierarchies]
      /\ \A d \in Dirs : (bound[d] # NoInode) = (d[1] \in containersWatched[d[2]])
  BY ChangesAssumption DEF TypeOK, NoInode
<1>2. /\ bound' = IF e[1] \in containersWatched[e[2]]
                    THEN [bound EXCEPT ![e] = NoInode] ELSE bound
      /\ containersWatched' = [containersWatched EXCEPT ![e[2]] = @ \ {e[1]}]
  BY DEF RmWorks, Removed
<1>3. /\ \A d \in Dirs : d # e => bound'[d] = bound[d]
      /\ bound'[e] = NoInode
      /\ bound' \in [Dirs -> 0 .. MaxChanges + 1]
  BY <1>1, <1>2
<1>4. e[1] \in Hierarchies /\ e[2] \in Names /\ e = <<e[1], e[2]>>
  BY DEF Dirs
<1>5. /\ containersWatched' \in [Names -> SUBSET Hierarchies]
      /\ containersWatched'[e[2]] = containersWatched[e[2]] \ {e[1]}
      /\ \A n \in Names \ {e[2]} : containersWatched'[n] = containersWatched[n]
  BY <1>1, <1>2, <1>4
<1>6. ASSUME NEW d \in Dirs
      PROVE  (bound'[d] # NoInode) = (d[1] \in containersWatched'[d[2]])
  <2>1. d[1] \in Hierarchies /\ d[2] \in Names /\ d = <<d[1], d[2]>>
    BY DEF Dirs
  <2>2. CASE d = e
    BY <1>3, <1>5, <2>2
  <2>3. CASE d # e /\ d[2] = e[2]
    BY <1>1, <1>3, <1>4, <1>5, <2>1, <2>3
  <2>4. CASE d[2] # e[2]
    BY <1>1, <1>3, <1>5, <2>1, <2>4
  <2> QED BY <2>2, <2>3, <2>4
<1> QED BY <1>3, <1>5, <1>6

LEMMA AddWatchInv ==
  ASSUME Inv, AddWatch
  PROVE  Inv'
<1> DEFINE d0 == Top.dir
           recorded == d0[1] \in containersWatched[d0[2]]
<1>1. /\ pc = "add" /\ pc' = "read" /\ (recorded \/ Exists(d0))
      /\ bound' = IF recorded THEN bound ELSE [bound EXCEPT ![d0] = inode[d0]]
      /\ containersWatched' = [containersWatched EXCEPT ![d0[2]] = @ \cup {d0[1]}]
      /\ stack' = [stack EXCEPT ![1].already = containersWatched[d0[2]] # {}]
      /\ UNCHANGED <<kernelVars, event, starting, toldVars>>
  BY DEF AddWatch
<1>2. /\ stack # << >> /\ stack \in Seq(Frames) /\ Top = stack[1] /\ Top \in Frames
      /\ Len(stack) \in Nat \ {0} /\ DOMAIN stack = 1 .. Len(stack)
      /\ d0 \in Dirs /\ d0[1] \in Hierarchies /\ d0[2] \in Names /\ 1 \in DOMAIN stack
      /\ \A i \in DOMAIN stack : stack[i] \in Frames /\ stack[i].dir \in Dirs
  BY <1>1, Calling DEF Inv, TypeOK
<1>3. /\ bound \in [Dirs -> 0 .. MaxChanges + 1] /\ inode \in [Dirs -> 0 .. MaxChanges + 1]
      /\ containersWatched \in [Names -> SUBSET Hierarchies]
      /\ \A d \in Dirs : (bound[d] # NoInode) = (d[1] \in containersWatched[d[2]])
  BY DEF Inv, TypeOK
<1>4. /\ \A d \in Dirs : d # d0 => bound'[d] = bound[d]
      /\ bound'[d0] # NoInode
      /\ bound[d0] = NoInode => bound'[d0] = inode[d0] /\ Exists(d0)
      /\ bound[d0] # NoInode => bound'[d0] = bound[d0]
      /\ bound' \in [Dirs -> 0 .. MaxChanges + 1]
  BY <1>1, <1>2, <1>3 DEF Exists
<1>5. /\ containersWatched' \in [Names -> SUBSET Hierarchies]
      /\ containersWatched'[d0[2]] = containersWatched[d0[2]] \cup {d0[1]}
      /\ \A n \in Names \ {d0[2]} : containersWatched'[n] = containersWatched[n]
  BY <1>1, <1>2, <1>3
<1>6. /\ stack' \in Seq(Frames) /\ stack' # << >>
      /\ Len(stack') = Len(stack) /\ DOMAIN stack' = DOMAIN stack
      /\ \A i \in DOMAIN stack : stack'[i].dir = stack[i].dir /\ stack'[i].todo = stack[i].todo
      /\ \A i \in DOMAIN stack : i # 1 => stack'[i] = stack[i]
      /\ stack'[1].already = (containersWatched[d0[2]] # {})
      /\ Top' = stack'[1] /\ Top.dir' = d0
  <2>1. stack'[1] \in Frames /\ stack'[1].dir = d0 /\ stack'[1].todo = stack[1].todo
        /\ stack'[1].already = (containersWatched[d0[2]] # {})
    BY <1>1, <1>2 DEF Frames
  <2>2. DOMAIN stack' = DOMAIN stack /\ \A i \in DOMAIN stack : i # 1 => stack'[i] = stack[i]
    BY <1>1, <1>2
  <2>3. stack' = [stack EXCEPT ![1] = stack'[1]]
    BY <1>1, <1>2
  <2>4. stack' \in Seq(Frames) /\ Len(stack') = Len(stack)
    BY <1>2, <2>1, <2>3, ExceptSeq
  <2>5. stack' # << >>
    BY <1>2, <2>4, EmptySeq
  <2> QED BY <1>2, <2>1, <2>2, <2>4, <2>5, FirstOf DEF Top
<1>7. /\ \A n : Lost(n)' <=> Lost(n)
      /\ \A n \in lost : Lost(n)
      /\ \A d \in NonRoot : Lost(InDir(d)[2]) => Lost(d[2])
  BY <1>1, LostBelow DEF Lost, toldVars
<1>8. /\ UNCHANGED <<inode, lost, queue, changes, dropped, event, starting, told, twice>>
      /\ \A d : Exists(d)' <=> Exists(d)
      /\ \A k, d : Pending(k, d)' <=> Pending(k, d)
      /\ \A d : Reborn(d)' <=> Reborn(d)
  BY <1>1, Unmoved DEF kernelVars, toldVars
<1>9. \A d \in Dirs : bound[d] # NoInode => bound'[d] # NoInode
  BY <1>2, <1>4
<1>10. TypeOK'
  <2>1. ASSUME NEW d \in Dirs
        PROVE  (bound'[d] # NoInode) = (d[1] \in containersWatched'[d[2]])
    <3>1. d = <<d[1], d[2]>> /\ d0 = <<d0[1], d0[2]>> /\ d[2] \in Names
      BY <1>2 DEF Dirs
    <3>2. CASE d = d0
      BY <1>2, <1>4, <1>5, <3>2
    <3>3. CASE d # d0 /\ d[2] = d0[2]
      BY <1>3, <1>4, <1>5, <3>1, <3>3
    <3>4. CASE d[2] # d0[2]
      BY <1>3, <1>4, <1>5, <3>1, <3>4
    <3> QED BY <3>2, <3>3, <3>4
  <2> QED BY <1>1, <1>3, <1>4, <1>5, <1>6, <1>8, <2>1 DEF Inv, TypeOK
<1>11. Tree'
  BY <1>1, Unmoved DEF Inv
<1>12. Calls'
  BY <1>1, <1>6, <1>8 DEF Inv, Calls
<1>13. CallsWatch'
  <2>1. ASSUME NEW i \in DOMAIN stack
        PROVE  bound'[stack'[i].dir] # NoInode \/ stack'[i].dir[2] \in lost'
    BY <1>2, <1>4, <1>6, <1>8, <1>9 DEF Inv, CallsWatch
  <2> QED BY <1>6, <2>1 DEF CallsWatch
<1>14. Queued'
  BY <1>7, <1>8, <1>9, Above DEF Inv, Queued
<1>15. Working'
  BY <1>1 DEF Working
<1>16. Watches'
  <2>1. ASSUME NEW d \in Dirs, bound'[d] # NoInode, bound'[d] # inode'[d]
        PROVE  Lost(d[2])' \/ (d[2] # Root /\ ~ Exists(d)' /\ Pending("delete", d)')
    <3>1. bound[d] # NoInode /\ bound[d] # inode[d]
      BY <1>4, <1>8, <2>1
    <3>2. Lost(d[2]) \/ (d[2] # Root /\ ~ Exists(d) /\ Pending("delete", d))
      BY <3>1 DEF Inv, Watches
    <3> QED BY <1>7, <1>8, <3>2
  <2>2. ASSUME NEW d \in NonRoot, Exists(d)', bound'[d] # NoInode
        PROVE  Lost(d[2])' \/ bound'[InDir(d)] = inode'[InDir(d)]
    <3> DEFINE u == InDir(d)
    <3>1. d \in Dirs /\ u \in Dirs /\ d[2] # Root /\ Exists(d) /\ Exists(u)
      BY <1>8, <2>2, Above DEF Inv, Tree
    <3>2. bound[u] # NoInode => bound[u] = inode[u] \/ Lost(d[2])
      BY <1>7, <2>2, <3>1 DEF Inv, Watches
    <3>3. bound[u] # NoInode \/ Lost(d[2]) \/ u = d0
      <4>1. CASE bound[d] # NoInode
        BY <3>1, <4>1 DEF Inv, Watches, Exists
      <4>2. CASE bound[d] = NoInode
        <5>1. d = d0
          BY <1>4, <2>2, <3>1, <4>2
        <5>2. CASE Len(stack) > 1
          <6>1. 2 \in DOMAIN stack /\ u = stack[2].dir
            BY <1>2, <5>1, <5>2 DEF Inv, Calls
          <6> QED BY <1>7, <2>2, <6>1 DEF Inv, CallsWatch
        <5>3. CASE Len(stack) = 1
          <6>1. event # Start /\ event.dir = d
            BY <1>2, <3>1, <5>1, <5>3 DEF Inv, Calls
          <6> QED BY <1>1, <5>3, <6>1 DEF Inv, Working
        <5> QED BY <1>2, <5>2, <5>3
      <4> QED BY <4>1, <4>2
    <3>4. u = d0 /\ bound[u] = NoInode => bound'[u] = inode[u]
      BY <1>4
    <3>5. bound[u] # NoInode => bound'[u] = bound[u]
      BY <1>4, <3>1
    <3> QED BY <1>7, <1>8, <3>2, <3>3, <3>4, <3>5
  <2> QED BY <2>1, <2>2 DEF Watches
<1>17. Missing'
  <2>1. ASSUME NEW d \in NonRoot, Exists(d)', bound'[d] = NoInode
        PROVE  \/ Lost(d[2])' \/ bound'[InDir(d)] = NoInode
               \/ ToBeAdded(d)' \/ Pending("create", d)'
    <3>1. d \in Dirs /\ InDir(d) \in Dirs /\ d[2] # Root /\ d # d0 /\ bound[d] = NoInode
      BY <1>4, <1>9, <2>1, Above
    <3>2. ToBeAdded(d) => ToBeAdded(d)'
      <4>1. ToBeAdded(d) => \E i \in DOMAIN stack : d \in stack[i].todo
        BY <1>1, <3>1 DEF ToBeAdded
      <4> QED BY <1>6, <4>1 DEF ToBeAdded
    <3>3. bound[InDir(d)] = NoInode => bound'[InDir(d)] = NoInode \/ InDir(d) = d0
      BY <1>4, <3>1
    <3>4. InDir(d) = d0 => ToBeAdded(d)'
      BY <1>1, <1>6, <3>1 DEF ToBeAdded
    <3>5. \/ Lost(d[2]) \/ bound[InDir(d)] = NoInode \/ ToBeAdded(d) \/ Pending("create", d)
      BY <1>8, <2>1, <3>1 DEF Inv, Missing
    <3> QED BY <1>7, <1>8, <3>2, <3>3, <3>4, <3>5
  <2>2. ASSUME NEW h \in Hierarchies, bound'[<<h, Root>>] = NoInode
        PROVE  Root \in lost' \/ h \in starting' \/ (pc = "add" /\ Top.dir = <<h, Root>>)'
    <3>1. <<h, Root>> \in Dirs
      BY NameAssumption DEF Dirs
    <3>2. bound[<<h, Root>>] = NoInode /\ d0 # <<h, Root>>
      BY <1>4, <1>9, <2>2, <3>1
    <3> QED BY <1>8, <3>2 DEF Inv, Missing
  <2> QED BY <2>1, <2>2 DEF Missing
<1>18. Telling'
  <2>1. ASSUME NEW n \in Names, told'[n] = "add"
        PROVE  containersWatched'[n] # {} \/ n \in lost'
    BY <1>2, <1>5, <1>8, <2>1 DEF Inv, Telling
  <2>2. ASSUME event # Start
        PROVE  \/ stack'[Len(stack')].already
               \/ told'[event.dir[2]] # "add" \/ event.dir[2] \in lost'
    <3>1. CASE Len(stack) > 1
      <4>1. stack'[Len(stack')] = stack[Len(stack)]
        BY <1>2, <1>6, <3>1
      <4> QED BY <1>2, <1>8, <2>2, <3>1, <4>1 DEF Inv, Telling
    <3>2. CASE Len(stack) = 1
      <4>1. event.dir = d0
        BY <1>2, <2>2, <3>2 DEF Inv, Calls
      <4>2. told[d0[2]] # "add" \/ containersWatched[d0[2]] # {} \/ d0[2] \in lost
        BY <1>2 DEF Inv, Telling
      <4> QED BY <1>6, <1>8, <3>2, <4>1, <4>2
    <3> QED BY <1>2, <3>1, <3>2
  <2> QED BY <1>8, <2>1, <2>2 DEF Telling
<1>19. CreationIsToldOnce'
  BY <1>8 DEF Inv, CreationIsToldOnce
<1> QED BY <1>10, <1>11, <1>12, <1>13, <1>14, <1>15, <1>16, <1>17, <1>18, <1>19 DEF Inv

\* The innermost call returns to the one below it.
LEMMA Popped ==
  ASSUME stack \in Seq(Frames), Len(stack) > 1, stack' = Tail(stack)
  PROVE  /\ stack' \in Seq(Frames) /\ stack' # << >> /\ Len(stack') = Len(stack) - 1
         /\ DOMAIN stack' = 1 .. Len(stack) - 1
         /\ \A i \in 1 .. Len(stack) - 1 : stack'[i] = stack[i + 1]
         /\ Top' = stack'[1]
<1>1. /\ stack # << >> /\ Len(stack) \in Nat
  BY EmptySeq, LenProperties
<1>2. /\ stack' \in Seq(Frames) /\ Len(stack') = Len(stack) - 1
      /\ \A i \in 1 .. Len(stack) - 1 : stack'[i] = stack[i + 1]
  BY <1>1, HeadTailProperties
<1>3. DOMAIN stack' = 1 .. Len(stack')
  BY <1>2, LenProperties
<1>4. stack' # << >>
  <2>1. Len(stack') # 0
    BY <1>1, <1>2
  <2> QED BY <1>2, <2>1, EmptySeq
<1> QED BY <1>2, <1>3, <1>4, FirstOf DEF Top

\* A call that fails makes its container lost, and all below it.
LEMMA FailedInv ==
  ASSUME Inv, stack # << >>, pc \in {"add", "cleanup"}, Failed,
         UNCHANGED watchVars \/ RmWorks(Top.dir),
         UNCHANGED <<kernelVars, event, starting, told, twice>>
  PROVE  Inv'
<1> DEFINE d0 == Top.dir
<1>1. /\ lost' = lost \cup {d0[2]}
      /\ \/ Len(stack) = 1 /\ stack' = << >> /\ event = Start /\ pc' = "dead"
         \/ Len(stack) = 1 /\ stack' = << >> /\ event # Start /\ pc' = "idle"
         \/ Len(stack) # 1 /\ stack' = Tail(stack) /\ pc' = "cleanup"
  BY DEF Failed, Finish
<1>2. /\ stack \in Seq(Frames) /\ Top = stack[1]
      /\ Len(stack) \in Nat \ {0} /\ DOMAIN stack = 1 .. Len(stack)
      /\ d0 \in Dirs /\ d0[1] \in Hierarchies /\ d0[2] \in Names /\ 1 \in DOMAIN stack
      /\ \A i \in DOMAIN stack : stack[i] \in Frames /\ stack[i].dir \in Dirs
  BY Calling DEF Inv
<1>3. /\ bound \in [Dirs -> 0 .. MaxChanges + 1]
      /\ containersWatched \in [Names -> SUBSET Hierarchies]
      /\ \A d \in Dirs : (bound[d] # NoInode) = (d[1] \in containersWatched[d[2]])
      /\ lost \subseteq Names
  BY DEF Inv, TypeOK
<1>4. /\ \A d \in Dirs : d # d0 => bound'[d] = bound[d]
      /\ bound'[d0] \in {bound[d0], NoInode}
      /\ bound' \in [Dirs -> 0 .. MaxChanges + 1]
      /\ containersWatched' \in [Names -> SUBSET Hierarchies]
      /\ \A n \in Names \ {d0[2]} : containersWatched'[n] = containersWatched[n]
      /\ \A d \in Dirs : (bound'[d] # NoInode) = (d[1] \in containersWatched'[d[2]])
  <2>1. CASE UNCHANGED watchVars
    BY <1>3, <2>1 DEF watchVars
  <2>2. CASE RmWorks(d0)
    BY <1>2, <1>3, <2>2, RmWorksWatches DEF Inv
  <2> QED BY <2>1, <2>2
<1>5. lost \subseteq lost' /\ d0[2] \in lost' /\ lost' \subseteq Names
  BY <1>1, <1>2, <1>3
<1>6. /\ \A n \in Names : Lost(n) => Lost(n)'
      /\ \A n \in lost' : Lost(n)'
      /\ \A d \in NonRoot : Lost(InDir(d)[2])' => Lost(d[2])'
  BY <1>5, LostGrows
<1>7. /\ stack' \in Seq(Frames) /\ (stack' = << >>) = (pc' \in {"start", "idle", "dead"})
      /\ Len(stack') = Len(stack) - 1
      /\ DOMAIN stack' = 1 .. Len(stack) - 1
      /\ \A i \in 1 .. Len(stack) - 1 : stack'[i] = stack[i + 1]
  <2>1. CASE Len(stack) = 1
    <3>1. stack' = << >> /\ pc' \in {"start", "idle", "dead"}
      BY <1>1, <2>1
    <3>2. stack' \in Seq(Frames) /\ Len(stack') = 0 /\ DOMAIN stack' = 1 .. 0
      BY <3>1
    <3> QED BY <2>1, <3>1, <3>2
  <2>2. CASE Len(stack) # 1
    <3>1. stack' = Tail(stack) /\ pc' = "cleanup" /\ Len(stack) > 1
      BY <1>1, <1>2, <2>2
    <3> QED BY <1>2, <3>1, Popped
  <2> QED BY <2>1, <2>2
<1>8. /\ UNCHANGED <<inode, queue, changes, dropped, event, starting, told, twice>>
      /\ \A d : Exists(d)' <=> Exists(d)
      /\ \A k, d : Pending(k, d)' <=> Pending(k, d)
      /\ \A d : Reborn(d)' <=> Reborn(d)
  BY Unmoved DEF kernelVars
<1>9. \A d \in NonRoot : InDir(d) = d0 => Lost(d[2])'
  BY <1>5, <1>6
<1>10. TypeOK'
  BY <1>1, <1>4, <1>5, <1>7, <1>8 DEF Inv, TypeOK
<1>11. Tree'
  BY Unmoved DEF Inv
<1>12. Calls'
  <2>1. /\ pc' # "start"
        /\ starting' # {} => event' = Start /\ pc' # "idle"
    BY <1>1, <1>8 DEF Inv, Calls
  <2>2. ASSUME NEW i \in DOMAIN stack'
        PROVE  /\ stack'[i].todo \subseteq { d \in NonRoot : InDir(d) = stack'[i].dir }
               /\ IF i < Len(stack')
                    THEN stack'[i].dir[2] # Root /\ InDir(stack'[i].dir) = stack'[i + 1].dir
                  ELSE IF event' = Start THEN stack'[i].dir[2] = Root
                       ELSE stack'[i].dir = event'.dir
    <3>1. i + 1 \in DOMAIN stack /\ stack'[i] = stack[i + 1]
          /\ (i < Len(stack') <=> i + 1 < Len(stack))
          /\ (i < Len(stack') => stack'[i + 1] = stack[i + 2])
      BY <1>2, <1>7
    <3> QED BY <1>8, <3>1 DEF Inv, Calls
  <2> QED BY <2>1, <2>2 DEF Calls
<1>13. CallsWatch'
  <2>1. ASSUME NEW i \in DOMAIN stack'
        PROVE  bound'[stack'[i].dir] # NoInode \/ stack'[i].dir[2] \in lost'
    <3>1. i + 1 \in DOMAIN stack /\ i + 1 > 1 /\ stack'[i] = stack[i + 1]
      BY <1>2, <1>7
    <3>2. bound[stack'[i].dir] # NoInode \/ stack'[i].dir[2] \in lost
      BY <3>1 DEF Inv, CallsWatch
    <3> QED BY <1>2, <1>4, <1>5, <3>1, <3>2
  <2> QED BY <2>1 DEF CallsWatch
<1>14. Queued'
  <2>1. ASSUME NEW d \in NonRoot
        PROVE  /\ Pending("delete", d)' /\ Exists(d)' => d[2] \in lost'
               /\ Reborn(d)' => Lost(d[2])'
               /\ Pending("create", d)' => bound'[InDir(d)] # NoInode \/ Lost(d[2])'
    BY <1>4, <1>5, <1>6, <1>8, <1>9, Above DEF Inv, Queued
  <2> QED BY <2>1 DEF Queued
<1>15. Working'
  BY <1>1 DEF Working
<1>16. Watches'
  <2>1. ASSUME NEW d \in Dirs, bound'[d] # NoInode, bound'[d] # inode'[d]
        PROVE  Lost(d[2])' \/ (d[2] # Root /\ ~ Exists(d)' /\ Pending("delete", d)')
    <3>1. bound[d] # NoInode /\ bound[d] # inode[d]
      BY <1>4, <1>8, <2>1
    <3>2. d[2] \in Names
      BY DEF Dirs
    <3> QED BY <1>6, <1>8, <3>1, <3>2 DEF Inv, Watches
  <2>2. ASSUME NEW d \in NonRoot, Exists(d)', bound'[d] # NoInode
        PROVE  Lost(d[2])' \/ bound'[InDir(d)] = inode'[InDir(d)]
    <3>1. bound[d] # NoInode /\ d \in Dirs /\ InDir(d) \in Dirs /\ d[2] \in Names
      BY <1>4, <2>2, Above
    <3> QED BY <1>4, <1>6, <1>8, <1>9, <2>2, <3>1 DEF Inv, Watches
  <2> QED BY <2>1, <2>2 DEF Watches
<1>17. Missing'
  <2>1. ASSUME NEW d \in NonRoot, Exists(d)', bound'[d] = NoInode
        PROVE  \/ Lost(d[2])' \/ bound'[InDir(d)] = NoInode
               \/ ToBeAdded(d)' \/ Pending("create", d)'
    <3>1. d \in Dirs /\ InDir(d) \in Dirs /\ d[2] \in Names
      BY Above
    <3>2. CASE d = d0
      BY <1>5, <1>6, <3>2
    <3>3. ASSUME d # d0, ToBeAdded(d) PROVE ToBeAdded(d)' \/ Lost(d[2])'
      <4>1. PICK i \in DOMAIN stack : d \in stack[i].todo
        BY <3>3 DEF ToBeAdded
      <4>2. CASE i = 1
        BY <1>2, <1>9, <4>1, <4>2 DEF Inv, Calls
      <4>3. CASE i # 1
        <5>1. i - 1 \in DOMAIN stack' /\ stack'[i - 1] = stack[i]
          BY <1>2, <1>7, <4>3
        <5> QED BY <4>1, <5>1 DEF ToBeAdded
      <4> QED BY <4>2, <4>3
    <3>4. d # d0 => bound[d] = NoInode
      BY <1>4, <2>1, <3>1
    <3>5. bound[InDir(d)] = NoInode => bound'[InDir(d)] = NoInode
      BY <1>4, <3>1
    <3> QED BY <1>6, <1>8, <2>1, <3>1, <3>2, <3>3, <3>4, <3>5 DEF Inv, Missing
  <2>2. ASSUME NEW h \in Hierarchies, bound'[<<h, Root>>] = NoInode
        PROVE  Root \in lost' \/ h \in starting' \/ (pc = "add" /\ Top.dir = <<h, Root>>)'
    <3>1. <<h, Root>> \in Dirs
      BY NameAssumption DEF Dirs
    <3>2. d0 = <<h, Root>> => Root \in lost'
      BY <1>5
    <3>3. d0 # <<h, Root>> => bound[<<h, Root>>] = NoInode
      BY <1>4, <2>2, <3>1
    <3> QED BY <1>5, <1>8, <3>2, <3>3 DEF Inv, Missing
  <2> QED BY <2>1, <2>2 DEF Missing
<1>18. Telling'
  <2>1. ASSUME NEW n \in Names, told'[n] = "add"
        PROVE  containersWatched'[n] # {} \/ n \in lost'
    BY <1>4, <1>5, <1>8, <2>1 DEF Inv, Telling
  <2>2. ASSUME stack' # << >>, event # Start
        PROVE  \/ stack'[Len(stack')].already
               \/ told'[event.dir[2]] # "add" \/ event.dir[2] \in lost'
    <3>1. Len(stack) > 1
      BY <1>1, <1>2, <2>2
    <3>2. stack'[Len(stack')] = stack[Len(stack)]
      BY <1>2, <1>7, <3>1
    <3> QED BY <1>5, <1>8, <2>2, <3>1, <3>2 DEF Inv, Telling
  <2> QED BY <1>8, <2>1, <2>2 DEF Telling
<1>19. CreationIsToldOnce'
  BY <1>5, <1>8 DEF Inv, CreationIsToldOnce
<1> QED BY <1>10, <1>11, <1>12, <1>13, <1>14, <1>15, <1>16, <1>17, <1>18, <1>19 DEF Inv

LEMMA AddWatchFailsInv == Inv /\ AddWatchFails => Inv'
<1> SUFFICES ASSUME Inv, AddWatchFails PROVE Inv'
  OBVIOUS
<1>1. stack # << >> /\ pc \in {"add", "cleanup"} /\ UNCHANGED watchVars
  BY DEF Inv, TypeOK, AddWatchFails
<1> QED BY <1>1, FailedInv DEF AddWatchFails

LEMMA CleanupInv == Inv /\ Cleanup => Inv'
<1> SUFFICES ASSUME Inv, Cleanup PROVE Inv'
  OBVIOUS
<1>1. stack # << >> /\ pc \in {"add", "cleanup"}
  BY DEF Inv, TypeOK, Cleanup
<1>2. UNCHANGED watchVars \/ RmWorks(Top.dir)
  BY DEF Cleanup, RmFails
<1> QED BY <1>1, <1>2, FailedInv DEF Cleanup

\* The steps that change neither a directory nor a watch.
LEMMA StillWatched ==
  ASSUME Inv, UNCHANGED <<kernelVars, watchVars, lost>>
  PROVE  /\ Tree' /\ Queued' /\ Watches'
         /\ \A n : Lost(n)' <=> Lost(n)
         /\ \A d : Exists(d)' <=> Exists(d)
         /\ \A k, d : Pending(k, d)' <=> Pending(k, d)
         /\ UNCHANGED <<bound, containersWatched, inode, queue, changes, dropped, lost>>
<1>1. /\ \A d : Exists(d)' <=> Exists(d)
      /\ \A k, d : Pending(k, d)' <=> Pending(k, d)
      /\ \A d : Reborn(d)' <=> Reborn(d)
      /\ UNCHANGED <<bound, containersWatched, inode, queue, changes, dropped, lost>>
  BY Unmoved DEF kernelVars, watchVars
<1>2. \A n : Lost(n)' <=> Lost(n)
  BY <1>1 DEF Lost
<1>3. Tree'
  BY Unmoved DEF Inv
<1>4. Queued'
  BY <1>1, <1>2 DEF Inv, Queued
<1>5. Watches'
  BY <1>1, <1>2 DEF Inv, Watches
<1> QED BY <1>1, <1>2, <1>3, <1>4, <1>5

LEMMA ReadDirInv ==
  ASSUME Inv, ReadDir
  PROVE  Inv'
<1> DEFINE d0 == Top.dir
<1>1. /\ pc = "read" /\ UNCHANGED <<kernelVars, watchVars, event, starting, toldVars>>
      /\ UNCHANGED <<lost, told, twice>>
      /\ \/ /\ Exists(d0) /\ pc' = "children"
            /\ stack' = [stack EXCEPT ![1].todo = Children(d0)]
         \/ ~ Exists(d0) /\ pc' = "cleanup" /\ stack' = stack
  BY DEF ReadDir, toldVars
<1>2. /\ stack # << >> /\ stack \in Seq(Frames) /\ Top = stack[1] /\ Top \in Frames
      /\ Len(stack) \in Nat \ {0} /\ DOMAIN stack = 1 .. Len(stack) /\ 1 \in DOMAIN stack
      /\ d0 \in Dirs
  BY <1>1, Calling DEF Inv, TypeOK
<1>3. /\ Tree' /\ Queued' /\ Watches'
      /\ \A n : Lost(n)' <=> Lost(n)
      /\ \A d : Exists(d)' <=> Exists(d)
      /\ \A k, d : Pending(k, d)' <=> Pending(k, d)
      /\ UNCHANGED <<bound, containersWatched, inode, queue, changes, dropped, lost>>
  BY <1>1, StillWatched
<1>4. Children(d0) \subseteq { d \in NonRoot : InDir(d) = d0 } /\ Children(d0) \subseteq Dirs
  BY DEF Children, NonRoot
<1>5. /\ stack' \in Seq(Frames) /\ stack' # << >>
      /\ Len(stack') = Len(stack) /\ DOMAIN stack' = DOMAIN stack
      /\ \A i \in DOMAIN stack : /\ stack'[i].dir = stack[i].dir
                                 /\ stack'[i].already = stack[i].already
      /\ \A i \in DOMAIN stack : i # 1 => stack'[i] = stack[i]
      /\ stack'[1].todo = IF Exists(d0) THEN Children(d0) ELSE stack[1].todo
  <2>1. CASE Exists(d0)
    <3>1. stack' = [stack EXCEPT ![1].todo = Children(d0)]
      BY <1>1, <2>1
    <3>2. /\ stack'[1] \in Frames /\ stack'[1].dir = d0 /\ stack'[1].todo = Children(d0)
          /\ stack'[1].already = stack[1].already
          /\ stack' = [stack EXCEPT ![1] = stack'[1]]
      BY <1>2, <1>4, <3>1 DEF Frames
    <3>3. DOMAIN stack' = DOMAIN stack /\ \A i \in DOMAIN stack : i # 1 => stack'[i] = stack[i]
      BY <1>2, <3>1
    <3>4. stack' \in Seq(Frames) /\ Len(stack') = Len(stack)
      BY <1>2, <3>2, ExceptSeq
    <3>5. stack' # << >>
      BY <1>2, <3>4, EmptySeq
    <3> QED BY <1>2, <2>1, <3>2, <3>3, <3>4, <3>5
  <2>2. CASE ~ Exists(d0)
    BY <1>1, <1>2, <2>2
  <2> QED BY <2>1, <2>2
<1>6. TypeOK'
  BY <1>1, <1>3, <1>5 DEF Inv, TypeOK
<1>7. Calls'
  <2>1. ASSUME NEW i \in DOMAIN stack
        PROVE  stack'[i].todo \subseteq { d \in NonRoot : InDir(d) = stack'[i].dir }
    BY <1>2, <1>4, <1>5 DEF Inv, Calls
  <2>2. ASSUME NEW i \in DOMAIN stack
        PROVE  IF i < Len(stack') THEN stack'[i].dir[2] # Root /\ InDir(stack'[i].dir) = stack'[i + 1].dir
               ELSE IF event' = Start THEN stack'[i].dir[2] = Root ELSE stack'[i].dir = event'.dir
    <3>1. i < Len(stack) => i + 1 \in DOMAIN stack
      BY <1>2
    <3> QED BY <1>1, <1>5, <3>1 DEF Inv, Calls
  <2> QED BY <1>1, <1>5, <2>1, <2>2 DEF Inv, Calls
<1>8. CallsWatch'
  <2>1. ASSUME NEW i \in DOMAIN stack
        PROVE  bound'[stack'[i].dir] # NoInode \/ stack'[i].dir[2] \in lost'
    BY <1>1, <1>3, <1>5 DEF Inv, CallsWatch
  <2> QED BY <1>5, <2>1 DEF CallsWatch
<1>9. Working'
  BY <1>1 DEF Working
<1>10. Missing'
  <2>1. ASSUME NEW d \in NonRoot, Exists(d), ToBeAdded(d) PROVE ToBeAdded(d)'
    <3>1. d[2] # Root /\ (Exists(d0) /\ InDir(d) = d0 => d \in Children(d0))
      BY <2>1, Above DEF Children
    <3>2. CASE InDir(d) = d0
      <4>1. Exists(d0)
        BY <2>1, <3>2 DEF Inv, Tree
      <4>2. d \in stack'[1].todo
        BY <1>5, <3>1, <3>2, <4>1
      <4> QED BY <1>2, <1>5, <4>2 DEF ToBeAdded
    <3>3. CASE InDir(d) # d0
      <4>1. PICK i \in DOMAIN stack : d \in stack[i].todo
        BY <1>1, <2>1, <3>3 DEF ToBeAdded
      <4>2. i # 1
        BY <1>2, <3>3, <4>1 DEF Inv, Calls
      <4> QED BY <1>5, <4>1, <4>2 DEF ToBeAdded
    <3> QED BY <3>2, <3>3
  <2>2. ASSUME NEW d \in NonRoot, Exists(d)', bound'[d] = NoInode
        PROVE  \/ Lost(d[2])' \/ bound'[InDir(d)] = NoInode
               \/ ToBeAdded(d)' \/ Pending("create", d)'
    BY <1>3, <2>1, <2>2 DEF Inv, Missing
  <2>3. ASSUME NEW h \in Hierarchies, bound'[<<h, Root>>] = NoInode
        PROVE  Root \in lost' \/ h \in starting'
    BY <1>1, <1>3, <2>3 DEF Inv, Missing
  <2> QED BY <2>2, <2>3 DEF Missing
<1>11. Telling'
  <2>1. event # Start => \/ stack'[Len(stack')].already
                         \/ told'[event.dir[2]] # "add" \/ event.dir[2] \in lost'
    BY <1>1, <1>2, <1>5 DEF Inv, Telling
  <2> QED BY <1>1, <1>3, <2>1 DEF Inv, Telling
<1>12. CreationIsToldOnce'
  BY <1>1 DEF Inv, CreationIsToldOnce
<1> QED BY <1>3, <1>6, <1>7, <1>8, <1>9, <1>10, <1>11, <1>12 DEF Inv

LEMMA WatchChildInv ==
  ASSUME Inv, WatchChild
  PROVE  Inv'
<1> DEFINE d0 == Top.dir
<1>1. PICK c \in Top.todo :
        stack' = <<Frame(c)>> \o [stack EXCEPT ![1].todo = @ \ {c}]
  BY DEF WatchChild
<1> DEFINE rest == [stack EXCEPT ![1].todo = @ \ {c}]
<1>2. /\ pc = "children" /\ pc' = "add"
      /\ UNCHANGED <<kernelVars, watchVars, event, starting, toldVars>>
      /\ UNCHANGED <<lost, told, twice>>
  BY DEF WatchChild, toldVars
<1>3. /\ stack # << >> /\ stack \in Seq(Frames) /\ Top = stack[1] /\ Top \in Frames
      /\ Len(stack) \in Nat \ {0} /\ DOMAIN stack = 1 .. Len(stack) /\ 1 \in DOMAIN stack
      /\ d0 \in Dirs
  BY <1>2, Calling DEF Inv, TypeOK
<1>4. /\ Tree' /\ Queued' /\ Watches'
      /\ \A n : Lost(n)' <=> Lost(n)
      /\ \A d : Exists(d)' <=> Exists(d)
      /\ \A k, d : Pending(k, d)' <=> Pending(k, d)
      /\ UNCHANGED <<bound, containersWatched, inode, queue, changes, dropped, lost>>
  BY <1>2, StillWatched
<1>5. c \in Dirs /\ c \in NonRoot /\ c[2] # Root /\ InDir(c) = d0
  BY <1>1, <1>3, Above DEF Inv, Calls
<1>6. /\ rest \in Seq(Frames) /\ Len(rest) = Len(stack)
      /\ \A i \in DOMAIN stack : rest[i].dir = stack[i].dir /\ rest[i].already = stack[i].already
      /\ \A i \in DOMAIN stack : i # 1 => rest[i] = stack[i]
      /\ rest[1].todo = stack[1].todo \ {c}
  <2>1. /\ rest[1] \in Frames /\ rest[1].dir = d0 /\ rest[1].todo = stack[1].todo \ {c}
        /\ rest[1].already = stack[1].already
        /\ rest = [stack EXCEPT ![1] = rest[1]]
    BY <1>3 DEF Frames
  <2>2. \A i \in DOMAIN stack : i # 1 => rest[i] = stack[i]
    BY <1>3
  <2>3. rest \in Seq(Frames) /\ Len(rest) = Len(stack)
    BY <1>3, <2>1, ExceptSeq
  <2> QED BY <1>3, <2>1, <2>2, <2>3
<1> HIDE DEF rest
<1>7. /\ stack' \in Seq(Frames) /\ stack' # << >> /\ Len(stack') = Len(stack) + 1
      /\ DOMAIN stack' = 1 .. Len(stack) + 1
      /\ stack'[1] = Frame(c) /\ \A i \in DOMAIN stack : stack'[i + 1] = rest[i]
      /\ Top' = Frame(c) /\ Frame(c) = [dir |-> c, already |-> FALSE, todo |-> {}]
  <2>1. Frame(c) \in Frames /\ <<Frame(c)>> \in Seq(Frames) /\ Len(<<Frame(c)>>) = 1
    BY <1>5 DEF Frame, Frames
  <2>2. stack' = <<Frame(c)>> \o rest
    BY <1>1 DEF rest
  <2>3. /\ stack' \in Seq(Frames) /\ Len(stack') = 1 + Len(rest)
        /\ \A i \in 1 .. Len(<<Frame(c)>>) + Len(rest) :
             stack'[i] = IF i <= Len(<<Frame(c)>>) THEN <<Frame(c)>>[i]
                         ELSE rest[i - Len(<<Frame(c)>>)]
    BY <1>6, <2>1, <2>2, ConcatProperties
  <2>4. DOMAIN stack' = 1 .. Len(stack) + 1
    BY <1>3, <1>6, <2>3, LenProperties
  <2>5. stack'[1] = Frame(c)
    BY <1>3, <1>6, <2>1, <2>3
  <2>6. \A i \in DOMAIN stack : stack'[i + 1] = rest[i]
    BY <1>3, <1>6, <2>1, <2>3
  <2>7. stack' # << >>
    BY <1>3, <1>6, <2>3, EmptySeq
  <2> QED BY <1>3, <1>6, <2>3, <2>4, <2>5, <2>6, <2>7, FirstOf DEF Top, Frame
<1>8. TypeOK'
  BY <1>2, <1>4, <1>7 DEF Inv, TypeOK
<1>9. \A i \in DOMAIN stack' : i # 1 => i - 1 \in DOMAIN stack /\ stack'[i] = rest[i - 1]
  <2>1. ASSUME NEW i \in DOMAIN stack', i # 1
        PROVE  i - 1 \in DOMAIN stack /\ stack'[(i - 1) + 1] = rest[i - 1] /\ (i - 1) + 1 = i
    BY <1>3, <1>7, <2>1
  <2> QED BY <2>1
<1>10. Calls'
  <2>1. /\ pc' # "start"
        /\ starting' # {} => event' = Start /\ pc' # "idle"
    BY <1>2 DEF Inv, Calls
  <2>2. ASSUME NEW i \in DOMAIN stack'
        PROVE  stack'[i].todo \subseteq { d \in NonRoot : InDir(d) = stack'[i].dir }
    <3>1. CASE i = 1
      BY <1>7, <3>1
    <3>2. CASE i # 1
      BY <1>3, <1>6, <1>9, <3>2 DEF Inv, Calls
    <3> QED BY <3>1, <3>2
  <2>3. ASSUME NEW i \in DOMAIN stack'
        PROVE  IF i < Len(stack') THEN stack'[i].dir[2] # Root /\ InDir(stack'[i].dir) = stack'[i + 1].dir
               ELSE IF event' = Start THEN stack'[i].dir[2] = Root ELSE stack'[i].dir = event'.dir
    <3>1. CASE i = 1
      <4>1. stack'[1 + 1] = rest[1]
        BY <1>3, <1>7
      <4> QED BY <1>3, <1>5, <1>6, <1>7, <3>1, <4>1
    <3>2. CASE i # 1
      <4>1. i - 1 \in DOMAIN stack /\ stack'[i].dir = stack[i - 1].dir
        BY <1>6, <1>9, <3>2
      <4>2. (i < Len(stack') <=> i - 1 < Len(stack)) /\ (i - 1) + 1 = i
        BY <1>3, <1>7
      <4>3. i < Len(stack') => i \in DOMAIN stack /\ stack'[i + 1].dir = stack[i].dir
        BY <1>3, <1>6, <1>7
      <4> QED BY <1>2, <4>1, <4>2, <4>3 DEF Inv, Calls
    <3> QED BY <3>1, <3>2
  <2> QED BY <2>1, <2>2, <2>3 DEF Calls
<1>11. CallsWatch'
  <2>1. ASSUME NEW i \in DOMAIN stack', i > 1
        PROVE  bound'[stack'[i].dir] # NoInode \/ stack'[i].dir[2] \in lost'
    <3>1. i - 1 \in DOMAIN stack /\ stack'[i].dir = stack[i - 1].dir
      BY <1>3, <1>6, <1>7, <1>9, <2>1
    <3> QED BY <1>2, <1>4, <3>1 DEF Inv, CallsWatch
  <2> QED BY <1>2, <2>1 DEF CallsWatch
<1>12. Working'
  BY <1>3, <1>7 DEF Working
<1>13. Missing'
  <2>1. ASSUME NEW d \in NonRoot, ToBeAdded(d) PROVE ToBeAdded(d)'
    <3>1. PICK i \in DOMAIN stack : d \in stack[i].todo
      BY <1>2, <2>1 DEF ToBeAdded
    <3>2. CASE d = c
      BY <1>2, <1>7, <3>2 DEF ToBeAdded
    <3>3. CASE d # c
      <4>1. d \in rest[i].todo
        BY <1>6, <3>1, <3>3
      <4>2. i + 1 \in DOMAIN stack' /\ d \in stack'[i + 1].todo
        BY <1>3, <1>7, <4>1
      <4> QED BY <4>2 DEF ToBeAdded
    <3> QED BY <3>2, <3>3
  <2>2. ASSUME NEW d \in NonRoot, Exists(d)', bound'[d] = NoInode
        PROVE  \/ Lost(d[2])' \/ bound'[InDir(d)] = NoInode
               \/ ToBeAdded(d)' \/ Pending("create", d)'
    BY <1>4, <2>1, <2>2 DEF Inv, Missing
  <2>3. ASSUME NEW h \in Hierarchies, bound'[<<h, Root>>] = NoInode
        PROVE  Root \in lost' \/ h \in starting'
    BY <1>2, <1>4, <2>3 DEF Inv, Missing
  <2> QED BY <2>2, <2>3 DEF Missing
<1>14. Telling'
  <2>1. event # Start => \/ stack'[Len(stack')].already
                         \/ told'[event.dir[2]] # "add" \/ event.dir[2] \in lost'
    <3>1. stack'[Len(stack')].already = stack[Len(stack)].already
      BY <1>3, <1>6, <1>7
    <3> QED BY <1>2, <1>3, <3>1 DEF Inv, Telling
  <2> QED BY <1>2, <1>4, <2>1 DEF Inv, Telling
<1>15. CreationIsToldOnce'
  BY <1>2 DEF Inv, CreationIsToldOnce
<1> QED BY <1>4, <1>8, <1>10, <1>11, <1>12, <1>13, <1>14, <1>15 DEF Inv

LEMMA ReturnToParentInv ==
  ASSUME Inv, ReturnToParent
  PROVE  Inv'
<1>1. /\ pc = "children" /\ pc' = "children" /\ Top.todo = {} /\ Len(stack) > 1
      /\ stack' = Tail(stack)
      /\ UNCHANGED <<kernelVars, watchVars, event, starting, toldVars>>
      /\ UNCHANGED <<lost, told, twice>>
  BY DEF ReturnToParent, Return, toldVars
<1>2. /\ stack # << >> /\ stack \in Seq(Frames) /\ Top = stack[1]
      /\ Len(stack) \in Nat \ {0} /\ DOMAIN stack = 1 .. Len(stack) /\ 1 \in DOMAIN stack
  BY <1>1, Calling DEF Inv, TypeOK
<1>3. /\ Tree' /\ Queued' /\ Watches'
      /\ \A n : Lost(n)' <=> Lost(n)
      /\ \A d : Exists(d)' <=> Exists(d)
      /\ \A k, d : Pending(k, d)' <=> Pending(k, d)
      /\ UNCHANGED <<bound, containersWatched, inode, queue, changes, dropped, lost>>
  BY <1>1, StillWatched
<1>4. /\ stack' \in Seq(Frames) /\ stack' # << >> /\ Len(stack') = Len(stack) - 1
      /\ DOMAIN stack' = 1 .. Len(stack) - 1
      /\ \A i \in 1 .. Len(stack) - 1 : stack'[i] = stack[i + 1]
  BY <1>1, <1>2, Popped
<1>5. TypeOK'
  BY <1>1, <1>3, <1>4 DEF Inv, TypeOK
<1>6. Calls'
  <2>1. ASSUME NEW i \in DOMAIN stack'
        PROVE  /\ stack'[i].todo \subseteq { d \in NonRoot : InDir(d) = stack'[i].dir }
               /\ IF i < Len(stack')
                    THEN stack'[i].dir[2] # Root /\ InDir(stack'[i].dir) = stack'[i + 1].dir
                  ELSE IF event' = Start THEN stack'[i].dir[2] = Root
                       ELSE stack'[i].dir = event'.dir
    <3>1. i + 1 \in DOMAIN stack /\ stack'[i] = stack[i + 1]
          /\ (i < Len(stack') <=> i + 1 < Len(stack))
          /\ (i < Len(stack') => stack'[i + 1] = stack[i + 2])
      BY <1>2, <1>4
    <3> QED BY <1>1, <3>1 DEF Inv, Calls
  <2> QED BY <1>1, <2>1 DEF Inv, Calls
<1>7. CallsWatch'
  <2>1. ASSUME NEW i \in DOMAIN stack'
        PROVE  bound'[stack'[i].dir] # NoInode \/ stack'[i].dir[2] \in lost'
    <3>1. i + 1 \in DOMAIN stack /\ stack'[i] = stack[i + 1]
      BY <1>2, <1>4
    <3> QED BY <1>1, <1>3, <3>1 DEF Inv, CallsWatch
  <2> QED BY <2>1 DEF CallsWatch
<1>8. Working'
  BY <1>1 DEF Working
<1>9. Missing'
  <2>1. ASSUME NEW d \in NonRoot, ToBeAdded(d) PROVE ToBeAdded(d)'
    <3>1. PICK i \in DOMAIN stack : d \in stack[i].todo
      BY <1>1, <2>1 DEF ToBeAdded
    <3>2. i - 1 \in DOMAIN stack' /\ stack'[i - 1] = stack[i]
      BY <1>1, <1>2, <1>4, <3>1
    <3> QED BY <3>1, <3>2 DEF ToBeAdded
  <2>2. ASSUME NEW d \in NonRoot, Exists(d)', bound'[d] = NoInode
        PROVE  \/ Lost(d[2])' \/ bound'[InDir(d)] = NoInode
               \/ ToBeAdded(d)' \/ Pending("create", d)'
    BY <1>3, <2>1, <2>2 DEF Inv, Missing
  <2>3. ASSUME NEW h \in Hierarchies, bound'[<<h, Root>>] = NoInode
        PROVE  Root \in lost' \/ h \in starting'
    BY <1>1, <1>3, <2>3 DEF Inv, Missing
  <2> QED BY <2>2, <2>3 DEF Missing
<1>10. Telling'
  <2>1. event # Start => \/ stack'[Len(stack')].already
                         \/ told'[event.dir[2]] # "add" \/ event.dir[2] \in lost'
    <3>1. stack'[Len(stack')] = stack[Len(stack)]
      BY <1>1, <1>2, <1>4
    <3> QED BY <1>1, <1>2, <3>1 DEF Inv, Telling
  <2> QED BY <1>1, <1>3, <2>1 DEF Inv, Telling
<1>11. CreationIsToldOnce'
  BY <1>1 DEF Inv, CreationIsToldOnce
<1> QED BY <1>3, <1>5, <1>6, <1>7, <1>8, <1>9, <1>10, <1>11 DEF Inv

-----------------------------------------------------------------------------
(* WatchSubcontainers and processEvent.                                    *)

\* No call of watchDirectory is left.
LEMMA NoCalls ==
  ASSUME stack = << >>, pc \in {"start", "idle", "dead"}
  PROVE  /\ CallsWatch /\ Working
         /\ \A d : ~ ToBeAdded(d)
         /\ DOMAIN stack = {} /\ stack \in Seq(Frames)
<1>1. DOMAIN stack = {} /\ stack \in Seq(Frames)
  OBVIOUS
<1> QED BY <1>1 DEF CallsWatch, Working, ToBeAdded

LEMMA WatchedInv ==
  ASSUME Inv, Watched
  PROVE  Inv'
<1> DEFINE d0 == Top.dir
<1>1. /\ pc = "children" /\ Top.todo = {} /\ Len(stack) = 1 /\ stack' = << >>
      /\ pc' = IF event = Start THEN "start" ELSE "idle"
      /\ UNCHANGED <<kernelVars, watchVars, event, starting, lost>>
      /\ \/ UNCHANGED <<told, twice>>
         \/ event # Start /\ ~ Top.already /\ Deliver(d0[2], "add")
  BY DEF Watched, Finish
<1>2. /\ stack # << >> /\ stack \in Seq(Frames) /\ Top = stack[1]
      /\ DOMAIN stack = 1 .. 1 /\ 1 \in DOMAIN stack
      /\ d0 \in Dirs /\ d0[1] \in Hierarchies /\ d0[2] \in Names
  BY <1>1, Calling DEF Inv, TypeOK
<1>3. /\ Tree' /\ Queued' /\ Watches'
      /\ \A n : Lost(n)' <=> Lost(n)
      /\ \A d : Exists(d)' <=> Exists(d)
      /\ \A k, d : Pending(k, d)' <=> Pending(k, d)
      /\ UNCHANGED <<bound, containersWatched, inode, queue, changes, dropped, lost>>
  BY <1>1, StillWatched
<1>4. /\ CallsWatch' /\ Working' /\ \A d : ~ ToBeAdded(d)'
      /\ DOMAIN stack' = {} /\ stack' \in Seq(Frames)
  BY <1>1, NoCalls DEF CallsWatch, Working, ToBeAdded
<1>5. \/ UNCHANGED <<told, twice>>
      \/ /\ event # Start /\ event.dir = d0 /\ ~ stack[1].already
         /\ told' = [told EXCEPT ![d0[2]] = "add"]
         /\ twice' = IF told[d0[2]] = "add" THEN twice \cup {d0[2]} ELSE twice
  <2>1. event # Start => event.dir = d0
    BY <1>1, <1>2 DEF Inv, Calls
  <2> QED BY <1>1, <1>2, <2>1 DEF Deliver
<1>6. TypeOK'
  <2>1. told' \in [Names -> {"none", "add", "delete"}] /\ twice' \subseteq Names
    BY <1>2, <1>5 DEF Inv, TypeOK
  <2> QED BY <1>1, <1>3, <1>4, <2>1 DEF Inv, TypeOK
<1>7. Calls'
  BY <1>1, <1>4 DEF Inv, Calls
<1>8. Missing'
  <2>1. \A d : ~ ToBeAdded(d)
    BY <1>1, <1>2 DEF ToBeAdded
  <2>2. ASSUME NEW d \in NonRoot, Exists(d)', bound'[d] = NoInode
        PROVE  Lost(d[2])' \/ bound'[InDir(d)] = NoInode \/ Pending("create", d)'
    BY <1>3, <2>1, <2>2 DEF Inv, Missing
  <2>3. ASSUME NEW h \in Hierarchies, bound'[<<h, Root>>] = NoInode
        PROVE  Root \in lost' \/ h \in starting'
    BY <1>1, <1>3, <2>3 DEF Inv, Missing
  <2> QED BY <2>2, <2>3 DEF Missing
<1>9. Telling'
  <2>1. containersWatched[d0[2]] # {} \/ d0[2] \in lost
    <3>1. bound[d0] # NoInode \/ d0[2] \in lost
      BY <1>1, <1>2 DEF Inv, CallsWatch
    <3>2. bound[d0] # NoInode => d0[1] \in containersWatched[d0[2]]
      BY <1>2 DEF Inv, TypeOK
    <3> QED BY <3>1, <3>2
  <2>2. ASSUME NEW n \in Names, told'[n] = "add"
        PROVE  containersWatched'[n] # {} \/ n \in lost'
    <3>1. n = d0[2] \/ told[n] = "add"
      BY <1>2, <1>5, <2>2 DEF Inv, TypeOK
    <3> QED BY <1>1, <1>3, <2>1, <3>1 DEF Inv, Telling
  <2> QED BY <1>1, <2>2 DEF Telling
<1>10. CreationIsToldOnce'
  <2>1. event # Start /\ event.dir = d0 /\ ~ stack[1].already
          => told[d0[2]] # "add" \/ d0[2] \in lost
    BY <1>1, <1>2 DEF Inv, Telling
  <2> QED BY <1>1, <1>5, <2>1 DEF Inv, CreationIsToldOnce
<1> QED BY <1>3, <1>4, <1>6, <1>7, <1>8, <1>9, <1>10 DEF Inv

\* One call of watchDirectory, that has done nothing yet.
LEMMA OneCall ==
  ASSUME NEW d \in Dirs, stack' = <<Frame(d)>>
  PROVE  /\ stack' \in Seq(Frames) /\ stack' # << >> /\ Len(stack') = 1 /\ DOMAIN stack' = {1}
         /\ stack'[1] = [dir |-> d, already |-> FALSE, todo |-> {}]
         /\ Top' = stack'[1] /\ Top'.dir = d
<1>1. Frame(d) \in Frames /\ Frame(d) = [dir |-> d, already |-> FALSE, todo |-> {}]
  BY DEF Frame, Frames
<1>2. /\ stack' \in Seq(Frames) /\ Len(stack') = 1 /\ DOMAIN stack' = {1}
      /\ stack'[1] = Frame(d) /\ stack' # << >>
  BY <1>1
<1> QED BY <1>1, <1>2, FirstOf DEF Top

LEMMA WatchRootInv ==
  ASSUME Inv, WatchRoot
  PROVE  Inv'
<1>1. PICK h0 \in starting : starting' = starting \ {h0} /\ stack' = <<Frame(<<h0, Root>>)>>
  BY DEF WatchRoot
<1>2. /\ pc = "start" /\ pc' = "add" /\ event = Start
      /\ UNCHANGED <<kernelVars, watchVars, event, toldVars>> /\ UNCHANGED <<lost, told, twice>>
      /\ stack = << >> /\ starting \subseteq Hierarchies
  BY DEF WatchRoot, Inv, Calls, TypeOK, toldVars
<1>3. /\ Tree' /\ Queued' /\ Watches'
      /\ \A n : Lost(n)' <=> Lost(n)
      /\ \A d : Exists(d)' <=> Exists(d)
      /\ \A k, d : Pending(k, d)' <=> Pending(k, d)
      /\ UNCHANGED <<bound, containersWatched, inode, queue, changes, dropped, lost>>
  BY <1>2, StillWatched
<1>4. /\ stack' \in Seq(Frames) /\ stack' # << >> /\ Len(stack') = 1 /\ DOMAIN stack' = {1}
      /\ stack'[1] = [dir |-> <<h0, Root>>, already |-> FALSE, todo |-> {}]
      /\ Top'.dir = <<h0, Root>>
  <2>1. <<h0, Root>> \in Dirs
    BY <1>2, NameAssumption DEF Dirs
  <2> QED BY <1>1, <2>1, OneCall
<1>5. TypeOK'
  BY <1>1, <1>2, <1>3, <1>4 DEF Inv, TypeOK
<1>6. Calls'
  <2>1. stack'[1].todo = {} /\ stack'[1].dir[2] = Root
    BY <1>4
  <2> QED BY <1>2, <1>4, <2>1 DEF Calls
<1>7. CallsWatch' /\ Working' /\ Telling'
  BY <1>2, <1>3, <1>4 DEF Inv, CallsWatch, Working, Telling
<1>8. Missing'
  <2>1. \A d : ~ ToBeAdded(d)
    BY <1>2, NoCalls
  <2>2. ASSUME NEW d \in NonRoot, Exists(d)', bound'[d] = NoInode
        PROVE  Lost(d[2])' \/ bound'[InDir(d)] = NoInode \/ Pending("create", d)'
    BY <1>3, <2>1, <2>2 DEF Inv, Missing
  <2>3. ASSUME NEW h \in Hierarchies, bound'[<<h, Root>>] = NoInode
        PROVE  Root \in lost' \/ h \in starting' \/ (pc = "add" /\ Top.dir = <<h, Root>>)'
    <3>1. Root \in lost \/ h \in starting
      BY <1>2, <1>3, <2>3 DEF Inv, Missing
    <3> QED BY <1>1, <1>2, <1>4, <3>1
  <2> QED BY <2>2, <2>3 DEF Missing
<1>9. CreationIsToldOnce'
  BY <1>2 DEF Inv, CreationIsToldOnce
<1> QED BY <1>3, <1>5, <1>6, <1>7, <1>8, <1>9 DEF Inv

LEMMA StartedInv ==
  ASSUME Inv, Started
  PROVE  Inv'
<1>1. /\ pc = "start" /\ pc' = "idle" /\ starting = {} /\ stack = << >> /\ stack' = << >>
      /\ UNCHANGED <<kernelVars, watchVars, event, starting, toldVars>>
      /\ UNCHANGED <<lost, told, twice>>
  BY DEF Started, Inv, TypeOK, toldVars
<1>2. /\ Tree' /\ Queued' /\ Watches'
      /\ \A n : Lost(n)' <=> Lost(n)
      /\ \A d : Exists(d)' <=> Exists(d)
      /\ \A k, d : Pending(k, d)' <=> Pending(k, d)
      /\ UNCHANGED <<bound, containersWatched, inode, queue, changes, dropped, lost>>
  BY <1>1, StillWatched
<1>3. /\ CallsWatch' /\ Working' /\ DOMAIN stack' = {} /\ stack' \in Seq(Frames)
  BY <1>1, NoCalls DEF CallsWatch, Working
<1>4. TypeOK' /\ Telling' /\ CreationIsToldOnce'
  BY <1>1, <1>2, <1>3 DEF Inv, TypeOK, Telling, CreationIsToldOnce
<1>5. Calls'
  BY <1>1, <1>3 DEF Calls
<1>6. Missing'
  <2>1. \A d : ~ ToBeAdded(d)
    BY <1>1, NoCalls
  <2> QED BY <1>1, <1>2, <2>1 DEF Inv, Missing
<1> QED BY <1>2, <1>3, <1>4, <1>5, <1>6 DEF Inv

\* The event that is taken is of a directory, and what it told of is not pending
\* any longer, unless it was told of again.
LEMMA Taken ==
  ASSUME Inv, TakeEvent
  PROVE  /\ event' \in Changed /\ event'.dir \in NonRoot /\ event' # Start
         /\ event'.dir \in Dirs /\ event'.dir[1] \in Hierarchies /\ event'.dir[2] \in Names
         /\ event' = [kind |-> event'.kind, dir |-> event'.dir]
         /\ queue' \in Seq(Changed)
         /\ \A d \in NonRoot :
              /\ Pending("create", d)' => Pending("create", d)
              /\ Pending("create", d) =>
                   Pending("create", d)' \/ (event'.kind = "create" /\ event'.dir = d)
              /\ Pending("delete", d)' => Pending("delete", d)
              /\ Pending("delete", d) =>
                   Pending("delete", d)' \/ (event'.kind = "delete" /\ event'.dir = d)
              /\ Reborn(d)' => Reborn(d)
              /\ Pending("create", d)' /\ event'.kind = "delete" /\ event'.dir = InDir(d)
                   => Reborn(d)
              /\ event'.kind = "create" /\ event'.dir = d => Pending("create", d)
              /\ event'.kind = "delete" /\ event'.dir = d => Pending("delete", d)
         /\ UNCHANGED <<inode, dropped, changes, starting>>
         /\ \A d : Exists(d)' <=> Exists(d)
         /\ starting = {} /\ stack = << >> /\ \A d : ~ ToBeAdded(d)
<1>1. /\ pc = "idle" /\ queue # << >> /\ event' = Head(queue) /\ queue' = Tail(queue)
      /\ UNCHANGED <<inode, dropped, changes, starting>> /\ queue \in Seq(Changed)
  BY DEF TakeEvent, Inv, TypeOK
<1>2. /\ event' \in Changed /\ queue' \in Seq(Changed)
      /\ \A d \in NonRoot :
           /\ Pending("create", d)' => Pending("create", d)
           /\ Pending("create", d) =>
                Pending("create", d)' \/ event' = [kind |-> "create", dir |-> d]
           /\ Pending("delete", d)' => Pending("delete", d)
           /\ Pending("delete", d) =>
                Pending("delete", d)' \/ event' = [kind |-> "delete", dir |-> d]
           /\ Reborn(d)' => Reborn(d)
           /\ Pending("create", d)' /\ event' = [kind |-> "delete", dir |-> InDir(d)] => Reborn(d)
           /\ event' = [kind |-> "create", dir |-> d] => Pending("create", d)
           /\ event' = [kind |-> "delete", dir |-> d] => Pending("delete", d)
  BY <1>1, QueueTail
<1>3. /\ event'.dir \in NonRoot /\ event' # Start
      /\ event' = [kind |-> event'.kind, dir |-> event'.dir]
  BY <1>2 DEF Changed, NonRoot, Start
<1>4. event'.dir \in Dirs /\ event'.dir[1] \in Hierarchies /\ event'.dir[2] \in Names
  BY <1>3 DEF NonRoot, Dirs
<1>5. starting = {} /\ stack = << >> /\ \A d : ~ ToBeAdded(d)
  BY <1>1, NoCalls DEF Inv, Calls, TypeOK
<1>6. \A d : Exists(d)' <=> Exists(d)
  BY <1>1 DEF Exists
<1>7. \A k, d : event' = [kind |-> k, dir |-> d] <=> event'.kind = k /\ event'.dir = d
  BY <1>3
<1> QED BY <1>1, <1>2, <1>3, <1>4, <1>5, <1>6, <1>7

LEMMA CreatedInv ==
  ASSUME Inv, Created
  PROVE  Inv'
<1> DEFINE e == event'.dir
<1>1. /\ event'.kind = "create" /\ pc = "idle" /\ pc' = "add" /\ stack' = <<Frame(e)>>
      /\ UNCHANGED <<bound, containersWatched, told, lost, twice>>
  BY DEF Created, TakeEvent, watchVars, toldVars
<1>2. /\ event' \in Changed /\ e \in NonRoot /\ event' # Start /\ e \in Dirs
      /\ queue' \in Seq(Changed)
      /\ \A d \in NonRoot :
           /\ Pending("create", d)' => Pending("create", d)
           /\ Pending("create", d) => Pending("create", d)' \/ e = d
           /\ Pending("delete", d)' <=> Pending("delete", d)
           /\ Reborn(d)' => Reborn(d)
      /\ Pending("create", e)
      /\ UNCHANGED <<inode, dropped, changes, starting>>
      /\ \A d : Exists(d)' <=> Exists(d)
      /\ starting = {} /\ stack = << >> /\ \A d : ~ ToBeAdded(d)
  BY <1>1, Taken DEF Created
<1>3. \A n : Lost(n)' <=> Lost(n)
  BY <1>1 DEF Lost
<1>4. /\ stack' \in Seq(Frames) /\ stack' # << >> /\ Len(stack') = 1 /\ DOMAIN stack' = {1}
      /\ stack'[1] = [dir |-> e, already |-> FALSE, todo |-> {}]
      /\ Top'.dir = e
  BY <1>1, <1>2, OneCall
<1>5. TypeOK'
  BY <1>1, <1>2, <1>4 DEF Inv, TypeOK
<1>6. Tree'
  BY <1>2 DEF Inv, Tree
<1>7. Calls'
  <2>1. stack'[1].todo = {} /\ stack'[1].dir = event'.dir
    BY <1>4
  <2> QED BY <1>1, <1>2, <1>4, <2>1 DEF Calls
<1>8. CallsWatch'
  BY <1>1, <1>4 DEF CallsWatch
<1>9. Queued'
  BY <1>1, <1>2, <1>3 DEF Inv, Queued
<1>10. Working'
  BY <1>1, <1>2, <1>3 DEF Inv, Queued, Working
<1>11. Watches'
  <2>1. \A d \in Dirs : d[2] # Root => d \in NonRoot
    BY DEF NonRoot
  <2> QED BY <1>1, <1>2, <1>3, <2>1 DEF Inv, Watches
<1>12. Missing'
  <2>1. ASSUME NEW d \in NonRoot, Exists(d)', bound'[d] = NoInode
        PROVE  \/ Lost(d[2])' \/ bound'[InDir(d)] = NoInode
               \/ ToBeAdded(d)' \/ Pending("create", d)'
    <3>1. e = d => ToBeAdded(d)'
      BY <1>1, <1>4 DEF ToBeAdded
    <3> QED BY <1>1, <1>2, <1>3, <2>1, <3>1 DEF Inv, Missing
  <2>2. ASSUME NEW h \in Hierarchies, bound'[<<h, Root>>] = NoInode
        PROVE  Root \in lost' \/ h \in starting'
    BY <1>1, <1>2, <2>2 DEF Inv, Missing
  <2> QED BY <2>1, <2>2 DEF Missing
<1>13. Telling' /\ CreationIsToldOnce'
  BY <1>1, <1>4 DEF Inv, Telling, CreationIsToldOnce
<1> QED BY <1>5, <1>6, <1>7, <1>8, <1>9, <1>10, <1>11, <1>12, <1>13 DEF Inv

LEMMA DeletedInv ==
  ASSUME Inv, Deleted
  PROVE  Inv'
<1> DEFINE e == event'.dir
<1>1. /\ event'.kind = "delete" /\ pc = "idle" /\ pc' = "idle" /\ UNCHANGED stack
      /\ \/ UNCHANGED watchVars /\ lost' = lost \cup {e[2]} /\ UNCHANGED <<told, twice>>
         \/ /\ RmWorks(e) /\ UNCHANGED lost
            /\ IF WasLast(e) THEN Deliver(e[2], "delete") ELSE UNCHANGED <<told, twice>>
  BY DEF Deleted, TakeEvent, RmFails
<1>2. /\ event' \in Changed /\ e \in NonRoot /\ event' # Start
      /\ e \in Dirs /\ e[1] \in Hierarchies /\ e[2] \in Names
      /\ queue' \in Seq(Changed)
      /\ \A d \in NonRoot :
           /\ Pending("create", d)' <=> Pending("create", d)
           /\ Pending("delete", d)' => Pending("delete", d)
           /\ Pending("delete", d) => Pending("delete", d)' \/ e = d
           /\ Reborn(d)' => Reborn(d)
           /\ Pending("create", d)' /\ e = InDir(d) => Reborn(d)
      /\ Pending("delete", e)
      /\ UNCHANGED <<inode, dropped, changes, starting>>
      /\ \A d : Exists(d)' <=> Exists(d)
      /\ starting = {} /\ stack = << >> /\ \A d : ~ ToBeAdded(d)
  BY <1>1, Taken DEF Deleted
<1>3. /\ stack' = << >> /\ CallsWatch' /\ Working' /\ stack' \in Seq(Frames) /\ DOMAIN stack' = {}
  BY <1>1, <1>2 DEF CallsWatch, Working
<1>4. lost \subseteq lost'
  BY <1>1
<1>5. /\ \A n \in Names : Lost(n) => Lost(n)'
      /\ \A n \in lost' : Lost(n)'
      /\ \A n \in lost : Lost(n)
      /\ \A d \in NonRoot : Lost(InDir(d)[2]) => Lost(d[2])
      /\ \A d \in NonRoot : Lost(InDir(d)[2])' => Lost(d[2])'
  BY <1>4, LostGrows, LostBelow
<1>6. /\ bound \in [Dirs -> 0 .. MaxChanges + 1]
      /\ containersWatched \in [Names -> SUBSET Hierarchies]
      /\ \A d \in Dirs : (bound[d] # NoInode) = (d[1] \in containersWatched[d[2]])
      /\ lost \subseteq Names /\ twice \subseteq Names
      /\ told \in [Names -> {"none", "add", "delete"}]
  BY DEF Inv, TypeOK
<1>7. /\ \A d \in Dirs : d # e => bound'[d] = bound[d]
      /\ bound'[e] = NoInode \/ (bound'[e] = bound[e] /\ e[2] \in lost')
      /\ bound' \in [Dirs -> 0 .. MaxChanges + 1]
      /\ containersWatched' \in [Names -> SUBSET Hierarchies]
      /\ \A n \in Names \ {e[2]} : containersWatched'[n] = containersWatched[n]
      /\ \A d \in Dirs : (bound'[d] # NoInode) = (d[1] \in containersWatched'[d[2]])
  <2>1. CASE UNCHANGED watchVars /\ lost' = lost \cup {e[2]}
    BY <1>6, <2>1 DEF watchVars
  <2>2. CASE RmWorks(e)
    BY <1>2, <2>2, RmWorksWatches DEF Inv
  <2> QED BY <1>1, <2>1, <2>2
<1>8. /\ told'[e[2]] = "add" => containersWatched'[e[2]] # {} \/ e[2] \in lost'
      /\ \A n \in Names \ {e[2]} : told'[n] = told[n]
      /\ twice' = twice
      /\ told' \in [Names -> {"none", "add", "delete"}]
  <2>1. CASE UNCHANGED watchVars /\ lost' = lost \cup {e[2]} /\ UNCHANGED <<told, twice>>
    BY <1>6, <2>1
  <2>2. CASE RmWorks(e) /\ WasLast(e) /\ Deliver(e[2], "delete")
    BY <1>2, <1>6, <2>2 DEF Deliver
  <2>3. CASE RmWorks(e) /\ ~ WasLast(e) /\ UNCHANGED <<told, twice>>
    <3>1. containersWatched[e[2]] # {} => containersWatched'[e[2]] # {}
      BY <2>3 DEF WasLast
    <3>2. told[e[2]] = "add" => containersWatched[e[2]] # {} \/ e[2] \in lost
      BY <1>2 DEF Inv, Telling
    <3> QED BY <1>4, <1>6, <2>3, <3>1, <3>2
  <2> QED BY <1>1, <2>1, <2>2, <2>3
<1>9. lost' \subseteq Names
  BY <1>1, <1>2, <1>6
<1>10. TypeOK'
  BY <1>1, <1>2, <1>3, <1>6, <1>7, <1>8, <1>9 DEF Inv, TypeOK
<1>11. Tree'
  BY <1>2 DEF Inv, Tree
<1>12. Calls'
  BY <1>1, <1>2, <1>3 DEF Calls
<1>13. Queued'
  <2>1. ASSUME NEW d \in NonRoot
        PROVE  /\ Pending("delete", d)' /\ Exists(d)' => d[2] \in lost'
               /\ Reborn(d)' => Lost(d[2])'
               /\ Pending("create", d)' => bound'[InDir(d)] # NoInode \/ Lost(d[2])'
    <3>1. d[2] \in Names /\ InDir(d) \in Dirs
      BY Above
    <3>2. Pending("delete", d)' /\ Exists(d)' => d[2] \in lost'
      BY <1>2, <1>4 DEF Inv, Queued
    <3>3. Reborn(d)' => Lost(d[2])'
      BY <1>2, <1>5, <3>1 DEF Inv, Queued
    <3>4. Pending("create", d)' => bound'[InDir(d)] # NoInode \/ Lost(d[2])'
      <4>1. CASE InDir(d) = e
        BY <1>2, <1>5, <3>1, <4>1 DEF Inv, Queued
      <4>2. CASE InDir(d) # e
        BY <1>2, <1>5, <1>7, <3>1, <4>2 DEF Inv, Queued
      <4> QED BY <4>1, <4>2
    <3> QED BY <3>2, <3>3, <3>4
  <2> QED BY <2>1 DEF Queued
<1>14. Watches'
  <2>1. ASSUME NEW d \in Dirs, bound'[d] # NoInode, bound'[d] # inode'[d]
        PROVE  Lost(d[2])' \/ (d[2] # Root /\ ~ Exists(d)' /\ Pending("delete", d)')
    <3>1. d[2] \in Names /\ (d[2] # Root => d \in NonRoot)
      BY DEF Dirs, NonRoot
    <3>2. CASE d = e
      BY <1>5, <1>7, <2>1, <3>2
    <3>3. CASE d # e
      BY <1>2, <1>5, <1>7, <2>1, <3>1, <3>3 DEF Inv, Watches
    <3> QED BY <3>2, <3>3
  <2>2. ASSUME NEW d \in NonRoot, Exists(d)', bound'[d] # NoInode
        PROVE  Lost(d[2])' \/ bound'[InDir(d)] = inode'[InDir(d)]
    <3>1. d \in Dirs /\ InDir(d) \in Dirs /\ d[2] \in Names /\ Exists(d)
      BY <1>2, <2>2, Above
    <3>2. bound[d] # NoInode
      BY <1>7, <2>2, <3>1
    <3>3. CASE InDir(d) = e
      <4>1. e[2] \in lost
        BY <1>2, <3>1, <3>3 DEF Inv, Tree, Queued
      <4> QED BY <1>4, <1>5, <3>3, <4>1
    <3>4. CASE InDir(d) # e
      BY <1>2, <1>5, <1>7, <3>1, <3>2, <3>4 DEF Inv, Watches
    <3> QED BY <3>3, <3>4
  <2> QED BY <2>1, <2>2 DEF Watches
<1>15. Missing'
  <2>1. ASSUME NEW d \in NonRoot, Exists(d)', bound'[d] = NoInode
        PROVE  Lost(d[2])' \/ bound'[InDir(d)] = NoInode \/ Pending("create", d)'
    <3>1. d \in Dirs /\ InDir(d) \in Dirs /\ d[2] \in Names /\ Exists(d)
      BY <1>2, <2>1, Above
    <3>2. CASE d = e
      BY <1>2, <1>4, <1>5, <3>1, <3>2 DEF Inv, Queued
    <3>3. CASE d # e
      <4>1. bound[d] = NoInode
        BY <1>7, <2>1, <3>1, <3>3
      <4>2. Lost(d[2]) \/ bound[InDir(d)] = NoInode \/ Pending("create", d)
        BY <1>2, <3>1, <4>1 DEF Inv, Missing
      <4>3. bound[InDir(d)] = NoInode => bound'[InDir(d)] = NoInode
        BY <1>7, <3>1
      <4> QED BY <1>2, <1>5, <3>1, <4>2, <4>3
    <3> QED BY <3>2, <3>3
  <2>2. ASSUME NEW h \in Hierarchies, bound'[<<h, Root>>] = NoInode
        PROVE  Root \in lost' \/ h \in starting'
    <3>1. <<h, Root>> \in Dirs /\ <<h, Root>> # e
      BY <1>2, NameAssumption DEF Dirs, NonRoot
    <3>2. bound[<<h, Root>>] = NoInode
      BY <1>7, <2>2, <3>1
    <3> QED BY <1>1, <1>2, <1>4, <3>2 DEF Inv, Missing
  <2> QED BY <2>1, <2>2 DEF Missing
<1>16. Telling'
  <2>1. ASSUME NEW n \in Names, told'[n] = "add"
        PROVE  containersWatched'[n] # {} \/ n \in lost'
    BY <1>4, <1>7, <1>8, <2>1 DEF Inv, Telling
  <2> QED BY <1>3, <2>1 DEF Telling
<1>17. CreationIsToldOnce'
  BY <1>4, <1>8 DEF Inv, CreationIsToldOnce
<1> QED BY <1>3, <1>10, <1>11, <1>12, <1>13, <1>14, <1>15, <1>16, <1>17 DEF Inv

-----------------------------------------------------------------------------
(* The theorems.                                                           *)

LEMMA InitInv == Init => Inv
<1> SUFFICES ASSUME Init PROVE Inv
  OBVIOUS
<1>1. /\ inode \in [Dirs -> {NoInode, 1}] /\ bound = [d \in Dirs |-> NoInode]
      /\ containersWatched = [n \in Names |-> {}] /\ told = [n \in Names |-> "none"]
      /\ dropped = {} /\ changes = 0 /\ queue = << >> /\ pc = "start" /\ event = Start
      /\ stack = << >> /\ starting = Hierarchies /\ lost = {} /\ twice = {}
  BY DEF Init
<1>2. {0, 1} \subseteq 0 .. MaxChanges + 1 /\ 0 \in 0 .. MaxChanges
  BY ChangesAssumption
<1>3. TypeOK
  <2>1. {inode, bound} \subseteq [Dirs -> 0 .. MaxChanges + 1]
    BY <1>1, <1>2 DEF NoInode
  <2>2. queue \in Seq(Changed) /\ stack \in Seq(Frames)
    BY <1>1
  <2>3. \A d \in Dirs : (bound[d] # NoInode) = (d[1] \in containersWatched[d[2]])
    BY <1>1 DEF Dirs
  <2> QED BY <1>1, <1>2, <2>1, <2>2, <2>3 DEF TypeOK
<1>4. Tree
  BY DEF Init, Tree, NonRoot
<1>5. Calls /\ CallsWatch /\ Working /\ Telling /\ CreationIsToldOnce
  BY <1>1, NoCalls DEF Calls, Telling, CreationIsToldOnce
<1>6. Queued
  <2>1. DOMAIN queue = {}
    BY <1>1
  <2> QED BY <2>1 DEF Queued, Pending, Reborn
<1>7. Watches /\ Missing
  BY <1>1, Above DEF Watches, Missing
<1> QED BY <1>3, <1>4, <1>5, <1>6, <1>7 DEF Inv

LEMMA NextInv == Inv /\ [Next]_vars => Inv'
<1> SUFFICES ASSUME Inv, [Next]_vars PROVE Inv'
  OBVIOUS
<1>1. CASE Kernel
  BY <1>1, MakeDirInv, RemoveDirInv, RenameInv DEF Kernel
<1>2. CASE WatchDirectory
  BY <1>2, AddWatchInv, AddWatchFailsInv, ReadDirInv, WatchChildInv, CleanupInv,
     ReturnToParentInv, WatchedInv DEF WatchDirectory
<1>3. CASE WatchRoot \/ Started \/ Created \/ Deleted
  BY <1>3, WatchRootInv, StartedInv, CreatedInv, DeletedInv
<1>4. CASE UNCHANGED vars
  <2>1. UNCHANGED <<kernelVars, watchVars, lost>> /\ UNCHANGED <<callVars, toldVars>>
    BY <1>4 DEF vars, toldVars
  <2>2. /\ Tree' /\ Queued' /\ Watches'
        /\ \A n : Lost(n)' <=> Lost(n)
        /\ \A d : Exists(d)' <=> Exists(d)
        /\ \A k, d : Pending(k, d)' <=> Pending(k, d)
        /\ UNCHANGED <<bound, containersWatched, inode, queue, changes, dropped, lost>>
    BY <2>1, StillWatched
  <2>3. UNCHANGED <<pc, event, stack, starting, told, twice>>
    BY <2>1 DEF callVars, toldVars
  <2>4. TypeOK' /\ Calls' /\ CallsWatch' /\ Working' /\ Telling' /\ CreationIsToldOnce'
    BY <2>2, <2>3 DEF Inv, TypeOK, Calls, CallsWatch, Working, Telling, CreationIsToldOnce
  <2>5. Missing'
    <3>1. \A d : ToBeAdded(d)' <=> ToBeAdded(d)
      BY <2>3 DEF ToBeAdded, Top
    <3> QED BY <2>2, <2>3, <3>1 DEF Inv, Missing, Top
  <2> QED BY <2>2, <2>4, <2>5 DEF Inv
<1> QED BY <1>1, <1>2, <1>3, <1>4 DEF Next

\* The invariant of the watches holds of every behaviour.
THEOREM WatchesAreRight == Spec => []Inv
<1>1. Inv /\ [Next]_vars => Inv'
  BY NextInv
<1> QED BY <1>1, InitInv, PTL DEF Spec

\* The records of the watcher are those of its watches, and the calls of
\* watchDirectory nest (raw/handler.go:405, inotify_watcher.go:36).
THEOREM WatchTypes == Spec => []TypeOK
<1>1. Inv => TypeOK
  BY DEF Inv
<1> QED BY <1>1, WatchesAreRight, PTL

\* The creation of a container is delivered once, until its deletion is, unless it
\* is lost (raw/handler.go:479).
THEOREM ToldOnce == Spec => []CreationIsToldOnce
<1>1. Inv => CreationIsToldOnce
  BY DEF Inv
<1> QED BY <1>1, WatchesAreRight, PTL

\* When all is worked off, every directory that exists is watched, by its own
\* inode, down from the root.
LEMMA QuietWatches ==
  ASSUME Inv, Quiet
  PROVE  \A d \in Dirs : bound[d] = inode[d] \/ Lost(d[2])
<1>1. /\ stack = << >> /\ DOMAIN stack = {} /\ pc = "idle" /\ starting = {}
      /\ \A d : ~ ToBeAdded(d)
      /\ \A k, d : ~ Pending(k, d)
  <2>1. queue = << >> /\ pc = "idle" /\ stack = << >>
    BY DEF Quiet, Inv, TypeOK
  <2>2. DOMAIN queue = {}
    BY <2>1
  <2> QED BY <2>1, <2>2, NoCalls DEF Inv, Calls, Pending
<1> DEFINE S == { n \in Names : \A h \in Hierarchies :
                    bound[<<h, n>>] = inode[<<h, n>>] \/ Lost(n) }
<1>2. \A d \in Dirs : bound[d] # NoInode => bound[d] = inode[d] \/ Lost(d[2])
  BY <1>1 DEF Inv, Watches
<1>3. Root \in S
  <2>1. ASSUME NEW h \in Hierarchies
        PROVE  bound[<<h, Root>>] = inode[<<h, Root>>] \/ Lost(Root)
    <3>1. <<h, Root>> \in Dirs /\ <<h, Root>>[2] = Root
      BY NameAssumption DEF Dirs
    <3>2. bound[<<h, Root>>] = NoInode => Root \in lost
      BY <1>1 DEF Inv, Missing
    <3> QED BY <1>2, <3>1, <3>2, LostBelow
  <2> QED BY <2>1, NameAssumption
<1>4. ASSUME NEW n \in Names \ {Root}, Parent[n] \in S PROVE n \in S
  <2>1. ASSUME NEW h \in Hierarchies, ~ Lost(n)
        PROVE  bound[<<h, n>>] = inode[<<h, n>>]
    <3> DEFINE d == <<h, n>>
    <3>1. d \in NonRoot /\ d \in Dirs /\ d[2] = n
      BY DEF Dirs, NonRoot
    <3>2. InDir(d) = <<h, Parent[n]>> /\ InDir(d)[2] = Parent[n] /\ InDir(d) \in Dirs
      BY <3>1, Above DEF InDir
    <3>3. bound[InDir(d)] = inode[InDir(d)]
      <4>1. ~ Lost(Parent[n])
        BY <2>1, <3>1, <3>2, LostBelow
      <4> QED BY <1>4, <3>2, <4>1
    <3>4. CASE Exists(d)
      <4>1. bound[InDir(d)] # NoInode
        BY <3>1, <3>3, <3>4 DEF Inv, Tree, Exists
      <4>2. bound[d] # NoInode
        BY <1>1, <2>1, <3>1, <3>4, <4>1 DEF Inv, Missing
      <4> QED BY <1>2, <2>1, <3>1, <4>2
    <3>5. CASE ~ Exists(d)
      BY <1>2, <2>1, <3>1, <3>5 DEF Exists
    <3> QED BY <3>4, <3>5
  <2> QED BY <2>1
<1>5. S = Names
  <2>1. S \in SUBSET Names /\ Downward(S)
    BY <1>4 DEF Downward
  <2> HIDE DEF S
  <2> QED BY <1>3, <2>1, PathAssumption
<1>6. ASSUME NEW d \in Dirs PROVE bound[d] = inode[d] \/ Lost(d[2])
  <2>1. d = <<d[1], d[2]>> /\ d[1] \in Hierarchies /\ d[2] \in S
    BY <1>5 DEF Dirs
  <2> QED BY <2>1
<1> QED BY <1>6

\* When all events are worked off, exactly the directories that exist are watched
\* and a container whose creation was told last exists, but for the lost: those
\* whose watch was not made (inotify_watcher.go:44) or not removed, whose
\* directory came back before its end was worked off or was renamed, or of which
\* a full queue of inotify did not tell, and what lies in them
\* (raw/handler.go:405-454, 470-493).
THEOREM QuietIsKnown == Spec => []QuietMeansKnown
<1>1. ASSUME Inv PROVE QuietMeansKnown
  <2> SUFFICES ASSUME Quiet
               PROVE  /\ \A d \in Dirs : bound[d] = inode[d] \/ Lost(d[2])
                      /\ \A n \in Names : told[n] = "add" =>
                           Lost(n) \/ \E h \in Hierarchies : Exists(<<h, n>>)
    BY DEF QuietMeansKnown
  <2>1. \A d \in Dirs : bound[d] = inode[d] \/ Lost(d[2])
    BY <1>1, QuietWatches
  <2>2. ASSUME NEW n \in Names, told[n] = "add", ~ Lost(n)
        PROVE  \E h \in Hierarchies : Exists(<<h, n>>)
    <3>1. containersWatched[n] # {} /\ containersWatched[n] \subseteq Hierarchies
      BY <1>1, <2>2, LostBelow DEF Inv, Telling, TypeOK
    <3>2. PICK h \in Hierarchies : h \in containersWatched[n]
      BY <3>1
    <3>3. <<h, n>> \in Dirs /\ <<h, n>>[1] = h /\ <<h, n>>[2] = n
      BY DEF Dirs
    <3>4. bound[<<h, n>>] # NoInode
      BY <1>1, <3>2, <3>3 DEF Inv, TypeOK
    <3>5. bound[<<h, n>>] = inode[<<h, n>>]
      BY <2>1, <2>2, <3>3
    <3> QED BY <3>4, <3>5 DEF Exists
  <2> QED BY <2>1, <2>2
<1> QED BY <1>1, WatchesAreRight, PTL
=============================================================================
