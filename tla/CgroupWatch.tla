---------------------------- MODULE CgroupWatch ----------------------------
(***************************************************************************)
(* How the raw handler of "/" watches the cgroups                          *)
(* (src/domeagent/monitor/container/raw/handler.go and                     *)
(* inotify_watcher.go): an inotify watch on every directory of every       *)
(* hierarchy, the record of whose containers they are, and the events it   *)
(* delivers to the manager.  A directory that goes and comes back is       *)
(* another inode, and a watch is one of an inode.                          *)
(***************************************************************************)
EXTENDS Naturals, FiniteSets, Sequences

CONSTANTS
  Hierarchies, \* the cgroup mount points
  Names,       \* names of containers
  Root,        \* "/"
  Parent,      \* the container a name lies in
  NewNames,    \* bound: the names a directory has only when it was renamed
  MaxChanges   \* bound: directories made, removed and renamed

ASSUME NameAssumption ==
  Root \in Names /\ Parent \in [Names \ {Root} -> Names] /\ NewNames \subseteq Names \ {Root}

\* S has with a container all that lie in it
Downward(S) == \A n \in Names \ {Root} : Parent[n] \in S => n \in S
\* names are paths: every container lies below the root
ASSUME PathAssumption == \A S \in SUBSET Names : Root \in S /\ Downward(S) => S = Names
ASSUME ChangesAssumption == MaxChanges \in Nat

VARIABLES
  \* the kernel: the inode of each directory, the directories whose inotify
  \* watch went with the inode, changes so far, inotify events
  inode, dropped, changes, queue,
  \* InotifyWatcher: the inode each watch is of, and containersWatched
  bound, containersWatched,
  \* the watcher goroutine: label, event, and the calls of watchDirectory,
  \* the innermost first; the hierarchies WatchSubcontainers has still to watch
  pc, event, stack, starting,
  \* history: the last event delivered per container, the names whose watch was
  \* not made or not removed, whose directory came back before the event of its
  \* end was worked off, that inotify had no room to tell of, or that lie in a
  \* renamed directory, and those whose creation was delivered twice
  told, lost, twice

kernelVars == <<inode, dropped, changes, queue>>
watchVars == <<bound, containersWatched>>
callVars == <<pc, event, stack, starting>>
toldVars == <<told, lost, twice>>
vars == <<kernelVars, watchVars, callVars, toldVars>>

Dirs == Hierarchies \X Names
NoInode == 0
Start == [kind |-> "start"]
Exists(d) == inode[d] # NoInode
InDir(d) == <<d[1], Parent[d[2]]>>
Children(d) == { e \in Dirs : e[2] # Root /\ Exists(e) /\ InDir(e) = d }
\* an event; a directory that is renamed is told of as one that goes and one that comes
Note(kind, d) == [kind |-> kind, dir |-> d]
Pending(kind, d) == \E i \in DOMAIN queue : queue[i] = Note(kind, d)
\* n and what lies below it
Below == [n \in Names |-> { m \in Names : \A S \in SUBSET Names : n \in S /\ Downward(S) => m \in S }]
Under == [d \in Dirs |-> { e \in Dirs : e[1] = d[1] /\ e[2] \in Below[d[2]] }]
Frame(d) == [dir |-> d, already |-> FALSE, todo |-> {}]
Top == Head(stack)

Init ==
  /\ inode \in [Dirs -> {NoInode, 1}]
  /\ \A d \in Dirs : IF d[2] = Root THEN Exists(d)
                     ELSE Exists(d) => Exists(InDir(d)) /\ d[2] \notin NewNames
  /\ dropped = {} /\ changes = 0 /\ queue = << >>
  /\ bound = [d \in Dirs |-> NoInode] /\ containersWatched = [n \in Names |-> {}]
  /\ pc = "start" /\ event = Start /\ stack = << >> /\ starting = Hierarchies
  /\ told = [n \in Names |-> "none"] /\ lost = {} /\ twice = {}

-----------------------------------------------------------------------------
(* The kernel makes, removes and renames directories, and tells of it if   *)
(* the one above is watched and the queue of inotify is not full.  That    *)
(* the queue was full is told as an event that processEvent ignores.       *)

Change ==
  /\ changes < MaxChanges /\ changes' = changes + 1
  /\ UNCHANGED <<watchVars, callVars, told, twice>>

Current(d) == bound[d] = inode[d]

\* of a change of d; what is in names is lost whether or not it is told of
Tell(d, kind, names) ==
  \/ /\ queue' = IF Current(InDir(d)) THEN Append(queue, Note(kind, d)) ELSE queue
     /\ lost' = lost \cup names
  \/ /\ Current(InDir(d)) /\ queue' = queue
     /\ lost' = lost \cup names \cup {d[2]}

MakeDir(d) ==
  /\ ~ Exists(d) /\ Exists(InDir(d)) /\ d[2] \notin NewNames /\ Change
  /\ inode' = [inode EXCEPT ![d] = changes + 2]
  /\ Tell(d, "create", IF Pending("delete", d) THEN {d[2]} ELSE {})
  /\ UNCHANGED dropped

\* some filesystems drop the watch of an inode that is removed, some keep it
RemoveDir(d) ==
  /\ Exists(d) /\ Children(d) = {} /\ Change
  /\ inode' = [inode EXCEPT ![d] = NoInode]
  /\ Tell(d, "delete", {})
  /\ \/ UNCHANGED dropped
     \/ Current(d) /\ dropped' = dropped \cup {d}

\* d becomes e, beside it, with all that lies below, under any names below e.
\* The watches below stay those of the old names, and what they share with the
\* new names is left out: both are lost.
Rename(d, e) ==
  /\ Exists(d) /\ ~ Exists(e) /\ InDir(e) = InDir(d) /\ Change
  /\ \E moved \in SUBSET Under[e] :
       /\ \A x \in moved : x = e \/ InDir(x) \in moved
       /\ inode' = [x \in Dirs |-> IF x = e \/ x \in moved THEN changes + 2
                                 ELSE IF x \in Under[d] \cup Under[e] THEN NoInode
                                 ELSE inode[x]]
  /\ \E events \in LET from == Note("delete", d)
                       to == Note("create", e)
                   IN { << >>, <<from>>, <<to>>, <<from, to>> } :
       queue' = IF Current(InDir(d)) THEN queue \o events ELSE queue
  /\ lost' = lost \cup Below[d[2]] \cup Below[e[2]]
  /\ \/ UNCHANGED dropped
     \/ Current(d) /\ dropped' = dropped \cup {d}

-----------------------------------------------------------------------------
(* InotifyWatcher. *)

\* inotify_rm_watch fails for a watch that was dropped; the record stays
\* then, and RemoveWatch returns as if others were left.
RmFails(d) == d \in dropped /\ UNCHANGED watchVars

Removed(d) == IF d[1] \in containersWatched[d[2]]
                THEN [bound EXCEPT ![d] = NoInode] ELSE bound

\* Mutant: the record is removed with the watch of one hierarchy.
RmWorks_All(d) ==
  /\ d \notin dropped /\ bound' = Removed(d)
  /\ containersWatched' = [containersWatched EXCEPT ![d[2]] = {}]

RmWorks(d) ==
  /\ d \notin dropped /\ bound' = Removed(d)
  /\ containersWatched' = [containersWatched EXCEPT ![d[2]] = @ \ {d[1]}]

WasLast(d) == containersWatched[d[2]] # {} /\ containersWatched'[d[2]] = {}

-----------------------------------------------------------------------------
(* watchDirectory. *)

\* the outermost call has returned
Finish(failed) ==
  /\ stack' = << >>
  /\ IF event = Start THEN pc' = IF failed THEN "dead" ELSE "start"
     ELSE pc' = "idle"
Return == stack' = Tail(stack) /\ pc' = "children"

\* AddWatch; an error returns before there is anything to clean up
AddWatch ==
  /\ pc = "add"
  /\ LET d == Top.dir
         recorded == d[1] \in containersWatched[d[2]]
     IN /\ recorded \/ Exists(d)
        /\ bound' = IF recorded THEN bound ELSE [bound EXCEPT ![d] = inode[d]]
        /\ containersWatched' = [containersWatched EXCEPT ![d[2]] = @ \cup {d[1]}]
        /\ stack' = [stack EXCEPT ![1].already = containersWatched[d[2]] # {}]
  /\ pc' = "read"
  /\ UNCHANGED <<kernelVars, event, starting, toldVars>>

Failed == /\ lost' = lost \cup {Top.dir[2]}
          /\ IF Len(stack) = 1 THEN Finish(TRUE)
             ELSE stack' = Tail(stack) /\ pc' = "cleanup"

\* the directory is gone, or there are as many watches as inotify allows
AddWatchFails ==
  /\ pc = "add"
  /\ Top.dir[1] \notin containersWatched[Top.dir[2]]
  /\ Failed
  /\ UNCHANGED <<kernelVars, watchVars, event, starting, told, twice>>

\* Mutant: the directories that are there already are not looked at.
ReadDir_None ==
  /\ pc = "read"
  /\ pc' = IF Exists(Top.dir) THEN "children" ELSE "cleanup"
  /\ UNCHANGED <<kernelVars, watchVars, event, stack, starting, toldVars>>

ReadDir ==
  /\ pc = "read"
  /\ IF Exists(Top.dir)
       THEN /\ stack' = [stack EXCEPT ![1].todo = Children(Top.dir)]
            /\ pc' = "children"
       ELSE stack' = stack /\ pc' = "cleanup"
  /\ UNCHANGED <<kernelVars, watchVars, event, starting, toldVars>>

WatchChild ==
  /\ pc = "children"
  /\ \E d \in Top.todo :
       stack' = <<Frame(d)>> \o [stack EXCEPT ![1].todo = @ \ {d}]
  /\ pc' = "add"
  /\ UNCHANGED <<kernelVars, watchVars, event, starting, toldVars>>

\* the deferred RemoveWatch of a call that failed
Cleanup ==
  /\ pc = "cleanup"
  /\ RmFails(Top.dir) \/ RmWorks(Top.dir)
  /\ Failed
  /\ UNCHANGED <<kernelVars, event, starting, told, twice>>

ReturnToParent ==
  /\ pc = "children" /\ Top.todo = {} /\ Len(stack) > 1
  /\ Return
  /\ UNCHANGED <<kernelVars, watchVars, event, starting, toldVars>>

-----------------------------------------------------------------------------
(* WatchSubcontainers and processEvent. *)

Deliver(n, kind) == /\ told' = [told EXCEPT ![n] = kind]
                    /\ twice' = IF kind = "add" /\ told[n] = "add"
                                  THEN twice \cup {n} ELSE twice

\* Mutant: the creation is delivered for every hierarchy.
Watched_Always ==
  /\ pc = "children" /\ Top.todo = {} /\ Len(stack) = 1
  /\ Finish(FALSE)
  /\ IF event # Start THEN Deliver(Top.dir[2], "add") ELSE UNCHANGED <<told, twice>>
  /\ UNCHANGED <<kernelVars, watchVars, event, starting, lost>>

Watched ==
  /\ pc = "children" /\ Top.todo = {} /\ Len(stack) = 1
  /\ Finish(FALSE)
  /\ IF event # Start /\ ~ Top.already
       THEN Deliver(Top.dir[2], "add") ELSE UNCHANGED <<told, twice>>
  /\ UNCHANGED <<kernelVars, watchVars, event, starting, lost>>

WatchRoot ==
  /\ pc = "start"
  /\ \E h \in starting : /\ starting' = starting \ {h}
                         /\ stack' = <<Frame(<<h, Root>>)>> /\ pc' = "add"
  /\ UNCHANGED <<kernelVars, watchVars, event, toldVars>>

Started ==
  /\ pc = "start" /\ starting = {}
  /\ pc' = "idle"
  /\ UNCHANGED <<kernelVars, watchVars, event, stack, starting, toldVars>>

TakeEvent == /\ pc = "idle" /\ queue # << >>
             /\ event' = Head(queue) /\ queue' = Tail(queue)
             /\ UNCHANGED <<inode, dropped, changes, starting>>

Created ==
  /\ TakeEvent /\ event'.kind = "create"
  /\ stack' = <<Frame(event'.dir)>> /\ pc' = "add"
  /\ UNCHANGED <<watchVars, toldVars>>

Deleted ==
  /\ TakeEvent /\ event'.kind = "delete"
  /\ LET d == event'.dir
     IN \/ RmFails(d) /\ lost' = lost \cup {d[2]} /\ UNCHANGED <<told, twice>>
        \/ /\ RmWorks(d) /\ UNCHANGED lost
           /\ IF WasLast(d) THEN Deliver(d[2], "delete") ELSE UNCHANGED <<told, twice>>
  /\ UNCHANGED <<pc, stack>>

NonRoot == { d \in Dirs : d[2] # Root }
Kernel == \/ \E d \in NonRoot : MakeDir(d) \/ RemoveDir(d)
          \/ \E d, e \in NonRoot : Rename(d, e)
WatchDirectory == \/ AddWatch \/ AddWatchFails \/ ReadDir \/ WatchChild \/ Cleanup
                  \/ ReturnToParent \/ Watched
Next == Kernel \/ WatchDirectory \/ WatchRoot \/ Started \/ Created \/ Deleted
Spec == Init /\ [][Next]_vars

-----------------------------------------------------------------------------
Changed == [kind : {"create", "delete"}, dir : NonRoot]
Frames == [dir : Dirs, already : BOOLEAN, todo : SUBSET Dirs]

TypeOK ==
  /\ {inode, bound} \subseteq [Dirs -> 0 .. MaxChanges + 1]
  /\ changes \in 0 .. MaxChanges /\ dropped \subseteq Dirs
  /\ queue \in Seq(Changed) /\ event \in Changed \cup {Start}
  /\ containersWatched \in [Names -> SUBSET Hierarchies]
  /\ pc \in {"start", "idle", "add", "read", "children", "cleanup", "dead"}
  /\ stack \in Seq(Frames)
  /\ (stack = << >>) = (pc \in {"start", "idle", "dead"})
  /\ \A d \in Dirs : (bound[d] # NoInode) = (d[1] \in containersWatched[d[2]])
  /\ lost \subseteq Names /\ starting \subseteq Hierarchies
  /\ told \in [Names -> {"none", "add", "delete"}] /\ twice \subseteq Names

Quiet == pc = "idle" /\ queue = << >>
\* n or one above it
Lost(n) == \A S \in SUBSET Names : lost \subseteq S /\ Downward(S) => n \in S

(* The creation of a container is delivered once, though every hierarchy   *)
(* tells of it, until its deletion is (raw/handler.go:479-482), unless it  *)
(* is lost: watchDirectory may fail for the last directory that is         *)
(* recorded, and its RemoveWatch takes the record away without a word.     *)
CreationIsToldOnce == twice \subseteq lost

(* When all events are worked off, exactly the directories that exist are  *)
(* watched, and a container whose creation was told last exists, so        *)
(* nothing that comes or goes is unnoticed, unless for it or one above it  *)
(* watchDirectory failed (it was gone again, or inotify had no watch       *)
(* left), the watch could not be removed, the directory came back before   *)
(* its end was worked off, the queue of inotify was full, or it was        *)
(* renamed (raw/handler.go:405-454, 470-493, inotify_watcher.go:36-89).    *)
QuietMeansKnown ==
  Quiet =>
    /\ \A d \in Dirs : bound[d] = inode[d] \/ Lost(d[2])
    /\ \A n \in Names : told[n] = "add" =>
         Lost(n) \/ \E h \in Hierarchies : Exists(<<h, n>>)
=============================================================================
