-------------------------- MODULE ContainerManager --------------------------
(***************************************************************************)
(* The container manager (src/domeagent/monitor/manager.go, container.go): *)
(* it keeps a map of the containers whose cgroups exist, with one          *)
(* housekeeping goroutine for each.  Two goroutines change the map, the    *)
(* watcher from a queue of cgroup events and the global housekeeping,      *)
(* which goes on from Start ("main" here), from a listing of all cgroups.  *)
(* Every container is one of docker, and its cgroup exists while it runs.  *)
(***************************************************************************)
EXTENDS Naturals, Sequences

CONSTANTS
  Containers, \* cgroup names of the docker containers
  Names,      \* the names of docker, their aliases
  NameOf,     \* the name of each container
  MaxStarts,  \* bound: starts of containers
  MaxObjects, \* bound: containerData objects added to the map
  MaxErrors   \* bound: failed calls and lost events

ASSUME NamesAssumption == NameOf \in [Containers -> Names]
ASSUME BoundsAssumption == {MaxStarts, MaxObjects, MaxErrors} \subseteq Nat

VARIABLES
  \* the cgroups that exist, the starts so far, and the errors so far
  cgroups, starts, errors,
  \* whether the cgroups are watched, and eventsChannel with what inotify
  \* still holds
  watched, events,
  \* manager.containers: by cgroup name, and by alias
  containers, aliases,
  \* the containerData objects, in the order they were added: the container,
  \* whether its handler is docker's, the stop channel, the goroutine
  data,
  \* how far Start is: "recover", "watch", "loop", or "failed"
  phase,
  \* per goroutine: its label, and the createContainer call it is in: the
  \* container, whether the handler is docker's, the object it added
  pc, call,
  \* what getContainersDiff returned and main has not worked off
  added, removed

mapVars == <<containers, aliases, data>>
callVars == <<pc, call>>
diffVars == <<added, removed>>
vars == <<cgroups, starts, errors, watched, events, mapVars, phase, callVars,
          diffVars>>

Actors == {"main", "watcher"}
None == 0
Objects == 1 .. MaxObjects
NoCall == [of |-> None, docker |-> FALSE, obj |-> None]

Init ==
  /\ cgroups \in SUBSET Containers
  /\ \A c, d \in cgroups : NameOf[c] = NameOf[d] => c = d
  /\ starts = 0 /\ errors = 0
  /\ watched = FALSE /\ events = << >>
  /\ containers = [c \in Containers |-> None]
  /\ aliases = [n \in Names |-> None]
  /\ data = << >>
  /\ phase = "recover"
  /\ pc = [a \in Actors |-> IF a = "main" THEN "detect" ELSE "off"]
  /\ call = [a \in Actors |-> NoCall]
  /\ added = {} /\ removed = {}

Goto(a, label) == pc' = [pc EXCEPT ![a] = label]
Fails == errors < MaxErrors /\ errors' = errors + 1

-----------------------------------------------------------------------------
(* Docker and the kernel. *)

\* a change of the cgroups is reported once, or its event is lost
Notify(type, c) ==
  \/ /\ events' = IF watched THEN Append(events, [type |-> type, of |-> c])
                             ELSE events
     /\ UNCHANGED errors
  \/ watched /\ Fails /\ UNCHANGED events

StartContainer(c) ==
  /\ c \notin cgroups /\ starts < MaxStarts
  /\ \A d \in cgroups : NameOf[d] # NameOf[c]
  /\ cgroups' = cgroups \cup {c}
  /\ starts' = starts + 1
  /\ Notify("add", c)
  /\ UNCHANGED <<watched, mapVars, phase, callVars, diffVars>>

StopContainer(c) ==
  /\ c \in cgroups
  /\ cgroups' = cgroups \ {c}
  /\ Notify("delete", c)
  /\ UNCHANGED <<starts, watched, mapVars, phase, callVars, diffVars>>

-----------------------------------------------------------------------------
(* createContainer and destroyContainer, called by either goroutine. *)

Called(a, c) == /\ call' = [call EXCEPT ![a].of = c]
                /\ Goto(a, "handler")
Return(a) == /\ call' = [call EXCEPT ![a] = NoCall]
             /\ Goto(a, IF a = "main" THEN "work" ELSE "receive")

\* CanHandleAndAccept: docker's handler only if docker says it runs
Handler(a) ==
  /\ pc[a] = "handler"
  /\ call' = [call EXCEPT ![a].docker = call[a].of \in cgroups]
  /\ Goto(a, "add")
  /\ UNCHANGED <<cgroups, starts, errors, watched, events, mapVars, phase,
                 diffVars>>

\* a failed inspection leaves the container to the raw factory
InspectFails(a) ==
  /\ pc[a] = "handler" /\ Fails
  /\ Goto(a, "add")
  /\ UNCHANGED <<cgroups, starts, watched, events, mapVars, phase, call,
                 diffVars>>

\* no handler, or no spec of a container that exists
HandlerFails(a) ==
  /\ pc[a] = "handler"
  /\ \/ call[a].of \notin cgroups /\ UNCHANGED errors
     \/ Fails
  /\ Return(a)
  /\ UNCHANGED <<cgroups, starts, watched, events, mapVars, phase, diffVars>>

\* Mutant: the check is dropped
AlreadyExists_Never(a) == FALSE

AlreadyExists(a) == containers[call[a].of] # None

Exists(a) ==
  /\ pc[a] = "add" /\ AlreadyExists(a)
  /\ Return(a)
  /\ UNCHANGED <<cgroups, starts, errors, watched, events, mapVars, phase,
                 diffVars>>

Add(a) ==
  LET c == call[a].of
      isDocker == call[a].docker
      o == Len(data) + 1
  IN /\ pc[a] = "add" /\ ~ AlreadyExists(a) /\ o \in Objects
     /\ containers' = [containers EXCEPT ![c] = o]
     /\ aliases' = IF isDocker THEN [aliases EXCEPT ![NameOf[c]] = o]
                               ELSE aliases
     /\ data' = Append(data, [of |-> c, docker |-> isDocker,
                              stop |-> FALSE, keeper |-> "none"])
     /\ call' = [call EXCEPT ![a].obj = o]
     /\ Goto(a, "start")
     /\ UNCHANGED <<cgroups, starts, errors, watched, events, phase, diffVars>>

\* GetSpec of a docker container reads a file that goes when it stops
SpecFails(a) ==
  /\ pc[a] = "start"
  /\ \/ call[a].docker /\ call[a].of \notin cgroups /\ UNCHANGED errors
     \/ Fails
  /\ Return(a)
  /\ UNCHANGED <<cgroups, starts, watched, events, mapVars, phase, diffVars>>

\* housekeeping is for docker containers only
Start(a) ==
  /\ pc[a] = "start"
  /\ data' = IF call[a].docker
             THEN [data EXCEPT ![call[a].obj].keeper = "runs"] ELSE data
  /\ Return(a)
  /\ UNCHANGED <<cgroups, starts, errors, watched, events, containers,
                 aliases, phase, diffVars>>

\* Mutant: only the canonical name is removed
Aliases_None(o) == {}

Aliases(o) == IF data[o].docker THEN {NameOf[data[o].of]} ELSE {}

\* Mutant: the object is not told to stop
Forget_NoStop(c) ==
  LET o == containers[c]
  IN IF o = None
     THEN UNCHANGED mapVars
     ELSE /\ UNCHANGED data
          /\ containers' = [containers EXCEPT ![c] = None]
          /\ aliases' = [n \in Names |->
                          IF n \in Aliases(o) THEN None ELSE aliases[n]]

Forget(c) ==
  LET o == containers[c]
  IN IF o = None
     THEN UNCHANGED mapVars
     ELSE /\ data' = [data EXCEPT ![o].stop = TRUE]
          /\ containers' = [containers EXCEPT ![c] = None]
          /\ aliases' = [n \in Names |->
                          IF n \in Aliases(o) THEN None ELSE aliases[n]]

-----------------------------------------------------------------------------
(* The goroutine of Start, and then globalHousekeeping. *)

\* Mutant: only new containers are looked for
Detect_Added ==
  /\ pc["main"] = "detect"
  /\ added' = {c \in cgroups : containers[c] = None}
  /\ removed' = {}
  /\ Goto("main", "work")
  /\ UNCHANGED <<cgroups, starts, errors, watched, events, mapVars, phase,
                 call>>

\* getContainersDiff, under the lock
Detect ==
  /\ pc["main"] = "detect"
  /\ added' = {c \in cgroups : containers[c] = None}
  /\ removed' = {c \in Containers \ cgroups : containers[c] # None}
  /\ Goto("main", "work")
  /\ UNCHANGED <<cgroups, starts, errors, watched, events, mapVars, phase,
                 call>>

\* a failed listing ends Start, and only a round of the housekeeping
DetectFails ==
  /\ pc["main"] = "detect" /\ Fails
  /\ phase' = IF phase = "loop" THEN "loop" ELSE "failed"
  /\ Goto("main", IF phase = "loop" THEN "detect" ELSE "off")
  /\ UNCHANGED <<cgroups, starts, watched, events, mapVars, call, diffVars>>

MainCreates ==
  /\ pc["main"] = "work"
  /\ \E c \in added : added' = added \ {c} /\ Called("main", c)
  /\ UNCHANGED <<cgroups, starts, errors, watched, events, mapVars, phase,
                 removed>>

MainDestroys ==
  /\ pc["main"] = "work" /\ added = {}
  /\ \E c \in removed : /\ removed' = removed \ {c}
                        /\ Forget(c)
  /\ UNCHANGED <<cgroups, starts, errors, watched, events, phase, callVars,
                 added>>

Detected == pc["main"] = "work" /\ added = {} /\ removed = {}

\* WatchSubcontainers, between the two detections of Start
Watch ==
  /\ Detected /\ phase = "recover"
  /\ watched' = TRUE
  /\ phase' = "watch"
  /\ Goto("main", "detect")
  /\ UNCHANGED <<cgroups, starts, errors, events, mapVars, call, diffVars>>

WatchFails ==
  /\ Detected /\ phase = "recover" /\ Fails
  /\ phase' = "failed"
  /\ Goto("main", "off")
  /\ UNCHANGED <<cgroups, starts, watched, events, mapVars, call, diffVars>>

\* the watcher goroutine starts, and the global housekeeping
Loop ==
  /\ Detected /\ phase = "watch"
  /\ phase' = "loop"
  /\ pc' = [pc EXCEPT !["main"] = "detect", !["watcher"] = "receive"]
  /\ UNCHANGED <<cgroups, starts, errors, watched, events, mapVars, call,
                 diffVars>>

Tick ==
  /\ Detected /\ phase = "loop"
  /\ Goto("main", "detect")
  /\ UNCHANGED <<cgroups, starts, errors, watched, events, mapVars, phase,
                 call, diffVars>>

-----------------------------------------------------------------------------
(* The goroutine of watchForNewContainers. *)

Received(type) ==
  /\ pc["watcher"] = "receive" /\ events # << >>
  /\ Head(events).type = type
  /\ events' = Tail(events)

WatcherCreates ==
  /\ Received("add")
  /\ Called("watcher", Head(events).of)
  /\ UNCHANGED <<cgroups, starts, errors, watched, mapVars, phase,
                 diffVars>>

WatcherDestroys ==
  /\ Received("delete")
  /\ Forget(Head(events).of)
  /\ UNCHANGED <<cgroups, starts, errors, watched, phase, callVars, diffVars>>

-----------------------------------------------------------------------------
(* The housekeeping of one container: it looks at the stop channel before  *)
(* every round.                                                            *)

KeeperEnds(o) ==
  /\ o \in DOMAIN data
  /\ data[o].keeper = "runs" /\ data[o].stop
  /\ data' = [data EXCEPT ![o].keeper = "ended"]
  /\ UNCHANGED <<cgroups, starts, errors, watched, events, containers,
                 aliases, phase, callVars, diffVars>>

Create(a) == Handler(a) \/ InspectFails(a) \/ HandlerFails(a) \/ Exists(a)
               \/ Add(a) \/ SpecFails(a) \/ Start(a)
Main == Detect \/ DetectFails \/ MainCreates \/ MainDestroys \/ Watch
          \/ WatchFails \/ Loop \/ Tick \/ Create("main")
Watcher == WatcherCreates \/ WatcherDestroys \/ Create("watcher")

Next ==
  \/ \E c \in Containers : StartContainer(c) \/ StopContainer(c)
  \/ Main
  \/ Watcher
  \/ \E o \in Objects : KeeperEnds(o)

Spec == Init /\ [][Next]_vars

\* goroutines go on, the ticker ticks and inotify delivers
FairSpec == Spec /\ WF_vars(Main) /\ WF_vars(Watcher)
                 /\ \A o \in Objects : WF_vars(KeeperEnds(o))

-----------------------------------------------------------------------------
TypeOK ==
  /\ cgroups \subseteq Containers
  /\ starts \in 0 .. MaxStarts /\ errors \in 0 .. MaxErrors
  /\ watched \in BOOLEAN
  /\ events \in Seq([type : {"add", "delete"}, of : Containers])
  /\ data \in Seq([of : Containers, docker : BOOLEAN, stop : BOOLEAN,
                   keeper : {"none", "runs", "ended"}])
  /\ Len(data) <= MaxObjects
  /\ containers \in [Containers -> {None} \cup DOMAIN data]
  /\ aliases \in [Names -> {None} \cup DOMAIN data]
  /\ phase \in {"recover", "watch", "loop", "failed"}
  /\ pc \in [Actors -> {"off", "detect", "work", "receive", "handler", "add",
                        "start"}]
  /\ call \in [Actors -> [of : {None} \cup Containers, docker : BOOLEAN,
                          obj : {None} \cup DOMAIN data]]
  /\ added \subseteq Containers /\ removed \subseteq Containers

(* A housekeeping goroutine that has not been told to stop belongs to the  *)
(* object that the map has for its container, so the next destroyContainer *)
(* reaches it, and there is at most one for a container, although two      *)
(* goroutines create and destroy and the goroutine starts only after the   *)
(* lock was given up (manager.go:604-656).                                 *)
KeeperIsReachable ==
  \A o \in DOMAIN data :
    data[o].keeper = "runs" /\ ~ data[o].stop => containers[data[o].of] = o

(* An alias resolves to an object that is in the map under its own name    *)
(* too, never to one that was destroyed, although a container may take the *)
(* name of one that the manager still knows (manager.go:619-626, 680-687). *)
AliasesAreKnown ==
  \A n \in Names : aliases[n] # None => containers[data[aliases[n]].of] = aliases[n]

(* The map follows the cgroups: a container that stays is in the map at    *)
(* last, and one that is gone leaves it, although events are lost, arrive  *)
(* late, and are worked off beside a diff that is stale by then, unless    *)
(* Start failed (manager.go:754-833).                                      *)
MapConverges ==
  \A c \in Containers :
    /\ <>[](c \in cgroups) => <>[](containers[c] # None \/ phase = "failed")
    /\ <>[](c \notin cgroups) => <>[](containers[c] = None \/ phase = "failed")

(* No housekeeping outlives its container for ever (container.go:52,       *)
(* 172-219).                                                               *)
KeepersEnd ==
  \A c \in Containers :
    <>[](c \notin cgroups)
      => <>[](phase = "failed"
                \/ \A o \in DOMAIN data :
                     data[o].of = c => data[o].keeper # "runs")
=============================================================================
