-------------------------- MODULE GarbageCollection --------------------------
(***************************************************************************)
(* GarbageCollection (src/domeagent/agentmain/garbageCollection.go): a     *)
(* goroutine that removes containers and images that nobody used for a     *)
(* timeout.  What was there before the agent, the extra images and         *)
(* containers, is left alone; what the agent saw appear is recorded in the *)
(* file domeagent.conf so that it is not extra after a restart.            *)
(*                                                                         *)
(* Times are kept as ages: the number of ticks since, up to MaxAge.        *)
(***************************************************************************)
EXTENDS Integers, FiniteSets

CONSTANTS
  Containers, Images,
  ImageOf,          \* the image of each container
  ContainerTimeout, \* AgentConfiguration.ContainerTimeout, in ticks
  ImageTimeout,
  MaxErrors,        \* bound: requests to dockerd and file operations that fail
  MaxCrashes        \* bound: crashes of the agent

ASSUME IdsApart == Containers \cap Images = {}
ASSUME ImageOfAssumption == ImageOf \in [Containers -> Images]
ASSUME ContainerTimeoutAssumption == ContainerTimeout \in Nat \ {0}
ASSUME ImageTimeoutAssumption == ImageTimeout \in Nat \ {0}
ASSUME BoundsAssumption == MaxErrors \in Nat /\ MaxCrashes \in Nat

Ids == Containers \cup Images
MaxAge == IF ContainerTimeout > ImageTimeout THEN ContainerTimeout
                                             ELSE ImageTimeout
Ages == 0 .. MaxAge
None == -1 \* no such time; no such key in a map

VARIABLES
  \* dockerd: state, FinishedAt of containers; images it has, and their Created
  container, finishedAt, images, created,
  \* the agent: label, preImageSet and preContainerSet, the extra sets, the two
  \* maps in one, what the current loop has yet to visit
  pc, pre, extra, lastUsed, pending,
  \* domeagent.conf: the ids in it; whether its last line is cut after "CON"
  conf, cut,
  errors, crashes,
  \* history: how long a container or image has not been used; what was there
  \* before the agent; what a complete file has named since it was created;
  \* the containers inspected this round that were and are not running; a start
  \* that could not list; a file lost in mid-write or not read
  idle, foreign, own, seen, blind, torn

dockerVars == <<container, finishedAt, images, created>>
agentVars == <<pc, pre, extra, lastUsed, pending>>
fileVars == <<conf, cut>>
history == <<idle, foreign, own, seen, blind, torn>>
vars == <<dockerVars, agentVars, fileVars, errors, crashes, history>>

Exists(c) == container[c] \in { "created", "running", "stopped" }
Present == { c \in Containers : Exists(c) } \cup images
InUse(i) == \E c \in Containers : Exists(c) /\ ImageOf[c] = i
Runs(i) == \E c \in Containers : container[c] = "running" /\ ImageOf[c] = i

Init ==
  /\ container \in [Containers -> { "none", "stopped" }]
  /\ finishedAt = [c \in Containers |-> IF Exists(c) THEN MaxAge ELSE None]
  /\ images \in SUBSET Images
  /\ \A c \in Containers : Exists(c) => ImageOf[c] \in images
  /\ created = [i \in Images |-> MaxAge]
  /\ pc = "boot"
  /\ pre = {} /\ extra = {} /\ pending = {}
  /\ lastUsed = [x \in Ids |-> None]
  /\ conf = {} /\ cut = FALSE
  /\ errors = 0 /\ crashes = 0
  /\ idle = [x \in Ids |-> MaxAge]
  /\ foreign = Present
  /\ own = {} /\ seen = {}
  /\ blind = FALSE /\ torn = FALSE

-----------------------------------------------------------------------------
(* Time, and what tasks and users do to dockerd.                           *)

Older(age) == IF age = None \/ age = MaxAge THEN age ELSE age + 1

Tick ==
  /\ finishedAt' = [c \in Containers |-> Older(finishedAt[c])]
  /\ created' = [i \in Images |-> Older(created[i])]
  /\ lastUsed' = [x \in Ids |-> Older(lastUsed[x])]
  /\ idle' = [x \in Ids |->
       IF \/ x \in Containers /\ container[x] = "running"
          \/ x \in Images /\ Runs(x)
         THEN 0 ELSE Older(idle[x])]
  /\ UNCHANGED <<container, images, pc, pre, extra, pending, fileVars, errors,
                 crashes, foreign, own, seen, blind, torn>>

\* What appears while no agent runs, or before it has listed what there is, is
\* not the agent's, unless its file names it already.
Foreign(x) ==
  /\ x \notin conf
  /\ \/ pc \in { "off", "boot", "panic" }
     \/ pc = "extraImages" /\ x \notin pre
     \/ pc = "extraContainers" /\ x \in Containers \ pre
Appears(x) ==
  /\ foreign' = IF Foreign(x) THEN foreign \cup { x } ELSE foreign \ { x }
  /\ own' = own \ { x }

\* Created is the time the image was built.
PullImage(i) ==
  /\ i \notin images
  /\ images' = images \cup { i }
  /\ \E age \in Ages : created' = [created EXCEPT ![i] = age]
  /\ idle' = [idle EXCEPT ![i] = 0]
  /\ Appears(i)
  /\ UNCHANGED <<container, finishedAt, agentVars, fileVars, errors, crashes,
                 seen, blind, torn>>

CreateContainer(c) ==
  /\ container[c] = "none"
  /\ ImageOf[c] \in images
  /\ container' = [container EXCEPT ![c] = "created"]
  /\ idle' = [idle EXCEPT ![c] = 0]
  /\ Appears(c)
  /\ UNCHANGED <<finishedAt, images, created, agentVars, fileVars, errors,
                 crashes, seen, blind, torn>>

\* FinishedAt keeps the time of the last exit.
StartContainer(c) ==
  /\ container[c] \in { "created", "stopped" }
  /\ container' = [container EXCEPT ![c] = "running"]
  /\ idle' = [idle EXCEPT ![c] = 0, ![ImageOf[c]] = 0]
  /\ seen' = seen \ { c }
  /\ UNCHANGED <<finishedAt, images, created, agentVars, fileVars, errors,
                 crashes, foreign, own, blind, torn>>

StopContainer(c) ==
  /\ container[c] = "running"
  /\ container' = [container EXCEPT ![c] = "stopped"]
  /\ finishedAt' = [finishedAt EXCEPT ![c] = 0]
  /\ UNCHANGED <<images, created, agentVars, fileVars, errors, crashes,
                 history>>

RemoveContainer(c) ==
  /\ container[c] \in { "created", "stopped" }
  /\ container' = [container EXCEPT ![c] = "gone"]
  /\ UNCHANGED <<finishedAt, images, created, agentVars, fileVars, errors,
                 crashes, history>>

RemoveImage(i) ==
  /\ i \in images /\ ~ InUse(i)
  /\ images' = images \ { i }
  /\ UNCHANGED <<container, finishedAt, created, agentVars, fileVars, errors,
                 crashes, history>>

-----------------------------------------------------------------------------
Goto(label) == pc' = label
Fail == errors < MaxErrors /\ errors' = errors + 1

(* The start: read the file, list what there is.                           *)

\* Mutant: the file is not read.
Boot_NoFile ==
  /\ pc = "boot"
  /\ Goto("extraImages")
  /\ UNCHANGED <<dockerVars, pre, extra, lastUsed, pending, fileVars, errors,
                 crashes, history>>

\* A line "CON" without an id: words[1] is out of range.
Boot ==
  /\ pc = "boot"
  /\ IF cut THEN Goto("panic") /\ UNCHANGED pre
            ELSE Goto("extraImages") /\ pre' = conf
  /\ UNCHANGED <<dockerVars, extra, lastUsed, pending, fileVars, errors,
                 crashes, history>>

BootReadError ==
  /\ pc = "boot"
  /\ Fail
  /\ Goto("extraImages")
  /\ torn' = TRUE
  /\ UNCHANGED <<dockerVars, pre, extra, lastUsed, pending, fileVars, crashes,
                 idle, foreign, own, seen, blind>>

\* Mutant: only running containers are listed.
ListExtra_Running ==
  /\ \/ pc = "extraImages" /\ extra' = images \ pre /\ Goto("extraContainers")
     \/ /\ pc = "extraContainers"
        /\ extra' = extra \cup
             { c \in Containers \ pre : container[c] = "running" }
        /\ Goto("images")
  /\ pre' = IF pc = "extraContainers" THEN {} ELSE pre
  /\ UNCHANGED <<dockerVars, lastUsed, pending, fileVars, errors, crashes,
                 history>>

ListExtra ==
  /\ \/ pc = "extraImages" /\ extra' = images \ pre /\ Goto("extraContainers")
     \/ /\ pc = "extraContainers"
        /\ extra' = extra \cup (Present \ (Images \cup pre))
        /\ Goto("images")
  /\ pre' = IF pc = "extraContainers" THEN {} ELSE pre
  /\ UNCHANGED <<dockerVars, lastUsed, pending, fileVars, errors, crashes,
                 history>>

\* The set stays empty when the list cannot be had.
ListExtraFails ==
  /\ pc \in { "extraImages", "extraContainers" }
  /\ Fail
  /\ Goto(IF pc = "extraImages" THEN "extraContainers" ELSE "images")
  /\ pre' = IF pc = "extraContainers" THEN {} ELSE pre
  /\ blind' = TRUE
  /\ UNCHANGED <<dockerVars, extra, lastUsed, pending, fileVars, crashes, idle,
                 foreign, own, seen, torn>>

-----------------------------------------------------------------------------
(* A round: update last used time.                                         *)

\* Mutant: the comparison is the wrong way round.
Used_Oldest(map, x, age) ==
  IF map[x] = None \/ map[x] < age THEN age ELSE map[x]

\* The map entry of x takes the age when it has none or an older one.
Used(map, x, age) ==
  IF map[x] = None \/ map[x] > age THEN age ELSE map[x]

ListImages ==
  /\ pc = "images"
  /\ \/ /\ lastUsed' = [x \in Ids |->
             IF x \in images \ extra THEN Used(lastUsed, x, created[x])
                                     ELSE lastUsed[x]]
        /\ UNCHANGED errors
     \/ Fail /\ UNCHANGED lastUsed
  /\ Goto("containers")
  /\ seen' = {}
  /\ UNCHANGED <<dockerVars, pre, extra, pending, fileVars, crashes, idle,
                 foreign, own, blind, torn>>

ListContainers ==
  /\ pc = "containers"
  /\ \/ pending' = Present \ Images /\ UNCHANGED errors
     \/ pending' = {} /\ Fail
  /\ Goto("inspect")
  /\ UNCHANGED <<dockerVars, pre, extra, lastUsed, fileVars, crashes, history>>

\* Mutant: every container reads as running.
LastRunning_Now(c) == 0

\* A FinishedAt before 1970 reads as running now; any other as its last use,
\* the one of an earlier run too.
LastRunning(c) == IF finishedAt[c] = None THEN 0 ELSE finishedAt[c]

Inspect(c) ==
  /\ pc = "inspect" /\ c \in pending
  /\ pending' = pending \ { c }
  /\ \/ /\ Exists(c)
        /\ lastUsed' = [lastUsed EXCEPT
             ![ImageOf[c]] = IF @ = None THEN None
                             ELSE Used(lastUsed, ImageOf[c], LastRunning(c)),
             ![c] = IF c \in extra THEN @ ELSE Used(lastUsed, c, LastRunning(c))]
        /\ seen' = IF container[c] = "running" THEN seen ELSE seen \cup { c }
        /\ UNCHANGED errors
     \/ ~ Exists(c) /\ UNCHANGED <<lastUsed, seen, errors>>
     \/ Fail /\ UNCHANGED <<lastUsed, seen>>
  /\ UNCHANGED <<dockerVars, pc, pre, extra, fileVars, crashes, idle, foreign,
                 own, blind, torn>>

Keys == { x \in Ids : lastUsed[x] # None }

Inspected ==
  /\ pc = "inspect" /\ pending = {}
  /\ pending' = Keys \cap Containers
  /\ Goto("timeoutContainers")
  /\ UNCHANGED <<dockerVars, pre, extra, lastUsed, fileVars, errors, crashes,
                 history>>

-----------------------------------------------------------------------------
(* Delete timeout containers and images.                                   *)

Visit(label, x) == pc = label /\ x \in pending /\ pending' = pending \ { x }
Forget(x) == lastUsed' = [lastUsed EXCEPT ![x] = None]

\* A key younger than the timeout stays; so does one dockerd refuses to remove,
\* and it refuses a running container and an image in use.
KeepKey(label, x, timeout, refused) ==
  /\ Visit(label, x)
  /\ \/ (lastUsed[x] < timeout \/ refused) /\ UNCHANGED errors
     \/ lastUsed[x] >= timeout /\ Fail
  /\ UNCHANGED <<dockerVars, pc, pre, extra, lastUsed, fileVars, crashes,
                 history>>

KeepContainer(c) ==
  KeepKey("timeoutContainers", c, ContainerTimeout, container[c] = "running")
KeepImage(i) == KeepKey("timeoutImages", i, ImageTimeout, i \in images /\ InUse(i))

\* The container is removed, or there is none any more.
CollectContainer(c) ==
  /\ Visit("timeoutContainers", c)
  /\ lastUsed[c] >= ContainerTimeout
  /\ container[c] # "running"
  /\ container' = [container EXCEPT ![c] = "gone"]
  /\ Forget(c)
  /\ UNCHANGED <<finishedAt, images, created, pc, pre, extra, fileVars, errors,
                 crashes, history>>

CollectImage(i) ==
  /\ Visit("timeoutImages", i)
  /\ lastUsed[i] >= ImageTimeout
  /\ i \in images => ~ InUse(i)
  /\ images' = images \ { i }
  /\ Forget(i)
  /\ UNCHANGED <<container, finishedAt, created, pc, pre, extra, fileVars,
                 errors, crashes, history>>

ContainersDone ==
  /\ pc = "timeoutContainers" /\ pending = {}
  /\ pending' = Keys \cap Images
  /\ Goto("timeoutImages")
  /\ UNCHANGED <<dockerVars, pre, extra, lastUsed, fileVars, errors, crashes,
                 history>>

\* Mutant: the loop ends at any image.
ImagesDone_Early ==
  /\ pc = "timeoutImages"
  /\ Goto("truncate")
  /\ UNCHANGED <<dockerVars, pre, extra, lastUsed, pending, fileVars, errors,
                 crashes, history>>

ImagesDone ==
  /\ pc = "timeoutImages" /\ pending = {}
  /\ Goto("truncate")
  /\ UNCHANGED <<dockerVars, pre, extra, lastUsed, pending, fileVars, errors,
                 crashes, history>>

-----------------------------------------------------------------------------
(* Update confFile: WriteFile truncates the file, and then writes it.      *)

Truncate ==
  /\ pc = "truncate"
  /\ conf' = {} /\ cut' = FALSE
  /\ Goto("write")
  /\ UNCHANGED <<dockerVars, pre, extra, lastUsed, pending, errors, crashes,
                 history>>

WriteConf ==
  /\ pc = "write"
  /\ conf' = Keys
  /\ own' = own \cup (Keys \cap Present)
  /\ Goto("sleep")
  /\ UNCHANGED <<dockerVars, pre, extra, lastUsed, pending, cut, errors, crashes,
                 idle, foreign, seen, blind, torn>>

\* The file cannot be opened, or it is written in part: lines are missing, and
\* the last one may be cut.
WriteConfFails ==
  /\ Fail
  /\ \/ pc = "truncate" /\ UNCHANGED <<conf, cut, torn>>
     \/ /\ pc = "write"
        /\ conf' \in SUBSET Keys
        /\ cut' \in { FALSE, conf' # Keys }
        /\ torn' = TRUE
  /\ Goto("sleep")
  /\ UNCHANGED <<dockerVars, pre, extra, lastUsed, pending, crashes, idle,
                 foreign, own, seen, blind>>

Wake ==
  /\ pc = "sleep"
  /\ Goto("images")
  /\ UNCHANGED <<dockerVars, pre, extra, lastUsed, pending, fileVars, errors,
                 crashes, history>>

-----------------------------------------------------------------------------
(* The agent process ends, and is started again.                           *)

Crash ==
  /\ pc \notin { "off", "panic" }
  /\ crashes < MaxCrashes
  /\ crashes' = crashes + 1
  /\ torn' = (torn \/ pc = "write")
  /\ Goto("off")
  /\ pre' = {} /\ extra' = {} /\ pending' = {}
  /\ lastUsed' = [x \in Ids |-> None]
  /\ seen' = {}
  /\ UNCHANGED <<dockerVars, fileVars, errors, idle, foreign, own, blind>>

Restart ==
  /\ pc = "off"
  /\ Goto("boot")
  /\ UNCHANGED <<dockerVars, pre, extra, lastUsed, pending, fileVars, errors,
                 crashes, history>>

-----------------------------------------------------------------------------
Collect ==
  \/ \E c \in Containers : Inspect(c) \/ KeepContainer(c) \/ CollectContainer(c)
  \/ \E i \in Images : KeepImage(i) \/ CollectImage(i)

Agent ==
  \/ Boot \/ BootReadError \/ ListExtra \/ ListExtraFails
  \/ ListImages \/ ListContainers \/ Inspected
  \/ Collect \/ ContainersDone \/ ImagesDone
  \/ Truncate \/ WriteConf \/ WriteConfFails \/ Wake \/ Restart

World ==
  \/ \E i \in Images : PullImage(i) \/ RemoveImage(i)
  \/ \E c \in Containers :
       CreateContainer(c) \/ StartContainer(c) \/ StopContainer(c)
         \/ RemoveContainer(c)

Next == Agent \/ Crash \/ Tick \/ World

Spec == Init /\ [][Next]_vars

\* The goroutine goes on, the watchdog restarts the agent, time passes.
FairSpec == Spec /\ WF_vars(Agent) /\ WF_vars(Tick)

-----------------------------------------------------------------------------
TypeOK ==
  /\ container \in [Containers -> { "none", "created", "running", "stopped",
                                    "gone" }]
  /\ finishedAt \in [Containers -> Ages \cup { None }]
  /\ images \subseteq Images
  /\ created \in [Images -> Ages]
  /\ pc \in { "boot", "extraImages", "extraContainers", "images", "containers",
              "inspect", "timeoutContainers", "timeoutImages", "truncate",
              "write", "sleep", "off", "panic" }
  /\ pre \subseteq Ids /\ extra \subseteq Ids
  /\ lastUsed \in [Ids -> Ages \cup { None }]
  /\ pending \subseteq CASE pc \in { "inspect", "timeoutContainers" } -> Containers
                       [] pc = "timeoutImages" -> Images
                       [] OTHER -> {}
  /\ conf \subseteq Ids /\ cut \in BOOLEAN
  /\ errors \in 0 .. MaxErrors /\ crashes \in 0 .. MaxCrashes
  /\ idle \in [Ids -> Ages]
  /\ foreign \subseteq Ids /\ own \subseteq Ids /\ seen \subseteq Containers
  /\ blind \in BOOLEAN /\ torn \in BOOLEAN

\* The goroutine removed x from dockerd in this step.
Collected(x) == x \in Present /\ x \notin Present' /\ pending' # pending

\* What was there before the agent is collected only after a start that could
\* not list it: the extra sets protect it across crashes and rounds.
ForeignIsKept == [][\A x \in foreign : Collected(x) => blind]_vars

\* A container that this round's inspection found stopped, and that was not
\* started since, is collected only when it has been idle for the timeout.
OnlyIdleCollected ==
  [][\A c \in seen : Collected(c) => idle[c] >= ContainerTimeout]_vars

\* "images set for Agent re-connection": what a complete domeagent.conf named
\* becomes extra, and so is never collected, only if a file operation or a
\* request failed, or a crash hit the rewriting of the file.
OwnIsForgottenOnlyByFailure == extra \cap own \cap Present # {} => torn \/ errors > 0

\* A stopped container that is not extra is collected at last, whatever crashes
\* and errors happen first; the cut line is what can prevent it.
StoppedIsCollected ==
  \A c \in Containers :
    []<>(container[c] # "stopped" \/ c \in extra \/ pc = "panic")
=============================================================================
