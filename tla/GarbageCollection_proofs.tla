---------------------- MODULE GarbageCollection_proofs ----------------------
(***************************************************************************)
(* What the garbage collection may remove and forget (GarbageCollection),  *)
(* for any containers, images and timeouts, and any number of crashes and  *)
(* of requests and file operations that fail.                              *)
(***************************************************************************)
EXTENDS GarbageCollection, TLAPS

Starting == { "off", "boot", "panic", "extraImages", "extraContainers" }
Labels == { "boot", "extraImages", "extraContainers", "images", "containers",
            "inspect", "timeoutContainers", "timeoutImages", "truncate",
            "write", "sleep", "off", "panic" }
States == { "none", "created", "running", "stopped", "gone" }
AgesOrNone == Ages \cup { None }

\* TypeOK in three parts: dockerd and the history of its containers,
DockerTyped ==
  /\ container \in [Containers -> States]
  /\ finishedAt \in [Containers -> AgesOrNone]
  /\ images \subseteq Images
  /\ created \in [Images -> Ages]
  /\ idle \in [Ids -> Ages]
\* what the agent has in mind,
AgentTyped ==
  /\ pc \in Labels
  /\ pre \subseteq Ids /\ extra \subseteq Ids
  /\ lastUsed \in [Ids -> AgesOrNone]
  /\ pc \in { "inspect", "timeoutContainers" } => pending \subseteq Containers
  /\ pc = "timeoutImages" => pending \subseteq Images
  /\ pc \notin { "inspect", "timeoutContainers", "timeoutImages" } => pending = {}
\* and the file, the rest of the history, and the bounds.
FileTyped ==
  /\ conf \subseteq Ids /\ cut \in BOOLEAN
  /\ foreign \subseteq Ids /\ own \subseteq Ids /\ seen \subseteq Containers
  /\ blind \in BOOLEAN /\ torn \in BOOLEAN
RestTyped ==
  FileTyped /\ errors \in 0 .. MaxErrors /\ crashes \in 0 .. MaxCrashes

LEMMA Parts == TypeOK <=> DockerTyped /\ AgentTyped /\ RestTyped
BY DEF TypeOK, DockerTyped, AgentTyped, RestTyped, FileTyped, Labels, States, AgesOrNone

LEMMA Timeouts ==
  /\ MaxAge \in Nat
  /\ ContainerTimeout \in Nat \ {0} /\ ContainerTimeout <= MaxAge
  /\ ImageTimeout \in Nat \ {0} /\ ImageTimeout <= MaxAge
BY ContainerTimeoutAssumption, ImageTimeoutAssumption DEF MaxAge

\* Ages grow up to MaxAge, in their order; None is no age.
LEMMA Ageing ==
  /\ \A age \in Ages : Older(age) \in Ages
  /\ \A age \in AgesOrNone : Older(age) \in AgesOrNone
  /\ Older(None) = None
  /\ \A a, b \in AgesOrNone : a <= b => Older(a) <= Older(b) \/ b = None
  /\ MaxAge \in Ages /\ 0 \in Ages /\ None \in AgesOrNone /\ None \notin Ages
  /\ Ages \subseteq AgesOrNone
BY Timeouts DEF Older, Ages, AgesOrNone, None

LEMMA UsedTyped ==
  ASSUME NEW map \in [Ids -> AgesOrNone], NEW x \in Ids, NEW age \in Ages
  PROVE  /\ Used(map, x, age) \in Ages
         /\ map[x] # None => Used(map, x, age) <= age
         /\ Used(map, x, age) <= age
BY Timeouts DEF Used, Ages, AgesOrNone, None

-----------------------------------------------------------------------------
LEMMA TypeInit == Init => TypeOK
<1> SUFFICES ASSUME Init PROVE TypeOK
  OBVIOUS
<1>1. \A c \in Containers : container[c] \in States
  BY DEF Init, States
<1>2. DockerTyped
  BY <1>1, Ageing DEF Init, DockerTyped, States
<1>3. AgentTyped
  BY Ageing DEF Init, AgentTyped, Labels
<1>4. 0 \in 0 .. MaxErrors /\ 0 \in 0 .. MaxCrashes
  BY BoundsAssumption
<1>5. foreign \subseteq Ids
  BY DEF Init, Present, Ids
<1>6. RestTyped
  BY <1>4, <1>5 DEF Init, RestTyped, FileTyped
<1> QED BY <1>2, <1>3, <1>6, Parts

\* The steps of the agent that neither remove anything nor touch its map.
Moves == Boot \/ BootReadError \/ ListExtra \/ ListExtraFails \/ ListContainers
           \/ Inspected \/ ContainersDone \/ ImagesDone \/ Truncate \/ WriteConf
           \/ WriteConfFails \/ Wake \/ Restart

LEMMA Steps ==
  ASSUME Next
  PROVE  \/ Tick \/ World \/ Crash \/ Moves \/ ListImages
         \/ \E c \in Containers : Inspect(c) \/ KeepContainer(c) \/ CollectContainer(c)
         \/ \E i \in Images : KeepImage(i) \/ CollectImage(i)
BY DEF Next, Agent, Collect, Moves

LEMMA MovesKeep ==
  ASSUME Moves
  PROVE  UNCHANGED <<dockerVars, lastUsed, crashes, idle, foreign, seen>>
BY DEF Moves, Boot, BootReadError, ListExtra, ListExtraFails, ListContainers,
       Inspected, ContainersDone, ImagesDone, Truncate, WriteConf, WriteConfFails,
       Wake, Restart, history, fileVars, dockerVars

LEMMA DockerStep ==
  ASSUME TypeOK, [Next]_vars
  PROVE  DockerTyped'
<1>0. DockerTyped
  BY Parts
<1> USE DEF DockerTyped
<1>1. CASE Tick
  <2>1. finishedAt' \in [Containers -> AgesOrNone]
    BY <1>0, <1>1, Ageing DEF Tick
  <2>2. created' \in [Images -> Ages] /\ idle' \in [Ids -> Ages]
    BY <1>0, <1>1, Ageing DEF Tick
  <2> QED BY <1>0, <1>1, <2>1, <2>2 DEF Tick
<1>2. CASE World
  <2>1. ASSUME NEW i \in Images, PullImage(i) PROVE DockerTyped'
    BY <1>0, <2>1, Ageing DEF PullImage, Ids
  <2>2. ASSUME NEW i \in Images, RemoveImage(i) PROVE DockerTyped'
    BY <1>0, <2>2 DEF RemoveImage, history
  <2>3. ASSUME NEW c \in Containers, CreateContainer(c) PROVE DockerTyped'
    BY <1>0, <2>3, Ageing DEF CreateContainer, States, Ids
  <2>4. ASSUME NEW c \in Containers, StartContainer(c) PROVE DockerTyped'
    BY <1>0, <2>4, Ageing DEF StartContainer, States, Ids
  <2>5. ASSUME NEW c \in Containers, StopContainer(c) PROVE DockerTyped'
    BY <1>0, <2>5, Ageing DEF StopContainer, States, history
  <2>6. ASSUME NEW c \in Containers, RemoveContainer(c) PROVE DockerTyped'
    BY <1>0, <2>6 DEF RemoveContainer, States, history
  <2> QED BY <1>2, <2>1, <2>2, <2>3, <2>4, <2>5, <2>6 DEF World
<1>3. ASSUME NEW c \in Containers, CollectContainer(c) PROVE DockerTyped'
  BY <1>0, <1>3 DEF CollectContainer, States, history
<1>4. ASSUME NEW i \in Images, CollectImage(i) PROVE DockerTyped'
  BY <1>0, <1>4 DEF CollectImage, history
<1>5. CASE UNCHANGED <<dockerVars, idle>>
  BY <1>0, <1>5 DEF dockerVars
<1>6. ASSUME NEW c \in Containers, Inspect(c) \/ KeepContainer(c)
      PROVE  UNCHANGED <<dockerVars, idle>>
  BY <1>6 DEF Inspect, KeepContainer, KeepKey, history
<1>7. ASSUME NEW i \in Images, KeepImage(i)
      PROVE  UNCHANGED <<dockerVars, idle>>
  BY <1>7 DEF KeepImage, KeepKey, history
<1>8. Moves \/ ListImages \/ Crash \/ UNCHANGED vars => UNCHANGED <<dockerVars, idle>>
  BY MovesKeep DEF ListImages, Crash, vars, history
<1> QED BY <1>1, <1>2, <1>3, <1>4, <1>5, <1>6, <1>7, <1>8, Steps

LEMMA AgentStep ==
  ASSUME TypeOK, [Next]_vars
  PROVE  AgentTyped'
<1>0. DockerTyped /\ AgentTyped /\ RestTyped
  BY Parts
<1> USE DEF AgentTyped, Labels
<1>1. CASE Tick
  <2>1. lastUsed' \in [Ids -> AgesOrNone]
    BY <1>0, <1>1, Ageing DEF Tick
  <2> QED BY <1>0, <1>1, <2>1 DEF Tick
<1>2. CASE World \/ UNCHANGED vars
  <2>1. UNCHANGED agentVars
    BY <1>2 DEF World, PullImage, RemoveImage, CreateContainer, StartContainer,
                StopContainer, RemoveContainer, vars
  <2> QED BY <1>0, <2>1 DEF agentVars
<1>3. CASE Moves
  <2>0. lastUsed' \in [Ids -> AgesOrNone]
    BY <1>0, <1>3, MovesKeep
  <2>1. CASE Boot \/ BootReadError
    BY <1>0, <2>0, <2>1 DEF Boot, BootReadError, Goto, RestTyped, FileTyped
  <2>2. CASE ListExtra \/ ListExtraFails
    <3>1. images \subseteq Ids /\ Present \subseteq Ids
      BY <1>0 DEF DockerTyped, Present, Ids
    <3> QED BY <1>0, <2>0, <2>2, <3>1 DEF ListExtra, ListExtraFails, Goto
  <2>3. CASE ListContainers
    BY <1>0, <2>0, <2>3 DEF ListContainers, Goto, Present, DockerTyped
  <2>4. CASE Inspected
    BY <1>0, <2>0, <2>4 DEF Inspected, Goto
  <2>5. CASE ContainersDone
    BY <1>0, <2>0, <2>5 DEF ContainersDone, Goto
  <2>6. CASE ImagesDone \/ Truncate \/ WriteConf
    BY <1>0, <2>0, <2>6 DEF ImagesDone, Truncate, WriteConf, Goto
  <2>7. CASE WriteConfFails
    BY <1>0, <2>0, <2>7 DEF WriteConfFails, Goto
  <2>8. CASE Wake \/ Restart
    BY <1>0, <2>0, <2>8 DEF Wake, Restart, Goto
  <2> QED BY <1>3, <2>1, <2>2, <2>3, <2>4, <2>5, <2>6, <2>7, <2>8 DEF Moves
<1>4. CASE ListImages
  <2>1. ASSUME NEW x \in images
        PROVE  x \in Ids /\ created[x] \in Ages
    BY <1>0, <2>1 DEF DockerTyped, Ids
  <2>2. ASSUME NEW x \in images PROVE Used(lastUsed, x, created[x]) \in AgesOrNone
    BY <1>0, <2>1, <2>2, UsedTyped, Ageing
  <2>3. lastUsed' \in [Ids -> AgesOrNone]
    BY <1>0, <1>4, <2>2 DEF ListImages
  <2> QED BY <1>0, <1>4, <2>3 DEF ListImages, Goto
<1>5. CASE Crash
  BY <1>0, <1>5, Ageing DEF Crash, Goto
<1>6. ASSUME NEW c \in Containers, Inspect(c) PROVE AgentTyped'
  <2> DEFINE i == ImageOf[c]
             mine == IF c \in extra THEN lastUsed[c] ELSE Used(lastUsed, c, LastRunning(c))
             its == IF lastUsed[i] = None THEN None
                    ELSE Used(lastUsed, i, LastRunning(c))
  <2>1. c \in Ids /\ i \in Ids /\ i # c
    BY ImageOfAssumption, IdsApart DEF Ids
  <2>2. LastRunning(c) \in Ages
    BY <1>0, Ageing DEF LastRunning, DockerTyped, AgesOrNone
  <2>3. mine \in AgesOrNone /\ its \in AgesOrNone
    BY <1>0, <2>1, <2>2, UsedTyped, Ageing
  <2>4. lastUsed' = lastUsed \/ lastUsed' = [lastUsed EXCEPT ![i] = its, ![c] = mine]
    BY <1>0, <1>6, <2>1 DEF Inspect
  <2> HIDE DEF i, mine, its
  <2>5. lastUsed' \in [Ids -> AgesOrNone]
    BY <1>0, <2>1, <2>3, <2>4
  <2> QED BY <1>0, <1>6, <2>5 DEF Inspect
<1>7. ASSUME NEW c \in Containers, KeepContainer(c) PROVE AgentTyped'
  BY <1>0, <1>7 DEF KeepContainer, KeepKey, Visit
<1>8. ASSUME NEW c \in Containers, CollectContainer(c) PROVE AgentTyped'
  BY <1>0, <1>8, Ageing DEF CollectContainer, Visit, Forget, Ids
<1>9. ASSUME NEW i \in Images, KeepImage(i) PROVE AgentTyped'
  BY <1>0, <1>9 DEF KeepImage, KeepKey, Visit
<1>10. ASSUME NEW i \in Images, CollectImage(i) PROVE AgentTyped'
  BY <1>0, <1>10, Ageing DEF CollectImage, Visit, Forget, Ids
<1> QED BY <1>1, <1>2, <1>3, <1>4, <1>5, <1>6, <1>7, <1>8, <1>9, <1>10, Steps

\* A failed call is counted, up to the bound.
LEMMA Counted ==
  ASSUME RestTyped, errors' = errors \/ Fail
  PROVE  errors' \in 0 .. MaxErrors
<1>1. MaxErrors \in Nat
  BY BoundsAssumption
<1> QED BY <1>1 DEF RestTyped, Fail

LEMMA RestStep ==
  ASSUME TypeOK, [Next]_vars
  PROVE  RestTyped'
<1>0. DockerTyped /\ AgentTyped /\ RestTyped
  BY Parts
<1>a. Keys \subseteq Ids
  BY DEF Keys
<1>1. errors' \in 0 .. MaxErrors
  <2>1. ASSUME NEW c \in Containers,
               Inspect(c) \/ KeepContainer(c) \/ CollectContainer(c)
        PROVE  errors' = errors \/ Fail
    BY <2>1 DEF Inspect, KeepContainer, KeepKey, CollectContainer
  <2>2. ASSUME NEW i \in Images, KeepImage(i) \/ CollectImage(i)
        PROVE  errors' = errors \/ Fail
    BY <2>2 DEF KeepImage, KeepKey, CollectImage
  <2>3. World \/ Tick \/ Crash \/ ListImages => errors' = errors \/ Fail
    BY DEF World, Tick, PullImage, RemoveImage, CreateContainer, StartContainer,
           StopContainer, RemoveContainer, Crash, ListImages
  <2>4. Moves => errors' = errors \/ Fail
    BY DEF Moves, Boot, BootReadError, ListExtra, ListExtraFails, ListContainers,
           Inspected, ContainersDone, ImagesDone, Truncate, WriteConf,
           WriteConfFails, Wake, Restart
  <2>5. errors' = errors \/ Fail
    BY <2>1, <2>2, <2>3, <2>4, Steps DEF vars
  <2> QED BY <1>0, <2>5, Counted
<1>2. crashes' \in 0 .. MaxCrashes
  <2>1. MaxCrashes \in Nat
    BY BoundsAssumption
  <2>2. CASE Crash
    BY <1>0, <2>1, <2>2 DEF Crash, RestTyped
  <2>3. CASE crashes' = crashes
    BY <1>0, <2>3 DEF RestTyped
  <2>4. ASSUME NEW c \in Containers,
               Inspect(c) \/ KeepContainer(c) \/ CollectContainer(c)
        PROVE  crashes' = crashes
    BY <2>4 DEF Inspect, KeepContainer, KeepKey, CollectContainer
  <2>5. ASSUME NEW i \in Images, KeepImage(i) \/ CollectImage(i)
        PROVE  crashes' = crashes
    BY <2>5 DEF KeepImage, KeepKey, CollectImage
  <2>6. World \/ Tick \/ ListImages \/ Moves \/ UNCHANGED vars => crashes' = crashes
    BY MovesKeep
       DEF World, Tick, PullImage, RemoveImage, CreateContainer, StartContainer,
           StopContainer, RemoveContainer, ListImages, vars
  <2> QED BY <2>2, <2>3, <2>4, <2>5, <2>6, Steps
<1>3. FileTyped'
  <2> USE DEF RestTyped, FileTyped, fileVars, history
  <2>1. ASSUME NEW c \in Containers,
               Inspect(c) \/ KeepContainer(c) \/ CollectContainer(c)
        PROVE  FileTyped'
    BY <1>0, <2>1 DEF Inspect, KeepContainer, KeepKey, CollectContainer
  <2>2. ASSUME NEW i \in Images, KeepImage(i) \/ CollectImage(i)
        PROVE  FileTyped'
    BY <1>0, <2>2 DEF KeepImage, KeepKey, CollectImage
  <2>3. CASE World \/ Tick
    <3>1. ASSUME NEW x \in Ids, Appears(x) PROVE foreign' \subseteq Ids /\ own' \subseteq Ids
      BY <1>0, <3>1 DEF Appears
    <3> QED
      BY <1>0, <2>3, <3>1
         DEF World, Tick, PullImage, RemoveImage, CreateContainer, StartContainer,
             StopContainer, RemoveContainer, Ids
  <2>4. CASE Moves
    <3>1. CASE WriteConf
      BY <1>0, <1>a, <3>1 DEF WriteConf
    <3>2. CASE WriteConfFails
      BY <1>0, <1>a, <3>2 DEF WriteConfFails
    <3> QED
      BY <1>0, <2>4, <3>1, <3>2
         DEF Moves, Boot, BootReadError, ListExtra, ListExtraFails, ListContainers,
             Inspected, ContainersDone, ImagesDone, Truncate, Wake, Restart
  <2>5. CASE Crash \/ ListImages \/ UNCHANGED vars
    BY <1>0, <2>5 DEF Crash, ListImages, vars
  <2> QED BY <2>1, <2>2, <2>3, <2>4, <2>5, Steps
<1> QED BY <1>1, <1>2, <1>3 DEF RestTyped

LEMMA PartsNext == (DockerTyped /\ AgentTyped /\ RestTyped)' => TypeOK'
BY DEF TypeOK, DockerTyped, AgentTyped, RestTyped, FileTyped, Labels, States, AgesOrNone

LEMMA TypeStep == TypeOK /\ [Next]_vars => TypeOK'
BY DockerStep, AgentStep, RestStep, PartsNext

-----------------------------------------------------------------------------
(* What the agent knows when it starts, and what has a key.                *)

\* Before the first round no key is in the map, and before the file is read
\* no id of it; nothing extra ever gets a key.
Fresh ==
  /\ pc \in Starting => \A x \in Ids : lastUsed[x] = None
  /\ pc \in { "off", "boot", "panic" } => pre = {}
  /\ \A x \in Ids : lastUsed[x] # None => x \notin extra

\* Which keys a step may add: an image that is listed, or a container that is
\* inspected, unless they are extra.
LEMMA KeysGrow ==
  ASSUME TypeOK, [Next]_vars, NEW x \in Ids, lastUsed[x] = None, lastUsed'[x] # None
  PROVE  /\ x \notin extra /\ x \in Present
         /\ pc \notin Starting /\ UNCHANGED extra
         /\ ListImages \/ \E c \in Containers : Inspect(c)
<1>0. DockerTyped /\ AgentTyped /\ RestTyped
  BY Parts
<1>1. CASE ListImages
  <2>1. x \in images \ extra
    BY <1>0, <1>1 DEF ListImages, AgentTyped
  <2> QED BY <1>1, <2>1 DEF ListImages, Present, Starting
<1>2. ASSUME NEW c \in Containers, Inspect(c)
      PROVE  /\ x \notin extra /\ x \in Present
             /\ pc \notin Starting /\ UNCHANGED extra
  <2>1. c \in Ids /\ ImageOf[c] \in Ids /\ ImageOf[c] # c
    BY ImageOfAssumption, IdsApart DEF Ids
  <2>2. lastUsed' # lastUsed
    OBVIOUS
  <2>3. Exists(c) /\ x = c /\ c \notin extra
    BY <1>0, <1>2, <2>1, <2>2 DEF Inspect, AgentTyped
  <2> QED BY <1>2, <2>3 DEF Inspect, Present, Starting
<1>3. lastUsed'[x] = None
      \/ ListImages \/ \E c \in Containers : Inspect(c)
  <2>1. CASE Tick
    BY <1>0, <2>1, Ageing DEF Tick
  <2>2. CASE World \/ Moves \/ UNCHANGED vars
    BY <2>2, MovesKeep
       DEF World, PullImage, RemoveImage, CreateContainer, StartContainer,
           StopContainer, RemoveContainer, agentVars, vars
  <2>3. CASE Crash
    BY <2>3 DEF Crash
  <2>4. ASSUME NEW c \in Containers, KeepContainer(c) \/ CollectContainer(c)
        PROVE  lastUsed'[x] = None
    BY <1>0, <2>4 DEF KeepContainer, KeepKey, CollectContainer, Forget, AgentTyped
  <2>5. ASSUME NEW i \in Images, KeepImage(i) \/ CollectImage(i)
        PROVE  lastUsed'[x] = None
    BY <1>0, <2>5 DEF KeepImage, KeepKey, CollectImage, Forget, AgentTyped
  <2> QED BY <2>1, <2>2, <2>3, <2>4, <2>5, Steps
<1> QED BY <1>1, <1>2, <1>3

LEMMA FreshInit == Init => Fresh
BY DEF Init, Fresh

LEMMA FreshStep ==
  ASSUME TypeOK, Fresh, [Next]_vars
  PROVE  Fresh'
<1>0. DockerTyped /\ AgentTyped /\ RestTyped
  BY Parts
<1>1. pc' \in Starting => pc \in Starting \/ Crash
  <2>1. World \/ Tick \/ UNCHANGED vars => pc' = pc
    BY DEF World, Tick, PullImage, RemoveImage, CreateContainer, StartContainer,
           StopContainer, RemoveContainer, agentVars, vars
  <2>2. ASSUME NEW c \in Containers,
               Inspect(c) \/ KeepContainer(c) \/ CollectContainer(c)
        PROVE  pc' = pc
    BY <2>2 DEF Inspect, KeepContainer, KeepKey, CollectContainer
  <2>3. ASSUME NEW i \in Images, KeepImage(i) \/ CollectImage(i)
        PROVE  pc' = pc
    BY <2>3 DEF KeepImage, KeepKey, CollectImage
  <2>4. Moves \/ ListImages => (pc' \in Starting => pc \in Starting)
    BY DEF Moves, Boot, BootReadError, ListExtra, ListExtraFails, ListContainers,
           Inspected, ContainersDone, ImagesDone, Truncate, WriteConf,
           WriteConfFails, Wake, Restart, ListImages, Goto, Starting
  <2> QED BY <2>1, <2>2, <2>3, <2>4, Steps
<1>2. pc' \in Starting => \A x \in Ids : lastUsed'[x] = None
  <2>1. Crash => \A x \in Ids : lastUsed'[x] = None
    BY DEF Crash
  <2> QED BY <1>1, <2>1, KeysGrow DEF Fresh
<1>3. extra' = extra \/ \A x \in Ids : lastUsed'[x] = None
  <2>1. World \/ Tick \/ UNCHANGED vars \/ ListImages => extra' = extra
    BY DEF World, Tick, PullImage, RemoveImage, CreateContainer, StartContainer,
           StopContainer, RemoveContainer, agentVars, vars, ListImages
  <2>2. ASSUME NEW c \in Containers,
               Inspect(c) \/ KeepContainer(c) \/ CollectContainer(c)
        PROVE  extra' = extra
    BY <2>2 DEF Inspect, KeepContainer, KeepKey, CollectContainer
  <2>3. ASSUME NEW i \in Images, KeepImage(i) \/ CollectImage(i)
        PROVE  extra' = extra
    BY <2>3 DEF KeepImage, KeepKey, CollectImage
  <2>4. ListExtra => \A x \in Ids : lastUsed'[x] = None
    BY DEF ListExtra, Fresh, Starting
  <2>5. Moves => extra' = extra \/ ListExtra
    BY DEF Moves, Boot, BootReadError, ListExtraFails, ListContainers, Inspected,
           ContainersDone, ImagesDone, Truncate, WriteConf, WriteConfFails, Wake,
           Restart
  <2>6. Crash => \A x \in Ids : lastUsed'[x] = None
    BY DEF Crash
  <2> QED BY <2>1, <2>2, <2>3, <2>4, <2>5, <2>6, Steps
<1>4. \A x \in Ids : lastUsed'[x] # None => x \notin extra'
  BY <1>3, KeysGrow DEF Fresh
<1>5. pc' \in { "off", "boot", "panic" } => pre' = {}
  <2>1. World \/ Tick \/ UNCHANGED vars => pc' = pc /\ pre' = pre
    BY DEF World, Tick, PullImage, RemoveImage, CreateContainer, StartContainer,
           StopContainer, RemoveContainer, agentVars, vars
  <2>2. ASSUME NEW c \in Containers,
               Inspect(c) \/ KeepContainer(c) \/ CollectContainer(c)
        PROVE  pc' = pc /\ pre' = pre
    BY <2>2 DEF Inspect, KeepContainer, KeepKey, CollectContainer
  <2>3. ASSUME NEW i \in Images, KeepImage(i) \/ CollectImage(i)
        PROVE  pc' = pc /\ pre' = pre
    BY <2>3 DEF KeepImage, KeepKey, CollectImage
  <2>4. Moves \/ ListImages => (pc' \in { "off", "boot", "panic" } => pre' = {})
    BY DEF Moves, Boot, BootReadError, ListExtra, ListExtraFails, ListContainers,
           Inspected, ContainersDone, ImagesDone, Truncate, WriteConf,
           WriteConfFails, Wake, Restart, ListImages, Goto, Fresh
  <2>5. Crash => pre' = {}
    BY DEF Crash
  <2> QED BY <2>1, <2>2, <2>3, <2>4, <2>5, Steps DEF Fresh
<1> QED BY <1>2, <1>4, <1>5 DEF Fresh

-----------------------------------------------------------------------------
(* What comes to and goes from dockerd.                                    *)

Pulls(x) == x \in Images /\ PullImage(x)
Creates(x) == x \in Containers /\ CreateContainer(x)

LEMMA PresentGrows ==
  ASSUME TypeOK, [Next]_vars, NEW x, x \in Present', x \notin Present
  PROVE  Pulls(x) \/ Creates(x)
<1>0. DockerTyped
  BY Parts
<1>1. CASE UNCHANGED <<container, images>>
  BY <1>1 DEF Present, Exists
<1>2. ASSUME NEW i \in Images, PullImage(i) PROVE Pulls(x)
  BY <1>2 DEF PullImage, Present, Exists, Pulls
<1>3. ASSUME NEW c \in Containers, CreateContainer(c) PROVE Creates(x)
  BY <1>0, <1>3 DEF CreateContainer, Present, Exists, Creates, DockerTyped
<1>4. ASSUME NEW c \in Containers,
             \/ StartContainer(c) \/ StopContainer(c) \/ RemoveContainer(c)
             \/ CollectContainer(c)
      PROVE  FALSE
  BY <1>0, <1>4 DEF StartContainer, StopContainer, RemoveContainer,
                    CollectContainer, Present, Exists, DockerTyped
<1>5. ASSUME NEW i \in Images, RemoveImage(i) \/ CollectImage(i) PROVE FALSE
  BY <1>5 DEF RemoveImage, CollectImage, Present, Exists
<1>6. ASSUME NEW c \in Containers, Inspect(c) \/ KeepContainer(c)
      PROVE  UNCHANGED <<container, images>>
  BY <1>6 DEF Inspect, KeepContainer, KeepKey, dockerVars
<1>7. ASSUME NEW i \in Images, KeepImage(i) PROVE UNCHANGED <<container, images>>
  BY <1>7 DEF KeepImage, KeepKey, dockerVars
<1>8. Moves \/ ListImages \/ Crash \/ Tick \/ UNCHANGED vars
        => UNCHANGED <<container, images>>
  BY MovesKeep DEF ListImages, Crash, Tick, vars, dockerVars
<1> QED BY <1>1, <1>2, <1>3, <1>4, <1>5, <1>6, <1>7, <1>8, Steps DEF World

LEMMA PresentShrinks ==
  ASSUME TypeOK, [Next]_vars, NEW x, x \in Present, x \notin Present'
  PROVE  \/ pending' = pending
         \/ x \in Containers /\ CollectContainer(x)
         \/ x \in Images /\ CollectImage(x)
<1>0. DockerTyped
  BY Parts
<1>1. World \/ Tick \/ UNCHANGED vars => pending' = pending
  BY DEF World, Tick, PullImage, RemoveImage, CreateContainer, StartContainer,
         StopContainer, RemoveContainer, agentVars, vars
<1>2. CASE UNCHANGED <<container, images>>
  BY <1>2 DEF Present, Exists
<1>3. ASSUME NEW c \in Containers, CollectContainer(c) PROVE x = c
  BY <1>0, <1>3 DEF CollectContainer, Present, Exists, DockerTyped
<1>4. ASSUME NEW i \in Images, CollectImage(i) PROVE x = i
  BY <1>4 DEF CollectImage, Present, Exists
<1>6. ASSUME NEW c \in Containers, Inspect(c) \/ KeepContainer(c)
      PROVE  UNCHANGED <<container, images>>
  BY <1>6 DEF Inspect, KeepContainer, KeepKey, dockerVars
<1>7. ASSUME NEW i \in Images, KeepImage(i) PROVE UNCHANGED <<container, images>>
  BY <1>7 DEF KeepImage, KeepKey, dockerVars
<1>8. Moves \/ ListImages \/ Crash => UNCHANGED <<container, images>>
  BY MovesKeep DEF ListImages, Crash, dockerVars
<1> QED BY <1>1, <1>2, <1>3, <1>4, <1>6, <1>7, <1>8, Steps

-----------------------------------------------------------------------------
(* What is foreign is kept.                                                *)

\* What holds of a foreign x until a start cannot list: no file and no map names
\* it, and it is extra from the listing on.
Untouched(x) ==
  /\ x \notin conf /\ lastUsed[x] = None
  /\ pc \in { "extraImages", "extraContainers" } => x \notin pre
  /\ pc = "extraContainers" /\ x \in images => x \in extra
  /\ pc \notin Starting /\ x \in Present => x \in extra

Kept == blind \/ \A x \in foreign : Untouched(x)

LEMMA KeptInit == Init => Kept
BY DEF Init, Kept, Untouched, Present, Ids, Exists, Starting

LEMMA KeptStep ==
  ASSUME TypeOK, Fresh, Kept, [Next]_vars
  PROVE  Kept'
<1>0. DockerTyped /\ AgentTyped /\ RestTyped /\ foreign \subseteq Ids
  BY Parts DEF RestTyped, FileTyped
<1> SUFFICES ASSUME ~ blind', NEW x \in foreign' PROVE Untouched(x)'
  BY DEF Kept
<1> USE DEF Untouched
<1>1. ASSUME NEW y \in Ids, Pulls(y) \/ Creates(y) PROVE Untouched(x)'
  <2>1. UNCHANGED <<agentVars, fileVars, blind>> /\ Appears(y)
    BY <1>1 DEF Pulls, Creates, PullImage, CreateContainer
  <2>2. CASE x = y
    <3>1. Foreign(x)
      BY <2>1, <2>2 DEF Appears
    <3>2. lastUsed[x] = None /\ pc \in Starting /\ x \notin conf
      BY <1>1, <2>2, <3>1 DEF Foreign, Fresh, Starting
    <3>3. pc = "extraContainers" => x \notin images'
      BY <1>0, <1>1, <2>2, <3>1, IdsApart
         DEF Foreign, Creates, CreateContainer, Pulls, DockerTyped
    <3> QED BY <2>1, <3>1, <3>2, <3>3 DEF Foreign, agentVars, fileVars
  <2>3. CASE x # y
    <3>1. x \in foreign /\ Untouched(x)
      BY <2>1, <2>3 DEF Appears, Kept
    <3>2. (x \in images' => x \in images) /\ (x \in Present' => x \in Present)
      BY <1>0, <1>1, <2>3 DEF Pulls, Creates, PullImage, CreateContainer, Present,
                              Exists, DockerTyped
    <3> QED BY <2>1, <3>1, <3>2 DEF agentVars, fileVars
  <2> QED BY <2>2, <2>3
<1>2. CASE /\ \A y \in Ids : ~ Pulls(y) /\ ~ Creates(y)
           /\ foreign' = foreign /\ ~ blind
  <2>0. x \in Ids /\ Untouched(x)
    BY <1>0, <1>2 DEF Kept
  <2>1. x \in Present' => x \in Present
    BY <1>2, <2>0, PresentGrows
  <2>2. x \in images' => x \in images
    <3>1. images' \subseteq Images /\ images \subseteq Images
      BY <1>0, DockerStep DEF DockerTyped
    <3>2. ASSUME x \in images' PROVE x \in images
      <4>1. x \in Present /\ x \notin Containers
        BY <2>1, <3>1, <3>2, IdsApart DEF Present
      <4> QED BY <4>1 DEF Present
    <3> QED BY <3>2
  <2>3. lastUsed'[x] = None
    <3>1. pc \notin Starting /\ x \in Present => x \in extra
      BY <2>0
    <3> QED BY <2>0, <3>1, KeysGrow
  <2>4. CASE World \/ Tick \/ UNCHANGED vars
    <3>1. UNCHANGED <<pc, pre, extra, conf>>
      BY <2>4 DEF World, Tick, PullImage, RemoveImage, CreateContainer,
              StartContainer, StopContainer, RemoveContainer, agentVars, fileVars, vars
    <3> QED BY <2>0, <2>1, <2>2, <2>3, <3>1
  <2>5. ASSUME NEW c \in Containers,
               Inspect(c) \/ KeepContainer(c) \/ CollectContainer(c)
        PROVE  UNCHANGED <<pc, pre, extra, conf>>
    BY <2>5 DEF Inspect, KeepContainer, KeepKey, CollectContainer, fileVars
  <2>6. ASSUME NEW i \in Images, KeepImage(i) \/ CollectImage(i)
        PROVE  UNCHANGED <<pc, pre, extra, conf>>
    BY <2>6 DEF KeepImage, KeepKey, CollectImage, fileVars
  <2>7. CASE Moves
    <3>1. x \notin Keys
      BY <2>0 DEF Keys
    <3>2. x \notin conf'
      BY <2>0, <2>7, <3>1
         DEF Moves, Boot, BootReadError, ListExtra, ListExtraFails, ListContainers,
             Inspected, ContainersDone, ImagesDone, Truncate, WriteConf,
             WriteConfFails, Wake, Restart, fileVars
    <3>3. CASE Boot \/ BootReadError
      BY <2>0, <2>3, <3>2, <3>3 DEF Boot, BootReadError, Goto, Fresh, Starting
    <3>4. CASE ListExtra
      BY <2>0, <2>1, <2>2, <2>3, <3>2, <3>4, IdsApart, <1>0
         DEF ListExtra, Goto, Starting, Present, DockerTyped
    <3>5. CASE ListExtraFails
      BY <3>5 DEF ListExtraFails
    <3>6. CASE \/ ListContainers \/ Inspected \/ ContainersDone \/ ImagesDone
               \/ Truncate \/ WriteConf \/ WriteConfFails \/ Wake
      <4>1. pc \notin Starting /\ pc' \notin Starting /\ extra' = extra
        BY <3>6
           DEF ListContainers, Inspected, ContainersDone, ImagesDone, Truncate,
               WriteConf, WriteConfFails, Wake, Goto, Starting
      <4> QED BY <2>0, <2>1, <2>3, <3>2, <4>1 DEF Starting
    <3>7. CASE Restart
      BY <2>3, <3>2, <3>7 DEF Restart, Goto, Starting
    <3> QED BY <2>7, <3>3, <3>4, <3>5, <3>6, <3>7 DEF Moves
  <2>8. CASE ListImages
    BY <2>0, <2>1, <2>3, <2>8 DEF ListImages, Goto, Starting, fileVars
  <2>9. CASE Crash
    BY <2>0, <2>3, <2>9 DEF Crash, Goto, Starting, fileVars
  <2> QED BY <2>0, <2>1, <2>2, <2>3, <2>4, <2>5, <2>6, <2>7, <2>8, <2>9, Steps
<1>3. (\E y \in Ids : Pulls(y) \/ Creates(y)) \/ foreign' = foreign
  <2>1. ASSUME NEW c \in Containers,
               Inspect(c) \/ KeepContainer(c) \/ CollectContainer(c)
        PROVE  foreign' = foreign
    BY <2>1 DEF Inspect, KeepContainer, KeepKey, CollectContainer, history
  <2>2. ASSUME NEW i \in Images, KeepImage(i) \/ CollectImage(i)
        PROVE  foreign' = foreign
    BY <2>2 DEF KeepImage, KeepKey, CollectImage, history
  <2>3. Moves \/ ListImages \/ Crash \/ Tick \/ UNCHANGED vars => foreign' = foreign
    BY MovesKeep DEF ListImages, Crash, Tick, vars, history
  <2>4. CASE World
    BY <2>4 DEF World, Pulls, Creates, Ids, RemoveImage, StartContainer,
                StopContainer, RemoveContainer, history
  <2> QED BY <2>1, <2>2, <2>3, <2>4, Steps
<1>4. blind => blind'
  <2>1. ASSUME NEW c \in Containers,
               Inspect(c) \/ KeepContainer(c) \/ CollectContainer(c)
        PROVE  blind' = blind
    BY <2>1 DEF Inspect, KeepContainer, KeepKey, CollectContainer, history
  <2>2. ASSUME NEW i \in Images, KeepImage(i) \/ CollectImage(i)
        PROVE  blind' = blind
    BY <2>2 DEF KeepImage, KeepKey, CollectImage, history
  <2>3. World \/ ListImages \/ Crash \/ Tick \/ UNCHANGED vars => blind' = blind
    BY DEF World, PullImage, RemoveImage, CreateContainer, StartContainer,
           StopContainer, RemoveContainer, ListImages, Crash, Tick, vars, history
  <2>4. Moves => (blind => blind')
    BY DEF Moves, Boot, BootReadError, ListExtra, ListExtraFails, ListContainers,
           Inspected, ContainersDone, ImagesDone, Truncate, WriteConf,
           WriteConfFails, Wake, Restart, history
  <2> QED BY <2>1, <2>2, <2>3, <2>4, Steps
<1> QED BY <1>1, <1>2, <1>3, <1>4

-----------------------------------------------------------------------------
(* What the agent owns is remembered.                                      *)

Forgotten == torn \/ errors > 0

\* What a complete file named is not extra, and is in the file except while
\* that is rewritten, in the copy of the start, and from the inspection on among
\* the keys the next file is made of.
Owned ==
  LET mine == own \cap Present
  IN Forgotten \/ /\ extra \cap mine = {}
                  /\ pc # "write" => mine \subseteq conf
                  /\ pc \in { "extraImages", "extraContainers" } => mine \subseteq pre
                  /\ pc \in { "containers", "inspect" } => mine \cap Images \subseteq Keys
                  /\ pc = "inspect" => mine \subseteq Keys \cup pending
                  /\ pc \in { "timeoutContainers", "timeoutImages", "truncate",
                              "write" } => mine \subseteq Keys

LEMMA OwnedInit == Init => Owned
BY DEF Init, Owned

\* Failures are not forgotten.
LEMMA ForgottenStays ==
  ASSUME TypeOK, [Next]_vars, Forgotten
  PROVE  Forgotten'
<1>0. errors \in Nat
  BY Parts, BoundsAssumption DEF RestTyped
<1>1. errors' = errors \/ Fail
  <2>1. ASSUME NEW c \in Containers,
               Inspect(c) \/ KeepContainer(c) \/ CollectContainer(c)
        PROVE  errors' = errors \/ Fail
    BY <2>1 DEF Inspect, KeepContainer, KeepKey, CollectContainer
  <2>2. ASSUME NEW i \in Images, KeepImage(i) \/ CollectImage(i)
        PROVE  errors' = errors \/ Fail
    BY <2>2 DEF KeepImage, KeepKey, CollectImage
  <2>3. World \/ Tick \/ Crash \/ ListImages \/ UNCHANGED vars => errors' = errors \/ Fail
    BY DEF World, Tick, PullImage, RemoveImage, CreateContainer, StartContainer,
           StopContainer, RemoveContainer, Crash, ListImages, vars
  <2>4. Moves => errors' = errors \/ Fail
    BY DEF Moves, Boot, BootReadError, ListExtra, ListExtraFails, ListContainers,
           Inspected, ContainersDone, ImagesDone, Truncate, WriteConf,
           WriteConfFails, Wake, Restart
  <2> QED BY <2>1, <2>2, <2>3, <2>4, Steps
<1>2. errors' >= errors
  BY <1>0, <1>1 DEF Fail
<1>3. torn => torn'
  <2>1. ASSUME NEW c \in Containers,
               Inspect(c) \/ KeepContainer(c) \/ CollectContainer(c)
        PROVE  torn' = torn
    BY <2>1 DEF Inspect, KeepContainer, KeepKey, CollectContainer, history
  <2>2. ASSUME NEW i \in Images, KeepImage(i) \/ CollectImage(i)
        PROVE  torn' = torn
    BY <2>2 DEF KeepImage, KeepKey, CollectImage, history
  <2>3. World \/ ListImages \/ Tick \/ UNCHANGED vars => torn' = torn
    BY DEF World, PullImage, RemoveImage, CreateContainer, StartContainer,
           StopContainer, RemoveContainer, ListImages, Tick, vars, history
  <2>4. Moves \/ Crash => (torn => torn')
    BY DEF Moves, Boot, BootReadError, ListExtra, ListExtraFails, ListContainers,
           Inspected, ContainersDone, ImagesDone, Truncate, WriteConf,
           WriteConfFails, Wake, Restart, Crash, history
  <2> QED BY <2>1, <2>2, <2>3, <2>4, Steps
<1>4. CASE torn
  BY <1>3, <1>4 DEF Forgotten
<1>5. CASE errors > 0
  <2>1. errors' \in Nat
    BY RestStep, BoundsAssumption DEF RestTyped
  <2>2. errors' > 0
    BY <1>0, <1>2, <1>5, <2>1
  <2> QED BY <2>2 DEF Forgotten
<1> QED BY <1>4, <1>5 DEF Forgotten

\* A call that fails is a failure.
LEMMA FailForgets ==
  ASSUME TypeOK, Fail
  PROVE  Forgotten'
<1>1. errors \in Nat
  BY Parts, BoundsAssumption DEF RestTyped
<1> QED BY <1>1 DEF Fail, Forgotten

\* Only a complete file makes the agent own something; what comes is new.
LEMMA MineShrinks ==
  ASSUME TypeOK, [Next]_vars, ~ WriteConf
  PROVE  (own \cap Present)' \subseteq own \cap Present
<1>1. own' \subseteq own
  <2>1. ASSUME NEW c \in Containers,
               Inspect(c) \/ KeepContainer(c) \/ CollectContainer(c)
        PROVE  own' = own
    BY <2>1 DEF Inspect, KeepContainer, KeepKey, CollectContainer, history
  <2>2. ASSUME NEW i \in Images, KeepImage(i) \/ CollectImage(i)
        PROVE  own' = own
    BY <2>2 DEF KeepImage, KeepKey, CollectImage, history
  <2>3. World \/ ListImages \/ Crash \/ Tick \/ UNCHANGED vars => own' \subseteq own
    BY DEF World, PullImage, RemoveImage, CreateContainer, StartContainer, Appears,
           StopContainer, RemoveContainer, ListImages, Crash, Tick, vars, history
  <2>4. Moves => own' = own
    BY DEF Moves, Boot, BootReadError, ListExtra, ListExtraFails, ListContainers,
           Inspected, ContainersDone, ImagesDone, Truncate,
           WriteConfFails, Wake, Restart, history
  <2> QED BY <2>1, <2>2, <2>3, <2>4, Steps
<1>2. ASSUME NEW x, x \in Present', x \notin Present PROVE x \notin own'
  <2>1. Pulls(x) \/ Creates(x)
    BY <1>2, PresentGrows
  <2> QED BY <2>1 DEF Pulls, Creates, PullImage, CreateContainer, Appears
<1> QED BY <1>1, <1>2

\* A key goes with its container or image, or with the process.
LEMMA KeysStay ==
  ASSUME TypeOK, [Next]_vars, ~ Crash, NEW x \in Keys, x \in Present'
  PROVE  x \in Keys'
<1>0. DockerTyped /\ AgentTyped /\ RestTyped
  BY Parts
<1>a. x \in Ids /\ lastUsed[x] # None
  BY DEF Keys
<1> SUFFICES lastUsed'[x] # None
  BY <1>a DEF Keys
<1>1. CASE lastUsed' = lastUsed
  BY <1>1, <1>a
<1>2. CASE Tick
  <2>1. lastUsed[x] \in Ages
    BY <1>0, <1>a DEF AgentTyped, AgesOrNone
  <2> QED BY <1>2, <1>a, <2>1, Ageing DEF Tick
<1>3. World \/ Moves \/ UNCHANGED vars => lastUsed' = lastUsed
  BY MovesKeep
     DEF World, PullImage, RemoveImage, CreateContainer, StartContainer,
         StopContainer, RemoveContainer, agentVars, vars
<1>4. CASE ListImages
  <2>1. x \in images => Used(lastUsed, x, created[x]) # None
    BY <1>0, <1>a, UsedTyped, Ageing DEF DockerTyped, AgentTyped
  <2> QED BY <1>4, <1>a, <2>1 DEF ListImages
<1>5. ASSUME NEW c \in Containers, Inspect(c) PROVE lastUsed'[x] # None
  <2>1. LastRunning(c) \in Ages
    BY <1>0, Ageing DEF LastRunning, DockerTyped, AgesOrNone
  <2>2. Used(lastUsed, x, LastRunning(c)) # None
    BY <1>0, <1>a, <2>1, UsedTyped, Ageing DEF AgentTyped
  <2> HIDE DEF LastRunning
  <2> QED BY <1>0, <1>5, <1>a, <2>2 DEF Inspect, AgentTyped
<1>6. ASSUME NEW c \in Containers, KeepContainer(c) PROVE lastUsed' = lastUsed
  BY <1>6 DEF KeepContainer, KeepKey
<1>7. ASSUME NEW i \in Images, KeepImage(i) PROVE lastUsed' = lastUsed
  BY <1>7 DEF KeepImage, KeepKey
<1>8. ASSUME NEW c \in Containers, CollectContainer(c) PROVE lastUsed'[x] # None
  <2>1. x # c
    BY <1>0, <1>8, IdsApart
       DEF CollectContainer, Present, Exists, DockerTyped
  <2> QED BY <1>0, <1>8, <1>a, <2>1 DEF CollectContainer, Forget, AgentTyped
<1>9. ASSUME NEW i \in Images, CollectImage(i) PROVE lastUsed'[x] # None
  <2>1. x # i
    BY <1>9, IdsApart DEF CollectImage, Present
  <2> QED BY <1>0, <1>9, <1>a, <2>1 DEF CollectImage, Forget, AgentTyped
<1> QED BY <1>1, <1>2, <1>3, <1>4, <1>5, <1>6, <1>7, <1>8, <1>9, Steps

LEMMA OwnedStep ==
  ASSUME TypeOK, Fresh, Owned, [Next]_vars
  PROVE  Owned'
<1>0. DockerTyped /\ AgentTyped /\ RestTyped
  BY Parts
<1>a. own \subseteq Ids
  BY <1>0 DEF RestTyped, FileTyped
<1> SUFFICES ASSUME ~ Forgotten' PROVE Owned'
  BY DEF Owned
<1>b. ~ Forgotten /\ ~ Fail
  BY ForgottenStays, FailForgets
<1> DEFINE mine == own \cap Present
<1>1. ~ WriteConf => mine' \subseteq mine
  BY MineShrinks
<1>2. \A x \in mine' : x \in Keys /\ ~ Crash => x \in Keys'
  BY KeysStay
<1>c. /\ extra \cap mine = {}
      /\ pc # "write" => mine \subseteq conf
      /\ pc \in { "extraImages", "extraContainers" } => mine \subseteq pre
      /\ pc \in { "containers", "inspect" } => mine \cap Images \subseteq Keys
      /\ pc = "inspect" => mine \subseteq Keys \cup pending
      /\ pc \in { "timeoutContainers", "timeoutImages", "truncate", "write" }
           => mine \subseteq Keys
  BY <1>b DEF Owned
<1>d. mine \subseteq Ids /\ mine \subseteq Present
  BY <1>a
<1> SUFFICES
      /\ extra' \cap mine' = {}
      /\ pc' # "write" => mine' \subseteq conf'
      /\ pc' \in { "extraImages", "extraContainers" } => mine' \subseteq pre'
      /\ pc' \in { "containers", "inspect" } => mine' \cap Images \subseteq Keys'
      /\ pc' = "inspect" => mine' \subseteq Keys' \cup pending'
      /\ pc' \in { "timeoutContainers", "timeoutImages", "truncate", "write" }
           => mine' \subseteq Keys'
  BY DEF Owned
<1>3. CASE WriteConf
  <2>1. mine' \subseteq Keys /\ UNCHANGED <<extra, pre>> /\ pc = "write"
    BY <1>3, <1>c, MovesKeep DEF WriteConf, Present, Exists, dockerVars
  <2>2. Keys \cap extra = {}
    BY DEF Keys, Fresh
  <2> QED BY <1>3, <2>1, <2>2 DEF WriteConf, Goto
<1> HIDE DEF mine
<1>4. CASE World \/ Tick \/ UNCHANGED vars
  <2>1. UNCHANGED <<pc, pre, extra, pending, conf>> /\ ~ WriteConf /\ ~ Crash
    BY <1>4 DEF World, Tick, PullImage, RemoveImage, CreateContainer,
            StartContainer, StopContainer, RemoveContainer, agentVars, fileVars, vars,
            WriteConf, Crash, Goto
  <2> QED BY <1>1, <1>2, <1>c, <2>1
<1>5. CASE Boot \/ BootReadError
  BY <1>1, <1>5, <1>b, <1>c DEF Boot, BootReadError, Goto, WriteConf, fileVars
<1>6. CASE ListExtra \/ ListExtraFails
  BY <1>1, <1>6, <1>b, <1>c
     DEF ListExtra, ListExtraFails, Goto, WriteConf, fileVars
<1>7. CASE ListImages
  <2>1. UNCHANGED <<extra, conf>> /\ pc = "images" /\ pc' = "containers"
    BY <1>7 DEF ListImages, Goto, fileVars
  <2>2. mine' \subseteq mine
    BY <1>1, <2>1 DEF WriteConf
  <2>3. ASSUME NEW x \in mine' \cap Images PROVE x \in Keys'
    <3>1. x \in images \ extra /\ x \in Ids
      BY <1>c, <1>d, <2>2, <2>3, IdsApart DEF Present
    <3>2. Used(lastUsed, x, created[x]) # None
      BY <1>0, <3>1, UsedTyped, Ageing DEF DockerTyped, AgentTyped
    <3>3. lastUsed'[x] # None
      BY <1>7, <1>b, <3>1, <3>2 DEF ListImages
    <3> QED BY <3>1, <3>3 DEF Keys
  <2> QED BY <1>c, <2>1, <2>2, <2>3
<1>8. CASE ListContainers
  <2>1. /\ UNCHANGED <<extra, conf>> /\ pc = "containers" /\ pc' = "inspect"
        /\ pending' = Present \ Images
    BY <1>8, <1>b DEF ListContainers, Goto, fileVars
  <2>2. mine' \subseteq mine /\ ~ Crash
    BY <1>1, <2>1 DEF WriteConf, Crash, Goto
  <2>3. mine' \cap Images \subseteq Keys'
    BY <1>2, <1>c, <2>1, <2>2
  <2>4. mine' \subseteq Keys' \cup pending'
    BY <1>d, <2>1, <2>2, <2>3
  <2> QED BY <1>c, <2>1, <2>2, <2>3, <2>4
<1>9. ASSUME NEW c \in Containers, Inspect(c)
      PROVE  /\ UNCHANGED <<extra, conf, pc>> /\ pc = "inspect"
             /\ mine' \subseteq mine /\ mine' \cap Images \subseteq Keys'
             /\ mine' \subseteq Keys' \cup pending'
  <2>1. /\ UNCHANGED <<extra, conf, pc>> /\ pc = "inspect"
        /\ pending' = pending \ {c}
    BY <1>9 DEF Inspect, fileVars
  <2>2. mine' \subseteq mine /\ ~ Crash
    BY <1>1, <2>1 DEF WriteConf, Crash, Goto
  <2>3. mine' \cap Images \subseteq Keys'
    BY <1>2, <1>c, <2>1, <2>2
  <2>4. c \in mine' => c \in Keys'
    <3> SUFFICES ASSUME c \in mine' PROVE c \in Keys'
      OBVIOUS
    <3>1. c \in Present /\ c \notin extra /\ c \in Ids
      BY <1>c, <1>d, <2>2
    <3>2. Exists(c)
      BY <1>0, <3>1, IdsApart DEF Present, DockerTyped
    <3>3. LastRunning(c) \in Ages
      BY <1>0, Ageing DEF LastRunning, DockerTyped, AgesOrNone
    <3>4. Used(lastUsed, c, LastRunning(c)) # None
      BY <1>0, <3>1, <3>3, UsedTyped, Ageing DEF AgentTyped
    <3>5. ImageOf[c] # c
      BY ImageOfAssumption, IdsApart
    <3>6. lastUsed'[c] # None
      BY <1>0, <1>9, <1>b, <3>1, <3>2, <3>4, <3>5 DEF Inspect, AgentTyped
    <3> QED BY <3>1, <3>6 DEF Keys
  <2>5. mine' \subseteq Keys' \cup pending'
    BY <1>2, <1>c, <2>1, <2>2, <2>4
  <2> QED BY <2>1, <2>2, <2>3, <2>5
<1>10. ASSUME \/ \E c \in Containers : KeepContainer(c) \/ CollectContainer(c)
              \/ \E i \in Images : KeepImage(i) \/ CollectImage(i)
       PROVE  /\ UNCHANGED <<extra, conf, pc>>
              /\ pc \in { "timeoutContainers", "timeoutImages" }
              /\ mine' \subseteq mine /\ mine' \subseteq Keys'
  <2>1. /\ UNCHANGED <<extra, conf, pc>>
        /\ pc \in { "timeoutContainers", "timeoutImages" }
    BY <1>10 DEF KeepContainer, KeepImage, KeepKey, CollectContainer, CollectImage,
                 Visit, fileVars
  <2>2. mine' \subseteq mine /\ ~ Crash
    BY <1>1, <2>1 DEF WriteConf, Crash, Goto
  <2> QED BY <1>2, <1>c, <2>1, <2>2
<1>11. CASE Inspected \/ ContainersDone \/ ImagesDone
  <2>1. /\ UNCHANGED <<extra, conf>> /\ pc \in { "inspect", "timeoutContainers",
                                                 "timeoutImages" }
        /\ pc' \in { "timeoutContainers", "timeoutImages", "truncate" }
        /\ pc = "inspect" => pending = {}
    BY <1>11 DEF Inspected, ContainersDone, ImagesDone, Goto, fileVars
  <2>2. mine' \subseteq mine /\ ~ Crash
    BY <1>1, <2>1 DEF WriteConf, Crash, Goto
  <2>3. mine' \subseteq Keys
    BY <1>c, <2>1, <2>2
  <2> QED BY <1>2, <1>c, <2>1, <2>2, <2>3
<1>12. CASE Truncate
  <2>1. UNCHANGED extra /\ pc = "truncate" /\ pc' = "write"
    BY <1>12 DEF Truncate, Goto
  <2>2. mine' \subseteq mine /\ ~ Crash
    BY <1>1, <2>1 DEF WriteConf, Crash, Goto
  <2> QED BY <1>2, <1>c, <2>1, <2>2
<1>13. CASE WriteConfFails
  BY <1>13, <1>b DEF WriteConfFails
<1>14. CASE Wake \/ Restart
  BY <1>1, <1>14, <1>c DEF Wake, Restart, Goto, WriteConf, fileVars
<1>15. CASE Crash
  <2>1. pc # "write" /\ pc' = "off" /\ extra' = {} /\ conf' = conf
    BY <1>15 DEF Crash, Goto, Forgotten, fileVars
  <2> QED BY <1>1, <1>c, <2>1 DEF WriteConf
<1> QED BY <1>3, <1>4, <1>5, <1>6, <1>7, <1>8, <1>9, <1>10, <1>11, <1>12, <1>13,
           <1>14, <1>15, <1>c, Steps DEF Moves

-----------------------------------------------------------------------------
(* Who was seen stopped has been idle for as long as its key is old.       *)

\* FinishedAt of a container against how long it is idle; and the key of one
\* that the inspection of this round saw.
Rests(c) ==
  /\ container[c] \in { "none", "created" } => finishedAt[c] = None
  /\ container[c] = "running" => idle[c] = 0
  /\ container[c] = "stopped" => finishedAt[c] = idle[c]
  /\ c \in seen => container[c] \in { "created", "stopped", "gone" }
                     /\ lastUsed[c] <= idle[c]

Rested == \A c \in Containers : Rests(c)

LEMMA RestedInit == Init => Rested
BY DEF Init, Rested, Rests, Exists, Ids

LEMMA RestedStep ==
  ASSUME TypeOK, Fresh, Rested, [Next]_vars
  PROVE  Rested'
<1>0. DockerTyped /\ AgentTyped /\ RestTyped
  BY Parts
<1> SUFFICES ASSUME NEW c \in Containers PROVE Rests(c)'
  BY DEF Rested
<1>a. /\ Rests(c) /\ c \in Ids /\ container[c] \in States /\ idle[c] \in Ages
      /\ lastUsed[c] \in AgesOrNone /\ finishedAt[c] \in AgesOrNone
  BY <1>0 DEF Rested, Ids, DockerTyped, AgentTyped
<1>b. \A age \in Ages : None <= age /\ 0 <= age
  BY Timeouts DEF Ages, None
<1> USE DEF Rests
<1>1. CASE Tick
  <2>1. /\ UNCHANGED <<container, seen>>
        /\ finishedAt'[c] = Older(finishedAt[c]) /\ lastUsed'[c] = Older(lastUsed[c])
    BY <1>1, <1>a DEF Tick
  <2>2. idle'[c] = IF container[c] = "running" THEN 0 ELSE Older(idle[c])
    BY <1>1, <1>a, IdsApart DEF Tick
  <2>3. c \in seen => lastUsed'[c] <= idle'[c]
    BY <1>a, <2>1, <2>2, Ageing
  <2> QED BY <1>a, <2>1, <2>2, <2>3, Ageing
<1>2. ASSUME NEW i \in Images, PullImage(i) \/ RemoveImage(i) PROVE Rests(c)'
  <2>1. c # i
    BY IdsApart
  <2>2. /\ UNCHANGED <<container, finishedAt, seen, lastUsed>> /\ idle'[c] = idle[c]
    BY <1>0, <1>2, <1>a, <2>1
       DEF PullImage, RemoveImage, DockerTyped, agentVars, history
  <2> QED BY <1>a, <2>2
<1>3. ASSUME NEW d \in Containers, CreateContainer(d) PROVE Rests(c)'
  <2>1. UNCHANGED <<finishedAt, seen, lastUsed>>
    BY <1>3 DEF CreateContainer, agentVars
  <2>2. CASE c = d
    BY <1>0, <1>3, <1>a, <2>1, <2>2 DEF CreateContainer, DockerTyped
  <2>3. CASE c # d
    <3>1. container'[c] = container[c] /\ idle'[c] = idle[c]
      BY <1>0, <1>3, <1>a, <2>3 DEF CreateContainer, DockerTyped
    <3> QED BY <1>a, <2>1, <3>1
  <2> QED BY <2>2, <2>3
<1>4. ASSUME NEW d \in Containers, StartContainer(d) PROVE Rests(c)'
  <2>1. UNCHANGED <<finishedAt, lastUsed>> /\ seen' = seen \ {d}
    BY <1>4 DEF StartContainer, agentVars
  <2>2. ImageOf[d] # c /\ d \in Ids
    BY ImageOfAssumption, IdsApart DEF Ids
  <2>3. CASE c = d
    BY <1>0, <1>4, <1>a, <2>1, <2>2, <2>3 DEF StartContainer, DockerTyped
  <2>4. CASE c # d
    <3>1. container'[c] = container[c] /\ idle'[c] = idle[c]
      BY <1>0, <1>4, <1>a, <2>2, <2>4 DEF StartContainer, DockerTyped
    <3> QED BY <1>a, <2>1, <3>1
  <2> QED BY <2>3, <2>4
<1>5. ASSUME NEW d \in Containers, StopContainer(d) PROVE Rests(c)'
  <2>1. UNCHANGED <<idle, seen, lastUsed>>
    BY <1>5 DEF StopContainer, agentVars, history
  <2>2. CASE c = d
    BY <1>0, <1>5, <1>a, <2>1, <2>2 DEF StopContainer, DockerTyped
  <2>3. CASE c # d
    <3>1. container'[c] = container[c] /\ finishedAt'[c] = finishedAt[c]
      BY <1>0, <1>5, <1>a, <2>3 DEF StopContainer, DockerTyped
    <3> QED BY <1>a, <2>1, <3>1
  <2> QED BY <2>2, <2>3
<1>6. ASSUME NEW d \in Containers, RemoveContainer(d) PROVE Rests(c)'
  <2>1. UNCHANGED <<idle, finishedAt, seen, lastUsed>>
    BY <1>6 DEF RemoveContainer, agentVars, history
  <2>2. container'[c] = IF c = d THEN "gone" ELSE container[c]
    BY <1>0, <1>6 DEF RemoveContainer, DockerTyped
  <2> QED BY <1>a, <2>1, <2>2
<1>7. ASSUME NEW d \in Containers, CollectContainer(d) PROVE Rests(c)'
  <2>1. UNCHANGED <<idle, finishedAt, seen>>
    BY <1>7 DEF CollectContainer, history
  <2>2. container'[c] = IF c = d THEN "gone" ELSE container[c]
    BY <1>0, <1>7 DEF CollectContainer, DockerTyped
  <2>3. lastUsed'[c] = IF c = d THEN None ELSE lastUsed[c]
    BY <1>0, <1>7, <1>a DEF CollectContainer, Forget, AgentTyped
  <2> QED BY <1>a, <1>b, <2>1, <2>2, <2>3
<1>8. ASSUME NEW i \in Images, KeepImage(i) \/ CollectImage(i) PROVE Rests(c)'
  <2>1. c # i
    BY IdsApart
  <2>2. UNCHANGED <<container, idle, finishedAt, seen>> /\ lastUsed'[c] = lastUsed[c]
    BY <1>0, <1>8, <1>a, <2>1 DEF KeepImage, KeepKey, CollectImage, Forget, AgentTyped,
                                  dockerVars, history
  <2> QED BY <1>a, <2>2
<1>9. ASSUME NEW d \in Containers, KeepContainer(d) PROVE Rests(c)'
  BY <1>9, <1>a DEF KeepContainer, KeepKey, dockerVars, history
<1>10. ASSUME NEW d \in Containers, Inspect(d) PROVE Rests(c)'
  <2>1. UNCHANGED <<container, idle, finishedAt>>
    BY <1>10 DEF Inspect, dockerVars
  <2>2. ImageOf[d] # c /\ ImageOf[d] # d
    BY ImageOfAssumption, IdsApart
  <2>3. CASE lastUsed' = lastUsed /\ seen' = seen
    BY <1>a, <2>1, <2>3
  <2>4. CASE c # d
    <3>1. lastUsed'[c] = lastUsed[c] /\ (c \in seen' => c \in seen)
      BY <1>0, <1>10, <1>a, <2>2, <2>4 DEF Inspect, AgentTyped
    <3> QED BY <1>a, <2>1, <3>1
  <2>5. CASE c = d /\ Exists(c) /\ (container[c] = "running" \/ c \in seen')
    <3>1. LastRunning(c) \in Ages
      BY <1>a, Ageing DEF LastRunning, AgesOrNone
    <3>2. container[c] # "running" => LastRunning(c) <= idle[c]
      BY <1>a, <1>b, <2>5 DEF LastRunning, Exists, Ages, None
    <3>3. \/ lastUsed'[c] = lastUsed[c]
          \/ c \notin extra /\ lastUsed'[c] = Used(lastUsed, c, LastRunning(c))
      BY <1>0, <1>10, <1>a, <2>2, <2>5 DEF Inspect, AgentTyped
    <3>4. c \in extra => lastUsed[c] = None
      BY <1>a DEF Fresh
    <3>5. Used(lastUsed, c, LastRunning(c)) <= LastRunning(c)
      BY <1>0, <1>a, <3>1, UsedTyped DEF AgentTyped
    <3>6. Used(lastUsed, c, LastRunning(c)) \in Ages
      BY <1>0, <1>a, <3>1, UsedTyped DEF AgentTyped
    <3>7. CASE container[c] = "running"
      BY <1>10, <1>a, <2>1, <2>5, <3>7 DEF Inspect
    <3>8. CASE container[c] # "running"
      <4>1. \/ c \in extra /\ lastUsed'[c] = None
            \/ lastUsed'[c] = Used(lastUsed, c, LastRunning(c))
            \/ UNCHANGED <<lastUsed, seen>>
        BY <1>0, <1>10, <1>a, <2>2, <2>5, <3>4 DEF Inspect, AgentTyped
      <4>2. CASE lastUsed'[c] = Used(lastUsed, c, LastRunning(c))
        <5>1. lastUsed'[c] <= idle[c]
          BY <1>a, <3>1, <3>2, <3>5, <3>6, <3>8, <4>2, Timeouts DEF Ages
        <5> QED BY <1>a, <2>1, <2>5, <3>8, <5>1 DEF Exists, States
      <4>3. CASE lastUsed'[c] = None
        BY <1>a, <1>b, <2>1, <2>5, <3>8, <4>3 DEF Exists, States
      <4> QED BY <1>a, <2>1, <4>1, <4>2, <4>3
    <3> QED BY <3>7, <3>8
  <2>6. CASE c = d /\ Exists(c) /\ container[c] # "running" /\ c \notin seen'
    BY <1>a, <2>1, <2>6
  <2>7. CASE c = d /\ ~ Exists(c)
    BY <1>10, <1>a, <2>1, <2>3, <2>7 DEF Inspect
  <2> QED BY <2>4, <2>5, <2>6, <2>7
<1>11. CASE Moves \/ UNCHANGED vars
  BY <1>11, <1>a, MovesKeep DEF vars, dockerVars, agentVars, history
<1>12. CASE ListImages
  BY <1>12, <1>a DEF ListImages, dockerVars
<1>13. CASE Crash
  BY <1>13, <1>a DEF Crash, dockerVars
<1> QED BY <1>1, <1>2, <1>3, <1>4, <1>5, <1>6, <1>7, <1>8, <1>9, <1>10, <1>11,
           <1>12, <1>13, Steps DEF World

-----------------------------------------------------------------------------
GarbageInv == TypeOK /\ Fresh /\ Kept /\ Owned /\ Rested

LEMMA GarbageAlways == Spec => []GarbageInv
<1>1. Init => GarbageInv
  BY TypeInit, FreshInit, KeptInit, OwnedInit, RestedInit DEF GarbageInv
<1>2. GarbageInv /\ [Next]_vars => GarbageInv'
  BY TypeStep, FreshStep, KeptStep, OwnedStep, RestedStep DEF GarbageInv
<1> QED BY <1>1, <1>2, PTL DEF Spec

(* What was there before the agent, or appeared while none ran, is not     *)
(* removed by any round of any later agent, unless one could not list it   *)
(* at its start (garbageCollection.go:53-76, 132-187).                     *)
THEOREM ForeignIsAlwaysKept == Spec => ForeignIsKept
<1>1. ASSUME GarbageInv, [Next]_vars
      PROVE  [\A x \in foreign : Collected(x) => blind]_vars
  <2> SUFFICES ASSUME NEW x \in foreign, Collected(x), ~ blind PROVE FALSE
    OBVIOUS
  <2>1. lastUsed[x] = None
    BY <1>1 DEF GarbageInv, Kept, Untouched
  <2>2. \/ x \in Containers /\ CollectContainer(x)
        \/ x \in Images /\ CollectImage(x)
    BY <1>1, PresentShrinks DEF Collected, GarbageInv
  <2> QED BY <2>1, <2>2, Timeouts DEF CollectContainer, CollectImage, None
<1> QED BY <1>1, GarbageAlways, PTL DEF Spec, ForeignIsKept

(* What the file named when it was last complete is not taken for extra    *)
(* after a restart, unless a call failed or the rewriting was interrupted  *)
(* (garbageCollection.go:32-51, 175-186).                                  *)
THEOREM OwnIsAlwaysRemembered == Spec => []OwnIsForgottenOnlyByFailure
<1>1. GarbageInv => OwnIsForgottenOnlyByFailure
  BY DEF GarbageInv, Owned, Forgotten, OwnIsForgottenOnlyByFailure
<1> QED BY <1>1, GarbageAlways, PTL

(* A container that a round saw stopped, and that nobody started since, is *)
(* removed by that round only when it has not run for the timeout          *)
(* (garbageCollection.go:82-146).                                          *)
THEOREM OnlyIdleIsCollected == Spec => OnlyIdleCollected
<1>1. ASSUME GarbageInv, [Next]_vars
      PROVE  [\A c \in seen : Collected(c) => idle[c] >= ContainerTimeout]_vars
  <2> SUFFICES ASSUME NEW c \in seen, Collected(c) PROVE idle[c] >= ContainerTimeout
    OBVIOUS
  <2>0. TypeOK /\ DockerTyped /\ AgentTyped /\ RestTyped
    BY <1>1, Parts DEF GarbageInv
  <2>1. c \in Containers /\ c \notin Images /\ c \in Ids
    BY <2>0, IdsApart DEF RestTyped, FileTyped, Ids
  <2>2. lastUsed[c] <= idle[c]
    BY <1>1, <2>1 DEF GarbageInv, Rested, Rests
  <2>3. CollectContainer(c)
    BY <1>1, <2>0, <2>1, PresentShrinks DEF Collected
  <2>4. lastUsed[c] >= ContainerTimeout
    BY <2>3 DEF CollectContainer
  <2>5. lastUsed[c] \in Int /\ idle[c] \in Int
    BY <2>0, <2>1, Timeouts DEF DockerTyped, AgentTyped, AgesOrNone, Ages, None
  <2> QED BY <2>2, <2>4, <2>5, Timeouts
<1> QED BY <1>1, GarbageAlways, PTL DEF Spec, OnlyIdleCollected

(* The collection keeps its types, and what a loop has yet to visit are    *)
(* ids of its own kind (garbageCollection.go:83-187).                      *)
THEOREM GarbageTyped == Spec => []TypeOK
<1>1. GarbageInv => TypeOK
  BY DEF GarbageInv
<1> QED BY <1>1, GarbageAlways, PTL
=============================================================================
