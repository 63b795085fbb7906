---------------------- MODULE ContainerManager_proofs ----------------------
(***************************************************************************)
(* That no housekeeping goroutine escapes the map of the manager, and no   *)
(* alias outlives its object (ContainerManager), for any containers that   *)
(* share names and any number of starts, objects and errors.               *)
(***************************************************************************)
EXTENDS ContainerManager, SequenceTheorems, TLAPS

Object == [of : Containers, docker : BOOLEAN, stop : BOOLEAN,
           keeper : {"none", "runs", "ended"}]

\* Whoever is in createContainer has a container, and an object once it is added.
CallsHold ==
  \A a \in Actors :
    /\ pc[a] \in {"handler", "add", "start"} => call[a].of \in Containers
    /\ pc[a] = "start" => call[a].obj # None

\* The map has an object under its own name, all that were not told to stop are
\* in it, and so is whatever an alias leads to.
MapHolds ==
  /\ \A c \in Containers : containers[c] # None => data[containers[c]].of = c
  /\ \A o \in DOMAIN data : ~ data[o].stop => containers[data[o].of] = o
  /\ \A n \in Names : aliases[n] # None =>
       LET o == aliases[n]
       IN data[o].docker /\ NameOf[data[o].of] = n /\ containers[data[o].of] = o

ManagerInv == TypeOK /\ CallsHold /\ MapHolds

-----------------------------------------------------------------------------
LEMMA ManagerInit == Init => ManagerInv
<1> SUFFICES ASSUME Init PROVE ManagerInv
  OBVIOUS
<1>1. data \in Seq(Object) /\ Len(data) = 0 /\ DOMAIN data = {}
  <2>1. data = << >>
    BY DEF Init
  <2> QED BY <2>1, EmptySeq
<1>2. events \in Seq([type : {"add", "delete"}, of : Containers])
  <2>1. events = << >>
    BY DEF Init
  <2> QED BY <2>1, EmptySeq
<1>3. TypeOK
  <2>0. MaxStarts \in Nat /\ MaxErrors \in Nat /\ MaxObjects \in Nat
    BY BoundsAssumption
  <2>a. starts \in 0 .. MaxStarts /\ errors \in 0 .. MaxErrors
    BY <2>0 DEF Init
  <2>1. /\ cgroups \subseteq Containers /\ watched \in BOOLEAN
        /\ phase \in {"recover", "watch", "loop", "failed"}
        /\ added \subseteq Containers /\ removed \subseteq Containers
    BY DEF Init
  <2>2. /\ containers \in [Containers -> {None} \cup DOMAIN data]
        /\ aliases \in [Names -> {None} \cup DOMAIN data]
        /\ pc \in [Actors -> {"off", "detect", "work", "receive", "handler", "add", "start"}]
    BY DEF Init
  <2>3. call \in [Actors -> [of : {None} \cup Containers, docker : BOOLEAN,
                             obj : {None} \cup DOMAIN data]]
    BY DEF Init, NoCall
  <2> QED BY <1>1, <1>2, <2>0, <2>a, <2>1, <2>2, <2>3 DEF TypeOK, Object
<1>4. CallsHold
  BY DEF Init, CallsHold, Actors
<1>5. MapHolds
  BY <1>1 DEF Init, MapHolds
<1> QED BY <1>3, <1>4, <1>5 DEF ManagerInv

-----------------------------------------------------------------------------
(* Steps that leave the map alone.                                         *)

Labels == {"off", "detect", "work", "receive", "handler", "add", "start"}
Phases == {"recover", "watch", "loop", "failed"}
Event == [type : {"add", "delete"}, of : Containers]
Call == [of : {None} \cup Containers, docker : BOOLEAN,
         obj : {None} \cup DOMAIN data]

\* All that TypeOK says of what is not in the map.
Around ==
  /\ cgroups \subseteq Containers
  /\ starts \in 0 .. MaxStarts /\ errors \in 0 .. MaxErrors
  /\ watched \in BOOLEAN
  /\ events \in Seq(Event)
  /\ phase \in Phases
  /\ added \subseteq Containers /\ removed \subseteq Containers

Calling == pc \in [Actors -> Labels] /\ call \in [Actors -> Call] /\ CallsHold

MapTyped ==
  /\ data \in Seq(Object) /\ Len(data) <= MaxObjects
  /\ containers \in [Containers -> {None} \cup DOMAIN data]
  /\ aliases \in [Names -> {None} \cup DOMAIN data]

LEMMA Parts == ManagerInv <=> Around /\ Calling /\ MapTyped /\ MapHolds
BY Zenon DEF ManagerInv, TypeOK, Around, Calling, MapTyped, Labels, Phases, Event,
             Call, Object

LEMMA PartsNext == ManagerInv' <=> (Around /\ Calling /\ MapTyped /\ MapHolds)'
BY Zenon DEF ManagerInv, TypeOK, Around, Calling, MapTyped, Labels, Phases, Event,
             Call, Object

LEMMA MapUntouched ==
  ASSUME MapTyped, MapHolds, UNCHANGED mapVars
  PROVE  MapTyped' /\ MapHolds'
BY DEF MapTyped, MapHolds, mapVars

LEMMA CallsUntouched ==
  ASSUME Calling, UNCHANGED callVars, DOMAIN data' = DOMAIN data
  PROVE  Calling'
<1> USE DEF Calling, CallsHold, callVars
<1>1. Call' = Call
  BY DEF Call
<1> QED BY <1>1

\* The goroutine returns from createContainer, at whatever place it was.
LEMMA Returned ==
  ASSUME Calling, NEW a \in Actors, Return(a), DOMAIN data' = DOMAIN data
  PROVE  Calling'
<1>1. Call' = Call /\ NoCall \in Call
  BY DEF Call, NoCall
<1>2. pc' \in [Actors -> Labels] /\ call' \in [Actors -> Call]
  BY <1>1 DEF Calling, Return, Goto, Labels
<1>3. pc'[a] \in {"work", "receive"}
  BY DEF Calling, Return, Goto
<1>4. \A b \in Actors \ {a} : pc'[b] = pc[b] /\ call'[b] = call[b]
  BY DEF Calling, Return, Goto
<1>5. CallsHold'
  BY <1>3, <1>4 DEF Calling, CallsHold
<1> QED BY <1>1, <1>2, <1>5 DEF Calling

LEMMA Fell ==
  ASSUME Around, Fails
  PROVE  errors' \in 0 .. MaxErrors
<1>1. MaxErrors \in Nat
  BY BoundsAssumption
<1> QED BY <1>1 DEF Around, Fails

LEMMA Notified ==
  ASSUME Around, NEW type \in {"add", "delete"}, NEW c \in Containers,
         Notify(type, c)
  PROVE  events' \in Seq(Event) /\ errors' \in 0 .. MaxErrors
<1> DEFINE e == [type |-> type, of |-> c]
<1>1. e \in Event
  BY DEF Event
<1>2. Append(events, e) \in Seq(Event)
  <2> HIDE DEF e
  <2> QED BY <1>1, AppendProperties, Zenon DEF Around
<1>3. CASE errors' = errors
  BY <1>2, <1>3, Fell DEF Notify, Around
<1>4. CASE Fails /\ UNCHANGED events
  BY <1>4, Fell DEF Around
<1> QED BY <1>3, <1>4 DEF Notify

LEMMA DockerKeeps ==
  ASSUME ManagerInv, NEW c \in Containers, StartContainer(c) \/ StopContainer(c)
  PROVE  ManagerInv'
<1>0. Around /\ Calling /\ MapTyped /\ MapHolds
  BY Parts
<1>1. UNCHANGED <<mapVars, callVars, diffVars, phase, watched>>
  BY DEF StartContainer, StopContainer
<1>2. Calling' /\ MapTyped' /\ MapHolds'
  BY <1>0, <1>1, MapUntouched, CallsUntouched DEF mapVars
<1>3. \E type \in {"add", "delete"} : Notify(type, c)
  BY DEF StartContainer, StopContainer
<1>4. events' \in Seq(Event) /\ errors' \in 0 .. MaxErrors
  BY <1>0, <1>3, Notified
<1>5. MaxStarts \in Nat
  BY BoundsAssumption
<1>6. cgroups' \subseteq Containers /\ starts' \in 0 .. MaxStarts
  BY <1>0, <1>5 DEF StartContainer, StopContainer, Around
<1>7. Event' = Event /\ Phases' = Phases
  BY DEF Event, Phases
<1>8. Around'
  BY <1>0, <1>1, <1>4, <1>6, <1>7 DEF Around, diffVars
<1> QED BY <1>2, <1>8, PartsNext

-----------------------------------------------------------------------------
(* createContainer.                                                        *)

\* What a step of createContainer does not touch in any case.
LEMMA CreateAround ==
  ASSUME Around, errors' = errors \/ Fails,
         UNCHANGED <<cgroups, starts, watched, events, phase, diffVars>>
  PROVE  Around'
<1>1. errors' \in 0 .. MaxErrors
  BY Fell DEF Around
<1>2. Event' = Event /\ Phases' = Phases
  BY DEF Event, Phases
<1> QED BY <1>1, <1>2 DEF Around, diffVars

\* The handler is made, or createContainer returns before the map is touched.
LEMMA LooksKeep ==
  ASSUME ManagerInv, NEW a \in Actors,
         \/ Handler(a) \/ InspectFails(a) \/ HandlerFails(a) \/ Exists(a)
         \/ SpecFails(a)
  PROVE  ManagerInv'
<1>0. Around /\ Calling /\ MapTyped /\ MapHolds
  BY Parts
<1>1. UNCHANGED <<mapVars, diffVars, phase, watched, cgroups, starts, events>>
  BY DEF Handler, InspectFails, HandlerFails, Exists, SpecFails
<1>2. errors' = errors \/ Fails
  BY DEF Handler, InspectFails, HandlerFails, Exists, SpecFails
<1>3. Around' /\ MapTyped' /\ MapHolds'
  BY <1>0, <1>1, <1>2, CreateAround, MapUntouched
<1>4. DOMAIN data' = DOMAIN data
  BY <1>1 DEF mapVars
<1>5. Calling'
  <2>1. Call' = Call
    BY <1>4 DEF Call
  <2>2. CASE Handler(a)
    <3>1. PICK b \in BOOLEAN : call' = [call EXCEPT ![a].docker = b]
      <4>1. (call[a].of \in cgroups) \in BOOLEAN
        OBVIOUS
      <4> QED BY <2>2, <4>1, Zenon DEF Handler
    <3>2. call' \in [Actors -> Call]
      BY <1>0, <2>1, <3>1 DEF Calling, Call
    <3>3. pc' = [pc EXCEPT ![a] = "add"] /\ pc' \in [Actors -> Labels]
      BY <1>0, <2>2 DEF Calling, Handler, Goto, Labels
    <3>4. CallsHold'
      BY <1>0, <2>2, <3>3 DEF Calling, CallsHold, Handler, Call
    <3> QED BY <2>1, <3>2, <3>3, <3>4 DEF Calling
  <2>3. CASE InspectFails(a)
    <3>1. pc' = [pc EXCEPT ![a] = "add"] /\ pc' \in [Actors -> Labels]
      BY <1>0, <2>3 DEF Calling, InspectFails, Goto, Labels
    <3>2. CallsHold' /\ call' = call
      BY <1>0, <2>3, <3>1 DEF Calling, CallsHold, InspectFails
    <3> QED BY <1>0, <2>1, <3>1, <3>2 DEF Calling
  <2>4. CASE Return(a)
    BY <1>0, <1>4, <2>4, Returned
  <2> QED BY <2>2, <2>3, <2>4 DEF HandlerFails, Exists, SpecFails
<1> QED BY <1>3, <1>5, PartsNext

\* What AppendProperties says, in parts that the provers find each.
LEMMA Appending ==
  ASSUME NEW S, NEW q \in Seq(S), NEW e \in S
  PROVE  /\ Append(q, e) \in Seq(S) /\ Len(Append(q, e)) = Len(q) + 1
         /\ \A i \in 1 .. Len(q) : Append(q, e)[i] = q[i]
         /\ Append(q, e)[Len(q) + 1] = e
<1>1. Append(q, e) \in Seq(S) /\ Len(Append(q, e)) = Len(q) + 1
  BY AppendProperties, Zenon
<1>2. \A i \in 1 .. Len(q) : Append(q, e)[i] = q[i]
  BY AppendProperties, SMT
<1>3. Append(q, e)[Len(q) + 1] = e
  BY AppendProperties, Zenon
<1> QED BY <1>1, <1>2, <1>3

LEMMA AddKeeps ==
  ASSUME ManagerInv, NEW a \in Actors, Add(a)
  PROVE  ManagerInv'
<1>0. Around /\ Calling /\ MapTyped /\ MapHolds
  BY Parts
<1>1. Around'
  BY <1>0, CreateAround DEF Add
<1> DEFINE c == call[a].of
           isDocker == call[a].docker
           o == Len(data) + 1
           new == [of |-> c, docker |-> isDocker, stop |-> FALSE,
                   keeper |-> "none"]
<1>2. pc[a] = "add" /\ containers[c] = None /\ o \in 1 .. MaxObjects
  BY DEF Add, AlreadyExists, Objects
<1>3. /\ containers' = [containers EXCEPT ![c] = o]
      /\ aliases' = IF isDocker THEN [aliases EXCEPT ![NameOf[c]] = o]
                                ELSE aliases
      /\ data' = Append(data, new)
      /\ call' = [call EXCEPT ![a].obj = o]
      /\ pc' = [pc EXCEPT ![a] = "start"]
  BY DEF Add, Goto
<1>4. c \in Containers /\ isDocker \in BOOLEAN /\ NameOf[c] \in Names
  BY <1>0, <1>2, NamesAssumption DEF Calling, CallsHold, Call
<1>5. new \in Object
  BY <1>4 DEF Object
<1>6. new.of = c /\ new.docker = isDocker /\ new.stop = FALSE
  OBVIOUS
<1>7. /\ Len(data) \in Nat /\ DOMAIN data = 1 .. Len(data)
      /\ MaxObjects \in Nat
  BY <1>0, LenProperties, BoundsAssumption DEF MapTyped
<1> HIDE DEF new, c, isDocker
<1>8. /\ data' \in Seq(Object) /\ Len(data') = o
      /\ \A p \in 1 .. Len(data) : data'[p] = data[p]
      /\ data'[o] = new
  <2>1. data \in Seq(Object)
    BY <1>0 DEF MapTyped
  <2>2. /\ data' \in Seq(Object) /\ Len(data') = Len(data) + 1
        /\ \A p \in 1 .. Len(data) : data'[p] = data[p]
        /\ data'[Len(data) + 1] = new
    BY <1>3, <1>5, <2>1, Appending
  <2> QED BY <2>2
<1>9. DOMAIN data' = DOMAIN data \cup {o} /\ o \notin DOMAIN data /\ o # None
  <2>1. DOMAIN data' = 1 .. Len(data')
    BY <1>8, LenProperties
  <2>2. DOMAIN data' = 1 .. o
    BY <1>8, <2>1
  <2> QED BY <1>7, <2>2 DEF None
<1>10. MapTyped'
  <2>1. containers' \in [Containers -> {None} \cup DOMAIN data']
    BY <1>0, <1>3, <1>9 DEF MapTyped
  <2>2. aliases' \in [Names -> {None} \cup DOMAIN data']
    BY <1>0, <1>3, <1>9 DEF MapTyped
  <2>3. Object' = Object /\ Len(data') <= MaxObjects
    BY <1>2, <1>7, <1>8 DEF Object
  <2> QED BY <1>8, <2>1, <2>2, <2>3 DEF MapTyped
<1>11. Calling'
  <2>1. Call \subseteq Call'
    BY <1>9 DEF Call
  <2>2. call' \in [Actors -> Call']
    BY <1>0, <1>3, <1>9, <2>1 DEF Calling, Call
  <2>3. pc' \in [Actors -> Labels']
    BY <1>0, <1>3 DEF Calling, Labels
  <2>4. call'[a].of = c /\ call'[a].obj = o
    BY <1>0, <1>3 DEF Calling, Call, c
  <2>5. \A b \in Actors \ {a} : pc'[b] = pc[b] /\ call'[b] = call[b]
    BY <1>0, <1>3 DEF Calling
  <2>6. CallsHold'
    BY <1>0, <1>4, <1>9, <2>4, <2>5 DEF Calling, CallsHold
  <2> QED BY <2>2, <2>3, <2>6 DEF Calling
<1>12. \A p \in DOMAIN data : data'[p] = data[p] /\ data[p].of \in Containers
  <2>1. \A p \in DOMAIN data : data[p] \in Object
    BY <1>0, <1>7, ElementOfSeq DEF MapTyped
  <2> QED BY <1>7, <1>8, <2>1 DEF Object
<1>13. MapHolds'
  <2>1. \A d \in Containers : containers'[d] = IF d = c THEN o ELSE containers[d]
    BY <1>0, <1>3, <1>4 DEF MapTyped
  <2>2. \A d \in Containers : containers[d] # None => containers[d] \in DOMAIN data
    BY <1>0 DEF MapTyped
  <2>3. \A d \in Containers : containers'[d] # None => data'[containers'[d]].of = d
    BY <1>0, <1>6, <1>8, <1>12, <2>1, <2>2 DEF MapHolds
  <2>4. \A p \in DOMAIN data' : ~ data'[p].stop => containers'[data'[p].of] = p
    <3> SUFFICES ASSUME NEW p \in DOMAIN data', ~ data'[p].stop
                 PROVE  containers'[data'[p].of] = p
      OBVIOUS
    <3>1. CASE p = o
      BY <1>4, <1>6, <1>8, <2>1, <3>1
    <3>2. CASE p \in DOMAIN data
      <4>1. containers[data[p].of] = p /\ p # None
        BY <1>0, <1>7, <1>12, <3>2 DEF MapHolds, None
      <4> QED BY <1>2, <1>12, <2>1, <3>2, <4>1
    <3> QED BY <1>9, <3>1, <3>2
  <2>5. ASSUME NEW n \in Names, aliases'[n] # None
        PROVE  LET q == aliases'[n]
               IN /\ data'[q].docker /\ NameOf[data'[q].of] = n
                  /\ containers'[data'[q].of] = q
    <3>1. aliases'[n] = IF isDocker /\ n = NameOf[c] THEN o ELSE aliases[n]
      BY <1>0, <1>3, <1>4 DEF MapTyped
    <3>2. CASE isDocker /\ n = NameOf[c]
      BY <1>4, <1>6, <1>8, <2>1, <3>1, <3>2
    <3>3. CASE ~ (isDocker /\ n = NameOf[c])
      <4> DEFINE q == aliases[n]
      <4>1. q # None /\ q \in DOMAIN data /\ aliases'[n] = q
        BY <1>0, <2>5, <3>1, <3>3 DEF MapTyped
      <4>2. /\ data[q].docker /\ NameOf[data[q].of] = n
            /\ containers[data[q].of] = q
        BY <1>0, <4>1 DEF MapHolds
      <4> HIDE DEF q
      <4> QED BY <1>2, <1>12, <2>1, <4>1, <4>2
    <3> QED BY <3>2, <3>3
  <2> QED BY <2>3, <2>4, <2>5 DEF MapHolds
<1> QED BY <1>1, <1>10, <1>11, <1>13, PartsNext

\* An object is changed in its goroutine only: the map does not notice.
LEMMA KeeperChanges ==
  ASSUME MapTyped, MapHolds, NEW o \in DOMAIN data,
         NEW k \in {"none", "runs", "ended"},
         data' = [data EXCEPT ![o].keeper = k],
         UNCHANGED <<containers, aliases>>
  PROVE  MapTyped' /\ MapHolds' /\ DOMAIN data' = DOMAIN data
<1>1. \A p \in DOMAIN data : data[p] \in Object
  BY ElementOfSeq, LenProperties DEF MapTyped
<1>2. [data[o] EXCEPT !.keeper = k] \in Object
  BY <1>1 DEF Object
<1>3. data' \in Seq(Object) /\ Len(data') = Len(data) /\ DOMAIN data' = DOMAIN data
  <2>1. o \in 1 .. Len(data)
    BY LenProperties DEF MapTyped
  <2> QED BY <1>2, <2>1, ExceptSeq, LenProperties DEF MapTyped
<1>4. \A p \in DOMAIN data : /\ data'[p].of = data[p].of
                             /\ data'[p].docker = data[p].docker
                             /\ data'[p].stop = data[p].stop
  BY <1>1 DEF Object
<1>5. MapTyped'
  <2>1. Object' = Object
    BY DEF Object
  <2> QED BY <1>3, <2>1 DEF MapTyped
<1>6. MapHolds'
  <2>1. /\ \A c \in Containers : containers[c] # None => containers[c] \in DOMAIN data
        /\ \A n \in Names : aliases[n] # None => aliases[n] \in DOMAIN data
    BY DEF MapTyped
  <2> QED BY <1>3, <1>4, <2>1 DEF MapHolds
<1> QED BY <1>3, <1>5, <1>6

LEMMA StartKeeps ==
  ASSUME ManagerInv, NEW a \in Actors, Start(a)
  PROVE  ManagerInv'
<1>0. Around /\ Calling /\ MapTyped /\ MapHolds
  BY Parts
<1>1. Around'
  BY <1>0, CreateAround DEF Start
<1>2. call[a].obj \in DOMAIN data
  BY <1>0 DEF Start, Calling, CallsHold, Call
<1>3. MapTyped' /\ MapHolds' /\ DOMAIN data' = DOMAIN data
  <2>1. CASE call[a].docker
    BY <1>0, <1>2, <2>1, KeeperChanges DEF Start
  <2>2. CASE ~ call[a].docker
    BY <1>0, <2>2, MapUntouched DEF Start, mapVars
  <2> QED BY <2>1, <2>2
<1>4. Calling'
  BY <1>0, <1>3, Returned DEF Start
<1> QED BY <1>1, <1>3, <1>4, PartsNext

LEMMA KeeperEndsKeeps ==
  ASSUME ManagerInv, NEW o \in Objects, KeeperEnds(o)
  PROVE  ManagerInv'
<1>0. Around /\ Calling /\ MapTyped /\ MapHolds
  BY Parts
<1>1. MapTyped' /\ MapHolds' /\ DOMAIN data' = DOMAIN data
  BY <1>0, KeeperChanges DEF KeeperEnds
<1>2. Around' /\ Calling'
  BY <1>0, <1>1, CreateAround, CallsUntouched DEF KeeperEnds
<1> QED BY <1>1, <1>2, PartsNext

-----------------------------------------------------------------------------
(* destroyContainer.                                                       *)

LEMMA Forgotten ==
  ASSUME MapTyped, MapHolds, NEW c \in Containers, Forget(c)
  PROVE  MapTyped' /\ MapHolds' /\ DOMAIN data' = DOMAIN data
<1> DEFINE o == containers[c]
<1>1. CASE o = None
  BY <1>1, MapUntouched DEF Forget, mapVars
<1>2. CASE o # None
  <2>1. /\ data' = [data EXCEPT ![o].stop = TRUE]
        /\ containers' = [containers EXCEPT ![c] = None]
        /\ aliases' = [n \in Names |->
                        IF n \in Aliases(o) THEN None ELSE aliases[n]]
    BY <1>2 DEF Forget
  <2>2. o \in DOMAIN data /\ data[o].of = c
    BY <1>2 DEF MapTyped, MapHolds
  <2>3. \A p \in DOMAIN data : data[p] \in Object
    BY ElementOfSeq, LenProperties DEF MapTyped
  <2>4. [data[o] EXCEPT !.stop = TRUE] \in Object
    BY <2>2, <2>3 DEF Object
  <2> HIDE DEF o
  <2>5. data' \in Seq(Object) /\ Len(data') = Len(data) /\ DOMAIN data' = DOMAIN data
    <3>1. o \in 1 .. Len(data)
      BY <2>2, LenProperties DEF MapTyped
    <3> QED BY <2>1, <2>4, <3>1, ExceptSeq, LenProperties DEF MapTyped
  <2>6. \A p \in DOMAIN data : /\ data'[p].of = data[p].of
                               /\ data'[p].docker = data[p].docker
                               /\ data[p].of \in Containers
                               /\ ~ data'[p].stop => p # o /\ ~ data[p].stop
    BY <2>1, <2>3 DEF Object
  <2>7. MapTyped'
    <3>1. Object' = Object
      BY DEF Object
    <3>2. containers' \in [Containers -> {None} \cup DOMAIN data']
      BY <2>1, <2>5 DEF MapTyped
    <3>3. aliases' \in [Names -> {None} \cup DOMAIN data']
      BY <2>1, <2>5 DEF MapTyped
    <3> QED BY <2>5, <3>1, <3>2, <3>3 DEF MapTyped
  <2>8. \A d \in Containers : containers'[d] = IF d = c THEN None ELSE containers[d]
    BY <2>1 DEF MapTyped
  <2>9. \A d \in Containers : containers'[d] # None => data'[containers'[d]].of = d
    <3>1. \A d \in Containers : containers[d] # None => containers[d] \in DOMAIN data
      BY DEF MapTyped
    <3> QED BY <2>6, <2>8, <3>1 DEF MapHolds
  <2>10. \A p \in DOMAIN data' : ~ data'[p].stop => containers'[data'[p].of] = p
    <3> SUFFICES ASSUME NEW p \in DOMAIN data, ~ data'[p].stop
                 PROVE  containers'[data'[p].of] = p
      BY <2>5
    <3>1. p # o /\ containers[data[p].of] = p
      BY <2>6 DEF MapHolds
    <3>2. data[p].of # c
      BY <3>1 DEF o
    <3> QED BY <2>6, <2>8, <3>1, <3>2
  <2>11. ASSUME NEW n \in Names, aliases'[n] # None
         PROVE  LET q == aliases'[n]
                IN /\ data'[q].docker /\ NameOf[data'[q].of] = n
                   /\ containers'[data'[q].of] = q
    <3> DEFINE q == aliases[n]
    <3>1. n \notin Aliases(o) /\ aliases'[n] = q /\ q # None /\ q \in DOMAIN data
      BY <2>1, <2>11 DEF MapTyped
    <3>2. data[q].docker /\ NameOf[data[q].of] = n /\ containers[data[q].of] = q
      BY <3>1 DEF MapHolds
    <3> HIDE DEF q
    <3>3. data[q].of # c
      BY <2>2, <3>1, <3>2 DEF Aliases, o
    <3> QED BY <2>6, <2>8, <3>1, <3>2, <3>3
  <2> QED BY <2>5, <2>7, <2>9, <2>10, <2>11 DEF MapHolds
<1> QED BY <1>1, <1>2

-----------------------------------------------------------------------------
(* The two goroutines, and the theorems.                                   *)

LEMMA MainKeeps ==
  ASSUME ManagerInv, Main
  PROVE  ManagerInv'
<1>0. Around /\ Calling /\ MapTyped /\ MapHolds
  BY Parts
<1>1. "main" \in Actors
  BY DEF Actors
<1>2. CASE Create("main")
  BY <1>1, <1>2, LooksKeep, AddKeeps, StartKeeps DEF Create
<1>3. CASE MainCreates
  <2>1. PICK c \in added : added' = added \ {c} /\ Called("main", c)
    BY <1>3 DEF MainCreates
  <2>2. c \in Containers
    BY <1>0 DEF Around
  <2>3. UNCHANGED mapVars /\ MapTyped' /\ MapHolds' /\ data' = data
    BY <1>0, <1>3, MapUntouched DEF MainCreates, mapVars
  <2>4. Around'
    BY <1>0, <1>3, <2>1 DEF MainCreates, Around, Event, Phases
  <2>5. Calling'
    <3>1. Call' = Call
      BY <2>3 DEF Call
    <3>2. pc' = [pc EXCEPT !["main"] = "handler"] /\ pc' \in [Actors -> Labels]
      BY <1>0, <1>1, <2>1 DEF Calling, Called, Goto, Labels
    <3>3. call' \in [Actors -> Call] /\ call' = [call EXCEPT !["main"].of = c]
      BY <1>0, <1>1, <2>1, <2>2 DEF Calling, Called, Call
    <3>4. CallsHold'
      BY <1>0, <1>1, <2>2, <3>2, <3>3 DEF Calling, CallsHold, Call
    <3> QED BY <3>1, <3>2, <3>3, <3>4 DEF Calling
  <2> QED BY <2>3, <2>4, <2>5, PartsNext
<1>4. CASE MainDestroys
  <2>1. PICK c \in removed : removed' = removed \ {c} /\ Forget(c)
    BY <1>4 DEF MainDestroys
  <2>2. c \in Containers
    BY <1>0 DEF Around
  <2>3. MapTyped' /\ MapHolds' /\ DOMAIN data' = DOMAIN data
    BY <1>0, <2>1, <2>2, Forgotten
  <2>4. Calling'
    BY <1>0, <1>4, <2>3, CallsUntouched DEF MainDestroys
  <2>5. Around'
    BY <1>0, <1>4, <2>1 DEF MainDestroys, Around, Event, Phases
  <2> QED BY <2>3, <2>4, <2>5, PartsNext
<1>5. ASSUME Detect \/ DetectFails \/ Watch \/ WatchFails \/ Loop \/ Tick
      PROVE  ManagerInv'
  <2>1. UNCHANGED mapVars /\ UNCHANGED call /\ data' = data
    BY <1>5 DEF Detect, DetectFails, Watch, WatchFails, Loop, Tick, mapVars
  <2>2. MapTyped' /\ MapHolds'
    BY <1>0, <2>1, MapUntouched
  <2>3. Around'
    <3>1. errors' \in 0 .. MaxErrors
      BY <1>0, <1>5, Fell
         DEF Detect, DetectFails, Watch, WatchFails, Loop, Tick, Around
    <3>2. UNCHANGED <<cgroups, starts, events>>
      BY <1>5 DEF Detect, DetectFails, Watch, WatchFails, Loop, Tick
    <3>3. watched' \in BOOLEAN /\ phase' \in Phases
      BY <1>0, <1>5
         DEF Detect, DetectFails, Watch, WatchFails, Loop, Tick, Around, Phases
    <3>4. added' \subseteq Containers /\ removed' \subseteq Containers
      BY <1>0, <1>5
         DEF Detect, DetectFails, Watch, WatchFails, Loop, Tick, Around, diffVars
    <3> QED BY <1>0, <3>1, <3>2, <3>3, <3>4 DEF Around, Event, Phases
  <2>4. /\ pc' \in [Actors -> Labels]
        /\ \A a \in Actors : pc'[a] \in {"handler", "add", "start"} => pc'[a] = pc[a]
    <3>1. \/ \E label \in {"work", "detect", "off"} : Goto("main", label)
          \/ pc' = [pc EXCEPT !["main"] = "detect", !["watcher"] = "receive"]
      BY <1>5 DEF Detect, DetectFails, Watch, WatchFails, Loop, Tick
    <3> QED BY <1>0, <3>1 DEF Calling, Goto, Labels
  <2>5. Calling'
    <3>1. Call' = Call
      BY <2>1 DEF Call
    <3>2. CallsHold'
      BY <1>0, <2>1, <2>4 DEF Calling, CallsHold
    <3> QED BY <1>0, <2>1, <2>4, <3>1, <3>2 DEF Calling, Labels
  <2> QED BY <2>2, <2>3, <2>5, PartsNext
<1> QED BY <1>2, <1>3, <1>4, <1>5 DEF Main

LEMMA WatcherKeeps ==
  ASSUME ManagerInv, Watcher
  PROVE  ManagerInv'
<1>0. Around /\ Calling /\ MapTyped /\ MapHolds
  BY Parts
<1>1. "watcher" \in Actors
  BY DEF Actors
<1>2. CASE Create("watcher")
  BY <1>1, <1>2, LooksKeep, AddKeeps, StartKeeps DEF Create
<1>3. ASSUME NEW type, Received(type)
      PROVE  Head(events).of \in Containers /\ events' \in Seq(Event)
  <2>1. events # << >> /\ events \in Seq(Event) /\ events' = Tail(events)
    BY <1>0, <1>3 DEF Received, Around
  <2>2. Head(events) \in Event /\ Tail(events) \in Seq(Event)
    BY <2>1, HeadTailProperties
  <2> QED BY <2>1, <2>2 DEF Event
<1>4. ASSUME events' \in Seq(Event),
             UNCHANGED <<cgroups, starts, errors, watched, phase, diffVars>>
      PROVE  Around'
  BY <1>0, <1>4 DEF Around, Event, Phases, diffVars
<1>5. CASE WatcherCreates
  <2> DEFINE c == Head(events).of
  <2>1. c \in Containers /\ events' \in Seq(Event) /\ Called("watcher", c)
    BY <1>3, <1>5 DEF WatcherCreates
  <2> HIDE DEF c
  <2>2. MapTyped' /\ MapHolds' /\ data' = data
    BY <1>0, <1>5, MapUntouched DEF WatcherCreates, mapVars
  <2>3. Around'
    BY <1>4, <1>5, <2>1 DEF WatcherCreates
  <2>4. Calling'
    <3>1. Call' = Call
      BY <2>2 DEF Call
    <3>2. /\ pc' = [pc EXCEPT !["watcher"] = "handler"]
          /\ pc' \in [Actors -> Labels]
      BY <1>0, <1>1, <2>1 DEF Calling, Called, Goto, Labels
    <3>3. call' \in [Actors -> Call] /\ call' = [call EXCEPT !["watcher"].of = c]
      BY <1>0, <1>1, <2>1 DEF Calling, Called, Call
    <3>4. CallsHold'
      BY <1>0, <1>1, <2>1, <3>2, <3>3 DEF Calling, CallsHold, Call
    <3> QED BY <3>1, <3>2, <3>3, <3>4 DEF Calling
  <2> QED BY <2>2, <2>3, <2>4, PartsNext
<1>6. CASE WatcherDestroys
  <2>1. /\ Head(events).of \in Containers /\ events' \in Seq(Event)
        /\ Forget(Head(events).of)
    BY <1>3, <1>6 DEF WatcherDestroys
  <2>2. MapTyped' /\ MapHolds' /\ DOMAIN data' = DOMAIN data
    BY <1>0, <2>1, Forgotten
  <2>3. Calling' /\ Around'
    BY <1>0, <1>4, <1>6, <2>1, <2>2, CallsUntouched DEF WatcherDestroys
  <2> QED BY <2>2, <2>3, PartsNext
<1> QED BY <1>2, <1>5, <1>6 DEF Watcher

LEMMA ManagerStep == ManagerInv /\ [Next]_vars => ManagerInv'
<1> SUFFICES ASSUME ManagerInv, [Next]_vars PROVE ManagerInv'
  OBVIOUS
<1>1. CASE \E c \in Containers : StartContainer(c) \/ StopContainer(c)
  BY <1>1, DockerKeeps
<1>2. CASE Main
  BY <1>2, MainKeeps
<1>3. CASE Watcher
  BY <1>3, WatcherKeeps
<1>4. CASE \E o \in Objects : KeeperEnds(o)
  BY <1>4, KeeperEndsKeeps
<1>5. CASE UNCHANGED vars
  <2>1. Around /\ Calling /\ MapTyped /\ MapHolds
    BY Parts
  <2>2. UNCHANGED mapVars /\ data' = data
    BY <1>5 DEF vars, mapVars
  <2>3. Calling' /\ MapTyped' /\ MapHolds'
    BY <1>5, <2>1, <2>2, MapUntouched, CallsUntouched DEF vars
  <2>4. Around'
    BY <1>5, <2>1 DEF vars, diffVars, Around, Event, Phases
  <2> QED BY <2>3, <2>4, PartsNext
<1> QED BY <1>1, <1>2, <1>3, <1>4, <1>5 DEF Next

LEMMA ManagerAlways == Spec => []ManagerInv
<1> QED BY ManagerInit, ManagerStep, PTL DEF Spec

(* Whatever the two goroutines, docker and the errors do, a housekeeping   *)
(* that was not told to stop is the one of the object in the map, so that  *)
(* the next destroyContainer stops it (manager.go:604-691).                *)
THEOREM KeepersAreReachable == Spec => []KeeperIsReachable
<1>1. ManagerInv => KeeperIsReachable
  BY DEF ManagerInv, MapHolds, KeeperIsReachable
<1> QED BY <1>1, ManagerAlways, PTL

(* An alias never resolves to an object that was destroyed, however the    *)
(* names of docker go from one container to another (manager.go:619-626,   *)
(* 680-687).                                                               *)
THEOREM AliasesAreAlwaysKnown == Spec => []AliasesAreKnown
<1>1. ManagerInv => AliasesAreKnown
  BY DEF ManagerInv, MapHolds, AliasesAreKnown
<1> QED BY <1>1, ManagerAlways, PTL

(* The manager keeps its types: what the map and a call in progress name   *)
(* are objects that exist.                                                 *)
THEOREM ManagerTyped == Spec => []TypeOK
<1>1. ManagerInv => TypeOK
  BY DEF ManagerInv
<1> QED BY <1>1, ManagerAlways, PTL
=============================================================================
