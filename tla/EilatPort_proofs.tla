-------------------------- MODULE EilatPort_proofs --------------------------
(***************************************************************************)
(* The port of Eilat for every number of vessels and cranes that the start *)
(* of the ports allows.  The invariant has one part for each mechanism:    *)
(* the two mutexes, the barrier, the quay, and the semaphores of the       *)
(* cranes.  Each part is about a few of the variables, and leans on the    *)
(* others where the code does.                                             *)
(***************************************************************************)
EXTENDS EilatPort, FiniteSetTheorems, TLAPS

LocksInv ==
  /\ pc \in [Vessels -> Labels]
  /\ mutexAdt \in Vessels \union {NoVessel}
  /\ barrierMutex \in Vessels \union {NoVessel}
  /\ \A v \in Vessels :
       /\ mutexAdt = v <=> pc[v] \in {"lockBarrier", "queueUp", "lockBarrierLast"}
       /\ barrierMutex = v <=> pc[v] \in {"queueUp", "countOut"}

Queued == Vessels \ BeforeQueue

\* A semaphore whose vessel still waits, or is still to come, is released just
\* when the head of the queue has passed it.
Semaphores ==
  \A s \in Slots : (\A v \in Vessels : slot[v] = s => pc[v] = "waitTurn")
                     => (barrierQueue[s] = 1 <=> s < barrierHeadIdx)

BarrierInv ==
  /\ slot \in [Vessels -> -1 .. NumOfVessels - 1]
  /\ barrierTaillIdx \in -1 .. NumOfVessels - 1
  /\ barrierHeadIdx \in 0 .. NumOfVessels + NumOfCranes
  /\ barrierQueue \in [Slots -> {0, 1}]
  /\ barrierTaillIdx + 1 = Cardinality(Queued)
  /\ BarrierCount
  /\ \A v \in Vessels : IF v \in BeforeQueue THEN slot[v] = -1
                                             ELSE slot[v] \in 0 .. barrierTaillIdx
  /\ \A v, w \in Vessels : slot[v] = slot[w] /\ slot[v] # -1 => v = w
  /\ Running => /\ barrierHeadIdx <= NumOfVessels
                /\ Semaphores
                /\ \A v \in Queued : pc[v] # "waitTurn" => slot[v] < barrierHeadIdx

Occupied == {i \in CraneIdx : cranesVessleIDs[i] # NoVessel}

QuayInv ==
  /\ craneIdx \in [Vessels -> -1 .. NumOfCranes]
  /\ cranesVessleIDs \in [CraneIdx -> Vessels \union {NoVessel}]
  /\ cranesWithVessels = Cardinality(Occupied)
  /\ Running =>
       /\ \A v \in AtCrane : craneIdx[v] \in CraneIdx /\ cranesVessleIDs[craneIdx[v]] = v
       /\ \A i \in Occupied : cranesVessleIDs[i] \in AtCrane /\ craneIdx[cranesVessleIDs[i]] = i

\* The main thread creates the semaphores of one crane after the other, and receives
\* no vessel before the last.
StartInv ==
  /\ cranesIn \in [CraneIdx -> {Null, 0, 1}]
  /\ cranesOut \in [CraneIdx -> {Null, 0, 1}]
  /\ cranePc \in [CraneIdx -> {"none", "waitJob", "unload", "ended"}]
  /\ port \in {"starting", "receiving", "joinVessels", "joinCranes", "exited"} \union Failed
  /\ \A i \in CraneIdx : cranesIn[i] = Null <=> cranesOut[i] = Null
  /\ \A i \in CraneIdx : cranePc[i] # "none" => \A j \in 0 .. i - 1 : cranesIn[j] # Null
  /\ port = "starting" => \A v \in Vessels : pc[v] = "atSea"
  /\ Running /\ port # "starting" => \A i \in CraneIdx : cranesIn[i] # Null

\* A crane has a token, in one of three places, just while its vessel waits.
Waits(i)    == cranesVessleIDs[i] # NoVessel /\ pc[cranesVessleIDs[i]] = "waitUnload"
Announced(i) == cranesIn[i] = 1
InWork(i)   == cranePc[i] = "unload"
Done(i)     == cranesOut[i] = 1

TokenInv ==
  /\ port # "semaphore"
  /\ Running => \A i \in CraneIdx :
       /\ Waits(i) <=> Announced(i) \/ InWork(i) \/ Done(i)
       /\ ~(Announced(i) /\ InWork(i)) /\ ~(Announced(i) /\ Done(i)) /\ ~(InWork(i) /\ Done(i))

ServiceInv ==
  /\ job \in [CraneIdx -> Vessels \union {NoVessel}]
  /\ served \in [CraneIdx -> 0 .. VesselsPerCrane]
  /\ \A i \in CraneIdx : cranePc[i] = "none" => served[i] = 0
  /\ \A i \in CraneIdx : cranePc[i] \in {"waitJob", "unload"} => served[i] < VesselsPerCrane
  /\ \A i \in CraneIdx : cranePc[i] = "ended" => served[i] = VesselsPerCrane
  /\ isQuayADTFree \in BOOLEAN /\ overtaken \in BOOLEAN

\* As long as nobody is overtaken, the vessels pass in groups: one vessel of the
\* group g at each crane, and no next group before the last one has left.
Unsettled   == {v \in Vessels : /\ slot[v] \in 0 .. barrierHeadIdx - 1
                                /\ pc[v] \in {"waitTurn", "leaveBarrier", "countOut", "settle"}}
Free        == CraneIdx \ Occupied
Unloaded(i) == Done(i) \/ pc[cranesVessleIDs[i]] = "leaveCrane"

Group(g) ==
  /\ barrierHeadIdx = g * NumOfCranes /\ barrierHeadIdx <= barrierTaillIdx + 1
  /\ \A i \in Occupied : served[i] = IF Unloaded(i) THEN g ELSE g - 1
  /\ \A i \in Free : served[i] = IF Unsettled = {} THEN g ELSE g - 1
  /\ Unsettled # {} => Cardinality(Free) = Cardinality(Unsettled)
  /\ isQuayADTFree => Unsettled = {} /\ AtCrane = {}
  /\ \A v \in Vessels : pc[v] = "lockBarrierLast" => isQuayADTFree

GroupInv ==
  ~overtaken => IF Running
                  THEN \E g \in 0 .. VesselsPerCrane : Group(g)
                  ELSE port \notin {"overfull", "overrun"} /\ \A v \in Vessels : ~Stranded(v)

IInv == LocksInv /\ BarrierInv /\ QuayInv /\ StartInv /\ TokenInv /\ ServiceInv
-----------------------------------------------------------------------------
(***************************************************************************)
(* Sizes.                                                                  *)
(***************************************************************************)
LEMMA Sizes ==
  /\ NumOfVessels \in Nat /\ NumOfCranes \in Nat /\ 1 < NumOfCranes /\ NumOfCranes < NumOfVessels
  /\ VesselsPerCrane \in Nat /\ 0 < VesselsPerCrane
  /\ IsFiniteSet(Vessels) /\ NoVessel \notin Vessels
  /\ IsFiniteSet(CraneIdx) /\ Cardinality(CraneIdx) = NumOfCranes
<1>1. NumOfVessels \in Nat
  BY FS_CardinalityType, PortAssumption DEF NumOfVessels
<1>2. VesselsPerCrane \in Nat /\ 0 < VesselsPerCrane
  BY <1>1, PortAssumption DEF VesselsPerCrane
<1>3. IsFiniteSet(CraneIdx) /\ Cardinality(CraneIdx) = NumOfCranes
  BY PortAssumption, FS_Interval DEF CraneIdx
<1> QED BY <1>1, <1>2, <1>3, PortAssumption

LEMMA InitIInv == Init => IInv
<1> SUFFICES ASSUME Init PROVE IInv
  OBVIOUS
<1> USE Sizes DEF Init
<1>1. LocksInv
  BY DEF LocksInv, Labels
<1>2. BarrierInv
  <2>1. Queued = {} /\ AtBarrier = {}
    BY DEF Queued, BeforeQueue, AtBarrier
  <2>2. \A v \in Vessels : v \in BeforeQueue
    BY DEF BeforeQueue
  <2>3. barrierTaillIdx + 1 = Cardinality(Queued) /\ BarrierCount
    BY <2>1, FS_EmptySet DEF BarrierCount
  <2>4. Semaphores
    BY DEF Semaphores, Slots
  <2>5. \A v, w \in Vessels : slot[v] = slot[w] /\ slot[v] # -1 => v = w
    OBVIOUS
  <2> QED BY <2>1, <2>2, <2>3, <2>4, <2>5 DEF BarrierInv, Slots
<1>3. QuayInv
  <2>1. Occupied = {} /\ AtCrane = {}
    BY DEF Occupied, AtCrane
  <2> QED BY <2>1, FS_EmptySet DEF QuayInv
<1>4. StartInv
  BY DEF StartInv, Null, Failed
<1>5. TokenInv
  <2>1. port # "semaphore"
    OBVIOUS
  <2>2. \A i \in CraneIdx : ~Waits(i) /\ ~Announced(i) /\ ~InWork(i) /\ ~Done(i)
    BY DEF Waits, Announced, InWork, Done, Null
  <2> QED BY <2>1, <2>2 DEF TokenInv
<1>6. ServiceInv
  <2>1. isQuayADTFree \in BOOLEAN /\ overtaken \in BOOLEAN
    OBVIOUS
  <2>2. /\ job \in [CraneIdx -> Vessels \union {NoVessel}]
        /\ served \in [CraneIdx -> 0 .. VesselsPerCrane]
        /\ \A i \in CraneIdx : cranePc[i] = "none" /\ served[i] = 0
    OBVIOUS
  <2> QED BY <2>1, <2>2 DEF ServiceInv
<1> QED BY <1>1, <1>2, <1>3, <1>4, <1>5, <1>6 DEF IInv
-----------------------------------------------------------------------------
(***************************************************************************)
(* The mutexes.                                                            *)
(***************************************************************************)
LEMMA LocksStep == LocksInv /\ Next => LocksInv'
<1> SUFFICES ASSUME LocksInv, Next PROVE LocksInv'
  OBVIOUS
<1> USE Sizes DEF LocksInv, Labels, Goto, lockVars
<1>1. ASSUME NEW v \in Vessels, ReceiveVessel(v) PROVE LocksInv'
  BY <1>1 DEF ReceiveVessel
<1>2. ASSUME NEW v \in Vessels, Vessel(v) PROVE LocksInv'
  <2>1. CASE LockAdt(v)
    BY <2>1 DEF LockAdt
  <2>2. CASE LockBarrier(v)
    BY <2>2 DEF LockBarrier
  <2>3. CASE QueueUp(v)
    BY <2>3 DEF QueueUp
  <2>4. CASE WaitTurn(v)
    BY <2>4 DEF WaitTurn
  <2>5. CASE LeaveBarrier(v)
    BY <2>5 DEF LeaveBarrier
  <2>6. CASE Settle(v)
    BY <2>6 DEF Settle
  <2>7. CASE WakeCrane(v)
    BY <2>7 DEF WakeCrane
  <2>8. CASE WaitUnload(v)
    BY <2>8 DEF WaitUnload
  <2>9. CASE LeaveCrane(v)
    BY <2>9 DEF LeaveCrane
  <2>10. CASE OpenBarrier(v)
    BY <2>10 DEF OpenBarrier
  <2>11. CASE SailBack(v)
    BY <2>11 DEF SailBack
  <2>12. CASE LockToLeave(v)
    BY <2>12 DEF LockToLeave
  <2> QED BY <1>2, <2>1, <2>2, <2>3, <2>4, <2>5, <2>6, <2>7, <2>8, <2>9, <2>10, <2>11, <2>12 DEF Vessel
<1>3. ASSUME NEW i \in CraneIdx, StartCrane(i) \/ CreateSemaphores(i) \/ Crane(i)
      PROVE  LocksInv'
  BY <1>3 DEF StartCrane, CreateSemaphores, Crane, TakeJob, PhantomJob, FinishJob
<1>4. CASE JoinVessels \/ JoinCranes
  BY <1>4 DEF JoinVessels, JoinCranes
<1> QED BY <1>1, <1>2, <1>3, <1>4 DEF Next
-----------------------------------------------------------------------------
(***************************************************************************)
(* The barrier.                                                            *)
(***************************************************************************)

\* Where a step of vessel v leaves the sets the barrier counts.
LEMMA Moved ==
  ASSUME LocksInv, NEW v \in Vessels, NEW l \in Labels, Goto(v, l)
  PROVE  /\ pc'[v] = l /\ \A w \in Vessels \ {v} : pc'[w] = pc[w]
         /\ BeforeQueue' = IF l \in {"atSea", "lockAdt", "lockBarrier", "queueUp"}
                             THEN BeforeQueue \union {v} ELSE BeforeQueue \ {v}
         /\ AtBarrier' = IF l \in {"waitTurn", "leaveBarrier", "countOut"}
                           THEN AtBarrier \union {v} ELSE AtBarrier \ {v}
         /\ AtCrane' = IF l \in {"wakeCrane", "waitUnload", "leaveCrane"}
                         THEN AtCrane \union {v} ELSE AtCrane \ {v}
BY DEF Goto, LocksInv, BeforeQueue, AtBarrier, AtCrane

\* A step that is not about the barrier: the vessel stays on its side of it, no new
\* claim arises, and the port may fail.
LEMMA BarrierUndisturbed ==
  ASSUME BarrierInv, Running,
         UNCHANGED barrierVars, UNCHANGED slot,
         UNCHANGED BeforeQueue, UNCHANGED AtBarrier,
         \A v \in Vessels : pc[v] = "waitTurn" <=> pc'[v] = "waitTurn"
  PROVE  BarrierInv'
BY DEF BarrierInv, BarrierCount, barrierVars, Queued, Semaphores

\* releaseFromBarrier keeps queue and head in step.
LEMMA Release ==
  ASSUME BarrierInv, Running, ReleaseFromBarrier
  PROVE  /\ barrierHeadIdx' \in 0 .. NumOfVessels + NumOfCranes /\ barrierHeadIdx < barrierHeadIdx'
         /\ barrierQueue' \in [Slots -> {0, 1}]
         /\ \A s \in Slots : (barrierQueue[s] = 1 <=> s < barrierHeadIdx)
                               => (barrierQueue'[s] = 1 <=> s < barrierHeadIdx')
         /\ Running' => barrierHeadIdx' <= NumOfVessels
<1> USE Sizes DEF BarrierInv, ReleaseFromBarrier
<1>1. /\ barrierHeadIdx' \in 0 .. NumOfVessels + NumOfCranes /\ barrierHeadIdx < barrierHeadIdx'
      /\ barrierQueue' \in [Slots -> {0, 1}]
  OBVIOUS
<1>2. \A s \in Slots : (barrierQueue[s] = 1 <=> s < barrierHeadIdx)
                         => (barrierQueue'[s] = 1 <=> s < barrierHeadIdx')
  BY DEF Slots
<1>3. Running' => barrierHeadIdx' <= NumOfVessels
  BY <1>1 DEF Running, Failed
<1> QED BY <1>1, <1>2, <1>3

LEMMA BarrierStep == LocksInv /\ BarrierInv /\ Next => BarrierInv'
<1> SUFFICES ASSUME LocksInv, BarrierInv, Next PROVE BarrierInv'
  OBVIOUS
<1> USE Sizes
<1>0. Running
  BY DEF Next, Running
<1>1. ASSUME NEW v \in Vessels, NEW l \in Labels, Goto(v, l), UNCHANGED <<barrierVars, slot>>,
             \/ /\ pc[v] \in {"atSea", "lockAdt", "lockBarrier"}
                /\ l \in {"lockAdt", "lockBarrier", "queueUp"}
             \/ pc[v] = "leaveBarrier" /\ l = "countOut"
             \/ /\ pc[v] \in {"settle", "wakeCrane", "waitUnload", "leaveCrane", "lockBarrierLast", "sailBack"}
                /\ l \in {"wakeCrane", "waitUnload", "leaveCrane", "lockBarrierLast", "sailBack", "gone"}
      PROVE  BarrierInv'
  <2>1. UNCHANGED BeforeQueue /\ UNCHANGED AtBarrier
    BY <1>1, Moved DEF BeforeQueue, AtBarrier
  <2>2. \A w \in Vessels : pc[w] = "waitTurn" <=> pc'[w] = "waitTurn"
    BY <1>1, Moved
  <2> QED BY <1>0, <1>1, <2>1, <2>2, BarrierUndisturbed
<1>2. ASSUME NEW v \in Vessels, QueueUp(v) PROVE BarrierInv'
  <2> USE DEF BarrierInv
  <2>1. /\ pc[v] = "queueUp" /\ Goto(v, "waitTurn")
        /\ vesselsInBarrier' = vesselsInBarrier + 1 /\ barrierTaillIdx' = barrierTaillIdx + 1
        /\ slot' = [slot EXCEPT ![v] = barrierTaillIdx + 1]
        /\ ReleaseFromBarrier \/ UNCHANGED <<barrierHeadIdx, barrierQueue, port>>
    BY <1>2 DEF QueueUp
  <2>2. /\ v \in BeforeQueue /\ v \notin AtBarrier
        /\ BeforeQueue' = BeforeQueue \ {v} /\ AtBarrier' = AtBarrier \union {v}
        /\ pc'[v] = "waitTurn" /\ \A w \in Vessels \ {v} : pc'[w] = pc[w]
    BY <2>1, Moved DEF BeforeQueue, AtBarrier, Labels
  <2>3. barrierTaillIdx + 1 < NumOfVessels
    <3>1. Queued \in SUBSET Vessels /\ Queued # Vessels
      BY <2>2 DEF Queued
    <3>2. Cardinality(Queued) <= NumOfVessels /\ Cardinality(Queued) # NumOfVessels
      BY <3>1, FS_Subset DEF NumOfVessels
    <3> QED BY <3>2
  <2>4. barrierTaillIdx' + 1 = Cardinality(Queued')
    <3>1. Queued' = Queued \union {v} /\ v \notin Queued
      BY <2>2 DEF Queued
    <3>2. IsFiniteSet(Queued)
      BY FS_Subset DEF Queued
    <3> QED BY <2>1, <3>1, <3>2, FS_AddElement
  <2>5. BarrierCount'
    <3>1. IsFiniteSet(AtBarrier)
      BY FS_Subset DEF AtBarrier
    <3> QED BY <2>1, <2>2, <3>1, FS_AddElement DEF BarrierCount
  <2>6. slot[v] = -1 /\ slot'[v] = barrierTaillIdx + 1 /\ \A w \in Vessels \ {v} : slot'[w] = slot[w]
    BY <2>1, <2>2
  <2>7. \A w \in Vessels : IF w \in BeforeQueue' THEN slot'[w] = -1
                                                  ELSE slot'[w] \in 0 .. barrierTaillIdx'
    BY <2>1, <2>2, <2>6
  <2>8. \A u, w \in Vessels : slot'[u] = slot'[w] /\ slot'[u] # -1 => u = w
    BY <2>6
  <2>9. /\ barrierHeadIdx' \in 0 .. NumOfVessels + NumOfCranes
        /\ barrierQueue' \in [Slots -> {0, 1}]
        /\ Running' => barrierHeadIdx' <= NumOfVessels
        /\ barrierHeadIdx <= barrierHeadIdx'
        /\ \A s \in Slots : (barrierQueue[s] = 1 <=> s < barrierHeadIdx)
                               => (barrierQueue'[s] = 1 <=> s < barrierHeadIdx')
    BY <1>0, <2>1, Release
  <2>10. Running' => Semaphores'
    <3> SUFFICES ASSUME NEW s \in Slots, \A w \in Vessels : slot'[w] = s => pc'[w] = "waitTurn"
                 PROVE  barrierQueue'[s] = 1 <=> s < barrierHeadIdx'
      BY DEF Semaphores, Slots
    <3>1. \A w \in Vessels : slot[w] = s => pc[w] = "waitTurn"
      BY <2>2, <2>6 DEF Slots
    <3> QED BY <1>0, <2>9, <3>1 DEF Semaphores
  <2>11. Running' => \A w \in Queued' : pc'[w] # "waitTurn" => slot'[w] < barrierHeadIdx'
    BY <1>0, <2>2, <2>6, <2>9 DEF Queued
  <2>12. slot' \in [Vessels -> -1 .. NumOfVessels - 1] /\ barrierTaillIdx' \in -1 .. NumOfVessels - 1
    BY <2>1, <2>3
  <2> QED BY <2>4, <2>5, <2>7, <2>8, <2>9, <2>10, <2>11, <2>12
<1>3. ASSUME NEW v \in Vessels, WaitTurn(v) PROVE BarrierInv'
  <2> USE DEF BarrierInv
  <2>1. /\ pc[v] = "waitTurn" /\ Goto(v, "leaveBarrier") /\ barrierQueue[slot[v]] = 1
        /\ barrierQueue' = [barrierQueue EXCEPT ![slot[v]] = 0]
        /\ UNCHANGED <<slot, vesselsInBarrier, barrierTaillIdx, barrierHeadIdx, port>>
    BY <1>3 DEF WaitTurn
  <2>2. /\ v \in AtBarrier /\ v \notin BeforeQueue
        /\ UNCHANGED BeforeQueue /\ UNCHANGED AtBarrier
        /\ pc'[v] = "leaveBarrier" /\ \A w \in Vessels \ {v} : pc'[w] = pc[w]
    BY <2>1, Moved DEF BeforeQueue, AtBarrier, Labels
  <2>3. slot[v] \in Slots /\ slot[v] # -1
    BY <2>2 DEF Slots
  <2>4. slot[v] < barrierHeadIdx
    BY <1>0, <2>1, <2>3 DEF Semaphores
  <2>5. Semaphores'
    <3> SUFFICES ASSUME NEW s \in Slots, \A w \in Vessels : slot[w] = s => pc'[w] = "waitTurn"
                 PROVE  barrierQueue'[s] = 1 <=> s < barrierHeadIdx
      BY <2>1 DEF Semaphores, Slots
    <3>1. s # slot[v] /\ \A w \in Vessels : slot[w] = s => pc[w] = "waitTurn"
      BY <2>1, <2>2
    <3> QED BY <1>0, <2>1, <3>1 DEF Semaphores
  <2>6. \A w \in Queued' : pc'[w] # "waitTurn" => slot'[w] < barrierHeadIdx'
    BY <1>0, <2>1, <2>2, <2>4 DEF Queued
  <2>7. UNCHANGED Queued /\ BarrierCount' /\ barrierQueue' \in [Slots -> {0, 1}]
    BY <2>1, <2>2 DEF Queued, BarrierCount
  <2> QED BY <1>0, <2>1, <2>2, <2>5, <2>6, <2>7
<1>4. ASSUME NEW v \in Vessels, LeaveBarrier(v) PROVE BarrierInv'
  <2> USE DEF BarrierInv
  <2>1. /\ pc[v] = "countOut" /\ Goto(v, "settle") /\ vesselsInBarrier' = vesselsInBarrier - 1
        /\ UNCHANGED <<slot, barrierTaillIdx, barrierHeadIdx, barrierQueue, port>>
    BY <1>4 DEF LeaveBarrier
  <2>2. /\ v \in AtBarrier /\ v \notin BeforeQueue
        /\ UNCHANGED BeforeQueue /\ AtBarrier' = AtBarrier \ {v}
        /\ pc'[v] = "settle" /\ \A w \in Vessels \ {v} : pc'[w] = pc[w]
    BY <2>1, Moved DEF BeforeQueue, AtBarrier, Labels
  <2>3. BarrierCount'
    <3>1. IsFiniteSet(AtBarrier) /\ Cardinality(AtBarrier) \in Nat
      BY FS_Subset, FS_CardinalityType DEF AtBarrier
    <3> QED BY <2>1, <2>2, <3>1, FS_RemoveElement DEF BarrierCount
  <2>4. UNCHANGED Queued
    BY <2>2 DEF Queued
  <2>5. Semaphores'
    BY <1>0, <2>1, <2>2 DEF Semaphores, Slots
  <2>6. \A w \in Queued' : pc'[w] # "waitTurn" => slot'[w] < barrierHeadIdx'
    BY <1>0, <2>1, <2>2, <2>4 DEF Queued
  <2> QED BY <1>0, <2>1, <2>2, <2>3, <2>4, <2>5, <2>6
<1>5. ASSUME NEW v \in Vessels, OpenBarrier(v) PROVE BarrierInv'
  <2> USE DEF BarrierInv
  <2>1. /\ pc[v] = "lockBarrierLast" /\ Goto(v, "sailBack")
        /\ UNCHANGED <<slot, barrierTaillIdx, vesselsInBarrier>>
        /\ ReleaseFromBarrier \/ UNCHANGED <<barrierHeadIdx, barrierQueue, port>>
    BY <1>5 DEF OpenBarrier
  <2>2. /\ UNCHANGED BeforeQueue /\ UNCHANGED AtBarrier /\ UNCHANGED Queued
        /\ \A w \in Vessels : pc[w] = "waitTurn" <=> pc'[w] = "waitTurn"
    BY <2>1, Moved DEF BeforeQueue, AtBarrier, Queued, Labels
  <2>3. /\ barrierHeadIdx' \in 0 .. NumOfVessels + NumOfCranes
        /\ barrierQueue' \in [Slots -> {0, 1}]
        /\ Running' => barrierHeadIdx' <= NumOfVessels
        /\ barrierHeadIdx <= barrierHeadIdx'
        /\ \A s \in Slots : (barrierQueue[s] = 1 <=> s < barrierHeadIdx)
                               => (barrierQueue'[s] = 1 <=> s < barrierHeadIdx')
    BY <1>0, <2>1, Release
  <2>4. Semaphores'
    BY <1>0, <2>1, <2>2, <2>3 DEF Semaphores, Slots
  <2>5. \A w \in Queued' : pc'[w] # "waitTurn" => slot'[w] < barrierHeadIdx'
    BY <1>0, <2>1, <2>2, <2>3 DEF Queued
  <2>6. BarrierCount'
    BY <2>1, <2>2 DEF BarrierCount
  <2> QED BY <2>1, <2>2, <2>3, <2>4, <2>5, <2>6
<1>6. ASSUME NEW v \in Vessels, ReceiveVessel(v) \/ Vessel(v) PROVE BarrierInv'
  BY <1>1, <1>2, <1>3, <1>4, <1>5, <1>6
  DEF Labels, barrierVars, Vessel, ReceiveVessel, LockAdt, LockBarrier, LockToLeave, Settle, WakeCrane, WaitUnload,
      LeaveCrane, SailBack
<1>7. ASSUME UNCHANGED <<pc, slot, barrierVars>> PROVE BarrierInv'
  BY <1>0, <1>7, BarrierUndisturbed DEF BeforeQueue, AtBarrier
<1>8. ASSUME NEW i \in CraneIdx, StartCrane(i) \/ CreateSemaphores(i) \/ Crane(i)
      PROVE  BarrierInv'
  BY <1>7, <1>8 DEF StartCrane, CreateSemaphores, Crane, TakeJob, PhantomJob, FinishJob
<1>9. CASE JoinVessels \/ JoinCranes
  BY <1>7, <1>9 DEF JoinVessels, JoinCranes
<1> QED BY <1>6, <1>8, <1>9 DEF Next
-----------------------------------------------------------------------------
(***************************************************************************)
(* The quay.                                                               *)
(***************************************************************************)

\* A step that gives no crane away and brings no vessel to one or from one.
LEMMA QuayUndisturbed ==
  ASSUME QuayInv, Running, UNCHANGED <<craneIdx, quayVars>>, UNCHANGED AtCrane
  PROVE  QuayInv'
BY DEF QuayInv, quayVars, Occupied

LEMMA SettleStep ==
  ASSUME LocksInv, QuayInv, Running, NEW v \in Vessels, Settle(v)
  PROVE  QuayInv'
<1> USE Sizes DEF QuayInv
<1>1. /\ v \notin AtCrane /\ AtCrane' = AtCrane \union {v}
  BY Moved DEF Settle, AtCrane, Labels
<1>2. ASSUME NEW i \in CraneIdx, FirstFree(i),
             craneIdx' = [craneIdx EXCEPT ![v] = i],
             cranesVessleIDs' = [cranesVessleIDs EXCEPT ![i] = v],
             cranesWithVessels' = cranesWithVessels + 1,
             UNCHANGED port
      PROVE  QuayInv'
  <2>1. i \notin Occupied /\ Occupied' = Occupied \union {i} /\ IsFiniteSet(Occupied)
    BY <1>2, FS_Subset DEF FirstFree, Occupied
  <2>2. cranesWithVessels' = Cardinality(Occupied')
    BY <1>2, <2>1, FS_AddElement
  <2>3. \A w \in AtCrane' : craneIdx'[w] \in CraneIdx /\ cranesVessleIDs'[craneIdx'[w]] = w
    BY <1>1, <1>2, <2>1 DEF Occupied, AtCrane
  <2>4. \A j \in Occupied' : cranesVessleIDs'[j] \in AtCrane' /\ craneIdx'[cranesVessleIDs'[j]] = j
    BY <1>1, <1>2, <2>1 DEF Occupied, AtCrane
  <2>5. craneIdx' \in [Vessels -> -1 .. NumOfCranes]
    BY <1>2 DEF CraneIdx
  <2> QED BY <1>2, <2>2, <2>3, <2>4, <2>5
<1>3. ASSUME craneIdx' = [craneIdx EXCEPT ![v] = NumOfCranes], port' = "overfull",
             UNCHANGED quayVars
      PROVE  QuayInv'
  BY <1>3 DEF quayVars, Occupied, Running, Failed
<1> QED BY <1>2, <1>3 DEF Settle

LEMMA LeaveCraneStep ==
  ASSUME LocksInv, QuayInv, Running, NEW v \in Vessels, LeaveCrane(v)
  PROVE  QuayInv'
<1> USE Sizes DEF QuayInv
<1> DEFINE i == craneIdx[v]
<1>1. v \in AtCrane /\ AtCrane' = AtCrane \ {v}
  BY Moved DEF LeaveCrane, AtCrane, Labels
<1>2. /\ cranesVessleIDs' = [cranesVessleIDs EXCEPT ![i] = NoVessel]
      /\ cranesWithVessels' = cranesWithVessels - 1 /\ UNCHANGED <<craneIdx, port>>
  BY DEF LeaveCrane
<1>3. i \in Occupied /\ Occupied' = Occupied \ {i} /\ IsFiniteSet(Occupied)
  BY <1>1, <1>2, FS_Subset DEF Occupied, AtCrane
<1>4. cranesWithVessels' = Cardinality(Occupied')
  BY <1>2, <1>3, FS_RemoveElement
<1>5. \A w \in AtCrane' : craneIdx'[w] \in CraneIdx /\ cranesVessleIDs'[craneIdx'[w]] = w
  BY <1>1, <1>2, <1>3 DEF Occupied, AtCrane
<1>6. \A j \in Occupied' : cranesVessleIDs'[j] \in AtCrane' /\ craneIdx'[cranesVessleIDs'[j]] = j
  BY <1>1, <1>2, <1>3 DEF Occupied, AtCrane
<1> QED BY <1>2, <1>4, <1>5, <1>6

LEMMA QuayStep == LocksInv /\ QuayInv /\ Next => QuayInv'
<1> SUFFICES ASSUME LocksInv, QuayInv, Next PROVE QuayInv'
  OBVIOUS
<1>1. Running
  BY DEF Next, Running
<1>2. ASSUME NEW v \in Vessels, NEW l \in Labels, Goto(v, l), UNCHANGED <<craneIdx, quayVars>>,
             \/ /\ pc[v] \in {"atSea", "lockAdt", "lockBarrier", "queueUp", "waitTurn",
                              "leaveBarrier", "countOut", "lockBarrierLast", "sailBack"}
                /\ l \notin {"wakeCrane", "waitUnload", "leaveCrane"}
             \/ pc[v] \in {"wakeCrane", "waitUnload"} /\ l \in {"waitUnload", "leaveCrane"}
      PROVE  QuayInv'
  <2>1. UNCHANGED AtCrane
    BY <1>2, Moved DEF AtCrane
  <2> QED BY <1>1, <1>2, <2>1, QuayUndisturbed
<1>3. ASSUME NEW v \in Vessels, ReceiveVessel(v) \/ Vessel(v) PROVE QuayInv'
  BY <1>1, <1>2, <1>3, SettleStep, LeaveCraneStep
  DEF Labels, Vessel, ReceiveVessel, LockAdt, LockBarrier, QueueUp, WaitTurn, LockToLeave, LeaveBarrier,
      WakeCrane, WaitUnload, OpenBarrier, SailBack
<1>4. ASSUME UNCHANGED <<pc, craneIdx, quayVars>> PROVE QuayInv'
  BY <1>1, <1>4, QuayUndisturbed DEF AtCrane
<1>5. ASSUME NEW i \in CraneIdx, StartCrane(i) \/ CreateSemaphores(i) \/ Crane(i)
      PROVE  QuayInv'
  BY <1>4, <1>5 DEF StartCrane, CreateSemaphores, Crane, TakeJob, PhantomJob, FinishJob
<1>6. CASE JoinVessels \/ JoinCranes
  BY <1>4, <1>6 DEF JoinVessels, JoinCranes
<1> QED BY <1>3, <1>5, <1>6 DEF Next
-----------------------------------------------------------------------------
(***************************************************************************)
(* The start of the cranes.                                                *)
(***************************************************************************)
\* What the handover at one crane needs to know of the rest.
LEMMA AtItsCrane ==
  ASSUME LocksInv, QuayInv, StartInv, Running, NEW v \in Vessels, v \in AtCrane
  PROVE  /\ craneIdx[v] \in CraneIdx /\ cranesVessleIDs[craneIdx[v]] = v
         /\ \A j \in CraneIdx : cranesVessleIDs[j] = v => j = craneIdx[v]
         /\ cranesIn[craneIdx[v]] \in {0, 1} /\ cranesOut[craneIdx[v]] \in {0, 1}
BY Sizes DEF QuayInv, StartInv, AtCrane, Occupied

LEMMA StartStep == LocksInv /\ QuayInv /\ StartInv /\ Next => StartInv'
<1> SUFFICES ASSUME LocksInv, QuayInv, StartInv, Next PROVE StartInv'
  OBVIOUS
<1> USE Sizes
<1>1. Running
  BY DEF Next, Running
<1>2. ASSUME UNCHANGED <<cranesIn, cranesOut, cranePc>>, port' \in {port} \union Failed,
             UNCHANGED pc \/ \E v \in Vessels : pc[v] # "atSea"
      PROVE  StartInv'
  BY <1>1, <1>2 DEF StartInv, Running, Failed
<1>3. ASSUME NEW v \in Vessels, ReceiveVessel(v) PROVE StartInv'
  BY <1>1, <1>3 DEF ReceiveVessel, StartInv, Running, Failed, craneVars
<1>4. ASSUME NEW v \in Vessels, Vessel(v) PROVE StartInv'
  <2>1. CASE WakeCrane(v)
    <3>1. pc[v] = "wakeCrane" /\ UNCHANGED <<cranesOut, cranePc>>
      BY <2>1 DEF WakeCrane, craneVars
    <3>2. port # "starting"
      BY <3>1 DEF StartInv
    <3>3. \/ cranesIn' = [cranesIn EXCEPT ![craneIdx[v]] = 1] /\ cranesIn[craneIdx[v]] = 0 /\ UNCHANGED port
          \/ UNCHANGED cranesIn /\ port' = "semaphore"
      BY <2>1 DEF WakeCrane
    <3>4. UNCHANGED port => craneIdx[v] \in CraneIdx
      BY <1>1, <3>1, AtItsCrane DEF AtCrane
    <3>5. CASE UNCHANGED cranesIn /\ port' = "semaphore"
      BY <3>1, <3>5 DEF StartInv, Running, Failed
    <3>6. CASE cranesIn' = [cranesIn EXCEPT ![craneIdx[v]] = 1] /\ cranesIn[craneIdx[v]] = 0 /\ UNCHANGED port
      <4>1. /\ cranesIn' \in [CraneIdx -> {Null, 0, 1}]
            /\ \A i \in CraneIdx : cranesIn'[i] = Null <=> cranesIn[i] = Null
        BY <3>4, <3>6 DEF StartInv, Null
      <4>2. \A i \in CraneIdx : \A j \in 0 .. i - 1 : j \in CraneIdx
        BY DEF CraneIdx
      <4> QED BY <1>1, <3>1, <3>2, <3>6, <4>1, <4>2 DEF StartInv, Running
    <3> QED BY <3>3, <3>5, <3>6
  <2>2. CASE WaitUnload(v)
    <3>1. /\ pc[v] = "waitUnload" /\ UNCHANGED <<cranesIn, cranePc, port>>
          /\ cranesOut' = [cranesOut EXCEPT ![craneIdx[v]] = 0] /\ cranesOut[craneIdx[v]] = 1
      BY <2>2 DEF WaitUnload, craneVars
    <3>2. port # "starting"
      BY <3>1 DEF StartInv
    <3>3. craneIdx[v] \in CraneIdx
      BY <1>1, <3>1, AtItsCrane DEF AtCrane
    <3>4. /\ cranesOut' \in [CraneIdx -> {Null, 0, 1}]
          /\ \A i \in CraneIdx : cranesOut'[i] = Null <=> cranesOut[i] = Null
      BY <3>1, <3>3 DEF StartInv, Null
    <3> QED BY <1>1, <3>1, <3>2, <3>4 DEF StartInv, Running
  <2>3. ASSUME QueueUp(v) \/ OpenBarrier(v) PROVE StartInv'
    BY <1>2, <2>3 DEF QueueUp, OpenBarrier, ReleaseFromBarrier, Failed, craneVars
  <2>4. CASE \/ LockAdt(v) \/ LockBarrier(v) \/ WaitTurn(v) \/ LockToLeave(v) \/ LeaveBarrier(v) \/ Settle(v)
             \/ LeaveCrane(v) \/ SailBack(v)
    BY <1>2, <2>4
    DEF LockAdt, LockBarrier, WaitTurn, LockToLeave, LeaveBarrier, Settle, LeaveCrane, SailBack, Failed, craneVars
  <2> QED BY <1>4, <2>1, <2>2, <2>3, <2>4 DEF Vessel
<1>5. ASSUME NEW i \in CraneIdx, StartCrane(i) PROVE StartInv'
  BY <1>5 DEF StartCrane, StartInv, CraneIdx
<1>6. ASSUME NEW i \in CraneIdx, CreateSemaphores(i) PROVE StartInv'
  BY <1>6 DEF CreateSemaphores, StartInv, CraneIdx, Null, Running, Failed, craneVars
<1>7. ASSUME NEW i \in CraneIdx, TakeJob(i) PROVE StartInv'
  <2>1. UNCHANGED <<pc, cranesOut, port>>
    BY <1>7 DEF TakeJob
  <2>2. /\ cranesIn' \in [CraneIdx -> {Null, 0, 1}]
        /\ \A j \in CraneIdx : cranesIn'[j] = Null <=> cranesIn[j] = Null
    BY <1>7 DEF TakeJob, StartInv, Null
  <2>3. /\ cranePc' \in [CraneIdx -> {"none", "waitJob", "unload", "ended"}]
        /\ \A j \in CraneIdx : cranePc'[j] # "none" => cranePc[j] # "none"
    BY <1>7 DEF TakeJob, StartInv
  <2>4. \A j \in CraneIdx : \A k \in 0 .. j - 1 : k \in CraneIdx
    BY DEF CraneIdx
  <2> QED BY <1>1, <2>1, <2>2, <2>3, <2>4 DEF StartInv, Running
<1>8. ASSUME NEW i \in CraneIdx, PhantomJob(i) PROVE StartInv'
  BY <1>2, <1>8 DEF PhantomJob, Failed, craneVars
<1>9. ASSUME NEW i \in CraneIdx, FinishJob(i) PROVE StartInv'
  <2>1. UNCHANGED <<pc, cranesIn>> /\ port' \in {port, "semaphore"}
    BY <1>9 DEF FinishJob
  <2>2. /\ cranesOut' \in [CraneIdx -> {Null, 0, 1}]
        /\ \A j \in CraneIdx : cranesOut'[j] = Null <=> cranesOut[j] = Null
    BY <1>9 DEF FinishJob, StartInv, Null
  <2>3. /\ cranePc' \in [CraneIdx -> {"none", "waitJob", "unload", "ended"}]
        /\ \A j \in CraneIdx : cranePc'[j] # "none" => cranePc[j] # "none"
    BY <1>9 DEF FinishJob, StartInv
  <2> QED BY <1>1, <2>1, <2>2, <2>3 DEF StartInv, Running, Failed
<1>10. CASE JoinVessels \/ JoinCranes
  BY <1>1, <1>10 DEF JoinVessels, JoinCranes, StartInv, Running, Failed, craneVars
<1> QED BY <1>3, <1>4, <1>5, <1>6, <1>7, <1>8, <1>9, <1>10 DEF Next, Crane
-----------------------------------------------------------------------------
(***************************************************************************)
(* The handover between vessels and cranes.                                *)
(***************************************************************************)
SameToken(j) ==
  /\ Waits(j)' <=> Waits(j)
  /\ Announced(j)' <=> Announced(j)
  /\ InWork(j)' <=> InWork(j)
  /\ Done(j)' <=> Done(j)

LEMMA TokensUndisturbed ==
  ASSUME TokenInv, Running, UNCHANGED <<cranesIn, cranesOut, cranePc>>, port' # "semaphore",
         \A i \in CraneIdx : Waits(i)' <=> Waits(i)
  PROVE  TokenInv'
BY DEF TokenInv, Announced, InWork, Done

LEMMA TokenStep == LocksInv /\ QuayInv /\ StartInv /\ TokenInv /\ Next => TokenInv'
<1> SUFFICES ASSUME LocksInv, QuayInv, StartInv, TokenInv, Next PROVE TokenInv'
  OBVIOUS
<1> USE Sizes
<1>1. Running /\ port # "semaphore"
  BY DEF Next, Running, TokenInv
<1>2. ASSUME NEW v \in Vessels, NEW l \in Labels, Goto(v, l), l # "waitUnload", pc[v] # "waitUnload",
             UNCHANGED <<cranesIn, cranesOut, cranePc, cranesVessleIDs>>, port' # "semaphore"
      PROVE  TokenInv'
  <2>1. \A w \in Vessels : pc'[w] = "waitUnload" <=> pc[w] = "waitUnload"
    BY <1>2, Moved
  <2>2. \A i \in CraneIdx : Waits(i)' <=> Waits(i)
    BY <1>2, <2>1 DEF Waits, QuayInv
  <2> QED BY <1>1, <1>2, <2>2, TokensUndisturbed
<1>3. ASSUME NEW v \in Vessels, \/ ReceiveVessel(v) \/ LockAdt(v) \/ LockBarrier(v) \/ WaitTurn(v)
                                \/ LockToLeave(v) \/ LeaveBarrier(v) \/ SailBack(v)
      PROVE  TokenInv'
  BY <1>1, <1>2, <1>3
  DEF ReceiveVessel, LockAdt, LockBarrier, WaitTurn, LockToLeave, LeaveBarrier, SailBack, Labels, quayVars, craneVars
<1>4. ASSUME NEW v \in Vessels, QueueUp(v) \/ OpenBarrier(v) PROVE TokenInv'
  BY <1>1, <1>2, <1>4 DEF QueueUp, OpenBarrier, ReleaseFromBarrier, Labels, quayVars, craneVars
<1>5. ASSUME NEW v \in Vessels, Settle(v) PROVE TokenInv'
  <2>1. pc[v] = "settle" /\ Goto(v, "wakeCrane") /\ UNCHANGED <<cranesIn, cranesOut, cranePc>>
    BY <1>5 DEF Settle, craneVars
  <2>2. \A w \in Vessels : pc'[w] = "waitUnload" <=> pc[w] = "waitUnload"
    BY <2>1, Moved DEF Labels
  <2>3. ASSUME NEW i \in CraneIdx, FirstFree(i),
               cranesVessleIDs' = [cranesVessleIDs EXCEPT ![i] = v], UNCHANGED port
        PROVE  TokenInv'
    <3>1. \A j \in CraneIdx : Waits(j)' <=> Waits(j)
      BY <2>1, <2>2, <2>3 DEF Waits, QuayInv, FirstFree
    <3> QED BY <1>1, <2>1, <2>3, <3>1, TokensUndisturbed
  <2>4. ASSUME port' = "overfull" PROVE TokenInv'
    BY <2>4 DEF TokenInv, Running, Failed
  <2> QED BY <1>5, <2>3, <2>4 DEF Settle
<1>6. ASSUME NEW v \in Vessels, LeaveCrane(v) PROVE TokenInv'
  <2>1. /\ pc[v] = "leaveCrane" /\ (Goto(v, "lockBarrierLast") \/ Goto(v, "sailBack"))
        /\ cranesVessleIDs' = [cranesVessleIDs EXCEPT ![craneIdx[v]] = NoVessel]
        /\ UNCHANGED <<cranesIn, cranesOut, cranePc, port>>
    BY <1>6 DEF LeaveCrane, craneVars
  <2>2. \A w \in Vessels : pc'[w] = "waitUnload" <=> pc[w] = "waitUnload"
    BY <2>1, Moved DEF Labels
  <2>3. craneIdx[v] \in CraneIdx /\ cranesVessleIDs[craneIdx[v]] = v
    BY <1>1, <2>1, AtItsCrane DEF AtCrane
  <2>4. \A j \in CraneIdx : Waits(j)' <=> Waits(j)
    BY <2>1, <2>2, <2>3 DEF Waits, QuayInv
  <2> QED BY <1>1, <2>1, <2>4, TokensUndisturbed
<1>7. ASSUME NEW v \in Vessels, WakeCrane(v) PROVE TokenInv'
  <2>1. pc[v] = "wakeCrane" /\ Goto(v, "waitUnload") /\ UNCHANGED <<cranesOut, cranePc, cranesVessleIDs>>
    BY <1>7 DEF WakeCrane, craneVars, quayVars
  <2>2. PICK i \in CraneIdx : /\ i = craneIdx[v] /\ cranesVessleIDs[i] = v /\ cranesIn[i] \in {0, 1}
                              /\ \A j \in CraneIdx : cranesVessleIDs[j] = v => j = i
    BY <1>1, <2>1, AtItsCrane DEF AtCrane
  <2>3. ~Waits(i)
    BY <2>1, <2>2 DEF Waits
  <2>4. ~Announced(i) /\ ~InWork(i) /\ ~Done(i)
    BY <1>1, <2>2, <2>3 DEF TokenInv
  <2>5. cranesIn' = [cranesIn EXCEPT ![i] = 1] /\ UNCHANGED port
    BY <1>7, <2>2, <2>4 DEF WakeCrane, Announced
  <2>6. pc'[v] = "waitUnload" /\ \A w \in Vessels \ {v} : pc'[w] = pc[w]
    BY <2>1, Moved DEF Labels
  <2>7. Waits(i)' /\ Announced(i)' /\ ~InWork(i)' /\ ~Done(i)'
    BY <2>1, <2>2, <2>4, <2>5, <2>6 DEF SameToken, Waits, Announced, InWork, Done, StartInv
  <2>8. \A j \in CraneIdx \ {i} : SameToken(j)
    BY <2>1, <2>2, <2>5, <2>6 DEF SameToken, Waits, Announced, InWork, Done, QuayInv, StartInv
  <2> QED BY <1>1, <2>5, <2>7, <2>8 DEF TokenInv, SameToken
<1>8. ASSUME NEW v \in Vessels, WaitUnload(v) PROVE TokenInv'
  <2>1. /\ pc[v] = "waitUnload" /\ Goto(v, "leaveCrane") /\ cranesOut[craneIdx[v]] = 1
        /\ cranesOut' = [cranesOut EXCEPT ![craneIdx[v]] = 0]
        /\ UNCHANGED <<cranesIn, cranePc, cranesVessleIDs, port>>
    BY <1>8 DEF WaitUnload, craneVars, quayVars
  <2>2. PICK i \in CraneIdx : /\ i = craneIdx[v] /\ cranesVessleIDs[i] = v
                              /\ \A j \in CraneIdx : cranesVessleIDs[j] = v => j = i
    BY <1>1, <2>1, AtItsCrane DEF AtCrane
  <2>3. Done(i) /\ ~Announced(i) /\ ~InWork(i)
    BY <1>1, <2>1, <2>2 DEF TokenInv, Done
  <2>4. pc'[v] = "leaveCrane" /\ \A w \in Vessels \ {v} : pc'[w] = pc[w]
    BY <2>1, Moved DEF Labels
  <2>5. ~Waits(i)' /\ ~Announced(i)' /\ ~InWork(i)' /\ ~Done(i)'
    BY <2>1, <2>2, <2>3, <2>4 DEF SameToken, Waits, Announced, InWork, Done, StartInv
  <2>6. \A j \in CraneIdx \ {i} : SameToken(j)
    BY <2>1, <2>2, <2>4 DEF SameToken, Waits, Announced, InWork, Done, QuayInv, StartInv
  <2> QED BY <1>1, <2>1, <2>5, <2>6 DEF TokenInv, SameToken
<1>9. ASSUME NEW i \in CraneIdx, StartCrane(i) PROVE TokenInv'
  <2>1. \A j \in CraneIdx : SameToken(j)
    BY <1>9 DEF StartCrane, SameToken, quayVars, Waits, Announced, InWork, Done, StartInv
  <2> QED BY <1>1, <1>9, <2>1 DEF TokenInv, SameToken, StartCrane
<1>10. ASSUME NEW i \in CraneIdx, CreateSemaphores(i) PROVE TokenInv'
  <2>1. \A j \in CraneIdx : SameToken(j)
    BY <1>10 DEF CreateSemaphores, quayVars, craneVars, SameToken, Waits, Announced, InWork, Done, StartInv, Null
  <2>2. port' # "semaphore"
    BY <1>1, <1>10 DEF CreateSemaphores
  <2> QED BY <1>1, <2>1, <2>2 DEF TokenInv, SameToken
<1>11. ASSUME NEW i \in CraneIdx, TakeJob(i) PROVE TokenInv'
  <2>1. Announced(i) /\ ~InWork(i) /\ ~Done(i) /\ Waits(i)
    BY <1>1, <1>11 DEF TakeJob, TokenInv, Announced
  <2>2. ~Announced(i)' /\ InWork(i)' /\ ~Done(i)' /\ Waits(i)'
    BY <1>11, <2>1 DEF TakeJob, quayVars, SameToken, Waits, Announced, InWork, Done, StartInv
  <2>3. \A j \in CraneIdx \ {i} : SameToken(j)
    BY <1>11 DEF TakeJob, quayVars, SameToken, Waits, Announced, InWork, Done, StartInv
  <2> QED BY <1>1, <1>11, <2>2, <2>3 DEF TokenInv, SameToken, TakeJob
<1>12. ASSUME NEW i \in CraneIdx, PhantomJob(i) PROVE TokenInv'
  BY <1>12 DEF PhantomJob, TokenInv, Running, Failed
<1>13. ASSUME NEW i \in CraneIdx, FinishJob(i) PROVE TokenInv'
  <2>1. InWork(i) /\ ~Announced(i) /\ ~Done(i) /\ Waits(i)
    BY <1>1, <1>13 DEF FinishJob, TokenInv, InWork
  <2>2. cranesOut[i] = 0
    <3>1. cranesVessleIDs[i] \in AtCrane /\ craneIdx[cranesVessleIDs[i]] = i
      BY <1>1, <2>1 DEF Waits, QuayInv, Occupied
    <3>2. cranesVessleIDs[i] \in Vessels
      BY <3>1 DEF AtCrane
    <3> QED BY <1>1, <2>1, <3>1, <3>2, AtItsCrane DEF Done
  <2>3. /\ cranesOut' = [cranesOut EXCEPT ![i] = 1] /\ UNCHANGED <<port, pc, cranesIn, cranesVessleIDs>>
        /\ cranePc' = [cranePc EXCEPT ![i] = IF served'[i] < VesselsPerCrane THEN "waitJob"
                                                                             ELSE "ended"]
    BY <1>13, <2>2 DEF FinishJob, quayVars
  <2>4. ~InWork(i)' /\ ~Announced(i)' /\ Done(i)' /\ Waits(i)'
    BY <2>1, <2>3 DEF SameToken, Waits, Announced, InWork, Done, StartInv
  <2>5. \A j \in CraneIdx \ {i} : SameToken(j)
    BY <2>3 DEF SameToken, Waits, Announced, InWork, Done, StartInv
  <2> QED BY <1>1, <2>3, <2>4, <2>5 DEF TokenInv, SameToken
<1>14. CASE JoinVessels \/ JoinCranes
  <2>1. UNCHANGED <<pc, cranesIn, cranesOut, cranePc, cranesVessleIDs>> /\ port' # "semaphore"
    BY <1>14 DEF JoinVessels, JoinCranes, quayVars, craneVars
  <2> QED BY <1>1, <2>1, TokensUndisturbed DEF Waits
<1> QED BY <1>3, <1>4, <1>5, <1>6, <1>7, <1>8, <1>9, <1>10, <1>11, <1>12, <1>13, <1>14
        DEF Next, Vessel, Crane
-----------------------------------------------------------------------------
(***************************************************************************)
(* The shares of the cranes.                                               *)
(***************************************************************************)
LEMMA ServiceStep == QuayInv /\ StartInv /\ ServiceInv /\ Next => ServiceInv'
<1> SUFFICES ASSUME QuayInv, StartInv, ServiceInv, Next PROVE ServiceInv'
  OBVIOUS
<1> USE Sizes DEF ServiceInv
<1>1. ASSUME UNCHANGED craneVars, isQuayADTFree' \in BOOLEAN, overtaken' \in BOOLEAN PROVE ServiceInv'
  BY <1>1 DEF craneVars
<1>2. ASSUME NEW v \in Vessels, QueueUp(v) \/ OpenBarrier(v) \/ LeaveCrane(v) PROVE ServiceInv'
  BY <1>1, <1>2 DEF QueueUp, OpenBarrier, LeaveCrane, ReleaseFromBarrier, releaseVars
<1>3. ASSUME NEW v \in Vessels, ReceiveVessel(v) \/ Vessel(v) PROVE ServiceInv'
  BY <1>1, <1>2, <1>3
  DEF Vessel, ReceiveVessel, LockAdt, LockBarrier, WaitTurn, LockToLeave, LeaveBarrier, Settle, WakeCrane,
      WaitUnload, SailBack, releaseVars
<1>4. ASSUME NEW i \in CraneIdx, StartCrane(i) PROVE ServiceInv'
  BY <1>4 DEF StartCrane, releaseVars, StartInv
<1>5. ASSUME NEW i \in CraneIdx, CreateSemaphores(i) \/ PhantomJob(i) PROVE ServiceInv'
  BY <1>1, <1>5 DEF CreateSemaphores, PhantomJob, releaseVars
<1>6. ASSUME NEW i \in CraneIdx, TakeJob(i) PROVE ServiceInv'
  BY <1>6 DEF TakeJob, releaseVars, StartInv, QuayInv
<1>7. ASSUME NEW i \in CraneIdx, FinishJob(i) PROVE ServiceInv'
  BY <1>7 DEF FinishJob, releaseVars, StartInv
<1>8. CASE JoinVessels \/ JoinCranes
  BY <1>1, <1>8 DEF JoinVessels, JoinCranes, releaseVars
<1> QED BY <1>3, <1>4, <1>5, <1>6, <1>7, <1>8 DEF Next, Crane
-----------------------------------------------------------------------------
(***************************************************************************)
(* The groups.                                                             *)
(***************************************************************************)

\* If the numbers below n are given out to n things, any range of them is.
LEMMA Numbered ==
  ASSUME NEW S, IsFiniteSet(S), NEW f, NEW n \in Nat, Cardinality(S) = n,
         \A x \in S : f[x] \in 0 .. n - 1,
         \A x, y \in S : f[x] = f[y] => x = y,
         NEW lo \in Nat, NEW hi \in Nat, lo <= hi, hi <= n,
         NEW T, T = {x \in S : f[x] \in lo .. hi - 1}
  PROVE  Cardinality(T) = hi - lo
<1> DEFINE num == [x \in S |-> f[x]]
           part == [x \in T |-> f[x]]
<1>1. num \in Injection(S, 0 .. n - 1)
  BY DEF Injection, IsInjective
<1>2. IsFiniteSet(0 .. n - 1) /\ Cardinality(0 .. n - 1) = n
  BY FS_Interval
<1>3. num \in Surjection(S, 0 .. n - 1)
  BY <1>1, <1>2, FS_Injection
<1>4. \A k \in lo .. hi - 1 : \E x \in T : f[x] = k
  <2> SUFFICES ASSUME NEW k \in lo .. hi - 1 PROVE \E x \in T : f[x] = k
    OBVIOUS
  <2>1. k \in 0 .. n - 1
    OBVIOUS
  <2>2. PICK x \in S : num[x] = k
    BY <1>3, <2>1 DEF Surjection
  <2> QED BY <2>2
<1>5. part \in Bijection(T, lo .. hi - 1)
  BY <1>4 DEF Bijection, Injection, Surjection, IsInjective
<1>6. IsFiniteSet(T)
  BY FS_Subset
<1>7. Cardinality(lo .. hi - 1) = Cardinality(T)
  BY <1>5, <1>6, FS_Bijection DEF ExistsBijection
<1> QED BY <1>7, FS_Interval

LEMMA Shares ==
  ASSUME NEW g \in Nat
  PROVE  /\ g * NumOfCranes \in Nat
         /\ (g + 1) * NumOfCranes = g * NumOfCranes + NumOfCranes
         /\ (g + 1) * NumOfCranes <= NumOfVessels => g + 1 <= VesselsPerCrane
<1>1. g * NumOfCranes \in Nat /\ (g + 1) * NumOfCranes = g * NumOfCranes + NumOfCranes
  BY Sizes
<1>2. NumOfVessels = VesselsPerCrane * NumOfCranes
  BY Sizes, PortAssumption DEF VesselsPerCrane
<1>3. ASSUME VesselsPerCrane <= g PROVE VesselsPerCrane * NumOfCranes <= g * NumOfCranes
  BY <1>3, Sizes
<1> QED BY <1>1, <1>2, <1>3, Sizes

LEMMA GroupSizes == IsFiniteSet(Unsettled) /\ IsFiniteSet(Free) /\ IsFiniteSet(Occupied)
BY Sizes, FS_Subset DEF Unsettled, Free, Occupied

\* A step that settles nobody, releases nobody and finishes no job.
LEMMA GroupUndisturbed ==
  ASSUME NEW g \in Nat, Group(g), barrierTaillIdx \in Int, barrierTaillIdx' \in Int,
         UNCHANGED <<barrierHeadIdx, served, isQuayADTFree>>, barrierTaillIdx <= barrierTaillIdx',
         UNCHANGED Occupied, UNCHANGED Unsettled, UNCHANGED AtCrane,
         \A i \in Occupied : Unloaded(i)' <=> Unloaded(i),
         \A v \in Vessels : pc'[v] = "lockBarrierLast" => pc[v] = "lockBarrierLast"
  PROVE  Group(g)'
<1>1. barrierHeadIdx' = g * NumOfCranes /\ barrierHeadIdx' <= barrierTaillIdx' + 1
  <2>1. barrierHeadIdx = g * NumOfCranes /\ barrierHeadIdx <= barrierTaillIdx + 1
    BY DEF Group
  <2>2. barrierHeadIdx \in Nat
    BY <2>1, Shares
  <2> QED BY <2>1, <2>2
<1>2. UNCHANGED Free
  BY DEF Free
<1>3. \A i \in Occupied' : served'[i] = IF Unloaded(i)' THEN g ELSE g - 1
  BY DEF Group
<1>4. \A i \in Free' : served'[i] = IF Unsettled' = {} THEN g ELSE g - 1
  BY <1>2 DEF Group
<1>5. /\ Unsettled' # {} => Cardinality(Free') = Cardinality(Unsettled')
      /\ isQuayADTFree' => Unsettled' = {} /\ AtCrane' = {}
      /\ \A v \in Vessels : pc'[v] = "lockBarrierLast" => isQuayADTFree'
  BY <1>2 DEF Group
<1> QED BY <1>1, <1>3, <1>4, <1>5 DEF Group

\* k things have as many different numbers.
LEMMA Room ==
  ASSUME NEW S, IsFiniteSet(S), NEW f, NEW lo \in Nat, NEW hi \in Int,
         \A x \in S : f[x] \in lo .. hi,
         \A x, y \in S : f[x] = f[y] => x = y,
         NEW k \in Nat, 0 < k, k <= Cardinality(S)
  PROVE  lo + k <= hi + 1
<1> DEFINE num == [x \in S |-> f[x]]
<1>1. num \in Injection(S, lo .. hi)
  BY DEF Injection, IsInjective
<1>2. IsFiniteSet(lo .. hi) /\ Cardinality(lo .. hi) = IF lo > hi THEN 0 ELSE hi - lo + 1
  BY FS_Interval
<1>3. Cardinality(S) <= Cardinality(lo .. hi)
  BY <1>1, <1>2, FS_Injection
<1>4. Cardinality(S) \in Nat
  BY FS_CardinalityType
<1> QED BY <1>2, <1>3, <1>4

\* What a release needs of the step around it: the queue may have got one vessel more,
\* and nobody else moved.
LEMMA GroupReleased ==
  ASSUME IInv, BarrierInv', NEW g \in 0 .. VesselsPerCrane, Group(g), Running,
         isQuayADTFree, ReleaseFromBarrier, NumOfCranes <= vesselsInBarrier',
         UNCHANGED <<served, cranesVessleIDs>>, UNCHANGED AtCrane, Queued \subseteq Queued',
         \A w \in Queued : /\ slot'[w] = slot[w]
                           /\ \/ pc'[w] = pc[w]
                              \/ pc[w] = "lockBarrierLast" /\ pc'[w] = "sailBack",
         \A w \in Queued' \ Queued : pc'[w] = "waitTurn" /\ barrierHeadIdx <= slot'[w],
         \A w \in Vessels : pc'[w] # "lockBarrierLast"
  PROVE  port' # "overrun" /\ g + 1 \in 0 .. VesselsPerCrane /\ Group(g + 1)'
<1> USE Sizes
<1>1. /\ Unsettled = {} /\ AtCrane = {} /\ barrierHeadIdx = g * NumOfCranes
      /\ \A i \in Free : served[i] = g
  BY DEF Group
<1>2. /\ barrierHeadIdx \in Nat
      /\ barrierTaillIdx' \in Int /\ -1 <= barrierTaillIdx' /\ barrierTaillIdx' < NumOfVessels
  BY <1>1, Shares DEF BarrierInv
<1>3. \A w \in Queued' : slot'[w] \in 0 .. barrierTaillIdx'
  BY DEF BarrierInv, Queued
<1>4. \A v, w \in Queued' : slot'[v] = slot'[w] => v = w
  BY <1>2, <1>3 DEF BarrierInv, Queued
<1>5. ASSUME NEW w \in Vessels, pc'[w] \in {"waitTurn", "leaveBarrier", "countOut", "settle"}
      PROVE  w \in Queued' /\ barrierHeadIdx <= slot'[w]
  <2>1. w \in Queued'
    BY <1>5 DEF Queued, BeforeQueue
  <2>2. ASSUME w \in Queued PROVE barrierHeadIdx <= slot'[w]
    <3>1. pc[w] \in {"waitTurn", "leaveBarrier", "countOut", "settle"} /\ slot'[w] = slot[w]
      BY <1>5, <2>2
    <3>2. slot[w] \in 0 .. barrierTaillIdx /\ barrierTaillIdx \in Int
      BY <2>2 DEF IInv, BarrierInv, Queued
    <3> QED BY <1>1, <1>2, <3>1, <3>2 DEF Unsettled
  <2> QED BY <2>1, <2>2
<1>6. barrierHeadIdx + NumOfCranes <= barrierTaillIdx' + 1
  <2> DEFINE f == slot'
             m == barrierTaillIdx'
             S == AtBarrier'
  <2>1. \A w \in S : f[w] \in barrierHeadIdx .. m
    BY <1>2, <1>3, <1>5 DEF AtBarrier
  <2>2. \A v, w \in S : f[v] = f[w] => v = w
    BY <1>4, <1>5 DEF AtBarrier
  <2>3. IsFiniteSet(S) /\ m \in Int
    BY <1>2, FS_Subset DEF AtBarrier
  <2>4. NumOfCranes <= Cardinality(S)
    BY DEF BarrierInv, BarrierCount
  <2> HIDE DEF f, m, S
  <2>5. barrierHeadIdx \in Nat /\ NumOfCranes \in Nat /\ 0 < NumOfCranes
    BY <1>2
  <2>6. barrierHeadIdx + NumOfCranes <= m + 1
    BY ONLY <2>1, <2>2, <2>3, <2>4, <2>5, Room
  <2> QED BY <2>6 DEF m
<1>7. barrierHeadIdx' = barrierHeadIdx + NumOfCranes /\ isQuayADTFree' = FALSE /\ port' # "overrun"
  <2>1. /\ barrierHeadIdx' = barrierHeadIdx + NumOfCranes /\ isQuayADTFree' = FALSE
        /\ port' = IF barrierHeadIdx' > NumOfVessels THEN "overrun" ELSE port
    BY DEF ReleaseFromBarrier
  <2>2. ~(barrierHeadIdx + NumOfCranes > NumOfVessels)
    BY <1>2, <1>6
  <2> QED BY <2>1, <2>2 DEF Running, Failed
<1>8. g + 1 \in 0 .. VesselsPerCrane /\ barrierHeadIdx' = (g + 1) * NumOfCranes
  <2>1. /\ g \in Nat /\ g * NumOfCranes \in Nat
        /\ (g + 1) * NumOfCranes = g * NumOfCranes + NumOfCranes
        /\ (g + 1) * NumOfCranes <= NumOfVessels => g + 1 <= VesselsPerCrane
    BY Shares
  <2>2. (g + 1) * NumOfCranes = barrierHeadIdx + NumOfCranes
    BY <1>1, <2>1
  <2>3. barrierHeadIdx + NumOfCranes <= NumOfVessels
    BY <1>2, <1>6
  <2> QED BY <1>7, <2>1, <2>2, <2>3
<1>9. Unsettled' = {w \in Queued' : slot'[w] \in barrierHeadIdx .. barrierHeadIdx' - 1}
  <2>1. ASSUME NEW w \in Queued', slot'[w] \in barrierHeadIdx .. barrierHeadIdx' - 1
        PROVE  pc'[w] = "waitTurn"
    <3>1. ASSUME w \in Queued PROVE pc'[w] = "waitTurn"
      <4>1. ~(slot[w] < barrierHeadIdx)
        BY <1>2, <1>7, <2>1, <3>1
      <4>2. pc[w] = "waitTurn"
        BY <3>1, <4>1 DEF IInv, BarrierInv
      <4> QED BY <3>1, <4>2
    <3> QED BY <3>1
  <2>2. \A w \in Queued' : slot'[w] \in barrierHeadIdx .. barrierHeadIdx' - 1
                             => slot'[w] \in 0 .. barrierHeadIdx' - 1
    BY <1>2, <1>7
  <2>3. \A w \in Vessels : barrierHeadIdx <= slot'[w] /\ slot'[w] \in 0 .. barrierHeadIdx' - 1
                             => slot'[w] \in barrierHeadIdx .. barrierHeadIdx' - 1
    BY <1>2, <1>7
  <2>4. Queued' \subseteq Vessels
    BY DEF Queued
  <2> QED BY <1>5, <2>1, <2>2, <2>3, <2>4 DEF Unsettled
<1>10. Cardinality(Unsettled') = NumOfCranes
  <2> DEFINE f == slot'
             n == barrierTaillIdx' + 1
             S == Queued'
             hi == barrierHeadIdx + NumOfCranes
             T == Unsettled'
  <2>1. IsFiniteSet(S) /\ Cardinality(S) = n
    BY FS_Subset DEF BarrierInv, Queued
  <2>2. n \in Nat /\ hi \in Nat /\ barrierHeadIdx <= hi /\ hi <= n
    BY <1>2, <1>6
  <2>3. \A w \in S : f[w] \in 0 .. n - 1
    BY <1>2, <1>3
  <2>4. \A v, w \in S : f[v] = f[w] => v = w
    BY <1>4
  <2>5. hi - barrierHeadIdx = NumOfCranes /\ T = {w \in S : f[w] \in barrierHeadIdx .. hi - 1}
    BY <1>2, <1>7, <1>9
  <2> HIDE DEF f, n, S, hi, T
  <2>6. barrierHeadIdx \in Nat
    BY <1>2
  <2>7. Cardinality(T) = hi - barrierHeadIdx
    BY ONLY <2>1, <2>2, <2>3, <2>4, <2>5, <2>6, Numbered
  <2> QED BY <2>5, <2>7 DEF T
<1>11. Occupied = {} /\ Occupied' = {} /\ Free = CraneIdx /\ Free' = CraneIdx
  BY <1>1 DEF IInv, QuayInv, Occupied, Free
<1>12. Unsettled' # {}
  BY <1>10, FS_EmptySet
<1>13. \A i \in Free' : served'[i] = (g + 1) - 1
  BY <1>1, <1>11
<1> QED BY <1>2, <1>6, <1>7, <1>8, <1>10, <1>11, <1>12, <1>13 DEF Group

\* A vessel that settles finds a free crane, which has done one job less than the
\* cranes of the vessels of its group that are done.
LEMMA GroupSettles ==
  ASSUME IInv, NEW g \in 0 .. VesselsPerCrane, Group(g), Running,
         NEW v \in Vessels, Settle(v)
  PROVE  UNCHANGED port /\ Group(g)'
<1> USE Sizes
<1>1. /\ pc[v] = "settle" /\ pc' = [pc EXCEPT ![v] = "wakeCrane"]
      /\ UNCHANGED <<slot, barrierHeadIdx, barrierTaillIdx, isQuayADTFree, cranesOut, served>>
  BY DEF Settle, Goto, barrierVars, releaseVars, craneVars
<1>2. pc'[v] = "wakeCrane" /\ \A w \in Vessels \ {v} : pc'[w] = pc[w]
  BY <1>1 DEF IInv, LocksInv
<1>3. v \in Unsettled
  <2>1. v \in Queued
    BY <1>1 DEF Queued, BeforeQueue
  <2>2. slot[v] < barrierHeadIdx /\ slot[v] \in 0 .. barrierTaillIdx
    BY <1>1, <2>1 DEF IInv, BarrierInv, Queued
  <2>3. slot[v] \in 0 .. barrierHeadIdx - 1
    BY <2>2 DEF IInv, BarrierInv
  <2> QED BY <1>1, <2>3 DEF Unsettled
<1>4. Unsettled' = Unsettled \ {v}
  BY <1>1, <1>2 DEF Unsettled
<1>5. /\ Cardinality(Free) = Cardinality(Unsettled) /\ isQuayADTFree = FALSE
      /\ \A i \in Free : served[i] = g - 1
      /\ \A i \in Occupied : served[i] = IF Unloaded(i) THEN g ELSE g - 1
      /\ barrierHeadIdx = g * NumOfCranes /\ barrierHeadIdx <= barrierTaillIdx + 1
      /\ \A w \in Vessels : pc[w] = "lockBarrierLast" => isQuayADTFree
  BY <1>3 DEF Group, IInv, ServiceInv
<1>6. Free # {}
  BY <1>3, <1>5, GroupSizes, FS_EmptySet
<1>7. PICK i \in CraneIdx : FirstFree(i) /\ cranesVessleIDs' = [cranesVessleIDs EXCEPT ![i] = v] /\ UNCHANGED port
  BY <1>6 DEF Settle, Free, Occupied
<1>8. i \notin Occupied /\ Occupied' = Occupied \union {i} /\ i \in Free /\ Free' = Free \ {i}
  BY <1>7 DEF IInv, QuayInv, FirstFree, Occupied, Free
<1>9. /\ Cardinality(Free') = Cardinality(Free) - 1
      /\ Cardinality(Unsettled') = Cardinality(Unsettled) - 1
      /\ IsFiniteSet(Free') /\ IsFiniteSet(Unsettled')
  BY <1>3, <1>4, <1>8, GroupSizes, FS_RemoveElement
<1>10. Unsettled' = {} => Free' = {}
  BY <1>5, <1>9, FS_EmptySet
<1>11. \A j \in Occupied' : served'[j] = IF Unloaded(j)' THEN g ELSE g - 1
  <2>1. ASSUME NEW j \in Occupied PROVE Unloaded(j)' <=> Unloaded(j)
    <3>1. cranesVessleIDs[j] \in AtCrane /\ cranesVessleIDs'[j] = cranesVessleIDs[j]
      BY <1>7, <1>8, <2>1 DEF IInv, QuayInv, Occupied
    <3>2. cranesVessleIDs[j] \in Vessels \ {v}
      BY <1>1, <3>1 DEF AtCrane
    <3> QED BY <1>1, <1>2, <3>1, <3>2 DEF Unloaded, Done
  <2>2. ~Unloaded(i)'
    <3>1. ~Done(i)
      BY <1>8 DEF IInv, TokenInv, Waits, Occupied
    <3>2. cranesVessleIDs'[i] = v
      BY <1>7 DEF IInv, QuayInv
    <3> QED BY <1>1, <1>2, <3>1, <3>2 DEF Unloaded, Done
  <2> QED BY <1>1, <1>5, <1>8, <2>1, <2>2
<1>12. \A j \in Free' : served'[j] = IF Unsettled' = {} THEN g ELSE g - 1
  BY <1>1, <1>5, <1>8, <1>10
<1>13. \A w \in Vessels : pc'[w] # "lockBarrierLast"
  BY <1>2, <1>5
<1>14. Unsettled' # {} => Cardinality(Free') = Cardinality(Unsettled')
  BY <1>5, <1>9
<1>15. barrierHeadIdx' = g * NumOfCranes /\ barrierHeadIdx' <= barrierTaillIdx' + 1 /\ isQuayADTFree' = FALSE
  BY <1>1, <1>5
<1> QED BY <1>7, <1>11, <1>12, <1>13, <1>14, <1>15 DEF Group

\* A vessel that leaves its crane and overtakes nobody: the crane has done its job for
\* the group, and the last one opens the quay.
LEMMA GroupLeaves ==
  ASSUME IInv, QuayInv', NEW g \in 0 .. VesselsPerCrane, Group(g), Running,
         NEW v \in Vessels, LeaveCrane(v), ~overtaken'
  PROVE  UNCHANGED port /\ Group(g)'
<1> USE Sizes
<1> DEFINE i == craneIdx[v]
<1>1. /\ pc[v] = "leaveCrane" /\ AllSettled /\ UNCHANGED port
      /\ UNCHANGED <<slot, barrierHeadIdx, barrierTaillIdx, cranesOut, served>>
      /\ cranesVessleIDs' = [cranesVessleIDs EXCEPT ![i] = NoVessel]
      /\ pc'[v] \in {"lockBarrierLast", "sailBack"} /\ \A w \in Vessels \ {v} : pc'[w] = pc[w]
      /\ IF cranesWithVessels = 1 THEN isQuayADTFree' = TRUE ELSE UNCHANGED isQuayADTFree
      /\ pc'[v] = "lockBarrierLast" => cranesWithVessels = 1
  BY DEF LeaveCrane, Goto, barrierVars, craneVars, IInv, LocksInv
<1>2. Unsettled = {} /\ Unsettled' = {}
  BY <1>1 DEF AllSettled, Unsettled
<1>3. v \in AtCrane /\ i \in CraneIdx /\ cranesVessleIDs[i] = v
  BY <1>1 DEF AtCrane, IInv, QuayInv
<1>4. i \in Occupied /\ Occupied' = Occupied \ {i} /\ Free' = Free \union {i}
  BY <1>1, <1>3 DEF IInv, QuayInv, Occupied, Free
<1>5. /\ \A j \in Occupied : served[j] = IF Unloaded(j) THEN g ELSE g - 1
      /\ \A j \in Free : served[j] = g
      /\ barrierHeadIdx = g * NumOfCranes /\ barrierHeadIdx <= barrierTaillIdx + 1
      /\ isQuayADTFree = FALSE
      /\ \A w \in Vessels : pc[w] = "lockBarrierLast" => isQuayADTFree
  BY <1>2, <1>3 DEF Group, IInv, ServiceInv
<1>6. \A j \in Occupied' : served'[j] = IF Unloaded(j)' THEN g ELSE g - 1
  <2> SUFFICES ASSUME NEW j \in Occupied' PROVE Unloaded(j)' <=> Unloaded(j)
    BY <1>1, <1>4, <1>5
  <2>1. cranesVessleIDs'[j] = cranesVessleIDs[j] /\ cranesVessleIDs[j] \in AtCrane
        /\ cranesVessleIDs[j] # v
    BY <1>1, <1>3, <1>4 DEF IInv, QuayInv, Occupied
  <2> QED BY <1>1, <2>1 DEF Unloaded, Done, AtCrane
<1>7. \A j \in Free' : served'[j] = IF Unsettled' = {} THEN g ELSE g - 1
  <2>1. served[i] = g
    BY <1>1, <1>3, <1>4, <1>5 DEF Unloaded
  <2> QED BY <1>1, <1>2, <1>4, <1>5, <2>1
<1>8. isQuayADTFree' => AtCrane' = {}
  <2> SUFFICES ASSUME isQuayADTFree' PROVE AtCrane' = {}
    OBVIOUS
  <2>1. cranesWithVessels = 1 /\ cranesWithVessels = Cardinality(Occupied)
    BY <1>1, <1>5 DEF IInv, QuayInv
  <2>2. PICK j : Occupied = {j}
    BY <2>1, GroupSizes, FS_Singleton
  <2>3. Occupied' = {}
    BY <1>4, <2>2
  <2>4. Running'
    BY <1>1 DEF Running
  <2>5. ASSUME NEW w \in AtCrane' PROVE craneIdx'[w] \in Occupied'
    <3>1. craneIdx'[w] \in CraneIdx /\ cranesVessleIDs'[craneIdx'[w]] = w
      BY <2>4, <2>5 DEF QuayInv
    <3>2. w # NoVessel
      BY <2>5 DEF AtCrane
    <3> QED BY <3>1, <3>2 DEF Occupied
  <2> QED BY <2>3, <2>5
<1>9. \A w \in Vessels : pc'[w] = "lockBarrierLast" => isQuayADTFree'
  BY <1>1, <1>5
<1>10. barrierHeadIdx' = g * NumOfCranes /\ barrierHeadIdx' <= barrierTaillIdx' + 1
  BY <1>1, <1>5
<1> QED BY <1>1, <1>2, <1>6, <1>7, <1>8, <1>9, <1>10 DEF Group

\* A vessel that moves about before its turn, on its way to a crane or after it.
LEMMA GroupWalks ==
  ASSUME IInv, NEW g \in 0 .. VesselsPerCrane, Group(g),
         NEW v \in Vessels, NEW l \in Labels, Goto(v, l),
         UNCHANGED <<slot, barrierHeadIdx, barrierTaillIdx, isQuayADTFree, served, cranesOut, cranesVessleIDs>>,
         \/ /\ pc[v] \in {"atSea", "lockAdt", "lockBarrier"}
            /\ l \in {"lockAdt", "lockBarrier", "queueUp"}
         \/ pc[v] \in {"waitTurn", "leaveBarrier", "countOut"} /\ l \in {"leaveBarrier", "countOut", "settle"}
         \/ pc[v] = "wakeCrane" /\ l = "waitUnload"
         \/ pc[v] = "sailBack" /\ l = "gone"
  PROVE  Group(g)'
<1>1. pc'[v] = l /\ \A w \in Vessels \ {v} : pc'[w] = pc[w]
  BY Moved DEF IInv
<1>2. UNCHANGED AtCrane /\ UNCHANGED Occupied
  BY <1>1 DEF AtCrane, Occupied
<1>3. UNCHANGED Unsettled
  BY <1>1 DEF Unsettled
<1>4. \A i \in Occupied : Unloaded(i)' <=> Unloaded(i)
  <2>1. \A w \in Vessels : pc'[w] = "leaveCrane" <=> pc[w] = "leaveCrane"
    BY <1>1
  <2>2. \A i \in Occupied : cranesVessleIDs[i] \in Vessels
    BY DEF IInv, QuayInv, Occupied
  <2> QED BY <2>1, <2>2 DEF Unloaded, Done
<1>5. \A w \in Vessels : pc'[w] = "lockBarrierLast" => pc[w] = "lockBarrierLast"
  BY <1>1
<1>6. barrierTaillIdx \in Int /\ barrierTaillIdx' \in Int /\ barrierTaillIdx <= barrierTaillIdx'
  BY DEF IInv, BarrierInv
<1> QED BY <1>2, <1>3, <1>4, <1>5, <1>6, Sizes, GroupUndisturbed

\* A crane at work, or the main thread.
LEMMA GroupRests ==
  ASSUME IInv, NEW g \in 0 .. VesselsPerCrane, Group(g),
         UNCHANGED <<pc, slot, barrierHeadIdx, barrierTaillIdx, isQuayADTFree, cranesVessleIDs, served>>,
         \A i \in CraneIdx : Done(i)' <=> Done(i)
  PROVE  Group(g)'
<1>1. UNCHANGED AtCrane /\ UNCHANGED Occupied /\ UNCHANGED Unsettled
  BY DEF AtCrane, Occupied, Unsettled
<1>2. \A i \in Occupied : Unloaded(i)' <=> Unloaded(i)
  BY DEF Unloaded, Occupied
<1>3. barrierTaillIdx \in Int /\ barrierTaillIdx' \in Int /\ barrierTaillIdx <= barrierTaillIdx'
  BY DEF IInv, BarrierInv
<1> QED BY <1>1, <1>2, <1>3, Sizes, GroupUndisturbed

\* The end of a job: the vessel is unloaded, and the crane has served one more.
LEMMA GroupWorks ==
  ASSUME IInv, NEW g \in 0 .. VesselsPerCrane, Group(g), Running,
         NEW i \in CraneIdx, FinishJob(i), port' # "semaphore"
  PROVE  UNCHANGED port /\ Group(g)'
<1>1. /\ UNCHANGED <<pc, slot, barrierHeadIdx, barrierTaillIdx, isQuayADTFree, cranesVessleIDs, port>>
      /\ cranesOut' = [cranesOut EXCEPT ![i] = 1] /\ served' = [served EXCEPT ![i] = served[i] + 1]
      /\ InWork(i)
  BY DEF FinishJob, barrierVars, releaseVars, quayVars, InWork
<1>2. UNCHANGED AtCrane /\ UNCHANGED Occupied /\ UNCHANGED Unsettled /\ UNCHANGED Free
  BY <1>1 DEF AtCrane, Occupied, Unsettled, Free
<1>3. Waits(i) /\ ~Done(i)
  BY <1>1 DEF IInv, TokenInv
<1>4. i \in Occupied /\ i \notin Free /\ ~Unloaded(i) /\ Unloaded(i)'
  BY <1>1, <1>3 DEF Waits, Occupied, Free, Unloaded, Done, IInv, StartInv
<1>5. served[i] = g - 1 /\ served'[i] = g /\ \A j \in CraneIdx \ {i} : served'[j] = served[j]
  BY <1>1, <1>4, Sizes DEF Group, IInv, ServiceInv
<1>6. \A j \in Occupied \ {i} : Unloaded(j)' <=> Unloaded(j)
  BY <1>1 DEF Unloaded, Done, Occupied, IInv, StartInv
<1>7. \A j \in Occupied' : served'[j] = IF Unloaded(j)' THEN g ELSE g - 1
  BY <1>2, <1>4, <1>5, <1>6 DEF Group, Occupied
<1>8. \A j \in Free' : served'[j] = IF Unsettled' = {} THEN g ELSE g - 1
  BY <1>2, <1>4, <1>5 DEF Group, Free
<1> QED BY <1>1, <1>2, <1>7, <1>8 DEF Group

\* A vessel that finds itself unloaded.
LEMMA GroupUnloads ==
  ASSUME IInv, NEW g \in 0 .. VesselsPerCrane, Group(g), Running,
         NEW v \in Vessels, WaitUnload(v)
  PROVE  Group(g)'
<1>1. /\ UNCHANGED <<slot, barrierHeadIdx, barrierTaillIdx, isQuayADTFree, cranesVessleIDs, served>>
      /\ pc[v] = "waitUnload" /\ Goto(v, "leaveCrane")
      /\ cranesOut[craneIdx[v]] = 1 /\ cranesOut' = [cranesOut EXCEPT ![craneIdx[v]] = 0]
  BY DEF WaitUnload, barrierVars, releaseVars, quayVars, craneVars
<1>2. pc'[v] = "leaveCrane" /\ \A w \in Vessels \ {v} : pc'[w] = pc[w]
  BY <1>1, Moved DEF IInv, Labels
<1>3. UNCHANGED AtCrane /\ UNCHANGED Occupied /\ UNCHANGED Unsettled
  BY <1>1, <1>2 DEF AtCrane, Occupied, Unsettled
<1>4. PICK i \in CraneIdx : i = craneIdx[v] /\ cranesVessleIDs[i] = v
  BY <1>1 DEF AtCrane, IInv, QuayInv
<1>5. \A j \in Occupied : Unloaded(j)' <=> Unloaded(j)
  <2>1. Unloaded(i)' /\ Unloaded(i)
    BY <1>1, <1>2, <1>4 DEF Unloaded, Done
  <2>2. ASSUME NEW j \in Occupied, j # i PROVE Unloaded(j)' <=> Unloaded(j)
    <3>1. cranesVessleIDs[j] \in Vessels \ {v}
      BY <1>4, <2>2 DEF IInv, QuayInv, Occupied
    <3>2. cranesOut'[j] = cranesOut[j]
      BY <1>1, <1>4, <2>2 DEF IInv, StartInv, Occupied
    <3> QED BY <1>1, <1>2, <3>1, <3>2 DEF Unloaded, Done
  <2> QED BY <2>1, <2>2
<1>6. \A w \in Vessels : pc'[w] = "lockBarrierLast" => pc[w] = "lockBarrierLast"
  BY <1>2
<1>7. barrierTaillIdx \in Int /\ barrierTaillIdx' \in Int /\ barrierTaillIdx <= barrierTaillIdx'
  BY <1>1 DEF IInv, BarrierInv
<1> QED BY <1>1, <1>3, <1>5, <1>6, <1>7, Sizes, GroupUndisturbed

\* A vessel that queues, and may complete a group.
LEMMA GroupQueues ==
  ASSUME IInv, BarrierInv', NEW g \in 0 .. VesselsPerCrane, Group(g), Running,
         NEW v \in Vessels, QueueUp(v)
  PROVE  port' # "overrun" /\ \E h \in 0 .. VesselsPerCrane : Group(h)'
<1> USE Sizes
<1>1. /\ pc[v] = "queueUp" /\ Goto(v, "waitTurn")
      /\ vesselsInBarrier' = vesselsInBarrier + 1 /\ barrierTaillIdx' = barrierTaillIdx + 1
      /\ slot' = [slot EXCEPT ![v] = barrierTaillIdx + 1]
      /\ UNCHANGED <<cranesVessleIDs, cranesOut, served>>
      /\ IF isQuayADTFree /\ vesselsInBarrier + 1 >= NumOfCranes
           THEN ReleaseFromBarrier
           ELSE UNCHANGED <<barrierHeadIdx, isQuayADTFree, port>>
  BY DEF QueueUp, quayVars, craneVars, releaseVars
<1>2. /\ pc'[v] = "waitTurn" /\ \A w \in Vessels \ {v} : pc'[w] = pc[w]
      /\ BeforeQueue' = BeforeQueue \ {v} /\ v \in BeforeQueue
      /\ UNCHANGED AtCrane /\ UNCHANGED Occupied
  BY <1>1, Moved DEF IInv, Labels, BeforeQueue, AtCrane, Occupied
<1>3. Queued' = Queued \union {v} /\ v \notin Queued /\ v \in Vessels
  BY <1>2 DEF Queued
<1>4. slot[v] = -1 /\ slot'[v] = barrierTaillIdx + 1 /\ \A w \in Vessels \ {v} : slot'[w] = slot[w]
  BY <1>1, <1>2 DEF IInv, BarrierInv
<1>5. \A w \in Vessels : pc'[w] # "lockBarrierLast"
  BY <1>1, <1>2 DEF IInv, LocksInv
<1>6. barrierTaillIdx \in Int /\ barrierHeadIdx \in Int /\ barrierHeadIdx <= barrierTaillIdx + 1
  BY DEF IInv, BarrierInv, Group
<1>7. CASE isQuayADTFree /\ vesselsInBarrier + 1 >= NumOfCranes
  <2>1. \A w \in Queued : slot'[w] = slot[w] /\ pc'[w] = pc[w]
    BY <1>2, <1>3, <1>4 DEF Queued
  <2>2. \A w \in Queued' \ Queued : pc'[w] = "waitTurn" /\ barrierHeadIdx <= slot'[w]
    BY <1>2, <1>3, <1>4, <1>6
  <2>3. NumOfCranes <= vesselsInBarrier'
    BY <1>1, <1>7 DEF IInv, BarrierInv, BarrierCount
  <2>4. ReleaseFromBarrier /\ Queued \subseteq Queued'
    BY <1>1, <1>3, <1>7
  <2>5. port' # "overrun" /\ g + 1 \in 0 .. VesselsPerCrane /\ Group(g + 1)'
    BY <1>1, <1>2, <1>5, <1>7, <2>1, <2>2, <2>3, <2>4, GroupReleased
  <2> QED BY <2>5
<1>8. CASE ~(isQuayADTFree /\ vesselsInBarrier + 1 >= NumOfCranes)
  <2>1. UNCHANGED <<barrierHeadIdx, isQuayADTFree, port>>
    BY <1>1, <1>8
  <2>2. UNCHANGED Unsettled
    <3>1. slot[v] \notin 0 .. barrierHeadIdx - 1 /\ slot'[v] \notin 0 .. barrierHeadIdx - 1
      BY <1>4, <1>6
    <3> QED BY <1>2, <1>4, <2>1, <3>1 DEF Unsettled
  <2>3. \A i \in Occupied : Unloaded(i)' <=> Unloaded(i)
    <3>1. \A w \in Vessels : pc'[w] = "leaveCrane" <=> pc[w] = "leaveCrane"
      BY <1>1, <1>2
    <3>2. \A i \in Occupied : cranesVessleIDs[i] \in Vessels
      BY DEF IInv, QuayInv, Occupied
    <3> QED BY <1>1, <3>1, <3>2 DEF Unloaded, Done
  <2>4. barrierTaillIdx' \in Int /\ barrierTaillIdx <= barrierTaillIdx'
    BY <1>1, <1>6
  <2>5. Group(g)'
    BY <1>1, <1>2, <1>5, <1>6, <2>1, <2>2, <2>3, <2>4, GroupUndisturbed
  <2> QED BY <2>1, <2>5 DEF Running, Failed
<1> QED BY <1>7, <1>8

\* The last vessel of a group, which looks for the next one.
LEMMA GroupOpens ==
  ASSUME IInv, BarrierInv', NEW g \in 0 .. VesselsPerCrane, Group(g), Running,
         NEW v \in Vessels, OpenBarrier(v)
  PROVE  port' # "overrun" /\ \E h \in 0 .. VesselsPerCrane : Group(h)'
<1> USE Sizes
<1>1. /\ pc[v] = "lockBarrierLast" /\ Goto(v, "sailBack")
      /\ UNCHANGED <<vesselsInBarrier, barrierTaillIdx, slot, cranesVessleIDs, cranesOut, served>>
      /\ IF vesselsInBarrier >= NumOfCranes
           THEN ReleaseFromBarrier
           ELSE UNCHANGED <<barrierHeadIdx, isQuayADTFree, port>>
  BY DEF OpenBarrier, quayVars, craneVars, releaseVars
<1>2. /\ pc'[v] = "sailBack" /\ \A w \in Vessels \ {v} : pc'[w] = pc[w]
      /\ UNCHANGED BeforeQueue /\ UNCHANGED AtCrane /\ UNCHANGED Occupied
  BY <1>1, Moved DEF IInv, Labels, BeforeQueue, AtCrane, Occupied
<1>3. UNCHANGED Queued /\ isQuayADTFree
  BY <1>1, <1>2 DEF Queued, Group
<1>4. \A w \in Vessels : pc'[w] # "lockBarrierLast"
  BY <1>1, <1>2 DEF IInv, LocksInv
<1>5. CASE vesselsInBarrier >= NumOfCranes
  <2>1. \A w \in Queued : /\ slot'[w] = slot[w]
                          /\ \/ pc'[w] = pc[w]
                             \/ pc[w] = "lockBarrierLast" /\ pc'[w] = "sailBack"
    BY <1>1, <1>2 DEF Queued
  <2>2. NumOfCranes <= vesselsInBarrier' /\ ReleaseFromBarrier
    BY <1>1, <1>5 DEF IInv, BarrierInv, BarrierCount
  <2>3. port' # "overrun" /\ g + 1 \in 0 .. VesselsPerCrane /\ Group(g + 1)'
    BY <1>1, <1>2, <1>3, <1>4, <2>1, <2>2, GroupReleased
  <2> QED BY <2>3
<1>6. CASE ~(vesselsInBarrier >= NumOfCranes)
  <2>1. UNCHANGED <<barrierHeadIdx, isQuayADTFree, port>>
    BY <1>1, <1>6
  <2>2. UNCHANGED Unsettled
    BY <1>1, <1>2, <2>1 DEF Unsettled
  <2>3. \A i \in Occupied : Unloaded(i)' <=> Unloaded(i)
    <3>1. \A w \in Vessels : pc'[w] = "leaveCrane" <=> pc[w] = "leaveCrane"
      BY <1>1, <1>2
    <3>2. \A i \in Occupied : cranesVessleIDs[i] \in Vessels
      BY DEF IInv, QuayInv, Occupied
    <3> QED BY <1>1, <3>1, <3>2 DEF Unloaded, Done
  <2>4. barrierTaillIdx \in Int /\ barrierTaillIdx' \in Int /\ barrierTaillIdx <= barrierTaillIdx'
    BY <1>1 DEF IInv, BarrierInv
  <2>5. Group(g)'
    BY <1>1, <1>2, <1>4, <2>1, <2>2, <2>3, <2>4, GroupUndisturbed
  <2> QED BY <2>1, <2>5 DEF Running, Failed
<1> QED BY <1>5, <1>6

\* A vessel whose crane has ended would have had its job announced to a crane that has
\* done one job for each of g groups, and there are only that many.
LEMMA NobodyStranded ==
  ASSUME IInv, Running, NEW g \in 0 .. VesselsPerCrane, Group(g), NEW v \in Vessels
  PROVE  ~Stranded(v)
<1> SUFFICES ASSUME Stranded(v) PROVE FALSE
  OBVIOUS
<1>1. pc[v] = "waitUnload" /\ cranePc[craneIdx[v]] = "ended" /\ cranesOut[craneIdx[v]] = 0
  BY DEF Stranded
<1>2. PICK i \in CraneIdx : i = craneIdx[v] /\ cranesVessleIDs[i] = v
  BY <1>1 DEF AtCrane, IInv, QuayInv
<1>3. i \in Occupied /\ ~Unloaded(i)
  BY <1>1, <1>2, Sizes DEF Occupied, Unloaded, Done
<1>4. served[i] = g - 1 /\ served[i] = VesselsPerCrane
  BY <1>1, <1>2, <1>3 DEF Group, IInv, ServiceInv
<1> QED BY <1>4, Sizes

LEMMA GroupStep ==
  ASSUME IInv, IInv', Next, ~overtaken', NEW g \in 0 .. VesselsPerCrane, Group(g)
  PROVE  port' \notin {"overfull", "overrun"} /\ \E h \in 0 .. VesselsPerCrane : Group(h)'
<1>1. Running /\ port \notin {"overfull", "overrun"}
  BY DEF Next, Running, Failed
<1>2. ASSUME NEW v \in Vessels, \/ ReceiveVessel(v) \/ LockAdt(v) \/ LockBarrier(v) \/ WaitTurn(v)
                                \/ LockToLeave(v) \/ LeaveBarrier(v) \/ WakeCrane(v) \/ SailBack(v)
      PROVE  Group(g)' /\ port' \notin {"overfull", "overrun"}
  <2>1. port' \notin {"overfull", "overrun"}
    BY <1>1, <1>2 DEF ReceiveVessel, LockAdt, LockBarrier, WaitTurn, LockToLeave, LeaveBarrier, WakeCrane, SailBack
  <2>2. UNCHANGED <<slot, barrierHeadIdx, barrierTaillIdx, isQuayADTFree, served, cranesOut, cranesVessleIDs>>
    BY <1>2 DEF ReceiveVessel, LockAdt, LockBarrier, WaitTurn, LockToLeave, LeaveBarrier, WakeCrane, SailBack,
                barrierVars, releaseVars, quayVars, craneVars
  <2>3. \E l \in Labels :
          /\ Goto(v, l)
          /\ \/ pc[v] \in {"atSea", "lockAdt", "lockBarrier"} /\ l \in {"lockAdt", "lockBarrier", "queueUp"}
             \/ pc[v] \in {"waitTurn", "leaveBarrier", "countOut"} /\ l \in {"leaveBarrier", "countOut", "settle"}
             \/ pc[v] = "wakeCrane" /\ l = "waitUnload"
             \/ pc[v] = "sailBack" /\ l = "gone"
    BY <1>2 DEF ReceiveVessel, LockAdt, LockBarrier, WaitTurn, LockToLeave, LeaveBarrier, WakeCrane, SailBack, Labels
  <2> QED BY <2>1, <2>2, <2>3, GroupWalks
<1>3. ASSUME NEW v \in Vessels, Vessel(v)
      PROVE  port' \notin {"overfull", "overrun"} /\ \E h \in 0 .. VesselsPerCrane : Group(h)'
  <2>1. CASE QueueUp(v)
    <3>1. port' \in {port, "overrun"}
      BY <2>1 DEF QueueUp, ReleaseFromBarrier
    <3> QED BY <1>1, <2>1, <3>1, GroupQueues DEF IInv
  <2>2. CASE OpenBarrier(v)
    <3>1. port' \in {port, "overrun"}
      BY <2>2 DEF OpenBarrier, ReleaseFromBarrier
    <3> QED BY <1>1, <2>2, <3>1, GroupOpens DEF IInv
  <2>3. CASE Settle(v)
    BY <1>1, <2>3, GroupSettles
  <2>4. CASE LeaveCrane(v)
    BY <1>1, <2>4, GroupLeaves DEF IInv
  <2>5. CASE WaitUnload(v)
    BY <1>1, <2>5, GroupUnloads DEF WaitUnload
  <2> QED BY <1>2, <1>3, <2>1, <2>2, <2>3, <2>4, <2>5 DEF Vessel
<1>4. ASSUME NEW i \in CraneIdx, StartCrane(i) \/ CreateSemaphores(i) \/ TakeJob(i) \/ PhantomJob(i)
      PROVE  Group(g)' /\ port' \notin {"overfull", "overrun"}
  <2>1. port' \notin {"overfull", "overrun"}
    BY <1>1, <1>4 DEF StartCrane, CreateSemaphores, TakeJob, PhantomJob
  <2>2. UNCHANGED <<pc, slot, barrierHeadIdx, barrierTaillIdx, isQuayADTFree, cranesVessleIDs, served>>
    BY <1>4 DEF StartCrane, CreateSemaphores, TakeJob, PhantomJob, barrierVars, releaseVars, quayVars, craneVars
  <2>3. \A j \in CraneIdx : Done(j)' <=> Done(j)
    BY <1>4 DEF StartCrane, CreateSemaphores, TakeJob, PhantomJob, Done, IInv, StartInv, Null
  <2> QED BY <2>1, <2>2, <2>3, GroupRests
<1>5. ASSUME NEW i \in CraneIdx, FinishJob(i) PROVE Group(g)' /\ port' \notin {"overfull", "overrun"}
  BY <1>1, <1>5, GroupWorks DEF IInv, TokenInv
<1>6. CASE JoinVessels \/ JoinCranes
  <2>1. /\ UNCHANGED <<pc, slot, barrierHeadIdx, barrierTaillIdx, isQuayADTFree, cranesVessleIDs, served>>
        /\ UNCHANGED cranesOut /\ port' \notin {"overfull", "overrun"}
    BY <1>6 DEF JoinVessels, JoinCranes, barrierVars, releaseVars, quayVars, craneVars
  <2> QED BY <2>1, GroupRests DEF Done
<1> QED BY <1>2, <1>3, <1>4, <1>5, <1>6 DEF Next, Crane

LEMMA InitGroup == Init => GroupInv
<1> SUFFICES ASSUME Init PROVE GroupInv
  OBVIOUS
<1> USE Sizes DEF Init
<1>1. Occupied = {} /\ AtCrane = {} /\ Unsettled = {}
  BY DEF Occupied, AtCrane, Unsettled
<1>2. barrierHeadIdx = 0 * NumOfCranes /\ barrierHeadIdx <= barrierTaillIdx + 1
  OBVIOUS
<1>3. \A i \in Free : served[i] = 0
  BY DEF Free
<1>4. \A v \in Vessels : pc[v] = "lockBarrierLast" => isQuayADTFree
  OBVIOUS
<1>5. Group(0)
  BY <1>1, <1>2, <1>3, <1>4 DEF Group
<1>6. 0 \in 0 .. VesselsPerCrane /\ Running
  BY DEF Running, Failed
<1> QED BY <1>5, <1>6 DEF GroupInv

\* Who was overtaken stays overtaken.
LEMMA Overtaking == Next => (overtaken => overtaken')
<1>1. ASSUME NEW v \in Vessels, ReceiveVessel(v) \/ Vessel(v) PROVE overtaken => overtaken'
  BY <1>1 DEF ReceiveVessel, Vessel, LockAdt, LockBarrier, QueueUp, WaitTurn, LockToLeave, LeaveBarrier, Settle,
              WakeCrane, WaitUnload, LeaveCrane, OpenBarrier, SailBack, ReleaseFromBarrier, releaseVars
<1>2. ASSUME NEW i \in CraneIdx, StartCrane(i) \/ CreateSemaphores(i) \/ Crane(i)
      PROVE  overtaken => overtaken'
  BY <1>2 DEF StartCrane, CreateSemaphores, Crane, TakeJob, PhantomJob, FinishJob, releaseVars
<1>3. JoinVessels \/ JoinCranes => UNCHANGED overtaken
  BY DEF JoinVessels, JoinCranes, releaseVars
<1> QED BY <1>1, <1>2, <1>3 DEF Next

\* A step that fails the process can only be a job for no vessel, which leaves every
\* vessel where it was.
LEMMA GroupInvStep == IInv /\ IInv' /\ GroupInv /\ [Next]_vars => GroupInv'
<1> SUFFICES ASSUME IInv, IInv', GroupInv, [Next]_vars, ~overtaken' PROVE GroupInv'
  BY DEF GroupInv
<1>1. CASE UNCHANGED vars
  <2>1. /\ UNCHANGED <<pc, slot, craneIdx, barrierTaillIdx, barrierHeadIdx, isQuayADTFree, overtaken>>
        /\ UNCHANGED <<cranesVessleIDs, cranesOut, cranePc, served, port>>
    BY <1>1 DEF vars, barrierVars, releaseVars, quayVars, craneVars
  <2>2. \A v \in Vessels : Stranded(v)' <=> Stranded(v)
    BY <2>1 DEF Stranded
  <2>3. UNCHANGED <<Occupied, Free, Unsettled, AtCrane, Running>>
    BY <2>1 DEF Occupied, Free, Unsettled, AtCrane, Running
  <2>4. \A i : Unloaded(i)' <=> Unloaded(i)
    BY <2>1 DEF Unloaded, Done
  <2>5. \A g : Group(g) => Group(g)'
    BY <2>1, <2>3, <2>4 DEF Group
  <2> QED BY <2>1, <2>2, <2>3, <2>5 DEF GroupInv
<1>2. CASE Next
  <2>1. Running /\ ~overtaken
    BY <1>2, Overtaking DEF Next, Running
  <2>2. PICK g \in 0 .. VesselsPerCrane : Group(g)
    BY <2>1 DEF GroupInv
  <2>3. port' \notin {"overfull", "overrun"} /\ \E h \in 0 .. VesselsPerCrane : Group(h)'
    BY <1>2, <2>2, GroupStep
  <2>4. ASSUME ~Running' PROVE \A v \in Vessels : ~Stranded(v)'
    <3>1. port' = "phantom" /\ port # "phantom"
      BY <2>1, <2>3, <2>4 DEF Running, Failed, IInv, TokenInv
    <3>2. PICK i \in CraneIdx : PhantomJob(i)
      <4>1. ASSUME NEW v \in Vessels, ReceiveVessel(v) \/ Vessel(v) PROVE FALSE
        BY <3>1, <4>1
        DEF ReceiveVessel, Vessel, LockAdt, LockBarrier, QueueUp, WaitTurn, LockToLeave, LeaveBarrier, Settle,
            WakeCrane, WaitUnload, LeaveCrane, OpenBarrier, SailBack, ReleaseFromBarrier
      <4>2. ASSUME NEW i \in CraneIdx, \/ StartCrane(i) \/ CreateSemaphores(i)
                                        \/ TakeJob(i) \/ FinishJob(i)
            PROVE  FALSE
        BY <3>1, <4>2 DEF StartCrane, CreateSemaphores, TakeJob, FinishJob
      <4>3. ~JoinVessels /\ ~JoinCranes
        BY <3>1 DEF JoinVessels, JoinCranes
      <4> QED BY <1>2, <4>1, <4>2, <4>3 DEF Next, Crane
    <3>3. UNCHANGED <<pc, craneIdx, cranePc, cranesOut>>
      BY <3>2 DEF PhantomJob, craneVars
    <3> QED BY <2>1, <2>2, <3>3, NobodyStranded DEF Stranded
  <2> QED BY <2>3, <2>4 DEF GroupInv
<1> QED BY <1>1, <1>2
-----------------------------------------------------------------------------
(***************************************************************************)
(* The theorems.                                                           *)
(***************************************************************************)
LEMMA Stutter == IInv /\ UNCHANGED vars => IInv'
<1> SUFFICES ASSUME IInv, UNCHANGED vars PROVE IInv'
  OBVIOUS
<1> USE DEF IInv, vars, lockVars, barrierVars, releaseVars, quayVars, craneVars
<1>1. LocksInv'
  BY DEF LocksInv
<1>2. BarrierInv'
  BY DEF BarrierInv, BarrierCount, Queued, BeforeQueue, AtBarrier, Semaphores, Running
<1>3. QuayInv'
  BY DEF QuayInv, Occupied, AtCrane, Running
<1>4. StartInv'
  BY DEF StartInv, Running
<1>5. TokenInv'
  BY DEF TokenInv, Waits, Announced, InWork, Done, Running
<1>6. ServiceInv'
  BY DEF ServiceInv
<1> QED BY <1>1, <1>2, <1>3, <1>4, <1>5, <1>6

\* The invariant of the port: mutexes, barrier, quay, start, tokens and shares.
THEOREM Invariance == Spec => []IInv
<1>1. IInv /\ [Next]_vars => IInv'
  BY Stutter, LocksStep, BarrierStep, QuayStep, StartStep, TokenStep, ServiceStep DEF IInv
<1> QED BY InitIInv, <1>1, PTL DEF Spec

\* Every counter of the port stays within the arrays it indexes, but for the head of
\* the queue, which releaseFromBarrier can move one group too far.
THEOREM TypeCorrect == Spec => []TypeOK
<1>1. IInv => TypeOK
  <2> SUFFICES ASSUME IInv PROVE TypeOK
    OBVIOUS
  <2> USE Sizes DEF IInv
  <2>1. vesselsInBarrier \in 0 .. NumOfVessels
    <3>1. AtBarrier \in SUBSET Vessels
      BY DEF AtBarrier
    <3>2. Cardinality(AtBarrier) \in Nat /\ Cardinality(AtBarrier) <= NumOfVessels
      BY <3>1, FS_Subset, FS_CardinalityType DEF NumOfVessels
    <3> QED BY <3>2 DEF BarrierInv, BarrierCount
  <2>2. cranesWithVessels \in 0 .. NumOfCranes
    <3>1. Occupied \in SUBSET CraneIdx
      BY DEF Occupied
    <3>2. Cardinality(Occupied) \in Nat /\ Cardinality(Occupied) <= NumOfCranes
      BY <3>1, FS_Subset, FS_CardinalityType
    <3> QED BY <3>2 DEF QuayInv
  <2> QED BY <2>1, <2>2 DEF TypeOK, LocksInv, BarrierInv, QuayInv, StartInv, ServiceInv
<1> QED BY <1>1, Invariance, PTL

\* vesselsInBarrier counts the vessels between enterToBarrier's ++ and the -- that
\* follows the wait, whatever the vessels of the other groups do.
THEOREM BarrierCounts == Spec => []BarrierCount
<1>1. IInv => BarrierCount
  BY DEF IInv, BarrierInv
<1> QED BY <1>1, Invariance, PTL

\* The two mutexes of the barrier are taken in one order.
THEOREM LockOrder == Spec => []LocksOrdered
<1>1. IInv => LocksOrdered
  BY Sizes DEF IInv, LocksInv, LocksOrdered, WaitsForAdt, WaitsForBarrier
<1> QED BY <1>1, Invariance, PTL

\* The barrier lets the vessels go in the order they came, and loses no release.
THEOREM BarrierIsFifo == Spec => []FifoBarrier
<1>1. IInv => FifoBarrier
  <2> SUFFICES ASSUME IInv PROVE FifoBarrier
    OBVIOUS
  <2> USE Sizes DEF IInv, BarrierInv
  <2>1. \A v \in Vessels : v \notin BeforeQueue <=> slot[v] \in 0 .. barrierTaillIdx
    OBVIOUS
  <2>2. ASSUME Running, NEW v \in Vessels \ BeforeQueue, pc[v] = "waitTurn"
        PROVE  barrierQueue[slot[v]] = 1 <=> slot[v] < barrierHeadIdx
    <3>1. slot[v] \in Slots /\ slot[v] # -1
      BY DEF Slots
    <3>2. \A w \in Vessels : slot[w] = slot[v] => pc[w] = "waitTurn"
      BY <2>2, <3>1
    <3> QED BY <2>2, <3>1, <3>2 DEF Semaphores
  <2>3. ASSUME Running, NEW v \in Vessels \ BeforeQueue, pc[v] # "waitTurn"
        PROVE  slot[v] < barrierHeadIdx
    BY <2>3 DEF Queued
  <2> QED BY <2>1, <2>2, <2>3 DEF FifoBarrier
<1> QED BY <1>1, Invariance, PTL

\* enterUnloadingQuay and leaveQuay keep the table of the cranes: one vessel to a
\* crane, and the count that decides who is the last to leave.
THEOREM CranesAreExclusive == Spec => []CraneExclusive
<1>1. IInv => CraneExclusive
  BY DEF IInv, QuayInv, CraneExclusive, Occupied
<1> QED BY <1>1, Invariance, PTL

\* The two semaphores of a crane carry one token, and no release of them fails.
THEOREM JobsAreHandedOver == Spec => []JobHandover
<1>1. IInv => JobHandover
  <2> SUFFICES ASSUME IInv PROVE JobHandover
    OBVIOUS
  <2> USE DEF IInv
  <2>1. ASSUME Running, NEW i \in CraneIdx
        PROVE  (\E v \in Vessels : pc[v] = "waitUnload" /\ craneIdx[v] = i) <=> Waits(i)
    <3>1. ASSUME NEW v \in Vessels, pc[v] = "waitUnload", craneIdx[v] = i PROVE Waits(i)
      <4>1. cranesVessleIDs[i] = v
        BY <2>1, <3>1 DEF QuayInv, AtCrane
      <4> QED BY <3>1, <4>1, Sizes DEF Waits
    <3>2. ASSUME Waits(i) PROVE \E v \in Vessels : pc[v] = "waitUnload" /\ craneIdx[v] = i
      <4>1. cranesVessleIDs[i] \in AtCrane /\ craneIdx[cranesVessleIDs[i]] = i
        BY <2>1, <3>2 DEF Waits, QuayInv, Occupied
      <4> QED BY <3>2, <4>1 DEF Waits, AtCrane
    <3> QED BY <3>1, <3>2
  <2> QED BY <2>1 DEF JobHandover, TokenInv, Announced, InWork, Done
<1> QED BY <1>1, Invariance, PTL

\* As long as nobody is overtaken the vessels pass in groups, each group over all the
\* cranes.
THEOREM Groups == Spec => []GroupInv
<1>1. IInv /\ IInv' /\ GroupInv /\ [Next]_vars => GroupInv'
  BY GroupInvStep
<1> QED BY InitGroup, <1>1, Invariance, PTL DEF Spec

\* In groups every vessel finds a crane, and one that has not used up its share.
THEOREM GroupsAreSound == Spec => []SoundUnlessOvertaken
<1>1. IInv /\ GroupInv => SoundUnlessOvertaken
  <2> SUFFICES ASSUME IInv, GroupInv, ~overtaken
               PROVE  port \notin {"overfull", "overrun"} /\ \A v \in Vessels : ~Stranded(v)
    BY DEF SoundUnlessOvertaken
  <2>1. CASE Running
    <3>1. port \notin {"overfull", "overrun"}
      BY <2>1 DEF Running, Failed
    <3>2. PICK g \in 0 .. VesselsPerCrane : Group(g)
      BY <2>1 DEF GroupInv
    <3>3. \A v \in Vessels : ~Stranded(v)
      BY <2>1, <3>2, NobodyStranded
    <3> QED BY <3>1, <3>3
  <2>2. CASE ~Running
    BY <2>2 DEF GroupInv
  <2> QED BY <2>1, <2>2
<1> QED BY <1>1, Groups, Invariance, PTL
-----------------------------------------------------------------------------
(***************************************************************************)
(* The port goes on.  A halt is excluded by what the last vessel of a      *)
(* group leaves behind: a quay that is open has no group to let in, and a  *)
(* quay that is closed has a vessel at a crane or on its way to one.       *)
(***************************************************************************)

\* An open quay, once its last vessel has looked at the barrier, finds less than a
\* group there.
OpenQuay == isQuayADTFree /\ (\A v \in Vessels : pc[v] # "lockBarrierLast")
              => vesselsInBarrier < NumOfCranes

\* A closed quay was closed for vessels that have not all left it.
ClosedQuay == Running /\ ~overtaken /\ ~isQuayADTFree => Unsettled # {} \/ Occupied # {}

\* The main thread: the crane it starts next, and the vessels it still expects.
MainInv ==
  /\ port = "starting" =>
       \E i \in CraneIdx : cranesIn[i] = Null /\ \A j \in 0 .. i - 1 : cranesIn[j] # Null
  /\ \A i \in CraneIdx : cranePc[i] = "none" => cranesIn[i] = Null
  /\ port = "receiving" => \E v \in Vessels : pc[v] = "atSea"
  /\ port \in {"joinVessels", "joinCranes", "exited"} => \A v \in Vessels : pc[v] # "atSea"

LEMMA InitGoing == Init => OpenQuay /\ ClosedQuay /\ MainInv
<1> SUFFICES ASSUME Init PROVE OpenQuay /\ ClosedQuay /\ MainInv
  OBVIOUS
<1> USE Sizes DEF Init
<1>1. OpenQuay /\ ClosedQuay
  BY DEF OpenQuay, ClosedQuay
<1>2. 0 \in CraneIdx /\ cranesIn[0] = Null /\ \A j \in 0 .. 0 - 1 : cranesIn[j] # Null
  BY DEF CraneIdx
<1>3. MainInv
  BY <1>2 DEF MainInv
<1> QED BY <1>1, <1>3

LEMMA OpenQuayStep == IInv /\ OpenQuay /\ Next => OpenQuay'
<1> SUFFICES ASSUME IInv, OpenQuay, Next PROVE OpenQuay'
  OBVIOUS
<1> USE Sizes
<1>0. vesselsInBarrier \in Int
  BY FS_CardinalityType, FS_Subset DEF IInv, BarrierInv, BarrierCount, AtBarrier
<1>1. ASSUME NEW v \in Vessels, NEW l \in Labels, Goto(v, l), pc[v] # "lockBarrierLast",
             UNCHANGED isQuayADTFree, vesselsInBarrier' \in {vesselsInBarrier, vesselsInBarrier - 1}
      PROVE  OpenQuay'
  <2>1. \A w \in Vessels : pc[w] = "lockBarrierLast" => pc'[w] = "lockBarrierLast"
    BY <1>1, Moved DEF IInv
  <2> QED BY <1>0, <1>1, <2>1 DEF OpenQuay
<1>2. ASSUME NEW v \in Vessels, QueueUp(v) PROVE OpenQuay'
  <2>1. CASE isQuayADTFree /\ vesselsInBarrier + 1 >= NumOfCranes
    BY <1>2, <2>1 DEF QueueUp, ReleaseFromBarrier, OpenQuay
  <2>2. CASE ~(isQuayADTFree /\ vesselsInBarrier + 1 >= NumOfCranes)
    <3>1. UNCHANGED isQuayADTFree /\ vesselsInBarrier' = vesselsInBarrier + 1
      BY <1>2, <2>2 DEF QueueUp, releaseVars
    <3>2. isQuayADTFree => vesselsInBarrier + 1 < NumOfCranes
      BY <1>0, <2>2
    <3> QED BY <3>1, <3>2 DEF OpenQuay
  <2> QED BY <2>1, <2>2
<1>3. ASSUME NEW v \in Vessels, LeaveCrane(v) PROVE OpenQuay'
  <2>1. CASE cranesWithVessels = 1
    <3>1. pc'[v] = "lockBarrierLast"
      BY <1>3, <2>1, Moved DEF LeaveCrane, IInv, Labels
    <3> QED BY <3>1 DEF OpenQuay
  <2>2. CASE cranesWithVessels # 1
    BY <1>1, <1>3, <2>2 DEF LeaveCrane, barrierVars, Labels
  <2> QED BY <2>1, <2>2
<1>4. ASSUME NEW v \in Vessels, OpenBarrier(v) PROVE OpenQuay'
  <2>1. CASE vesselsInBarrier >= NumOfCranes
    BY <1>4, <2>1 DEF OpenBarrier, ReleaseFromBarrier, OpenQuay
  <2>2. CASE ~(vesselsInBarrier >= NumOfCranes)
    BY <1>0, <1>4, <2>2 DEF OpenBarrier, OpenQuay
  <2> QED BY <2>1, <2>2
<1>5. ASSUME NEW v \in Vessels, ReceiveVessel(v) \/ Vessel(v) PROVE OpenQuay'
  <2> USE DEF Labels, barrierVars, releaseVars
  <2>1. CASE ReceiveVessel(v)
    BY <1>1, <2>1 DEF ReceiveVessel
  <2>2. CASE LockAdt(v)
    BY <1>1, <2>2 DEF LockAdt
  <2>3. CASE LockBarrier(v)
    BY <1>1, <2>3 DEF LockBarrier
  <2>4. CASE WaitTurn(v)
    BY <1>1, <2>4 DEF WaitTurn
  <2>5. CASE LeaveBarrier(v)
    BY <1>1, <2>5 DEF LeaveBarrier
  <2>6. CASE Settle(v)
    BY <1>1, <2>6 DEF Settle
  <2>7. CASE WakeCrane(v)
    BY <1>1, <2>7 DEF WakeCrane
  <2>8. CASE WaitUnload(v)
    BY <1>1, <2>8 DEF WaitUnload
  <2>9. CASE SailBack(v)
    BY <1>1, <2>9 DEF SailBack
  <2>10. CASE LockToLeave(v)
    BY <1>1, <2>10 DEF LockToLeave
  <2> QED BY <1>2, <1>3, <1>4, <1>5, <2>1, <2>2, <2>3, <2>4, <2>5, <2>6, <2>7, <2>8, <2>9, <2>10
          DEF Vessel
<1>6. ASSUME NEW i \in CraneIdx, StartCrane(i) \/ CreateSemaphores(i) \/ Crane(i)
      PROVE  OpenQuay'
  BY <1>6 DEF StartCrane, CreateSemaphores, Crane, TakeJob, PhantomJob, FinishJob,
              barrierVars, releaseVars, OpenQuay
<1>7. CASE JoinVessels \/ JoinCranes
  BY <1>7 DEF JoinVessels, JoinCranes, barrierVars, releaseVars, OpenQuay
<1> QED BY <1>5, <1>6, <1>7 DEF Next

LEMMA MainStep == IInv /\ MainInv /\ Next => MainInv'
<1> SUFFICES ASSUME IInv, MainInv, Next PROVE MainInv'
  OBVIOUS
<1> USE Sizes
<1>0. /\ pc \in [Vessels -> Labels] /\ cranesIn \in [CraneIdx -> {Null, 0, 1}]
      /\ cranePc \in [CraneIdx -> {"none", "waitJob", "unload", "ended"}]
      /\ port = "starting" => \A v \in Vessels : pc[v] = "atSea"
  BY DEF IInv, LocksInv, StartInv
<1>1. ASSUME NEW v \in Vessels, NEW l \in Labels \ {"atSea"}, Goto(v, l), pc[v] # "atSea",
             \A i \in CraneIdx : cranesIn'[i] = Null <=> cranesIn[i] = Null,
             UNCHANGED cranePc, port' \in {port} \union Failed
      PROVE  MainInv'
  <2>1. \A w \in Vessels : pc'[w] = "atSea" <=> pc[w] = "atSea"
    BY <1>1, Moved DEF IInv
  <2>2. port # "starting" /\ port' # "starting"
    BY <1>0, <1>1 DEF Failed
  <2> QED BY <1>1, <2>1, <2>2 DEF MainInv, Failed
<1>2. ASSUME NEW v \in Vessels, ReceiveVessel(v) PROVE MainInv'
  <2>1. /\ port = "receiving" /\ Goto(v, "lockAdt") /\ UNCHANGED <<cranesIn, cranePc>>
        /\ port' = IF \A w \in Vessels \ {v} : pc[w] # "atSea" THEN "joinVessels" ELSE port
    BY <1>2 DEF ReceiveVessel, craneVars
  <2>2. pc'[v] = "lockAdt" /\ \A w \in Vessels \ {v} : pc'[w] = pc[w]
    BY <1>0, <2>1 DEF Goto
  <2> QED BY <2>1, <2>2 DEF MainInv
<1>3. ASSUME NEW v \in Vessels, Vessel(v) PROVE MainInv'
  <2> USE DEF Labels, Failed, craneVars
  <2>1. CASE LockAdt(v)
    BY <1>1, <2>1 DEF LockAdt
  <2>2. CASE LockBarrier(v)
    BY <1>1, <2>2 DEF LockBarrier
  <2>3. CASE QueueUp(v)
    BY <1>1, <2>3 DEF QueueUp, ReleaseFromBarrier
  <2>4. CASE WaitTurn(v)
    BY <1>1, <2>4 DEF WaitTurn
  <2>5. CASE LeaveBarrier(v)
    BY <1>1, <2>5 DEF LeaveBarrier
  <2>6. CASE Settle(v)
    BY <1>1, <2>6 DEF Settle
  <2>7. CASE WakeCrane(v)
    <3>1. \A i \in CraneIdx : cranesIn'[i] = Null <=> cranesIn[i] = Null
      BY <1>0, <2>7 DEF WakeCrane, Null
    <3> QED BY <1>1, <2>7, <3>1 DEF WakeCrane
  <2>8. CASE WaitUnload(v)
    BY <1>1, <2>8 DEF WaitUnload
  <2>9. CASE LeaveCrane(v)
    BY <1>1, <2>9 DEF LeaveCrane
  <2>10. CASE OpenBarrier(v)
    BY <1>1, <2>10 DEF OpenBarrier, ReleaseFromBarrier
  <2>11. CASE SailBack(v)
    BY <1>1, <2>11 DEF SailBack
  <2>12. CASE LockToLeave(v)
    BY <1>1, <2>12 DEF LockToLeave
  <2> QED BY <1>3, <2>1, <2>2, <2>3, <2>4, <2>5, <2>6, <2>7, <2>8, <2>9, <2>10, <2>11, <2>12
          DEF Vessel
<1>4. ASSUME NEW i \in CraneIdx, StartCrane(i) PROVE MainInv'
  BY <1>0, <1>4 DEF StartCrane, MainInv
<1>5. ASSUME NEW i \in CraneIdx, CreateSemaphores(i) PROVE MainInv'
  <2>1. /\ port = "starting" /\ cranePc[i] # "none" /\ cranesIn[i] = Null
        /\ cranesIn' = [cranesIn EXCEPT ![i] = 0] /\ UNCHANGED <<pc, cranePc>>
        /\ port' = IF i = NumOfCranes - 1 THEN "receiving" ELSE port
    BY <1>5 DEF CreateSemaphores, craneVars
  <2>2. cranesIn'[i] # Null /\ \A j \in CraneIdx \ {i} : cranesIn'[j] = cranesIn[j]
    BY <1>0, <2>1 DEF Null
  <2>3. \A j \in 0 .. i - 1 : cranesIn[j] # Null
    BY <2>1 DEF IInv, StartInv
  <2>4. ASSUME port' = "starting"
        PROVE  \E k \in CraneIdx : cranesIn'[k] = Null /\ \A j \in 0 .. k - 1 : cranesIn'[j] # Null
    <3>1. i + 1 \in CraneIdx /\ i \in 0 .. (i + 1) - 1 /\ i + 1 # i
      BY <2>1, <2>4 DEF CraneIdx
    <3>2. cranePc[i + 1] = "none"
      BY <2>1, <3>1 DEF IInv, StartInv
    <3>3. cranesIn'[i + 1] = Null
      BY <2>2, <3>1, <3>2 DEF MainInv
    <3>4. \A j \in 0 .. (i + 1) - 1 : j \in CraneIdx /\ (j = i \/ j \in 0 .. i - 1)
      BY <3>1 DEF CraneIdx
    <3>5. \A j \in 0 .. (i + 1) - 1 : cranesIn'[j] # Null
      BY <2>2, <2>3, <3>4
    <3> QED BY <3>1, <3>3, <3>5
  <2>5. \A j \in CraneIdx : cranePc'[j] = "none" => cranesIn'[j] = Null
    BY <2>1, <2>2 DEF MainInv
  <2>6. Vessels # {}
    BY FS_EmptySet DEF NumOfVessels
  <2>7. \E v \in Vessels : pc'[v] = "atSea"
    BY <1>0, <2>1, <2>6
  <2> QED BY <2>1, <2>4, <2>5, <2>7 DEF MainInv
<1>6. ASSUME NEW i \in CraneIdx, Crane(i) PROVE MainInv'
  <2>1. \A j \in CraneIdx : cranesIn'[j] = Null <=> cranesIn[j] = Null
    BY <1>0, <1>6 DEF Crane, TakeJob, PhantomJob, FinishJob, Null
  <2>2. \A j \in CraneIdx : cranePc'[j] = "none" => cranePc[j] = "none"
    BY <1>0, <1>6 DEF Crane, TakeJob, PhantomJob, FinishJob, craneVars
  <2>3. UNCHANGED pc /\ port' \in {port} \union Failed
    BY <1>6 DEF Crane, TakeJob, PhantomJob, FinishJob, Failed
  <2>4. \A k \in CraneIdx : \A j \in 0 .. k - 1 : j \in CraneIdx
    BY DEF CraneIdx
  <2> QED BY <2>1, <2>2, <2>3, <2>4 DEF MainInv, Failed
<1>7. CASE JoinVessels \/ JoinCranes
  BY <1>7 DEF JoinVessels, JoinCranes, craneVars, MainInv
<1> QED BY <1>2, <1>3, <1>4, <1>5, <1>6, <1>7 DEF Next

\* A release closes the quay for a group that has not unloaded: had it settled nobody
\* and occupied no crane, the shares would not have moved, but the head of the queue has.
LEMMA ReleaseCloses ==
  ASSUME IInv, IInv', NEW g \in 0 .. VesselsPerCrane, Group(g),
         NEW h \in 0 .. VesselsPerCrane, Group(h)', Running,
         ReleaseFromBarrier, UNCHANGED served, isQuayADTFree
  PROVE  Unsettled' # {} \/ Occupied' # {}
<1> SUFFICES ASSUME Unsettled' = {}, Occupied' = {} PROVE FALSE
  OBVIOUS
<1> USE Sizes
<1>1. 0 \in CraneIdx
  BY DEF CraneIdx
<1>2. Occupied = {} /\ Unsettled = {}
  BY DEF Group, IInv, QuayInv
<1>3. served[0] = g /\ served'[0] = h
  BY <1>1, <1>2 DEF Group, Free
<1>4. barrierHeadIdx' = barrierHeadIdx
  BY <1>3 DEF Group
<1> QED BY <1>4 DEF ReleaseFromBarrier, IInv, BarrierInv

LEMMA ClosedQuayStep ==
  IInv /\ IInv' /\ GroupInv /\ GroupInv' /\ ClosedQuay /\ Next => ClosedQuay'
<1> SUFFICES ASSUME IInv, IInv', GroupInv, GroupInv', ClosedQuay, Next,
                    Running', ~overtaken', ~isQuayADTFree'
             PROVE  Unsettled' # {} \/ Occupied' # {}
  BY DEF ClosedQuay
<1> USE Sizes
<1>0. Running /\ ~overtaken
  BY Overtaking DEF Next, Running
<1>1. PICK g \in 0 .. VesselsPerCrane : Group(g)
  BY <1>0 DEF GroupInv
<1>2. PICK h \in 0 .. VesselsPerCrane : Group(h)'
  BY DEF GroupInv
<1>3. ASSUME UNCHANGED isQuayADTFree, Unsettled \subseteq Unsettled', UNCHANGED cranesVessleIDs
      PROVE  Unsettled' # {} \/ Occupied' # {}
  <2>1. UNCHANGED Occupied
    BY <1>3 DEF Occupied
  <2> QED BY <1>0, <1>3, <2>1 DEF ClosedQuay
<1>4. ASSUME NEW v \in Vessels, NEW l \in Labels, Goto(v, l),
             pc[v] \notin {"waitTurn", "leaveBarrier", "countOut", "settle"} \/ l \in {"leaveBarrier", "countOut", "settle"},
             UNCHANGED <<slot, barrierHeadIdx, isQuayADTFree, cranesVessleIDs>>
      PROVE  Unsettled' # {} \/ Occupied' # {}
  <2>1. pc'[v] = l /\ \A w \in Vessels \ {v} : pc'[w] = pc[w]
    BY <1>4, Moved DEF IInv
  <2>2. Unsettled \subseteq Unsettled'
    BY <1>4, <2>1 DEF Unsettled
  <2> QED BY <1>3, <1>4, <2>2
<1>5. ASSUME NEW v \in Vessels, QueueUp(v) PROVE Unsettled' # {} \/ Occupied' # {}
  <2>1. CASE isQuayADTFree /\ vesselsInBarrier + 1 >= NumOfCranes
    BY <1>0, <1>1, <1>2, <1>5, <2>1, ReleaseCloses DEF QueueUp, craneVars
  <2>2. CASE ~(isQuayADTFree /\ vesselsInBarrier + 1 >= NumOfCranes)
    <3>1. /\ pc[v] = "queueUp" /\ Goto(v, "waitTurn")
          /\ slot' = [slot EXCEPT ![v] = barrierTaillIdx + 1]
          /\ UNCHANGED <<barrierHeadIdx, isQuayADTFree, cranesVessleIDs>>
      BY <1>5, <2>2 DEF QueueUp, releaseVars, quayVars
    <3>2. \A w \in Vessels \ {v} : pc'[w] = pc[w] /\ slot'[w] = slot[w]
      BY <3>1 DEF Goto, IInv, LocksInv, BarrierInv
    <3>3. v \notin Unsettled
      BY <3>1 DEF Unsettled
    <3>4. Unsettled \subseteq Unsettled'
      BY <3>1, <3>2, <3>3 DEF Unsettled
    <3> QED BY <1>3, <3>1, <3>4
  <2> QED BY <2>1, <2>2
<1>6. ASSUME NEW v \in Vessels, OpenBarrier(v) PROVE Unsettled' # {} \/ Occupied' # {}
  <2>1. isQuayADTFree
    BY <1>1, <1>6 DEF Group, OpenBarrier
  <2>2. CASE vesselsInBarrier >= NumOfCranes
    BY <1>0, <1>1, <1>2, <1>6, <2>1, <2>2, ReleaseCloses DEF OpenBarrier, craneVars
  <2>3. CASE ~(vesselsInBarrier >= NumOfCranes)
    BY <1>6, <2>1, <2>3 DEF OpenBarrier, releaseVars
  <2> QED BY <2>2, <2>3
<1>7. ASSUME NEW v \in Vessels, Settle(v) PROVE Occupied' # {}
  <2>1. PICK i \in CraneIdx : cranesVessleIDs' = [cranesVessleIDs EXCEPT ![i] = v]
    BY <1>7 DEF Settle, Running, Failed
  <2>2. cranesVessleIDs'[i] = v /\ v # NoVessel
    BY <2>1 DEF IInv, QuayInv
  <2> QED BY <2>2 DEF Occupied
<1>8. ASSUME NEW v \in Vessels, LeaveCrane(v) PROVE Occupied' # {}
  <2> DEFINE i == craneIdx[v]
  <2>1. /\ pc[v] = "leaveCrane" /\ cranesWithVessels # 1
        /\ cranesVessleIDs' = [cranesVessleIDs EXCEPT ![i] = NoVessel]
    BY <1>8 DEF LeaveCrane
  <2>2. i \in CraneIdx /\ i \in Occupied
    BY <1>0, <2>1 DEF IInv, QuayInv, AtCrane, Occupied
  <2>3. Cardinality(Occupied) # 1
    BY <2>1 DEF IInv, QuayInv
  <2>4. Occupied # {i}
    BY <2>3, FS_Singleton
  <2>5. PICK j \in Occupied : j # i
    BY <2>2, <2>4
  <2>6. cranesVessleIDs'[j] = cranesVessleIDs[j]
    BY <2>1, <2>5 DEF IInv, QuayInv, Occupied
  <2> QED BY <2>5, <2>6 DEF Occupied
<1>9. ASSUME NEW v \in Vessels, ReceiveVessel(v) \/ Vessel(v)
      PROVE  Unsettled' # {} \/ Occupied' # {}
  <2> USE DEF Labels, barrierVars, releaseVars, quayVars
  <2>1. CASE ReceiveVessel(v)
    BY <1>4, <2>1 DEF ReceiveVessel
  <2>2. CASE LockAdt(v)
    BY <1>4, <2>2 DEF LockAdt
  <2>3. CASE LockBarrier(v)
    BY <1>4, <2>3 DEF LockBarrier
  <2>4. CASE WaitTurn(v)
    BY <1>4, <2>4 DEF WaitTurn
  <2>5. CASE LeaveBarrier(v)
    BY <1>4, <2>5 DEF LeaveBarrier
  <2>6. CASE WakeCrane(v)
    BY <1>4, <2>6 DEF WakeCrane
  <2>7. CASE WaitUnload(v)
    BY <1>4, <2>7 DEF WaitUnload
  <2>8. CASE SailBack(v)
    BY <1>4, <2>8 DEF SailBack
  <2>9. CASE LockToLeave(v)
    BY <1>4, <2>9 DEF LockToLeave
  <2> QED BY <1>5, <1>6, <1>7, <1>8, <1>9, <2>1, <2>2, <2>3, <2>4, <2>5, <2>6, <2>7, <2>8, <2>9
          DEF Vessel
<1>10. ASSUME UNCHANGED <<pc, slot, barrierHeadIdx, isQuayADTFree, cranesVessleIDs>>
       PROVE  Unsettled' # {} \/ Occupied' # {}
  BY <1>3, <1>10 DEF Unsettled
<1>11. ASSUME NEW i \in CraneIdx, StartCrane(i) \/ CreateSemaphores(i) \/ Crane(i)
       PROVE  Unsettled' # {} \/ Occupied' # {}
  BY <1>10, <1>11 DEF StartCrane, CreateSemaphores, Crane, TakeJob, PhantomJob, FinishJob,
                      barrierVars, releaseVars, quayVars
<1>12. CASE JoinVessels \/ JoinCranes
  BY <1>10, <1>12 DEF JoinVessels, JoinCranes, barrierVars, releaseVars, quayVars
<1> QED BY <1>9, <1>11, <1>12 DEF Next

\* The invariant of the port that goes on.
GoingInv == IInv /\ GroupInv /\ OpenQuay /\ ClosedQuay /\ MainInv

LEMMA Going == Spec => []GoingInv
<1>1. OpenQuay /\ ClosedQuay /\ MainInv /\ UNCHANGED vars => (OpenQuay /\ ClosedQuay /\ MainInv)'
  BY DEF OpenQuay, ClosedQuay, MainInv, Unsettled, Occupied, Running, vars, lockVars, barrierVars,
         releaseVars, quayVars, craneVars
<1>2. /\ IInv /\ IInv' /\ GroupInv /\ GroupInv' /\ OpenQuay /\ ClosedQuay /\ MainInv
      /\ [Next]_vars
      => (OpenQuay /\ ClosedQuay /\ MainInv)'
  BY <1>1, OpenQuayStep, ClosedQuayStep, MainStep
<1> QED BY <1>2, InitGoing, Invariance, Groups, PTL DEF Spec, GoingInv

\* When no vessel and no crane can go on, nobody holds a mutex, nobody is at a crane or
\* on the way to one, and less than a group is at the barrier, so that its last group
\* has gone through when no more vessels come.
LEMMA Halted ==
  ASSUME GoingInv, Running, ~overtaken,
         \A v \in Vessels : ~VesselCanStep(v), \A i \in CraneIdx : ~CraneCanStep(i),
         port # "starting"
  PROVE  \/ port = "receiving"
         \/ (\A v \in Vessels : pc[v] = "gone") /\ \A i \in CraneIdx : cranePc[i] = "ended"
<1> USE Sizes DEF GoingInv
<1>1. PICK g \in 0 .. VesselsPerCrane : Group(g)
  BY DEF GroupInv
<1>2. barrierMutex = NoVessel
  BY DEF VesselCanStep, IInv, LocksInv
<1>3. mutexAdt = NoVessel
  BY <1>2 DEF VesselCanStep, WaitsForBarrier, IInv, LocksInv
<1>4. \A v \in Vessels : pc[v] \in {"atSea", "waitTurn", "waitUnload", "gone"}
  BY <1>2, <1>3 DEF VesselCanStep, WaitsForAdt, WaitsForBarrier, IInv, LocksInv, Labels
<1>5. \A v \in Vessels : pc[v] # "waitUnload"
  <2> SUFFICES ASSUME NEW v \in Vessels, pc[v] = "waitUnload" PROVE FALSE
    OBVIOUS
  <2>1. PICK i \in CraneIdx : i = craneIdx[v] /\ cranesVessleIDs[i] = v
    BY DEF AtCrane, IInv, QuayInv
  <2>2. Waits(i)
    BY <2>1 DEF Waits
  <2>3. Announced(i) \/ InWork(i) \/ Done(i)
    BY <2>2 DEF IInv, TokenInv
  <2>4. cranesIn[i] = 1 /\ cranesOut[i] # 1
    BY <2>1, <2>3 DEF VesselCanStep, CraneCanStep, Announced, InWork, Done
  <2>5. cranePc[i] = "ended"
    BY <2>4 DEF CraneCanStep, MainInv, IInv, StartInv, Null
  <2>6. cranesOut[i] = 0
    BY <2>4 DEF IInv, StartInv, Null
  <2>7. Stranded(v)
    BY <2>1, <2>5, <2>6 DEF Stranded
  <2> QED BY <1>1, <2>7, NobodyStranded
<1>6. Occupied = {}
  BY <1>4, <1>5 DEF IInv, QuayInv, AtCrane
<1>7. \A v \in Vessels : pc[v] = "waitTurn" => barrierHeadIdx <= slot[v]
  <2> SUFFICES ASSUME NEW v \in Vessels, pc[v] = "waitTurn", ~(barrierHeadIdx <= slot[v]) PROVE FALSE
    OBVIOUS
  <2> USE DEF IInv, BarrierInv
  <2>1. v \notin BeforeQueue
    BY DEF BeforeQueue
  <2>2. slot[v] \in Slots /\ slot[v] # -1 /\ slot[v] < barrierHeadIdx
    BY <2>1 DEF Slots
  <2>3. barrierQueue[slot[v]] = 1
    BY <2>2 DEF Semaphores
  <2> QED BY <2>3 DEF VesselCanStep
<1>8. Unsettled = {}
  <2>1. barrierHeadIdx \in Int /\ slot \in [Vessels -> Int]
    BY DEF IInv, BarrierInv
  <2> QED BY <1>4, <1>7, <2>1 DEF Unsettled
<1>9. vesselsInBarrier < NumOfCranes
  <2>1. isQuayADTFree
    BY <1>6, <1>8 DEF ClosedQuay
  <2> QED BY <1>4, <2>1 DEF OpenQuay
<1> SUFFICES ASSUME port # "receiving"
             PROVE  (\A v \in Vessels : pc[v] = "gone") /\ \A i \in CraneIdx : cranePc[i] = "ended"
  OBVIOUS
<1>10. \A v \in Vessels : pc[v] \in {"waitTurn", "gone"}
  BY <1>4, <1>5 DEF MainInv, Running, IInv, StartInv
<1>11. Cardinality(AtBarrier) = NumOfVessels - barrierHeadIdx
  <2>1. Queued = Vessels
    BY <1>10 DEF Queued, BeforeQueue
  <2>2. barrierTaillIdx + 1 = NumOfVessels /\ barrierHeadIdx \in Nat /\ barrierHeadIdx <= NumOfVessels
    BY <2>1 DEF IInv, BarrierInv, NumOfVessels
  <2>3. \A v \in Vessels : slot[v] \in 0 .. NumOfVessels - 1
    BY <2>1, <2>2 DEF Queued, IInv, BarrierInv
  <2>4. AtBarrier = {v \in Vessels : slot[v] \in barrierHeadIdx .. NumOfVessels - 1}
    <3>1. \A v \in Vessels : pc[v] = "gone" => slot[v] < barrierHeadIdx
      BY <2>1 DEF IInv, BarrierInv
    <3>2. \A v \in Vessels : pc[v] = "waitTurn" <=> slot[v] \in barrierHeadIdx .. NumOfVessels - 1
      BY <1>7, <1>10, <2>2, <2>3, <3>1
    <3> QED BY <1>10, <3>2 DEF AtBarrier
  <2>5. \A v, w \in Vessels : slot[v] = slot[w] => v = w
    BY <2>3 DEF IInv, BarrierInv
  <2> DEFINE f == slot
             n == NumOfVessels
             T == AtBarrier
  <2>6. Cardinality(Vessels) = n
    BY DEF NumOfVessels
  <2> HIDE DEF f, n, T
  <2>7. Cardinality(T) = n - barrierHeadIdx
    BY <2>2, <2>3, <2>4, <2>5, <2>6, Numbered DEF f, n, T
  <2> QED BY <2>7 DEF n, T
<1>12. g = VesselsPerCrane /\ barrierHeadIdx = NumOfVessels
  <2>1. barrierHeadIdx = g * NumOfCranes /\ NumOfVessels < barrierHeadIdx + NumOfCranes
    BY <1>1, <1>9, <1>11 DEF Group, IInv, BarrierInv, BarrierCount
  <2>2. NumOfVessels = VesselsPerCrane * NumOfCranes
    BY PortAssumption DEF VesselsPerCrane
  <2>3. (g + 1) * NumOfCranes = g * NumOfCranes + NumOfCranes
    BY Shares
  <2>4. ASSUME g + 1 <= VesselsPerCrane PROVE (g + 1) * NumOfCranes <= VesselsPerCrane * NumOfCranes
    BY <2>4
  <2>5. g = VesselsPerCrane
    BY <2>1, <2>2, <2>3, <2>4
  <2> QED BY <2>1, <2>2, <2>5
<1>13. \A v \in Vessels : pc[v] = "gone"
  <2>1. AtBarrier = {}
    BY <1>11, <1>12, FS_EmptySet, FS_Subset DEF AtBarrier
  <2> QED BY <1>10, <2>1 DEF AtBarrier
<1>14. \A i \in CraneIdx : cranePc[i] = "ended"
  <2> SUFFICES ASSUME NEW i \in CraneIdx PROVE cranePc[i] = "ended"
    OBVIOUS
  <2>1. served[i] = VesselsPerCrane
    BY <1>1, <1>6, <1>8, <1>12 DEF Group, Free
  <2>2. cranePc[i] # "none"
    BY DEF MainInv, IInv, StartInv
  <2> QED BY <2>1, <2>2 DEF IInv, ServiceInv, StartInv
<1> QED BY <1>13, <1>14

\* As long as nobody is overtaken no set of vessels and cranes waits for each other for
\* ever at the mutexes, the barrier and the cranes, and the main thread is not left
\* waiting for them: the port comes to its end, or waits for a vessel from the sea.
THEOREM PortDoesNotHalt == Spec => []PortGoesOn
<1>1. GoingInv => PortGoesOn
  <2> SUFFICES ASSUME GoingInv, Running, ~overtaken, ~PortCanStep, port # "exited"
               PROVE  port = "receiving" /\ \E v \in Vessels : pc[v] = "atSea"
    BY DEF PortGoesOn
  <2> USE DEF GoingInv
  <2>1. port # "starting"
    BY DEF MainInv, PortCanStep, MainCanStep
  <2>2. port = "receiving"
    BY <2>1, Halted DEF PortCanStep, MainCanStep, Running, IInv, StartInv
  <2> QED BY <2>2 DEF MainInv
<1> QED BY <1>1, Going, PTL
=============================================================================
