----------------------------- MODULE EilatPort -----------------------------
(***************************************************************************)
(* EilatPort.c: the main thread creates a thread for every vessel that     *)
(* arrives from Haifa; a vessel waits at the barrier, unloads at a crane   *)
(* (a thread per crane) and sails back.                                    *)
(*                                                                         *)
(* A step is what a thread does between two waits.  The print mutex is     *)
(* always innermost and left out.  A lock that is taken and released with  *)
(* no wait between is a guard (the mutex is free) and not a step, but for  *)
(* the vessel that was released: it takes barrierMutex to count itself     *)
(* out without mutexAdt, and the order of the locks depends on that.  Init *)
(* is the state at the loop of initStaticVars that starts the cranes.      *)
(* Cargo weights only feed the log.                                        *)
(***************************************************************************)
EXTENDS Integers, FiniteSets, Fleet

CONSTANT NumOfCranes      \* generateNumberOfCranes

NumOfVessels == Cardinality(Vessels)

ASSUME PortAssumption ==
  /\ IsFiniteSet(Vessels) /\ NoVessel \notin Vessels
  /\ NumOfCranes \in Nat /\ 1 < NumOfCranes /\ NumOfCranes < NumOfVessels
  /\ NumOfVessels % NumOfCranes = 0

VARIABLES
  pc,                   \* pc[v]: where the thread of vessel v stands
  slot,                 \* slot[v]: the local barrierTaillIdxSnapshot
  craneIdx,             \* craneIdx[v]: the local craneIdx
  mutexAdt, barrierMutex,                             \* their owners
  vesselsInBarrier, barrierTaillIdx, barrierHeadIdx,
  barrierQueue,         \* binary semaphores, one per vessel
  isQuayADTFree,
  overtaken,            \* auxiliary: a vessel left its crane before a vessel that the
                        \* barrier had let go came to one
  cranesVessleIDs, cranesWithVessels,
  cranesIn, cranesOut,  \* cranesInSemaphores, cranesOutSemaphores; Null at first
  cranePc, job, served, \* a crane's place, its local vesselID, its loop counter
  port                  \* the main thread, or how the process failed

barrierVars == <<vesselsInBarrier, barrierTaillIdx, barrierHeadIdx, barrierQueue>>
releaseVars == <<isQuayADTFree, overtaken>>
quayVars    == <<cranesVessleIDs, cranesWithVessels>>
craneVars   == <<cranePc, job, served>>
lockVars    == <<mutexAdt, barrierMutex>>
vars == <<pc, slot, craneIdx, lockVars, barrierVars, releaseVars, quayVars,
          cranesIn, cranesOut, craneVars, port>>

CraneIdx == 0 .. NumOfCranes - 1
Slots    == 0 .. NumOfVessels - 1
VesselsPerCrane == NumOfVessels \div NumOfCranes

Null == -1      \* a semaphore handle that is not yet created

\* Undefined behaviour, a wait that fails unnoticed, a release that fails.
Failed == {"overfull", "overrun", "phantom", "semaphore"}

Init ==
  /\ pc = [v \in Vessels |-> "atSea"]
  /\ slot = [v \in Vessels |-> -1]
  /\ craneIdx = [v \in Vessels |-> -1]
  /\ mutexAdt = NoVessel /\ barrierMutex = NoVessel
  /\ vesselsInBarrier = 0 /\ barrierTaillIdx = -1 /\ barrierHeadIdx = 0
  /\ barrierQueue = [s \in Slots |-> 0]
  /\ isQuayADTFree = TRUE /\ overtaken = FALSE
  /\ cranesVessleIDs = [i \in CraneIdx |-> NoVessel]
  /\ cranesWithVessels = 0
  /\ cranesIn = [i \in CraneIdx |-> Null]
  /\ cranesOut = [i \in CraneIdx |-> Null]
  /\ cranePc = [i \in CraneIdx |-> "none"]
  /\ job = [i \in CraneIdx |-> NoVessel]
  /\ served = [i \in CraneIdx |-> 0]
  /\ port = "starting"

Goto(v, label) == pc' = [pc EXCEPT ![v] = label]
-----------------------------------------------------------------------------
\* initStaticVars starts the thread of a crane and then creates its semaphores.
StartCrane(i) ==
  /\ port = "starting"
  /\ cranePc[i] = "none"
  /\ \A j \in 0 .. i-1 : cranesIn[j] # Null
  /\ cranePc' = [cranePc EXCEPT ![i] = "waitJob"]
  /\ UNCHANGED <<pc, slot, craneIdx, lockVars, barrierVars, releaseVars, quayVars,
                 cranesIn, cranesOut, job, served, port>>

CreateSemaphores(i) ==
  /\ port = "starting"
  /\ cranePc[i] # "none"
  /\ cranesIn[i] = Null
  /\ cranesIn' = [cranesIn EXCEPT ![i] = 0]
  /\ cranesOut' = [cranesOut EXCEPT ![i] = 0]
  /\ port' = IF i = NumOfCranes - 1 THEN "receiving" ELSE port
  /\ UNCHANGED <<pc, slot, craneIdx, lockVars, barrierVars, releaseVars, quayVars,
                 craneVars>>

\* receiveVesselsFromHaifa: one message, one new vessel thread.
ReceiveVessel(v) ==
  /\ port = "receiving"
  /\ pc[v] = "atSea"
  /\ Goto(v, "lockAdt")
  /\ port' = IF \A w \in Vessels \ {v} : pc[w] # "atSea" THEN "joinVessels" ELSE port
  /\ UNCHANGED <<slot, craneIdx, lockVars, barrierVars, releaseVars, quayVars,
                 cranesIn, cranesOut, craneVars>>

\* enterToBarrier locks mutexAdt first, then barrierMutex.
LockAdt(v) ==
  /\ pc[v] = "lockAdt"
  /\ mutexAdt = NoVessel
  /\ mutexAdt' = v
  /\ Goto(v, "lockBarrier")
  /\ UNCHANGED <<slot, craneIdx, barrierMutex, barrierVars, releaseVars, quayVars,
                 cranesIn, cranesOut, craneVars, port>>

LockBarrier(v) ==
  /\ pc[v] = "lockBarrier"
  /\ barrierMutex = NoVessel
  /\ barrierMutex' = v
  /\ Goto(v, "queueUp")
  /\ UNCHANGED <<slot, craneIdx, mutexAdt, barrierVars, releaseVars, quayVars,
                 cranesIn, cranesOut, craneVars, port>>

\* Faulty variant: ++barrierHeadIdx for barrierHeadIdx++.
ReleasePreIncrement ==
  /\ barrierHeadIdx' = barrierHeadIdx + NumOfCranes
  /\ barrierQueue' = [s \in Slots |-> IF s \in barrierHeadIdx + 1 .. barrierHeadIdx'
                                        THEN 1 ELSE barrierQueue[s]]
  /\ isQuayADTFree' = FALSE
  /\ UNCHANGED overtaken
  /\ port' = IF barrierHeadIdx' > NumOfVessels THEN "overrun" ELSE port

\* releaseFromBarrier: NumOfCranes semaphores from the head of the queue; an
\* index behind the end of the array is undefined behaviour and ends the model.
ReleaseFromBarrier ==
  /\ barrierHeadIdx' = barrierHeadIdx + NumOfCranes
  /\ barrierQueue' = [s \in Slots |-> IF s \in barrierHeadIdx .. barrierHeadIdx' - 1
                                        THEN 1 ELSE barrierQueue[s]]
  /\ isQuayADTFree' = FALSE
  /\ UNCHANGED overtaken
  /\ port' = IF barrierHeadIdx' > NumOfVessels THEN "overrun" ELSE port

\* The critical section of enterToBarrier and the two unlocks.
QueueUp(v) ==
  /\ pc[v] = "queueUp"
  /\ vesselsInBarrier' = vesselsInBarrier + 1
  /\ barrierTaillIdx' = barrierTaillIdx + 1
  /\ slot' = [slot EXCEPT ![v] = barrierTaillIdx + 1]
  /\ IF isQuayADTFree /\ vesselsInBarrier + 1 >= NumOfCranes
       THEN ReleaseFromBarrier
       ELSE UNCHANGED <<barrierHeadIdx, barrierQueue, releaseVars, port>>
  /\ mutexAdt' = NoVessel /\ barrierMutex' = NoVessel
  /\ Goto(v, "waitTurn")
  /\ UNCHANGED <<craneIdx, quayVars, cranesIn, cranesOut, craneVars>>

WaitTurn(v) ==
  /\ pc[v] = "waitTurn"
  /\ barrierQueue[slot[v]] = 1
  /\ barrierQueue' = [barrierQueue EXCEPT ![slot[v]] = 0]
  /\ Goto(v, "leaveBarrier")
  /\ UNCHANGED <<slot, craneIdx, lockVars, vesselsInBarrier, barrierTaillIdx, barrierHeadIdx,
                 releaseVars, quayVars, cranesIn, cranesOut, craneVars, port>>

\* barrierMutex again, this time without mutexAdt, to count itself out.
LockToLeave(v) ==
  /\ pc[v] = "leaveBarrier"
  /\ barrierMutex = NoVessel
  /\ barrierMutex' = v
  /\ Goto(v, "countOut")
  /\ UNCHANGED <<slot, craneIdx, mutexAdt, barrierVars, releaseVars, quayVars,
                 cranesIn, cranesOut, craneVars, port>>

\* Faulty variants: the vessel does not count itself out; it keeps the mutex.
LeaveBarrierUncounted(v) ==
  /\ pc[v] = "countOut"
  /\ barrierMutex' = NoVessel
  /\ Goto(v, "settle")
  /\ UNCHANGED <<slot, craneIdx, mutexAdt, barrierVars,
                 releaseVars, quayVars, cranesIn, cranesOut, craneVars, port>>

LeaveBarrierLocked(v) ==
  /\ pc[v] = "countOut"
  /\ vesselsInBarrier' = vesselsInBarrier - 1
  /\ Goto(v, "settle")
  /\ UNCHANGED <<slot, craneIdx, lockVars, barrierTaillIdx, barrierHeadIdx, barrierQueue,
                 releaseVars, quayVars, cranesIn, cranesOut, craneVars, port>>

LeaveBarrier(v) ==
  /\ pc[v] = "countOut"
  /\ vesselsInBarrier' = vesselsInBarrier - 1
  /\ barrierMutex' = NoVessel
  /\ Goto(v, "settle")
  /\ UNCHANGED <<slot, craneIdx, mutexAdt, barrierTaillIdx, barrierHeadIdx, barrierQueue,
                 releaseVars, quayVars, cranesIn, cranesOut, craneVars, port>>

\* enterUnloadingQuay: the first free crane.  With none free the search ends
\* at NumOfCranes, which passes for an index: the arrays are then overrun.
FirstFree(i) == /\ cranesVessleIDs[i] = NoVessel
                /\ \A j \in 0 .. i-1 : cranesVessleIDs[j] # NoVessel

Settle(v) ==
  /\ pc[v] = "settle"
  /\ mutexAdt = NoVessel
  /\ \/ \E i \in CraneIdx :
          /\ FirstFree(i)
          /\ craneIdx' = [craneIdx EXCEPT ![v] = i]
          /\ cranesVessleIDs' = [cranesVessleIDs EXCEPT ![i] = v]
          /\ cranesWithVessels' = cranesWithVessels + 1
          /\ UNCHANGED port
     \/ /\ \A i \in CraneIdx : cranesVessleIDs[i] # NoVessel
        /\ craneIdx' = [craneIdx EXCEPT ![v] = NumOfCranes]
        /\ port' = "overfull"
        /\ UNCHANGED quayVars
  /\ Goto(v, "wakeCrane")
  /\ UNCHANGED <<slot, lockVars, barrierVars, releaseVars, cranesIn, cranesOut, craneVars>>

\* ReleaseSemaphore fails on a semaphore that is at its maximum of 1.
WakeCrane(v) ==
  /\ pc[v] = "wakeCrane"
  /\ IF cranesIn[craneIdx[v]] = 0
       THEN cranesIn' = [cranesIn EXCEPT ![craneIdx[v]] = 1] /\ UNCHANGED port
       ELSE port' = "semaphore" /\ UNCHANGED cranesIn
  /\ Goto(v, "waitUnload")
  /\ UNCHANGED <<slot, craneIdx, lockVars, barrierVars, releaseVars, quayVars,
                 cranesOut, craneVars>>

WaitUnload(v) ==
  /\ pc[v] = "waitUnload"
  /\ cranesOut[craneIdx[v]] = 1
  /\ cranesOut' = [cranesOut EXCEPT ![craneIdx[v]] = 0]
  /\ Goto(v, "leaveCrane")
  /\ UNCHANGED <<slot, craneIdx, lockVars, barrierVars, releaseVars, quayVars,
                 cranesIn, craneVars, port>>

\* Every vessel that the barrier has let go has come to a crane.
AllSettled == \A v \in Vessels : slot[v] \in 0 .. barrierHeadIdx - 1 =>
                 pc[v] \notin {"waitTurn", "leaveBarrier", "countOut", "settle"}

\* Faulty variant: the vessel is not counted out of the quay.
LeaveCraneUncounted(v) ==
  /\ pc[v] = "leaveCrane"
  /\ mutexAdt = NoVessel
  /\ cranesVessleIDs' = [cranesVessleIDs EXCEPT ![craneIdx[v]] = NoVessel]
  /\ Goto(v, "sailBack")
  /\ UNCHANGED <<slot, craneIdx, lockVars, barrierVars, releaseVars, cranesWithVessels,
                 cranesIn, cranesOut, craneVars, port>>

\* leaveQuay: the vessel that empties the cranes keeps mutexAdt and looks at
\* the barrier; the others unlock at once.
LeaveCrane(v) ==
  /\ pc[v] = "leaveCrane"
  /\ mutexAdt = NoVessel
  /\ cranesVessleIDs' = [cranesVessleIDs EXCEPT ![craneIdx[v]] = NoVessel]
  /\ cranesWithVessels' = cranesWithVessels - 1
  /\ IF cranesWithVessels = 1
       THEN isQuayADTFree' = TRUE /\ mutexAdt' = v /\ Goto(v, "lockBarrierLast")
       ELSE UNCHANGED <<isQuayADTFree, mutexAdt>> /\ Goto(v, "sailBack")
  /\ overtaken' = (overtaken \/ ~AllSettled)
  /\ UNCHANGED <<slot, craneIdx, barrierMutex, barrierVars, cranesIn, cranesOut, craneVars,
                 port>>

\* Faulty variant: > for >=.
OpenBarrierOverGroup(v) ==
  /\ pc[v] = "lockBarrierLast"
  /\ barrierMutex = NoVessel
  /\ IF vesselsInBarrier > NumOfCranes
       THEN ReleaseFromBarrier
       ELSE UNCHANGED <<barrierHeadIdx, barrierQueue, releaseVars, port>>
  /\ mutexAdt' = NoVessel
  /\ Goto(v, "sailBack")
  /\ UNCHANGED <<slot, craneIdx, barrierMutex, vesselsInBarrier, barrierTaillIdx, quayVars,
                 cranesIn, cranesOut, craneVars>>

OpenBarrier(v) ==
  /\ pc[v] = "lockBarrierLast"
  /\ barrierMutex = NoVessel
  /\ IF vesselsInBarrier >= NumOfCranes
       THEN ReleaseFromBarrier
       ELSE UNCHANGED <<barrierHeadIdx, barrierQueue, releaseVars, port>>
  /\ mutexAdt' = NoVessel
  /\ Goto(v, "sailBack")
  /\ UNCHANGED <<slot, craneIdx, barrierMutex, vesselsInBarrier, barrierTaillIdx, quayVars,
                 cranesIn, cranesOut, craneVars>>

\* sailBackToHaifa writes the id into the pipe and the thread ends.
SailBack(v) ==
  /\ pc[v] = "sailBack"
  /\ Goto(v, "gone")
  /\ UNCHANGED <<slot, craneIdx, lockVars, barrierVars, releaseVars, quayVars,
                 cranesIn, cranesOut, craneVars, port>>

\* Faulty variant: the crane lets the vessel go before it unloads.
TakeJobEarly(i) ==
  /\ cranePc[i] = "waitJob"
  /\ cranesIn[i] = 1
  /\ cranesIn' = [cranesIn EXCEPT ![i] = 0]
  /\ cranesOut' = [cranesOut EXCEPT ![i] = 1]
  /\ job' = [job EXCEPT ![i] = cranesVessleIDs[i]]
  /\ cranePc' = [cranePc EXCEPT ![i] = "unload"]
  /\ UNCHANGED <<pc, slot, craneIdx, lockVars, barrierVars, releaseVars, quayVars,
                 served, port>>

\* Crane: wait for a job, unload, let the vessel go; VesselsPerCrane times.
TakeJob(i) ==
  /\ cranePc[i] = "waitJob"
  /\ cranesIn[i] = 1
  /\ cranesIn' = [cranesIn EXCEPT ![i] = 0]
  /\ job' = [job EXCEPT ![i] = cranesVessleIDs[i]]
  /\ cranePc' = [cranePc EXCEPT ![i] = "unload"]
  /\ UNCHANGED <<pc, slot, craneIdx, lockVars, barrierVars, releaseVars, quayVars,
                 cranesOut, served, port>>

\* The wait on a handle that is still NULL fails at once and is not checked: the
\* crane unloads a vessel that is not there.
PhantomJob(i) ==
  /\ cranePc[i] = "waitJob"
  /\ cranesIn[i] = Null
  /\ port' = "phantom"
  /\ UNCHANGED <<pc, slot, craneIdx, lockVars, barrierVars, releaseVars, quayVars,
                 cranesIn, cranesOut, craneVars>>

\* Faulty variant: i <= vesselsPerCrane.
FinishJobOnceMore(i) ==
  /\ cranePc[i] = "unload"
  /\ cranesOut' = [cranesOut EXCEPT ![i] = 1]
  /\ served' = [served EXCEPT ![i] = @ + 1]
  /\ cranePc' = [cranePc EXCEPT ![i] = IF served[i] < VesselsPerCrane THEN "waitJob"
                                                                      ELSE "ended"]
  /\ UNCHANGED <<pc, slot, craneIdx, lockVars, barrierVars, releaseVars, quayVars,
                 cranesIn, job, port>>

FinishJob(i) ==
  /\ cranePc[i] = "unload"
  /\ IF cranesOut[i] = 0
       THEN cranesOut' = [cranesOut EXCEPT ![i] = 1] /\ UNCHANGED port
       ELSE port' = "semaphore" /\ UNCHANGED cranesOut
  /\ served' = [served EXCEPT ![i] = @ + 1]
  /\ cranePc' = [cranePc EXCEPT ![i] = IF served'[i] < VesselsPerCrane THEN "waitJob"
                                                                       ELSE "ended"]
  /\ UNCHANGED <<pc, slot, craneIdx, lockVars, barrierVars, releaseVars, quayVars,
                 cranesIn, job>>

\* waitForCleanUpCondition, then releaseResources and the end of the process.
JoinVessels ==
  /\ port = "joinVessels"
  /\ \A v \in Vessels : pc[v] = "gone"
  /\ port' = "joinCranes"
  /\ UNCHANGED <<pc, slot, craneIdx, lockVars, barrierVars, releaseVars, quayVars,
                 cranesIn, cranesOut, craneVars>>

JoinCranes ==
  /\ port = "joinCranes"
  /\ \A i \in CraneIdx : cranePc[i] = "ended"
  /\ port' = "exited"
  /\ UNCHANGED <<pc, slot, craneIdx, lockVars, barrierVars, releaseVars, quayVars,
                 cranesIn, cranesOut, craneVars>>

Vessel(v) ==
  \/ LockAdt(v)
  \/ LockBarrier(v)
  \/ QueueUp(v)
  \/ WaitTurn(v)
  \/ LockToLeave(v)
  \/ LeaveBarrier(v)
  \/ Settle(v)
  \/ WakeCrane(v)
  \/ WaitUnload(v)
  \/ LeaveCrane(v)
  \/ OpenBarrier(v)
  \/ SailBack(v)

Crane(i) == TakeJob(i) \/ PhantomJob(i) \/ FinishJob(i)

\* After undefined behaviour or a failed system call nothing is claimed.
Next ==
  /\ port \notin Failed
  /\ \/ \E v \in Vessels : ReceiveVessel(v) \/ Vessel(v)
     \/ \E i \in CraneIdx : StartCrane(i) \/ CreateSemaphores(i) \/ Crane(i)
     \/ JoinVessels
     \/ JoinCranes

Spec == Init /\ [][Next]_vars

\* Every thread that can take its next step eventually does.
FairSpec == /\ Spec
            /\ \A v \in Vessels : WF_vars(port \notin Failed /\ Vessel(v))
            /\ \A i \in CraneIdx : WF_vars(port \notin Failed /\ Crane(i))
-----------------------------------------------------------------------------
Labels == {"atSea", "lockAdt", "lockBarrier", "queueUp", "waitTurn", "leaveBarrier", "countOut",
           "settle", "wakeCrane", "waitUnload", "leaveCrane", "lockBarrierLast", "sailBack", "gone"}

TypeOK ==
  /\ pc \in [Vessels -> Labels]
  /\ slot \in [Vessels -> -1 .. NumOfVessels - 1]
  /\ craneIdx \in [Vessels -> -1 .. NumOfCranes]
  /\ mutexAdt \in Vessels \union {NoVessel}
  /\ barrierMutex \in Vessels \union {NoVessel}
  /\ vesselsInBarrier \in 0 .. NumOfVessels
  /\ barrierTaillIdx \in -1 .. NumOfVessels - 1
  /\ barrierHeadIdx \in 0 .. NumOfVessels + NumOfCranes
  /\ barrierQueue \in [Slots -> {0, 1}]
  /\ isQuayADTFree \in BOOLEAN /\ overtaken \in BOOLEAN
  /\ cranesVessleIDs \in [CraneIdx -> Vessels \union {NoVessel}]
  /\ cranesWithVessels \in 0 .. NumOfCranes
  /\ cranesIn \in [CraneIdx -> {Null, 0, 1}]
  /\ cranesOut \in [CraneIdx -> {Null, 0, 1}]
  /\ cranePc \in [CraneIdx -> {"none", "waitJob", "unload", "ended"}]
  /\ job \in [CraneIdx -> Vessels \union {NoVessel}]
  /\ served \in [CraneIdx -> 0 .. VesselsPerCrane]
  /\ port \in {"starting", "receiving", "joinVessels", "joinCranes", "exited"} \union Failed

Running == port \notin Failed

BeforeQueue == {v \in Vessels : pc[v] \in {"atSea", "lockAdt", "lockBarrier", "queueUp"}}
AtBarrier   == {v \in Vessels : pc[v] \in {"waitTurn", "leaveBarrier", "countOut"}}
AtCrane     == {v \in Vessels : pc[v] \in {"wakeCrane", "waitUnload", "leaveCrane"}}

\* The barrier counts exactly the vessels between their ++ and their --.
BarrierCount == vesselsInBarrier = Cardinality(AtBarrier)

\* The barrier is first in, first out and loses no permission: every vessel
\* that queued has a place of its own, the vessels that went through are among
\* the first barrierHeadIdx, and one of those that still waits finds its
\* semaphore released.
FifoBarrier ==
  /\ \A v, w \in Vessels : slot[v] = slot[w] /\ slot[v] # -1 => v = w
  /\ \A v \in Vessels : v \notin BeforeQueue <=> slot[v] \in 0 .. barrierTaillIdx
  /\ Running => \A v \in Vessels \ BeforeQueue :
       IF pc[v] = "waitTurn" THEN (barrierQueue[slot[v]] = 1 <=> slot[v] < barrierHeadIdx)
                             ELSE slot[v] < barrierHeadIdx

\* A crane holds one vessel at a time, the table says which, and
\* cranesWithVessels counts them.
CraneExclusive ==
  Running => /\ \A v \in AtCrane : cranesVessleIDs[craneIdx[v]] = v
             /\ \A i \in CraneIdx : cranesVessleIDs[i] # NoVessel =>
                                      cranesVessleIDs[i] \in AtCrane
             /\ cranesWithVessels =
                  Cardinality({i \in CraneIdx : cranesVessleIDs[i] # NoVessel})

\* Between a crane and its vessel one token goes round: the job is announced,
\* or in work, or done.  No wake-up is lost, and none is given twice, which
\* ReleaseSemaphore would refuse.
JobHandover ==
  /\ port # "semaphore"
  /\ Running => \A i \in CraneIdx :
       LET announced == cranesIn[i] = 1
           inWork    == cranePc[i] = "unload"
           done      == cranesOut[i] = 1
           waits     == \E v \in Vessels : pc[v] = "waitUnload" /\ craneIdx[v] = i
       IN /\ waits <=> announced \/ inWork \/ done
          /\ ~(announced /\ inWork) /\ ~(announced /\ done) /\ ~(inWork /\ done)

\* The cranes of a group are shared out soundly as long as nobody is overtaken:
\* when every vessel of a group has settled before the first one leaves, every
\* vessel finds a crane, the queue is not overrun, and no crane ends with a
\* vessel waiting at it.
Stranded(v) == /\ pc[v] = "waitUnload"
               /\ cranePc[craneIdx[v]] = "ended" /\ cranesOut[craneIdx[v]] = 0
SoundUnlessOvertaken ==
  ~overtaken => port \notin {"overfull", "overrun"} /\ \A v \in Vessels : ~Stranded(v)

\* The lock order of the comment at the top of enterToBarrier ("in the following
\* order"): the owner of mutexAdt waits for no mutex but barrierMutex, and the owner
\* of barrierMutex, with or without mutexAdt, for none.
WaitsForAdt     == {v \in Vessels : pc[v] \in {"lockAdt", "settle", "leaveCrane"}}
WaitsForBarrier == {v \in Vessels : pc[v] \in {"lockBarrier", "leaveBarrier", "lockBarrierLast"}}
LocksOrdered == /\ mutexAdt \notin WaitsForAdt
                /\ barrierMutex \notin WaitsForAdt \union WaitsForBarrier

\* What a thread can do next: the waits in front of its next step are over.
VesselCanStep(v) ==
  \/ pc[v] \in {"queueUp", "countOut", "wakeCrane", "sailBack"}
  \/ v \in WaitsForAdt /\ mutexAdt = NoVessel
  \/ v \in WaitsForBarrier /\ barrierMutex = NoVessel
  \/ pc[v] = "waitTurn" /\ barrierQueue[slot[v]] = 1
  \/ pc[v] = "waitUnload" /\ cranesOut[craneIdx[v]] = 1

CraneCanStep(i) ==
  \/ cranePc[i] = "waitJob" /\ cranesIn[i] \in {Null, 1}
  \/ cranePc[i] = "unload"

\* The main thread, but for the arrival of a vessel.
MainCanStep ==
  \/ port = "starting" /\ \E i \in CraneIdx :
       IF cranePc[i] = "none" THEN \A j \in 0 .. i-1 : cranesIn[j] # Null ELSE cranesIn[i] = Null
  \/ port = "joinVessels" /\ \A v \in Vessels : pc[v] = "gone"
  \/ port = "joinCranes" /\ \A i \in CraneIdx : cranePc[i] = "ended"

PortCanStep == \/ MainCanStep
               \/ \E v \in Vessels : VesselCanStep(v)
               \/ \E i \in CraneIdx : CraneCanStep(i)

\* As long as nobody is overtaken the port does not come to a halt before its end:
\* some thread can go on, or the main thread waits for a vessel that is still at sea.
PortGoesOn ==
  Running /\ ~overtaken =>
    \/ PortCanStep
    \/ port = "receiving" /\ \E v \in Vessels : pc[v] = "atSea"
    \/ port = "exited"

\* A vessel the barrier has let go reaches a crane, or the port has failed.
ReleasedVesselsSettle ==
  \A v \in Vessels : pc[v] = "waitTurn" /\ slot[v] < barrierHeadIdx
                       ~> v \in AtCrane \/ port \in Failed

-----------------------------------------------------------------------------
(***************************************************************************)
(* What the comments say and the code does not keep.                       *)
(***************************************************************************)

\* "If the unloading quay is empty AND There are at least numOfCranes vessels
\* in the barrier: then release the group from the barrier": a release finds
\* the cranes empty ...
ReleasesIntoEmptyQuay ==
  [][barrierHeadIdx' # barrierHeadIdx => \A i \in CraneIdx : cranesVessleIDs'[i] = NoVessel]_vars

\* ... and finds the vessels it releases at the barrier.
ReleasesOnlyQueuedVessels ==
  [][barrierHeadIdx' # barrierHeadIdx => barrierHeadIdx' <= barrierTaillIdx' + 1]_vars

\* A vessel that enters the quay "settles down at an available Crane".
NeverOverfull == port # "overfull"

\* The wait of a crane "Defends against Doing a Crane job until next time
\* barrier releases vessels": no crane passes it without a job.
NoPhantomJob == port # "phantom"

\* No vessel waits at a crane whose thread has served its share and ended.
NeverStranded == \A v \in Vessels : ~Stranded(v)
=============================================================================
