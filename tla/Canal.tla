------------------------------- MODULE Canal -------------------------------
(***************************************************************************)
(* The two processes and the pipes between them: HaifaPort and EilatPort,  *)
(* with EilatPort's main thread at the reading end of one pipe and its     *)
(* vessels at the writing end of the other.                                *)
(***************************************************************************)
EXTENDS EilatPort, HaifaPort

canalVars == <<vars, haifaVars>>

CanalInit == Init /\ HaifaInit

\* ReadFile in receiveVesselsFromHaifa: the vessel whose id is next.
ArriveEilat(v) ==
  /\ toEilat # <<>> /\ Head(toEilat) = v
  /\ ReceiveVessel(v)
  /\ toEilat' = Tail(toEilat)
  /\ UNCHANGED <<sail, haifaMutex, toHaifa, returned, completed, haifa>>

\* WriteFile in sailBackToHaifa, under writePipeMutex.
DepartEilat(v) ==
  /\ SailBack(v)
  /\ toHaifa' = Append(toHaifa, v)
  /\ UNCHANGED <<sail, haifaMutex, toEilat, returned, completed, haifa>>

VesselInEilat(v) ==
  \/ LockAdt(v)
  \/ LockBarrier(v)
  \/ QueueUp(v)
  \/ WaitTurn(v)
  \/ LockToLeave(v)
  \/ LeaveBarrier(v)
  \/ Settle(v)
  \/ WakeCrane(v)
  \/ WaitUnload(v)
  \/ LeaveCrane(v)
  \/ OpenBarrier(v)

EilatStep ==
  /\ Running
  /\ \/ \E v \in Vessels : ArriveEilat(v) \/ DepartEilat(v)
     \/ /\ \/ \E v \in Vessels : VesselInEilat(v)
           \/ \E i \in CraneIdx : StartCrane(i) \/ CreateSemaphores(i) \/ Crane(i)
           \/ JoinVessels
           \/ JoinCranes
        /\ UNCHANGED haifaVars

\* Haifa sees the end of the process, not its reason.
EilatEnded == port = "exited" \/ port \in Failed

CanalNext ==
  \/ EilatStep
  \/ HaifaStep /\ UNCHANGED vars
  \/ EilatEnded /\ SeeEilatEnd /\ UNCHANGED vars

CanalSpec == CanalInit /\ [][CanalNext]_canalVars
-----------------------------------------------------------------------------
\* A vessel is in one place: its Haifa thread waits for it while it is in a
\* pipe, in Eilat or at its semaphore, and it is in only one of them, once.
Copies(v) ==
    Cardinality({k \in 1 .. Len(toEilat) : toEilat[k] = v})
  + Cardinality({k \in 1 .. Len(toHaifa) : toHaifa[k] = v})
  + (IF pc[v] \notin {"atSea", "gone"} THEN 1 ELSE 0)
  + returned[v]

OnePlace ==
  \A v \in Vessels : Copies(v) = IF sail[v] = "away" THEN 1 ELSE 0

\* Haifa counts home exactly the vessels that have come through the pipe, and
\* ends only when all are home and Eilat has ended.
HaifaCount ==
  /\ completed = Cardinality({v \in Vessels : sail[v] = "home" \/ returned[v] = 1})
  /\ haifa \in {"joinVessels", "exited"} => EilatEnded /\ toHaifa = <<>> /\ toEilat = <<>>

\* The two processes do not wait for each other for ever: until both have ended, and
\* as long as nobody is overtaken at the cranes, a thread of one of them can go on.
CanalGoesOn ==
  Running /\ ~overtaken =>
    \/ PortCanStep
    \/ port = "receiving" /\ toEilat # <<>>
    \/ HaifaCanStep
    \/ haifa = "awaitEilat" /\ EilatEnded
    \/ haifa = "exited"

\* The legs of the journey.
Place(v) ==
  CASE sail[v] \in {"none", "harbour", "crossing"}   -> "Haifa"
    [] sail[v] = "home" \/ returned[v] = 1           -> "home"
    [] OTHER -> CASE pc[v] = "gone"                  -> "northbound"
                  [] pc[v] = "atSea"                 -> "southbound"
                  [] OTHER                           -> "Eilat"

Journey == INSTANCE VesselJourney WITH place <- [v \in Vessels |-> Place(v)],
                                       southbound <- toEilat, northbound <- toHaifa

\* The two processes take every vessel through its round trip.
ImplementsJourney == Journey!Spec
=============================================================================
