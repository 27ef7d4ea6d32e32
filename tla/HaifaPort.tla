----------------------------- MODULE HaifaPort -----------------------------
(***************************************************************************)
(* HaifaPort.c after Eilat has approved the number of vessels: a thread    *)
(* per vessel sends its id through the pipe to Eilat (one vessel in the    *)
(* canal at a time, haifaMutex) and waits on its own semaphore, which the  *)
(* main thread releases when the id comes back.  The pipes carry whole     *)
(* messages (every read and write is of PIPE_BUF_LEN bytes) and never fill *)
(* (50 messages of 50 bytes in a 4 KB buffer).  The other ends of the two  *)
(* pipes are the environment: Canal puts EilatPort there.                  *)
(***************************************************************************)
EXTENDS Integers, FiniteSets, Sequences, Fleet

VARIABLES
  sail,          \* sail[v]: where the Haifa thread of vessel v stands
  haifaMutex,    \* its owner
  toEilat,       \* the pipe HaifaToEilat: vessel ids in order
  toHaifa,       \* the pipe EilatToHaifa
  returned,      \* vesselsSemaphoreArr
  completed,     \* completedVessels
  haifa          \* the main thread

haifaVars == <<sail, haifaMutex, toEilat, toHaifa, returned, completed, haifa>>

HaifaInit ==
  /\ sail = [v \in Vessels |-> "none"]
  /\ haifaMutex = NoVessel
  /\ toEilat = <<>> /\ toHaifa = <<>>
  /\ returned = [v \in Vessels |-> 0]
  /\ completed = 0
  /\ haifa = "creating"

SailTo(v, label) == sail' = [sail EXCEPT ![v] = label]
-----------------------------------------------------------------------------
\* createVesselsThreads
CreateVessel(v) ==
  /\ haifa = "creating"
  /\ sail[v] = "none"
  /\ SailTo(v, "harbour")
  /\ haifa' = IF \A w \in Vessels \ {v} : sail[w] # "none" THEN "awaitVessels" ELSE haifa
  /\ UNCHANGED <<haifaMutex, toEilat, toHaifa, returned, completed>>

\* Sails_to_Eilat: lock the canal, cross it, write the id, unlock.
EnterCanal(v) ==
  /\ sail[v] = "harbour"
  /\ haifaMutex = NoVessel
  /\ haifaMutex' = v
  /\ SailTo(v, "crossing")
  /\ UNCHANGED <<toEilat, toHaifa, returned, completed, haifa>>

\* Faulty variant: the id is not written (the code only logs a failed write).
LeaveCanalUnsent(v) ==
  /\ sail[v] = "crossing"
  /\ haifaMutex' = NoVessel
  /\ SailTo(v, "away")
  /\ UNCHANGED <<toEilat, toHaifa, returned, completed, haifa>>

LeaveCanal(v) ==
  /\ sail[v] = "crossing"
  /\ toEilat' = Append(toEilat, v)
  /\ haifaMutex' = NoVessel
  /\ SailTo(v, "away")
  /\ UNCHANGED <<toHaifa, returned, completed, haifa>>

\* Faulty variant: the thread ends without waiting for its vessel.
ComeHomeUnasked(v) ==
  /\ sail[v] = "away"
  /\ SailTo(v, "home")
  /\ UNCHANGED <<haifaMutex, toEilat, toHaifa, returned, completed, haifa>>

ComeHome(v) ==
  /\ sail[v] = "away"
  /\ returned[v] = 1
  /\ returned' = [returned EXCEPT ![v] = 0]
  /\ SailTo(v, "home")
  /\ UNCHANGED <<haifaMutex, toEilat, toHaifa, completed, haifa>>

\* Faulty variant: the thread of another vessel is woken.
WakeAnyVessel ==
  /\ haifa = "awaitVessels"
  /\ toHaifa # <<>>
  /\ \E v \in Vessels : returned' = [returned EXCEPT ![v] = 1]
  /\ toHaifa' = Tail(toHaifa)
  /\ completed' = completed + 1
  /\ haifa' = IF completed' = Cardinality(Vessels) THEN "awaitEilat" ELSE haifa
  /\ UNCHANGED <<sail, haifaMutex, toEilat>>

\* waitForAllVesselsToReturn: one message; then the main thread waits for the
\* Eilat process.
ReadReturn ==
  /\ haifa = "awaitVessels"
  /\ toHaifa # <<>>
  /\ returned' = [returned EXCEPT ![Head(toHaifa)] = 1]
  /\ toHaifa' = Tail(toHaifa)
  /\ completed' = completed + 1
  /\ haifa' = IF completed' = Cardinality(Vessels) THEN "awaitEilat" ELSE haifa
  /\ UNCHANGED <<sail, haifaMutex, toEilat>>

\* WaitForSingleObject(pi.hProcess): the guard is the environment's.
SeeEilatEnd ==
  /\ haifa = "awaitEilat"
  /\ haifa' = "joinVessels"
  /\ UNCHANGED <<sail, haifaMutex, toEilat, toHaifa, returned, completed>>

\* joinAllVessels, closeResources, exit.
JoinAllVessels ==
  /\ haifa = "joinVessels"
  /\ \A v \in Vessels : sail[v] = "home"
  /\ haifa' = "exited"
  /\ UNCHANGED <<sail, haifaMutex, toEilat, toHaifa, returned, completed>>

HaifaVessel(v) == EnterCanal(v) \/ LeaveCanal(v) \/ ComeHome(v)

HaifaStep == \/ \E v \in Vessels : CreateVessel(v) \/ HaifaVessel(v)
             \/ ReadReturn
             \/ JoinAllVessels

\* What a thread of Haifa can do next; SeeEilatEnd is up to the environment.
HaifaVesselCanStep(v) ==
  \/ sail[v] = "none" /\ haifa = "creating"
  \/ sail[v] = "harbour" /\ haifaMutex = NoVessel
  \/ sail[v] = "crossing"
  \/ sail[v] = "away" /\ returned[v] = 1

HaifaCanStep ==
  \/ \E v \in Vessels : HaifaVesselCanStep(v)
  \/ haifa = "awaitVessels" /\ toHaifa # <<>>
  \/ haifa = "joinVessels" /\ \A v \in Vessels : sail[v] = "home"
=============================================================================
