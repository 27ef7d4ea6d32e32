------------------------------- MODULE Circle -------------------------------
(***************************************************************************)
(* What the traffic circle promises (task-definition.pdf): a square holds  *)
(* at most one car; a car enters at a corner when that corner and the      *)
(* square before it are free; it advances to the square ahead when that is *)
(* free; it vanishes at a corner, after at least one side of the square.   *)
(* The module knows nothing of mutexes and threads.                        *)
(***************************************************************************)
EXTENDS Ring

CONSTANTS Cars, NoCar

VARIABLES occ,      \* occ[s]: the car on square s, or NoCar
          trip      \* trip[c]: squares c has advanced, counted up to N-1

vars == <<occ, trip>>

Init == /\ occ  = [s \in Squares |-> NoCar]
        /\ trip = [c \in Cars |-> 0]

\* One square further; a whole side is N-1 squares and more need not be told apart.
Further(n) == IF n < N-1 THEN n + 1 ELSE n

Enter(c, s) ==
  /\ IsCorner(s)
  /\ occ[s] = NoCar
  /\ \A t \in Squares : occ[t] # c /\ (Ahead(t) = s => occ[t] = NoCar)
  /\ occ' = [occ EXCEPT ![s] = c]
  /\ trip' = [trip EXCEPT ![c] = 0]

Advance(c, s) ==
  /\ occ[s] = c
  /\ occ[Ahead(s)] = NoCar
  /\ occ' = [occ EXCEPT ![Ahead(s)] = c, ![s] = NoCar]
  /\ trip' = [trip EXCEPT ![c] = Further(@)]

Vanish(c, s) ==
  /\ occ[s] = c
  /\ IsCorner(s)
  /\ trip[c] >= N-1
  /\ occ' = [occ EXCEPT ![s] = NoCar]
  /\ trip' = [trip EXCEPT ![c] = 0]

Next == \E c \in Cars, s \in Squares : Enter(c, s) \/ Advance(c, s) \/ Vanish(c, s)

Spec == Init /\ [][Next]_vars
=============================================================================
