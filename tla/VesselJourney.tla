--------------------------- MODULE VesselJourney ---------------------------
(***************************************************************************)
(* What the two ports and the canal promise: every vessel makes one round  *)
(* trip, Haifa - canal - Eilat - canal - Haifa, one leg after the other,   *)
(* and the canal is first in, first out in each direction.                 *)
(***************************************************************************)
EXTENDS Sequences

CONSTANT Vessels

VARIABLES place,        \* place[v]: the leg of the journey vessel v is on
          southbound,   \* the vessels in the canal, in order
          northbound

vars == <<place, southbound, northbound>>

Init == /\ place = [v \in Vessels |-> "Haifa"]
        /\ southbound = <<>> /\ northbound = <<>>

EnterSouth(v) == /\ place[v] = "Haifa"
                 /\ place' = [place EXCEPT ![v] = "southbound"]
                 /\ southbound' = Append(southbound, v)
                 /\ UNCHANGED northbound

ArriveEilat(v) == /\ southbound # <<>> /\ Head(southbound) = v
                  /\ place[v] = "southbound"
                  /\ place' = [place EXCEPT ![v] = "Eilat"]
                  /\ southbound' = Tail(southbound)
                  /\ UNCHANGED northbound

EnterNorth(v) == /\ place[v] = "Eilat"
                 /\ place' = [place EXCEPT ![v] = "northbound"]
                 /\ northbound' = Append(northbound, v)
                 /\ UNCHANGED southbound

ArriveHaifa(v) == /\ northbound # <<>> /\ Head(northbound) = v
                  /\ place[v] = "northbound"
                  /\ place' = [place EXCEPT ![v] = "home"]
                  /\ northbound' = Tail(northbound)
                  /\ UNCHANGED southbound

Next == \E v \in Vessels : EnterSouth(v) \/ ArriveEilat(v) \/ EnterNorth(v) \/ ArriveHaifa(v)

Spec == Init /\ [][Next]_vars
=============================================================================
