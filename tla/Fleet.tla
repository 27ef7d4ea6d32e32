------------------------------- MODULE Fleet -------------------------------
(***************************************************************************)
(* The vessels both ports know (their ids are 1 to numOfVessels).          *)
(***************************************************************************)
CONSTANTS Vessels,        \* the vessels that come through the canal
          NoVessel        \* CRANE_AVAILABLE; also "no owner" of a mutex
=============================================================================
