-------------------------------- MODULE Ring --------------------------------
(***************************************************************************)
(* The geometry of the traffic circle: the border squares of an N x N      *)
(* matrix.  A square is a pair <<row, col>> with row 0 at the top.  Cars   *)
(* drive counter-clockwise: RIGHT along the bottom row, UP along the right *)
(* column, LEFT along the top row, DOWN along the left column.             *)
(***************************************************************************)
EXTENDS Integers

CONSTANT N          \* #define N: the side of the matrix

ASSUME NAssumption == N \in Nat /\ N >= 2

Cells   == (0 .. N-1) \X (0 .. N-1)

\* isOnBorder
OnBorder(s) == s[1] = 0 \/ s[1] = N-1 \/ s[2] = 0 \/ s[2] = N-1

Squares == {s \in Cells : OnBorder(s)}

\* isOnExitCorner
IsCorner(s) == s \in {<<0, 0>>, <<0, N-1>>, <<N-1, 0>>, <<N-1, N-1>>}

(***************************************************************************)
(* The square after s in the direction of travel.                          *)
(***************************************************************************)
Ahead(s) == CASE s[1] = N-1 /\ s[2] < N-1 -> <<N-1, s[2] + 1>>
              [] s[2] = N-1 /\ s[1] > 0   -> <<s[1] - 1, N-1>>
              [] s[1] = 0   /\ s[2] > 0   -> <<0, s[2] - 1>>
              [] s[2] = 0   /\ s[1] < N-1 -> <<s[1] + 1, 0>>
=============================================================================
