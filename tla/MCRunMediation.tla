--------------------------- MODULE MCRunMediation ---------------------------
(***************************************************************************)
(* Three turns: t1 and t2 reuse one run id in one session lane, t3 is      *)
(* another run of the same lane.  Two more turns than lanes make a late    *)
(* end meet its successor; the third transcript lets a rotation happen     *)
(* while both others are in use.                                           *)
(***************************************************************************)
EXTENDS RunMediation

MCTurn == {"t1", "t2", "t3"}
MCRunId == {"r1", "r2"}
MCRunOf == [t \in MCTurn |-> IF t = "t3" THEN "r2" ELSE "r1"]
MCLaneOf == [t \in MCTurn |-> "main"]
=============================================================================
