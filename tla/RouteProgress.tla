--------------------------- MODULE RouteProgress ---------------------------
(***************************************************************************)
(* What a governed walk promises, with no cursor, trace or resume in it:   *)
(* progress is one number, how many leading steps of the route count as    *)
(* done.  It grows by one at a time, and shrinks only by a correction, of  *)
(* which there is a fixed budget.                                          *)
(***************************************************************************)
EXTENDS Naturals

CONSTANTS N,       \* length of the route
          Budget   \* corrections a run may make

VARIABLES phase,   \* "idle", "walking" or "ended"
          done,    \* leading steps done
          spent    \* corrections made

pvars == <<phase, done, spent>>

PInit == phase = "idle" /\ done = 0 /\ spent = 0

(* A run begins anywhere short of the end of its route.                    *)
PBegin == /\ phase = "idle"
          /\ phase' = "walking"
          /\ done' \in 0..(N - 1)
          /\ UNCHANGED spent

PFinishStep == /\ phase = "walking" /\ done < N
               /\ done' = done + 1
               /\ UNCHANGED <<phase, spent>>

PCorrect == /\ phase = "walking" /\ spent < Budget
            /\ \E d \in 0..N : d < done /\ done' = d
            /\ spent' = spent + 1
            /\ UNCHANGED phase

PEnd == /\ phase = "walking" /\ phase' = "ended"
        /\ UNCHANGED <<done, spent>>

PNext == PBegin \/ PFinishStep \/ PCorrect \/ PEnd

PSpec == PInit /\ [][PNext]_pvars
=============================================================================
