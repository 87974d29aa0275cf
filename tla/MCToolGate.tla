----------------------------- MODULE MCToolGate -----------------------------
(***************************************************************************)
(* Two steps and two parameter values: every effect occurs at a step the   *)
(* cursor leaves and at one it enters.                                     *)
(***************************************************************************)
EXTENDS ToolGate

(* Asks for one parameter value at the first step and denies it at the     *)
(* second; the other is let through at both.                               *)
MCStrict == [s \in Node \X Params |->
  IF s[2] = "q" THEN IF s[1] = "n1" THEN "allow" ELSE "silent"
  ELSE IF s[1] = "n1" THEN "approve" ELSE "deny"]

(* Lets through what the strict one asks for, and asks at the second step. *)
MCLoose == [s \in Node \X Params |->
  IF s[1] = "n2" THEN "approve" ELSE IF s[2] = "q" THEN "fault" ELSE "allow"]

MCPolicies == {MCStrict, MCLoose}
MCOutward == {<<"n1", "p">>, <<"n1", "q">>, <<"n2", "p">>}
=============================================================================
