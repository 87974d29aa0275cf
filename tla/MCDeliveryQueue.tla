-------------------------- MODULE MCDeliveryQueue --------------------------
(***************************************************************************)
(* Deliveries of two payloads, their live senders, the startup pass and a  *)
(* drain.  The instance is explored from two sides, chosen at the start:   *)
(* "solo" has one delivery under every policy (best effort only without an *)
(* adapter that reconciles), with a crash or a storage fault (or both,     *)
(* when it is required and reconciled) and an adapter that may not find    *)
(* what is out; "pair" has two deliveries and a drain, so that a snapshot  *)
(* goes stale while the pass works on the other one.  Only steps under no  *)
(* fairness condition are restricted: who sends, who aborts, what crashes  *)
(* or fails, and whether a hook cancels a payload, which no worker has to  *)
(* wait for.                                                               *)
(***************************************************************************)
EXTENDS DeliveryQueue

CONSTANTS a, b
VARIABLE focus

MCEntry == {a, b}

Plain == [bestEffort |-> FALSE, queuePolicy |-> "required", reconciles |-> FALSE,
          lagging |-> FALSE, aborted |-> FALSE]

RequiredAndReconciled ==
  [call[a] EXCEPT !.aborted = FALSE] = [Plain EXCEPT !.reconciles = TRUE]

MCInit ==
  /\ Init
  /\ focus \in {"solo", "pair"}
  /\ call[b] = Plain
  /\ focus = "pair" => call[a] = Plain
  /\ call[a].bestEffort => ~call[a].reconciles
  /\ call[a].lagging => call[a] = [Plain EXCEPT !.reconciles = TRUE, !.lagging = TRUE]

MCNext ==
  /\ Next
  /\ UNCHANGED focus
  /\ focus = "solo" =>
       /\ worker'[b] = worker[b] /\ ~call'[b].aborted
       /\ (crashes' + faults' < 2 \/ RequiredAndReconciled)
  /\ focus = "pair" =>
       /\ worker'[Startup].pc = "idle"
       /\ faults' = 0 /\ crashes' = 0
       /\ \A e \in Entry : ~call'[e].aborted /\ platform'[e].suppressed = {}

MCSpec == MCInit /\ [][MCNext]_<<vars, focus>> /\ Fairness
=============================================================================
