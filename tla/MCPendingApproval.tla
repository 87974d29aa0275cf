------------------------- MODULE MCPendingApproval -------------------------
(***************************************************************************)
(* A small instance of PendingApproval.  x1 and x2 are exec requests that  *)
(* bring the same id: x1 needs no route, x2 has no delivery.  q is a       *)
(* plugin request whose caller is the approval runtime.  The instance is   *)
(* explored from three sides, chosen at the start: "reuse" has x1 and x2   *)
(* and an operator who allows once; "use" has x2, two operators, a client  *)
(* that waits and runs on the node; "plugin" has q, an operator and the    *)
(* runtime's wait.                                                         *)
(* Only steps under no fairness condition are restricted: who asks,        *)
(* decides, waits and runs.                                                *)
(***************************************************************************)
EXTENDS PendingApproval

CONSTANTS x1, x2, q, o1, o2, w1, w2, idX, idQ
VARIABLE focus

MCRequest == {x1, x2, q}
MCOperator == {o1, o2}

MCWaiter == {w1, w2}

MCIdOf == [r \in Request |-> IF r = q THEN idQ ELSE idX]

\* The plugin offers no allow-always.
MCAllowed == [r \in Request |-> IF r = q THEN Decisions \ {"allow-always"} ELSE Decisions]

Asking == [reuse |-> {x1, x2}, use |-> {x2}, plugin |-> {q}]
Deciding == [reuse |-> {o1}, use |-> {o1, o2}, plugin |-> {o1}]
Awaiting == [reuse |-> {}, use |-> {w2}, plugin |-> {w1}]

MCInit == Init /\ focus \in DOMAIN Asking

MCNext ==
  /\ Next
  /\ UNCHANGED focus
  /\ \A r \in Request \ Asking[focus] : call'[r] = call[r]
  /\ \A o \in Operator \ Deciding[focus] : op'[o] = op[o]
  /\ \A w \in Waiter \ Awaiting[focus] : waiter'[w] = waiter[w]
  /\ focus # "use" => used' = used
  /\ focus = "reuse" => op'[o1].decision \notin {"allow-always", "deny"}

MCSpec == MCInit /\ [][MCNext]_<<vars, focus>> /\ Fairness

=============================================================================
