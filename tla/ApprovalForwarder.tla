------------------------- MODULE ApprovalForwarder -------------------------
(***************************************************************************)
(* The forwarder that puts an approval request in front of a human on a    *)
(* chat channel and closes the prompt afterwards                           *)
(* (src/infra/exec-approval-forwarder.ts).  Every await of the code is a   *)
(* place where the decision, the expiry or another request can come in.    *)
(* The targets of a request are independent of each other, so one chat     *)
(* stands for all: thread[r] is what was posted in it.  A post that fails  *)
(* is logged and never tried again; it is counted as posted here.          *)
(*                                                                         *)
(* PendingApproval extends this module with the gateway's records and      *)
(* calls handleRequested and handleResolved within its own steps.          *)
(***************************************************************************)
EXTENDS Integers, Sequences, FiniteSets

CONSTANTS Request,     \* requests for approval, each with a record of its own
          Id, IdOf,    \* the approval ids, and the id each request has
          None

ASSUME ForwarderAssumption == /\ IdOf \in [Request -> Id]
                              /\ None \notin Request

VARIABLES slot,    \* the forwarder's map from approval ids to pending entries
          note,    \* what the forwarder has under way for each request
          clock    \* each request's time: before, at or past its expiresAtMs

fwdVars == <<slot, note, clock>>

Slot == [state: {"free", "routing", "ready"}, of: Request \cup {None}]

Free == [state |-> "free", of |-> None]
Routing(r) == [state |-> "routing", of |-> r]
Ready(r) == [state |-> "ready", of |-> r]

Note == [route: {"none", "routing", "forwarded", "unrouted"},  \* handleRequested's promise
         prompt: {"none", "queued", "sending", "done"},        \* pendingDelivery
         timer: BOOLEAN,                                       \* the expiry notice's timer
         expiry: {"none", "waiting", "done"},
         closing: {"none", "gated", "waiting", "rerouting", "done"},
         entry: Request \cup {None},   \* whose entry the outcome found, and waits for
         thread: Seq({"prompt", "resolved", "expired"})]

NewNote == [route |-> "none", prompt |-> "none", timer |-> FALSE,
            expiry |-> "none", closing |-> "none", entry |-> None, thread |-> << >>]

ForwarderInit == /\ slot = [i \in Id |-> Free]
                 /\ note = [r \in Request |-> NewNote]
                 /\ clock = [r \in Request |-> "before"]

due(r) == clock[r] # "before"

-----------------------------------------------------------------------------
(* Called within the gateway's steps.                                      *)

\* The placeholder is installed before the route lookup yields.
handleRequested(r) == /\ slot' = [slot EXCEPT ![IdOf[r]] = Routing(r)]
                      /\ note' = [note EXCEPT ![r].route = "routing"]

closingState(r) == IF slot[IdOf[r]].state = "ready" THEN "waiting" ELSE "rerouting"

handleResolved(r) ==
  LET entry == slot[IdOf[r]]
  IN  /\ note' = [q \in Request |->
                    [note[q] EXCEPT
                       !.timer = note[q].timer /\ entry # Ready(q),
                       !.closing = IF q = r THEN closingState(r) ELSE note[q].closing,
                       !.entry = IF q = r THEN entry.of ELSE note[q].entry]]
      /\ slot' = [slot EXCEPT ![IdOf[r]] = Free]

-----------------------------------------------------------------------------
(* The forwarder's own steps.                                              *)

\* The lookup returned: a placeholder that is gone or replaced ends the
\* request's forwarding; otherwise the entry is installed with its timer, and
\* the post is queued.  A lookup that throws ends like one without targets.
current(r) == slot[IdOf[r]] = Routing(r)

routed(r) ==
  /\ note[r].route = "routing"
  /\ \/ /\ current(r)
        /\ slot' = [slot EXCEPT ![IdOf[r]] = Ready(r)]
        /\ note' = [note EXCEPT ![r] = [note[r] EXCEPT !.route = "forwarded",
                                                      !.prompt = "queued", !.timer = TRUE]]
     \/ /\ slot' = IF current(r) THEN [slot EXCEPT ![IdOf[r]] = Free] ELSE slot
        /\ note' = [note EXCEPT ![r].route = "unrouted"]
  /\ UNCHANGED clock

\* The queued post checks that its entry still stands, once, before the
\* channel's preparation and the send are awaited.
shouldSend(r) == slot[IdOf[r]] = Ready(r)

startPrompt(r) ==
  /\ note[r].prompt = "queued"
  /\ note' = [note EXCEPT ![r].prompt = IF shouldSend(r) THEN "sending" ELSE "done"]
  /\ UNCHANGED <<slot, clock>>

post(r, m) == Append(note[r].thread, m)

promptSent(r) ==
  /\ note[r].prompt = "sending"
  /\ note' = [note EXCEPT ![r] = [note[r] EXCEPT !.prompt = "done",
                                                !.thread = post(r, "prompt")]]
  /\ UNCHANGED <<slot, clock>>

noticeOf(q) == "waiting"

expiryDue(r) ==
  LET entry == slot[IdOf[r]]
      live == entry.state = "ready"
  IN  /\ note[r].timer
      /\ due(r)
      /\ note' = [q \in Request |->
                    [note[q] EXCEPT
                       !.timer = note[q].timer /\ q # r,
                       !.expiry = IF live /\ q = entry.of THEN noticeOf(q) ELSE note[q].expiry]]
      /\ slot' = IF live THEN [slot EXCEPT ![IdOf[r]] = Free] ELSE slot
      /\ UNCHANGED clock

expirySent(r) ==
  /\ note[r].expiry = "waiting"
  /\ note[r].prompt = "done"
  /\ note' = [note EXCEPT ![r] = [note[r] EXCEPT !.expiry = "done",
                                                !.thread = post(r, "expired")]]
  /\ UNCHANGED <<slot, clock>>

\* To the chat of the entry it found, after that one's prompt; or after a
\* fresh lookup that may find no target.
resolvedSent(r) ==
  /\ \/ LET e == note[r].entry
        IN  /\ note[r].closing = "waiting"
            /\ note[e].prompt = "done"
            /\ note' = [q \in Request |->
                          [note[q] EXCEPT
                             !.closing = IF q = r THEN "done" ELSE note[q].closing,
                             !.thread = IF q = e THEN post(e, "resolved") ELSE note[q].thread]]
     \/ /\ note[r].closing = "rerouting"
        /\ \E th \in {note[r].thread, post(r, "resolved")} :
             note' = [note EXCEPT ![r] = [note[r] EXCEPT !.closing = "done", !.thread = th]]
  /\ UNCHANGED <<slot, clock>>

tick(r) ==
  /\ clock[r] # "past"
  /\ clock' = [clock EXCEPT ![r] = IF clock[r] = "before" THEN "at" ELSE "past"]
  /\ UNCHANGED <<slot, note>>

forwards(r) == \/ routed(r) \/ startPrompt(r) \/ promptSent(r)
               \/ expirySent(r) \/ resolvedSent(r)

-----------------------------------------------------------------------------
ForwarderTypeOK == /\ slot \in [Id -> Slot]
                   /\ note \in [Request -> Note]
                   /\ clock \in [Request -> {"before", "at", "past"}]

\* An entry belongs to a request with its id that was not closed yet, and is
\* as far as that request's lookup.
EntriesAreOpen == \A i \in Id : slot[i].state # "free" =>
  LET r == slot[i].of
  IN  /\ r \in Request /\ IdOf[r] = i
      /\ note[r].closing \in {"none", "gated"}
      /\ slot[i].state = "routing" => note[r].route = "routing"
      /\ slot[i].state = "ready" => note[r].route = "forwarded"

\* What is posted before the prompt is at most an outcome, and one that found
\* no entry of its own to wait for because the expiry timer had taken it.
PromptComesFirst == \A r \in Request :
  LET n == note[r]
  IN  /\ n.route = "routing" => n.prompt = "none"
      /\ n.closing = "waiting" => n.entry \in Request
      /\ n.prompt # "done" =>
           /\ n.expiry # "done"
           /\ n.thread = << >> \/ (n.thread = <<"resolved">> /\ n.closing = "done")
      /\ n.prompt = "sending" /\ n.closing \in {"waiting", "rerouting", "done"} =>
           n.expiry # "none" \/ (n.closing = "waiting" /\ n.entry = r)

(***************************************************************************)
(* A prompt is never posted below an outcome, unless the prompt was still  *)
(* on its way when its own expiry timer took the entry: handleResolved     *)
(* removes the entry first and then waits for the send in flight, the      *)
(* timer does the same, and a lookup that returns afterwards finds its     *)
(* placeholder gone.                                                       *)
(***************************************************************************)
NoLatePrompt == \A r \in Request : \A j \in 2..Len(note[r].thread) :
  note[r].thread[j] = "prompt" => note[r].expiry # "none" /\ note[r].thread[1] = "resolved"

\* The last thing in the chat is the prompt.
open(r) == LET n == Len(note[r].thread) IN n > 0 /\ note[r].thread[n] = "prompt"

(***************************************************************************)
(* A prompt does not stay open: the decision or the expiry is posted under *)
(* every prompt that was posted.                                           *)
(***************************************************************************)
PromptClosed == \A r \in Request : open(r) ~> ~open(r)

=============================================================================
