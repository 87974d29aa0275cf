----------------------------- MODULE GatewayLock -----------------------------
(***************************************************************************)
(* How gateway processes of one config and port start, restart and stop    *)
(* beside each other: the lock file of src/infra/gateway-lock.ts, the bind *)
(* of src/gateway/server/http-listen.ts, and the run loop of               *)
(* src/cli/gateway-cli/run-loop.ts that takes, releases and takes the lock *)
(* again around them.  Every file operation, the probe of the port and     *)
(* every lifecycle await is a step.                                        *)
(*                                                                         *)
(* A process may die at any of them; that includes the loop's own forced   *)
(* exits, which skip the release.  A lock file is an orphan once the       *)
(* process that created it is gone: its pid is dead, or belongs to another *)
(* process with another start time.                                        *)
(***************************************************************************)
EXTENDS Naturals, FiniteSets

CONSTANTS
  Procs,       \* processes
  Supervised,  \* those that somebody starts again whenever they are gone
  MaxDeaths,   \* bound: deaths without a release
  MaxFailures, \* bound: starts that fail although the port is free
  MaxRequests, \* bound: restart and stop requests
  NoFile,      \* no lock file
  NoProc       \* nobody

ASSUME BoundsAssumption ==
  MaxDeaths \in Nat /\ MaxFailures \in Nat /\ MaxRequests \in Nat
ASSUME NamesAssumption ==
  NoProc \notin Procs /\ Supervised \subseteq Procs /\ Supervised # {}

VARIABLES
  file,      \* the lock file
  port,      \* the listener of the port
  proc,      \* the processes
  deaths,    \* deaths so far
  failures,  \* failed starts so far, those over a taken port apart
  requests   \* requests so far

vars == <<file, port, proc, deaths, failures, requests>>

\* A file has its payload once it is written; it is aged when staleMs is over.
File == [by : Procs, written : BOOLEAN, aged : BOOLEAN, orphan : BOOLEAN]

Acquiring == {"open", "write", "read", "probe", "stat", "remove", "again"}
Phases == Acquiring \cup
          {"off", "starting", "serving", "closing", "releasing", "relaunch", "failed"}

\* first: no start has succeeded yet.  lock: the handle is held.  owner: whose
\* payload was read last.  pending: a restart waits for the startup to end.
\* after: what the accepted request is.
Process ==
  [pc : Phases, first : BOOLEAN, lock : BOOLEAN, hadLock : BOOLEAN,
   owner : Procs \cup {NoProc, "gone"}, pending : BOOLEAN,
   after : {"exit", "restart"}]

Off == [pc |-> "off", first |-> TRUE, lock |-> FALSE, hadLock |-> FALSE,
        owner |-> NoProc, pending |-> FALSE, after |-> "exit"]

TypeOK ==
  /\ file \in File \cup {NoFile}
  /\ port \in Procs \cup {NoProc}
  /\ proc \in [Procs -> Process]
  /\ deaths \in 0..MaxDeaths
  /\ failures \in 0..MaxFailures
  /\ requests \in 0..MaxRequests

Init ==
  /\ file = NoFile
  /\ port = NoProc
  /\ proc = [p \in Procs |-> Off]
  /\ deaths = 0
  /\ failures = 0
  /\ requests = 0

-----------------------------------------------------------------------------
(***************************************************************************)
(* Effects.                                                                *)
(***************************************************************************)

keepCounts == UNCHANGED <<deaths, failures, requests>>

goto(p, phase) == proc' = [proc EXCEPT ![p].pc = phase]

\* The process is gone: whoever read its payload will find the pid dead.
gone(p) ==
  proc' = [q \in Procs |->
             IF q = p THEN Off
             ELSE IF proc[q].owner = p THEN [proc[q] EXCEPT !.owner = "gone"]
             ELSE proc[q]]

orphaned(f, p) == IF f # NoFile /\ f.by = p THEN [f EXCEPT !.orphan = TRUE] ELSE f

\* lock.release: the path is removed, whoever's file it is by now.
released(p) == IF proc[p].lock THEN NoFile ELSE file

\* Mutant: a start that fails leaves without its finally.
startThrows_Unreleased(p) == file' = orphaned(file, p)

\* The finally of the loop when a start throws.
startThrows(p) == file' = orphaned(released(p), p)

-----------------------------------------------------------------------------
(***************************************************************************)
(* acquireGatewayLock.                                                     *)
(***************************************************************************)

\* The operator or the supervisor starts the process.
launch(p) ==
  /\ proc[p].pc = "off"
  /\ goto(p, "open")
  /\ keepCounts
  /\ UNCHANGED <<file, port>>

\* open(path, "wx")
openLock(p) ==
  /\ proc[p].pc = "open"
  /\ IF file = NoFile
     THEN /\ file' = [by |-> p, written |-> FALSE, aged |-> FALSE, orphan |-> FALSE]
          /\ goto(p, "write")
     ELSE goto(p, "read") /\ UNCHANGED file
  /\ keepCounts
  /\ UNCHANGED port

\* The payload goes into the file that was opened, which may have been removed
\* from the path since.
writePayload(p) ==
  /\ proc[p].pc = "write"
  /\ file' = IF file # NoFile /\ file.by = p THEN [file EXCEPT !.written = TRUE] ELSE file
  /\ proc' = [proc EXCEPT ![p].pc = "starting", ![p].lock = TRUE]
  /\ keepCounts
  /\ UNCHANGED port

readLockPayload(p) ==
  LET readable == file # NoFile /\ file.written
  IN /\ proc[p].pc = "read"
     /\ proc' = [proc EXCEPT
          ![p].pc = IF readable THEN "probe" ELSE "stat",
          ![p].owner = IF ~readable THEN NoProc
                       ELSE IF file.orphan THEN "gone" ELSE file.by]
     /\ keepCounts
     /\ UNCHANGED <<file, port>>

\* The owner is dead if nobody listens on the port, or if its pid is.
resolveGatewayOwnerStatus(p) ==
  /\ proc[p].pc = "probe"
  /\ goto(p, IF port = NoProc \/ proc[p].owner = "gone" THEN "remove" ELSE "again")
  /\ keepCounts
  /\ UNCHANGED <<file, port>>

\* Mutant: a file without a payload is not looked at.
staleFile_PayloadOnly == FALSE

\* A file without a payload is judged by its age.
staleFile == file # NoFile /\ file.aged

statLock(p) ==
  /\ proc[p].pc = "stat"
  /\ goto(p, IF staleFile THEN "remove" ELSE "again")
  /\ keepCounts
  /\ UNCHANGED <<file, port>>

removeLock(p) ==
  /\ proc[p].pc = "remove"
  /\ file' = NoFile
  /\ goto(p, "again")
  /\ keepCounts
  /\ UNCHANGED port

\* The loop goes round, after its pause or after a removal.
pollAgain(p) ==
  /\ proc[p].pc = "again"
  /\ goto(p, "open")
  /\ keepCounts
  /\ UNCHANGED <<file, port>>

\* "gateway already running": the process exits; it has no lock to release.
lockTimeout(p) ==
  /\ proc[p].pc = "again"
  /\ gone(p)
  /\ file' = orphaned(file, p)
  /\ keepCounts
  /\ UNCHANGED port

\* A file stays without payload only if its writer is gone; then staleMs passes.
age ==
  /\ file # NoFile
  /\ ~file.written
  /\ ~file.aged
  /\ file.orphan
  /\ file' = [file EXCEPT !.aged = TRUE]
  /\ keepCounts
  /\ UNCHANGED <<port, proc>>

-----------------------------------------------------------------------------
(***************************************************************************)
(* The run loop.                                                           *)
(***************************************************************************)

\* Mutant: nobody looks at the restart that waited.
listenGatewayHttpServer_Unflushed(p) ==
  /\ proc[p].pc = "starting"
  /\ port = NoProc
  /\ port' = p
  /\ proc' = [proc EXCEPT ![p].pc = "serving", ![p].first = FALSE]
  /\ keepCounts
  /\ UNCHANGED file

\* The server listens and start returns it; a restart that waited for it is
\* run at once.
listenGatewayHttpServer(p) ==
  /\ proc[p].pc = "starting"
  /\ port = NoProc
  /\ port' = p
  /\ proc' = [proc EXCEPT
       ![p].pc = IF proc[p].pending THEN "closing" ELSE "serving",
       ![p].first = FALSE,
       ![p].after = IF proc[p].pending THEN "restart" ELSE "exit",
       ![p].pending = FALSE]
  /\ keepCounts
  /\ UNCHANGED file

\* The port stays taken through all retries, or the start fails otherwise.
\* The first start ends the process; a later one leaves it without a server
\* and without the lock, unless a restart is pending, which then runs.
startFails(p) ==
  /\ proc[p].pc = "starting"
  /\ port = NoProc => failures < MaxFailures
  /\ failures' = IF port = NoProc THEN failures + 1 ELSE failures
  /\ IF proc[p].first
     THEN gone(p) /\ startThrows(p)
     ELSE IF proc[p].pending
     THEN /\ proc' = [proc EXCEPT ![p].pc = "releasing", ![p].after = "restart",
                                  ![p].pending = FALSE]
          /\ UNCHANGED file
     ELSE /\ file' = released(p)
          /\ proc' = [proc EXCEPT ![p].pc = "failed", ![p].lock = FALSE]
  /\ UNCHANGED <<port, deaths, requests>>

asked ==
  /\ requests < MaxRequests
  /\ requests' = requests + 1
  /\ UNCHANGED <<file, port, deaths, failures>>

\* A restart waits for a startup, closes a server, or retries a failed start.
requestRestart(p) ==
  /\ proc[p].pc \in {"starting", "serving", "failed"}
  /\ ~proc[p].pending
  /\ proc' = [proc EXCEPT
       ![p].pc = IF proc[p].pc = "serving" THEN "closing"
                 ELSE IF proc[p].pc = "failed" THEN "releasing" ELSE "starting",
       ![p].pending = (proc[p].pc = "starting"),
       ![p].after = "restart"]
  /\ asked

\* A stop overrides a restart that still waits; without a server there is
\* nothing to close.  Requests during a shutdown are ignored.
requestStop(p) ==
  /\ proc[p].pc \in {"starting", "serving", "failed"}
  /\ proc' = [proc EXCEPT
       ![p].pc = IF proc[p].pc = "serving" THEN "closing" ELSE "releasing",
       ![p].pending = FALSE,
       ![p].after = "exit"]
  /\ asked

closeServer(p) ==
  /\ proc[p].pc = "closing"
  /\ port' = NoProc
  /\ goto(p, "releasing")
  /\ keepCounts
  /\ UNCHANGED file

releaseLockIfHeld(p) ==
  /\ proc[p].pc = "releasing"
  /\ IF proc[p].after = "exit"
     THEN gone(p) /\ file' = orphaned(released(p), p)
     ELSE /\ file' = released(p)
          /\ proc' = [proc EXCEPT ![p].pc = "relaunch",
                                  ![p].lock = FALSE, ![p].hadLock = proc[p].lock]
  /\ keepCounts
  /\ UNCHANGED port

\* A fresh process takes over; or this one acquires the lock again, which the
\* fallback of an update restart skips if it had none.
handleRestartAfterServerClose(p) ==
  /\ proc[p].pc = "relaunch"
  /\ \/ gone(p) /\ file' = orphaned(file, p)
     \/ goto(p, "open") /\ UNCHANGED file
     \/ ~proc[p].hadLock /\ goto(p, "starting") /\ UNCHANGED file
  /\ keepCounts
  /\ UNCHANGED port

\* Killed, crashed, past a forced-exit timer, or unable to write the payload.
die(p) ==
  /\ proc[p].pc # "off"
  /\ deaths < MaxDeaths
  /\ deaths' = deaths + 1
  /\ gone(p)
  /\ file' = orphaned(file, p)
  /\ port' = IF port = p THEN NoProc ELSE port
  /\ UNCHANGED <<failures, requests>>

\* A step of the process's own code.
advance(p) ==
  \/ openLock(p)
  \/ writePayload(p)
  \/ readLockPayload(p)
  \/ resolveGatewayOwnerStatus(p)
  \/ statLock(p)
  \/ removeLock(p)
  \/ pollAgain(p)
  \/ listenGatewayHttpServer(p)
  \/ closeServer(p)
  \/ releaseLockIfHeld(p)
  \/ handleRestartAfterServerClose(p)

Next ==
  \/ age
  \/ \E p \in Procs : \/ launch(p)
                      \/ advance(p)
                      \/ lockTimeout(p)
                      \/ startFails(p)
                      \/ requestRestart(p)
                      \/ requestStop(p)
                      \/ die(p)

Spec == Init /\ [][Next]_vars

\* The code's own steps are taken, a start ends one way or the other, time
\* passes, and whoever starts the supervised processes keeps at it.
Fairness ==
  /\ WF_vars(age)
  /\ \A p \in Procs : WF_vars(advance(p) \/ startFails(p))
  /\ \A p \in Supervised : WF_vars(launch(p))

FairSpec == Spec /\ Fairness

-----------------------------------------------------------------------------
(***************************************************************************)
(* What the lock and the loop promise.                                     *)
(***************************************************************************)

\* The port's listener is the process that serves or is closing its server,
\* and the lock handle is held from the write of the payload to the release:
\* a process that failed to restart, or is between two lives, has neither, and
\* only one that has served before gets there.
HoldsByPhase ==
  \A p \in Procs :
    /\ (port = p) <=> proc[p].pc \in {"serving", "closing"}
    /\ proc[p].lock => proc[p].pc \in {"starting", "serving", "closing", "releasing"}
    /\ proc[p].pc = "starting" /\ proc[p].first => proc[p].lock
    /\ \/ proc[p].pc \in {"serving", "closing", "failed", "relaunch"}
       \/ proc[p].pc = "releasing" /\ proc[p].after = "restart"
       => ~proc[p].first

\* A lock file that is at the path was created by a process that still works
\* under it and will release it, or by one that died: a start that throws, a
\* restart that gives up and a stop never leave a file behind.
FileHasWorker ==
  file # NoFile =>
    IF file.orphan THEN deaths > 0
    ELSE proc[file.by].lock \/ proc[file.by].pc = "write"

\* The inductive invariant: whatever a process was at when it died, failed or
\* was asked to restart, the listener is the process that serves and a lock
\* file is at work or an orphan (runGatewayLoop, acquireGatewayLock).
IInv == TypeOK /\ HoldsByPhase /\ FileHasWorker

\* Whatever died at whichever step, an empty lock file, a stale one, a file
\* removed under its owner, a gateway serves again and again; unless a
\* supervised process failed to restart itself and stays alive without one.
SomeoneServes ==
  []<>(\/ \E p \in Procs : proc[p].pc = "serving"
       \/ \E p \in Supervised : proc[p].pc = "failed")

\* A restart that was accepted while the server was starting is not lost: the
\* process closes what it started, or it ends.
WaitingRestartRuns ==
  \A p \in Procs :
    proc[p].pending ~> proc[p].pc \in {"closing", "releasing", "off"}
=============================================================================
