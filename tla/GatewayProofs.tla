--------------------------- MODULE GatewayProofs ----------------------------
(***************************************************************************)
(* One gateway process: who may be it, and what runs in it.                *)
(*                                                                         *)
(* GatewayLock, for any number of processes, deaths, failures and          *)
(* requests.  The invariant is inductive because every way out of a        *)
(* process goes through one of two doors: gone(p) with the file released   *)
(* or not its own, or die(p), which is counted.                            *)
(*                                                                         *)
(* CommandLane, for any number of lanes, tasks and waiters, any priorities *)
(* and any concurrencies.  Its invariant is stated of given lanes, entries *)
(* and sequence, so that it can be said of the state between an update and *)
(* the pump that ends the step: there it holds but for idle slots, and the *)
(* pump fills those.  The two components share no state; the second half   *)
(* stands on its own.                                                      *)
(***************************************************************************)
EXTENDS GatewayLock, CommandLane, FiniteSetTheorems, FunctionTheorems,
        SequenceTheorems, WellFoundedInduction, TLAPS

-----------------------------------------------------------------------------
(***************************************************************************)
(* The gateway lock.                                                       *)
(***************************************************************************)

\* Records with legal fields are processes; one lemma per shape of update.
LEMMA PcOwner ==
  ASSUME NEW r \in Process, NEW x \in Phases, NEW o \in Procs \cup {NoProc, "gone"}
  PROVE  [r EXCEPT !.pc = x, !.owner = o] \in Process
  BY DEF Process

LEMMA PcLock ==
  ASSUME NEW r \in Process, NEW x \in Phases, NEW l \in BOOLEAN
  PROVE  [r EXCEPT !.pc = x, !.lock = l] \in Process
  BY DEF Process

LEMMA PcHadLock ==
  ASSUME NEW r \in Process, NEW x \in Phases
  PROVE  [r EXCEPT !.pc = x, !.lock = FALSE, !.hadLock = r.lock] \in Process
  BY DEF Process

LEMMA PcRequest ==
  ASSUME NEW r \in Process, NEW x \in Phases, NEW b \in BOOLEAN,
         NEW a \in {"exit", "restart"}
  PROVE  [r EXCEPT !.pc = x, !.pending = b, !.after = a] \in Process
  BY DEF Process

LEMMA PcStarted ==
  ASSUME NEW r \in Process, NEW x \in Phases, NEW a \in {"exit", "restart"}
  PROVE  [r EXCEPT !.pc = x, !.first = FALSE, !.after = a, !.pending = FALSE] \in Process
  BY DEF Process

\* Names of phases.
LEMMA PhaseNames ==
  /\ "off" \in Phases /\ "open" \in Phases /\ "write" \in Phases
  /\ "read" \in Phases /\ "probe" \in Phases /\ "stat" \in Phases
  /\ "remove" \in Phases /\ "again" \in Phases /\ "starting" \in Phases
  /\ "serving" \in Phases /\ "closing" \in Phases /\ "releasing" \in Phases
  /\ "relaunch" \in Phases /\ "failed" \in Phases
  BY DEF Phases, Acquiring

\* Every process has its record.
LEMMA HasRecord == ASSUME IInv, NEW p \in Procs PROVE proc[p] \in Process
  BY DEF IInv, TypeOK

USE PhaseNames DEF File, Process

\* Off is what a process is before it is launched.
LEMMA OffIsProcess == Off \in Process
  BY DEF Off

\* exitProcess keeps the types of the processes.
LEMMA GoneType ==
  ASSUME TypeOK, NEW p \in Procs, gone(p)
  PROVE  /\ proc' \in [Procs -> Process]
         /\ proc'[p] = Off
         /\ \A q \in Procs \ {p} : /\ proc'[q].pc = proc[q].pc
                                   /\ proc'[q].lock = proc[q].lock
                                   /\ proc'[q].first = proc[q].first
                                   /\ proc'[q].after = proc[q].after
  <1>1. \A q \in Procs : [proc[q] EXCEPT !.owner = "gone"] \in Process
    BY DEF TypeOK
  <1>2. QED
    BY <1>1, OffIsProcess DEF TypeOK, gone

\* A file judged after its process is gone is still a file, or none.
LEMMA FileTypes ==
  ASSUME TypeOK, NEW p \in Procs
  PROVE  /\ released(p) \in File \cup {NoFile}
         /\ orphaned(file, p) \in File \cup {NoFile}
         /\ orphaned(released(p), p) \in File \cup {NoFile}
  BY DEF TypeOK, released, orphaned

LEMMA InitIInv == Init => IInv
  BY NamesAssumption, BoundsAssumption, OffIsProcess
     DEF Init, IInv, TypeOK, HoldsByPhase, FileHasWorker, Off

\* The steps that take the lock.
LEMMA AcquireKeepsIInv ==
  ASSUME IInv, NEW p \in Procs,
         \/ launch(p) \/ openLock(p) \/ writePayload(p) \/ readLockPayload(p)
         \/ resolveGatewayOwnerStatus(p) \/ statLock(p) \/ removeLock(p)
         \/ pollAgain(p)
  PROVE  IInv'
  <1> USE NamesAssumption DEF IInv, TypeOK, HoldsByPhase, FileHasWorker, keepCounts, goto
  <1>1. CASE launch(p)
    BY <1>1 DEF launch
  <1>2. CASE openLock(p)
    <2>1. CASE file = NoFile
      <3>1. /\ file' = [by |-> p, written |-> FALSE, aged |-> FALSE, orphan |-> FALSE]
            /\ proc' = [proc EXCEPT ![p].pc = "write"]
            /\ UNCHANGED <<port, deaths, failures, requests>>
        BY <1>2, <2>1 DEF openLock
      <3>2. file' \in File /\ file'.by = p /\ ~file'.orphan
        BY <3>1
      <3>3. TypeOK'
        BY <3>1, <3>2
      <3>4. HoldsByPhase'
        BY <1>2, <3>1 DEF openLock
      <3>5. FileHasWorker'
        BY <3>1, <3>2
      <3>6. QED
        BY <3>3, <3>4, <3>5
    <2>2. CASE file # NoFile
      BY <1>2, <2>2 DEF openLock
    <2>3. QED
      BY <2>1, <2>2
  <1>3. CASE writePayload(p)
    BY <1>3 DEF writePayload
  <1>4. CASE readLockPayload(p)
    <2>1. \E x \in {"probe", "stat"}, o \in Procs \cup {NoProc, "gone"} :
             proc' = [proc EXCEPT ![p].pc = x, ![p].owner = o]
      BY <1>4 DEF readLockPayload
    <2>2. proc[p].pc = "read" /\ UNCHANGED <<file, port, deaths, failures, requests>>
      BY <1>4 DEF readLockPayload
    <2>3. TypeOK'
      <3>1. PICK x \in {"probe", "stat"}, o \in Procs \cup {NoProc, "gone"} :
               proc' = [proc EXCEPT ![p].pc = x, ![p].owner = o]
        BY <2>1
      <3>2. x \in Phases
        OBVIOUS
      <3>3. proc[p] \in Process
        BY HasRecord
      <3>4. [proc[p] EXCEPT !.pc = x, !.owner = o] \in Process
        <4> HIDE PhaseNames DEF Process, IInv, TypeOK, HoldsByPhase, FileHasWorker
        <4>1. QED
          BY <3>2, <3>3, PcOwner
      <3>5. QED
        BY <2>2, <3>1, <3>4
    <2>4. HoldsByPhase' /\ FileHasWorker'
      BY <2>1, <2>2
    <2>5. QED
      BY <2>3, <2>4
  <1>5. CASE resolveGatewayOwnerStatus(p)
    BY <1>5 DEF resolveGatewayOwnerStatus
  <1>6. CASE statLock(p)
    BY <1>6 DEF statLock
  <1>7. CASE removeLock(p)
    BY <1>7 DEF removeLock
  <1>8. CASE pollAgain(p)
    BY <1>8 DEF pollAgain
  <1>9. QED
    BY <1>1, <1>2, <1>3, <1>4, <1>5, <1>6, <1>7, <1>8

\* A process that does not listen leaves, its handle released if it had one.
LEMMA LeaveKeepsIInv ==
  ASSUME IInv, NEW p \in Procs, gone(p),
         proc[p].pc \notin {"write", "serving", "closing"},
         file' = orphaned(released(p), p),
         UNCHANGED <<port, deaths, requests>>,
         failures' \in 0..MaxFailures
  PROVE  IInv'
  <1>1. TypeOK'
    BY GoneType, FileTypes DEF IInv, TypeOK
  <1>2. HoldsByPhase'
    BY GoneType DEF IInv, HoldsByPhase, Off
  <1>3. FileHasWorker'
    BY GoneType DEF IInv, TypeOK, FileHasWorker, released, orphaned
  <1>4. QED
    BY <1>1, <1>2, <1>3 DEF IInv

\* A process that dies leaves its file behind, and the death is counted.
LEMMA DieKeepsIInv ==
  ASSUME IInv, NEW p \in Procs, die(p)
  PROVE  IInv'
  <1>1. deaths' = deaths + 1 /\ deaths' \in 0..MaxDeaths /\ deaths' > 0
    BY BoundsAssumption DEF IInv, TypeOK, die
  <1>2. TypeOK'
    BY <1>1, GoneType, FileTypes DEF IInv, TypeOK, die
  <1>3. HoldsByPhase'
    BY GoneType, NamesAssumption DEF IInv, HoldsByPhase, Off, die
  <1>4. FileHasWorker'
    BY <1>1, GoneType DEF IInv, TypeOK, FileHasWorker, orphaned, die
  <1>5. QED
    BY <1>2, <1>3, <1>4 DEF IInv

\* A start that fails: the first ends the process, a later one leaves it.
LEMMA StartFailsKeepsIInv ==
  ASSUME IInv, NEW p \in Procs, startFails(p)
  PROVE  IInv'
  <1>1. failures' \in 0..MaxFailures
    BY BoundsAssumption DEF IInv, TypeOK, startFails
  <1>2. CASE proc[p].first
    BY <1>1, <1>2, LeaveKeepsIInv DEF startFails, startThrows
  <1>3. CASE ~proc[p].first /\ proc[p].pending
    BY <1>1, <1>3, NamesAssumption
       DEF startFails, IInv, TypeOK, HoldsByPhase, FileHasWorker
  <1>4. CASE ~proc[p].first /\ ~proc[p].pending
    <2>1. /\ file' = released(p)
          /\ proc' = [proc EXCEPT ![p].pc = "failed", ![p].lock = FALSE]
          /\ UNCHANGED <<port, deaths, requests>>
          /\ proc[p].pc = "starting"
      BY <1>4 DEF startFails
    <2>2. TypeOK'
      <3>1. proc' \in [Procs -> Process]
        <4>1. [proc[p] EXCEPT !.pc = "failed", !.lock = FALSE] \in Process
          BY HasRecord, PcLock
        <4>2. QED
          BY <2>1, <4>1 DEF IInv, TypeOK
      <3>2. file' \in File \cup {NoFile}
        BY <2>1, FileTypes DEF IInv
      <3>3. QED
        BY <1>1, <2>1, <3>1, <3>2 DEF IInv, TypeOK
    <2>3. HoldsByPhase' /\ FileHasWorker'
      BY <2>1 DEF IInv, TypeOK, HoldsByPhase, FileHasWorker, released
    <2>4. QED
      BY <2>2, <2>3 DEF IInv
  <1>5. QED
    BY <1>2, <1>3, <1>4

\* The steps of the loop.
LEMMA LoopKeepsIInv ==
  ASSUME IInv, NEW p \in Procs,
         \/ listenGatewayHttpServer(p) \/ requestRestart(p) \/ requestStop(p)
         \/ closeServer(p)
  PROVE  IInv'
  <1> USE NamesAssumption, BoundsAssumption
      DEF IInv, TypeOK, HoldsByPhase, FileHasWorker, keepCounts, goto, asked
  <1>1. CASE listenGatewayHttpServer(p)
    <2>1. /\ proc[p].pc = "starting" /\ port = NoProc /\ port' = p
          /\ UNCHANGED <<file, deaths, failures, requests>>
          /\ \E x \in {"closing", "serving"}, a \in {"exit", "restart"} :
               proc' = [proc EXCEPT ![p].pc = x, ![p].first = FALSE,
                                    ![p].after = a, ![p].pending = FALSE]
      BY <1>1 DEF listenGatewayHttpServer
    <2>2. TypeOK'
      <3>1. PICK x \in {"closing", "serving"}, a \in {"exit", "restart"} :
               proc' = [proc EXCEPT ![p].pc = x, ![p].first = FALSE,
                                    ![p].after = a, ![p].pending = FALSE]
        BY <2>1
      <3>2. x \in Phases
        OBVIOUS
      <3>3. proc[p] \in Process
        BY HasRecord
      <3>4. [proc[p] EXCEPT !.pc = x, !.first = FALSE, !.after = a,
                            !.pending = FALSE] \in Process
        <4> HIDE PhaseNames DEF Process, IInv, TypeOK, HoldsByPhase, FileHasWorker
        <4>1. QED
          BY <3>2, <3>3, PcStarted
      <3>5. proc' \in [Procs -> Process]
        <4>1. proc' = [proc EXCEPT ![p] = [proc[p] EXCEPT !.pc = x, !.first = FALSE,
                                                !.after = a, !.pending = FALSE]]
          BY <3>1
        <4> HIDE DEF Process
        <4>2. QED
          BY <3>4, <4>1
      <3>6. QED
        BY <2>1, <3>5
    <2>3. HoldsByPhase' /\ FileHasWorker'
      BY <2>1
    <2>4. QED
      BY <2>2, <2>3
  <1>2. CASE requestRestart(p)
    <2>1. /\ requests' \in 0..MaxRequests
          /\ UNCHANGED <<file, port, deaths, failures>>
      BY <1>2 DEF requestRestart
    <2>2. \E x \in {"closing", "releasing", "starting"}, b \in BOOLEAN :
             /\ proc[p].pc = "serving" => x = "closing"
             /\ proc[p].pc = "failed" => x = "releasing"
             /\ proc[p].pc = "starting" => x = "starting"
             /\ proc' = [proc EXCEPT ![p].pc = x, ![p].pending = b,
                                     ![p].after = "restart"]
      <3>1. (proc[p].pc = "starting") \in BOOLEAN
        OBVIOUS
      <3>2. QED
        BY <1>2, <3>1 DEF requestRestart
    <2>3. proc[p].pc \in {"starting", "serving", "failed"}
      BY <1>2 DEF requestRestart
    <2>4. TypeOK'
      <3>1. PICK x \in {"closing", "releasing", "starting"}, b \in BOOLEAN :
               proc' = [proc EXCEPT ![p].pc = x, ![p].pending = b,
                                    ![p].after = "restart"]
        BY <2>2
      <3>2. x \in Phases
        OBVIOUS
      <3>3. proc[p] \in Process
        BY HasRecord
      <3>4. [proc[p] EXCEPT !.pc = x, !.pending = b, !.after = "restart"] \in Process
        <4> HIDE PhaseNames DEF Process, IInv, TypeOK, HoldsByPhase, FileHasWorker
        <4>1. QED
          BY <3>2, <3>3, PcRequest
      <3>5. QED
        BY <2>1, <3>1, <3>4
    <2>5. HoldsByPhase' /\ FileHasWorker'
      BY <2>1, <2>2, <2>3
    <2>6. QED
      BY <2>4, <2>5
  <1>3. CASE requestStop(p)
    <2>1. /\ requests' \in 0..MaxRequests
          /\ UNCHANGED <<file, port, deaths, failures>>
      BY <1>3 DEF requestStop
    <2>2. \E x \in {"closing", "releasing"} :
             /\ proc[p].pc = "serving" <=> x = "closing"
             /\ proc' = [proc EXCEPT ![p].pc = x, ![p].pending = FALSE,
                                     ![p].after = "exit"]
      BY <1>3 DEF requestStop
    <2>3. proc[p].pc \in {"starting", "serving", "failed"}
      BY <1>3 DEF requestStop
    <2>4. TypeOK'
      <3>1. PICK x \in {"closing", "releasing"} :
               proc' = [proc EXCEPT ![p].pc = x, ![p].pending = FALSE,
                                    ![p].after = "exit"]
        BY <2>2
      <3>2. x \in Phases
        OBVIOUS
      <3>3. proc[p] \in Process
        BY HasRecord
      <3>4. [proc[p] EXCEPT !.pc = x, !.pending = FALSE, !.after = "exit"] \in Process
        <4> HIDE PhaseNames DEF Process, IInv, TypeOK, HoldsByPhase, FileHasWorker
        <4>1. QED
          BY <3>2, <3>3, PcRequest
      <3>5. QED
        BY <2>1, <3>1, <3>4
    <2>5. HoldsByPhase' /\ FileHasWorker'
      BY <2>1, <2>2, <2>3
    <2>6. QED
      BY <2>4, <2>5
  <1>4. CASE closeServer(p)
    BY <1>4 DEF closeServer
  <1>5. QED
    BY <1>1, <1>2, <1>3, <1>4

\* The release, and the life after it.
LEMMA ReleaseKeepsIInv ==
  ASSUME IInv, NEW p \in Procs,
         releaseLockIfHeld(p) \/ handleRestartAfterServerClose(p)
  PROVE  IInv'
  <1>1. failures \in 0..MaxFailures
    BY DEF IInv, TypeOK
  <1>2. CASE releaseLockIfHeld(p) /\ proc[p].after = "exit"
    BY <1>1, <1>2, LeaveKeepsIInv DEF releaseLockIfHeld, keepCounts
  <1>3. CASE releaseLockIfHeld(p) /\ proc[p].after # "exit"
    <2>1. TypeOK'
      <3>1. [proc[p] EXCEPT !.pc = "relaunch", !.lock = FALSE,
                            !.hadLock = proc[p].lock] \in Process
        BY HasRecord, PcHadLock
      <3>2. proc' \in [Procs -> Process]
        BY <1>3, <3>1 DEF releaseLockIfHeld, IInv, TypeOK
      <3>3. QED
        BY <1>3, <3>2, FileTypes DEF releaseLockIfHeld, keepCounts, IInv, TypeOK
    <2>2. HoldsByPhase' /\ FileHasWorker'
      BY <1>3 DEF releaseLockIfHeld, keepCounts, released, IInv, TypeOK,
                  HoldsByPhase, FileHasWorker
    <2>3. QED
      BY <2>1, <2>2 DEF IInv
  <1>4. CASE handleRestartAfterServerClose(p)
    <2>1. ~proc[p].lock /\ released(p) = file
      BY <1>4 DEF handleRestartAfterServerClose, IInv, HoldsByPhase, released
    <2>2. CASE gone(p) /\ file' = orphaned(file, p)
      BY <1>1, <1>4, <2>1, <2>2, LeaveKeepsIInv
         DEF handleRestartAfterServerClose, keepCounts
    <2>3. CASE goto(p, "open") /\ UNCHANGED file
      BY <1>4, <2>1, <2>3
         DEF handleRestartAfterServerClose, keepCounts, goto, IInv, TypeOK,
             HoldsByPhase, FileHasWorker
    <2>4. CASE goto(p, "starting") /\ UNCHANGED file
      BY <1>4, <2>1, <2>4
         DEF handleRestartAfterServerClose, keepCounts, goto, IInv, TypeOK,
             HoldsByPhase, FileHasWorker
    <2>5. QED
      BY <1>4, <2>2, <2>3, <2>4 DEF handleRestartAfterServerClose
  <1>5. QED
    BY <1>2, <1>3, <1>4

\* The wait for the lock that runs out.
LEMMA TimeoutKeepsIInv ==
  ASSUME IInv, NEW p \in Procs, lockTimeout(p)
  PROVE  IInv'
  <1>1. ~proc[p].lock /\ released(p) = file
    BY DEF lockTimeout, IInv, HoldsByPhase, released
  <1>2. QED
    BY <1>1, LeaveKeepsIInv DEF lockTimeout, keepCounts, IInv, TypeOK

LEMMA NextKeepsIInv == IInv /\ [Next]_vars => IInv'
  <1> SUFFICES ASSUME IInv, [Next]_vars PROVE IInv'
    OBVIOUS
  <1>1. CASE age
    BY <1>1 DEF age, keepCounts, IInv, TypeOK, HoldsByPhase, FileHasWorker
  <1>2. ASSUME NEW p \in Procs, launch(p) \/ advance(p) \/ lockTimeout(p)
                 \/ startFails(p) \/ requestRestart(p) \/ requestStop(p) \/ die(p)
        PROVE IInv'
    BY <1>2, AcquireKeepsIInv, LoopKeepsIInv, ReleaseKeepsIInv, TimeoutKeepsIInv,
       StartFailsKeepsIInv, DieKeepsIInv DEF advance
  <1>3. CASE UNCHANGED vars
    BY <1>3 DEF vars, IInv, TypeOK, HoldsByPhase, FileHasWorker
  <1>4. QED
    BY <1>1, <1>2, <1>3 DEF Next

(***************************************************************************)
(* Whatever the processes do beside each other, the port's listener is the *)
(* process that serves, a lock handle is held only between the payload and *)
(* the release, and a lock file at the path belongs to a process at work   *)
(* under it or to one that died (acquireGatewayLock, runGatewayLoop).      *)
(***************************************************************************)
THEOREM LockFileHasWorker == Spec => []IInv
  <1>1. QED
    BY InitIInv, NextKeepsIInv, PTL DEF Spec

HIDE PhaseNames DEF File, Process

-----------------------------------------------------------------------------
(***************************************************************************)
(* Command lanes: queues.                                                  *)
(***************************************************************************)

\* What inserted makes of a queue.
LEMMA InsertedQueue ==
  ASSUME NEW S, NEW q \in Seq(S), NEW e \in S, NEW i \in 1 .. Len(q) + 1
  PROVE  /\ inserted(q, i, e) \in Seq(S)
         /\ Len(inserted(q, i, e)) = Len(q) + 1
         /\ \A j \in 1 .. Len(q) + 1 :
              inserted(q, i, e)[j] =
                IF j < i THEN q[j] ELSE IF j = i THEN e ELSE q[j - 1]
<1> DEFINE a == SubSeq(q, 1, i - 1)
           b == SubSeq(q, i, Len(q))
<1>0. Len(q) \in Nat /\ i \in Nat /\ i - 1 \in 0 .. Len(q)
  BY LenProperties
<1>1. /\ a \in Seq(S) /\ Len(a) = i - 1
      /\ \A j \in 1 .. i - 1 : a[j] = q[j]
  <2>1. \A j \in 1 .. i - 1 : q[j] \in S
    BY <1>0, ElementOfSeq
  <2> QED
    BY <1>0, <2>1, SubSeqProperties
<1>2. /\ b \in Seq(S) /\ Len(b) = Len(q) + 1 - i
      /\ \A j \in 1 .. Len(q) + 1 - i : b[j] = q[i + j - 1]
  <2>1. \A j \in i .. Len(q) : q[j] \in S
    BY <1>0, ElementOfSeq
  <2> QED
    BY <1>0, <2>1, SubSeqProperties
<1>3. <<e>> \in Seq(S) /\ Len(<<e>>) = 1 /\ <<e>>[1] = e
  OBVIOUS
<1>4. /\ a \o <<e>> \in Seq(S) /\ Len(a \o <<e>>) = i
      /\ \A j \in 1 .. i : (a \o <<e>>)[j] = IF j < i THEN q[j] ELSE e
  <2> HIDE DEF a
  <2>1. /\ a \o <<e>> \in Seq(S) /\ Len(a \o <<e>>) = Len(a) + 1
        /\ \A j \in 1 .. Len(a) + 1 :
             (a \o <<e>>)[j] = IF j <= Len(a) THEN a[j] ELSE <<e>>[j - Len(a)]
    BY <1>1, <1>3, ConcatProperties
  <2> QED
    BY <1>0, <1>1, <1>3, <2>1
<1>5. /\ (a \o <<e>>) \o b \in Seq(S) /\ Len((a \o <<e>>) \o b) = Len(q) + 1
      /\ \A j \in 1 .. Len(q) + 1 :
           ((a \o <<e>>) \o b)[j] =
             IF j <= i THEN (a \o <<e>>)[j] ELSE b[j - i]
  <2> DEFINE c == a \o <<e>>
  <2> HIDE DEF b, c
  <2>1. c \in Seq(S) /\ b \in Seq(S) /\ Len(c) = i /\ Len(b) = Len(q) + 1 - i
    BY <1>2, <1>4 DEF c
  <2>2. /\ c \o b \in Seq(S) /\ Len(c \o b) = Len(c) + Len(b)
        /\ \A j \in 1 .. Len(c) + Len(b) :
             (c \o b)[j] = IF j <= Len(c) THEN c[j] ELSE b[j - Len(c)]
    BY <2>1, ConcatProperties
  <2> QED
    BY <1>0, <2>1, <2>2 DEF c
<1>6. inserted(q, i, e) = (a \o <<e>>) \o b
  BY DEF inserted
<1>7. ASSUME NEW j \in 1 .. Len(q) + 1
      PROVE  inserted(q, i, e)[j] =
               IF j < i THEN q[j] ELSE IF j = i THEN e ELSE q[j - 1]
  <2> HIDE DEF a, b
  <2>1. CASE j <= i
    BY <1>0, <1>4, <1>5, <1>6, <2>1
  <2>2. CASE j > i
    <3>1. j - i \in 1 .. Len(q) + 1 - i /\ i + (j - i) - 1 = j - 1
      BY <1>0, <2>2
    <3> QED
      BY <1>0, <1>2, <1>5, <1>6, <2>2, <3>1
  <2> QED
    BY <1>0, <2>1, <2>2
<1> QED
  BY <1>5, <1>6, <1>7

\* What is left of a queue after its first k entries.
LEMMA QueueRest ==
  ASSUME NEW S, NEW q \in Seq(S), NEW k \in 0 .. Len(q)
  PROVE  /\ SubSeq(q, k + 1, Len(q)) \in Seq(S)
         /\ Len(SubSeq(q, k + 1, Len(q))) = Len(q) - k
         /\ \A j \in 1 .. Len(q) - k : SubSeq(q, k + 1, Len(q))[j] = q[k + j]
<1>0. Len(q) \in Nat /\ k \in Nat
  BY LenProperties
<1>1. \A j \in k + 1 .. Len(q) : q[j] \in S
  BY <1>0, ElementOfSeq
<1>2. CASE k = Len(q)
  BY <1>0, <1>1, <1>2, SubSeqProperties
<1>3. CASE k < Len(q)
  BY <1>0, <1>1, <1>3, SubSeqProperties
<1> QED
  BY <1>0, <1>2, <1>3

\* The first k entries of a queue without repetitions are k.
LEMMA DistinctPrefix ==
  ASSUME NEW q, NEW k \in Nat, \A i, j \in 1 .. k : q[i] = q[j] => i = j
  PROVE  /\ IsFiniteSet({q[i] : i \in 1 .. k})
         /\ Cardinality({q[i] : i \in 1 .. k}) = k
<1> DEFINE T == {q[i] : i \in 1 .. k}
           f == [i \in 1 .. k |-> q[i]]
<1>1. IsFiniteSet(1 .. k) /\ Cardinality(1 .. k) = k
  BY FS_Interval
<1>2. f \in Bijection(1 .. k, T)
  <2>1. f \in [1 .. k -> T]
    OBVIOUS
  <2>2. \A i, j \in 1 .. k : f[i] = f[j] => i = j
    OBVIOUS
  <2>3. \A t \in T : \E i \in 1 .. k : f[i] = t
    OBVIOUS
  <2> HIDE DEF T, f
  <2> QED
    BY <2>1, <2>2, <2>3, Fun_IsBij
<1>3. ExistsBijection(1 .. k, T)
  BY <1>2 DEF ExistsBijection
<1> HIDE DEF T
<1> QED
  BY <1>1, <1>3, FS_Bijection DEF T

-----------------------------------------------------------------------------
(***************************************************************************)
(* The invariant over given lane states ls, entries xs and sequence ns, so *)
(* that it can be stated of the states between an update and its pump.     *)
(***************************************************************************)

begunIn(l, g, xs) ==
  {e \in Entry : /\ xs[e].phase \in {"running", "raced"}
                 /\ xs[e].lane = l /\ xs[e].generation = g}
queuedIn(l, xs) == {e \in Entry : xs[e].phase = "queued" /\ xs[e].lane = l}

\* x runs before y.
before(x, y) ==
  \/ x.priority > y.priority
  \/ x.priority = y.priority /\ x.sequence < y.sequence

\* A queue holds the entries in Q, each once, in order.
ordered(q, Q, xs) ==
  /\ {q[i] : i \in 1 .. Len(q)} = Q
  /\ \A i, j \in 1 .. Len(q) : i < j => before(xs[q[i]], xs[q[j]])

laneSound(l, s, xs) ==
  /\ s \in LaneRecord
  /\ s.active = begunIn(l, s.generation, xs)
  /\ ordered(s.queue, queuedIn(l, xs), xs)
  /\ s.maxConcurrent \in Concurrency
  /\ \E n \in Concurrency : Cardinality(s.active) <= n

entrySound(x, ls, ns) ==
  /\ x \in EntryRecord
  /\ x.sequence < ns
  /\ x.generation <= ls[x.lane].generation
  /\ x.work = "running" => x.phase \in {"running", "raced", "settled"}
  /\ x.work = "running" /\ x.phase # "running" => x.outcome = "timeout"

sound(ls, xs, ns) ==
  /\ ls = [l \in Lane |-> ls[l]] /\ \A l \in Lane : laneSound(l, ls[l], xs)
  /\ xs = [e \in Entry |-> xs[e]] /\ \A e \in Entry : entrySound(xs[e], ls, ns)
  /\ ns \in Nat

\* No slot of a lane is free while work waits in it.
full(s) == s.queue # <<>> => Cardinality(s.active) >= s.maxConcurrent

started(ids, xs) == \A e \in ids : xs[e].phase \notin {"new", "queued"}

\* Nobody is told too early.
waitersTold(ws, ls, xs) ==
  /\ ws \in [Waiter -> WaiterRecord]
  /\ \A w \in Waiter :
       /\ ws[w].state = "drained" => ~stillActive(ws[w].taskIds, ls)
       /\ started(ws[w].taskIds, xs)

waitersSound(ws, ls, xs) ==
  /\ waitersTold(ws, ls, xs)
  /\ \A w \in Waiter : ws[w].state = "waiting" => stillActive(ws[w].taskIds, ls)

\* A record of an entry or a lane is typed field by field.
LEMMA EntryFields ==
  ASSUME NEW x \in EntryRecord
  PROVE  /\ x.lane \in Lane /\ x.priority \in Int /\ x.sequence \in Nat
         /\ x.generation \in Nat /\ x.phase \in EntryPhases
BY LaneAssumption DEF EntryRecord

LEMMA LaneFields ==
  ASSUME NEW s \in LaneRecord
  PROVE  /\ s.queue \in Seq(Entry) /\ s.active \subseteq Entry
         /\ s.maxConcurrent \in Nat /\ s.generation \in Nat
         /\ IsFiniteSet(s.active) /\ Cardinality(s.active) \in Nat
<1>1. s.queue \in Seq(Entry) /\ s.active \subseteq Entry
      /\ s.maxConcurrent \in Nat /\ s.generation \in Nat
  BY DEF LaneRecord
<1>2. IsFiniteSet(s.active)
  BY <1>1, FS_Subset, LaneAssumption
<1> QED
  BY <1>1, <1>2, FS_CardinalityType

\* The task race that a lane's numbers bound: what really runs in a lane is
\* active in it.
LEMMA LaneBoundFollows ==
  ASSUME sound(lane, entry, nextSequence)
  PROVE  LaneBound
<1> SUFFICES ASSUME NEW l \in Lane
             PROVE  \E n \in Concurrency :
                      Cardinality({e \in Entry :
                        /\ entry[e].work = "running" /\ entry[e].lane = l
                        /\ entry[e].outcome # "timeout"
                        /\ entry[e].generation = lane[l].generation}) <= n
  BY DEF LaneBound
<1> DEFINE T == {e \in Entry :
                   /\ entry[e].work = "running" /\ entry[e].lane = l
                   /\ entry[e].outcome # "timeout"
                   /\ entry[e].generation = lane[l].generation}
<1>1. T \subseteq lane[l].active
  BY DEF sound, laneSound, entrySound, begunIn
<1>2. lane[l] \in LaneRecord
  BY DEF sound, laneSound
<1>3. PICK n \in Concurrency : Cardinality(lane[l].active) <= n
  BY DEF sound, laneSound
<1>4. Cardinality(T) \in Nat /\ Cardinality(T) <= Cardinality(lane[l].active)
  BY <1>1, <1>2, LaneFields, FS_Subset, FS_CardinalityType
<1>5. n \in Nat /\ Cardinality(lane[l].active) \in Nat
  BY <1>2, LaneFields, LaneAssumption
<1>6. Cardinality(T) <= n
  <2> HIDE DEF T
  <2> QED
    BY <1>3, <1>4, <1>5
<1> QED
  BY <1>6

\* The parts together are the invariant.
laneParts ==
  /\ sound(lane, entry, nextSequence)
  /\ \A l \in Lane : full(lane[l])
  /\ waitersSound(waiter, lane, entry)
  /\ gatewayDraining \in BOOLEAN

LEMMA Parts == LaneInv <=> laneParts
<1>1. ASSUME LaneInv
      PROVE  /\ sound(lane, entry, nextSequence)
             /\ \A l \in Lane : full(lane[l])
             /\ waitersSound(waiter, lane, entry)
             /\ gatewayDraining \in BOOLEAN
  <2> USE <1>1
  <2>1. ASSUME NEW l \in Lane PROVE laneSound(l, lane[l], entry)
    BY DEF LaneInv, LaneTypeOK, SlotsMatchTasks, QueueMatchesEntries, Bookkeeping,
           laneSound, begunIn, ordered, queuedIn, before, Running
  <2>2. ASSUME NEW e \in Entry PROVE entrySound(entry[e], lane, nextSequence)
    BY DEF LaneInv, LaneTypeOK, Bookkeeping, entrySound
  <2>3. sound(lane, entry, nextSequence)
    BY <2>1, <2>2 DEF LaneInv, LaneTypeOK, sound
  <2>4. \A l \in Lane : full(lane[l])
    BY DEF LaneInv, NoIdleSlot, full
  <2>5. waitersSound(waiter, lane, entry)
    BY DEF LaneInv, LaneTypeOK, WaitersInformed, Bookkeeping,
           waitersSound, waitersTold, started
  <2> QED
    BY <2>3, <2>4, <2>5 DEF LaneInv, LaneTypeOK
<1>2. ASSUME sound(lane, entry, nextSequence),
             \A l \in Lane : full(lane[l]),
             waitersSound(waiter, lane, entry),
             gatewayDraining \in BOOLEAN
      PROVE  LaneInv
  <2> USE <1>2
  <2>1. LaneTypeOK
    <3>1. lane \in [Lane -> LaneRecord]
      BY DEF sound, laneSound
    <3>2. entry \in [Entry -> EntryRecord]
      BY DEF sound, entrySound
    <3> QED
      BY <3>1, <3>2 DEF LaneTypeOK, sound, waitersSound, waitersTold
  <2>2. SlotsMatchTasks
    BY DEF sound, laneSound, begunIn, SlotsMatchTasks, Running
  <2>3. NoIdleSlot
    BY DEF NoIdleSlot, full
  <2>4. LaneBound
    BY LaneBoundFollows
  <2>5. WaitersInformed
    BY DEF waitersSound, waitersTold, WaitersInformed
  <2>6. QueueMatchesEntries
    BY DEF sound, laneSound, ordered, queuedIn, before, QueueMatchesEntries
  <2>7. Bookkeeping
    BY DEF sound, laneSound, entrySound, waitersSound, waitersTold, started, Bookkeeping
  <2> QED
    BY <2>1, <2>2, <2>3, <2>4, <2>5, <2>6, <2>7 DEF LaneInv
<1> QED
  BY <1>1, <1>2 DEF laneParts

-----------------------------------------------------------------------------
(***************************************************************************)
(* The pump.                                                               *)
(***************************************************************************)

LEMMA Startable ==
  ASSUME NEW s \in LaneRecord
  PROVE  /\ startable(s) \in 0 .. Len(s.queue)
         /\ startable(s) > 0 => startable(s) + Cardinality(s.active) <= s.maxConcurrent
         /\ startable(s) < Len(s.queue) =>
              startable(s) + Cardinality(s.active) >= s.maxConcurrent
<1>1. Len(s.queue) \in Nat /\ s.maxConcurrent \in Nat /\ Cardinality(s.active) \in Nat
  BY LaneFields, LenProperties
<1> DEFINE c == Cardinality(s.active)
           n == Len(s.queue)
           m == s.maxConcurrent
<1>2. startable(s) = IF c < m THEN IF m - c < n THEN m - c ELSE n ELSE 0
  BY DEF startable
<1> HIDE DEF c, n, m
<1>3. n \in Nat /\ m \in Nat /\ c \in Nat
  BY <1>1 DEF c, n, m
<1>4. /\ startable(s) \in 0 .. n
      /\ startable(s) > 0 => startable(s) + c <= m
      /\ startable(s) < n => startable(s) + c >= m
  BY <1>2, <1>3
<1> QED
  BY <1>4 DEF c, n, m

\* No entry is in a queue twice.
LEMMA OrderedDistinct ==
  ASSUME NEW q \in Seq(Entry), NEW Q, NEW xs,
         \A e \in Entry : xs[e].priority \in Int /\ xs[e].sequence \in Int,
         ordered(q, Q, xs)
  PROVE  \A i, j \in 1 .. Len(q) : q[i] = q[j] => i = j
<1> SUFFICES ASSUME NEW i \in 1 .. Len(q), NEW j \in 1 .. Len(q), q[i] = q[j]
             PROVE  i = j
  OBVIOUS
<1>1. i \in Int /\ j \in Int
  BY LenProperties
<1>2. q[i] \in Entry
  BY ElementOfSeq
<1>3. ~ before(xs[q[i]], xs[q[i]])
  BY <1>2 DEF before
<1>4. ~ (i < j) /\ ~ (j < i)
  BY <1>3 DEF ordered
<1> QED
  BY <1>1, <1>4

\* What the pump does to one lane record, and to the entries it starts.
LEMMA PumpedLane ==
  ASSUME NEW s \in LaneRecord
  PROVE  /\ pumped(s) \in LaneRecord
         /\ pumped(s).queue = SubSeq(s.queue, startable(s) + 1, Len(s.queue))
         /\ pumped(s).active = s.active \cup startedIn(s)
         /\ pumped(s).maxConcurrent = s.maxConcurrent
         /\ pumped(s).generation = s.generation
         /\ startedIn(s) \subseteq Entry
<1>1. startable(s) \in 0 .. Len(s.queue)
  BY Startable
<1>2. SubSeq(s.queue, startable(s) + 1, Len(s.queue)) \in Seq(Entry)
  BY <1>1, QueueRest, LaneFields
<1>3. startedIn(s) \subseteq Entry
  <2>1. ASSUME NEW i \in 1 .. startable(s) PROVE s.queue[i] \in Entry
    <3>1. i \in 1 .. Len(s.queue)
      BY <1>1, LaneFields, LenProperties
    <3> QED
      BY <3>1, LaneFields, ElementOfSeq
  <2> QED
    BY <2>1 DEF startedIn
<1> QED
  BY <1>2, <1>3 DEF LaneRecord, pumped

LEMMA BegunEntry ==
  ASSUME NEW x \in EntryRecord, NEW g \in Nat
  PROVE  LET y == runQueueEntryTask(x, g)
         IN  /\ y \in EntryRecord
             /\ y.lane = x.lane /\ y.priority = x.priority /\ y.sequence = x.sequence
             /\ y.generation = g /\ y.phase \in {"running", "raced"}
             /\ y.work = "running" /\ y.phase # "running" => y.outcome = "timeout"
<1> DEFINE begun == [x EXCEPT !.work = "running", !.generation = g, !.phase = "running"]
           y == runQueueEntryTask(x, g)
<1>1. /\ begun \in EntryRecord /\ begun.lane = x.lane /\ begun.priority = x.priority
      /\ begun.sequence = x.sequence /\ begun.generation = g /\ begun.phase = "running"
  BY DEF EntryRecord, EntryPhases
<1>2. \/ y = begun
      \/ y = [begun EXCEPT !.phase = "raced", !.outcome = "timeout"]
      \/ y = [begun EXCEPT !.timer = "grace"]
      \/ y = [begun EXCEPT !.timer = "progress", !.listening = TRUE]
  BY DEF runQueueEntryTask
<1> HIDE DEF begun
<1> HIDE DEF y
<1>3. /\ y \in EntryRecord
      /\ y.lane = begun.lane /\ y.priority = begun.priority
      /\ y.sequence = begun.sequence /\ y.generation = begun.generation
      /\ y.phase \in {"running", "raced"}
      /\ y.work = "running" /\ y.phase # "running" => y.outcome = "timeout"
  <2>1. CASE y = begun
    BY <1>1, <2>1
  <2>2. CASE y = [begun EXCEPT !.phase = "raced", !.outcome = "timeout"]
    BY <1>1, <2>2 DEF EntryRecord, EntryPhases, Outcomes
  <2>3. CASE y = [begun EXCEPT !.timer = "grace"]
    BY <1>1, <2>3 DEF EntryRecord
  <2>4. CASE y = [begun EXCEPT !.timer = "progress", !.listening = TRUE]
    BY <1>1, <2>4 DEF EntryRecord
  <2> QED
    BY <1>2, <2>1, <2>2, <2>3, <2>4
<1> QED
  BY <1>1, <1>3 DEF y

pumpsTo(pumping, ls, xs, lt, xt) ==
  /\ lt = [l \in Lane |-> IF l \in pumping THEN pumped(ls[l]) ELSE ls[l]]
  /\ xt = [e \in Entry |->
       IF xs[e].lane \in pumping /\ e \in startedIn(ls[xs[e].lane])
       THEN runQueueEntryTask(xs[e], ls[xs[e].lane].generation) ELSE xs[e]]

\* The entries the pump starts.
starting(pumping, ls, xs) ==
  {e \in Entry : xs[e].lane \in pumping /\ e \in startedIn(ls[xs[e].lane])}

\* What is started was queued in the lane, and holds a place of its queue's
\* head.
LEMMA StartedWasQueued ==
  ASSUME NEW ls, NEW xs, NEW ns, sound(ls, xs, ns), NEW l \in Lane
  PROVE  startedIn(ls[l]) \subseteq queuedIn(l, xs)
<1>1. ls[l] \in LaneRecord /\ ordered(ls[l].queue, queuedIn(l, xs), xs)
  BY DEF sound, laneSound
<1>2. startable(ls[l]) \in 0 .. Len(ls[l].queue) /\ Len(ls[l].queue) \in Nat
  BY <1>1, Startable, LaneFields, LenProperties
<1> QED
  BY <1>1, <1>2 DEF startedIn, ordered

LEMMA PumpedEntries ==
  ASSUME NEW ls, NEW xs, NEW ns, sound(ls, xs, ns),
         NEW pumping \in SUBSET Lane, NEW lt, NEW xt, pumpsTo(pumping, ls, xs, lt, xt),
         NEW e \in Entry
  PROVE  /\ e \notin starting(pumping, ls, xs) => xt[e] = xs[e]
         /\ e \in starting(pumping, ls, xs) =>
              /\ xs[e].phase = "queued" /\ xt[e].phase \in {"running", "raced"}
              /\ xt[e].generation = ls[xs[e].lane].generation
              /\ xt[e].work = "running" /\ xt[e].phase # "running" =>
                   xt[e].outcome = "timeout"
         /\ xt[e] \in EntryRecord /\ xt[e].lane = xs[e].lane
         /\ xt[e].priority = xs[e].priority /\ xt[e].sequence = xs[e].sequence
<1>1. xs[e] \in EntryRecord /\ xs[e].lane \in Lane
  BY EntryFields DEF sound, entrySound
<1>2. CASE e \notin starting(pumping, ls, xs)
  <2>1. xt[e] = xs[e]
    BY <1>2 DEF starting, pumpsTo
  <2> QED
    BY <1>1, <1>2, <2>1
<1>3. CASE e \in starting(pumping, ls, xs)
  <2>1. xt[e] = runQueueEntryTask(xs[e], ls[xs[e].lane].generation)
    BY <1>3 DEF starting, pumpsTo
  <2>2. xs[e].phase = "queued"
    BY <1>1, <1>3, StartedWasQueued DEF starting, queuedIn
  <2>3. ls[xs[e].lane].generation \in Nat
    BY <1>1, LaneFields DEF sound, laneSound
  <2> QED
    BY <1>1, <1>3, <2>1, <2>2, <2>3, BegunEntry
<1> QED
  BY <1>2, <1>3

LEMMA PumpedFields ==
  ASSUME NEW ls, NEW xs, NEW ns, sound(ls, xs, ns),
         NEW pumping \in SUBSET Lane, NEW lt, NEW xt, pumpsTo(pumping, ls, xs, lt, xt),
         NEW e \in Entry
  PROVE  /\ xt[e] \in EntryRecord /\ xt[e].lane = xs[e].lane
         /\ xt[e].sequence = xs[e].sequence
<1>1. xt[e] \in EntryRecord
  BY PumpedEntries
<1>2. xt[e].lane = xs[e].lane
  BY PumpedEntries
<1>3. xt[e].sequence = xs[e].sequence
  BY PumpedEntries
<1> QED
  BY <1>1, <1>2, <1>3

\* The slots of a lane match its tasks again.
LEMMA PumpedSlots ==
  ASSUME NEW ls, NEW xs, NEW ns, sound(ls, xs, ns),
         NEW pumping \in SUBSET Lane, NEW lt, NEW xt, pumpsTo(pumping, ls, xs, lt, xt),
         NEW l \in Lane
  PROVE  lt[l].active = begunIn(l, lt[l].generation, xt)
<1>1. ls[l] \in LaneRecord /\ ls[l].active = begunIn(l, ls[l].generation, xs)
  BY DEF sound, laneSound
<1>2. lt[l].generation = ls[l].generation
  BY <1>1, PumpedLane DEF pumpsTo
<1>3. lt[l].active = IF l \in pumping THEN ls[l].active \cup startedIn(ls[l]) ELSE ls[l].active
  BY <1>1, PumpedLane DEF pumpsTo
<1>4. ASSUME NEW e \in Entry
      PROVE  e \in lt[l].active <=> e \in begunIn(l, lt[l].generation, xt)
  <2>1. CASE e \in starting(pumping, ls, xs)
    <3>1. /\ xs[e].phase = "queued" /\ xt[e].phase \in {"running", "raced"}
          /\ xt[e].generation = ls[xs[e].lane].generation /\ xt[e].lane = xs[e].lane
      BY <2>1, PumpedEntries
    <3>2. CASE xs[e].lane = l
      <4>1. e \in lt[l].active
        BY <1>3, <2>1, <3>2 DEF starting
      <4> QED
        BY <1>2, <3>1, <3>2, <4>1 DEF begunIn
    <3>3. CASE xs[e].lane # l
      <4>1. e \notin startedIn(ls[l])
        BY <3>3, StartedWasQueued DEF queuedIn
      <4>2. e \notin ls[l].active
        BY <1>1, <3>3 DEF begunIn
      <4> QED
        BY <1>3, <3>1, <3>3, <4>1, <4>2 DEF begunIn
    <3> QED
      BY <3>2, <3>3
  <2>2. CASE e \notin starting(pumping, ls, xs)
    <3>1. xt[e] = xs[e]
      BY <2>2, PumpedEntries
    <3>2. ~ (l \in pumping /\ e \in startedIn(ls[l]))
      BY <2>2, StartedWasQueued DEF starting, queuedIn
    <3> QED
      BY <1>1, <1>2, <1>3, <3>1, <3>2 DEF begunIn
  <2> QED
    BY <2>1, <2>2
<1>5. lt[l].active \subseteq Entry
  BY <1>1, <1>3, PumpedLane, LaneFields
<1> QED
  BY <1>4, <1>5 DEF begunIn

\* So does its queue.
LEMMA PumpedQueue ==
  ASSUME NEW ls, NEW xs, NEW ns, sound(ls, xs, ns),
         NEW pumping \in SUBSET Lane, NEW lt, NEW xt, pumpsTo(pumping, ls, xs, lt, xt),
         NEW l \in Lane
  PROVE  ordered(lt[l].queue, queuedIn(l, xt), xt)
<1>1. ls[l] \in LaneRecord /\ ordered(ls[l].queue, queuedIn(l, xs), xs)
  BY DEF sound, laneSound
<1>3. \A e, d \in Entry : before(xt[e], xt[d]) <=> before(xs[e], xs[d])
  BY PumpedEntries DEF before
<1>4. CASE l \notin pumping
  <2>1. lt[l] = ls[l]
    BY <1>4 DEF pumpsTo
  <2>2. queuedIn(l, xt) = queuedIn(l, xs)
    <3>1. ASSUME NEW e \in Entry
          PROVE  e \in queuedIn(l, xt) <=> e \in queuedIn(l, xs)
      <4>1. CASE e \in starting(pumping, ls, xs)
        <5>1. xs[e].lane # l
          BY <1>4, <4>1 DEF starting
        <5>2. xt[e].lane = xs[e].lane
          BY PumpedFields
        <5> QED
          BY <5>1, <5>2 DEF queuedIn
      <4>2. CASE e \notin starting(pumping, ls, xs)
        BY <4>2, PumpedEntries DEF queuedIn
      <4> QED
        BY <4>1, <4>2
    <3> QED
      BY <3>1 DEF queuedIn
  <2>3. \A i \in 1 .. Len(ls[l].queue) : ls[l].queue[i] \in Entry
    BY <1>1 DEF ordered, queuedIn
  <2> QED
    BY <1>1, <1>3, <2>1, <2>2, <2>3 DEF ordered
<1>5. CASE l \in pumping
  <2> DEFINE q == ls[l].queue
             k == startable(ls[l])
             n == Len(q)
             p == lt[l].queue
  <2>1. /\ q \in Seq(Entry) /\ n \in Nat /\ k \in 0 .. n
    BY <1>1, Startable, LaneFields, LenProperties
  <2>2. p = SubSeq(q, k + 1, n)
    BY <1>1, <1>5, PumpedLane DEF pumpsTo
  <2>3. Len(p) = n - k /\ \A j \in 1 .. n - k : p[j] = q[k + j]
    <3> HIDE DEF q, k, p
    <3> QED
      BY <2>1, <2>2, QueueRest DEF n
  <2>4. \A i, j \in 1 .. n : q[i] = q[j] => i = j
    <3>1. \A e \in Entry : xs[e].priority \in Int /\ xs[e].sequence \in Int
      BY EntryFields DEF sound, entrySound
    <3> QED
      BY <1>1, <2>1, <3>1, OrderedDistinct
  <2>5. \A i \in 1 .. n : q[i] \in Entry /\ xs[q[i]].phase = "queued" /\ xs[q[i]].lane = l
    BY <1>1 DEF ordered, queuedIn
  <2>6. \A i \in 1 .. n : q[i] \in starting(pumping, ls, xs) <=> i <= k
    <3>1. startedIn(ls[l]) = {q[i] : i \in 1 .. k}
      BY DEF startedIn
    <3> HIDE DEF q, k, n
    <3>2. \A i \in 1 .. n : q[i] \in {q[j] : j \in 1 .. k} <=> i <= k
      BY <2>1, <2>4
    <3> QED
      BY <1>5, <2>5, <3>1, <3>2 DEF starting
  <2>7. ASSUME NEW e \in Entry
        PROVE  e \in queuedIn(l, xt) <=> \E i \in 1 .. n : k < i /\ e = q[i]
    <3>1. e \in queuedIn(l, xt) <=>
            e \in queuedIn(l, xs) /\ e \notin starting(pumping, ls, xs)
      <4>1. CASE e \in starting(pumping, ls, xs)
        <5>1. xt[e].phase \in {"running", "raced"}
          BY <4>1, PumpedEntries
        <5> QED
          BY <4>1, <5>1 DEF queuedIn
      <4>2. CASE e \notin starting(pumping, ls, xs)
        BY <4>2, PumpedEntries DEF queuedIn
      <4> QED
        BY <4>1, <4>2
    <3>2. e \in queuedIn(l, xs) <=> \E i \in 1 .. n : e = q[i]
      BY <1>1 DEF ordered
    <3> HIDE DEF q, k, n
    <3> QED
      BY <2>1, <2>6, <3>1, <3>2
  <2>8. {p[j] : j \in 1 .. Len(p)} = queuedIn(l, xt)
    <3> HIDE DEF q, k, n, p
    <3>1. ASSUME NEW e, e \in {p[j] : j \in 1 .. Len(p)} PROVE e \in queuedIn(l, xt)
      <4>1. PICK j \in 1 .. n - k : e = q[k + j]
        BY <2>3, <3>1
      <4>2. k + j \in 1 .. n /\ k < k + j
        BY <2>1
      <4> QED
        BY <2>5, <2>7, <4>1, <4>2
    <3>2. ASSUME NEW e \in queuedIn(l, xt) PROVE e \in {p[j] : j \in 1 .. Len(p)}
      <4>1. PICK i \in 1 .. n : k < i /\ e = q[i]
        BY <2>7 DEF queuedIn
      <4>2. i - k \in 1 .. n - k /\ k + (i - k) = i
        BY <2>1, <4>1
      <4>3. p[i - k] = e
        BY <2>3, <4>1, <4>2
      <4> QED
        BY <2>3, <4>2, <4>3
    <3> QED
      BY <3>1, <3>2
  <2>9. ASSUME NEW i \in 1 .. Len(p), NEW j \in 1 .. Len(p), i < j
        PROVE  before(xt[p[i]], xt[p[j]])
    <3>1. before(xs[q[k + i]], xs[q[k + j]])
      <4>1. k + i \in 1 .. n /\ k + j \in 1 .. n /\ k + i < k + j
        <5> HIDE DEF q, k, n, p
        <5> QED
          BY <2>1, <2>3, <2>9
      <4> QED
        BY <1>1, <4>1 DEF ordered
    <3> HIDE DEF q, k, n, p
    <3>2. k + i \in 1 .. n /\ k + j \in 1 .. n
      BY <2>1, <2>3
    <3>3. p[i] = q[k + i] /\ p[j] = q[k + j]
      BY <2>3
    <3> QED
      BY <1>3, <2>5, <3>1, <3>2, <3>3
  <2> HIDE DEF p
  <2>10. ordered(p, queuedIn(l, xt), xt)
    BY <2>8, <2>9 DEF ordered
  <2> QED
    BY <2>10 DEF p
<1> QED
  BY <1>4, <1>5

\* The pump fills a lane to its concurrency or empties its queue, and never
\* more.
LEMMA PumpedCount ==
  ASSUME NEW ls, NEW xs, NEW ns, sound(ls, xs, ns),
         NEW pumping \in SUBSET Lane, NEW lt, NEW xt, pumpsTo(pumping, ls, xs, lt, xt),
         NEW l \in pumping
  PROVE  /\ full(lt[l])
         /\ \E n \in Concurrency : Cardinality(lt[l].active) <= n
<1> DEFINE s == ls[l]
           q == s.queue
           k == startable(s)
<1>1. /\ s \in LaneRecord /\ ordered(q, queuedIn(l, xs), xs)
      /\ s.active = begunIn(l, s.generation, xs) /\ s.maxConcurrent \in Concurrency
      /\ \E n \in Concurrency : Cardinality(s.active) <= n
  BY DEF sound, laneSound
<1>2. /\ q \in Seq(Entry) /\ Len(q) \in Nat /\ k \in 0 .. Len(q)
      /\ IsFiniteSet(s.active) /\ Cardinality(s.active) \in Nat /\ s.maxConcurrent \in Nat
  BY <1>1, Startable, LaneFields, LenProperties
<1>3. /\ lt[l].queue = SubSeq(q, k + 1, Len(q))
      /\ lt[l].active = s.active \cup startedIn(s)
      /\ lt[l].maxConcurrent = s.maxConcurrent
  BY <1>1, PumpedLane DEF pumpsTo
<1>4. Cardinality(lt[l].active) = Cardinality(s.active) + k
  <2>1. \A i, j \in 1 .. Len(q) : q[i] = q[j] => i = j
    <3>1. \A e \in Entry : xs[e].priority \in Int /\ xs[e].sequence \in Int
      BY EntryFields DEF sound, entrySound
    <3> QED
      BY <1>1, <1>2, <3>1, OrderedDistinct
  <2>2. k \in Nat /\ \A i, j \in 1 .. k : q[i] = q[j] => i = j
    BY <1>2, <2>1
  <2>3. IsFiniteSet(startedIn(s)) /\ Cardinality(startedIn(s)) = k
    <3>1. startedIn(s) = {q[i] : i \in 1 .. k}
      BY DEF startedIn
    <3> HIDE DEF q, k, s
    <3> QED
      BY <2>2, <3>1, DistinctPrefix
  <2>4. s.active \cap startedIn(s) = {}
    <3>1. startedIn(s) \subseteq queuedIn(l, xs)
      BY StartedWasQueued
    <3> QED
      BY <1>1, <3>1 DEF queuedIn, begunIn
  <2>5. Cardinality(s.active \cap startedIn(s)) = 0
    BY <2>4, FS_EmptySet
  <2> DEFINE A == s.active
             B == startedIn(s)
  <2>6. IsFiniteSet(A) /\ IsFiniteSet(B)
    BY <1>2, <2>3
  <2>7. Cardinality(A \cup B) = Cardinality(A) + Cardinality(B) - Cardinality(A \cap B)
    <3> HIDE DEF A, B
    <3> QED
      BY <2>6, FS_Union
  <2> HIDE DEF k, s
  <2> QED
    BY <1>2, <1>3, <2>2, <2>3, <2>5, <2>7
<1>5. full(lt[l])
  <2>1. CASE k = Len(q)
    <3>1. lt[l].queue = <<>>
      BY <1>2, <1>3, <2>1, SubSeqEmpty
    <3> QED
      BY <3>1 DEF full
  <2>2. CASE k < Len(q)
    <3>1. k + Cardinality(s.active) >= s.maxConcurrent
      BY <1>1, <2>2, Startable
    <3> HIDE DEF k, s
    <3> QED
      BY <1>2, <1>3, <1>4, <3>1 DEF full
  <2> QED
    BY <1>2, <2>1, <2>2
<1>6. \E n \in Concurrency : Cardinality(lt[l].active) <= n
  <2>1. CASE k = 0
    <3>1. Cardinality(lt[l].active) = Cardinality(s.active)
      <4> HIDE DEF k, s
      <4> QED
        BY <1>2, <1>4, <2>1
    <3> QED
      BY <1>1, <3>1
  <2>2. CASE k > 0
    <3>1. k + Cardinality(s.active) <= s.maxConcurrent
      BY <1>1, <2>2, Startable
    <3>2. Cardinality(lt[l].active) <= s.maxConcurrent
      <4> HIDE DEF k, s
      <4> QED
        BY <1>2, <1>4, <3>1
    <3> QED
      BY <1>1, <3>2
  <2> QED
    BY <1>2, <2>1, <2>2
<1> QED
  BY <1>5, <1>6

\* The pump leaves a sound state, with every lane it serves full, and starts
\* only what was queued.
LEMMA PumpSound ==
  ASSUME NEW ls, NEW xs, NEW ns, sound(ls, xs, ns),
         NEW pumping \in SUBSET Lane, NEW lt, NEW xt, pumpsTo(pumping, ls, xs, lt, xt)
  PROVE  sound(lt, xt, ns)
<1>1. ASSUME NEW l \in Lane
      PROVE  laneSound(l, lt[l], xt) /\ lt[l].generation = ls[l].generation
  <2>1. ls[l] \in LaneRecord /\ ls[l].maxConcurrent \in Concurrency
        /\ \E n \in Concurrency : Cardinality(ls[l].active) <= n
    BY DEF sound, laneSound
  <2>2. CASE l \in pumping
    <3>1. /\ lt[l] \in LaneRecord /\ lt[l].maxConcurrent = ls[l].maxConcurrent
          /\ lt[l].generation = ls[l].generation
      BY <2>1, <2>2, PumpedLane DEF pumpsTo
    <3> QED
      BY <2>1, <2>2, <3>1, PumpedSlots, PumpedQueue, PumpedCount DEF laneSound
  <2>3. CASE l \notin pumping
    <3>1. lt[l] = ls[l]
      BY <2>3 DEF pumpsTo
    <3> QED
      BY <2>1, <3>1, PumpedSlots, PumpedQueue DEF laneSound
  <2> QED
    BY <2>2, <2>3
<1>2. ASSUME NEW e \in Entry PROVE entrySound(xt[e], lt, ns)
  <2>1. entrySound(xs[e], ls, ns)
    BY DEF sound
  <2>2. xs[e].lane \in Lane /\ ls[xs[e].lane].generation \in Nat
    BY <2>1, EntryFields, LaneFields DEF entrySound, sound, laneSound
  <2>3. lt[xs[e].lane].generation = ls[xs[e].lane].generation
    BY <1>1, <2>2
  <2>4. /\ xt[e] \in EntryRecord /\ xt[e].lane = xs[e].lane
        /\ xt[e].sequence = xs[e].sequence
    BY PumpedFields
  <2>5. CASE e \in starting(pumping, ls, xs)
    <3>1. /\ xt[e].phase \in {"running", "raced"}
          /\ xt[e].generation = ls[xs[e].lane].generation
          /\ xt[e].work = "running" /\ xt[e].phase # "running" =>
               xt[e].outcome = "timeout"
      BY <2>5, PumpedEntries
    <3> QED
      BY <2>1, <2>2, <2>3, <2>4, <3>1 DEF entrySound
  <2>6. CASE e \notin starting(pumping, ls, xs)
    <3>1. xt[e] = xs[e]
      BY <2>6, PumpedEntries
    <3> QED
      BY <2>1, <2>3, <2>4, <3>1 DEF entrySound
  <2> QED
    BY <2>5, <2>6
<1>3. lt = [l \in Lane |-> lt[l]] /\ xt = [e \in Entry |-> xt[e]] /\ ns \in Nat
  BY DEF pumpsTo, sound
<1> QED
  BY <1>1, <1>2, <1>3 DEF sound

LEMMA PumpFull ==
  ASSUME NEW ls, NEW xs, NEW ns, sound(ls, xs, ns),
         NEW pumping \in SUBSET Lane, NEW lt, NEW xt, pumpsTo(pumping, ls, xs, lt, xt),
         \A l \in Lane \ pumping : full(ls[l])
  PROVE  \A l \in Lane : full(lt[l])
<1> SUFFICES ASSUME NEW l \in Lane PROVE full(lt[l])
  OBVIOUS
<1>1. CASE l \in pumping
  BY <1>1, PumpedCount
<1>2. CASE l \notin pumping
  BY <1>2 DEF pumpsTo
<1> QED
  BY <1>1, <1>2

\* For tasks that have started, the pump changes nothing.
LEMMA PumpStarted ==
  ASSUME NEW ls, NEW xs, NEW ns, sound(ls, xs, ns),
         NEW pumping \in SUBSET Lane, NEW lt, NEW xt, pumpsTo(pumping, ls, xs, lt, xt),
         NEW ids \in SUBSET Entry, started(ids, xs)
  PROVE  /\ stillActive(ids, lt) <=> stillActive(ids, ls)
         /\ started(ids, xt)
<1>1. ASSUME NEW l \in Lane
      PROVE  ids \cap lt[l].active = ids \cap ls[l].active
  <2>1. ls[l] \in LaneRecord
    BY DEF sound, laneSound
  <2>2. startedIn(ls[l]) \subseteq queuedIn(l, xs)
    BY StartedWasQueued
  <2>3. lt[l].active = ls[l].active \/ lt[l].active = ls[l].active \cup startedIn(ls[l])
    BY <2>1, PumpedLane DEF pumpsTo
  <2> QED
    BY <2>2, <2>3 DEF queuedIn, started
<1>2. stillActive(ids, lt) <=> stillActive(ids, ls)
  BY <1>1 DEF stillActive
<1>3. ASSUME NEW e \in ids
      PROVE  xt[e].phase \notin {"new", "queued"}
  <2>1. e \in Entry /\ xs[e].phase \notin {"new", "queued"}
    BY DEF started
  <2>2. e \notin starting(pumping, ls, xs)
    BY <2>1, PumpedEntries
  <2> QED
    BY <2>1, <2>2, PumpedEntries
<1> QED
  BY <1>2, <1>3 DEF started

\* So it changes nothing for the waiters.
LEMMA PumpWaiters ==
  ASSUME NEW ls, NEW xs, NEW ns, sound(ls, xs, ns),
         NEW pumping \in SUBSET Lane, NEW lt, NEW xt, pumpsTo(pumping, ls, xs, lt, xt),
         NEW ws, waitersTold(ws, ls, xs)
  PROVE  /\ waitersTold(ws, lt, xt)
         /\ waitersSound(ws, ls, xs) => waitersSound(ws, lt, xt)
<1>1. ASSUME NEW w \in Waiter
      PROVE  /\ stillActive(ws[w].taskIds, lt) <=> stillActive(ws[w].taskIds, ls)
             /\ started(ws[w].taskIds, xt)
  <2>1. ws[w].taskIds \in SUBSET Entry /\ started(ws[w].taskIds, xs)
    BY DEF waitersTold, WaiterRecord
  <2> QED
    BY <2>1, PumpStarted
<1> QED
  BY <1>1 DEF waitersTold, waitersSound

\* notifyActiveTaskWaiters wakes exactly those that wait for nothing.
LEMMA NotifiedWaiters ==
  ASSUME NEW ws, NEW ls, NEW xs, waitersTold(ws, ls, xs)
  PROVE  waitersSound(notified(ls, ws), ls, xs)
<1> DEFINE wt == notified(ls, ws)
<1>1. ASSUME NEW w \in Waiter
      PROVE  /\ wt[w] \in WaiterRecord
             /\ wt[w].taskIds = ws[w].taskIds
             /\ wt[w].state = "waiting" => stillActive(wt[w].taskIds, ls)
             /\ wt[w].state = "drained" => ~stillActive(wt[w].taskIds, ls)
  <2>1. ws[w] \in WaiterRecord
    BY DEF waitersTold
  <2>2. CASE ws[w].state = "waiting" /\ ~stillActive(ws[w].taskIds, ls)
    <3>1. wt[w] = [ws[w] EXCEPT !.state = "drained"]
      BY <2>2 DEF notified
    <3>2. wt[w] \in WaiterRecord /\ wt[w].state = "drained" /\ wt[w].taskIds = ws[w].taskIds
      BY <2>1, <3>1 DEF WaiterRecord
    <3> QED
      BY <2>2, <3>2
  <2>3. CASE ~(ws[w].state = "waiting" /\ ~stillActive(ws[w].taskIds, ls))
    <3>1. wt[w] = ws[w]
      BY <2>3 DEF notified
    <3> QED
      BY <2>1, <2>3, <3>1 DEF waitersTold
  <2> QED
    BY <2>2, <2>3
<1>2. wt \in [Waiter -> WaiterRecord]
  <2>1. wt = [w \in Waiter |-> wt[w]]
    BY DEF notified
  <2> HIDE DEF wt
  <2> QED
    BY <1>1, <2>1
<1>3. \A w \in Waiter : started(wt[w].taskIds, xs)
  BY <1>1 DEF waitersTold
<1> HIDE DEF wt
<1>4. waitersSound(wt, ls, xs)
  BY <1>1, <1>2, <1>3 DEF waitersSound, waitersTold
<1> QED
  BY <1>4 DEF wt

-----------------------------------------------------------------------------
(***************************************************************************)
(* Steps.                                                                  *)
(***************************************************************************)

\* What a step has to leave behind.
LEMMA PartsAfter ==
  ASSUME sound(lane', entry', nextSequence'), \A l \in Lane : full(lane'[l]),
         waitersSound(waiter', lane', entry'), gatewayDraining' \in BOOLEAN
  PROVE  LaneInv'
<1>1. laneParts'
  BY DEF laneParts
<1> QED
  BY <1>1, Parts, PTL

\* A step of one entry that changes neither its place nor its slot.
keepsStanding(x, y, ls) ==
  /\ y \in EntryRecord
  /\ y.lane = x.lane /\ y.priority = x.priority
  /\ y.sequence = x.sequence /\ y.generation = x.generation
  /\ (y.phase = "queued" <=> x.phase = "queued")
  /\ \/ (y.phase \in {"running", "raced"} <=> x.phase \in {"running", "raced"})
     \/ x.generation # ls[x.lane].generation
  /\ y.phase \in {"new", "queued"} => x.phase \in {"new", "queued"}
  /\ y.work = "running" => y.phase \in {"running", "raced", "settled"}
  /\ y.work = "running" /\ y.phase # "running" => y.outcome = "timeout"

LEMMA StandingKept ==
  ASSUME NEW ls, NEW xs, NEW ns, NEW ws, sound(ls, xs, ns), waitersSound(ws, ls, xs),
         NEW d \in Entry, NEW y, keepsStanding(xs[d], y, ls),
         NEW xt, xt = [xs EXCEPT ![d] = y]
  PROVE  sound(ls, xt, ns) /\ waitersSound(ws, ls, xt)
<1>1. xs = [e \in Entry |-> xs[e]]
  BY DEF sound
<1>2. xt = [e \in Entry |-> xt[e]] /\ \A e \in Entry : xt[e] = IF e = d THEN y ELSE xs[e]
  BY <1>1
<1>3. ASSUME NEW e \in Entry
      PROVE  /\ xt[e].lane = xs[e].lane /\ xt[e].priority = xs[e].priority
             /\ xt[e].sequence = xs[e].sequence /\ xt[e].generation = xs[e].generation
             /\ (xt[e].phase = "queued" <=> xs[e].phase = "queued")
             /\ xt[e].phase \in {"new", "queued"} => xs[e].phase \in {"new", "queued"}
             /\ \/ (xt[e].phase \in {"running", "raced"} <=> xs[e].phase \in {"running", "raced"})
                \/ xs[e].generation # ls[xs[e].lane].generation
  BY <1>2 DEF keepsStanding
<1>4. ASSUME NEW l \in Lane PROVE laneSound(l, ls[l], xt)
  <2>1. laneSound(l, ls[l], xs)
    BY DEF sound
  <2>2. begunIn(l, ls[l].generation, xt) = begunIn(l, ls[l].generation, xs)
    BY <1>3 DEF begunIn
  <2>3. queuedIn(l, xt) = queuedIn(l, xs)
    BY <1>3 DEF queuedIn
  <2>4. ordered(ls[l].queue, queuedIn(l, xt), xt)
    <3>1. \A i \in 1 .. Len(ls[l].queue) : ls[l].queue[i] \in Entry
      BY <2>1 DEF laneSound, ordered, queuedIn
    <3>2. \A e, f \in Entry : before(xt[e], xt[f]) <=> before(xs[e], xs[f])
      BY <1>3 DEF before
    <3> QED
      BY <2>1, <2>3, <3>1, <3>2 DEF laneSound, ordered
  <2> QED
    BY <2>1, <2>2, <2>4 DEF laneSound
<1>5. ASSUME NEW e \in Entry PROVE entrySound(xt[e], ls, ns)
  <2>1. entrySound(xs[e], ls, ns)
    BY DEF sound
  <2> QED
    BY <1>2, <2>1 DEF entrySound, keepsStanding
<1>6. sound(ls, xt, ns)
  BY <1>2, <1>4, <1>5 DEF sound
<1>7. ASSUME NEW w \in Waiter PROVE started(ws[w].taskIds, xt)
  <2>1. ws[w].taskIds \subseteq Entry /\ started(ws[w].taskIds, xs)
    BY DEF waitersSound, waitersTold, WaiterRecord
  <2> QED
    BY <1>3, <2>1 DEF started
<1>8. waitersSound(ws, ls, xt)
  BY <1>7 DEF waitersSound, waitersTold
<1> QED
  BY <1>6, <1>8

\* A step that leaves the lanes and the waiters alone.
LEMMA EntryStep ==
  ASSUME laneParts, NEW d \in Entry, NEW y, keepsStanding(entry[d], y, lane),
         entry' = [entry EXCEPT ![d] = y],
         UNCHANGED <<lane, waiter, nextSequence, gatewayDraining>>
  PROVE  LaneInv'
<1>1. sound(lane, entry', nextSequence) /\ waitersSound(waiter, lane, entry')
  BY StandingKept DEF laneParts
<1>2. sound(lane', entry', nextSequence') /\ waitersSound(waiter', lane', entry')
  BY <1>1
<1> QED
  BY <1>2, PartsAfter DEF laneParts

\* A race decided, or a promise settled, with outcome o.
decidedAs(x, y, p, o) == y = [x EXCEPT !.phase = p, !.outcome = o]

LEMMA DecidedEntry ==
  ASSUME NEW x \in EntryRecord, NEW p \in EntryPhases, NEW o \in Outcomes, NEW y,
         decidedAs(x, y, p, o)
  PROVE  /\ y \in EntryRecord /\ y.phase = p /\ y.outcome = o /\ y.work = x.work
         /\ y.lane = x.lane /\ y.priority = x.priority
         /\ y.sequence = x.sequence /\ y.generation = x.generation
<1>1. y \in EntryRecord
  BY DEF EntryRecord, decidedAs
<1>2. y.phase = p /\ y.outcome = o
  BY DEF EntryRecord, decidedAs
<1>3. y.work = x.work /\ y.lane = x.lane /\ y.priority = x.priority
  BY DEF EntryRecord, decidedAs
<1>4. y.sequence = x.sequence /\ y.generation = x.generation
  BY DEF EntryRecord, decidedAs
<1> QED
  BY <1>1, <1>2, <1>3, <1>4

\* The steps of one task but its start and its completion.
LEMMA RefusedStep ==
  ASSUME laneParts, NEW d \in Entry, enqueueCommandInLane(d), gatewayDraining
  PROVE  LaneInv'
<1> DEFINE x == entry[d]
           y == [x EXCEPT !.phase = "settled", !.outcome = "refused"]
<1>1. entrySound(x, lane, nextSequence)
  BY DEF laneParts, sound
<1>2. x.phase = "new" /\ entry' = [entry EXCEPT ![d] = y]
      /\ UNCHANGED <<lane, waiter, nextSequence, gatewayDraining>>
  BY DEF enqueueCommandInLane
<1>3. keepsStanding(x, y, lane)
  <2>1. x \in EntryRecord
    BY <1>1 DEF entrySound
  <2>2. "settled" \in EntryPhases /\ "refused" \in Outcomes
    BY DEF EntryPhases, Outcomes
  <2> HIDE DEF x, y
  <2>3. decidedAs(x, y, "settled", "refused")
    BY DEF y, decidedAs
  <2>4. /\ y \in EntryRecord /\ y.phase = "settled" /\ y.work = x.work
        /\ y.lane = x.lane /\ y.priority = x.priority
        /\ y.sequence = x.sequence /\ y.generation = x.generation
    BY <2>1, <2>2, <2>3, DecidedEntry
  <2> QED
    BY <1>1, <1>2, <2>4 DEF keepsStanding, entrySound
<1> QED
  BY <1>2, <1>3, EntryStep

LEMMA TaskEndsStep ==
  ASSUME laneParts, NEW d \in Entry, taskEnds(d)
  PROVE  LaneInv'
<1> DEFINE x == entry[d]
           z == IF x.phase = "running" THEN decided(d, "ended") ELSE x
           y == [z EXCEPT !.work = "over"]
<1>1. entrySound(x, lane, nextSequence)
  BY DEF laneParts, sound
<1>2. entry' = [entry EXCEPT ![d] = y] /\ x.work = "running"
      /\ UNCHANGED <<lane, waiter, nextSequence, gatewayDraining>>
  BY DEF taskEnds
<1>3. CASE x.phase = "running"
  <2> DEFINE b == [x EXCEPT !.phase = "raced", !.outcome = "ended"]
  <2>1. y = [b EXCEPT !.work = "over"]
    BY <1>3 DEF decided
  <2>2. keepsStanding(x, y, lane)
    <3>1. x \in EntryRecord /\ "raced" \in EntryPhases /\ "ended" \in Outcomes
      BY <1>1 DEF entrySound, EntryPhases, Outcomes
    <3> HIDE DEF x, y, b
    <3>2. decidedAs(x, b, "raced", "ended")
      BY DEF b, decidedAs
    <3>3. /\ b \in EntryRecord /\ b.phase = "raced" /\ b.outcome = "ended"
          /\ b.work = x.work /\ b.lane = x.lane /\ b.priority = x.priority
          /\ b.sequence = x.sequence /\ b.generation = x.generation
      BY <3>1, <3>2, DecidedEntry
    <3>4. /\ y \in EntryRecord /\ y.phase = b.phase
          /\ y.work = "over"
          /\ y.lane = b.lane /\ y.priority = b.priority
          /\ y.sequence = b.sequence /\ y.generation = b.generation
      BY <2>1, <3>3 DEF EntryRecord
    <3> QED
      BY <1>1, <1>3, <3>3, <3>4 DEF keepsStanding, entrySound
  <2> QED
    BY <1>2, <2>2, EntryStep DEF x
<1>4. CASE x.phase # "running"
  <2>1. y = [x EXCEPT !.work = "over"]
    BY <1>4
  <2> HIDE DEF x
  <2>2. keepsStanding(x, y, lane)
    <3> HIDE DEF y
    <3> QED
      BY <1>1, <1>4, <2>1 DEF keepsStanding, entrySound, EntryRecord, EntryPhases, Outcomes
  <2> QED
    BY <1>2, <2>2, EntryStep DEF x
<1> QED
  BY <1>3, <1>4

LEMMA ProgressStep ==
  ASSUME laneParts, NEW d \in Entry, progress(d)
  PROVE  LaneInv'
<1> DEFINE x == entry[d]
           y == [x EXCEPT !.progressed = TRUE]
<1>1. entrySound(x, lane, nextSequence)
  BY DEF laneParts, sound
<1>2. entry' = [entry EXCEPT ![d] = y]
      /\ UNCHANGED <<lane, waiter, nextSequence, gatewayDraining>>
  BY DEF progress
<1>3. keepsStanding(x, y, lane)
  <2> HIDE DEF x
  <2> QED
    BY <1>1 DEF keepsStanding, entrySound, EntryRecord
<1> QED
  BY <1>2, <1>3, EntryStep

LEMMA TimerStep ==
  ASSUME laneParts, NEW d \in Entry, timerFires(d)
  PROVE  LaneInv'
<1> DEFINE x == entry[d]
           a == [x EXCEPT !.progressed = FALSE]
           b == [x EXCEPT !.phase = "raced", !.outcome = "timeout"]
<1>1. entrySound(x, lane, nextSequence) /\ x.phase = "running"
  BY DEF laneParts, sound, timerFires
<1>2. /\ entry' = [entry EXCEPT ![d] = IF renews(x) THEN a ELSE b]
      /\ UNCHANGED <<lane, waiter, nextSequence, gatewayDraining>>
  BY DEF timerFires, decided
<1>3. keepsStanding(x, a, lane)
  <2> HIDE DEF x
  <2> QED
    BY <1>1 DEF keepsStanding, entrySound, EntryRecord
<1>4. keepsStanding(x, b, lane)
  <2>1. x \in EntryRecord /\ "raced" \in EntryPhases /\ "timeout" \in Outcomes
    BY <1>1 DEF entrySound, EntryPhases, Outcomes
  <2> HIDE DEF x, b
  <2>2. decidedAs(x, b, "raced", "timeout")
    BY DEF b, decidedAs
  <2>3. /\ b \in EntryRecord /\ b.phase = "raced" /\ b.outcome = "timeout"
        /\ b.work = x.work /\ b.lane = x.lane /\ b.priority = x.priority
        /\ b.sequence = x.sequence /\ b.generation = x.generation
    BY <2>1, <2>2, DecidedEntry
  <2> QED
    BY <1>1, <2>3 DEF keepsStanding, entrySound
<1>5. CASE renews(x)
  <2>1. entry' = [entry EXCEPT ![d] = a]
    BY <1>2, <1>5
  <2> QED
    BY <1>2, <1>3, <2>1, EntryStep
<1>6. CASE ~renews(x)
  <2>1. entry' = [entry EXCEPT ![d] = b]
    BY <1>2, <1>6
  <2> QED
    BY <1>2, <1>4, <2>1, EntryStep
<1> QED
  BY <1>5, <1>6

LEMMA AbortStep ==
  ASSUME laneParts, NEW d \in Entry, abortSignal(d)
  PROVE  LaneInv'
<1> DEFINE x == entry[d]
           y == [x EXCEPT !.aborted = TRUE,
                          !.timer = IF x.timer = "progress" THEN "grace" ELSE x.timer]
<1>1. entrySound(x, lane, nextSequence)
  BY DEF laneParts, sound
<1>2. entry' = [entry EXCEPT ![d] = y]
      /\ UNCHANGED <<lane, waiter, nextSequence, gatewayDraining>>
  BY DEF abortSignal
<1>3. keepsStanding(x, y, lane)
  <2> HIDE DEF x
  <2> QED
    BY <1>1 DEF keepsStanding, entrySound, EntryRecord
<1> QED
  BY <1>2, <1>3, EntryStep

LEMMA ReleaseStep ==
  ASSUME laneParts, NEW d \in Entry, releaseSignal(d)
  PROVE  LaneInv'
<1> DEFINE x == entry[d]
           z == IF x.phase = "running" /\ x.listening THEN decided(d, "timeout") ELSE x
           y == [z EXCEPT !.released = TRUE]
<1>1. entrySound(x, lane, nextSequence)
  BY DEF laneParts, sound
<1>2. entry' = [entry EXCEPT ![d] = y]
      /\ UNCHANGED <<lane, waiter, nextSequence, gatewayDraining>>
  BY DEF releaseSignal
<1>3. CASE x.phase = "running" /\ x.listening
  <2> DEFINE b == [x EXCEPT !.phase = "raced", !.outcome = "timeout"]
  <2>1. y = [b EXCEPT !.released = TRUE]
    BY <1>3 DEF decided
  <2>2. keepsStanding(x, y, lane)
    <3>1. x \in EntryRecord /\ "raced" \in EntryPhases /\ "timeout" \in Outcomes
      BY <1>1 DEF entrySound, EntryPhases, Outcomes
    <3> HIDE DEF x, y, b
    <3>2. decidedAs(x, b, "raced", "timeout")
      BY DEF b, decidedAs
    <3>3. /\ b \in EntryRecord /\ b.phase = "raced" /\ b.outcome = "timeout"
          /\ b.work = x.work /\ b.lane = x.lane /\ b.priority = x.priority
          /\ b.sequence = x.sequence /\ b.generation = x.generation
      BY <3>1, <3>2, DecidedEntry
    <3>4. /\ y \in EntryRecord /\ y.phase = b.phase
          /\ y.work = b.work /\ y.outcome = b.outcome
          /\ y.lane = b.lane /\ y.priority = b.priority
          /\ y.sequence = b.sequence /\ y.generation = b.generation
      BY <2>1, <3>3 DEF EntryRecord
    <3> QED
      BY <1>1, <1>3, <3>3, <3>4 DEF keepsStanding, entrySound
  <2> QED
    BY <1>2, <2>2, EntryStep DEF x
<1>4. CASE ~(x.phase = "running" /\ x.listening)
  <2>1. y = [x EXCEPT !.released = TRUE]
    BY <1>4
  <2> HIDE DEF x
  <2>2. keepsStanding(x, y, lane)
    <3> HIDE DEF y
    <3> QED
      BY <1>1, <2>1 DEF keepsStanding, entrySound, EntryRecord
  <2> QED
    BY <1>2, <2>2, EntryStep DEF x
<1> QED
  BY <1>3, <1>4

\* A completion of an older generation only settles the caller's promise.
LEMMA StaleStep ==
  ASSUME laneParts, NEW d \in Entry, taskCompletes(d),
         entry[d].generation # lane[entry[d].lane].generation
  PROVE  LaneInv'
<1> DEFINE x == entry[d]
           y == [x EXCEPT !.phase = "settled"]
<1>1. entrySound(x, lane, nextSequence) /\ x.phase = "raced"
  BY DEF laneParts, sound, taskCompletes
<1>2. entry' = [entry EXCEPT ![d] = y]
      /\ UNCHANGED <<lane, waiter, nextSequence, gatewayDraining>>
  BY DEF taskCompletes
<1>3. keepsStanding(x, y, lane)
  <2>1. x.generation # lane[x.lane].generation
    OBVIOUS
  <2> HIDE DEF x
  <2> QED
    BY <1>1, <2>1 DEF keepsStanding, entrySound, EntryRecord, EntryPhases
<1> QED
  BY <1>2, <1>3, EntryStep

-----------------------------------------------------------------------------
(***************************************************************************)
(* enqueueCommandInLane.                                                   *)
(***************************************************************************)

\* A set of naturals that is not empty has a least element.
LEMMA LeastNatural ==
  ASSUME NEW T, T \subseteq Nat, T # {}
  PROVE  \E x \in T : \A y \in T : x <= y
<1>1. \E x \in T : \A y \in T : ~ (<<y, x>> \in OpToRel(<, Nat))
  BY NatLessThanWellFounded, WFMin
<1>2. ASSUME NEW x \in T, NEW y \in T, ~ (<<y, x>> \in OpToRel(<, Nat))
      PROVE  x <= y
  BY <1>2 DEF OpToRel
<1> QED
  BY <1>1, <1>2

\* An entry put between those that run before it and those it runs before.
LEMMA InsertedOrdered ==
  ASSUME NEW q \in Seq(Entry), NEW Q \in SUBSET Entry, NEW xs, ordered(q, Q, xs),
         NEW e \in Entry, NEW i \in 1 .. Len(q) + 1,
         \A j \in 1 .. Len(q) : j < i => before(xs[q[j]], xs[e]),
         \A j \in 1 .. Len(q) : i <= j => before(xs[e], xs[q[j]])
  PROVE  ordered(inserted(q, i, e), Q \cup {e}, xs)
<1> DEFINE p == inserted(q, i, e)
<1>1. /\ p \in Seq(Entry) /\ Len(p) = Len(q) + 1
      /\ \A j \in 1 .. Len(q) + 1 :
           p[j] = IF j < i THEN q[j] ELSE IF j = i THEN e ELSE q[j - 1]
  BY InsertedQueue
<1>2. Len(q) \in Nat /\ i \in Nat
  BY LenProperties
<1> HIDE DEF p
<1>3. {p[j] : j \in 1 .. Len(p)} = Q \cup {e}
  <2>1. ASSUME NEW j \in 1 .. Len(p) PROVE p[j] \in Q \cup {e}
    BY <1>1, <1>2, <2>1 DEF ordered
  <2>2. ASSUME NEW d \in Q PROVE \E j \in 1 .. Len(p) : p[j] = d
    <3>1. PICK k \in 1 .. Len(q) : q[k] = d
      BY DEF ordered
    <3>2. CASE k < i
      <4>1. k \in 1 .. Len(q) + 1 /\ p[k] = d
        BY <1>1, <1>2, <3>1, <3>2
      <4> QED
        BY <1>1, <4>1
    <3>3. CASE ~ (k < i)
      <4>1. k + 1 \in 1 .. Len(q) + 1 /\ ~ (k + 1 < i) /\ k + 1 # i /\ (k + 1) - 1 = k
        BY <1>2, <3>3
      <4>2. p[k + 1] = d
        BY <1>1, <3>1, <4>1
      <4> QED
        BY <1>1, <4>1, <4>2
    <3> QED
      BY <3>2, <3>3
  <2>3. p[i] = e /\ i \in 1 .. Len(p)
    BY <1>1, <1>2
  <2> QED
    BY <2>1, <2>2, <2>3
<1>4. ASSUME NEW j \in 1 .. Len(p), NEW k \in 1 .. Len(p), j < k
      PROVE  before(xs[p[j]], xs[p[k]])
  <2>1. \A a, b \in 1 .. Len(q) : a < b => before(xs[q[a]], xs[q[b]])
    BY DEF ordered
  <2>2. CASE k < i
    <3>1. p[j] = q[j] /\ p[k] = q[k] /\ j \in 1 .. Len(q) /\ k \in 1 .. Len(q)
      BY <1>1, <1>2, <1>4, <2>2
    <3> QED
      BY <1>4, <2>1, <3>1
  <2>3. CASE k = i
    <3>1. p[j] = q[j] /\ p[k] = e /\ j \in 1 .. Len(q) /\ j < i
      BY <1>1, <1>2, <1>4, <2>3
    <3> QED
      BY <3>1
  <2>4. CASE k > i /\ j < i
    <3>1. p[j] = q[j] /\ p[k] = q[k - 1] /\ j \in 1 .. Len(q) /\ k - 1 \in 1 .. Len(q)
          /\ j < k - 1
      BY <1>1, <1>2, <1>4, <2>4
    <3> QED
      BY <2>1, <3>1
  <2>5. CASE k > i /\ j = i
    <3>1. p[j] = e /\ p[k] = q[k - 1] /\ k - 1 \in 1 .. Len(q) /\ i <= k - 1
      BY <1>1, <1>2, <1>4, <2>5
    <3> QED
      BY <3>1
  <2>6. CASE k > i /\ j > i
    <3>1. p[j] = q[j - 1] /\ p[k] = q[k - 1] /\ j - 1 \in 1 .. Len(q)
          /\ k - 1 \in 1 .. Len(q) /\ j - 1 < k - 1
      BY <1>1, <1>2, <1>4, <2>6
    <3> QED
      BY <2>1, <3>1
  <2> QED
    BY <1>2, <2>2, <2>3, <2>4, <2>5, <2>6
<1>5. ordered(p, Q \cup {e}, xs)
  BY <1>3, <1>4 DEF ordered
<1> QED
  BY <1>5 DEF p

\* insertAt finds the place of a new entry x, the latest in arrival.
LEMMA InsertPlace ==
  ASSUME NEW q \in Seq(Entry), NEW Q \in SUBSET Entry, NEW x,
         x.priority \in Int, x.sequence \in Int,
         \A d \in Entry : entry[d].priority \in Int /\ entry[d].sequence \in Int,
         ordered(q, Q, entry),
         \A d \in Q : entry[d].sequence < x.sequence
  PROVE  /\ insertAt(q, x) \in 1 .. Len(q) + 1
         /\ \A j \in 1 .. Len(q) : j < insertAt(q, x) => before(entry[q[j]], x)
         /\ \A j \in 1 .. Len(q) : insertAt(q, x) <= j => before(x, entry[q[j]])
<1> DEFINE runsAfter(i) == \/ entry[q[i]].priority < x.priority
                           \/ /\ entry[q[i]].priority = x.priority
                              /\ entry[q[i]].sequence > x.sequence
           first(i) == runsAfter(i) /\ \A j \in 1 .. i - 1 : ~runsAfter(j)
           i == insertAt(q, x)
           n == Len(q)
<1>0. n \in Nat
  BY LenProperties
<1>1. \A j \in 1 .. n : /\ q[j] \in Entry /\ entry[q[j]].sequence < x.sequence
                        /\ entry[q[j]].priority \in Int /\ entry[q[j]].sequence \in Int
  BY DEF ordered
<1>2. \A j \in 1 .. n : runsAfter(j) <=> entry[q[j]].priority < x.priority
  BY <1>1
<1>3. \A j \in 1 .. n : ~runsAfter(j) => before(entry[q[j]], x)
  BY <1>1, <1>2 DEF before
<1>4. \A j, k \in 1 .. n : j < k => entry[q[k]].priority <= entry[q[j]].priority
  <2> SUFFICES ASSUME NEW j \in 1 .. n, NEW k \in 1 .. n, j < k
               PROVE  entry[q[k]].priority <= entry[q[j]].priority
    OBVIOUS
  <2>1. before(entry[q[j]], entry[q[k]])
    BY DEF ordered
  <2>2. entry[q[j]].priority \in Int /\ entry[q[k]].priority \in Int
    BY <1>1
  <2> QED
    BY <2>1, <2>2 DEF before
<1>5. CASE \E j \in 1 .. n : runsAfter(j)
  <2> DEFINE S == {j \in 1 .. n : runsAfter(j)}
  <2>1. PICK m \in S : \A j \in S : m <= j
    <3>1. S \in SUBSET Nat /\ S # {}
      BY <1>5
    <3> HIDE DEF S
    <3> QED
      BY <3>1, LeastNatural
  <2>2. m \in 1 .. n /\ first(m)
    <3>1. m \in 1 .. n /\ runsAfter(m)
      OBVIOUS
    <3>2. ASSUME NEW j \in 1 .. m - 1 PROVE ~runsAfter(j)
      <4>1. j \in 1 .. n /\ j < m
        BY <1>0, <3>1
      <4> HIDE DEF runsAfter
      <4> QED
        BY <2>1, <3>1, <4>1
    <3> HIDE DEF runsAfter
    <3> QED
      BY <3>1, <3>2
  <2>3. i = CHOOSE j \in 1 .. n : first(j)
    BY <1>5 DEF insertAt
  <2>4. i \in 1 .. n /\ first(i)
    <3> HIDE DEF first, i
    <3> QED
      BY <2>2, <2>3
  <2>5. \A j \in 1 .. n : j < i => before(entry[q[j]], x)
    <3> SUFFICES ASSUME NEW j \in 1 .. n, j < i PROVE before(entry[q[j]], x)
      OBVIOUS
    <3>1. ~runsAfter(j)
      <4>1. j \in 1 .. i - 1
        <5> HIDE DEF i, first, n
        <5> QED
          BY <1>0, <2>4
      <4> HIDE DEF runsAfter, i
      <4> QED
        BY <2>4, <4>1
    <3> HIDE DEF runsAfter, i
    <3> QED
      BY <1>3, <3>1
  <2>6. \A j \in 1 .. n : i <= j => before(x, entry[q[j]])
    <3> SUFFICES ASSUME NEW j \in 1 .. n, i <= j PROVE before(x, entry[q[j]])
      OBVIOUS
    <3>1. i \in 1 .. n /\ entry[q[i]].priority < x.priority
      <4> HIDE DEF runsAfter, i, n
      <4> QED
        BY <1>2, <2>4
    <3> HIDE DEF i, first, n, runsAfter
    <3>2. i = j \/ entry[q[j]].priority <= entry[q[i]].priority
      BY <1>0, <1>4, <3>1
    <3> QED
      BY <1>1, <3>1, <3>2 DEF before
  <2> QED
    BY <1>0, <2>4, <2>5, <2>6
<1>6. CASE ~ \E j \in 1 .. n : runsAfter(j)
  <2>1. i = n + 1
    BY <1>6 DEF insertAt
  <2> HIDE DEF i, runsAfter, n
  <2> QED
    BY <1>0, <1>3, <1>6, <2>1 DEF i, n
<1> QED
  BY <1>5, <1>6

\* The lane and the entries an enqueue hands to the pump.
enqueues(d, x, l, ls, xs) ==
  /\ x = [entry[d] EXCEPT !.phase = "queued", !.sequence = nextSequence]
  /\ l = entry[d].lane
  /\ ls = [lane EXCEPT ![l] = [lane[l] EXCEPT !.queue =
             inserted(lane[l].queue, insertAt(lane[l].queue, x), d)]]
  /\ xs = [entry EXCEPT ![d] = x]

LEMMA EnqueuedSound ==
  ASSUME laneParts, NEW d \in Entry, entry[d].phase = "new",
         NEW x, NEW l, NEW ls, NEW xs, enqueues(d, x, l, ls, xs)
  PROVE  /\ sound(ls, xs, nextSequence + 1)
         /\ \A m \in Lane \ {l} : full(ls[m])
         /\ waitersSound(waiter, ls, xs)
<1>1. /\ sound(lane, entry, nextSequence) /\ waitersSound(waiter, lane, entry)
      /\ nextSequence \in Nat /\ \A m \in Lane : full(lane[m])
  BY DEF laneParts, sound
<1>2. /\ lane = [m \in Lane |-> lane[m]] /\ entry = [e \in Entry |-> entry[e]]
      /\ \A m \in Lane : laneSound(m, lane[m], entry)
      /\ \A e \in Entry : entrySound(entry[e], lane, nextSequence)
  BY <1>1 DEF sound
<1>3. \A e \in Entry : /\ entry[e] \in EntryRecord /\ entry[e].sequence < nextSequence
                       /\ entry[e].priority \in Int /\ entry[e].sequence \in Nat
  BY <1>2, EntryFields DEF entrySound
<1>4. l \in Lane /\ l = entry[d].lane
  BY <1>3, EntryFields DEF enqueues
<1>5. /\ x \in EntryRecord /\ x.phase = "queued" /\ x.sequence = nextSequence
      /\ x.lane = l /\ x.priority = entry[d].priority /\ x.work = entry[d].work
      /\ x.generation = entry[d].generation /\ x.outcome = entry[d].outcome
  <2> DEFINE z == entry[d]
  <2>1. z \in EntryRecord /\ x = [z EXCEPT !.phase = "queued", !.sequence = nextSequence]
    BY <1>3 DEF enqueues
  <2>2. "queued" \in EntryPhases
    BY DEF EntryPhases
  <2> HIDE DEF z
  <2>3. x \in EntryRecord
    BY <1>1, <2>1, <2>2 DEF EntryRecord
  <2>4. x.phase = "queued" /\ x.sequence = nextSequence
    BY <2>1 DEF EntryRecord
  <2>5. x.lane = z.lane /\ x.priority = z.priority /\ x.work = z.work
    BY <2>1 DEF EntryRecord
  <2>6. x.generation = z.generation /\ x.outcome = z.outcome
    BY <2>1 DEF EntryRecord
  <2>7. z.lane = l
    BY DEF z, enqueues
  <2> QED
    BY <2>3, <2>4, <2>5, <2>6, <2>7 DEF z
<1> DEFINE q == lane[l].queue
           i == insertAt(q, x)
           p == inserted(q, i, d)
           Q == queuedIn(l, entry)
           s == [lane[l] EXCEPT !.queue = p]
<1>6. lane[l] \in LaneRecord /\ q \in Seq(Entry) /\ ordered(q, Q, entry)
  BY <1>2, <1>4, LaneFields DEF laneSound
<1>7. /\ i \in 1 .. Len(q) + 1
      /\ \A j \in 1 .. Len(q) : j < i => before(entry[q[j]], x)
      /\ \A j \in 1 .. Len(q) : i <= j => before(x, entry[q[j]])
  <2>1. x.priority \in Int /\ x.sequence \in Int
    BY <1>1, <1>3, <1>5
  <2>2. Q \in SUBSET Entry /\ \A e \in Q : entry[e].sequence < x.sequence
    BY <1>3, <1>5 DEF queuedIn
  <2>3. \A e \in Entry : entry[e].priority \in Int /\ entry[e].sequence \in Int
    BY <1>3
  <2> HIDE DEF q, Q
  <2> QED
    BY <1>6, <2>1, <2>2, <2>3, InsertPlace
<1>8. /\ xs = [e \in Entry |-> xs[e]] /\ xs[d] = x
      /\ \A e \in Entry : e # d => xs[e] = entry[e]
  BY <1>2 DEF enqueues
<1>9. ordered(p, Q \cup {d}, xs)
  <2>1. d \notin Q /\ Q \in SUBSET Entry
    BY DEF queuedIn
  <2>2. \A j \in 1 .. Len(q) : q[j] \in Q
    BY <1>6 DEF ordered
  <2>3. \A j \in 1 .. Len(q) : xs[q[j]] = entry[q[j]]
    BY <1>8, <2>1, <2>2
  <2>4. ordered(q, Q, xs)
    <3> HIDE DEF q, Q
    <3> QED
      BY <1>6, <2>3 DEF ordered
  <2>5. \A j \in 1 .. Len(q) : j < i => before(xs[q[j]], xs[d])
    BY <1>7, <1>8, <2>3
  <2>6. \A j \in 1 .. Len(q) : i <= j => before(xs[d], xs[q[j]])
    BY <1>7, <1>8, <2>3
  <2> HIDE DEF q, Q, i
  <2> QED
    BY <1>6, <1>7, <2>1, <2>4, <2>5, <2>6, InsertedOrdered DEF p
<1>10. p \in Seq(Entry)
  <2> HIDE DEF q, i
  <2> QED
    BY <1>6, <1>7, InsertedQueue DEF p
<1>11. /\ s \in LaneRecord /\ s.queue = p /\ s.active = lane[l].active
       /\ s.maxConcurrent = lane[l].maxConcurrent /\ s.generation = lane[l].generation
  <2> HIDE DEF p
  <2> QED
    BY <1>6, <1>10 DEF LaneRecord
<1>12. /\ ls = [m \in Lane |-> ls[m]] /\ ls[l] = s
       /\ \A m \in Lane : m # l => ls[m] = lane[m]
  BY <1>2, <1>4 DEF enqueues
<1>13. \A m \in Lane : /\ ls[m].active = lane[m].active
                       /\ ls[m].generation = lane[m].generation
  BY <1>11, <1>12
<1>14. ASSUME NEW m \in Lane PROVE laneSound(m, ls[m], xs)
  <2>1. laneSound(m, lane[m], entry)
    BY <1>2
  <2>2. begunIn(m, ls[m].generation, xs) = begunIn(m, lane[m].generation, entry)
    BY <1>5, <1>8, <1>13 DEF begunIn
  <2>3. CASE m = l
    <3>1. queuedIn(l, xs) = Q \cup {d}
      BY <1>5, <1>8 DEF queuedIn
    <3> HIDE DEF s, p, Q
    <3> QED
      BY <1>9, <1>11, <1>12, <2>1, <2>2, <2>3, <3>1 DEF laneSound
  <2>4. CASE m # l
    <3>1. queuedIn(m, xs) = queuedIn(m, entry)
      BY <1>5, <1>8, <2>4 DEF queuedIn
    <3>2. \A j \in 1 .. Len(lane[m].queue) : lane[m].queue[j] \in queuedIn(m, entry)
      BY <2>1 DEF laneSound, ordered
    <3>3. \A e \in queuedIn(m, entry) : xs[e] = entry[e]
      BY <1>8 DEF queuedIn
    <3>4. ordered(lane[m].queue, queuedIn(m, xs), xs)
      BY <2>1, <3>1, <3>2, <3>3 DEF laneSound, ordered
    <3>5. ls[m] = lane[m]
      BY <1>12, <2>4
    <3> QED
      BY <2>1, <2>2, <3>4, <3>5 DEF laneSound
  <2> QED
    BY <2>3, <2>4
<1>15. ASSUME NEW e \in Entry PROVE entrySound(xs[e], ls, nextSequence + 1)
  <2>1. entrySound(entry[e], lane, nextSequence) /\ entry[e].lane \in Lane
    BY <1>2, <1>3, EntryFields
  <2>2. ls[entry[e].lane].generation = lane[entry[e].lane].generation
    BY <1>13, <2>1
  <2>3. CASE e = d
    <3>1. entry[d].work # "running"
      BY <2>1, <2>3 DEF entrySound
    <3>2. x.sequence < nextSequence + 1
      BY <1>1, <1>5
    <3>3. x.generation <= ls[x.lane].generation
      BY <1>4, <1>5, <2>1, <2>2, <2>3 DEF entrySound
    <3> QED
      BY <1>5, <1>8, <2>3, <3>1, <3>2, <3>3 DEF entrySound
  <2>4. CASE e # d
    <3>1. entry[e].sequence < nextSequence + 1
      BY <1>1, <1>3
    <3> QED
      BY <1>8, <2>1, <2>2, <2>4, <3>1 DEF entrySound
  <2> QED
    BY <2>3, <2>4
<1>16. sound(ls, xs, nextSequence + 1)
  BY <1>1, <1>8, <1>12, <1>14, <1>15 DEF sound
<1>17. waitersSound(waiter, ls, xs)
  <2>1. ASSUME NEW w \in Waiter
        PROVE  /\ stillActive(waiter[w].taskIds, ls) <=> stillActive(waiter[w].taskIds, lane)
               /\ started(waiter[w].taskIds, xs)
    <3>1. started(waiter[w].taskIds, entry) /\ waiter[w].taskIds \subseteq Entry
      BY <1>1 DEF waitersSound, waitersTold, WaiterRecord
    <3>2. d \notin waiter[w].taskIds
      BY <3>1 DEF started
    <3>3. started(waiter[w].taskIds, xs)
      BY <1>8, <3>1, <3>2 DEF started
    <3> QED
      BY <1>13, <3>3 DEF stillActive
  <2> QED
    BY <1>1, <2>1 DEF waitersSound, waitersTold
<1>18. \A m \in Lane \ {l} : full(ls[m])
  BY <1>1, <1>12
<1> QED
  BY <1>16, <1>17, <1>18

\* The pump ends a step that has made the state sound but for idle slots.
LEMMA PumpEnds ==
  ASSUME NEW ls, NEW xs, NEW pumping \in SUBSET Lane,
         sound(ls, xs, nextSequence'), \A l \in Lane \ pumping : full(ls[l]),
         pump(pumping, ls, xs), waitersSound(waiter', ls, xs), gatewayDraining' \in BOOLEAN
  PROVE  LaneInv'
<1>1. pumpsTo(pumping, ls, xs, lane', entry')
  BY DEF pump, pumpsTo
<1>2. sound(lane', entry', nextSequence')
  BY <1>1, PumpSound
<1>3. \A l \in Lane : full(lane'[l])
  BY <1>1, PumpFull
<1>4. waitersSound(waiter', lane', entry')
  <2>1. waitersTold(waiter', ls, xs)
    BY DEF waitersSound
  <2> QED
    BY <1>1, <2>1, PumpWaiters
<1> QED
  BY <1>2, <1>3, <1>4, PartsAfter

\* A task accepted into its lane's queue.
LEMMA EnqueueStep ==
  ASSUME laneParts, NEW d \in Entry, enqueueCommandInLane(d), ~gatewayDraining
  PROVE  LaneInv'
<1> DEFINE l == entry[d].lane
           x == [entry[d] EXCEPT !.phase = "queued", !.sequence = nextSequence]
           ls == [lane EXCEPT ![l] = [lane[l] EXCEPT !.queue =
                    inserted(lane[l].queue, insertAt(lane[l].queue, x), d)]]
           xs == [entry EXCEPT ![d] = x]
<1>1. /\ entry[d].phase = "new" /\ pump({l}, ls, xs)
      /\ nextSequence' = nextSequence + 1 /\ UNCHANGED <<waiter, gatewayDraining>>
  BY DEF enqueueCommandInLane
<1>2. l \in Lane
  BY EntryFields DEF laneParts, sound, entrySound
<1> HIDE DEF l, x, ls, xs
<1>3. /\ sound(ls, xs, nextSequence + 1)
      /\ \A m \in Lane \ {l} : full(ls[m])
      /\ waitersSound(waiter, ls, xs)
  <2>1. enqueues(d, x, l, ls, xs)
    BY DEF l, x, ls, xs, enqueues
  <2> QED
    BY <1>1, <2>1, EnqueuedSound
<1>4. {l} \in SUBSET Lane /\ waitersSound(waiter', ls, xs) /\ sound(ls, xs, nextSequence')
  BY <1>1, <1>2, <1>3
<1>5. gatewayDraining' \in BOOLEAN
  BY <1>1 DEF laneParts
<1> QED
  BY <1>1, <1>3, <1>4, <1>5, PumpEnds

-----------------------------------------------------------------------------
(***************************************************************************)
(* Completions, clears, resets and drains.                                 *)
(***************************************************************************)

\* A task of the current generation gives its slot back.
freesSlot(d, l, ls, xs) ==
  /\ l = entry[d].lane
  /\ ls = [lane EXCEPT ![l] = [lane[l] EXCEPT !.active = completeTask(d)]]
  /\ xs = [entry EXCEPT ![d] = [entry[d] EXCEPT !.phase = "settled"]]

\* The slot of a completed task is free, and nobody has been told yet.
LEMMA FreedSound ==
  ASSUME laneParts, NEW d \in Entry, entry[d].phase = "raced",
         NEW l, NEW ls, NEW xs, freesSlot(d, l, ls, xs),
         entry[d].generation = lane[l].generation
  PROVE  /\ l \in Lane
         /\ sound(ls, xs, nextSequence)
         /\ \A m \in Lane \ {l} : full(ls[m])
         /\ waitersTold(waiter, ls, xs)
<1>1. /\ sound(lane, entry, nextSequence) /\ waitersSound(waiter, lane, entry)
      /\ nextSequence \in Nat /\ \A m \in Lane : full(lane[m])
  BY DEF laneParts, sound
<1>2. /\ lane = [m \in Lane |-> lane[m]] /\ entry = [e \in Entry |-> entry[e]]
      /\ \A m \in Lane : laneSound(m, lane[m], entry)
      /\ \A e \in Entry : entrySound(entry[e], lane, nextSequence)
  BY <1>1 DEF sound
<1>3. entry[d] \in EntryRecord /\ l \in Lane /\ l = entry[d].lane
  BY <1>2, EntryFields DEF entrySound, freesSlot
<1> DEFINE x == [entry[d] EXCEPT !.phase = "settled"]
           s == [lane[l] EXCEPT !.active = lane[l].active \ {d}]
<1>4. /\ x \in EntryRecord /\ x.phase = "settled" /\ x.lane = l
      /\ x.priority = entry[d].priority /\ x.sequence = entry[d].sequence
      /\ x.generation = entry[d].generation /\ x.work = entry[d].work
      /\ x.outcome = entry[d].outcome
  <2> DEFINE z == entry[d]
  <2>1. z \in EntryRecord /\ x = [z EXCEPT !.phase = "settled"] /\ z.lane = l
    BY <1>3
  <2> HIDE DEF z, x
  <2>2. "settled" \in EntryPhases
    BY DEF EntryPhases
  <2>3. x \in EntryRecord
    BY <2>1, <2>2 DEF EntryRecord
  <2>4. x.phase = "settled" /\ x.lane = z.lane /\ x.priority = z.priority
    BY <2>1 DEF EntryRecord
  <2>5. x.sequence = z.sequence /\ x.generation = z.generation
    BY <2>1 DEF EntryRecord
  <2>6. x.work = z.work /\ x.outcome = z.outcome
    BY <2>1 DEF EntryRecord
  <2> QED
    BY <2>1, <2>3, <2>4, <2>5, <2>6 DEF z
<1>5. lane[l] \in LaneRecord
  BY <1>2, <1>3 DEF laneSound
<1>6. /\ s \in LaneRecord /\ s.active = lane[l].active \ {d} /\ s.queue = lane[l].queue
      /\ s.maxConcurrent = lane[l].maxConcurrent /\ s.generation = lane[l].generation
  <2>1. lane[l].active \ {d} \in SUBSET Entry
    BY <1>5, LaneFields
  <2> QED
    BY <1>5, <2>1 DEF LaneRecord
<1>7. /\ ls = [m \in Lane |-> ls[m]] /\ ls[l] = s
      /\ \A m \in Lane : m # l => ls[m] = lane[m]
  <2>1. completeTask(d) = lane[l].active \ {d}
    BY <1>3 DEF completeTask
  <2> QED
    BY <1>2, <1>3, <2>1 DEF freesSlot
<1>8. /\ xs = [e \in Entry |-> xs[e]] /\ xs[d] = x
      /\ \A e \in Entry : e # d => xs[e] = entry[e]
  BY <1>2 DEF freesSlot
<1> HIDE DEF x, s
<1>9. ASSUME NEW m \in Lane
      PROVE  /\ laneSound(m, ls[m], xs) /\ ls[m].generation = lane[m].generation
             /\ ls[m].active = lane[m].active \ {d}
  <2>1. laneSound(m, lane[m], entry)
    BY <1>2
  <2>2. CASE m = l
    <3>1. ls[m] = s
      BY <1>7, <2>2
    <3>2. s.active = begunIn(m, s.generation, xs)
      BY <1>3, <1>4, <1>6, <1>8, <2>1, <2>2 DEF begunIn, laneSound
    <3>3. \E n \in Concurrency : Cardinality(s.active) <= n
      <4>1. PICK n \in Concurrency : Cardinality(lane[m].active) <= n
        BY <2>1 DEF laneSound
      <4>2. Cardinality(s.active) <= Cardinality(lane[m].active)
        BY <1>5, <1>6, <2>2, LaneFields, FS_Subset
      <4>3. /\ n \in Nat /\ Cardinality(s.active) \in Nat
            /\ Cardinality(lane[m].active) \in Nat
        BY <1>5, <1>6, <2>2, LaneFields, LaneAssumption
      <4> QED
        BY <4>1, <4>2, <4>3
    <3>4. ordered(s.queue, queuedIn(m, xs), xs)
      <4>1. queuedIn(m, xs) = queuedIn(m, entry)
        BY <1>4, <1>8 DEF queuedIn
      <4>2. \A j \in 1 .. Len(lane[m].queue) : lane[m].queue[j] \in queuedIn(m, entry)
        BY <2>1 DEF laneSound, ordered
      <4>3. \A e \in queuedIn(m, entry) : xs[e] = entry[e]
        BY <1>8 DEF queuedIn
      <4> QED
        BY <1>6, <2>1, <2>2, <4>1, <4>2, <4>3 DEF laneSound, ordered
    <3> QED
      BY <1>6, <2>1, <2>2, <3>1, <3>2, <3>3, <3>4 DEF laneSound
  <2>3. CASE m # l
    <3>1. ls[m] = lane[m]
      BY <1>7, <2>3
    <3>2. begunIn(m, ls[m].generation, xs) = begunIn(m, lane[m].generation, entry)
      BY <1>3, <1>4, <1>8, <2>3, <3>1 DEF begunIn
    <3>3. queuedIn(m, xs) = queuedIn(m, entry)
      BY <1>4, <1>8 DEF queuedIn
    <3>4. \A j \in 1 .. Len(lane[m].queue) : lane[m].queue[j] \in queuedIn(m, entry)
      BY <2>1 DEF laneSound, ordered
    <3>5. \A e \in queuedIn(m, entry) : xs[e] = entry[e]
      BY <1>8 DEF queuedIn
    <3>6. ordered(lane[m].queue, queuedIn(m, xs), xs)
      BY <2>1, <3>3, <3>4, <3>5 DEF laneSound, ordered
    <3>7. d \notin lane[m].active
      BY <1>3, <2>1, <2>3 DEF laneSound, begunIn
    <3> QED
      BY <2>1, <3>1, <3>2, <3>6, <3>7 DEF laneSound
  <2> QED
    BY <2>2, <2>3
<1>10. ASSUME NEW e \in Entry PROVE entrySound(xs[e], ls, nextSequence)
  <2>1. entrySound(entry[e], lane, nextSequence) /\ entry[e].lane \in Lane
    BY <1>2, EntryFields DEF entrySound
  <2>2. ls[entry[e].lane].generation = lane[entry[e].lane].generation
    BY <1>9, <2>1
  <2>3. CASE e = d
    <3>1. /\ x.sequence < nextSequence /\ x.generation <= ls[x.lane].generation
          /\ x.work = "running" => x.outcome = "timeout"
      BY <1>3, <1>4, <2>1, <2>2, <2>3 DEF entrySound
    <3> QED
      BY <1>4, <1>8, <2>3, <3>1 DEF entrySound
  <2>4. CASE e # d
    BY <1>8, <2>1, <2>2, <2>4 DEF entrySound
  <2> QED
    BY <2>3, <2>4
<1>11. sound(ls, xs, nextSequence)
  BY <1>1, <1>7, <1>8, <1>9, <1>10 DEF sound
<1>12. waitersTold(waiter, ls, xs)
  <2>1. ASSUME NEW w \in Waiter
        PROVE  /\ stillActive(waiter[w].taskIds, ls) => stillActive(waiter[w].taskIds, lane)
               /\ started(waiter[w].taskIds, xs)
    <3>1. started(waiter[w].taskIds, entry) /\ waiter[w].taskIds \subseteq Entry
      BY <1>1 DEF waitersSound, waitersTold, WaiterRecord
    <3>2. started(waiter[w].taskIds, xs)
      BY <1>4, <1>8, <3>1 DEF started
    <3> QED
      BY <1>9, <3>2 DEF stillActive
  <2> QED
    BY <1>1, <2>1 DEF waitersSound, waitersTold
<1>13. \A m \in Lane \ {l} : full(ls[m])
  BY <1>1, <1>7
<1> QED
  BY <1>3, <1>11, <1>12, <1>13

\* A completion of the current generation.
LEMMA CompletesStep ==
  ASSUME laneParts, NEW d \in Entry, taskCompletes(d),
         entry[d].generation = lane[entry[d].lane].generation
  PROVE  LaneInv'
<1> DEFINE l == entry[d].lane
           ls == [lane EXCEPT ![l] = [lane[l] EXCEPT !.active = completeTask(d)]]
           xs == [entry EXCEPT ![d] = [entry[d] EXCEPT !.phase = "settled"]]
<1>1. /\ entry[d].phase = "raced" /\ pump({l}, ls, xs) /\ waiter' = notified(ls, waiter)
      /\ UNCHANGED <<gatewayDraining, nextSequence>>
  BY DEF taskCompletes
<1>2. freesSlot(d, l, ls, xs) /\ entry[d].generation = lane[l].generation
  BY DEF freesSlot
<1> HIDE DEF l, ls, xs
<1>3. /\ l \in Lane /\ sound(ls, xs, nextSequence)
      /\ \A m \in Lane \ {l} : full(ls[m])
      /\ waitersTold(waiter, ls, xs)
  BY <1>1, <1>2, FreedSound
<1>4. waitersSound(notified(ls, waiter), ls, xs)
  BY <1>3, NotifiedWaiters
<1>5. /\ {l} \in SUBSET Lane /\ waitersSound(waiter', ls, xs) /\ sound(ls, xs, nextSequence')
      /\ gatewayDraining' \in BOOLEAN
  BY <1>1, <1>3, <1>4 DEF laneParts
<1> QED
  BY <1>1, <1>3, <1>5, PumpEnds

\* The lanes of R are forced back to idle.
resets(R, ls) == ls = [m \in Lane |-> IF m \in R THEN idled(lane[m]) ELSE lane[m]]

\* A reset lane is idle: what ran in it belongs to an older generation.
LEMMA IdledSound ==
  ASSUME laneParts, NEW R \in SUBSET Lane, NEW ls, resets(R, ls)
  PROVE  /\ sound(ls, entry, nextSequence)
         /\ \A m \in Lane \ R : full(ls[m])
         /\ waitersTold(waiter, ls, entry)
<1>1. /\ sound(lane, entry, nextSequence) /\ waitersSound(waiter, lane, entry)
      /\ nextSequence \in Nat /\ \A m \in Lane : full(lane[m])
  BY DEF laneParts, sound
<1>2. /\ entry = [e \in Entry |-> entry[e]]
      /\ \A m \in Lane : laneSound(m, lane[m], entry)
      /\ \A e \in Entry : entrySound(entry[e], lane, nextSequence)
  BY <1>1 DEF sound
<1>3. /\ ls = [m \in Lane |-> ls[m]]
      /\ \A m \in Lane : m \in R => ls[m] = idled(lane[m])
      /\ \A m \in Lane : m \notin R => ls[m] = lane[m]
  BY DEF resets
<1>4. ASSUME NEW m \in R
      PROVE  /\ ls[m] \in LaneRecord /\ ls[m].active = {} /\ ls[m].queue = lane[m].queue
             /\ ls[m].maxConcurrent = lane[m].maxConcurrent
             /\ ls[m].generation = lane[m].generation + 1
             /\ lane[m].generation \in Nat
  <2>1. lane[m] \in LaneRecord /\ lane[m].generation \in Nat
    BY <1>2, LaneFields DEF laneSound
  <2>2. ls[m] = [lane[m] EXCEPT !.generation = lane[m].generation + 1, !.active = {}]
    BY <1>3 DEF idled
  <2>3. ls[m] \in LaneRecord
    <3> DEFINE s == lane[m]
               g == lane[m].generation + 1
               A == {}
    <3>1. s \in LaneRecord /\ g \in Nat /\ A \in SUBSET Entry
      BY <2>1
    <3>2. ls[m] = [s EXCEPT !.generation = g, !.active = A]
      BY <2>2
    <3> HIDE DEF s, g, A
    <3> QED
      BY <3>1, <3>2 DEF LaneRecord
  <2>4. ls[m].active = {} /\ ls[m].queue = lane[m].queue
    BY <2>1, <2>2 DEF LaneRecord
  <2>5. /\ ls[m].maxConcurrent = lane[m].maxConcurrent
        /\ ls[m].generation = lane[m].generation + 1
    BY <2>1, <2>2 DEF LaneRecord
  <2> QED
    BY <2>1, <2>3, <2>4, <2>5
<1>5. ASSUME NEW m \in Lane PROVE laneSound(m, ls[m], entry)
  <2>1. laneSound(m, lane[m], entry)
    BY <1>2
  <2>2. CASE m \in R
    <3>1. begunIn(m, ls[m].generation, entry) = {}
      <4> SUFFICES ASSUME NEW e \in Entry, entry[e].lane = m
                   PROVE  entry[e].generation # ls[m].generation
        BY DEF begunIn
      <4>1. entry[e].generation <= lane[m].generation /\ entry[e].generation \in Nat
        BY <1>2, EntryFields DEF entrySound
      <4> QED
        BY <1>4, <2>2, <4>1
    <3>2. \E n \in Concurrency : Cardinality(ls[m].active) <= n
      <4>1. Cardinality(ls[m].active) = 0 /\ 1 \in Concurrency
        BY <1>4, <2>2, FS_EmptySet, LaneAssumption
      <4> QED
        BY <4>1
    <3> QED
      BY <1>4, <2>1, <2>2, <3>1, <3>2 DEF laneSound
  <2>3. CASE m \notin R
    BY <1>3, <2>1, <2>3
  <2> QED
    BY <2>2, <2>3
<1>6. ASSUME NEW e \in Entry PROVE entrySound(entry[e], ls, nextSequence)
  <2>1. /\ entrySound(entry[e], lane, nextSequence) /\ entry[e].lane \in Lane
        /\ entry[e].generation \in Nat
    BY <1>2, EntryFields DEF entrySound
  <2>2. entry[e].generation <= ls[entry[e].lane].generation
    <3>1. CASE entry[e].lane \in R
      BY <1>4, <2>1, <3>1 DEF entrySound
    <3>2. CASE entry[e].lane \notin R
      BY <1>3, <2>1, <3>2 DEF entrySound
    <3> QED
      BY <3>1, <3>2
  <2> QED
    BY <2>1, <2>2 DEF entrySound
<1>7. sound(ls, entry, nextSequence)
  BY <1>1, <1>2, <1>3, <1>5, <1>6 DEF sound
<1>8. waitersTold(waiter, ls, entry)
  <2>1. \A m \in Lane : ls[m].active \subseteq lane[m].active
    BY <1>3, <1>4
  <2>2. \A w \in Waiter :
          stillActive(waiter[w].taskIds, ls) => stillActive(waiter[w].taskIds, lane)
    BY <2>1 DEF stillActive
  <2> QED
    BY <1>1, <2>2 DEF waitersSound, waitersTold
<1> QED
  BY <1>1, <1>3, <1>7, <1>8

\* resetCommandLane and resetAllLanes pump first and tell the waiters last.
LEMMA ResetStep ==
  ASSUME laneParts, NEW R \in SUBSET Lane, NEW ls, resets(R, ls), pump(R, ls, entry),
         waiter' = notified(lane', waiter), UNCHANGED nextSequence,
         gatewayDraining' \in BOOLEAN
  PROVE  LaneInv'
<1>1. pumpsTo(R, ls, entry, lane', entry')
  BY DEF pump, pumpsTo
<1>2. /\ sound(ls, entry, nextSequence) /\ \A m \in Lane \ R : full(ls[m])
      /\ waitersTold(waiter, ls, entry)
  BY IdledSound
<1>3. sound(lane', entry', nextSequence)
  BY <1>1, <1>2, PumpSound
<1>4. \A l \in Lane : full(lane'[l])
  BY <1>1, <1>2, PumpFull
<1>5. waitersTold(waiter, lane', entry')
  BY <1>1, <1>2, PumpWaiters
<1>6. waitersSound(notified(lane', waiter), lane', entry')
  BY <1>5, NotifiedWaiters
<1>7. sound(lane', entry', nextSequence') /\ waitersSound(waiter', lane', entry')
  BY <1>3, <1>6
<1> QED
  BY <1>4, <1>7, PartsAfter

LEMMA ResetLaneStep ==
  ASSUME laneParts, NEW l \in Lane, resetCommandLane(l)
  PROVE  LaneInv'
<1> DEFINE ls == [lane EXCEPT ![l] = idled(lane[l])]
<1>1. /\ pump({l}, ls, entry) /\ waiter' = notified(lane', waiter)
      /\ UNCHANGED <<gatewayDraining, nextSequence>>
  BY DEF resetCommandLane, resetPumps
<1>2. resets({l}, ls)
  <2>1. lane = [m \in Lane |-> lane[m]]
    BY DEF laneParts, sound
  <2> QED
    BY <2>1 DEF resets
<1>3. {l} \in SUBSET Lane /\ gatewayDraining' \in BOOLEAN
  BY <1>1 DEF laneParts
<1> HIDE DEF ls
<1> QED
  BY <1>1, <1>2, <1>3, ResetStep

LEMMA ResetAllStep ==
  ASSUME laneParts, resetAllLanes
  PROVE  LaneInv'
<1> DEFINE ls == [l \in Lane |-> idled(lane[l])]
<1>1. /\ pump(Lane, ls, entry) /\ waiter' = notified(lane', waiter)
      /\ gatewayDraining' = FALSE /\ UNCHANGED nextSequence
  BY DEF resetAllLanes
<1>2. resets(Lane, ls)
  BY DEF resets
<1>3. Lane \in SUBSET Lane /\ gatewayDraining' \in BOOLEAN
  BY <1>1
<1> HIDE DEF ls
<1> QED
  BY <1>1, <1>2, <1>3, ResetStep

\* A lane paused, narrowed or widened.
widens(l, n, ls) == ls = [lane EXCEPT ![l] = [lane[l] EXCEPT !.maxConcurrent = n]]

LEMMA WidenedSound ==
  ASSUME laneParts, NEW l \in Lane, NEW n \in Concurrency, NEW ls, widens(l, n, ls)
  PROVE  /\ sound(ls, entry, nextSequence)
         /\ \A m \in Lane \ {l} : full(ls[m])
         /\ n = 0 => full(ls[l])
         /\ waitersSound(waiter, ls, entry)
<1>1. /\ sound(lane, entry, nextSequence) /\ waitersSound(waiter, lane, entry)
      /\ nextSequence \in Nat /\ \A m \in Lane : full(lane[m])
  BY DEF laneParts, sound
<1>2. /\ lane = [m \in Lane |-> lane[m]] /\ entry = [e \in Entry |-> entry[e]]
      /\ \A m \in Lane : laneSound(m, lane[m], entry)
      /\ \A e \in Entry : entrySound(entry[e], lane, nextSequence)
  BY <1>1 DEF sound
<1> DEFINE s == [lane[l] EXCEPT !.maxConcurrent = n]
<1>3. lane[l] \in LaneRecord /\ n \in Nat
  BY <1>2, LaneAssumption DEF laneSound
<1>4. /\ s \in LaneRecord /\ s.queue = lane[l].queue /\ s.active = lane[l].active
      /\ s.maxConcurrent = n /\ s.generation = lane[l].generation
  BY <1>3 DEF LaneRecord
<1>5. /\ ls = [m \in Lane |-> ls[m]] /\ ls[l] = s
      /\ \A m \in Lane : m # l => ls[m] = lane[m]
  BY <1>2 DEF widens
<1> HIDE DEF s
<1>6. ASSUME NEW m \in Lane
      PROVE  /\ laneSound(m, ls[m], entry) /\ ls[m].generation = lane[m].generation
             /\ ls[m].active = lane[m].active
  <2>1. laneSound(m, lane[m], entry)
    BY <1>2
  <2>2. CASE m = l
    BY <1>4, <1>5, <2>1, <2>2 DEF laneSound
  <2>3. CASE m # l
    BY <1>5, <2>1, <2>3
  <2> QED
    BY <2>2, <2>3
<1>7. ASSUME NEW e \in Entry PROVE entrySound(entry[e], ls, nextSequence)
  <2>1. entrySound(entry[e], lane, nextSequence) /\ entry[e].lane \in Lane
    BY <1>2, EntryFields DEF entrySound
  <2> QED
    BY <1>6, <2>1 DEF entrySound
<1>8. sound(ls, entry, nextSequence)
  BY <1>1, <1>2, <1>5, <1>6, <1>7 DEF sound
<1>9. waitersSound(waiter, ls, entry)
  <2>1. \A w \in Waiter :
          stillActive(waiter[w].taskIds, ls) <=> stillActive(waiter[w].taskIds, lane)
    BY <1>6 DEF stillActive
  <2> QED
    BY <1>1, <2>1 DEF waitersSound, waitersTold
<1>10. n = 0 => full(ls[l])
  <2>1. Cardinality(s.active) \in Nat
    BY <1>4, LaneFields
  <2> QED
    BY <1>4, <1>5, <2>1 DEF full
<1> QED
  BY <1>1, <1>5, <1>8, <1>9, <1>10

LEMMA ConcurrencyStep ==
  ASSUME laneParts, NEW l \in Lane, NEW n \in Concurrency, setCommandLaneConcurrency(l, n)
  PROVE  LaneInv'
<1> DEFINE ls == [lane EXCEPT ![l] = [lane[l] EXCEPT !.maxConcurrent = n]]
           pumping == IF n > 0 THEN {l} ELSE {}
<1>1. pump(pumping, ls, entry) /\ UNCHANGED <<waiter, gatewayDraining, nextSequence>>
  BY DEF setCommandLaneConcurrency
<1>2. widens(l, n, ls)
  BY DEF widens
<1> HIDE DEF ls
<1>3. /\ sound(ls, entry, nextSequence)
      /\ \A m \in Lane \ {l} : full(ls[m])
      /\ n = 0 => full(ls[l])
      /\ waitersSound(waiter, ls, entry)
  BY <1>2, WidenedSound
<1>4. /\ pumping \in SUBSET Lane
      /\ \A m \in Lane \ pumping : full(ls[m])
  <2>1. n \in Nat
    BY LaneAssumption
  <2>2. CASE n = 0
    BY <1>3, <2>2
  <2>3. CASE n > 0
    BY <1>3, <2>3
  <2> QED
    BY <2>1, <2>2, <2>3
<1>5. /\ sound(ls, entry, nextSequence') /\ waitersSound(waiter', ls, entry)
      /\ gatewayDraining' \in BOOLEAN
  BY <1>1, <1>3 DEF laneParts
<1> HIDE DEF pumping
<1> QED
  BY <1>1, <1>4, <1>5, PumpEnds

\* A cleared lane has nothing queued; its callers are settled.
LEMMA ClearStep ==
  ASSUME laneParts, NEW l \in Lane, clearCommandLane(l)
  PROVE  LaneInv'
<1> DEFINE s == [lane[l] EXCEPT !.queue = <<>>]
           cleared(e) == [entry[e] EXCEPT !.phase = "settled", !.outcome = "cleared"]
           Q == queuedIn(l, entry)
<1>1. /\ sound(lane, entry, nextSequence) /\ waitersSound(waiter, lane, entry)
      /\ nextSequence \in Nat /\ \A m \in Lane : full(lane[m])
  BY DEF laneParts, sound
<1>2. /\ lane = [m \in Lane |-> lane[m]] /\ entry = [e \in Entry |-> entry[e]]
      /\ \A m \in Lane : laneSound(m, lane[m], entry)
      /\ \A e \in Entry : entrySound(entry[e], lane, nextSequence)
  BY <1>1 DEF sound
<1>3. /\ lane' = [lane EXCEPT ![l] = s]
      /\ entry' = [e \in Entry |-> IF e \in Q THEN cleared(e) ELSE entry[e]]
      /\ UNCHANGED <<waiter, gatewayDraining, nextSequence>>
  BY DEF clearCommandLane, queuedIn
<1>4. lane[l] \in LaneRecord
  BY <1>2 DEF laneSound
<1>5. /\ s \in LaneRecord /\ s.queue = <<>> /\ s.active = lane[l].active
      /\ s.maxConcurrent = lane[l].maxConcurrent /\ s.generation = lane[l].generation
  <2> DEFINE r == lane[l]
             q == <<>>
  <2>1. r \in LaneRecord /\ q \in Seq(Entry) /\ s = [r EXCEPT !.queue = q]
    BY <1>4
  <2> HIDE DEF r, q, s
  <2>2. /\ s \in LaneRecord /\ s.queue = q /\ s.active = r.active
        /\ s.maxConcurrent = r.maxConcurrent /\ s.generation = r.generation
    BY <2>1 DEF LaneRecord
  <2> QED
    BY <2>2 DEF r, q
<1>6. /\ lane' = [m \in Lane |-> lane'[m]] /\ lane'[l] = s
      /\ \A m \in Lane : m # l => lane'[m] = lane[m]
  <2> HIDE DEF s
  <2> QED
    BY <1>2, <1>3
<1>7. \A m \in Lane : /\ lane'[m].active = lane[m].active
                      /\ lane'[m].generation = lane[m].generation
  BY <1>5, <1>6
<1>8. ASSUME NEW e \in Q
      PROVE  /\ entry'[e] \in EntryRecord /\ entry'[e].phase = "settled"
             /\ entry'[e].work = entry[e].work /\ entry'[e].lane = entry[e].lane
             /\ entry'[e].sequence = entry[e].sequence
             /\ entry'[e].generation = entry[e].generation
             /\ e \in Entry /\ entry[e].phase = "queued" /\ entry[e].lane = l
  <2>1. e \in Entry /\ entry[e].phase = "queued" /\ entry[e].lane = l
    BY DEF queuedIn
  <2>2. decidedAs(entry[e], entry'[e], "settled", "cleared")
    BY <1>3, <2>1 DEF decidedAs
  <2>3. entry[e] \in EntryRecord /\ "settled" \in EntryPhases /\ "cleared" \in Outcomes
    BY <1>2, <2>1 DEF entrySound, EntryPhases, Outcomes
  <2> HIDE DEF Q
  <2> QED
    BY <2>1, <2>2, <2>3, DecidedEntry
<1>9. /\ entry' = [e \in Entry |-> entry'[e]]
      /\ \A e \in Entry : e \notin Q => entry'[e] = entry[e]
  BY <1>3
<1> HIDE DEF s, cleared, Q
<1>10. ASSUME NEW m \in Lane PROVE laneSound(m, lane'[m], entry') /\ full(lane'[m])
  <2>1. laneSound(m, lane[m], entry) /\ full(lane[m])
    BY <1>1, <1>2
  <2>2. begunIn(m, lane'[m].generation, entry') = begunIn(m, lane[m].generation, entry)
    BY <1>7, <1>8, <1>9 DEF begunIn
  <2>3. CASE m = l
    <3>1. queuedIn(m, entry') = {}
      <4> SUFFICES ASSUME NEW e \in Entry
                   PROVE  ~ (entry'[e].phase = "queued" /\ entry'[e].lane = l)
        BY <2>3 DEF queuedIn
      <4>1. CASE e \in Q
        BY <1>8, <4>1
      <4>2. CASE e \notin Q
        BY <1>9, <4>2 DEF Q, queuedIn
      <4> QED
        BY <4>1, <4>2
    <3>2. lane'[m].queue = <<>> /\ Len(lane'[m].queue) = 0
      BY <1>5, <1>6, <2>3
    <3>3. ordered(lane'[m].queue, queuedIn(m, entry'), entry')
      BY <3>1, <3>2 DEF ordered
    <3> QED
      BY <1>5, <1>6, <2>1, <2>2, <2>3, <3>2, <3>3 DEF laneSound, full
  <2>4. CASE m # l
    <3>1. lane'[m] = lane[m]
      BY <1>6, <2>4
    <3>2. queuedIn(m, entry') = queuedIn(m, entry)
      BY <1>8, <1>9, <2>4 DEF queuedIn
    <3>3. \A j \in 1 .. Len(lane[m].queue) : lane[m].queue[j] \in queuedIn(m, entry)
      BY <2>1 DEF laneSound, ordered
    <3>4. \A e \in queuedIn(m, entry) : entry'[e] = entry[e]
      BY <1>8, <1>9, <2>4 DEF queuedIn
    <3>5. ordered(lane[m].queue, queuedIn(m, entry'), entry')
      BY <2>1, <3>2, <3>3, <3>4 DEF laneSound, ordered
    <3> QED
      BY <2>1, <2>2, <3>1, <3>5 DEF laneSound
  <2> QED
    BY <2>3, <2>4
<1>11. ASSUME NEW e \in Entry PROVE entrySound(entry'[e], lane', nextSequence)
  <2>1. entrySound(entry[e], lane, nextSequence) /\ entry[e].lane \in Lane
    BY <1>2, EntryFields DEF entrySound
  <2>2. lane'[entry[e].lane].generation = lane[entry[e].lane].generation
    BY <1>7, <2>1
  <2>3. CASE e \in Q
    <3>1. entry'[e].work # "running"
      BY <1>8, <2>1, <2>3 DEF entrySound
    <3> QED
      BY <1>8, <2>1, <2>2, <2>3, <3>1 DEF entrySound
  <2>4. CASE e \notin Q
    BY <1>9, <2>1, <2>2, <2>4 DEF entrySound
  <2> QED
    BY <2>3, <2>4
<1>12. sound(lane', entry', nextSequence')
  BY <1>1, <1>3, <1>6, <1>9, <1>10, <1>11 DEF sound
<1>13. waitersSound(waiter', lane', entry')
  <2>1. ASSUME NEW w \in Waiter
        PROVE  /\ stillActive(waiter[w].taskIds, lane') <=> stillActive(waiter[w].taskIds, lane)
               /\ started(waiter[w].taskIds, entry')
    <3>1. started(waiter[w].taskIds, entry) /\ waiter[w].taskIds \subseteq Entry
      BY <1>1 DEF waitersSound, waitersTold, WaiterRecord
    <3>2. started(waiter[w].taskIds, entry')
      BY <1>8, <1>9, <3>1 DEF started
    <3> QED
      BY <1>7, <3>2 DEF stillActive
  <2> QED
    BY <1>1, <1>3, <2>1 DEF waitersSound, waitersTold
<1>14. gatewayDraining' \in BOOLEAN
  BY <1>3 DEF laneParts
<1> QED
  BY <1>10, <1>12, <1>13, <1>14, PartsAfter

\* A step that leaves the lanes and the tasks alone.
LEMMA WaiterStep ==
  ASSUME laneParts, UNCHANGED <<lane, entry, nextSequence>>,
         waitersSound(waiter', lane, entry), gatewayDraining' \in BOOLEAN
  PROVE  LaneInv'
<1>1. sound(lane', entry', nextSequence') /\ waitersSound(waiter', lane', entry')
  BY DEF laneParts
<1>2. \A l \in Lane : full(lane'[l])
  BY DEF laneParts
<1> QED
  BY <1>1, <1>2, PartsAfter

LEMMA DrainingStep ==
  ASSUME laneParts, markGatewayDraining
  PROVE  LaneInv'
BY WaiterStep DEF laneParts, markGatewayDraining

\* One waiter is set to what it was told, and waits for what is active.
LEMMA SetWaiter ==
  ASSUME laneParts, NEW w \in Waiter, NEW v \in WaiterRecord,
         started(v.taskIds, entry),
         v.state = "waiting" => stillActive(v.taskIds, lane),
         v.state = "drained" => ~stillActive(v.taskIds, lane),
         waiter' = [waiter EXCEPT ![w] = v]
  PROVE  waitersSound(waiter', lane, entry)
<1>1. waitersSound(waiter, lane, entry) /\ waiter \in [Waiter -> WaiterRecord]
  BY DEF laneParts, waitersSound, waitersTold
<1>2. /\ waiter' \in [Waiter -> WaiterRecord] /\ waiter'[w] = v
      /\ \A u \in Waiter : u # w => waiter'[u] = waiter[u]
  BY <1>1
<1> QED
  BY <1>1, <1>2 DEF waitersSound, waitersTold

\* A new waiter waits for what is active now, and so for nothing if nothing
\* is.
LEMMA WaitStep ==
  ASSUME laneParts, NEW w \in Waiter, NEW timeout \in {"none", "zero", "some"},
         waitForActiveTasks(w, timeout)
  PROVE  LaneInv'
<1> DEFINE ids == UNION {lane[l].active : l \in Lane}
           v == [taskIds |-> ids, timed |-> timeout # "none",
                 state |-> IF ids = {} THEN "drained"
                           ELSE IF timeout = "zero" THEN "expired" ELSE "waiting"]
<1>1. waiter' = [waiter EXCEPT ![w] = v]
      /\ UNCHANGED <<lane, entry, gatewayDraining, nextSequence>>
  BY DEF waitForActiveTasks
<1>2. \A l \in Lane : lane[l].active = begunIn(l, lane[l].generation, entry)
  BY DEF laneParts, sound, laneSound
<1>3. ids \subseteq Entry /\ started(ids, entry)
  BY <1>2 DEF begunIn, started
<1>4. stillActive(ids, lane) <=> ids # {}
  BY DEF stillActive
<1> HIDE DEF ids
<1>5. /\ v \in WaiterRecord /\ v.taskIds = ids
      /\ v.state = "waiting" => ids # {}
      /\ v.state = "drained" => ids = {}
  BY <1>3 DEF WaiterRecord
<1> HIDE DEF v
<1>6. waitersSound(waiter', lane, entry)
  BY <1>1, <1>3, <1>4, <1>5, SetWaiter
<1> QED
  BY <1>1, <1>6, WaiterStep DEF laneParts

\* A waiter's own timeout.
LEMMA WaitEndsStep ==
  ASSUME laneParts, NEW w \in Waiter, waiterTimesOut(w)
  PROVE  LaneInv'
<1> DEFINE v == [waiter[w] EXCEPT !.state = "expired"]
<1>1. waiter' = [waiter EXCEPT ![w] = v]
      /\ UNCHANGED <<lane, entry, gatewayDraining, nextSequence>>
  BY DEF waiterTimesOut
<1>2. waiter[w] \in WaiterRecord /\ started(waiter[w].taskIds, entry)
  BY DEF laneParts, waitersSound, waitersTold
<1>3. v \in WaiterRecord /\ v.taskIds = waiter[w].taskIds /\ v.state = "expired"
  BY <1>2 DEF WaiterRecord
<1> HIDE DEF v
<1>4. waitersSound(waiter', lane, entry)
  BY <1>1, <1>2, <1>3, SetWaiter
<1> QED
  BY <1>1, <1>4, WaiterStep DEF laneParts

-----------------------------------------------------------------------------
(***************************************************************************)
(* The invariant.                                                          *)
(***************************************************************************)

LEMMA LaneInitial == LaneInit => LaneInv
<1> SUFFICES ASSUME LaneInit PROVE laneParts
  BY Parts
<1>1. ASSUME NEW l \in Lane
      PROVE  /\ lane[l] \in LaneRecord /\ lane[l].queue = <<>> /\ lane[l].active = {}
             /\ lane[l].maxConcurrent = 1 /\ lane[l].generation = 0
  BY DEF LaneInit, LaneRecord
<1>2. ASSUME NEW e \in Entry
      PROVE  /\ entry[e] \in EntryRecord /\ entry[e].phase = "new" /\ entry[e].work = "idle"
             /\ entry[e].sequence = 0 /\ entry[e].generation = 0
  <2> DEFINE x == entry[e]
  <2>1. x \in [phase : {"new"}, outcome : {"none"}, work : {"idle"},
               lane : Lane, priority : Priority, sequence : {0},
               generation : {0}, timeout : Timeout, timer : {"off"},
               listening : {FALSE}, progressed : {FALSE},
               aborted : {FALSE}, released : {FALSE}]
    BY DEF LaneInit
  <2> HIDE DEF x
  <2>2. x \in EntryRecord
    <3> DEFINE F == {FALSE}
               B == BOOLEAN
    <3>1. F \subseteq B
      OBVIOUS
    <3> HIDE DEF F, B
    <3>2. x \in [phase : {"new"}, outcome : {"none"}, work : {"idle"},
                 lane : Lane, priority : Priority, sequence : {0},
                 generation : {0}, timeout : Timeout, timer : {"off"},
                 listening : F, progressed : F, aborted : F, released : F]
      BY <2>1 DEF F
    <3>3. x \in [phase : EntryPhases, outcome : Outcomes, work : {"idle", "running", "over"},
                 lane : Lane, priority : Priority, sequence : Nat, generation : Nat,
                 timeout : Timeout, timer : {"off", "progress", "grace"},
                 listening : B, progressed : B, aborted : B, released : B]
      BY <3>1, <3>2 DEF EntryPhases, Outcomes
    <3> QED
      BY <3>3 DEF EntryRecord, B
  <2>3. x.phase = "new" /\ x.work = "idle" /\ x.sequence = 0 /\ x.generation = 0
    BY <2>1
  <2> QED
    BY <2>2, <2>3 DEF x
<1>3. ASSUME NEW l \in Lane PROVE laneSound(l, lane[l], entry) /\ full(lane[l])
  <2>1. begunIn(l, lane[l].generation, entry) = {} /\ queuedIn(l, entry) = {}
    BY <1>2 DEF begunIn, queuedIn
  <2>2. Len(lane[l].queue) = 0
    BY <1>1
  <2>3. ordered(lane[l].queue, queuedIn(l, entry), entry)
    BY <2>1, <2>2 DEF ordered
  <2>4. 1 \in Concurrency /\ Cardinality(lane[l].active) = 0
    BY <1>1, FS_EmptySet, LaneAssumption
  <2>5. \E n \in Concurrency : Cardinality(lane[l].active) <= n
    BY <2>4
  <2> QED
    BY <1>1, <2>1, <2>3, <2>4, <2>5 DEF laneSound, full
<1>4. ASSUME NEW e \in Entry PROVE entrySound(entry[e], lane, nextSequence)
  <2>1. entry[e].lane \in Lane /\ nextSequence = 1
    BY <1>2, EntryFields DEF LaneInit
  <2>2. lane[entry[e].lane].generation = 0
    BY <1>1, <2>1
  <2> QED
    BY <1>2, <2>1, <2>2 DEF entrySound
<1>5. lane = [l \in Lane |-> lane[l]] /\ entry = [e \in Entry |-> entry[e]] /\ nextSequence \in Nat
  BY DEF LaneInit
<1>6. sound(lane, entry, nextSequence)
  BY <1>3, <1>4, <1>5 DEF sound
<1>7. waitersSound(waiter, lane, entry)
  BY DEF LaneInit, waitersSound, waitersTold, WaiterRecord, started
<1> QED
  BY <1>3, <1>6, <1>7 DEF LaneInit, laneParts

LEMMA LaneStep == LaneInv /\ [LaneNext]_laneVars => LaneInv'
<1> SUFFICES ASSUME LaneInv, [LaneNext]_laneVars PROVE LaneInv'
  OBVIOUS
<1> USE Parts
<1>1. laneParts
  OBVIOUS
<1>2. CASE UNCHANGED laneVars
  <2>1. UNCHANGED <<lane, entry, nextSequence>> /\ waiter' = waiter
        /\ gatewayDraining' = gatewayDraining
    BY <1>2 DEF laneVars
  <2> QED
    BY <1>1, <2>1, WaiterStep DEF laneParts
<1>3. ASSUME NEW e \in Entry, enqueueCommandInLane(e) PROVE LaneInv'
  BY <1>1, <1>3, EnqueueStep, RefusedStep
<1>4. ASSUME NEW e \in Entry, taskCompletes(e) PROVE LaneInv'
  BY <1>1, <1>4, CompletesStep, StaleStep
<1>5. ASSUME NEW e \in Entry, progress(e) PROVE LaneInv'
  BY <1>1, <1>5, ProgressStep
<1>6. ASSUME NEW e \in Entry, timerFires(e) PROVE LaneInv'
  BY <1>1, <1>6, TimerStep
<1>7. ASSUME NEW e \in Entry, abortSignal(e) PROVE LaneInv'
  BY <1>1, <1>7, AbortStep
<1>8. ASSUME NEW e \in Entry, releaseSignal(e) PROVE LaneInv'
  BY <1>1, <1>8, ReleaseStep
<1>9. ASSUME NEW e \in Entry, taskEnds(e) PROVE LaneInv'
  BY <1>1, <1>9, TaskEndsStep
<1>10. ASSUME NEW l \in Lane, clearCommandLane(l) PROVE LaneInv'
  BY <1>1, <1>10, ClearStep
<1>11. ASSUME NEW l \in Lane, resetCommandLane(l) PROVE LaneInv'
  BY <1>1, <1>11, ResetLaneStep
<1>12. ASSUME NEW l \in Lane, NEW n \in Concurrency, setCommandLaneConcurrency(l, n)
       PROVE  LaneInv'
  BY <1>1, <1>12, ConcurrencyStep
<1>13. CASE resetAllLanes
  BY <1>1, <1>13, ResetAllStep
<1>14. CASE markGatewayDraining
  BY <1>1, <1>14, DrainingStep
<1>15. ASSUME NEW w \in Waiter, waiterTimesOut(w) PROVE LaneInv'
  BY <1>1, <1>15, WaitEndsStep
<1>16. ASSUME NEW w \in Waiter, NEW timeout \in {"none", "zero", "some"},
              waitForActiveTasks(w, timeout)
       PROVE  LaneInv'
  BY <1>1, <1>16, WaitStep
<1> QED
  BY <1>2, <1>3, <1>4, <1>5, <1>6, <1>7, <1>8, <1>9, <1>10, <1>11, <1>12, <1>13,
     <1>14, <1>15, <1>16 DEF LaneNext

\* Through timeouts, aborts, resets and late completions a lane neither leaks
\* nor frees twice a slot, lets none idle, keeps its order and its bound, and
\* loses no wakeup: for every number of lanes, tasks, priorities and
\* concurrencies (completeTask, drainLane, notifyActiveTaskWaiters).
THEOREM LaneIsSound == LaneSpec => []LaneInv
<1>1. LaneInit => LaneInv
  BY LaneInitial
<1>2. LaneInv /\ [LaneNext]_laneVars => LaneInv'
  BY LaneStep
<1> QED
  BY <1>1, <1>2, PTL DEF LaneSpec

=============================================================================
