--------------------------- MODULE JobRunnerProofs ---------------------------
(***************************************************************************)
(* Proofs about JobRunner, for any number of calls, any lease and an       *)
(* unbounded clock (MaxTime is arbitrary): its type invariant, the overlap *)
(* bounded by the lease, and that it implements RunOnce.                   *)
(***************************************************************************)
EXTENDS JobRunner, TLAPS

USE CallsAssumption, TimeAssumption

\* What ties a call to the row.  The row of a working call that holds the
\* claim was stamped by its clock, and cannot be FAILED, so that only the
\* lease opens it to others; a call that won holds the claim of a run that
\* succeeded.
CallInv(c) ==
  /\ call[c].at <= now
  /\ row.token = c =>
       call[c].pc \in {"work", "catch", "won", "threw", "dead"}
  /\ row.token = c => row.startedAt = call[c].at
  /\ row.token = c /\ call[c].pc = "work" => row.status = "RUNNING"
  /\ row.token = c /\ call[c].pc = "catch" => row.status = "SUCCEEDED"
  /\ call[c].pc = "won" =>
       row.token = c /\ row.status = "SUCCEEDED" /\ row.summary = c
  /\ IsWorking(c) /\ row.token # c => now > call[c].at + Lease

IInv == TypeOK /\ \A c \in Calls : CallInv(c)

\* Setting the place of a call leaves it a call, and the others alone.
LEMMA GotoType ==
  ASSUME TypeOK, NEW c \in Calls, NEW pc \in Places, Goto(c, pc)
  PROVE  /\ call' \in [Calls -> [pc: Places, at: Nat]]
         /\ call'[c].pc = pc /\ call'[c].at = call[c].at
         /\ \A d \in Calls : d # c => call'[d] = call[d]
  BY DEF TypeOK, Goto

\* The type invariant survives every statement of every call.
LEMMA TypeStep == TypeOK /\ [Next]_vars => TypeOK'
<1> SUFFICES ASSUME TypeOK, [Next]_vars PROVE TypeOK'
  OBVIOUS
<1>1. CASE UNCHANGED vars
  BY <1>1 DEF vars, TypeOK
<1>2. CASE Tick
  BY <1>2 DEF Tick, TypeOK
<1>3. ASSUME NEW c \in Calls, Look(c) PROVE TypeOK'
  <2>1. PICK pc \in Places : Goto(c, pc)
    BY <1>3 DEF Look, Places
  <2> QED
    BY <1>3, <2>1, GotoType DEF Look, TypeOK
<1>4. ASSUME NEW c \in Calls, Stamp(c) PROVE TypeOK'
  BY <1>4 DEF Stamp, TypeOK, Places
<1>5. ASSUME NEW c \in Calls, Insert(c) PROVE TypeOK'
  <2>1. PICK pc \in Places : Goto(c, pc)
    BY <1>5 DEF Insert, Places
  <2>2. row' \in Row
    BY <1>5 DEF Insert, Claimed, TypeOK, Row
  <2> QED
    BY <1>5, <2>1, <2>2, GotoType DEF Insert, TypeOK
<1>6. ASSUME NEW c \in Calls, Claim(c) PROVE TypeOK'
  <2>1. PICK pc \in Places : Goto(c, pc)
    BY <1>6 DEF Claim, Places
  <2>2. row' \in Row
    BY <1>6 DEF Claim, Claimed, IsClaimable, TypeOK, Row
  <2> QED
    BY <1>6, <2>1, <2>2, GotoType DEF Claim, TypeOK
<1>7. ASSUME NEW c \in Calls, NEW replied \in BOOLEAN, Settle(c, replied)
      PROVE  TypeOK'
  <2>1. PICK pc \in Places : Goto(c, pc)
    BY <1>7 DEF Settle, Places
  <2>2. row' \in Row
    BY <1>7 DEF Settle, HoldsClaim, TypeOK, Row
  <2> QED
    BY <1>7, <2>1, <2>2, GotoType DEF Settle, TypeOK
<1>8. ASSUME NEW c \in Calls, Fail(c) PROVE TypeOK'
  <2>1. PICK pc \in Places : Goto(c, pc)
    BY <1>8 DEF Fail, Places
  <2>2. row' \in Row
    BY <1>8 DEF Fail, HoldsClaim, TypeOK, Row
  <2> QED
    BY <1>8, <2>1, <2>2, GotoType DEF Fail, TypeOK
<1>9. ASSUME NEW c \in Calls, Die(c) PROVE TypeOK'
  <2>1. PICK pc \in Places : Goto(c, pc)
    BY <1>9 DEF Die, Places
  <2> QED
    BY <1>9, <2>1, GotoType DEF Die, TypeOK
<1> QED
  BY <1>1, <1>2, <1>3, <1>4, <1>5, <1>6, <1>7, <1>8, <1>9 DEF Next, CallStep

\* A row is claimed by nobody before there is one.
LEMMA InitInv == Init => IInv
  BY DEF Init, IInv, TypeOK, Row, Places, CallInv, IsWorking

\* Claiming an open row: whoever held it and still works has had its lease.
LEMMA ClaimStep ==
  ASSUME IInv, TypeOK', NEW c \in Calls, NEW d \in Calls,
         call[c].pc \in {"insert", "claim"},
         row.status = "NONE" \/ IsClaimable(call[c].at),
         row' = Claimed(c, row), Goto(c, "work"), now' = now
  PROVE  CallInv(d)'
<1>1. /\ call'[c].pc = "work" /\ call'[c].at = call[c].at
      /\ \A e \in Calls : e # c => call'[e] = call[e]
  BY GotoType DEF IInv, Places
<1>2. /\ row'.token = c /\ row'.status = "RUNNING"
      /\ row'.startedAt = call[c].at
  BY DEF Claimed, IInv, TypeOK, Row
<1>3. /\ CallInv(c) /\ CallInv(d)
      /\ now \in Nat /\ row \in Row
      /\ call[c].at \in Nat /\ call[d].at \in Nat
  BY DEF IInv, TypeOK
<1>4. call[c].at <= now
  BY <1>3 DEF CallInv
<1>5. CASE d = c
  BY <1>1, <1>2, <1>4, <1>5 DEF CallInv, IsWorking
<1>6. CASE d # c
  <2>1. row.status = "NONE" => row.token # d
    BY <1>3 DEF Row
  <2>2. IsWorking(d) => now > call[d].at + Lease
    <3>1. CASE row.token # d
      BY <3>1, <1>3 DEF CallInv
    <3>2. CASE row.token = d
      BY <3>2, <2>1, <1>3, <1>4 DEF CallInv, IsWorking, IsClaimable, Row
    <3> QED
      BY <3>1, <3>2
  <2>3. call[d].pc # "won"
    BY <2>1, <1>3 DEF CallInv, IsClaimable
  <2> QED
    BY <1>1, <1>2, <1>3, <1>6, <2>2, <2>3 DEF CallInv, IsWorking
<1> QED
  BY <1>5, <1>6

\* A call that goes on without writing to the row holds it only if it dies.
LEMMA OutsideStep ==
  ASSUME IInv, NEW c \in Calls, NEW d \in Calls, NEW pc \in Places,
         Goto(c, pc), row' = row, now' = now,
         pc \notin {"work", "catch", "won"}, row.token # c \/ pc = "dead"
  PROVE  CallInv(d)'
<1>1. /\ call'[c].pc = pc /\ call'[c].at = call[c].at
      /\ \A e \in Calls : e # c => call'[e] = call[e]
  BY GotoType DEF IInv
<1>2. /\ CallInv(c) /\ CallInv(d) /\ row \in Row
      /\ now \in Nat /\ call[c].at \in Nat /\ call[d].at \in Nat
  BY DEF IInv, TypeOK
<1>3. CASE d = c
  BY <1>1, <1>2, <1>3 DEF CallInv, IsWorking
<1>4. CASE d # c
  BY <1>1, <1>2, <1>4 DEF CallInv, IsWorking
<1> QED
  BY <1>3, <1>4

\* The end of a run: only the call that holds the claim writes, and a call
\* that lost it was told so by the count of rows.
LEMMA SettleStep ==
  ASSUME IInv, NEW c \in Calls, NEW d \in Calls, NEW replied \in BOOLEAN,
         Settle(c, replied)
  PROVE  CallInv(d)'
<1>1. /\ CallInv(c) /\ CallInv(d) /\ row \in Row
      /\ now \in Nat /\ call[c].at \in Nat /\ call[d].at \in Nat
  BY DEF IInv, TypeOK
<1>2. /\ call[c].pc = "work" /\ now' = now
      /\ call'[c].at = call[c].at
      /\ call'[c].pc \in {"catch", "won", "skipped"}
      /\ call'[c].pc = "won" => row.token = c
      /\ call'[c].pc = "skipped" => row.token # c
      /\ \A e \in Calls : e # c => call'[e] = call[e]
  BY DEF Settle, Goto, HoldsClaim, IInv, TypeOK
<1>3. CASE row.token = c
  <2>1. /\ row'.status = "SUCCEEDED" /\ row'.summary = c
        /\ row'.token = row.token /\ row'.startedAt = row.startedAt
    BY <1>3, <1>1 DEF Settle, HoldsClaim, Row
  <2> QED
    BY <2>1, <1>1, <1>2, <1>3 DEF CallInv, IsWorking
<1>4. CASE row.token # c
  BY <1>1, <1>2, <1>4 DEF Settle, HoldsClaim, CallInv, IsWorking
<1> QED
  BY <1>3, <1>4

\* The catch block writes only for the call that holds the row, and ends it.
LEMMA FailStep ==
  ASSUME IInv, NEW c \in Calls, NEW d \in Calls, Fail(c)
  PROVE  CallInv(d)'
<1>1. /\ CallInv(c) /\ CallInv(d) /\ row \in Row
      /\ now \in Nat /\ call[c].at \in Nat /\ call[d].at \in Nat
  BY DEF IInv, TypeOK
<1>2. /\ call[c].pc \in {"work", "catch"} /\ now' = now
      /\ call'[c].at = call[c].at /\ call'[c].pc = "threw"
      /\ \A e \in Calls : e # c => call'[e] = call[e]
  BY DEF Fail, Goto, IInv, TypeOK
<1>3. CASE row.token = c
  <2>1. /\ row'.status = "FAILED"
        /\ row'.token = row.token /\ row'.startedAt = row.startedAt
    BY <1>3, <1>1 DEF Fail, HoldsClaim, Row
  <2> QED
    BY <2>1, <1>1, <1>2, <1>3 DEF CallInv, IsWorking
<1>4. CASE row.token # c
  BY <1>1, <1>2, <1>4 DEF Fail, HoldsClaim, CallInv, IsWorking
<1> QED
  BY <1>3, <1>4

\* A call stamps itself with the clock before it has claimed anything.
LEMMA StampStep ==
  ASSUME IInv, NEW c \in Calls, NEW d \in Calls, Stamp(c)
  PROVE  CallInv(d)'
<1>1. /\ CallInv(c) /\ CallInv(d) /\ row \in Row
      /\ now \in Nat /\ call[c].at \in Nat /\ call[d].at \in Nat
  BY DEF IInv, TypeOK
<1>2. /\ call[c].pc \in {"absent", "present"} /\ now' = now /\ row' = row
      /\ call'[c].at = now /\ call'[c].pc \in {"insert", "claim"}
      /\ \A e \in Calls : e # c => call'[e] = call[e]
  BY DEF Stamp, IInv, TypeOK
<1> QED
  BY <1>1, <1>2 DEF CallInv, IsWorking

\* The invariant survives every step.
LEMMA InvStep == IInv /\ [Next]_vars => IInv'
<1> SUFFICES ASSUME IInv, [Next]_vars PROVE IInv'
  OBVIOUS
<1>1. TypeOK'
  BY TypeStep DEF IInv
<1> SUFFICES ASSUME NEW d \in Calls PROVE CallInv(d)'
  BY <1>1 DEF IInv
<1>2. CASE UNCHANGED vars
  BY <1>2 DEF vars, IInv, CallInv, IsWorking
<1>3. CASE Tick
  <2>1. /\ CallInv(d) /\ now \in Nat /\ call[d].at \in Nat
    BY DEF IInv, TypeOK
  <2> QED
    BY <1>3, <2>1 DEF Tick, CallInv, IsWorking
<1>4. ASSUME NEW c \in Calls, Look(c) PROVE CallInv(d)'
  <2>1. row.token # c
    BY <1>4 DEF Look, IInv, CallInv
  <2>2. PICK pc \in {"replayed", "absent", "present"} : Goto(c, pc)
    BY <1>4 DEF Look
  <2> QED
    BY <1>4, <2>1, <2>2, OutsideStep DEF Look, Places
<1>5. ASSUME NEW c \in Calls, Stamp(c) PROVE CallInv(d)'
  BY <1>5, StampStep
<1>6. ASSUME NEW c \in Calls, Insert(c) PROVE CallInv(d)'
  <2>1. CASE row.status = "NONE"
    BY <1>6, <2>1, <1>1, ClaimStep DEF Insert
  <2>2. CASE row.status # "NONE"
    <3>1. row.token # c
      BY <1>6 DEF Insert, IInv, CallInv
    <3> QED
      BY <1>6, <2>2, <3>1, OutsideStep DEF Insert, Places
  <2> QED
    BY <2>1, <2>2
<1>7. ASSUME NEW c \in Calls, Claim(c) PROVE CallInv(d)'
  <2>1. CASE IsClaimable(call[c].at)
    BY <1>7, <2>1, <1>1, ClaimStep DEF Claim
  <2>2. CASE ~IsClaimable(call[c].at)
    <3>1. row.token # c
      BY <1>7 DEF Claim, IInv, CallInv
    <3> QED
      BY <1>7, <2>2, <3>1, OutsideStep DEF Claim, Places
  <2> QED
    BY <2>1, <2>2
<1>8. ASSUME NEW c \in Calls, NEW replied \in BOOLEAN, Settle(c, replied)
      PROVE  CallInv(d)'
  BY <1>8, SettleStep
<1>9. ASSUME NEW c \in Calls, Fail(c) PROVE CallInv(d)'
  BY <1>9, FailStep
<1>10. ASSUME NEW c \in Calls, Die(c) PROVE CallInv(d)'
  BY <1>10, OutsideStep DEF Die, Places
<1> QED
  BY <1>2, <1>3, <1>4, <1>5, <1>6, <1>7, <1>8, <1>9, <1>10
     DEF Next, CallStep

\* The inductive invariant holds always.
LEMMA Invariance == Spec => []IInv
  BY InitInv, InvStep, PTL DEF Spec

\* The job_runs row and the calls keep their types.
THEOREM JobTypeCorrect == Spec => []TypeOK
<1>1. IInv => TypeOK
  BY DEF IInv
<1> QED
  BY <1>1, Invariance, PTL

\* Two calls of one run key work at the same time only when the one without
\* the claim has had it for longer than the lease.
THEOREM OverlapNeedsLease == Spec => []OverlapOnlyAfterLease
<1>1. IInv => OverlapOnlyAfterLease
  BY DEF IInv, CallInv, OverlapOnlyAfterLease
<1> QED
  BY <1>1, Invariance, PTL

\* Once a caller was told of its run, no step writes to the row.
LEMMA WonStep ==
  ASSUME IInv, [Next]_vars, NEW w \in Calls, call[w].pc = "won"
  PROVE  row' = row /\ call'[w] = call[w]
<1>1. row.token = w /\ row.status = "SUCCEEDED"
  BY DEF IInv, CallInv
<1>2. \A c \in Calls : call[c].pc \in {"work", "catch"} => row.token # c
  BY <1>1
<1>3. ASSUME NEW c \in Calls, CallStep(c)
      PROVE  row' = row /\ call'[w] = call[w]
  <2>1. c # w
    BY <1>3 DEF CallStep, Look, Stamp, Insert, Claim, Settle, Fail, Die, Ended
  <2> QED
    BY <1>1, <1>2, <1>3, <2>1
       DEF CallStep, Look, Stamp, Insert, Claim, Settle, Fail, Die, Goto,
           HoldsClaim, IsClaimable, IInv, TypeOK
<1> QED
  BY <1>3 DEF Next, Tick, vars

\* A run that some caller was told of is final.
THEOREM WonIsFinal == Spec => WonRunIsFinal
<1>1. IInv /\ [Next]_vars =>
        [(\E c \in Calls : call[c].pc = "won") => row' = row]_vars
  BY WonStep
<1> QED
  BY <1>1, Invariance, PTL DEF Spec, WonRunIsFinal

-----------------------------------------------------------------------------
(* JobRunner implements RunOnce. *)

Winners == {c \in Calls : call[c].pc = "won"}

\* A step that settles nothing changes neither winners nor summary.
LEMMA NothingSettled ==
  ASSUME IInv, [Next]_vars,
         \A c \in Calls, replied \in BOOLEAN : ~Settle(c, replied)
  PROVE  Winners' = Winners /\ row'.summary = row.summary
<1>1. CASE UNCHANGED vars
  BY <1>1 DEF vars, Winners
<1>2. CASE Tick
  BY <1>2 DEF Tick, Winners
<1>3. ASSUME NEW c \in Calls, CallStep(c), ~UNCHANGED vars
      PROVE  Winners' = Winners /\ row'.summary = row.summary
  <2>1. /\ \A d \in Calls : d # c => call'[d] = call[d]
        /\ call[c].pc # "won" /\ call'[c].pc # "won"
    BY <1>3 DEF CallStep, Look, Stamp, Insert, Claim, Fail, Die, Goto, Ended,
                IInv, TypeOK
  <2>2. row'.summary = row.summary
    BY <1>3 DEF CallStep, Look, Stamp, Insert, Claim, Fail, Die, Claimed,
                HoldsClaim, IInv, TypeOK, Row
  <2> QED
    BY <2>1, <2>2 DEF Winners
<1> QED
  BY <1>1, <1>2, <1>3 DEF Next

\* A settlement that is written meets no winner; told to its caller it makes
\* one, not told it is an attempt.
LEMMA Settled ==
  ASSUME IInv, NEW c \in Calls, NEW replied \in BOOLEAN, Settle(c, replied)
  PROVE  \/ Winners' = Winners /\ row'.summary = row.summary
         \/ Winners = {} /\ Winners' = {} /\ row'.summary \in Calls
         \/ Winners = {} /\ Winners' = {c} /\ row'.summary = c
<1>1. /\ call[c].pc = "work"
      /\ call'[c].pc \in {"catch", "won", "skipped"}
      /\ call'[c].pc = "won" => row.token = c
      /\ \A d \in Calls : d # c => call'[d] = call[d]
  BY DEF Settle, Goto, HoldsClaim, IInv, TypeOK
<1>2. CASE row.token # c
  BY <1>1, <1>2 DEF Settle, HoldsClaim, Winners
<1>3. CASE row.token = c
  <2>1. Winners = {}
    BY <1>1, <1>3 DEF Winners, IInv, CallInv
  <2>2. row'.summary = c
    BY <1>3 DEF Settle, HoldsClaim, IInv, TypeOK, Row
  <2>3. CASE call'[c].pc = "won"
    BY <1>1, <2>1, <2>2, <2>3 DEF Winners
  <2>4. CASE call'[c].pc # "won"
    BY <1>1, <2>1, <2>2, <2>4 DEF Winners
  <2> QED
    BY <2>3, <2>4
<1> QED
  BY <1>2, <1>3

\* runTrackedJob implements RunOnce: one call at most is told that its run
\* counts, and the stored summary is then its own for good.
THEOREM JobRunnerRunsOnce == Spec => OneRunCounts
<1>1. Init => Once!Init
  BY DEF Init, Once!Init
<1>2. IInv /\ [Next]_vars => [Once!Next]_<<Winners, row.summary>>
  <2> SUFFICES ASSUME IInv, [Next]_vars
               PROVE  [Once!Next]_<<Winners, row.summary>>
    OBVIOUS
  <2>1. CASE \A c \in Calls, replied \in BOOLEAN : ~Settle(c, replied)
    BY <2>1, NothingSettled
  <2>2. ASSUME NEW c \in Calls, NEW replied \in BOOLEAN, Settle(c, replied)
        PROVE  [Once!Next]_<<Winners, row.summary>>
    BY <2>2, Settled DEF Once!Next, Once!Attempt, Once!Win, Winners
  <2> QED
    BY <2>1, <2>2
<1> QED
  BY <1>1, <1>2, Invariance, PTL DEF Spec, OneRunCounts, Once!Spec, Winners
=============================================================================
