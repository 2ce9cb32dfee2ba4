----------------------------- MODULE JobRunner -----------------------------
(***************************************************************************)
(* runTrackedJob (src/lib/job-runner.ts): concurrent calls for one run key *)
(* of the cron routes, with their claim on the job_runs row, its lease,    *)
(* the settlement guarded by the claim token, crashes and lost replies.    *)
(*                                                                         *)
(* Every statement is a transaction of its own, so each action is one      *)
(* statement.  A call is its own claim token: crypto.randomUUID() is drawn *)
(* once per call.  The calls read synchronised clocks.                     *)
(***************************************************************************)
EXTENDS Integers

CONSTANTS
  Calls,    \* calls of runTrackedJob with the same runKey
  NoCall,
  Lease,    \* leaseMs, in ticks
  MaxTime   \* bound: the clock stops here

ASSUME CallsAssumption == NoCall \notin Calls
ASSUME TimeAssumption == Lease \in Nat /\ MaxTime \in Nat

VARIABLES
  now,   \* getCurrentDate()
  row,   \* the job_runs row of the run key
  call   \* the calls

vars == <<now, row, call>>
-----------------------------------------------------------------------------
Row == [status: {"NONE"}, startedAt: {0}, token: {NoCall}, summary: {NoCall}]
       \cup [status: {"RUNNING", "FAILED", "SUCCEEDED"}, startedAt: Nat,
             token: Calls, summary: Calls \cup {NoCall}]

\* Where a call is, and how it ended: "won" returned skipped: false,
\* "skipped" and "replayed" skipped: true, without and with a summary.
Places == {"start", "absent", "present", "insert", "claim", "work", "catch",
           "won", "skipped", "replayed", "threw", "dead"}
Ended == {"won", "skipped", "replayed", "threw", "dead"}

Init ==
  /\ now = 0
  /\ row = [status |-> "NONE", startedAt |-> 0, token |-> NoCall,
            summary |-> NoCall]
  /\ call = [c \in Calls |-> [pc |-> "start", at |-> 0]]

Goto(c, pc) == call' = [call EXCEPT ![c].pc = pc]

\* The call looks at the row ...
Look(c) ==
  /\ call[c].pc = "start"
  /\ Goto(c, IF row.status = "SUCCEEDED" THEN "replayed"
             ELSE IF row.status = "NONE" THEN "absent" ELSE "present")
  /\ UNCHANGED <<now, row>>

\* ... and then at the clock.
Stamp(c) ==
  /\ call[c].pc \in {"absent", "present"}
  /\ call' = [call EXCEPT
                ![c] = [pc |-> IF @.pc = "absent" THEN "insert" ELSE "claim",
                        at |-> now]]
  /\ UNCHANGED <<now, row>>

\* What both ways of claiming write.
MutantClaimed(c, r) ==                       \* claim token forgotten
  [r EXCEPT !.status = "RUNNING", !.startedAt = call[c].at]
Claimed(c, r) ==
  [r EXCEPT !.status = "RUNNING", !.startedAt = call[c].at, !.token = c]

\* createMany with skipDuplicates.
Insert(c) ==
  /\ call[c].pc = "insert"
  /\ IF row.status = "NONE"
     THEN row' = Claimed(c, row) /\ Goto(c, "work")
     ELSE UNCHANGED row /\ Goto(c, "claim")
  /\ UNCHANGED now

\* buildClaimableWhere with leaseCutoff.
MutantIsClaimable(at) ==                     \* lease forgotten at its end
  \/ row.status = "FAILED"
  \/ row.status = "RUNNING" /\ row.startedAt <= at - Lease
IsClaimable(at) ==
  \/ row.status = "FAILED"
  \/ row.status = "RUNNING" /\ row.startedAt < at - Lease

Claim(c) ==
  /\ call[c].pc = "claim"
  /\ IF IsClaimable(call[c].at)
     THEN row' = Claimed(c, row) /\ Goto(c, "work")
     ELSE UNCHANGED row /\ Goto(c, "skipped")
  /\ UNCHANGED now

\* The where clause of the two updates that end a run.
MutantHoldsClaim(c) == row.status # "NONE"     \* any claim will do
HoldsClaim(c) == row.token = c

\* The work is done and the run is settled; when the reply to the update is
\* lost, the catch block follows although it may have been written.
Settle(c, replied) ==
  /\ call[c].pc = "work"
  /\ row' = IF HoldsClaim(c)
            THEN [row EXCEPT !.status = "SUCCEEDED", !.summary = c]
            ELSE row
  /\ Goto(c, IF ~replied THEN "catch"
             ELSE IF HoldsClaim(c) THEN "won" ELSE "skipped")
  /\ UNCHANGED now

\* The catch block, after the work threw or after a lost reply.
Fail(c) ==
  /\ call[c].pc \in {"work", "catch"}
  /\ row' = IF HoldsClaim(c) THEN [row EXCEPT !.status = "FAILED"] ELSE row
  /\ Goto(c, "threw")
  /\ UNCHANGED now

\* The process stops, or the database is away when the catch block writes, or
\* a claim is written and its reply lost: nothing more comes of the call.
Die(c) ==
  /\ call[c].pc \notin Ended
  /\ Goto(c, "dead")
  /\ UNCHANGED <<now, row>>

Tick == now < MaxTime /\ now' = now + 1 /\ UNCHANGED <<row, call>>

CallStep(c) ==
  \/ Look(c) \/ Stamp(c) \/ Insert(c) \/ Claim(c)
  \/ \E replied \in BOOLEAN : Settle(c, replied)
  \/ Fail(c) \/ Die(c)

Next == Tick \/ \E c \in Calls : CallStep(c)

Spec == Init /\ [][Next]_vars
-----------------------------------------------------------------------------
(* Properties. *)

\* A row that exists carries the token of a call, the rest has its type.
TypeOK ==
  /\ now \in Nat
  /\ row \in Row
  /\ call \in [Calls -> [pc: Places, at: Nat]]

IsWorking(c) == call[c].pc \in {"work", "catch"}

\* "never runs two parallel cron executions against the same run key"
\* (operational-cleanup.integration.test.ts:260), as far as a lease can: a
\* call that works without the claim has had it for longer than the lease.
\* A claim is taken with a clock read before, which may be any time ago, and a
\* third call may come in between through a run that failed.
OverlapOnlyAfterLease ==
  \A c \in Calls : IsWorking(c) /\ row.token # c => now > call[c].at + Lease

\* One call at most is told that its run counts, and the summary stored from
\* then on is its own: no slow worker, lost reply or retry overwrites it
\* (job-runner.test.ts:159 "stale workers never overwrite").
Once == INSTANCE RunOnce WITH
          winners <- {c \in Calls : call[c].pc = "won"},
          stored <- row.summary
OneRunCounts == Once!Spec

\* A run some caller was told of is never run again: its row stays as it is
\* ("SUCCEEDED is final for that runKey", job-runner.integration.test.ts:40).
WonRunIsFinal ==
  [][(\E c \in Calls : call[c].pc = "won") => row' = row]_vars
=============================================================================
