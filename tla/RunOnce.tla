------------------------------ MODULE RunOnce ------------------------------
(***************************************************************************)
(* What runTrackedJob promises to the callers that share a run key: one of *)
(* them at most is told that its run is the one that counts, and from then *)
(* on the stored summary is the one of that run.                           *)
(***************************************************************************)
CONSTANTS Calls, NoCall

VARIABLES
  winners,  \* calls that returned skipped: false
  stored    \* the call whose summary is stored

Init == winners = {} /\ stored = NoCall

\* Before there is a winner, runs come and go: one that settled but could not
\* tell its caller has stored its summary all the same.
Attempt == /\ winners = {} /\ winners' = {}
           /\ stored' \in Calls

Win(c) == winners = {} /\ winners' = {c} /\ stored' = c

Next == Attempt \/ \E c \in Calls : Win(c)

Spec == Init /\ [][Next]_<<winners, stored>>
=============================================================================
