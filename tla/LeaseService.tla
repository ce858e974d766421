---------------------------- MODULE LeaseService ----------------------------
(***************************************************************************)
(* What leasing a job promises, whatever the interleaving of requests: a   *)
(* resource has at most one lease, each grant uses a lease id never used   *)
(* before, for any resource, and a lease that was lost does not come back. *)
(***************************************************************************)
CONSTANTS Resources, Ids, Nobody

VARIABLES
  holder,  \* the lease id in force on each resource, or Nobody
  spent    \* every lease id that has been granted

Init == holder = [r \in Resources |-> Nobody] /\ spent = {}

\* several resources change in one commit, at most one of them by a grant
Drop(S) ==
  /\ holder' = [r \in Resources |-> IF r \in S THEN Nobody ELSE holder[r]]
  /\ UNCHANGED spent

Grant(r, i) ==
  /\ i \notin spent
  /\ holder' = [holder EXCEPT ![r] = i]
  /\ spent' = spent \cup {i}

Next ==
  \/ \E S \in SUBSET Resources : Drop(S)
  \/ \E r \in Resources, i \in Ids : Grant(r, i)

Spec == Init /\ [][Next]_<<holder, spent>>
=============================================================================
