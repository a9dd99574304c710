------------------------------- MODULE Ledger -------------------------------
(***************************************************************************)
(* What the coordinator of src/src/build_train/runtime.rs promises about   *)
(* the identity of a request: whatever a client has been told stays true.  *)
(* A request that was reported to exist is not forgotten; one that was     *)
(* reported retired keeps its verdict and its identity is never used       *)
(* again.  What nobody was told yet may still be lost.                     *)
(***************************************************************************)
CONSTANTS
    Attempts,
    Verdicts    \* the outcomes a request can be retired with

VARIABLES
    standing,   \* what the durable state says of each request
    told        \* the furthest standing that a client may have been told

Standings == {"Unknown", "Live"} \cup Verdicts

\* s is p or comes later in a request's life.
Follows(s, p) ==
    \/ s = p
    \/ p = "Unknown"
    \/ p = "Live" /\ s \in Verdicts

Init ==
    /\ standing = [a \in Attempts |-> "Unknown"]
    /\ told = [a \in Attempts |-> "Unknown"]

Next ==
    /\ standing' \in [Attempts -> Standings]
    /\ told' \in [Attempts -> Standings]
    /\ \A a \in Attempts :
         /\ Follows(told'[a], told[a])
         /\ Follows(standing'[a], told'[a])

Spec == Init /\ [][Next]_<<standing, told>>
=============================================================================
