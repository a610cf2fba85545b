-------------------------- MODULE MCJobTransactions --------------------------
(* Two connections at work on one Job of two JobSteps.                     *)
EXTENDS JobTransactions

\* The Attempts are taken in order: any other behaviour is one of these with
\* the Attempts renamed.
InOrder ==
  \A a, b \in Attempt : a < b /\ attemptState[b] # "Absent" => attemptState[a] # "Absent"
=============================================================================
