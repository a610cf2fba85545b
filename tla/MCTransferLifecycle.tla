------------------------ MODULE MCTransferLifecycle ------------------------
(* TransferLifecycle for TLC: which Transfer, Attempt, content or digest   *)
(* is meant never matters.                                                 *)
EXTENDS TransferLifecycle, TLC

Symmetry == Permutations(Transfer) \cup Permutations(Attempt)
            \cup Permutations(Content) \cup Permutations(ArtifactDigest)
=============================================================================
