---------------------------- MODULE MCDataPlane ----------------------------
(* DataPlane for TLC.  The digests are those of the possible sources.      *)
EXTENDS DataPlane, TLC

MCDigest == [Index -> Content]
=============================================================================
