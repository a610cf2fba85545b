-------------------------- MODULE MCWorkerControl --------------------------
(***************************************************************************)
(* TLC instance of WorkerControl: two handlers that compete for one handle *)
(* of a generation, and pages of one chunk, so that a discovery takes      *)
(* several pages while the other handler uploads.                          *)
(***************************************************************************)
EXTENDS WorkerControl

CONSTANTS c1, c2

MCCall == {c1, c2}
MCOffers ==
  {<<c1, "Chunk", 0>>, <<c1, "Resume", 0>>, <<c2, "Chunk", 1>>, <<c2, "Seal", 0>>}
=============================================================================
