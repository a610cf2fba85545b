----------------------------- MODULE MCIdentity -----------------------------
(***************************************************************************)
(* One machine that boots twice, two connections whose redemptions          *)
(* overlap, and one fault.                                                 *)
(***************************************************************************)
EXTENDS Identity

CONSTANTS c1, c2, s1, e1, e2, r1, r2

MCContext == {c1, c2}
MCSignal == {s1}
MCEndpoint == {e1, e2}
MCRequest == {r1, r2}
MCFaults == {"Restart", "Abort", "LostAnswer"}

=============================================================================
