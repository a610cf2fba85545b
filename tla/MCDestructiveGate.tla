-------------------------- MODULE MCDestructiveGate --------------------------
(***************************************************************************)
(* One Endpoint that boots twice, its Job, two overlapping authorisations, *)
(* two hardware states and two targets.                                    *)
(***************************************************************************)
EXTENDS DestructiveGate, TLC

CONSTANTS e1, c1, c2, j1, a1, a2, h1, h2, t1, t2

MCEndpoint == {e1}
MCContext == {c1, c2}
MCJob == {j1}
MCEndpointOf == [j \in MCJob |-> e1]
MCCall == {a1, a2}
MCSnapshot == {h1, h2}
MCTarget == {t1, t2}

Symmetries == Permutations(MCContext) \cup Permutations(MCCall)
              \cup Permutations(MCSnapshot) \cup Permutations(MCTarget)

=============================================================================
