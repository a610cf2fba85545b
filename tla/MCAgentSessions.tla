-------------------------- MODULE MCAgentSessions --------------------------
EXTENDS AgentSessions, TLC

Symmetry == Permutations(Session) \cup Permutations(Attempt)
=============================================================================
