----------------------------- MODULE MCRegistry -----------------------------
EXTENDS RegistryHistory, TLC
CONSTANTS a1, a2, a3, k1, k2, p1, c1, c2

RegistrySymmetry ==
  Permutations(Agents) \cup Permutations(Companies) \cup Permutations(Callers)
=============================================================================
