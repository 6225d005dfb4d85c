-------------------------- MODULE MCEffectJournal --------------------------
(* Two runs linked to one action slot, two handlers, every method.          *)
EXTENDS EffectJournal, TLC

CONSTANTS r1, r2, c1, c2

MCRuns == {r1, r2}
MCCalls == {c1, c2}
Symmetry == Permutations(MCRuns) \cup Permutations(MCCalls)
=============================================================================
