------------------------------ MODULE MCArStore ------------------------------
EXTENDS ArStore, TLC

CONSTANTS v0, vb, v1, v2

\* the getters are interchangeable
MCSymmetry == Permutations(Getters)
=============================================================================
