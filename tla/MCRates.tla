------------------------------- MODULE MCRates -------------------------------
EXTENDS EnergyRates, TLC

Symmetry == Permutations(Requests) \cup Permutations(Readers)
=============================================================================
