------------------------------ MODULE MCUpkeep ------------------------------
EXTENDS EnergyUpkeep, TLC

CONSTANTS a1, t1
=============================================================================
