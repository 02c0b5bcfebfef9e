------------------------------ MODULE MCFleet -------------------------------
EXTENDS Fleet
CONSTANTS s1, s2, k1, k2
=============================================================================
