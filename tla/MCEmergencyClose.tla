-------------------------- MODULE MCEmergencyClose --------------------------
\* Instances of EmergencyClose for TLC.
EXTENDS EmergencyClose, TLC

MCSymmetry == Permutations(Callers) \cup Permutations(Symbols) \cup Permutations(Tasks)
=============================================================================
