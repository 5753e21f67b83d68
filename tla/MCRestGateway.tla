---------------------------- MODULE MCRestGateway ----------------------------
\* Instances of RestGateway for TLC.
EXTENDS RestGateway, TLC

MCSymmetry == Permutations(Callers) \cup Permutations(Symbols)
==============================================================================
