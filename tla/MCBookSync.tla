----------------------------- MODULE MCBookSync -----------------------------
\* Instances of BookSync for TLC.
EXTENDS BookSync
=============================================================================
