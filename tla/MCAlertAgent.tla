---------------------------- MODULE MCAlertAgent ----------------------------
\* Instances of AlertAgent for TLC.
EXTENDS AlertAgent
=============================================================================
