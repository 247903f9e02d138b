----------------------------- MODULE MCRelaunch -----------------------------
EXTENDS Relaunch
Daemons == {"d1", "d2", "d3", "d4"}
============================================================================
