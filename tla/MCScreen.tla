------------------------------ MODULE MCScreen ------------------------------
EXTENDS Screen
Jobs == {"here", "elsewhere"}
============================================================================
