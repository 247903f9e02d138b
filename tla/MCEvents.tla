------------------------------ MODULE MCEvents ------------------------------
EXTENDS Events
Jobs == {"here", "elsewhere"}
OwnJobs == {"here"}
Backends == {"sqlite", "postgres"}
============================================================================
