------------------------------- MODULE MCChat -------------------------------
EXTENDS Chat
\* "any" is the prefix of every id, "last" of the last job's alone.
IdPrefixes == {"any", "last"}
MatchesOf == [p \in IdPrefixes |-> IF p = "any" THEN Job ELSE {MaxJob}]
============================================================================
