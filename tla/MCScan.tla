------------------------------- MODULE MCScan -------------------------------
\* /m holds the directory /m/s, which holds the film.  Library A has both
\* directories as roots, library B the inner one.
EXTENDS Scan

CONSTANTS A, B, m, s

MCParent == [x \in {m, s} \cup Files |-> IF x = m THEN Top ELSE IF x = s THEN m ELSE s]
MCRoots == [l \in Libraries |-> IF l = A THEN {{m, s}} ELSE {{s}}]
MCVersions == {1, 2, 3}
MCSize == <<10, 20, 10>>
=============================================================================
