------------------------------- MODULE MCSetup -------------------------------
EXTENDS Setup

CONSTANTS p1, p2

\* p1 is a part of p2, like /bin/jb of /usr/bin/jb.
PartOfAnother == {<<p1, p1>>, <<p2, p2>>, <<p1, p2>>}
=============================================================================
