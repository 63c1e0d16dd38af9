--------------------------- MODULE MCFollowerLoop ---------------------------
EXTENDS FollowerLoop

CONSTANTS a, b   \* two files

\* The path is rotated from one file to the other and back, removed and
\* restored; or, for the rotation alone, renamed away once.
MCMoves == {<<a, b>>, <<b, a>>, <<a, None>>, <<None, a>>, <<b, None>>}
MCOneMove == {<<a, b>>}
MCNewlines == {}
==============================================================================
