------------------------------ MODULE MCAgent ------------------------------
EXTENDS AgentProperties

CONSTANTS a, b   \* two files

\* Lines of two bytes, x\nx\n..., or of three, xx\n.
MCNewlines  == [ino : Inodes, epoch : 0..MaxEpoch, off : {1, 3, 5}]
MCLongLines == [ino : Inodes, epoch : 0..MaxEpoch, off : {2}]

\* The path is fixed; is renamed over once; or is removed, restored and
\* renamed over.
MCStay    == {}
MCRotate  == {<<a, b>>}
MCVanish  == {<<a, None>>, <<None, a>>, <<a, b>>}
==============================================================================
