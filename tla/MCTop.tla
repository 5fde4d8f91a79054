------------------------------- MODULE MCTop -------------------------------
\* Two containers; the one with the later name uses more memory, so that the
\* orders of the table differ.
EXTENDS TopProps

MoreMemory == [c \in Container |-> c]
===============================================================================
