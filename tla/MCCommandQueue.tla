--------------------------- MODULE MCCommandQueue ---------------------------
\* Two senders and a destroyer; one command of two lines among the commands.
EXTENDS CommandQueue, TLC

CONSTANTS s1, s2, one, two

MCSenders == {s1, s2}
MCCommands == {one, two, Quit}
MCLines == [c \in MCCommands |-> IF c = two THEN 2 ELSE 1]
=============================================================================
