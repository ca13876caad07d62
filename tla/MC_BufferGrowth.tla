--------------------------- MODULE MC_BufferGrowth ---------------------------
(* Growth policies for TLC.                                                *)
EXTENDS BufferGrowth

\* Double below 2 rows of room, grow by half from 8 rows on.  The lowest
\* threshold is at most MinCapacity, so requests below it get enough room.
ValidRanges == [t \in {2, 8} |->
                  IF t = 2 THEN [num |-> 2, den |-> 1] ELSE [num |-> 3, den |-> 2]]
=============================================================================
