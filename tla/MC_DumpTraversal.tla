--------------------------- MODULE MC_DumpTraversal ---------------------------
EXTENDS DumpTraversal

\* Two stripes with different stream counts, a stream without data in the
\* second; a file of one stripe whose only stream has no data.
MCFiles == { << <<TRUE, TRUE>>, <<TRUE, FALSE, TRUE>> >>, << <<FALSE>> >> }

\* A file whose writer was closed before any row: no stripes at all.
MCEmptyFiles == MCFiles \cup { << >> }

\* Identifiers present in every stripe, in some, and in none.
MCStreamArgs == {0, 2, 3}

\* uint32_t narrowed to 16 bits.
MCIndexBits == 16

\* An uninitialized uint32: zero, or whatever the stack held.
MCGarbage == {0, 2 ^ MCIndexBits - 1}
MCZero == {0}
=============================================================================
