------------------------------ MODULE MC_Trainer ------------------------------
EXTENDS Trainer, TLC

\* A row (nulls stream) of an array with offsets (offsets and lengths
\* streams, identifiers 0 and 1) of a scalar, and a scalar column.
MCNodes == {"row", "array", "elements", "column"}
MCNodeStreams == ("row" :> {0}) @@ ("array" :> {0, 1})
                   @@ ("elements" :> {0}) @@ ("column" :> {0})

\* createTrainingTree's preorder: a node's streams, then its children.
MCOrder == << <<"row", 0>>, <<"array", 0>>, <<"array", 1>>,
              <<"elements", 0>>, <<"column", 0>> >>
=============================================================================
