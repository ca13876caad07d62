------------------------ MODULE MC_EncodingLayoutTree ------------------------
EXTENDS EncodingLayoutTree, TLC

CONSTANTS L1, L2, L3

\* Three layouts of different lengths whose bytes are prefix-free, as the
\* serialized EncodingLayouts that lead with their encoding kind are.
MCLayouts == {L1, L2, L3}
MCLayoutBytes == (L1 :> <<1, 0>>) @@ (L2 :> <<2, 5, 5>>) @@ (L3 :> <<3, 7, 7, 7, 7, 7, 7>>)

Node(k, nm, ls, cs) == [kind |-> k, name |-> nm, layouts |-> ls, children |-> cs]

\* A row with two children: a named column with two layouts (in either
\* iteration order of its map) and an unnamed column with none; a single
\* column with a long layout; the smallest tree there is (eight bytes).
Column(ls) == Node(2, <<97, 98>>, ls, <<>>)
MCTrees ==
  { Node(1, <<>>, <<<<0, L1>>>>,
         <<Column(<<<<0, L2>>, <<1, L3>>>>), Node(3, <<>>, <<>>, <<>>)>>),
    Node(1, <<>>, <<<<0, L1>>>>,
         <<Column(<<<<1, L3>>, <<0, L2>>>>), Node(3, <<>>, <<>>, <<>>)>>),
    Node(3, <<99>>, <<<<4, L3>>>>, <<>>),
    Node(3, <<>>, <<>>, <<>>) }

\* The smallest buffer serialize accepts, buffers between its check and
\* what the tree needs, and one large enough for every tree.
MCBufferSizes == {8, 12, 16, 64}

\* Past a buffer's end: zero bytes, which make an over-read children count
\* 0, and non-zero bytes, which make it positive.
MCGarbage == {0, 1}
=============================================================================
