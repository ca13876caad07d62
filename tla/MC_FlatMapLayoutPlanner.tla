----------------------- MODULE MC_FlatMapLayoutPlanner -----------------------
(* A table with an id column and two flat maps, for TLC.                   *)
EXTENDS FlatMapLayoutPlanner

\* Node records.
Leaf(o) == [kind |-> "Scalar", desc |-> <<o>>, kids |-> <<>>, names |-> <<>>]
Node(k, d, c, nm) == [kind |-> k, desc |-> d, kids |-> c, names |-> nm]

\* Columns id (bigint), f1 (flat map of bigint and of map) and f2 (flat map
\* of bigint and of array), the feature names as the writer records them.
FullSchema ==
  [n \in {"r", "c0", "c1", "c1a", "c1b", "c1bk", "c1bv",
          "c2", "c2a", "c2b", "c2be"} |->
     CASE n = "r"    -> Node("Row", <<0>>, <<"c0", "c1", "c2">>, <<"id", "f1", "f2">>)
       [] n = "c0"   -> Leaf(1)
       [] n = "c1"   -> Node("FlatMap", <<2, 3, 5>>, <<"c1a", "c1b">>, <<"1", "2">>)
       [] n = "c1a"  -> Leaf(4)
       [] n = "c1b"  -> Node("Map", <<6>>, <<"c1bk", "c1bv">>, <<>>)
       [] n = "c1bk" -> Leaf(7)
       [] n = "c1bv" -> Leaf(8)
       [] n = "c2"   -> Node("FlatMap", <<9, 10, 12>>, <<"c2a", "c2b">>, <<"1", "3">>)
       [] n = "c2a"  -> Leaf(11)
       [] n = "c2b"  -> Node("ArrayWithOffsets", <<13, 14>>, <<"c2be">>, <<>>)
       [] n = "c2be" -> Leaf(15)]

\* Feature ids of the configurations and their decimal names.
FeatureIds == {-1, 1, 2, 3}
DecimalNames == [f \in FeatureIds |-> CASE f = -1 -> "-1" [] f = 1 -> "1"
                                          [] f = 2 -> "2" [] f = 3 -> "3"]

\* No ordering; f1's features 2 then 1 with an absent one and a repeat;
\* f1 listed twice; f2's feature 3 before f1's; a scalar column; a column
\* out of range.
PlannerConfigs ==
  { <<>>,
    << <<1, <<2, -1, 1, 2>> >> >>,
    << <<1, <<1>> >>, <<1, <<2>> >> >>,
    << <<2, <<3>> >>, <<1, <<1>> >> >>,
    << <<0, <<1>> >> >>,
    << <<3, <<>> >> >> }
\* The same table before f1 saw key 2 and f2 saw key 3: the features a flat
\* map has grow between stripes.
EarlySchema ==
  [n \in {"r", "c0", "c1", "c1a", "c2", "c2a"} |->
     CASE n = "r"   -> Node("Row", <<0>>, <<"c0", "c1", "c2">>, <<"id", "f1", "f2">>)
       [] n = "c0"  -> Leaf(1)
       [] n = "c1"  -> Node("FlatMap", <<2, 3>>, <<"c1a">>, <<"1">>)
       [] n = "c1a" -> Leaf(4)
       [] n = "c2"  -> Node("FlatMap", <<9, 10>>, <<"c2a">>, <<"1">>)
       [] n = "c2a" -> Leaf(11)]

MCSchemas == {EarlySchema, FullSchema}
=============================================================================
