------------------------- MODULE FlatMapLayoutPlanner -------------------------
(***************************************************************************)
(* FlatMapLayoutPlanner (src/dwio/alpha/velox/FlatMapLayoutPlanner.cpp):   *)
(* the writer hands it the streams of a stripe; it returns them reordered  *)
(* so that the flat-map features named in its configuration come first,    *)
(* each with all its nested streams, and everything else follows in schema *)
(* order.                                                                  *)
(*                                                                         *)
(* The schema is a tree of type builders, given as a function from node    *)
(* ids to records: kind, desc (the node's own stream offsets, in the order *)
(* the code reads them), kids (child node ids) and names (row column names *)
(* or flat-map feature names).  A stream is its offset: the planner moves  *)
(* streams and never looks at their bytes.  The planner is constructed     *)
(* once with its configuration and asked for a layout at every stripe.     *)
(* The schema may differ between calls: typeResolver_ returns the schema   *)
(* as it stands, and flat maps gain features as keys are seen.             *)
(*                                                                         *)
(* The definitions are recursive: this module is for TLC only.             *)
(***************************************************************************)
EXTENDS Integers, Sequences, SequencesExt, FiniteSets

CONSTANTS
  Schemas,      \* the schemas typeResolver_ may return: [Node -> record]
  RootNode,     \* the root row's node id
  Configs,      \* the flatMapFeatureOrder_ values a planner may be built with
  FeatureName,  \* folly::to<std::string> on the feature ids used
  MaxMissing    \* bound: how many of the schema's streams a stripe lacks

VARIABLES
  config,   \* flatMapFeatureOrder_: <<column ordinal, <<feature ids>> >>s
  schema,   \* the schema of the last call
  streams,  \* the offsets of the streams passed to the last call
  layout,   \* the offsets of the streams it returned, in order
  status    \* "none", "ok", "badColumn" (ALPHA_CHECK), "mismatch" (ALPHA_ASSERT)

vars == <<config, schema, streams, layout, status>>

\* Every stream offset of a schema.
Offsets(s) == UNION {Range(s[n].desc) : n \in DOMAIN s}

-----------------------------------------------------------------------------
(* appendAllNestedStreams, lines 10-56: a node's own streams and those of  *)
(* its children, depth first, in the order of each case of the switch.     *)

\* A mutant of Nested: a flat map lists all in-map streams, then all values.
RECURSIVE NestedInMapsFirst(_, _)
NestedInMapsFirst(s, n) ==
  LET nd == s[n]
      kids == [i \in 1..Len(nd.kids) |-> NestedInMapsFirst(s, nd.kids[i])]
  IN CASE nd.kind = "Scalar" -> <<nd.desc[1]>>
       [] nd.kind = "Row" -> <<nd.desc[1]>> \o FlattenSeq(kids)
       [] nd.kind = "Array" -> <<nd.desc[1]>> \o kids[1]
       [] nd.kind = "ArrayWithOffsets" -> <<nd.desc[1], nd.desc[2]>> \o kids[1]
       [] nd.kind = "Map" -> <<nd.desc[1]>> \o kids[1] \o kids[2]
       [] nd.kind = "FlatMap" -> nd.desc \o FlattenSeq(kids)

RECURSIVE Nested(_, _)
Nested(s, n) ==
  LET nd == s[n]
      kids == [i \in 1..Len(nd.kids) |-> Nested(s, nd.kids[i])]
  IN CASE nd.kind = "Scalar" -> <<nd.desc[1]>>
       [] nd.kind = "Row" -> <<nd.desc[1]>> \o FlattenSeq(kids)
       [] nd.kind = "Array" -> <<nd.desc[1]>> \o kids[1]
       [] nd.kind = "ArrayWithOffsets" -> <<nd.desc[1], nd.desc[2]>> \o kids[1]
       [] nd.kind = "Map" -> <<nd.desc[1]>> \o kids[1] \o kids[2]
       [] nd.kind = "FlatMap" ->
            <<nd.desc[1]>>
              \o FlattenSeq([i \in 1..Len(kids) |-> <<nd.desc[i + 1]>> \o kids[i]])

\* Lines 130-132: a feature's in-map stream, then its value's streams.
FeatureStreams(s, fm, i) == <<s[fm].desc[i + 1]>> \o Nested(s, s[fm].kids[i])

-----------------------------------------------------------------------------
\* Lines 95-107: the column of every entry is in range and is a flat map.
ConfigValid(s, cfg) ==
  \A k \in 1..Len(cfg) :
     /\ cfg[k][1] \in 0..(Len(s[RootNode].kids) - 1)
     /\ s[s[RootNode].kids[cfg[k][1] + 1]].kind = "FlatMap"

\* Lines 114-127: the feature's ordinal in the flat map, if it has one.
FeatureOrdinals(s, fm, f) ==
  {i \in 1..Len(s[fm].kids) : s[fm].names[i] = FeatureName[f]}

\* Lines 91-134: orderedFlatMapOffsets, for a valid configuration: per
\* entry, the flat map's nulls stream, then each named feature it has.
OrderedFlatMapOffsets(s, cfg) ==
  FlattenSeq([k \in 1..Len(cfg) |->
    LET fm == s[RootNode].kids[cfg[k][1] + 1]
        feats == cfg[k][2]
    IN <<s[fm].desc[1]>>
         \o FlattenSeq([j \in 1..Len(feats) |->
              IF FeatureOrdinals(s, fm, feats[j]) = {} THEN <<>>
              ELSE FeatureStreams(s, fm, CHOOSE i \in FeatureOrdinals(s, fm, feats[j]) : TRUE)])])

\* A mutant of AppendStreams: tryAppendStream forgets to erase what it took.
RECURSIVE AppendStreamsNoErase(_, _, _)
AppendStreamsNoErase(offs, remaining, out) ==
  IF offs = <<>> THEN out
  ELSE IF Head(offs) \in remaining
       THEN AppendStreamsNoErase(Tail(offs), remaining, Append(out, Head(offs)))
       ELSE AppendStreamsNoErase(Tail(offs), remaining, out)

\* Lines 143-161 and 171-180: tryAppendStream over a list of offsets; a
\* stream is taken the first time its offset comes up and erased from the
\* lookup table, so a later mention of it is skipped.
RECURSIVE AppendStreams(_, _, _)
AppendStreams(offs, remaining, out) ==
  IF offs = <<>> THEN out
  ELSE IF Head(offs) \in remaining
       THEN AppendStreams(Tail(offs), remaining \ {Head(offs)}, Append(out, Head(offs)))
       ELSE AppendStreams(Tail(offs), remaining, out)

\* A mutant of PlanOrder: the leftovers are laid out before the flat maps.
PlanOrderLeftoversFirst(s, cfg) ==
  <<s[RootNode].desc[1]>> \o Nested(s, RootNode) \o OrderedFlatMapOffsets(s, cfg)

\* Lines 167-180: root nulls, then the configured flat maps, then all
\* streams in schema order.
PlanOrder(s, cfg) ==
  <<s[RootNode].desc[1]>> \o OrderedFlatMapOffsets(s, cfg) \o Nested(s, RootNode)

-----------------------------------------------------------------------------
\* Lines 60-66: the planner is built with one configuration.
Init ==
  /\ config \in Configs
  /\ schema \in Schemas
  /\ streams = {}
  /\ layout = <<>>
  /\ status = "none"

\* Lines 68-190: getLayout on the streams of one stripe, which are streams
\* of the schema typeResolver_ returns, one per offset.
GetLayout(s, S) ==
  /\ status = "none"
  /\ schema' = s
  /\ streams' = S
  /\ IF ~ConfigValid(s, config)
     THEN /\ status' = "badColumn"
          /\ layout' = <<>>
     ELSE LET out == AppendStreams(PlanOrder(s, config), S, <<>>)
          IN /\ layout' = out
             /\ status' = IF Len(out) = Cardinality(S) THEN "ok" ELSE "mismatch"
  /\ UNCHANGED config

\* The streams of a stripe: those of the schema, but for streams that got
\* no data (at most MaxMissing of them).
StripeStreams(s) ==
  {Offsets(s) \ M : M \in {M \in SUBSET Offsets(s) : Cardinality(M) <= MaxMissing}}

\* The writer has written the stripe out and starts collecting the next.
NextStripe ==
  /\ status # "none"
  /\ status' = "none"
  /\ streams' = {}
  /\ layout' = <<>>
  /\ UNCHANGED <<config, schema>>

Next ==
  \/ \E s \in Schemas : \E S \in StripeStreams(s) : GetLayout(s, S)
  \/ NextStripe

Spec == Init /\ [][Next]_vars

-----------------------------------------------------------------------------
\* The streams a configuration asks for, from the spec's words: the nulls
\* stream of each configured flat map and every stream under each feature
\* of it that the configuration names.
Requested(s, cfg) ==
  UNION {
    {s[s[RootNode].kids[cfg[k][1] + 1]].desc[1]} \cup
    UNION {Range(FeatureStreams(s, s[RootNode].kids[cfg[k][1] + 1], i)) :
             i \in {i \in 1..Len(s[s[RootNode].kids[cfg[k][1] + 1]].kids) :
                      \E j \in 1..Len(cfg[k][2]) :
                         s[s[RootNode].kids[cfg[k][1] + 1]].names[i]
                           = FeatureName[cfg[k][2][j]]}}
    : k \in 1..Len(cfg)}

\* getLayout returns a permutation of the streams it was given: none lost,
\* none twice, and its final ALPHA_ASSERT (line 182) never fires, however
\* the configuration repeats columns or features or names absent ones.
LayoutIsPermutation ==
  status \in {"ok", "mismatch"} =>
    /\ status = "ok"
    /\ Range(layout) = streams
    /\ Len(layout) = Cardinality(streams)

\* The root nulls stream comes first, and every stream the configuration
\* asks for comes before every stream it does not (spec section 8).
RequestedFirst ==
  status = "ok" =>
    LET req == Requested(schema, config) \cup {schema[RootNode].desc[1]}
    IN \A i, j \in 1..Len(layout) :
         i < j /\ layout[j] \in req => layout[i] \in req

\* The streams of a value subtree, and those of a flat-map feature.
Units(s) ==
  {Range(Nested(s, n)) : n \in DOMAIN s \ {RootNode}}
    \cup UNION {{Range(FeatureStreams(s, fm, i)) : i \in 1..Len(s[fm].kids)} :
                  fm \in {n \in DOMAIN s : s[n].kind = "FlatMap"}}

\* Related streams stay together: the streams of every value subtree and of
\* every flat-map feature that is laid out with the leftovers form one
\* contiguous run of the layout (lines 84-85).
LeftoversContiguous ==
  status = "ok" =>
    LET req == Requested(schema, config) \cup {schema[RootNode].desc[1]}
    IN \A u \in Units(schema) :
         LET at == {i \in 1..Len(layout) : layout[i] \in u}
         IN u \cap req = {} /\ at # {} =>
              \A i \in (CHOOSE m \in at : \A x \in at : m <= x)
                       ..(CHOOSE m \in at : \A x \in at : m >= x) : i \in at

=============================================================================
