---------------------------- MODULE DumpTraversal ----------------------------
(***************************************************************************)
(* The stripe and stream walks of the nimble_dump library                  *)
(* (src/dwio/nimble/tools/NimbleDumpLib.cpp): traverseTablet and the       *)
(* commands built on it (stripes, streams, histogram, content) and binary, *)
(* which reads one stream directly.  What the commands print is left out;  *)
(* what is kept is which stripes and streams each one visits, the loop     *)
(* bounds in uint32 arithmetic, and content's search and error report.    *)
(*                                                                         *)
(* A file is the sequence of its stripes, each the sequence of its         *)
(* streams: TRUE where the stream has data (load returns a stream), FALSE  *)
(* where it returns null.  Stream and stripe indices are 0-based, as in    *)
(* the code.  One step of the model is one iteration of traverseTablet's   *)
(* loop, stripe visitor and stream visitors included.                      *)
(***************************************************************************)
EXTENDS Integers, Sequences, SequencesExt

CONSTANTS
  Files,      \* the files the tool may open
  StreamArgs, \* the stream identifiers content and binary are asked for
  Garbage,    \* the values an uninitialized uint32 may hold
  IndexBits   \* the width of uint32_t (a narrower one for TLC: it wraps alike)

ASSUME DumpAssumption ==
  /\ Files \subseteq Seq(Seq(BOOLEAN))
  /\ StreamArgs \subseteq Nat
  /\ IndexBits \in Nat \ {0}
  /\ Garbage \subseteq 0..(2 ^ IndexBits - 1) /\ Garbage # {}

\* uint32_t arithmetic.
UInt32 == 2 ^ IndexBits
U32(n) == n % UInt32

\* std::optional<int32_t> stripeIndex with no value.
NoStripe == -1

VARIABLES
  file,            \* the tablet the tool opened
  cmd,             \* the command last started, or "none"
  running,         \* its walk is under way
  stripeArg,       \* the stripe the command is restricted to, or NoStripe
  streamArg,       \* content's and binary's stream identifier
  i,               \* traverseTablet's loop counter
  endStripe,       \* its bound
  visits,          \* the stripes visited (stripes) or <<stripe, stream>>s
  maxStreamCount,  \* content's and binary's error report
  found,           \* content: some visited stripe has the stream
  outcome          \* "none", "ok", "notFound" (ProgramExit), "badStripe"

vars == <<file, cmd, running, stripeArg, streamArg, i, endStripe, visits,
          maxStreamCount, found, outcome>>

Walks == {"stripes", "streams", "histogram", "content"}

StripeCount(f) == Len(f)
StreamCount(f, s) == Len(f[s + 1])
Present(f, s, j) == f[s + 1][j + 1]

\* The <<stripe, stream>> pairs of stripe s that load returns a stream for,
\* in stream order (lines 163-174).
PresentStreams(f, s) ==
  LET idx == SelectSeq([j \in 1..StreamCount(f, s) |-> j - 1],
                       LAMBDA j : Present(f, s, j))
  IN [k \in 1..Len(idx) |-> <<s, idx[k]>>]

\* A mutant of LastStripe: the loop stops one stripe early.
LastStripeOneShort(f, sa) == IF sa # NoStripe THEN sa ELSE U32(StripeCount(f) - 2)

\* Lines 153-155: the first and the last stripe of the walk.
FirstStripe(sa) == IF sa # NoStripe THEN sa ELSE 0
LastStripe(f, sa) == IF sa # NoStripe THEN sa ELSE U32(StripeCount(f) - 1)

\* The stripes the callers of the library may restrict a command to.
StripeArgs(f) == {NoStripe} \cup (0..(StripeCount(f) - 1))

Init ==
  /\ file \in Files
  /\ cmd = "none"
  /\ running = FALSE
  /\ stripeArg = NoStripe
  /\ streamArg = 0
  /\ i = 0
  /\ endStripe = 0
  /\ visits = <<>>
  /\ maxStreamCount = 0
  /\ found = FALSE
  /\ outcome = "none"

\* Lines 380-388, 401-423, 452-467, 534-539: a command starts its walk.
\* content's maxStreamCount is declared without an initializer (line 537).
Start(c, sa, sid) ==
  /\ ~running
  /\ c = "stripes" => sa = NoStripe
  /\ cmd' = c
  /\ running' = TRUE
  /\ stripeArg' = sa
  /\ streamArg' = sid
  /\ i' = FirstStripe(sa)
  /\ endStripe' = LastStripe(file, sa)
  /\ visits' = <<>>
  /\ maxStreamCount' \in IF c = "content" THEN Garbage ELSE {0}
  /\ found' = FALSE
  /\ outcome' = "none"
  /\ UNCHANGED file

\* Lines 539-569: content's stripe visitor.  The running maximum of the
\* stream counts, then the stripe is skipped when it has no such stream;
\* otherwise the stream is loaded, and printed when it has data.
ContentVisit(s) ==
  /\ maxStreamCount' = IF StreamCount(file, s) > maxStreamCount
                       THEN StreamCount(file, s) ELSE maxStreamCount
  /\ found' = (found \/ streamArg < StreamCount(file, s))
  /\ visits' = IF streamArg < StreamCount(file, s) /\ Present(file, s, streamArg)
               THEN Append(visits, <<s, streamArg>>) ELSE visits

\* Lines 156-177: one iteration of the loop, with the visitors of the
\* running command (stripes: lines 388-398; streams: 423-449; histogram:
\* 467-502; content: above).  A stripe index past the file's last stripe
\* is a call of getStripeIdentifier the tablet cannot answer.
VisitStripe ==
  /\ running
  /\ i <= endStripe
  /\ IF i >= StripeCount(file)
     THEN /\ outcome' = "badStripe"
          /\ running' = FALSE
          /\ UNCHANGED <<i, visits, maxStreamCount, found>>
     ELSE /\ i' = U32(i + 1)
          /\ CASE cmd = "stripes" ->
                    /\ visits' = Append(visits, i)
                    /\ UNCHANGED <<maxStreamCount, found>>
               [] cmd \in {"streams", "histogram"} ->
                    /\ visits' = visits \o PresentStreams(file, i)
                    /\ UNCHANGED <<maxStreamCount, found>>
               [] cmd = "content" -> ContentVisit(i)
          /\ UNCHANGED <<running, outcome>>
  /\ UNCHANGED <<file, cmd, stripeArg, streamArg, endStripe>>

\* Lines 156 and 571-573: the loop is over; content throws when no stripe
\* had the stream.
EndWalk ==
  /\ running
  /\ i > endStripe
  /\ running' = FALSE
  /\ outcome' = IF cmd = "content" /\ ~found THEN "notFound" ELSE "ok"
  /\ UNCHANGED <<file, cmd, stripeArg, streamArg, i, endStripe, visits,
                 maxStreamCount, found>>

\* Lines 576-597: binary reads stream sid of stripe s directly.
Binary(s, sid) ==
  /\ ~running
  /\ cmd' = "binary"
  /\ stripeArg' = s
  /\ streamArg' = sid
  /\ IF sid >= StreamCount(file, s)
     THEN /\ outcome' = "notFound"
          /\ maxStreamCount' = StreamCount(file, s)
          /\ visits' = <<>>
     ELSE /\ outcome' = "ok"
          /\ maxStreamCount' = 0
          /\ visits' = IF Present(file, s, sid) THEN <<<<s, sid>>>> ELSE <<>>
  /\ found' = FALSE
  /\ UNCHANGED <<file, running, i, endStripe>>

Next ==
  \/ \E c \in Walks, sa \in StripeArgs(file), sid \in StreamArgs : Start(c, sa, sid)
  \/ VisitStripe
  \/ EndWalk
  \/ \E s \in 0..(StripeCount(file) - 1), sid \in StreamArgs : Binary(s, sid)

\* The tool runs one command on one thread and nothing blocks it.
Spec == Init /\ [][Next]_vars /\ WF_vars(VisitStripe) /\ WF_vars(EndWalk)

-----------------------------------------------------------------------------
\* The stripes a walk restricted to sa should visit.
Requested(f, sa) == IF sa # NoStripe THEN <<sa>>
                    ELSE [k \in 1..StripeCount(f) |-> k - 1]

\* The <<stripe, stream>> pairs among the stripes req and the stream
\* identifiers ids that exist and have data.
ExpectedPairs(f, req, ids) ==
  {p \in {<<s, j>> : s \in Range(req), j \in ids} :
     p[2] < StreamCount(f, p[1]) /\ Present(f, p[1], p[2])}

\* Every stream identifier of some stripe of f.
StreamIds(f) == UNION {0..(StreamCount(f, s) - 1) : s \in 0..(StripeCount(f) - 1)}

\* Strictly increasing in (stripe, stream) order: file order, no repeats.
InFileOrder(seq) ==
  \A a, b \in 1..Len(seq) :
    a < b => \/ seq[a][1] < seq[b][1]
             \/ seq[a][1] = seq[b][1] /\ seq[a][2] < seq[b][2]

\* A finished walk visited exactly what was asked, in file order and each
\* once, and content reports a missing stream exactly when no requested
\* stripe has it: stripes lists every stripe; streams and histogram every
\* stream with data in the requested stripes; content the requested stream
\* wherever it has data.  This is about the bounds of traverseTablet's loop
\* (lines 153-157) and the skips of its visitors (lines 168-169, 543-545).
VisitsAsRequested ==
  ~running /\ cmd \in Walks /\ outcome \in {"ok", "notFound"} =>
    LET req == Requested(file, stripeArg)
    IN CASE cmd = "stripes" -> visits = req
         [] cmd \in {"streams", "histogram"} ->
              /\ Range(visits) = ExpectedPairs(file, req, StreamIds(file))
              /\ InFileOrder(visits)
         [] cmd = "content" ->
              /\ Range(visits) = ExpectedPairs(file, req, {streamArg})
              /\ InFileOrder(visits)
              /\ (outcome = "notFound" <=>
                    \A k \in 1..Len(req) : streamArg >= StreamCount(file, req[k]))

\* Every stripe a command touches is a stripe of the file: whatever file the
\* tool opens, traverseTablet never asks the tablet for stripe
\* stripeCount() or beyond.
NoBadStripe == outcome # "badStripe"

=============================================================================
