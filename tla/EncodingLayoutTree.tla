-------------------------- MODULE EncodingLayoutTree --------------------------
(***************************************************************************)
(* EncodingLayoutTree (src/dwio/alpha/velox/EncodingLayoutTree.cpp): a     *)
(* tree, mirroring the schema, of the encoding layouts chosen per stream,  *)
(* written by serialize into a caller's buffer and read back by create.    *)
(*                                                                         *)
(* A tree is a record: kind (the schema kind byte), name (a byte           *)
(* sequence), layouts (the <<stream identifier, layout>> pairs of the      *)
(* unordered_map, in its iteration order) and children.  An               *)
(* EncodingLayout is opaque here: LayoutBytes[l] is what its serialize     *)
(* writes, and its create takes the layout whose bytes the span starts     *)
(* with (EncodingLayout is not under src; its own checks are assumed).     *)
(*                                                                         *)
(* Both directions work on bytes.  serialize is a list of events in        *)
(* program order, each a bounds check or a write reaching up to some       *)
(* offset; the first event past the buffer's end decides the outcome: a    *)
(* check throws, a write runs off the buffer.  create reads the bytes; a   *)
(* read past the end of the buffer is an over-read: it yields whatever     *)
(* bytes lie there (a tail of Garbage bytes) and create goes on.          *)
(*                                                                         *)
(* The definitions are recursive: this module is for TLC only.             *)
(***************************************************************************)
EXTENDS Integers, Sequences, SequencesExt, FiniteSets

CONSTANTS
  Trees,        \* the trees a writer serializes
  Layouts,      \* the encoding layouts
  LayoutBytes,  \* EncodingLayout::serialize: Layouts -> byte sequences
  BufferSizes,  \* the sizes of the buffers callers pass to serialize
  Garbage,      \* the byte values the memory past a buffer may hold
  NoTree        \* create's result when it throws

VARIABLES
  tree,        \* the tree last serialized
  bytes,       \* the bytes serialize wrote (when it succeeded)
  serStatus,   \* "none", "ok", "checkFailed" (ALPHA_CHECK), "overflow"
  kept,        \* how many of those bytes survived to be read by create
  readStatus,  \* "none", "ok", "checkFailed" (ALPHA_CHECK or substr throws)
  readTree,    \* the tree create returned
  overread     \* create read past the end of its buffer

vars == <<tree, bytes, serStatus, kept, readStatus, readTree, overread>>

\* Little-endian fixed-width integers, as encoding::write and read.
LE(n, w) == [i \in 1..w |-> (n \div (256 ^ (i - 1))) % 256]
ReadLE(b, at, w) == LET f[i \in 0..w] == IF i = 0 THEN 0
                                           ELSE f[i - 1] + b[at + i] * 256 ^ (i - 1)
                    IN f[w]

\* kMinBufferSize, line 11.
MinBufferSize == 8

-----------------------------------------------------------------------------
(* serialize, lines 100-129.                                               *)

\* Lines 113-120: one layout: identifier, length, layout bytes.
LayoutEntry(e) == LE(e[1], 1) \o LE(Len(LayoutBytes[e[2]]), 2) \o LayoutBytes[e[2]]

\* The bytes of a tree, in serialize's order (lines 106-126).
RECURSIVE Ser(_)
Ser(t) ==
  LE(t.kind, 1) \o LE(Len(t.name), 2) \o t.name \o LE(Len(t.layouts), 1)
    \o FlattenSeq([i \in 1..Len(t.layouts) |-> LayoutEntry(t.layouts[i])])
    \o LE(Len(t.children), 4)
    \o FlattenSeq([i \in 1..Len(t.children) |-> Ser(t.children[i])])

Check(upto) == [kind |-> "check", upto |-> upto]
Write(upto) == [kind |-> "write", upto |-> upto]

\* The checks and writes of serialize for a tree written at offset o, in
\* order: the header check of line 101 and the header; per layout the
\* identifier, the subspan past the length field, EncodingLayout's own
\* check, its bytes (and the length written back before them); the
\* children count; the children, each serialized into the rest of the span.
RECURSIVE SerEvents(_, _)
SerEvents(t, o) ==
  LET hdr == 4 + Len(t.name)
      ent == [i \in 1..Len(t.layouts) |-> LayoutEntry(t.layouts[i])]
      lo(i) == o + hdr + Len(FlattenSeq(SubSeq(ent, 1, i - 1)))
      c == o + hdr + Len(FlattenSeq(ent))
      kid(i) == c + 4 + Len(FlattenSeq([j \in 1..(i - 1) |-> Ser(t.children[j])]))
  IN <<Check(o + MinBufferSize + Len(t.name)), Write(o + hdr)>>
       \o FlattenSeq([i \in 1..Len(t.layouts) |->
            <<Write(lo(i) + 1), Write(lo(i) + 3), Check(lo(i) + Len(ent[i])),
              Write(lo(i) + Len(ent[i]))>>])
       \o <<Write(c + 4)>>
       \o FlattenSeq([i \in 1..Len(t.children) |-> SerEvents(t.children[i], kid(i))])

\* How serialize into a buffer of sz bytes ends.
SerOutcome(t, sz) ==
  LET ev == SerEvents(t, 0)
      bad == {i \in 1..Len(ev) : ev[i].upto > sz}
      first == CHOOSE i \in bad : \A j \in bad : i <= j
  IN IF bad = {} THEN "ok"
     ELSE IF ev[first].kind = "check" THEN "checkFailed" ELSE "overflow"

-----------------------------------------------------------------------------
(* createInternal, lines 13-82.  b is the whole buffer and s the offset    *)
(* its substr starts at; offsets inside a node are relative to s.  g is    *)
(* the memory that follows the buffer; over records a read of it.          *)

Fail(st, over) == [status |-> st, over |-> over, tree |-> NoTree, end |-> 0]

\* EncodingLayout::create on the span b: the layout its bytes start with.
LayoutsAt(b) == {l \in Layouts : IsPrefix(LayoutBytes[l], b)}

\* Lines 46-64: count layouts from offset p; a repeated identifier keeps
\* the first (unordered_map::insert).
RECURSIVE ParseLayouts(_, _, _, _)
ParseLayouts(b, p, count, acc) ==
  IF count = 0 THEN [status |-> "ok", layouts |-> acc, end |-> p]
  ELSE IF Len(b) - p < 3 THEN [status |-> "checkFailed", layouts |-> acc, end |-> p]
  ELSE LET id == b[p + 1]
           len == ReadLE(b, p + 1, 2)
           span == SubSeq(b, p + 4, p + 3 + len)
       IN IF Len(b) - (p + 3) < len \/ LayoutsAt(span) = {}
          THEN [status |-> "checkFailed", layouts |-> acc, end |-> p]
          ELSE LET l == CHOOSE l \in LayoutsAt(span) : TRUE
               IN IF Len(LayoutBytes[l]) # len
                  THEN [status |-> "checkFailed", layouts |-> acc, end |-> p]
                  ELSE ParseLayouts(b, p + 3 + len, count - 1,
                         IF \E k \in 1..Len(acc) : acc[k][1] = id THEN acc
                         ELSE Append(acc, <<id, l>>))

RECURSIVE Parse(_, _, _)

\* A mutant of ParseChildren: every child is read from the same offset.
RECURSIVE ParseChildrenNoAdvance(_, _, _, _, _, _, _)
ParseChildrenNoAdvance(b, g, s, off, count, acc, over) ==
  IF count = 0 THEN [status |-> "ok", over |-> over, kids |-> acc, end |-> off]
  ELSE IF s + off > Len(b) THEN [status |-> "checkFailed", over |-> over, kids |-> acc, end |-> off]
  ELSE LET r == Parse(b, g, s + off)
       IN IF r.status # "ok" THEN [status |-> r.status, over |-> over \/ r.over, kids |-> acc, end |-> off]
          ELSE ParseChildrenNoAdvance(b, g, s, off, count - 1, Append(acc, r.tree), over \/ r.over)

\* A mutant of ParseChildren: the loop stops one child short.
RECURSIVE ParseChildrenOneShort(_, _, _, _, _, _, _)
ParseChildrenOneShort(b, g, s, off, count, acc, over) ==
  IF count <= 1 THEN [status |-> "ok", over |-> over, kids |-> acc, end |-> off]
  ELSE IF s + off > Len(b) THEN [status |-> "checkFailed", over |-> over, kids |-> acc, end |-> off]
  ELSE LET r == Parse(b, g, s + off)
       IN IF r.status # "ok" THEN [status |-> r.status, over |-> over \/ r.over, kids |-> acc, end |-> off]
          ELSE ParseChildrenOneShort(b, g, s, off + r.end, count - 1, Append(acc, r.tree), over \/ r.over)

\* Lines 67-74: count children, each created from tree.substr(offset)
\* (which throws when offset is past the end), offset advancing by what
\* each consumed.
RECURSIVE ParseChildren(_, _, _, _, _, _, _)
ParseChildren(b, g, s, off, count, acc, over) ==
  IF count = 0 THEN [status |-> "ok", over |-> over, kids |-> acc, end |-> off]
  ELSE IF s + off > Len(b) THEN [status |-> "checkFailed", over |-> over, kids |-> acc, end |-> off]
  ELSE LET r == Parse(b, g, s + off)
       IN IF r.status # "ok" THEN [status |-> r.status, over |-> over \/ r.over, kids |-> acc, end |-> off]
          ELSE ParseChildren(b, g, s, off + r.end, count - 1, Append(acc, r.tree), over \/ r.over)

\* Lines 27-81.  The children count of line 66 is read with no check that
\* four bytes remain: past the end it is made of the bytes of g, and the
\* loop runs on with it.
Parse(b, g, s) ==
  LET n == Len(b) - s
  IN IF n < MinBufferSize THEN Fail("checkFailed", FALSE)
     ELSE LET nameLen == ReadLE(b, s + 1, 2)
          IN IF n < nameLen + MinBufferSize THEN Fail("checkFailed", FALSE)
             ELSE LET ls == ParseLayouts(b, s + 4 + nameLen, b[s + 4 + nameLen], <<>>)
                  IN IF ls.status # "ok" THEN Fail(ls.status, FALSE)
                     ELSE LET cs == ParseChildren(b, g, s, ls.end + 4 - s,
                                                  ReadLE(b \o g, ls.end, 4), <<>>,
                                                  ls.end + 4 > Len(b))
                          IN IF cs.status # "ok" THEN Fail(cs.status, cs.over)
                             ELSE [status |-> "ok",
                                   over |-> cs.over,
                                   tree |-> [kind |-> b[s + 1],
                                             name |-> SubSeq(b, s + 4, s + 3 + nameLen),
                                             layouts |-> ls.layouts,
                                             children |-> cs.kids],
                                   end |-> cs.end]

-----------------------------------------------------------------------------
Init ==
  /\ tree = NoTree
  /\ bytes = <<>>
  /\ serStatus = "none"
  /\ kept = 0
  /\ readStatus = "none"
  /\ readTree = NoTree
  /\ overread = FALSE

\* Lines 100-129: a writer serializes a tree into a buffer of sz bytes.
Serialize(t, sz) ==
  /\ tree' = t
  /\ serStatus' = SerOutcome(t, sz)
  /\ bytes' = IF serStatus' = "ok" THEN Ser(t) ELSE <<>>
  /\ kept' = 0
  /\ readStatus' = "none"
  /\ readTree' = NoTree
  /\ overread' = FALSE

\* Lines 131-133: create on the stored bytes, of which only the first k
\* may have survived, followed in memory by the bytes g.
Create(k) ==
  /\ serStatus = "ok"
  /\ \E g \in [1..4 -> Garbage] :
       LET r == Parse(SubSeq(bytes, 1, k), g, 0)
       IN /\ readStatus' = r.status
          /\ readTree' = r.tree
          /\ overread' = r.over
  /\ kept' = k
  /\ UNCHANGED <<tree, bytes, serStatus>>

Next ==
  \/ \E t \in Trees, sz \in BufferSizes : Serialize(t, sz)
  \/ \E k \in 0..Len(bytes) : Create(k)

Spec == Init /\ [][Next]_vars

\* The bytes create read had lost their tail.
Cut == readStatus # "none" /\ kept < Len(bytes)

-----------------------------------------------------------------------------
\* Two trees are the same tree: same kind, name, layout map (whatever its
\* iteration order) and children.
RECURSIVE SameTree(_, _)
SameTree(t1, t2) ==
  /\ t1.kind = t2.kind
  /\ t1.name = t2.name
  /\ Len(t1.layouts) = Len(t2.layouts)
  /\ ToSet(t1.layouts) = ToSet(t2.layouts)
  /\ Len(t1.children) = Len(t2.children)
  /\ \A i \in 1..Len(t1.children) : SameTree(t1.children[i], t2.children[i])

\* create reads back exactly the tree serialize wrote (spec section 8,
\* parse(serialise(T)) == T), children in order and every layout under its
\* stream identifier.
RoundTrip ==
  readStatus = "ok" /\ ~Cut => SameTree(readTree, tree)

\* createInternal's checks (lines 27-63) and substr's throw (line 72) reject
\* every buffer that lost its tail, wherever the cut falls and however many
\* nodes lie before it, except through the unchecked children count of
\* line 66: a tree is returned from part of the bytes only after a read
\* past their end.
TruncationOnlyByOverread ==
  Cut /\ readStatus = "ok" => overread

\* serialize never writes past the end of the buffer it is given: a buffer
\* too small makes it throw (spec section 4.4: the minimum node buffer is
\* enforced).
NoOverflow == serStatus # "overflow"

\* create never reads past the end of its buffer: a truncated or corrupt
\* tree makes it throw.
NoOverread == ~overread

=============================================================================
