--------------------------- MODULE RleCursorProofs ---------------------------
(***************************************************************************)
(* The run-length decoder implements the cursor of RleCursor, for every    *)
(* value domain, row bound and overrun.  The refinement mapping keeps the  *)
(* decoder's position, pending rows, call and output, and maps the runs to *)
(* the column they encode, Column.  A step of reset() or a call's entry is *)
(* the same step of the cursor; an iteration of the skip or materialize    *)
(* loop is a Consume of the rows it covers.  The proof rests on RInv of    *)
(* RleRoundTripProofs: inside the chunk the decoder is in the run holding  *)
(* row pos + 1, so what std::fill writes is the column's value.            *)
(***************************************************************************)
EXTENDS RleRoundTripProofs, WellFoundedInduction

\* The column the runs encode, as the refinement mapping gives it.
Column == [p \in 1..Rows |-> RowAt(p)]

-----------------------------------------------------------------------------
(* Every row of the chunk lies in a run.                                   *)

\* A non-empty set of naturals has a least element.
LEMMA NatMin ==
  ASSUME NEW T, T \subseteq Nat, T # {}
  PROVE  \E x \in T : \A y \in T : x <= y
<1>1. \E x \in T : \A y \in T : ~(<<y, x>> \in OpToRel(<, Nat))
  BY NatLessThanWellFounded, WFMin
<1>2. \A x, y \in Nat : y < x => <<y, x>> \in OpToRel(<, Nat)
  BY Zenon DEF OpToRel
<1>3. \A x, y \in Nat : ~(y < x) => x <= y
  OBVIOUS
<1>. QED
  BY <1>1, <1>2, <1>3

\* Row p lies in the first run that ends at or after it.
LEMMA RunExists ==
  ASSUME ends \in RunEnds, NEW p \in 1..Rows
  PROVE  /\ RunOf(p) \in 1..NumRuns
         /\ RunStart(RunOf(p)) < p /\ p <= ends[RunOf(p)]
<1>0. NumRuns \in 0..MaxRows /\ \A j \in 1..NumRuns : ends[j] \in 1..MaxRows
  BY EndsFacts, MaxRowsAssumption DEF NumRuns
<1>1. NumRuns \in 1..MaxRows /\ Rows = ends[NumRuns]
  BY <1>0, MaxRowsAssumption DEF Rows
<1> DEFINE T == {k \in 1..NumRuns : p <= ends[k]}
<1>2. T \subseteq Nat /\ NumRuns \in T
  BY <1>0, <1>1
<1>3. PICK k \in T : \A j \in T : k <= j
  BY <1>2, NatMin
<1>4. k \in 1..NumRuns /\ p <= ends[k]
  BY <1>3
<1>5. RunStart(k) < p
  <2>1. CASE k = 1
    BY <2>1 DEF RunStart
  <2>2. CASE k # 1
    <3>1. k - 1 \in 1..NumRuns /\ RunStart(k) = ends[k - 1]
      BY <2>2, <1>4, <1>0 DEF RunStart
    <3>2. k - 1 \notin T
      BY <3>1, <1>3, <1>4
    <3>. QED
      BY <3>1, <3>2, <1>0
  <2>. QED
    BY <2>1, <2>2
<1>6. \E j \in 1..NumRuns : RunStart(j) < p /\ p <= ends[j]
  BY <1>4, <1>5
<1>. QED
  BY <1>6 DEF RunOf

\* The column holds a value of the type at every row.
LEMMA ColumnTyped ==
  ASSUME TypeOK, ValuesOK
  PROVE  Column \in UNION {[1..r -> Value] : r \in 0..MaxRows}
<1>1. ends \in RunEnds /\ Rows \in 0..MaxRows
  BY Basics
<1>2. runValues \in [1..NumRuns -> Value]
  BY DEF ValuesOK, RunValuesFor
<1>3. \A p \in 1..Rows : RowAt(p) \in Value
  BY <1>1, <1>2, RunExists DEF RowAt
<1>4. Column \in [1..Rows -> Value]
  BY <1>3 DEF Column
<1>. QED
  BY <1>1, <1>4

\* A step that leaves the payload alone leaves the column alone.
LEMMA ColumnKept ==
  ASSUME UNCHANGED payload
  PROVE  Column' = Column
<1>1. Rows' = Rows /\ \A p : RowAt(p)' = RowAt(p)
  BY PayloadKept
<1>. QED
  BY <1>1 DEF Column

-----------------------------------------------------------------------------
(* The refinement, step by step.                                           *)

\* The constructor leaves the decoder where a fresh cursor starts.
LEMMA InitRefines == Init => Cursor!Init
<1> SUFFICES ASSUME Init PROVE Cursor!Init
  OBVIOUS
<1>1. TypeOK /\ ValuesOK
  BY InitRInv DEF RInv, TypeInv
<1>2. Column \in UNION {[1..r -> Value] : r \in 0..MaxRows}
  BY <1>1, ColumnTyped
<1>3. pc = "idle" /\ rowsLeft = 0 /\ pos = 0
      /\ out = [p \in 1..(MaxRows + Overrun) |-> NoValue]
  BY DEF Init, MaxPos
<1>. QED
  BY <1>2, <1>3 DEF Cursor!Init, Cursor!OutSize, Column

\* An iteration of the skip or materialize loop that covers m rows is a
\* Consume(m): it advances by m, owes m fewer, returns when it owes none,
\* and for materialize writes the column's value to exactly those rows.
LEMMA ConsumeStep ==
  ASSUME RInv, NEW kind \in {"skip", "materialize"}, pc = kind,
         UNCHANGED payload,
         NEW m \in Nat, m <= rowsLeft,
         pos' = pos + m, rowsLeft' = rowsLeft - m,
         pc' = IF rowsLeft' = 0 THEN "idle" ELSE kind,
         kind = "skip" => out' = out,
         kind = "materialize" => out' = Fill(pos, m, currentValue),
         pos < Rows => InRun(lenCursor) /\ m <= copiesRemaining
  PROVE  Cursor!Consume(m)
<1>0. TypeOK /\ RoundTrip /\ currentValue \in Value /\ DOMAIN out = 1..MaxPos
  BY Basics DEF RInv, TypeInv, TypeOK
<1>1. Column' = Column
  BY ColumnKept
<1>2. CASE kind = "skip"
  BY <1>1, <1>2 DEF Cursor!Consume, Column
<1>3. CASE kind = "materialize"
  <2>1. DOMAIN out' = DOMAIN out
    BY <1>0, <1>3 DEF Fill
  <2>2. ASSUME NEW p \in DOMAIN out, pos < p /\ p <= pos + m
        PROVE  /\ out'[p] \in Value
               /\ p <= Len(Column) => out'[p] = Column[p]
    <3>1. out'[p] = currentValue
      BY <2>2, <1>3 DEF Fill
    <3>2. ASSUME p <= Len(Column) PROVE out'[p] = Column[p]
      <4>1. Rows \in Nat /\ Len(Column) = Rows /\ p \in 1..Rows
        BY <3>2, <1>0, <2>2, Basics DEF Column
      <4>2. \A q \in 1..Rows : Fill(pos, m, currentValue)[q] # NoValue
                                => Fill(pos, m, currentValue)[q] = RowAt(q)
        BY <1>0, FillRight
      <4>3. currentValue # NoValue
        BY <1>0, NoValueAssumption
      <4>. QED
        BY <4>1, <4>2, <4>3, <3>1, <1>3 DEF Column
    <3>. QED
      BY <3>1, <3>2, <1>0
  <2>3. ASSUME NEW p \in DOMAIN out, ~(pos < p /\ p <= pos + m)
        PROVE  out'[p] = out[p]
    BY <2>3, <1>3 DEF Fill
  <2>. QED
    BY <1>1, <1>3, <2>1, <2>2, <2>3 DEF Cursor!Consume, Cursor!Written, Column
<1>. QED
  BY <1>2, <1>3

\* An iteration of a loop, in either branch, is a Consume of some of the
\* rows the call owes.
LEMMA LoopRefines ==
  ASSUME RInv, SkipStep \/ MaterializeStep
  PROVE  \E m \in 0..rowsLeft : Cursor!Consume(m)
<1>0. TypeOK /\ InStep /\ UNCHANGED payload
      /\ rowsLeft \in Nat /\ copiesRemaining \in Nat /\ pos \in Nat
  BY Basics DEF RInv, TypeInv, SkipStep, MaterializeStep
<1> DEFINE kind == pc
<1>1. kind \in {"skip", "materialize"}
  BY DEF SkipStep, MaterializeStep
\* The call ends inside the current run: it consumes all it owes.
<1>2. CASE rowsLeft < copiesRemaining
  <2>1. /\ pos' = pos + rowsLeft /\ rowsLeft' = rowsLeft - rowsLeft
        /\ pc' = IF rowsLeft' = 0 THEN "idle" ELSE kind
        /\ kind = "skip" => out' = out
        /\ kind = "materialize" => out' = Fill(pos, rowsLeft, currentValue)
    BY <1>0, <1>2 DEF SkipStep, MaterializeStep
  <2>2. pos < Rows => InRun(lenCursor) /\ rowsLeft <= copiesRemaining
    BY <1>0, <1>2 DEF InStep
  <2>3. Cursor!Consume(rowsLeft)
    BY <1>0, <1>1, <2>1, <2>2, ConsumeStep
  <2>. QED
    BY <2>3, <1>0
\* The call uses up the current run: it consumes what is left of it.
<1>3. CASE ~(rowsLeft < copiesRemaining)
  <2>1. /\ pos' = pos + copiesRemaining
        /\ rowsLeft' = rowsLeft - copiesRemaining
        /\ pc' = IF rowsLeft' = 0 THEN "idle" ELSE kind
        /\ kind = "skip" => out' = out
        /\ kind = "materialize" => out' = Fill(pos, copiesRemaining, currentValue)
    BY <1>0, <1>3 DEF SkipStep, MaterializeStep
  <2>2. pos < Rows => InRun(lenCursor) /\ copiesRemaining <= copiesRemaining
    BY <1>0 DEF InStep
  <2>3. copiesRemaining <= rowsLeft
    BY <1>0, <1>3
  <2>4. Cursor!Consume(copiesRemaining)
    BY <1>0, <1>1, <2>1, <2>2, <2>3, ConsumeStep
  <2>. QED
    BY <2>3, <2>4, <1>0
<1>. QED
  BY <1>2, <1>3

\* Every step of the decoder is a step of the cursor or leaves it alone.
LEMMA NextRefines == RInv /\ [Next]_vars => [Cursor!Next]_Cursor!vars
<1> SUFFICES ASSUME RInv, [Next]_vars PROVE [Cursor!Next]_Cursor!vars
  OBVIOUS
<1>0. TypeOK /\ Rows \in Nat /\ pos \in Nat
  BY Basics DEF RInv, TypeInv
<1>1. CASE Reset
  <2>1. Column' = Column
    BY <1>1, ColumnKept DEF Reset
  <2>. QED
    BY <1>1, <2>1 DEF Reset, Cursor!Next, Cursor!Reset, Column
<1>2. CASE \E n \in CallRange : Call("skip", n) \/ Call("materialize", n)
  <2>1. PICK n \in CallRange : Call("skip", n) \/ Call("materialize", n)
    BY <1>2
  <2>2. Column' = Column /\ Len(Column) = Rows
    BY <2>1, <1>0, ColumnKept DEF Call, Column
  <2>3. n \in 0..(Len(Column) + Overrun - pos)
    BY <2>1, <2>2 DEF CallRange
  <2>4. Cursor!Call("skip", n) \/ Cursor!Call("materialize", n)
    BY <2>1, <2>2 DEF Call, Cursor!Call, Column
  <2>. QED
    BY <2>3, <2>4, Zenon DEF Cursor!Next, Column
<1>3. CASE SkipStep \/ MaterializeStep
  BY <1>3, LoopRefines DEF Cursor!Next
<1>4. CASE UNCHANGED vars
  <2>1. Column' = Column
    BY <1>4, ColumnKept DEF vars, payload
  <2>. QED
    BY <1>4, <2>1 DEF vars, Cursor!vars, Column
<1>. QED
  BY <1>1, <1>2, <1>3, <1>4 DEF Next

(* RLEEncodingBase implements the encoding contract of spec section 4.1,   *)
(* for every value domain, row bound and overrun: every behaviour of the   *)
(* decoder's reset(), skip and materialize loops is a behaviour of the     *)
(* column cursor, with the column the rows its runs encode.                *)
THEOREM CursorRefinement == Spec => ImplementsCursor
<1>1. Init => RInv /\ Cursor!Init
  BY InitRInv, InitRefines
<1>2. RInv /\ [Next]_vars => RInv' /\ [Cursor!Next]_Cursor!vars
  BY NextRInv, NextRefines
<1>. QED
  BY <1>1, <1>2, PTL DEF Spec, ImplementsCursor, Cursor!Spec

=============================================================================
