------------------------- MODULE RleRoundTripProofs -------------------------
(***************************************************************************)
(* The round trip of the run-length decoder, for every value domain, row   *)
(* bound and overrun: every row materialize writes inside the chunk is the *)
(* row the writer encoded there.                                           *)
(*                                                                         *)
(* RoundTrip is not inductive: it holds because the decoder's cursors stay *)
(* in step with the logical position.  While pos is inside the chunk, the  *)
(* run materializedRunLengths_ last handed out is the run holding row      *)
(* pos + 1, copiesRemaining_ is what is left of it, and currentValue_ is   *)
(* its value; for bool, value_ already holds the next run's value.  Once   *)
(* pos reaches the end only reads past the end remain, whose rows          *)
(* RoundTrip does not judge, until reset() starts again from row 0.        *)
(***************************************************************************)
EXTENDS RleDecoderProofs

\* The run values are what computeRuns produced, and the bool payload's
\* first byte is the first run's value.
ValuesOK ==
  /\ runValues \in RunValuesFor(NumRuns)
  /\ IsBool /\ NumRuns > 0 => initialValue = runValues[1]

\* The decoder is inside run k, at logical position pos.
InRun(k) ==
  /\ k \in 1..NumRuns
  /\ RunStart(k) <= pos /\ pos < ends[k]
  /\ copiesRemaining = ends[k] - pos
  /\ currentValue = runValues[k]
  /\ IsBool => boolValue = ~currentValue
  /\ ~IsBool => valCursor = k

\* Inside the chunk, the decoder is in the run lenCursor points at.
InStep == pos < Rows => InRun(lenCursor)

RInv == TypeInv /\ ValuesOK /\ InStep /\ RoundTrip


-----------------------------------------------------------------------------
(* Lemmas about the payload: the ends of the runs strictly increase, so    *)
(* the runs partition the rows 1..Rows and RunOf picks the one run that    *)
(* holds a row.                                                            *)

LEMMA EndsFacts ==
  ASSUME NEW e \in RunEnds
  PROVE  /\ e \in Seq(1..MaxRows)
         /\ Len(e) \in 0..MaxRows
         /\ \A j, k \in 1..Len(e) : j < k => e[j] < e[k]
<1>1. PICK r \in 0..MaxRows : e \in [1..r -> 1..MaxRows]
  BY DEF RunEnds
<1>2. Len(e) = r /\ e \in Seq(1..MaxRows)
  BY <1>1, MaxRowsAssumption
<1>3. StrictlyIncreasing(e)
  BY DEF RunEnds
<1>. QED
  BY <1>1, <1>2, <1>3 DEF StrictlyIncreasing

\* Where run k starts: before its end, and at the end of run k - 1.
LEMMA RunStartFacts ==
  ASSUME ends \in RunEnds, NEW k \in 1..NumRuns
  PROVE  /\ RunStart(k) \in Nat
         /\ RunStart(k) < ends[k]
         /\ ends[k] <= Rows
         /\ ends[k] < Rows => k + 1 \in 1..NumRuns /\ RunStart(k + 1) = ends[k]
<1>0. NumRuns \in 0..MaxRows /\ \A j \in 1..NumRuns : ends[j] \in 1..MaxRows
  BY EndsFacts, MaxRowsAssumption DEF NumRuns
<1>1. \A j, m \in 1..NumRuns : j < m => ends[j] < ends[m]
  BY EndsFacts DEF NumRuns
<1>2. k > 1 => ends[k - 1] < ends[k]
  BY <1>1, <1>0, MaxRowsAssumption
<1>3. RunStart(k) \in Nat /\ RunStart(k) < ends[k]
  BY <1>0, <1>2, MaxRowsAssumption DEF RunStart
<1>4. k < NumRuns => ends[k] < ends[NumRuns]
  BY <1>1, <1>0, MaxRowsAssumption
<1>5. Rows = ends[NumRuns] /\ NumRuns >= 1
  BY <1>0, MaxRowsAssumption DEF Rows
<1>6. ends[k] <= Rows
  BY <1>0, <1>4, <1>5, MaxRowsAssumption
<1>7. ends[k] < Rows => k + 1 \in 1..NumRuns
  BY <1>0, <1>5, MaxRowsAssumption
<1>8. RunStart(k + 1) = ends[k]
  BY <1>0, MaxRowsAssumption DEF RunStart
<1>. QED
  BY <1>3, <1>6, <1>7, <1>8

\* A row between the start and the end of run k is in run k.
LEMMA RunOfIn ==
  ASSUME ends \in RunEnds, NEW k \in 1..NumRuns, NEW p \in Nat,
         RunStart(k) < p, p <= ends[k]
  PROVE  RunOf(p) = k
<1>0. NumRuns \in 0..MaxRows /\ \A j \in 1..NumRuns : ends[j] \in 1..MaxRows
  BY EndsFacts, MaxRowsAssumption DEF NumRuns
\* The run before a later run ends no later than that run starts.
<1>1. ASSUME NEW a \in 1..NumRuns, NEW b \in 1..NumRuns, a < b
      PROVE  ends[a] <= RunStart(b)
  <2>1. b - 1 \in 1..NumRuns /\ RunStart(b) = ends[b - 1]
    BY <1>1, <1>0, MaxRowsAssumption DEF RunStart
  <2>2. a <= b - 1
    BY <1>1, <1>0, MaxRowsAssumption
  <2>3. a < b - 1 => ends[a] < ends[b - 1]
    <3>1. \A j, m \in 1..NumRuns : j < m => ends[j] < ends[m]
      BY EndsFacts DEF NumRuns
    <3>. QED
      BY <3>1, <2>1
  <2>. QED
    BY <2>1, <2>2, <2>3, <1>0, MaxRowsAssumption
<1>2. \A j \in 1..NumRuns : RunStart(j) < p /\ p <= ends[j] => j = k
  <2> SUFFICES ASSUME NEW j \in 1..NumRuns, RunStart(j) < p, p <= ends[j]
               PROVE  j = k
    OBVIOUS
  <2>1. j < k => ends[j] <= RunStart(k)
    BY <1>1
  <2>2. k < j => ends[k] <= RunStart(j)
    BY <1>1
  <2>3. RunStart(j) \in Nat /\ RunStart(k) \in Nat
    BY RunStartFacts
  <2>. QED
    BY <2>1, <2>2, <2>3, <1>0, MaxRowsAssumption
<1>. QED
  BY <1>2 DEF RunOf


\* The run values, as computeRuns wrote them: one per run.
LEMMA ValuesLen ==
  ASSUME TypeOK, ValuesOK
  PROVE  Len(runValues) = NumRuns /\ NumRuns \in 0..MaxRows
<1>1. NumRuns \in 0..MaxRows
  BY EndsFacts DEF TypeOK, NumRuns
<1>2. DOMAIN runValues = 1..NumRuns
  BY DEF ValuesOK, RunValuesFor
<1>. QED
  BY <1>1, <1>2 DEF TypeOK

\* For bool, adjacent runs differ, so each run's value is the negation of
\* the one before: value_ = !value_ walks the runs.
LEMMA BoolAlternates ==
  ASSUME TypeOK, ValuesOK, IsBool, NEW k \in 1..(NumRuns - 1)
  PROVE  runValues[k + 1] = ~runValues[k]
<1>1. NumRuns \in 0..MaxRows /\ k + 1 \in 1..NumRuns /\ k \in 1..NumRuns
  BY ValuesLen
<1>2. runValues[k + 1] # runValues[k]
  BY <1>1 DEF ValuesOK, RunValuesFor
<1>3. runValues[k + 1] \in BOOLEAN /\ runValues[k] \in BOOLEAN
  BY <1>1, ValuesLen, ValueAssumption DEF TypeOK
<1>. QED
  BY <1>2, <1>3

\* Fetching run k + 1 (reset() for k = 0, the end of run k in skip and
\* materialize otherwise) hands out its length and its value.
LEMMA FetchNextRun ==
  ASSUME TypeInv, ValuesOK, NEW k \in 0..(NumRuns - 1), NEW vc, NEW bv,
         ~IsBool => vc = k,
         IsBool => bv = runValues[k + 1],
         FetchRun(k, vc, bv)
  PROVE  /\ lenCursor' = k + 1
         /\ copiesRemaining' = ends[k + 1] - RunStart(k + 1)
         /\ currentValue' = runValues[k + 1]
         /\ IsBool => boolValue' = ~currentValue'
         /\ ~IsBool => valCursor' = k + 1
<1>0. TypeOK /\ PayloadOK /\ Len(runValues) = NumRuns /\ NumRuns \in 0..MaxRows
  BY ValuesLen DEF TypeInv
<1>1. k + 1 \in 1..NumRuns /\ k < MaxFetches
  BY <1>0, MaxRowsAssumption DEF MaxFetches
<1>2. lenCursor' = k + 1
  BY <1>1, <1>0 DEF FetchRun, Advance
<1>3. runLengths[k + 1] = ends[k + 1] - RunStart(k + 1) /\ k + 1 \in 1..Len(runLengths)
  BY <1>1, <1>0 DEF PayloadOK, LengthsOf, RunStart, NumRuns
<1>4. copiesRemaining' = ends[k + 1] - RunStart(k + 1)
  BY <1>3 DEF FetchRun, RunLengthRead
<1>5. CASE IsBool
  <2>1. currentValue' = bv /\ boolValue' = ~bv
    BY <1>5 DEF FetchRun, NextValue
  <2>. QED
    BY <2>1, <1>5, <1>2, <1>4
<1>6. CASE ~IsBool
  <2>1. valCursor' = Advance(vc) /\ currentValue' \in RunValueRead(vc + 1)
    BY <1>6 DEF FetchRun, NextValue
  <2>2. vc = k /\ k + 1 \in 1..Len(runValues)
    BY <1>6, <1>1, <1>0
  <2>. QED
    BY <2>1, <2>2, <1>1, <1>2, <1>4, <1>6 DEF Advance, RunValueRead
<1>. QED
  BY <1>2, <1>4, <1>5, <1>6


\* The numeric facts the steps below keep needing, out of TypeOK.
LEMMA Basics ==
  ASSUME TypeOK
  PROVE  /\ ends \in RunEnds
         /\ MaxRows \in Nat /\ Overrun \in Nat /\ MaxPos \in Nat
         /\ NumRuns \in 0..MaxRows /\ Rows \in 0..MaxRows /\ Rows <= MaxPos
         /\ pos \in 0..MaxPos /\ rowsLeft \in 0..MaxPos
         /\ copiesRemaining \in 0..MaxRows
         /\ DOMAIN out = 1..MaxPos
<1>1. ends \in RunEnds /\ pos \in 0..MaxPos /\ rowsLeft \in 0..MaxPos
      /\ copiesRemaining \in 0..MaxRows /\ out \in [1..MaxPos -> Value \cup {NoValue}]
  BY DEF TypeOK
<1>2. NumRuns \in 0..MaxRows /\ Rows \in 0..MaxRows
  BY <1>1, RowsBound DEF Rows, NumRuns
<1>. QED
  BY <1>1, <1>2, MaxRowsAssumption, OverrunAssumption DEF MaxPos

\* Inside run k the position, the run's bounds and what is left of it are
\* numbers that fit together.
LEMMA InRunFacts ==
  ASSUME TypeOK, NEW k, InRun(k)
  PROVE  /\ k \in 1..NumRuns
         /\ RunStart(k) \in Nat /\ ends[k] \in Nat /\ pos \in Nat
         /\ RunStart(k) <= pos /\ pos < ends[k] /\ ends[k] <= Rows
         /\ copiesRemaining = ends[k] - pos
<1>1. ends \in RunEnds /\ pos \in Nat /\ k \in 1..NumRuns
  BY Basics DEF InRun
<1>2. RunStart(k) \in Nat /\ ends[k] <= Rows /\ RunStart(k) < ends[k]
  BY <1>1, RunStartFacts
<1>3. ends[k] \in Nat
  <2>1. ends \in Seq(1..MaxRows)
    BY <1>1, EndsFacts
  <2>2. k \in 1..Len(ends)
    BY <1>1 DEF NumRuns
  <2>3. ends[k] \in 1..MaxRows
    BY ONLY <2>1, <2>2, MaxRowsAssumption
  <2>. QED
    BY ONLY <2>3, MaxRowsAssumption
<1>. QED
  BY <1>1, <1>2, <1>3 DEF InRun

\* A step that leaves the payload alone leaves the rows it encodes alone.
LEMMA PayloadKept ==
  ASSUME UNCHANGED payload
  PROVE  /\ ends' = ends /\ runValues' = runValues
         /\ Rows' = Rows /\ NumRuns' = NumRuns
         /\ ValuesOK' = ValuesOK
         /\ \A p : RowAt(p)' = RowAt(p)
         /\ \A k : RunStart(k)' = RunStart(k)
BY DEF payload, Rows, NumRuns, ValuesOK, RowAt, RunOf, RunStart, RunValuesFor

\* std::fill over rows pos + 1 .. pos + n writes the rows' own value when
\* the rows lie within the current run.
LEMMA FillRight ==
  ASSUME TypeOK, RoundTrip, NEW n \in Nat,
         pos < Rows => InRun(lenCursor) /\ n <= copiesRemaining
  PROVE  \A p \in 1..Rows : Fill(pos, n, currentValue)[p] # NoValue
                             => Fill(pos, n, currentValue)[p] = RowAt(p)
<1> SUFFICES ASSUME NEW p \in 1..Rows, Fill(pos, n, currentValue)[p] # NoValue
             PROVE  Fill(pos, n, currentValue)[p] = RowAt(p)
  OBVIOUS
<1>0. /\ ends \in RunEnds /\ pos \in Nat /\ Rows \in 0..MaxRows /\ p \in 1..MaxPos
      /\ DOMAIN out = 1..MaxPos
  BY Basics
<1>1. CASE pos < p /\ p <= pos + n
  <2>1. pos < Rows
    BY <1>1, <1>0
  <2>2. InRun(lenCursor) /\ n <= copiesRemaining
    BY <2>1
  <2>3. RunStart(lenCursor) < p /\ p <= ends[lenCursor] /\ lenCursor \in 1..NumRuns
    <3>1. /\ lenCursor \in 1..NumRuns
          /\ RunStart(lenCursor) \in Nat /\ ends[lenCursor] \in Nat
          /\ RunStart(lenCursor) <= pos
          /\ copiesRemaining = ends[lenCursor] - pos
      BY <2>2, InRunFacts
    <3>. QED
      BY <3>1, <2>2, <1>1, <1>0
  <2>4. RunOf(p) = lenCursor
    BY <2>3, <1>0, RunOfIn
  <2>5. Fill(pos, n, currentValue)[p] = currentValue
    BY <1>1, <1>0 DEF Fill
  <2>. QED
    BY <2>2, <2>4, <2>5 DEF InRun, RowAt
<1>2. CASE ~(pos < p /\ p <= pos + n)
  <2>1. Fill(pos, n, currentValue)[p] = out[p]
    BY <1>2, <1>0 DEF Fill
  <2>. QED
    BY <2>1 DEF RoundTrip
<1>. QED
  BY <1>1, <1>2

\* A loop iteration that ends the call inside the current run.
LEMMA WithinRun ==
  ASSUME TypeInv, ValuesOK, InStep,
         rowsLeft < copiesRemaining,
         copiesRemaining' = copiesRemaining - rowsLeft,
         pos' = pos + rowsLeft,
         UNCHANGED <<lenCursor, valCursor, boolValue, currentValue, payload>>
  PROVE  InStep'
<1>0. TypeOK /\ pos \in Nat /\ rowsLeft \in Nat /\ Rows \in 0..MaxRows
  BY Basics DEF TypeInv
<1>1. Rows' = Rows /\ NumRuns' = NumRuns /\ ends' = ends /\ runValues' = runValues
      /\ \A k : RunStart(k)' = RunStart(k)
  BY PayloadKept
<1> SUFFICES ASSUME pos' < Rows' PROVE InRun(lenCursor)'
  BY DEF InStep
<1>2. pos < Rows
  BY <1>0, <1>1, MaxRowsAssumption
<1>3. InRun(lenCursor)
  BY <1>2 DEF InStep
<1> DEFINE k == lenCursor
<1>4. /\ k \in 1..NumRuns
      /\ RunStart(k) \in Nat /\ ends[k] \in Nat
      /\ RunStart(k) <= pos /\ pos < ends[k]
      /\ copiesRemaining = ends[k] - pos
  BY <1>0, <1>3, InRunFacts
<1>5. /\ RunStart(k) <= pos' /\ pos' < ends[k]
      /\ copiesRemaining' = ends[k] - pos'
  BY <1>4, <1>0
<1>. QED
  BY <1>1, <1>3, <1>4, <1>5 DEF InRun

\* A loop iteration that uses up the current run and fetches the next.
LEMMA EndOfRun ==
  ASSUME TypeInv, ValuesOK, InStep,
         rowsLeft >= copiesRemaining,
         pos' = pos + copiesRemaining,
         FetchRun(lenCursor, valCursor, boolValue),
         UNCHANGED payload
  PROVE  InStep'
<1>0. /\ TypeOK /\ pos \in Nat /\ copiesRemaining \in Nat /\ ends \in RunEnds
      /\ NumRuns \in 0..MaxRows /\ Rows \in 0..MaxRows
  BY Basics DEF TypeInv
<1>1. Rows' = Rows /\ NumRuns' = NumRuns /\ ends' = ends /\ runValues' = runValues
      /\ \A k : RunStart(k)' = RunStart(k)
  BY PayloadKept
<1> SUFFICES ASSUME pos' < Rows' PROVE InRun(lenCursor)'
  BY DEF InStep
<1>2. pos < Rows
  BY <1>0, <1>1, MaxRowsAssumption
<1>2a. InRun(lenCursor)
  BY <1>2 DEF InStep
<1> DEFINE k == lenCursor
<1>3. /\ k \in 1..NumRuns /\ ends[k] \in Nat
      /\ pos' = ends[k]
  <2>1. k \in 1..NumRuns /\ ends[k] \in Nat /\ copiesRemaining = ends[k] - pos
    BY <1>0, <1>2a, InRunFacts
  <2>. QED
    BY <2>1, <1>0
<1>4. k + 1 \in 1..NumRuns /\ RunStart(k + 1) = ends[k] /\ RunStart(k + 1) < ends[k + 1]
  <2>1. ends[k] < Rows
    BY <1>0, <1>1, <1>3
  <2>2. k + 1 \in 1..NumRuns /\ RunStart(k + 1) = ends[k]
    BY <2>1, <1>3, <1>0, RunStartFacts
  <2>. QED
    BY <2>2, <1>0, RunStartFacts
<1>5. k \in 0..(NumRuns - 1)
  BY <1>4, <1>3, <1>0
<1>6. ~IsBool => valCursor = k
  BY <1>2a DEF InRun
<1>7. IsBool => boolValue = runValues[k + 1]
  <2> SUFFICES ASSUME IsBool PROVE boolValue = runValues[k + 1]
    OBVIOUS
  <2>1. k \in 1..(NumRuns - 1)
    BY <1>3, <1>4, <1>0
  <2>2. runValues[k + 1] = ~runValues[k]
    BY <2>1, <1>0, BoolAlternates
  <2>. QED
    BY <2>2, <1>2a DEF InRun
<1>8. /\ lenCursor' = k + 1
      /\ copiesRemaining' = ends[k + 1] - RunStart(k + 1)
      /\ currentValue' = runValues[k + 1]
      /\ IsBool => boolValue' = ~currentValue'
      /\ ~IsBool => valCursor' = k + 1
  BY <1>5, <1>6, <1>7, FetchNextRun
<1>. QED
  BY <1>8, <1>4, <1>3, <1>1 DEF InRun


\* The first run starts at row 0 and ends at a positive row.
LEMMA FirstRun ==
  ASSUME ends \in RunEnds, 1 \in 1..NumRuns
  PROVE  RunStart(1) = 0 /\ RunStart(1) < ends[1] /\ ends[1] \in Nat
<1>1. ends \in Seq(1..MaxRows) /\ 1 \in 1..Len(ends)
  BY EndsFacts DEF NumRuns
<1>2. ends[1] \in 1..MaxRows
  BY ONLY <1>1, MaxRowsAssumption
<1>. QED
  BY <1>2, MaxRowsAssumption DEF RunStart

-----------------------------------------------------------------------------
(* The inductive invariant.                                                *)

\* The constructor's reset() leaves the decoder at row 0 of run 1.
LEMMA InitRInv == Init => RInv
<1> SUFFICES ASSUME Init PROVE RInv
  OBVIOUS
<1>1. TypeInv
  BY InitTypeInv
<1>2. TypeOK /\ PayloadOK
  BY <1>1 DEF TypeInv
<1>3. ValuesOK
  <2>1. runValues \in RunValuesFor(Len(ends))
    BY DEF Init
  <2>2. IsBool /\ Len(ends) > 0 => initialValue = runValues[1]
    <3> SUFFICES ASSUME IsBool, Len(ends) > 0 PROVE initialValue = runValues[1]
      OBVIOUS
    <3>1. initialValue \in {runValues[1]}
      BY Zenon DEF Init
    <3>. QED
      BY <3>1
  <2>. QED
    BY <2>1, <2>2 DEF ValuesOK, NumRuns
<1>4. RoundTrip
  <2>1. Rows <= MaxPos /\ Rows \in Nat /\ MaxPos \in Nat
    BY <1>2, Basics
  <2>2. \A p \in 1..Rows : out[p] = NoValue
    BY <2>1 DEF Init
  <2>. QED
    BY <2>2 DEF RoundTrip
<1>5. InStep
  <2> SUFFICES ASSUME pos < Rows PROVE InRun(lenCursor)
    BY DEF InStep
  <2>1. NumRuns \in 0..MaxRows /\ Len(runValues) = NumRuns /\ pos = 0
    BY <1>2, <1>3, ValuesLen DEF Init
  <2>2. NumRuns \in 1..MaxRows
    BY <2>1, MaxRowsAssumption DEF Rows
  <2>3. lenCursor = 1 /\ RunStart(1) = 0
    BY DEF Init, RunStart
  <2>4. RunStart(1) < ends[1] /\ ends[1] \in Nat
    <3>1. ends \in RunEnds /\ 1 \in 1..NumRuns
      BY <2>2 DEF Init
    <3>. QED
      BY <3>1, FirstRun
  <2>5. copiesRemaining = ends[1] - 0
    <3>1. runLengths[1] = ends[1] - 0 /\ 1 \in 1..Len(runLengths)
      BY <2>2, <1>2 DEF PayloadOK, LengthsOf, NumRuns
    <3>. QED
      BY <3>1 DEF Init, RunLengthRead
  <2>6. currentValue = runValues[1] /\ (IsBool => boolValue = ~currentValue)
    <3>1. CASE IsBool
      <4>1. initialValue = runValues[1]
        BY <3>1, <2>2 DEF Init, NumRuns
      <4>. QED
        BY <4>1, <3>1 DEF Init
    <3>2. CASE ~IsBool
      <4>1. currentValue \in RunValueRead(1)
        BY <3>2 DEF Init
      <4>2. RunValueRead(1) = {runValues[1]}
        BY <2>1, <2>2 DEF RunValueRead
      <4>. QED
        BY <4>1, <4>2, <3>2
    <3>. QED
      BY <3>1, <3>2
  <2>7. ~IsBool => valCursor = 1
    BY DEF Init
  <2>. QED
    BY <2>1, <2>2, <2>3, <2>4, <2>5, <2>6, <2>7 DEF InRun
<1>. QED
  BY <1>1, <1>3, <1>4, <1>5 DEF RInv

\* A step that keeps out keeps RoundTrip, the payload being unchanged.
LEMMA OutKept ==
  ASSUME RoundTrip, UNCHANGED payload, out' = out
  PROVE  RoundTrip'
<1>1. Rows' = Rows /\ \A p : RowAt(p)' = RowAt(p)
  BY PayloadKept
<1>. QED
  BY <1>1 DEF RoundTrip

\* A step whose out is the std::fill of FillRight keeps RoundTrip.
LEMMA OutFilled ==
  ASSUME TypeOK, RoundTrip, UNCHANGED payload, NEW n \in Nat,
         pos < Rows => InRun(lenCursor) /\ n <= copiesRemaining,
         out' = Fill(pos, n, currentValue)
  PROVE  RoundTrip'
<1>1. Rows' = Rows /\ \A p : RowAt(p)' = RowAt(p)
  BY PayloadKept
<1>2. \A p \in 1..Rows : Fill(pos, n, currentValue)[p] # NoValue
                          => Fill(pos, n, currentValue)[p] = RowAt(p)
  BY FillRight
<1>. QED
  BY <1>1, <1>2 DEF RoundTrip

\* reset() starts again at row 0 of run 1.
LEMMA ResetRInv ==
  ASSUME RInv, Reset
  PROVE  InStep' /\ RoundTrip'
<1>0. TypeInv /\ TypeOK /\ ValuesOK /\ RoundTrip /\ UNCHANGED payload /\ pos' = 0
  BY DEF RInv, TypeInv, Reset
<1>1. Rows' = Rows /\ NumRuns' = NumRuns /\ ends' = ends /\ runValues' = runValues
      /\ \A k : RunStart(k)' = RunStart(k)
  BY <1>0, PayloadKept
<1>2. RoundTrip'
  BY <1>0, OutKept DEF Reset
<1>3. InStep'
  <2> SUFFICES ASSUME pos' < Rows' PROVE InRun(lenCursor)'
    BY DEF InStep
  <2>1. NumRuns \in 1..MaxRows /\ Rows \in 0..MaxRows
    BY <1>0, <1>1, Basics, MaxRowsAssumption DEF Rows
  <2>2. 0 \in 0..(NumRuns - 1) /\ RunStart(1) = 0
    BY <2>1 DEF RunStart
  <2>3. IsBool => initialValue = runValues[0 + 1]
    BY <1>0, <2>1 DEF ValuesOK
  <2>4. FetchRun(0, 0, initialValue)
    BY DEF Reset
  <2>5. /\ lenCursor' = 0 + 1
        /\ copiesRemaining' = ends[0 + 1] - RunStart(0 + 1)
        /\ currentValue' = runValues[0 + 1]
        /\ IsBool => boolValue' = ~currentValue'
        /\ ~IsBool => valCursor' = 0 + 1
    BY <1>0, <2>2, <2>3, <2>4, FetchNextRun
  <2>6. RunStart(1) < ends[1] /\ ends[1] \in Nat
    <3>1. ends \in RunEnds /\ 1 \in 1..NumRuns
      BY <1>0, <2>1, Basics
    <3>. QED
      BY <3>1, FirstRun
  <2>. QED
    BY <1>0, <1>1, <2>1, <2>2, <2>5, <2>6 DEF InRun
<1>. QED
  BY <1>2, <1>3

\* One iteration of skip's loop keeps the cursors in step.
LEMMA SkipRInv ==
  ASSUME RInv, SkipStep
  PROVE  InStep' /\ RoundTrip'
<1>0. TypeInv /\ TypeOK /\ ValuesOK /\ InStep /\ RoundTrip
      /\ UNCHANGED payload /\ out' = out
  BY DEF RInv, TypeInv, SkipStep
<1>1. RoundTrip'
  BY <1>0, OutKept
<1>2. CASE /\ rowsLeft < copiesRemaining
           /\ copiesRemaining' = copiesRemaining - rowsLeft
           /\ pos' = pos + rowsLeft
           /\ UNCHANGED <<lenCursor, valCursor, boolValue, currentValue>>
  BY <1>0, <1>1, <1>2, WithinRun
<1>3. CASE /\ rowsLeft >= copiesRemaining
           /\ pos' = pos + copiesRemaining
           /\ FetchRun(lenCursor, valCursor, boolValue)
  BY <1>0, <1>1, <1>3, EndOfRun
<1>. QED
  BY <1>2, <1>3 DEF SkipStep

\* One iteration of materialize's loop keeps the cursors in step and
\* writes the rows' own value.
LEMMA MaterializeRInv ==
  ASSUME RInv, MaterializeStep
  PROVE  InStep' /\ RoundTrip'
<1>0. TypeInv /\ TypeOK /\ ValuesOK /\ InStep /\ RoundTrip /\ UNCHANGED payload
      /\ rowsLeft \in Nat /\ copiesRemaining \in Nat
  BY Basics DEF RInv, TypeInv, MaterializeStep
<1>1. CASE /\ rowsLeft < copiesRemaining
           /\ out' = Fill(pos, rowsLeft, currentValue)
           /\ copiesRemaining' = copiesRemaining - rowsLeft
           /\ pos' = pos + rowsLeft
           /\ UNCHANGED <<lenCursor, valCursor, boolValue, currentValue>>
  <2>1. InStep'
    BY <1>0, <1>1, WithinRun
  <2>2. pos < Rows => InRun(lenCursor) /\ rowsLeft <= copiesRemaining
    BY <1>0, <1>1 DEF InStep
  <2>3. RoundTrip'
    BY <1>0, <1>1, <2>2, OutFilled
  <2>. QED
    BY <2>1, <2>3
<1>2. CASE /\ rowsLeft >= copiesRemaining
           /\ out' = Fill(pos, copiesRemaining, currentValue)
           /\ pos' = pos + copiesRemaining
           /\ FetchRun(lenCursor, valCursor, boolValue)
  <2>1. InStep'
    BY <1>0, <1>2, EndOfRun
  <2>2. pos < Rows => InRun(lenCursor) /\ copiesRemaining <= copiesRemaining
    BY <1>0 DEF InStep
  <2>3. RoundTrip'
    BY <1>0, <1>2, <2>2, OutFilled
  <2>. QED
    BY <2>1, <2>3
<1>. QED
  BY <1>1, <1>2 DEF MaterializeStep

\* Every step of the decoder keeps the inductive invariant.
LEMMA NextRInv == RInv /\ [Next]_vars => RInv'
<1> SUFFICES ASSUME RInv, [Next]_vars PROVE RInv'
  OBVIOUS
<1>0. TypeInv /\ ValuesOK /\ InStep /\ RoundTrip
  BY DEF RInv
<1>1. TypeInv'
  BY <1>0, NextTypeInv
<1>2. UNCHANGED payload
  BY DEF Next, Reset, Call, SkipStep, MaterializeStep, vars, payload
<1>3. ValuesOK'
  BY <1>0, <1>2, PayloadKept
<1>4. InStep' /\ RoundTrip'
  <2>1. CASE Reset
    BY <2>1, ResetRInv
  <2>2. CASE \E n \in CallRange : Call("skip", n) \/ Call("materialize", n)
    <3>1. UNCHANGED <<lenCursor, valCursor, boolValue, copiesRemaining,
                      currentValue, pos, out>>
      BY <2>2 DEF Call
    <3>2. Rows' = Rows /\ NumRuns' = NumRuns /\ ends' = ends
          /\ runValues' = runValues /\ \A k : RunStart(k)' = RunStart(k)
      BY <1>2, PayloadKept
    <3>3. InStep'
      BY <1>0, <3>1, <3>2 DEF InStep, InRun
    <3>. QED
      BY <1>0, <1>2, <3>1, <3>3, OutKept
  <2>3. CASE SkipStep
    BY <2>3, SkipRInv
  <2>4. CASE MaterializeStep
    BY <2>4, MaterializeRInv
  <2>5. CASE UNCHANGED vars
    <3>1. UNCHANGED <<lenCursor, valCursor, boolValue, copiesRemaining,
                      currentValue, pos, out>>
      BY <2>5 DEF vars
    <3>2. Rows' = Rows /\ NumRuns' = NumRuns /\ ends' = ends
          /\ runValues' = runValues /\ \A k : RunStart(k)' = RunStart(k)
      BY <1>2, PayloadKept
    <3>3. InStep'
      BY <1>0, <3>1, <3>2 DEF InStep, InRun
    <3>. QED
      BY <1>0, <1>2, <3>1, <3>3, OutKept
  <2>. QED
    BY <2>1, <2>2, <2>3, <2>4, <2>5 DEF Next
<1>. QED
  BY <1>1, <1>3, <1>4 DEF RInv

(* Round trip, spec section 8, for every value domain, row bound and       *)
(* overrun: whatever reset(), skip(n) and materialize(n) calls are made,   *)
(* every row RLEEncodingBase::materialize writes inside the chunk is the   *)
(* row the writer encoded at that logical position.                        *)
THEOREM RoundTripHolds == Spec => []RoundTrip
<1>1. Init => RInv
  BY InitRInv
<1>2. RInv /\ [Next]_vars => RInv'
  BY NextRInv
<1>3. RInv => RoundTrip
  BY DEF RInv
<1>. QED
  BY <1>1, <1>2, <1>3, PTL DEF Spec

=============================================================================
