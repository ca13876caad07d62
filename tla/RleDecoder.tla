----------------------------- MODULE RleDecoder -----------------------------
(***************************************************************************)
(* The read side of the run-length encoding, RLEEncodingBase<T> and its    *)
(* two specialisations RLEEncoding<T> (numeric) and RLEEncoding<bool>, in  *)
(* src/alpha/encodings/RleEncoding.h and src/dwio/nimble/encodings/        *)
(* RleEncoding.cpp.                                                        *)
(*                                                                         *)
(* A decoder holds two cursors over its nested streams (the run lengths,   *)
(* materializedRunLengths_, and for numeric types the run values,          *)
(* values_), the length of the current run still to hand out               *)
(* (copiesRemaining_) and its value (currentValue_).  A caller issues      *)
(* reset(), skip(n) and materialize(n).  The while loops of skip and       *)
(* materialize are modelled one iteration per step; pc records which call *)
(* is in progress and no other call can start before it returns, as the    *)
(* encoding object is used from one thread.                                *)
(*                                                                         *)
(* The payload (what the writer's computeRuns produced) is fixed in Init.  *)
(* It is given by the ends of its runs: run k covers the logical rows      *)
(* ends[k-1]+1 .. ends[k].  ends, runValues, pos and out are ghost state:  *)
(* the rows the chunk encodes and what the caller has received so far.     *)
(***************************************************************************)
EXTENDS Naturals, Sequences

CONSTANTS
  Value,      \* the values of the column's physical type
  IsBool,     \* TRUE for RLEEncoding<bool>, FALSE for the numeric template
  MaxRows,    \* bound on the rows of one chunk
  Overrun,    \* how many rows past the end a caller may request (0: never)
  NoValue     \* marks an output row nothing has been materialized to

ASSUME ValueAssumption ==
  IsBool \in BOOLEAN /\ Value # {} /\ (IsBool => Value = BOOLEAN)
ASSUME MaxRowsAssumption == MaxRows \in Nat
ASSUME OverrunAssumption == Overrun \in Nat
ASSUME NoValueAssumption == NoValue \notin Value

VARIABLES
  ends,             \* ghost: ends[k] is the last logical row of run k
  runLengths,       \* contents of the nested run-lengths encoding
  runValues,        \* contents of the nested run-values encoding
  initialValue,     \* RLEEncoding<bool>::initialValue_, the payload's byte
  lenCursor,        \* run lengths handed out by materializedRunLengths_
  valCursor,        \* run values handed out by values_ (numeric)
  boolValue,        \* RLEEncoding<bool>::value_
  copiesRemaining,  \* copiesRemaining_
  currentValue,     \* currentValue_
  pc,               \* "idle", or the call whose loop is running
  rowsLeft,         \* the loop's local rowsLeft
  pos,              \* ghost: logical rows consumed since the last reset
  out               \* ghost: out[p] is the value last materialized for row p

vars == <<ends, runLengths, runValues, initialValue, lenCursor, valCursor,
          boolValue, copiesRemaining, currentValue, pc, rowsLeft, pos, out>>

payload == <<ends, runLengths, runValues, initialValue>>

-----------------------------------------------------------------------------
(* The payloads computeRuns can produce for at most MaxRows rows.          *)

MaxPos == MaxRows + Overrun

\* Run lengths are positive, so the ends of the runs strictly increase.
StrictlyIncreasing(e) == \A i, j \in DOMAIN e : i < j => e[i] < e[j]

RunEnds == {e \in UNION {[1..r -> 1..MaxRows] : r \in 0..MaxRows} :
              StrictlyIncreasing(e)}

NumRuns == Len(ends)

Rows == IF NumRuns = 0 THEN 0 ELSE ends[NumRuns]

\* The logical rows before run k.
RunStart(k) == IF k = 1 THEN 0 ELSE ends[k - 1]

LengthsOf(e) == [k \in 1..Len(e) |-> e[k] - (IF k = 1 THEN 0 ELSE e[k - 1])]

\* computeRuns merges equal neighbours, so adjacent runs differ in value;
\* for bool this makes the runs alternate.
RunValuesFor(r) == {v \in [1..r -> Value] :
                      \A k \in 1..r : k > 1 => v[k] # v[k - 1]}

\* The run of logical row p and the value the chunk encodes for it.
RunOf(p) == CHOOSE k \in 1..NumRuns : RunStart(k) < p /\ p <= ends[k]

RowAt(p) == runValues[RunOf(p)]

-----------------------------------------------------------------------------
(* Reading a nested stream past its end.  BufferedEncoding::nextValue is   *)
(* not bounds-checked: past the last row it hands out a stale buffer slot  *)
(* or what materializing beyond the nested encoding wrote there.  Either   *)
(* is modelled as any value of the stream's type.                          *)

GarbageRunLength == 0..MaxRows

\* Bound on the cursors of the nested streams.  It is only reached past
\* the end of a stream, where every read is garbage anyway, so a cursor
\* stays at MaxFetches rather than growing without bound.
MaxFetches == MaxRows + 2

Advance(c) == IF c < MaxFetches THEN c + 1 ELSE c

RunLengthRead(k) ==
  IF k \in 1..Len(runLengths) THEN {runLengths[k]} ELSE GarbageRunLength

RunValueRead(k) ==
  IF k \in 1..Len(runValues) THEN {runValues[k]} ELSE Value

\* RLEEncodingBase::nextValue, dispatched to the specialisation: values_
\* .nextValue() for numeric types; for bool, flip value_ and return the
\* value it held.  vc and bv are the cursor states the call starts from.
NextValue(vc, bv) ==
  IF IsBool
    THEN /\ currentValue' = bv
         /\ boolValue' = ~bv
         /\ valCursor' = vc
    ELSE /\ valCursor' = Advance(vc)
         /\ currentValue' \in RunValueRead(vc + 1)
         /\ boolValue' = bv

\* copiesRemaining_ = materializedRunLengths_.nextValue();
\* currentValue_ = nextValue();   (from cursor states lc, vc, bv)
FetchRun(lc, vc, bv) ==
  /\ lenCursor' = Advance(lc)
  /\ copiesRemaining' \in RunLengthRead(lc + 1)
  /\ NextValue(vc, bv)

\* out with rows from+1 .. from+n set to v.
Fill(from, n, v) ==
  [p \in DOMAIN out |-> IF from < p /\ p <= from + n THEN v ELSE out[p]]

-----------------------------------------------------------------------------
(* The decoder as the constructor leaves it: the payload is decoded and    *)
(* reset() has run.                                                        *)

Init ==
  /\ ends \in RunEnds
  /\ runLengths = LengthsOf(ends)
  /\ runValues \in RunValuesFor(Len(ends))
  \* getSerializedRunValues<bool> stores runValues[0]: for an empty input
  \* that is whatever byte lies there.
  /\ initialValue \in IF ~IsBool THEN {FALSE}
                      ELSE IF Len(ends) > 0 THEN {runValues[1]}
                      ELSE BOOLEAN
  \* reset() as the constructor calls it: FetchRun(0, 0, initialValue).
  /\ lenCursor = 1
  /\ copiesRemaining \in RunLengthRead(1)
  /\ valCursor = IF IsBool THEN 0 ELSE 1
  /\ currentValue \in IF IsBool THEN {initialValue} ELSE RunValueRead(1)
  /\ boolValue = IF IsBool THEN ~initialValue ELSE initialValue
  /\ pc = "idle"
  /\ rowsLeft = 0
  /\ pos = 0
  /\ out = [p \in 1..MaxPos |-> NoValue]

\* reset(): materializedRunLengths_.reset(); derived().resetValues();
\* then fetch the first run.
Reset ==
  /\ pc = "idle"
  /\ FetchRun(0, 0, initialValue)
  /\ pos' = 0
  /\ UNCHANGED <<payload, pc, rowsLeft, out>>

\* The caller's side of skip(n) and materialize(n): n rows from the
\* current position, at most Overrun of them past the end of the chunk.
CallRange == 0..(Rows + Overrun - pos)

\* Entry of skip(rowCount) / materialize(rowCount): rowsLeft = rowCount;
\* while (rowsLeft) is not entered for rowCount = 0.
Call(kind, n) ==
  /\ pc = "idle"
  /\ rowsLeft' = n
  /\ pc' = IF n = 0 THEN "idle" ELSE kind
  /\ UNCHANGED <<payload, lenCursor, valCursor, boolValue,
                 copiesRemaining, currentValue, pos, out>>

\* Mutant: skip's loop advances the run lengths but not the run value.
SkipStepStaleValue ==
  /\ pc = "skip"
  /\ \/ /\ rowsLeft < copiesRemaining
        /\ copiesRemaining' = copiesRemaining - rowsLeft
        /\ pos' = pos + rowsLeft
        /\ rowsLeft' = 0
        /\ pc' = "idle"
        /\ UNCHANGED <<lenCursor, valCursor, boolValue, currentValue>>
     \/ /\ rowsLeft >= copiesRemaining
        /\ pos' = pos + copiesRemaining
        /\ rowsLeft' = rowsLeft - copiesRemaining
        /\ pc' = IF rowsLeft' = 0 THEN "idle" ELSE "skip"
        /\ lenCursor' = Advance(lenCursor)
        /\ copiesRemaining' \in RunLengthRead(lenCursor + 1)
        /\ UNCHANGED <<valCursor, boolValue, currentValue>>
  /\ UNCHANGED <<payload, out>>

\* Mutant: materialize's loop ends a call inside a run one row late.
MaterializeStepOffByOne ==
  /\ pc = "materialize"
  /\ \/ /\ rowsLeft < copiesRemaining
        /\ out' = Fill(pos, rowsLeft + 1, currentValue)
        /\ copiesRemaining' = copiesRemaining - rowsLeft
        /\ pos' = pos + rowsLeft + 1
        /\ rowsLeft' = 0
        /\ pc' = "idle"
        /\ UNCHANGED <<lenCursor, valCursor, boolValue, currentValue>>
     \/ /\ rowsLeft >= copiesRemaining
        /\ out' = Fill(pos, copiesRemaining, currentValue)
        /\ pos' = pos + copiesRemaining
        /\ rowsLeft' = rowsLeft - copiesRemaining
        /\ pc' = IF rowsLeft' = 0 THEN "idle" ELSE "materialize"
        /\ FetchRun(lenCursor, valCursor, boolValue)
  /\ UNCHANGED payload

\* Mutant: materialize's loop does not return after ending inside a run.
MaterializeStepNoReturn ==
  /\ pc = "materialize"
  /\ \/ /\ rowsLeft < copiesRemaining
        /\ out' = Fill(pos, rowsLeft, currentValue)
        /\ copiesRemaining' = copiesRemaining - rowsLeft
        /\ pos' = pos + rowsLeft
        /\ rowsLeft' = 0
        /\ UNCHANGED <<pc, lenCursor, valCursor, boolValue, currentValue>>
     \/ /\ rowsLeft >= copiesRemaining
        /\ out' = Fill(pos, copiesRemaining, currentValue)
        /\ pos' = pos + copiesRemaining
        /\ rowsLeft' = rowsLeft - copiesRemaining
        /\ pc' = IF rowsLeft' = 0 THEN "idle" ELSE "materialize"
        /\ FetchRun(lenCursor, valCursor, boolValue)
  /\ UNCHANGED payload

\* One iteration of skip's loop.  rowsLeft < copiesRemaining_: the call
\* ends inside the current run.  Otherwise the run is used up and the
\* next one fetched; the loop ends when rowsLeft reaches 0.
SkipStep ==
  /\ pc = "skip"
  /\ \/ /\ rowsLeft < copiesRemaining
        /\ copiesRemaining' = copiesRemaining - rowsLeft
        /\ pos' = pos + rowsLeft
        /\ rowsLeft' = 0
        /\ pc' = "idle"
        /\ UNCHANGED <<lenCursor, valCursor, boolValue, currentValue>>
     \/ /\ rowsLeft >= copiesRemaining
        /\ pos' = pos + copiesRemaining
        /\ rowsLeft' = rowsLeft - copiesRemaining
        /\ pc' = IF rowsLeft' = 0 THEN "idle" ELSE "skip"
        /\ FetchRun(lenCursor, valCursor, boolValue)
  /\ UNCHANGED <<payload, out>>

\* One iteration of materialize's loop: as skip, and std::fill writes
\* currentValue_ to the output rows the iteration covers.
MaterializeStep ==
  /\ pc = "materialize"
  /\ \/ /\ rowsLeft < copiesRemaining
        /\ out' = Fill(pos, rowsLeft, currentValue)
        /\ copiesRemaining' = copiesRemaining - rowsLeft
        /\ pos' = pos + rowsLeft
        /\ rowsLeft' = 0
        /\ pc' = "idle"
        /\ UNCHANGED <<lenCursor, valCursor, boolValue, currentValue>>
     \/ /\ rowsLeft >= copiesRemaining
        /\ out' = Fill(pos, copiesRemaining, currentValue)
        /\ pos' = pos + copiesRemaining
        /\ rowsLeft' = rowsLeft - copiesRemaining
        /\ pc' = IF rowsLeft' = 0 THEN "idle" ELSE "materialize"
        /\ FetchRun(lenCursor, valCursor, boolValue)
  /\ UNCHANGED payload

Next ==
  \/ Reset
  \/ \E n \in CallRange : Call("skip", n) \/ Call("materialize", n)
  \/ SkipStep
  \/ MaterializeStep

\* The loops run on the caller's thread and never block.
Fairness == WF_vars(SkipStep) /\ WF_vars(MaterializeStep)

Spec == Init /\ [][Next]_vars /\ Fairness

-----------------------------------------------------------------------------
TypeOK ==
  /\ ends \in RunEnds
  /\ runLengths \in Seq(1..MaxRows)
  /\ runValues \in Seq(Value)
  /\ initialValue \in BOOLEAN
  /\ lenCursor \in 1..MaxFetches
  /\ valCursor \in 0..MaxFetches
  /\ boolValue \in BOOLEAN
  /\ copiesRemaining \in 0..MaxRows
  /\ currentValue \in Value
  /\ pc \in {"idle", "skip", "materialize"}
  /\ rowsLeft \in 0..MaxPos
  /\ pos \in 0..MaxPos
  /\ out \in [1..MaxPos -> Value \cup {NoValue}]

(* Round trip, spec section 8: whatever sequence of reset, skip(a) and     *)
(* materialize(b) calls the reader makes, every row materialize writes is  *)
(* the row the writer encoded at that logical position.  Breaking it takes *)
(* the run-length and run-value cursors of RLEEncodingBase::skip/          *)
(* materialize/reset getting out of step with the logical position.        *)
RoundTrip ==
  \A p \in 1..Rows : out[p] # NoValue => out[p] = RowAt(p)

(* Every skip and materialize call returns: the loops of RLEEncodingBase   *)
(* always consume rows, because every run the caller can reach has a       *)
(* positive length and rowsLeft never exceeds the rows that remain.        *)
CallsReturn == (pc # "idle") ~> (pc = "idle")

(* Spec section 4.1: materialize(n) and skip(n) fail when fewer than n     *)
(* rows remain, so no call returns with the decoder past the chunk's end.  *)
NoReadPastEnd == pc = "idle" => pos <= Rows

\* The decoder seen as the cursor of RleCursor: the column is the rows the
\* runs encode, and everything else is the decoder's own.
Cursor == INSTANCE RleCursor WITH rows <- [p \in 1..Rows |-> RowAt(p)]

(* RLEEncodingBase implements the encoding contract of spec section 4.1:   *)
(* reset() returns to row 0, each iteration of the skip and materialize    *)
(* loops consumes rows the call still owes, skip writes nothing, the       *)
(* std::fill of materialize writes exactly the rows it consumes and each   *)
(* with the column's value, and a call returns exactly when it owes no     *)
(* more rows.                                                              *)
ImplementsCursor == Cursor!Spec

=============================================================================
