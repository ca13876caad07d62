-------------------------- MODULE RleDecoderProofs --------------------------
(***************************************************************************)
(* Proofs about the run-length decoder, for every value of the constants.  *)
(***************************************************************************)
EXTENDS RleDecoder, TLAPS

-----------------------------------------------------------------------------
(* The type invariant is not inductive by itself: that pos stays within    *)
(* 0..MaxPos depends on the caller never asking for more rows than remain  *)
(* (plus Overrun), and that the run lengths are positive on the payload    *)
(* being what computeRuns produced.                                        *)

\* The rows still owed to the running call fit before the request limit.
CallWithinLimit == pos + rowsLeft <= Rows + Overrun

\* The run-lengths stream is the differences of the run ends.
PayloadOK == runLengths = LengthsOf(ends)

TypeInv == TypeOK /\ PayloadOK /\ CallWithinLimit

-----------------------------------------------------------------------------
(* Lemmas about the payload.                                               *)

\* The last run end bounds the rows: Rows is within 0..MaxRows.
LEMMA RowsBound ==
  ASSUME NEW e \in RunEnds
  PROVE  /\ Len(e) \in 0..MaxRows
         /\ (IF Len(e) = 0 THEN 0 ELSE e[Len(e)]) \in 0..MaxRows
<1>1. PICK r \in 0..MaxRows : e \in [1..r -> 1..MaxRows]
  BY DEF RunEnds
<1>2. Len(e) = r /\ e \in Seq(1..MaxRows)
  BY <1>1, MaxRowsAssumption
<1>. QED
  BY <1>1, <1>2, MaxRowsAssumption

\* The differences of strictly increasing run ends are lengths in 1..MaxRows.
LEMMA LengthsType ==
  ASSUME NEW e \in RunEnds
  PROVE  LengthsOf(e) \in Seq(1..MaxRows)
<1>1. PICK r \in 0..MaxRows : e \in [1..r -> 1..MaxRows]
  BY DEF RunEnds
<1>2. StrictlyIncreasing(e)
  BY DEF RunEnds
<1>3. Len(e) = r
  BY <1>1, MaxRowsAssumption
<1>4. \A k \in 1..r : e[k] - (IF k = 1 THEN 0 ELSE e[k - 1]) \in 1..MaxRows
  <2> TAKE k \in 1..r
  <2>1. CASE k = 1
    BY <1>1, <2>1, MaxRowsAssumption
  <2>2. CASE k # 1
    <3>1. k - 1 \in 1..r /\ k - 1 < k
      BY <2>2
    <3>2. e[k - 1] < e[k]
      BY <3>1, <1>1, <1>2 DEF StrictlyIncreasing
    <3>. QED
      BY <3>2, <2>2, <1>1, MaxRowsAssumption
  <2>. QED
    BY <2>1, <2>2
<1>. QED
  BY <1>3, <1>4, MaxRowsAssumption DEF LengthsOf

\* Reading a nested stream hands out a value of the stream's type.
LEMMA ReadsTyped ==
  ASSUME TypeOK, NEW k \in Nat
  PROVE  /\ RunLengthRead(k) \subseteq 0..MaxRows
         /\ RunValueRead(k) \subseteq Value
BY MaxRowsAssumption DEF TypeOK, RunLengthRead, RunValueRead, GarbageRunLength

\* A fetch leaves the cursors and the current run typed.
LEMMA FetchRunTyped ==
  ASSUME TypeOK,
         NEW lc \in 0..MaxFetches, NEW vc \in 0..MaxFetches,
         NEW bv \in BOOLEAN,
         FetchRun(lc, vc, bv)
  PROVE  /\ lenCursor' \in 1..MaxFetches
         /\ valCursor' \in 0..MaxFetches
         /\ boolValue' \in BOOLEAN
         /\ copiesRemaining' \in 0..MaxRows
         /\ currentValue' \in Value
<1>1. lenCursor' \in 1..MaxFetches
  BY MaxRowsAssumption DEF FetchRun, Advance, MaxFetches
<1>2. copiesRemaining' \in 0..MaxRows
  <2>1. lc + 1 \in Nat
    BY MaxRowsAssumption DEF MaxFetches
  <2>. QED
    BY <2>1, ReadsTyped DEF FetchRun
<1>3. CASE IsBool
  <2>1. currentValue' = bv /\ boolValue' = ~bv /\ valCursor' = vc
    BY <1>3 DEF FetchRun, NextValue
  <2>. QED
    BY <2>1, <1>1, <1>2, <1>3, ValueAssumption
<1>4. CASE ~IsBool
  <2>1. valCursor' = Advance(vc) /\ currentValue' \in RunValueRead(vc + 1)
        /\ boolValue' = bv
    BY <1>4 DEF FetchRun, NextValue
  <2>2. valCursor' \in 0..MaxFetches
    BY <2>1, MaxRowsAssumption DEF Advance, MaxFetches
  <2>3. vc + 1 \in Nat
    BY MaxRowsAssumption DEF MaxFetches
  <2>4. currentValue' \in Value
    BY <2>1, <2>3, ReadsTyped
  <2>. QED
    BY <2>1, <2>2, <2>4, <1>1, <1>2
<1>. QED
  BY <1>3, <1>4, ValueAssumption

\* Fill keeps the output rows typed.
LEMMA FillTyped ==
  ASSUME TypeOK, NEW from \in Nat, NEW n \in Nat, NEW v \in Value
  PROVE  Fill(from, n, v) \in [1..MaxPos -> Value \cup {NoValue}]
BY DEF TypeOK, Fill

\* A step that leaves the payload alone keeps its part of the invariant.
LEMMA PayloadStable ==
  ASSUME TypeOK, PayloadOK, UNCHANGED payload
  PROVE  /\ ends' \in RunEnds
         /\ runLengths' \in Seq(1..MaxRows)
         /\ runValues' \in Seq(Value)
         /\ initialValue' \in BOOLEAN
         /\ PayloadOK'
         /\ Rows' = Rows
<1>1. ends' = ends /\ runLengths' = runLengths /\ runValues' = runValues
      /\ initialValue' = initialValue
  BY DEF payload
<1>. QED
  BY <1>1 DEF TypeOK, PayloadOK, Rows, NumRuns

-----------------------------------------------------------------------------
LEMMA InitTypeInv == Init => TypeInv
<1> SUFFICES ASSUME Init PROVE TypeInv
  OBVIOUS
<1>1. ends \in RunEnds /\ runLengths = LengthsOf(ends)
  BY DEF Init
<1>2. runLengths \in Seq(1..MaxRows)
  BY <1>1, LengthsType
<1>3. Rows \in 0..MaxRows /\ Len(ends) \in 0..MaxRows
  BY <1>1, RowsBound DEF Rows, NumRuns
<1>4. runValues \in [1..Len(ends) -> Value] /\ runValues \in Seq(Value)
  <2>1. runValues \in [1..Len(ends) -> Value]
    BY DEF Init, RunValuesFor
  <2>. QED
    BY <2>1, <1>3
<1>5. initialValue \in BOOLEAN
  <2>1. CASE ~IsBool
    BY <2>1 DEF Init
  <2>2. CASE IsBool /\ Len(ends) > 0
    <3>1. runValues[1] \in Value
      BY <2>2, <1>4
    <3>. QED
      BY <2>2, <3>1, ValueAssumption DEF Init
  <2>3. CASE IsBool /\ ~(Len(ends) > 0)
    BY <2>3 DEF Init
  <2>. QED
    BY <2>1, <2>2, <2>3
<1>6. copiesRemaining \in 0..MaxRows
  BY <1>2, MaxRowsAssumption DEF Init, RunLengthRead, GarbageRunLength
<1>7. currentValue \in Value
  <2>1. CASE IsBool
    BY <2>1, <1>5, ValueAssumption DEF Init
  <2>2. CASE ~IsBool
    BY <2>2, <1>4 DEF Init, RunValueRead
  <2>. QED
    BY <2>1, <2>2
<1>8. valCursor \in 0..MaxFetches /\ lenCursor \in 1..MaxFetches
      /\ boolValue \in BOOLEAN
  <2>1. lenCursor = 1 /\ valCursor \in {0, 1}
        /\ boolValue \in {initialValue, ~initialValue}
    BY ValueAssumption DEF Init
  <2>2. boolValue \in BOOLEAN
    BY <2>1, <1>5, Zenon
  <2>. QED
    BY <2>1, <2>2, MaxRowsAssumption DEF MaxFetches
<1>9. out \in [1..MaxPos -> Value \cup {NoValue}] /\ pos \in 0..MaxPos
      /\ rowsLeft \in 0..MaxPos /\ pc = "idle"
  BY MaxRowsAssumption, OverrunAssumption DEF Init, MaxPos
<1>10. CallWithinLimit
  BY <1>3, OverrunAssumption DEF Init, CallWithinLimit
<1>. QED
  BY <1>1, <1>2, <1>4, <1>5, <1>6, <1>7, <1>8, <1>9, <1>10
  DEF TypeInv, TypeOK, PayloadOK

\* The part of TypeOK about the decoder's own state.
StateTyped ==
  /\ lenCursor \in 1..MaxFetches
  /\ valCursor \in 0..MaxFetches
  /\ boolValue \in BOOLEAN
  /\ copiesRemaining \in 0..MaxRows
  /\ currentValue \in Value
  /\ pc \in {"idle", "skip", "materialize"}
  /\ rowsLeft \in 0..MaxPos
  /\ pos \in 0..MaxPos
  /\ out \in [1..MaxPos -> Value \cup {NoValue}]

LEMMA NextTypeInv == TypeInv /\ [Next]_vars => TypeInv'
<1> SUFFICES ASSUME TypeInv, [Next]_vars PROVE TypeInv'
  OBVIOUS
<1>0. /\ Rows \in 0..MaxRows
      /\ TypeOK /\ PayloadOK /\ CallWithinLimit
      /\ StateTyped
  BY RowsBound DEF TypeInv, TypeOK, Rows, NumRuns, StateTyped
<1>a. /\ MaxPos \in Nat /\ MaxRows \in Nat /\ Overrun \in Nat
      /\ Rows + Overrun <= MaxPos /\ MaxRows <= MaxPos
  BY <1>0, MaxRowsAssumption, OverrunAssumption DEF MaxPos
<1> SUFFICES UNCHANGED payload /\ StateTyped' /\ CallWithinLimit'
  BY <1>0, PayloadStable DEF TypeInv, TypeOK, StateTyped
<1>1. CASE Reset
  <2>1. FetchRun(0, 0, initialValue) /\ pos' = 0
        /\ UNCHANGED <<payload, pc, rowsLeft, out>>
    BY <1>1 DEF Reset
  <2>2. /\ lenCursor' \in 1..MaxFetches /\ valCursor' \in 0..MaxFetches
        /\ boolValue' \in BOOLEAN /\ copiesRemaining' \in 0..MaxRows
        /\ currentValue' \in Value
    BY <2>1, <1>0, FetchRunTyped, MaxRowsAssumption DEF TypeOK, MaxFetches
  <2>3. Rows' = Rows /\ rowsLeft' = rowsLeft /\ pc' = pc /\ out' = out
    BY <2>1, <1>0, PayloadStable
  <2>4. rowsLeft' <= Rows' + Overrun
    BY <2>3, <1>0, <1>a DEF CallWithinLimit, StateTyped
  <2>. QED
    BY <2>1, <2>2, <2>3, <2>4, <1>0, <1>a DEF StateTyped, CallWithinLimit
<1>2. CASE \E n \in CallRange : Call("skip", n) \/ Call("materialize", n)
  <2>1. PICK n \in CallRange : Call("skip", n) \/ Call("materialize", n)
    BY <1>2
  <2>2. /\ rowsLeft' = n
        /\ pc' \in {"idle", "skip", "materialize"}
        /\ UNCHANGED <<payload, lenCursor, valCursor, boolValue,
                       copiesRemaining, currentValue, pos, out>>
    BY <2>1 DEF Call
  <2>3. Rows' = Rows
    BY <2>2, <1>0, PayloadStable
  <2>4. n \in 0..MaxPos /\ pos + n <= Rows + Overrun
    BY <1>0, <1>a DEF CallRange, StateTyped, MaxPos
  <2>. QED
    BY <2>2, <2>3, <2>4, <1>0 DEF StateTyped, CallWithinLimit
<1>3. CASE SkipStep
  <2>1. pc = "skip" /\ UNCHANGED <<payload, out>>
    BY <1>3 DEF SkipStep
  <2>2. Rows' = Rows /\ out' = out
    BY <2>1, <1>0, PayloadStable
  <2>3. CASE /\ rowsLeft < copiesRemaining
             /\ copiesRemaining' = copiesRemaining - rowsLeft
             /\ pos' = pos + rowsLeft
             /\ rowsLeft' = 0
             /\ pc' = "idle"
             /\ UNCHANGED <<lenCursor, valCursor, boolValue, currentValue>>
    BY <2>1, <2>2, <2>3, <1>0, <1>a DEF StateTyped, CallWithinLimit, MaxPos
  <2>4. CASE /\ rowsLeft >= copiesRemaining
             /\ pos' = pos + copiesRemaining
             /\ rowsLeft' = rowsLeft - copiesRemaining
             /\ pc' = IF rowsLeft' = 0 THEN "idle" ELSE "skip"
             /\ FetchRun(lenCursor, valCursor, boolValue)
    <3>1. /\ lenCursor' \in 1..MaxFetches /\ valCursor' \in 0..MaxFetches
          /\ boolValue' \in BOOLEAN /\ copiesRemaining' \in 0..MaxRows
          /\ currentValue' \in Value
      BY <2>4, <1>0, FetchRunTyped DEF StateTyped
    <3>. QED
      BY <3>1, <2>1, <2>2, <2>4, <1>0, <1>a DEF StateTyped, CallWithinLimit
  <2>. QED
    BY <1>3, <2>3, <2>4 DEF SkipStep
<1>4. CASE MaterializeStep
  <2>1. pc = "materialize" /\ UNCHANGED payload
    BY <1>4 DEF MaterializeStep
  <2>2. Rows' = Rows
    BY <2>1, <1>0, PayloadStable
  <2>3. CASE /\ rowsLeft < copiesRemaining
             /\ out' = Fill(pos, rowsLeft, currentValue)
             /\ copiesRemaining' = copiesRemaining - rowsLeft
             /\ pos' = pos + rowsLeft
             /\ rowsLeft' = 0
             /\ pc' = "idle"
             /\ UNCHANGED <<lenCursor, valCursor, boolValue, currentValue>>
    <3>1. out' \in [1..MaxPos -> Value \cup {NoValue}]
      BY <2>3, <1>0, FillTyped DEF StateTyped
    <3>. QED
      BY <3>1, <2>1, <2>2, <2>3, <1>0, <1>a DEF StateTyped, CallWithinLimit
  <2>4. CASE /\ rowsLeft >= copiesRemaining
             /\ out' = Fill(pos, copiesRemaining, currentValue)
             /\ pos' = pos + copiesRemaining
             /\ rowsLeft' = rowsLeft - copiesRemaining
             /\ pc' = IF rowsLeft' = 0 THEN "idle" ELSE "materialize"
             /\ FetchRun(lenCursor, valCursor, boolValue)
    <3>1. /\ lenCursor' \in 1..MaxFetches /\ valCursor' \in 0..MaxFetches
          /\ boolValue' \in BOOLEAN /\ copiesRemaining' \in 0..MaxRows
          /\ currentValue' \in Value
      BY <2>4, <1>0, FetchRunTyped DEF StateTyped
    <3>2. out' \in [1..MaxPos -> Value \cup {NoValue}]
      BY <2>4, <1>0, FillTyped DEF StateTyped
    <3>. QED
      BY <3>1, <3>2, <2>1, <2>2, <2>4, <1>0, <1>a
      DEF StateTyped, CallWithinLimit
  <2>. QED
    BY <1>4, <2>3, <2>4 DEF MaterializeStep
<1>5. CASE UNCHANGED vars
  <2>1. UNCHANGED payload
    BY <1>5 DEF vars, payload
  <2>2. Rows' = Rows
    BY <2>1, <1>0, PayloadStable
  <2>. QED
    BY <1>5, <2>1, <2>2, <1>0 DEF vars, StateTyped, CallWithinLimit
<1>. QED
  BY <1>1, <1>2, <1>3, <1>4, <1>5 DEF Next

(* Type correctness of the decoder: every variable of RLEEncodingBase and  *)
(* of the bool specialisation keeps its type in every reachable state,     *)
(* for every bound on the rows and every overrun the caller is allowed.    *)
THEOREM TypeCorrect == Spec => []TypeOK
<1>1. Init => TypeInv
  BY InitTypeInv
<1>2. TypeInv /\ [Next]_vars => TypeInv'
  BY NextTypeInv
<1>3. TypeInv => TypeOK
  BY DEF TypeInv
<1>. QED
  BY <1>1, <1>2, <1>3, PTL DEF Spec

=============================================================================
