------------------------- MODULE BufferGrowthProofs -------------------------
(***************************************************************************)
(* Proofs about the buffer growth policy, for every configuration whose    *)
(* lowest threshold is at most minCapacity_ + 1 (ValidConfig).             *)
(***************************************************************************)
EXTENDS BufferGrowth, TLAPS

\* While the loop runs, the request is the largest one so far and exceeds
\* the capacity it was called with, which the buffer still holds.
CallInvariant ==
  /\ pc = "idle" => capacity >= maxRequested /\ capacity >= oldCapacity
  /\ pc = "grow" => /\ newSize = maxRequested
                    /\ newSize > oldCapacity
                    /\ capacity = oldCapacity

IInv == TypeOK /\ CallInvariant

\* floor(a / d) >= b when a >= b * d.
LEMMA DivBound ==
  ASSUME NEW a \in Nat, NEW b \in Nat, NEW d \in Nat \ {0}, a >= b * d
  PROVE  a \div d >= b
<1>1. a = d * (a \div d) + (a % d) /\ (a % d) \in 0..(d - 1)
  OBVIOUS
<1>2. a \div d \in Nat
  OBVIOUS
<1>. QED
  BY <1>1, <1>2, SMT

\* Under ValidConfig a request below every threshold fits in minCapacity_.
LEMMA NoRangeFits ==
  ASSUME ValidConfig, NEW n \in Nat, NoRangeFor(n)
  PROVE  n <= MinCapacity
BY ConfigAssumption DEF ValidConfig, NoRangeFor, Thresholds

LEMMA InitIInv == Init => IInv
BY ConfigAssumption DEF Init, IInv, TypeOK, CallInvariant

LEMMA NextIInv == ValidConfig /\ IInv /\ [Next]_vars => IInv'
<1> SUFFICES ASSUME ValidConfig, IInv, [Next]_vars PROVE IInv'
  OBVIOUS
<1>0. TypeOK /\ CallInvariant
  BY DEF IInv
<1>1. ASSUME NEW n \in 1..MaxSize, Request(n) PROVE IInv'
  <2>1. /\ pc = "idle" /\ maxRequested' = MaxOf(maxRequested, n)
        /\ newSize' = n /\ oldCapacity' = capacity
    BY <1>1 DEF Request
  <2>2. capacity >= maxRequested /\ maxRequested \in 0..MaxSize
        /\ capacity \in Nat
    BY <2>1, <1>0 DEF CallInvariant, TypeOK
  <2>3. CASE n <= capacity /\ capacity' = ShortCircuitResult(n, capacity)
             /\ UNCHANGED <<pc, factor, extNum, extDen>>
    BY <2>1, <2>2, <2>3, <1>0, ConfigAssumption
    DEF ShortCircuitResult, MaxOf, IInv, TypeOK, CallInvariant
  <2>4. CASE n > capacity /\ NoRangeFor(n) /\ capacity' = MinCapacity
             /\ UNCHANGED <<pc, factor, extNum, extDen>>
    <3>1. n <= MinCapacity
      BY <2>4, NoRangeFits
    <3>. QED
      BY <3>1, <2>1, <2>2, <2>4, <1>0, ConfigAssumption
      DEF MaxOf, IInv, TypeOK, CallInvariant
  <2>5. CASE /\ n > capacity /\ ~NoRangeFor(n) /\ pc' = "grow"
             /\ \E t \in Thresholds : IsRangeFor(t, n) /\ factor' = RangeConfigs[t]
             /\ extNum' = ExtendedCapacityStart(capacity)
             /\ extDen' = 1
             /\ UNCHANGED capacity
    <3>1. factor' \in [num : Nat, den : Nat \ {0}]
      BY <2>5, ConfigAssumption DEF Thresholds
    <3>2. extNum' \in Nat
      BY <2>5, <2>2, ConfigAssumption DEF ExtendedCapacityStart, MaxOf
    <3>. QED
      BY <3>1, <3>2, <2>1, <2>2, <2>5, <1>0
      DEF MaxOf, IInv, TypeOK, CallInvariant
  <2>. QED
    BY <1>1, <2>3, <2>4, <2>5 DEF Request
<1>2. CASE GrowStep
  <2>1. factor \in [num : Nat, den : Nat \ {0}] /\ extNum \in Nat
        /\ extDen \in Nat \ {0}
    BY <1>0 DEF TypeOK
  <2>2. extNum' \in Nat /\ extDen' \in Nat \ {0}
    BY <1>2, <2>1 DEF GrowStep
  <2>. QED
    BY <1>2, <2>2, <1>0 DEF GrowStep, IInv, TypeOK, CallInvariant
<1>3. CASE Finish
  <2>1. extNum \in Nat /\ extDen \in Nat \ {0} /\ newSize \in Nat
        /\ extNum >= newSize * extDen
    BY <1>3, <1>0 DEF Finish, LoopContinues, TypeOK
  <2>2. capacity' >= newSize /\ capacity' \in Nat
    BY <1>3, <2>1, DivBound DEF Finish
  <2>. QED
    BY <1>3, <2>2, <1>0 DEF Finish, IInv, TypeOK, CallInvariant
<1>4. CASE UNCHANGED vars
  BY <1>4, <1>0 DEF vars, IInv, TypeOK, CallInvariant
<1>. QED
  BY <1>1, <1>2, <1>3, <1>4 DEF Next

\* Every getExtendedCapacity answer the buffer keeps covers every request
\* made of it, for every configuration whose lowest threshold is at most
\* minCapacity_ + 1.
THEOREM CoversRequests ==
  ASSUME ValidConfig PROVE Spec => []CapacityCoversRequests
<1>1. Init => IInv
  BY InitIInv
<1>2. IInv /\ [Next]_vars => IInv'
  BY NextIInv
<1>3. IInv => CapacityCoversRequests
  BY DEF IInv, CallInvariant, CapacityCoversRequests
<1>. QED
  BY <1>1, <1>2, <1>3, PTL DEF Spec

\* No getExtendedCapacity call shrinks the buffer below the capacity it was
\* given, under the same configurations.
THEOREM NeverShrinks ==
  ASSUME ValidConfig PROVE Spec => CapacityNeverShrinks
<1>1. Init => IInv
  BY InitIInv
<1>2. IInv /\ [Next]_vars => IInv'
  BY NextIInv
<1>3. IInv /\ [Next]_vars => [pc' = "idle" => capacity' >= oldCapacity']_vars
  BY <1>2 DEF IInv, CallInvariant
<1>. QED
  BY <1>1, <1>2, <1>3, PTL DEF Spec, CapacityNeverShrinks

\* The policy's state stays typed under every configuration it accepts.
THEOREM TypeCorrect == ASSUME ValidConfig PROVE Spec => []TypeOK
<1>1. Init => IInv
  BY InitIInv
<1>2. IInv /\ [Next]_vars => IInv'
  BY NextIInv
<1>. QED
  BY <1>1, <1>2, PTL DEF Spec, IInv
=============================================================================
