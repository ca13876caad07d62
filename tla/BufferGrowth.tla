---------------------------- MODULE BufferGrowth ----------------------------
(***************************************************************************)
(* DefaultInputBufferGrowthPolicy::getExtendedCapacity                     *)
(* (src/dwio/nimble/velox/BufferGrowthPolicy.cpp), driven by a buffer that *)
(* keeps asking for room: each call replaces the buffer's capacity with    *)
(* the policy's answer.                                                    *)
(*                                                                         *)
(* The policy is a minimum capacity and an ordered map from a size         *)
(* threshold to a growth factor.  A factor is a double in the code; here   *)
(* it is an exact fraction [num, den], and the growing capacity is the     *)
(* fraction extNum / extDen, so that floor() is integer division.  The     *)
(* factors the configurations use (2.0, 1.5) are exact in a double, and so *)
(* are their products over the sizes checked.                              *)
(*                                                                         *)
(* The multiply loop of lines 32-34 is one step per iteration (GrowStep),  *)
(* so that a loop that never ends is a behaviour TLC can exhibit.          *)
(***************************************************************************)
EXTENDS Naturals, FiniteSets

CONSTANTS
  MinCapacity,   \* minCapacity_
  RangeConfigs,  \* rangeConfigs_: threshold -> [num, den]
  MaxSize        \* the largest size a caller requests

ASSUME ConfigAssumption ==
  /\ MinCapacity \in Nat
  /\ MaxSize \in Nat \ {0}
  /\ DOMAIN RangeConfigs \subseteq Nat
  /\ \A t \in DOMAIN RangeConfigs :
        RangeConfigs[t] \in [num : Nat, den : Nat \ {0}]

VARIABLES
  capacity,      \* the buffer's capacity, as last returned by the policy
  maxRequested,  \* ghost: the largest size ever requested
  pc,            \* "idle", or "grow" inside the multiply loop
  newSize,       \* the argument of the running call
  oldCapacity,   \* ghost: the capacity argument of the running call
  factor,        \* iter->second of the running call
  extNum,        \* extendedCapacity = extNum / extDen
  extDen

vars == <<capacity, maxRequested, pc, newSize, oldCapacity, factor,
          extNum, extDen>>

Thresholds == DOMAIN RangeConfigs

\* std::max of two sizes.
MaxOf(a, b) == IF a >= b THEN a ELSE b

\* rangeConfigs_.upper_bound(n) == begin(): every threshold exceeds n.
NoRangeFor(n) == \A t \in Thresholds : t > n

\* Lines 17 and 23: --upper_bound(n) is the range whose threshold t is the
\* largest one <= n.
IsRangeFor(t, n) == t <= n /\ \A u \in Thresholds : u <= n => u <= t

\* The configurations under which every answer covers its request: a
\* request below every threshold is answered by minCapacity_ (line 19).
ValidConfig == \E t \in Thresholds : t <= MinCapacity + 1

\* The caller asks for n rows of room and stores what the policy returns.
Init ==
  /\ capacity = 0
  /\ maxRequested = 0
  /\ pc = "idle"
  /\ newSize = 0
  /\ oldCapacity = 0
  /\ factor = [num |-> 1, den |-> 1]
  /\ extNum = 0
  /\ extDen = 1

\* A mutant of ShortCircuitResult: the short circuit hands back the request.
ShortCircuitToRequest(n, c) == n

\* Lines 13-15: newSize <= capacity returns the capacity as it is.
ShortCircuitResult(n, c) == c

\* A mutant of ExtendedCapacityStart: the loop starts from the capacity alone.
StartFromCapacity(c) == c

\* Line 31: the loop starts from max(capacity, minCapacity_).
ExtendedCapacityStart(c) == MaxOf(c, MinCapacity)

\* A mutant of LoopContinues: the loop stops one row short.
LoopContinuesOffByOne(num, den, n) == num < (n - 1) * den

\* Line 32: extendedCapacity < newSize, for extendedCapacity = num / den.
LoopContinues(num, den, n) == num < n * den

\* Lines 9-31: the call up to the loop.  The two early returns replace the
\* capacity at once; otherwise the loop starts with the factor of the range
\* that holds newSize.
Request(n) ==
  /\ pc = "idle"
  /\ maxRequested' = MaxOf(maxRequested, n)
  /\ newSize' = n
  /\ oldCapacity' = capacity
  /\ \/ /\ n <= capacity
        /\ capacity' = ShortCircuitResult(n, capacity)
        /\ UNCHANGED <<pc, factor, extNum, extDen>>
     \/ /\ n > capacity
        /\ NoRangeFor(n)
        /\ capacity' = MinCapacity
        /\ UNCHANGED <<pc, factor, extNum, extDen>>
     \/ /\ n > capacity
        /\ ~NoRangeFor(n)
        /\ pc' = "grow"
        /\ \E t \in Thresholds : IsRangeFor(t, n) /\ factor' = RangeConfigs[t]
        /\ extNum' = ExtendedCapacityStart(capacity)
        /\ extDen' = 1
        /\ UNCHANGED capacity

\* Lines 32-34: one iteration of extendedCapacity *= iter->second.  Zero
\* has the one representation 0/1, as the double 0.0 has one value.
GrowStep ==
  /\ pc = "grow"
  /\ LoopContinues(extNum, extDen, newSize)
  /\ extNum' = extNum * factor.num
  /\ extDen' = IF extNum' = 0 THEN 1 ELSE extDen * factor.den
  /\ UNCHANGED <<capacity, maxRequested, pc, newSize, oldCapacity, factor>>

\* Line 35: the loop is done; floor(extendedCapacity) becomes the capacity.
Finish ==
  /\ pc = "grow"
  /\ ~LoopContinues(extNum, extDen, newSize)
  /\ capacity' = extNum \div extDen
  /\ pc' = "idle"
  /\ UNCHANGED <<maxRequested, newSize, oldCapacity, factor, extNum, extDen>>

Next ==
  \/ \E n \in 1..MaxSize : Request(n)
  \/ GrowStep
  \/ Finish

\* A call runs on the caller's thread without blocking: its loop keeps going.
Spec == Init /\ [][Next]_vars /\ WF_vars(GrowStep) /\ WF_vars(Finish)

-----------------------------------------------------------------------------
TypeOK ==
  /\ capacity \in Nat
  /\ maxRequested \in 0..MaxSize
  /\ pc \in {"idle", "grow"}
  /\ newSize \in 0..MaxSize
  /\ oldCapacity \in Nat
  /\ factor \in [num : Nat, den : Nat \ {0}]
  /\ extNum \in Nat
  /\ extDen \in Nat \ {0}

\* Whenever no call is running, the buffer holds every size it was ever
\* asked for: each getExtendedCapacity answer is at least the requested size
\* (spec section 8), across a whole sequence of calls and both early returns.
CapacityCoversRequests == pc = "idle" => capacity >= maxRequested

\* A call to getExtendedCapacity never returns less than the capacity it was
\* given (spec section 8): no answer of the short circuit, of the minCapacity_
\* return or of the loop shrinks the buffer.
CapacityNeverShrinks == [][pc' = "idle" => capacity' >= oldCapacity']_vars

\* Every call returns: the multiply loop of lines 32-34 ends.
CallsReturn == (pc = "grow") ~> (pc = "idle")

=============================================================================
