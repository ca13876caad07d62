------------------------------ MODULE RleCursor ------------------------------
(***************************************************************************)
(* What an encoding promises its reader (spec section 4.1), without runs:  *)
(* a cursor over the chunk's column of values.  reset() returns to         *)
(* position 0; skip(n) advances the position by n and writes nothing;      *)
(* materialize(n) writes the next n values of the column to the output     *)
(* and advances by n.  A call is carried out in pieces, each consuming     *)
(* some of the rows the call still owes, and the call returns when it owes *)
(* none.  A caller may ask for up to Overrun rows past the end of the      *)
(* column; what is written there is some value of the column's type, and   *)
(* nothing more is promised of it.                                          *)
(*                                                                         *)
(* RleDecoder refines this specification: its loop iterations are the     *)
(* pieces, and the column is the rows its runs encode.                     *)
(***************************************************************************)
EXTENDS Naturals, Sequences

CONSTANTS
  Value,    \* the values of the column's type
  MaxRows,  \* bound: the rows of a chunk
  Overrun,  \* bound: the rows a call may ask for past the end
  NoValue   \* an output slot nothing has written

VARIABLES
  rows,      \* the column the chunk encodes
  pc,        \* "idle", or the call in progress: "skip" or "materialize"
  rowsLeft,  \* the rows the call in progress still owes
  pos,       \* the position: the rows consumed since reset()
  out        \* the output buffer, by logical row

vars == <<rows, pc, rowsLeft, pos, out>>

OutSize == MaxRows + Overrun

Init ==
  /\ rows \in UNION {[1..r -> Value] : r \in 0..MaxRows}
  /\ pc = "idle"
  /\ rowsLeft = 0
  /\ pos = 0
  /\ out = [p \in 1..OutSize |-> NoValue]

\* reset(): back to position 0.
Reset ==
  /\ pc = "idle"
  /\ pos' = 0
  /\ UNCHANGED <<rows, pc, rowsLeft, out>>

\* skip(n) or materialize(n) is called; a call of 0 rows returns at once.
Call(kind, n) ==
  /\ pc = "idle"
  /\ rowsLeft' = n
  /\ pc' = IF n = 0 THEN "idle" ELSE kind
  /\ UNCHANGED <<rows, pos, out>>

\* The output after materializing rows from + 1 .. from + m: the column's
\* value at each of them inside the column, a value of the type past it,
\* and every other slot as it was.
Written(from, m) ==
  /\ DOMAIN out' = DOMAIN out
  /\ \A p \in DOMAIN out :
        IF from < p /\ p <= from + m
          THEN /\ out'[p] \in Value
               /\ p <= Len(rows) => out'[p] = rows[p]
          ELSE out'[p] = out[p]

\* A piece of the call in progress consumes m of the rows it owes.
Consume(m) ==
  /\ pc # "idle"
  /\ pos' = pos + m
  /\ rowsLeft' = rowsLeft - m
  /\ pc' = IF rowsLeft' = 0 THEN "idle" ELSE pc
  /\ IF pc = "materialize" THEN Written(pos, m) ELSE out' = out
  /\ UNCHANGED rows

Next ==
  \/ Reset
  \/ \E n \in 0..(Len(rows) + Overrun - pos) :
        Call("skip", n) \/ Call("materialize", n)
  \/ \E m \in 0..rowsLeft : Consume(m)

Spec == Init /\ [][Next]_vars

=============================================================================
