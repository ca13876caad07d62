--------------------------- MODULE TrainerAbstract ---------------------------
(***************************************************************************)
(* What EncodingLayoutTrainer::train promises, without threads or mutexes: *)
(* createTrainingTree adds the tasks in schema order; each added task, in  *)
(* one indivisible step, either inserts its layout into its node's map     *)
(* under its stream identifier (setLayout, lines 84-91 of                  *)
(* EncodingLayoutTrainer.cpp) or throws; waitAll returns once every task   *)
(* has done one or the other, rethrowing when one threw, and train returns *)
(* the maps.  Trainer refines this specification: its Run, Train and Lock  *)
(* steps are stutters here, and its Unlock is the insert.                  *)
(***************************************************************************)
EXTENDS Naturals, Sequences

CONSTANTS Nodes, NodeStreams, Order

Tasks == UNION {{<<n, s>> : s \in NodeStreams[n]} : n \in Nodes}

VARIABLES main, submitted, task, layouts, result

vars == <<main, submitted, task, layouts, result>>

Init ==
  /\ main = "build"
  /\ submitted = 0
  /\ task = [t \in Tasks |-> "none"]
  /\ layouts = [n \in Nodes |-> {}]
  /\ result = [n \in Nodes |-> {}]

\* The walk reaches the next stream and adds its task.
Submit ==
  /\ main = "build"
  /\ submitted < Len(Order)
  /\ submitted' = submitted + 1
  /\ task' = [task EXCEPT ![Order[submitted + 1]] = "queued"]
  /\ UNCHANGED <<main, layouts, result>>

\* createTrainingTree has returned.
EndBuild ==
  /\ main = "build"
  /\ submitted = Len(Order)
  /\ main' = "wait"
  /\ UNCHANGED <<submitted, task, layouts, result>>

\* A task trains and inserts its layout, atomically.
Insert(t) ==
  /\ task[t] = "queued"
  /\ task' = [task EXCEPT ![t] = "finished"]
  /\ layouts' = [layouts EXCEPT ![t[1]] = @ \cup {t[2]}]
  /\ UNCHANGED <<main, submitted, result>>

\* A task throws.
Throw(t) ==
  /\ task[t] = "queued"
  /\ task' = [task EXCEPT ![t] = "threw"]
  /\ UNCHANGED <<main, submitted, layouts, result>>

\* waitAll returns, rethrowing or handing over the maps.
WaitAll ==
  /\ main = "wait"
  /\ \A t \in Tasks : task[t] \in {"finished", "threw"}
  /\ IF \E t \in Tasks : task[t] = "threw"
     THEN main' = "failed" /\ UNCHANGED result
     ELSE main' = "done" /\ result' = layouts
  /\ UNCHANGED <<submitted, task, layouts>>

Next ==
  \/ Submit \/ EndBuild \/ WaitAll
  \/ \E t \in Tasks : Insert(t) \/ Throw(t)

Spec == Init /\ [][Next]_vars

=============================================================================
