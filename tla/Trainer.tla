------------------------------- MODULE Trainer -------------------------------
(***************************************************************************)
(* EncodingLayoutTrainer::train (src/dwio/alpha/tools/EncodingLayoutTrainer *)
(* .cpp): the main thread walks the schema (createTrainingTree), and for    *)
(* every stream of every node hands a task to an ExecutorBarrier.  The     *)
(* tasks run on the executor's threads, possibly while the walk goes on;   *)
(* each trains an encoding on the stream's data and inserts the layout it *)
(* gets into its node's map under the node's mutex.  waitAll waits for     *)
(* every task, and the maps are then moved into an EncodingLayoutTree.     *)
(*                                                                         *)
(* A task is <<node, stream identifier>>; the trained layout itself is    *)
(* not modelled, only under which identifier it lands.  unordered_map      *)
(* insert is a read of the map and a write of it, so that a task that      *)
(* skipped the mutex would lose another's insert.  Whether training throws *)
(* (a chunk that does not decode, an undefined scalar kind) is a           *)
(* nondeterministic outcome of the task.  ExecutorBarrier (a Velox class)  *)
(* is modelled from its contract: waitAll returns once every task added    *)
(* has run, and rethrows an exception one of them threw.                   *)
(***************************************************************************)
EXTENDS Naturals, Sequences, FiniteSets

CONSTANTS
  Nodes,        \* the schema's nodes (TrainingNodes)
  NodeStreams,  \* the stream identifiers each node trains (the _ASYNC_TRAINs)
  Order,        \* the tasks in the order createTrainingTree adds them
  Threads,      \* the executor's threads
  NoTask        \* no task holds the mutex

Tasks == UNION {{<<n, s>> : s \in NodeStreams[n]} : n \in Nodes}

ASSUME TrainerAssumption ==
  /\ NodeStreams \in [Nodes -> SUBSET Nat]
  /\ Threads \in Nat \ {0}
  /\ Order \in Seq(Tasks)
  /\ \A t \in Tasks : \E k \in 1..Len(Order) : Order[k] = t
  /\ \A j, k \in 1..Len(Order) : Order[j] = Order[k] => j = k
  /\ NoTask \notin Tasks

VARIABLES
  main,       \* "build", "wait", "done", "failed" (train threw)
  submitted,  \* how many tasks createTrainingTree has added
  task,       \* per task: "none", "queued", "running", "trained", "locked",
              \* "finished", "threw"
  holder,     \* per node: the task holding its mutex, or NoTask
  snap,       \* per task: the map as it read it, inside the lock
  layouts,    \* per node: the identifiers its encodingLayouts map holds
  result      \* per node: the map moved into the returned tree

vars == <<main, submitted, task, holder, snap, layouts, result>>

\* The tasks occupying an executor thread.
Busy == {t \in Tasks : task[t] \in {"running", "trained", "locked"}}

Init ==
  /\ main = "build"
  /\ submitted = 0
  /\ task = [t \in Tasks |-> "none"]
  /\ holder = [n \in Nodes |-> NoTask]
  /\ snap = [t \in Tasks |-> {}]
  /\ layouts = [n \in Nodes |-> {}]
  /\ result = [n \in Nodes |-> {}]

\* Lines 84-91 and 286: the walk reaches the next stream and adds its task.
Submit ==
  /\ main = "build"
  /\ submitted < Len(Order)
  /\ submitted' = submitted + 1
  /\ task' = [task EXCEPT ![Order[submitted + 1]] = "queued"]
  /\ UNCHANGED <<main, holder, snap, layouts, result>>

\* Line 282: createTrainingTree has returned the whole tree.
EndBuild ==
  /\ main = "build"
  /\ submitted = Len(Order)
  /\ main' = "wait"
  /\ UNCHANGED <<submitted, task, holder, snap, layouts, result>>

\* An executor thread takes a queued task.
Run(t) ==
  /\ task[t] = "queued"
  /\ Cardinality(Busy) < Threads
  /\ task' = [task EXCEPT ![t] = "running"]
  /\ UNCHANGED <<main, submitted, holder, snap, layouts, result>>

\* Lines 287-316: the task gathers the stream's data and trains on it; it
\* returns a layout for setLayout, or throws.
Train(t) ==
  /\ task[t] = "running"
  /\ task' \in {[task EXCEPT ![t] = "trained"], [task EXCEPT ![t] = "threw"]}
  /\ UNCHANGED <<main, submitted, holder, snap, layouts, result>>

\* A mutant of Lock: the lock_guard is left out.
LockNoMutex(t) ==
  /\ task[t] = "trained"
  /\ task' = [task EXCEPT ![t] = "locked"]
  /\ snap' = [snap EXCEPT ![t] = layouts[t[1]]]
  /\ UNCHANGED <<main, submitted, holder, layouts, result>>

\* Line 86: setLayout takes the node's mutex, and reads the map to insert.
Lock(t) ==
  /\ task[t] = "trained"
  /\ holder[t[1]] = NoTask
  /\ holder' = [holder EXCEPT ![t[1]] = t]
  /\ task' = [task EXCEPT ![t] = "locked"]
  /\ snap' = [snap EXCEPT ![t] = layouts[t[1]]]
  /\ UNCHANGED <<main, submitted, layouts, result>>

\* A mutant of Unlock: the mutex is never released.
UnlockKeepsMutex(t) ==
  /\ task[t] = "locked"
  /\ layouts' = [layouts EXCEPT ![t[1]] = snap[t] \cup {t[2]}]
  /\ task' = [task EXCEPT ![t] = "finished"]
  /\ UNCHANGED <<main, submitted, holder, snap, result>>

\* Lines 87-90: the layout is inserted under the stream's identifier and
\* the lock_guard releases the mutex; the task is done.
Unlock(t) ==
  /\ task[t] = "locked"
  /\ layouts' = [layouts EXCEPT ![t[1]] = snap[t] \cup {t[2]}]
  /\ holder' = [holder EXCEPT ![t[1]] = NoTask]
  /\ task' = [task EXCEPT ![t] = "finished"]
  /\ UNCHANGED <<main, submitted, snap, result>>

\* ExecutorBarrier::waitAll's condition: every task added has run.
AllRan == \A t \in Tasks : task[t] \in {"finished", "threw"}

\* Lines 322-324: waitAll returns; it rethrows when a task threw, and
\* otherwise the maps are moved into the tree train returns.
WaitAll ==
  /\ main = "wait"
  /\ AllRan
  /\ IF \E t \in Tasks : task[t] = "threw"
     THEN /\ main' = "failed"
          /\ UNCHANGED result
     ELSE /\ main' = "done"
          /\ result' = layouts
  /\ UNCHANGED <<submitted, task, holder, snap, layouts>>

Next ==
  \/ Submit
  \/ EndBuild
  \/ \E t \in Tasks : Run(t) \/ Train(t) \/ Lock(t) \/ Unlock(t)
  \/ WaitAll

\* The executor's threads and the main thread all keep running.
Spec == Init /\ [][Next]_vars
          /\ WF_vars(Submit) /\ WF_vars(EndBuild) /\ WF_vars(WaitAll)
          /\ \A t \in Tasks : /\ WF_vars(Run(t)) /\ WF_vars(Train(t))
                              /\ WF_vars(Lock(t)) /\ WF_vars(Unlock(t))

-----------------------------------------------------------------------------
TypeOK ==
  /\ main \in {"build", "wait", "done", "failed"}
  /\ submitted \in 0..Len(Order)
  /\ task \in [Tasks -> {"none", "queued", "running", "trained", "locked",
                         "finished", "threw"}]
  /\ holder \in [Nodes -> Tasks \cup {NoTask}]
  /\ snap \in [Tasks -> SUBSET UNION {NodeStreams[n] : n \in Nodes}]
  /\ layouts \in [Nodes -> SUBSET UNION {NodeStreams[n] : n \in Nodes}]
  /\ result \in [Nodes -> SUBSET UNION {NodeStreams[n] : n \in Nodes}]

\* A tree train returns holds a layout under every stream identifier of
\* every node and under no other: no insert of one task (two tasks share
\* an ArrayWithOffsets node) is lost to another's, and no map is moved out
\* before its tasks are done.
TreeComplete ==
  main = "done" => \A n \in Nodes : result[n] = NodeStreams[n]

\* train returns or throws: no task waits forever on a mutex or a thread,
\* and waitAll is not left waiting.
TrainingEnds == <>(main \in {"done", "failed"})

\* A task as the abstract trainer sees it: from the time an executor thread
\* takes it until it inserts its layout or throws, it is still to run.
AbsTask == [t \in Tasks |-> IF task[t] \in {"running", "trained", "locked"}
                            THEN "queued" ELSE task[t]]

Abstract == INSTANCE TrainerAbstract WITH task <- AbsTask

\* The trainer implements its contract: every step of the walk, the threads
\* and waitAll is a step of the abstract trainer, in which each task inserts
\* its layout in one indivisible step, or a stutter of it.  This is what the
\* node's mutex buys: setLayout's read and write of the map (lines 86-90)
\* behave as one insert, whatever the other tasks of the node do meanwhile.
ImplementsAbstract == Abstract!Spec

=============================================================================
