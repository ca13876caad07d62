----------------------------- MODULE TrainerProofs -----------------------------
(***************************************************************************)
(* Proofs about the trainer, for every schema, submission order and number *)
(* of executor threads.                                                    *)
(***************************************************************************)
EXTENDS Trainer, TLAPS

\* The tasks createTrainingTree has not reached are exactly those after
\* the first submitted of Order.
SubmittedPrefix ==
  /\ \A k \in 1..Len(Order) : task[Order[k]] = "none" <=> k > submitted
  /\ main # "build" => submitted = Len(Order)

\* A node's map holds the identifiers of its finished tasks.
MapsFinished ==
  \A n \in Nodes : layouts[n] = {s \in NodeStreams[n] : task[<<n, s>>] = "finished"}

\* The mutex of a node is held by the one task of it inside setLayout, and
\* that task read the map as it stands.
MutexHeld ==
  /\ \A n \in Nodes : holder[n] # NoTask =>
        holder[n][1] = n /\ task[holder[n]] = "locked"
  /\ \A t \in Tasks : task[t] = "locked" =>
        holder[t[1]] = t /\ snap[t] = layouts[t[1]]

\* A returned tree is the maps after every task finished.
Returned ==
  main = "done" => /\ \A t \in Tasks : task[t] = "finished"
                   /\ result = layouts

IInv == TypeOK /\ SubmittedPrefix /\ MapsFinished /\ MutexHeld /\ Returned

\* A task is the pair of its node and a stream identifier of that node.
LEMMA TaskParts ==
  ASSUME NEW t \in Tasks
  PROVE  /\ t = <<t[1], t[2]>>
         /\ t[1] \in Nodes
         /\ t[2] \in NodeStreams[t[1]]
BY DEF Tasks

LEMMA PairInTasks ==
  ASSUME NEW n \in Nodes, NEW s \in NodeStreams[n]
  PROVE  <<n, s>> \in Tasks
BY DEF Tasks

LEMMA InitIInv == Init => IInv
<1> SUFFICES ASSUME Init PROVE IInv
  OBVIOUS
<1>1. TypeOK
  BY TrainerAssumption DEF Init, TypeOK
<1>2. SubmittedPrefix
  BY TrainerAssumption DEF Init, SubmittedPrefix
<1>3. MapsFinished
  BY PairInTasks DEF Init, MapsFinished
<1>4. MutexHeld
  BY DEF Init, MutexHeld
<1>. QED
  BY <1>1, <1>2, <1>3, <1>4 DEF Init, IInv, Returned
\* A step that moves one task between two states, neither of them inside
\* setLayout nor finished, and touches no mutex or map, keeps the maps and
\* the mutexes as they were described.
LEMMA QuietStep ==
  ASSUME TypeOK, MapsFinished, MutexHeld,
         NEW t \in Tasks, NEW b,
         task[t] \notin {"finished", "locked"}, b \notin {"finished", "locked"},
         task' = [task EXCEPT ![t] = b],
         UNCHANGED <<holder, snap, layouts>>
  PROVE  MapsFinished' /\ MutexHeld'
<1>1. MapsFinished'
  <2> SUFFICES ASSUME NEW n \in Nodes
               PROVE  layouts'[n] = {s \in NodeStreams[n] : task'[<<n, s>>] = "finished"}
    BY DEF MapsFinished
  <2>1. \A s \in NodeStreams[n] : task'[<<n, s>>] = "finished" <=> task[<<n, s>>] = "finished"
    BY PairInTasks DEF TypeOK
  <2>. QED
    BY <2>1 DEF MapsFinished
<1>2. MutexHeld'
  <2>1. ASSUME NEW n \in Nodes, holder'[n] # NoTask
        PROVE  holder'[n][1] = n /\ task'[holder'[n]] = "locked"
    <3>1. holder[n][1] = n /\ task[holder[n]] = "locked" /\ holder[n] \in Tasks
      BY <2>1 DEF MutexHeld, TypeOK
    <3>2. holder[n] # t
      BY <3>1
    <3>. QED
      BY <3>1, <3>2 DEF TypeOK
  <2>2. ASSUME NEW u \in Tasks, task'[u] = "locked"
        PROVE  holder'[u[1]] = u /\ snap'[u] = layouts'[u[1]]
    <3>1. u # t /\ task[u] = "locked"
      BY <2>2 DEF TypeOK
    <3>. QED
      BY <3>1 DEF MutexHeld
  <2>. QED
    BY <2>1, <2>2 DEF MutexHeld
<1>. QED
  BY <1>1, <1>2

LEMMA NextIInv == IInv /\ [Next]_vars => IInv'
<1> SUFFICES ASSUME IInv, [Next]_vars PROVE IInv'
  OBVIOUS
<1>0. TypeOK /\ SubmittedPrefix /\ MapsFinished /\ MutexHeld /\ Returned
  BY DEF IInv
<1>1. CASE Submit
  <2> DEFINE k0 == submitted + 1
             t0 == Order[k0]
  <2>1. k0 \in 1..Len(Order) /\ t0 \in Tasks /\ task[t0] = "none"
    BY <1>1, <1>0, TrainerAssumption DEF Submit, TypeOK, SubmittedPrefix, k0, t0
  <2>2. TypeOK'
    BY <1>1, <1>0, <2>1 DEF Submit, TypeOK, k0, t0
  <2>3. SubmittedPrefix'
    <3> SUFFICES ASSUME NEW k \in 1..Len(Order)
                 PROVE  task'[Order[k]] = "none" <=> k > submitted'
      BY <1>1 DEF Submit, SubmittedPrefix
    <3>1. CASE k = k0
      BY <3>1, <2>1, <1>1, <1>0 DEF Submit, TypeOK, k0, t0
    <3>2. CASE k # k0
      <4>0. Order[k] \in Tasks
        BY TrainerAssumption
      <4>1. Order[k] # t0 /\ Order[k] \in Tasks
        BY <4>0, <3>2, <2>1, TrainerAssumption, Zenon DEF k0, t0
      <4>. QED
        BY <4>1, <3>2, <1>1, <1>0 DEF Submit, TypeOK, SubmittedPrefix, k0, t0
    <3>. QED
      BY <3>1, <3>2
  <2>4. MapsFinished' /\ MutexHeld'
    <3>1. task' = [task EXCEPT ![t0] = "queued"] /\ UNCHANGED <<holder, snap, layouts>>
      BY <1>1 DEF Submit, k0, t0
    <3>2. task[t0] \notin {"finished", "locked"} /\ "queued" \notin {"finished", "locked"}
      BY <2>1
    <3>. QED
      BY <3>1, <3>2, <1>0, <2>1, QuietStep
  <2>5. Returned'
    BY <1>1 DEF Submit, Returned
  <2>. QED
    BY <2>2, <2>3, <2>4, <2>5 DEF IInv
<1>2. CASE EndBuild
  BY <1>2, <1>0 DEF EndBuild, IInv, TypeOK, SubmittedPrefix, MapsFinished,
                    MutexHeld, Returned
<1>3. ASSUME NEW t \in Tasks, Run(t) \/ Train(t) PROVE IInv'
  <2>1. PICK b \in {"running", "trained", "threw"} :
          /\ task' = [task EXCEPT ![t] = b]
          /\ task[t] \in {"queued", "running"}
          /\ UNCHANGED <<main, submitted, holder, snap, layouts, result>>
    BY <1>3 DEF Run, Train
  <2>2. TypeOK'
    BY <2>1, <1>0 DEF TypeOK
  <2>3. SubmittedPrefix'
    <3> SUFFICES ASSUME NEW k \in 1..Len(Order)
                 PROVE  task'[Order[k]] = "none" <=> k > submitted'
      BY <2>1, <1>0 DEF SubmittedPrefix
    <3>1. Order[k] \in Tasks
      BY TrainerAssumption
    <3>. QED
      BY <3>1, <2>1, <1>0 DEF TypeOK, SubmittedPrefix
  <2>4. MapsFinished' /\ MutexHeld'
    BY <2>1, <1>0, QuietStep
  <2>5. Returned'
    <3>1. main = "done" => task[t] = "finished"
      BY <1>0 DEF Returned
    <3>. QED
      BY <3>1, <2>1 DEF Returned
  <2>. QED
    BY <2>2, <2>3, <2>4, <2>5 DEF IInv
<1>4. ASSUME NEW t \in Tasks, Lock(t) PROVE IInv'
  <2> DEFINE n == t[1]
  <2>1. n \in Nodes /\ holder[n] = NoTask /\ task[t] = "trained"
    BY <1>4, TaskParts DEF Lock
  <2>2. TypeOK'
    BY <1>4, <1>0, <2>1 DEF Lock, TypeOK
  <2>3. SubmittedPrefix'
    <3> SUFFICES ASSUME NEW k \in 1..Len(Order)
                 PROVE  task'[Order[k]] = "none" <=> k > submitted'
      BY <1>4, <1>0 DEF Lock, SubmittedPrefix
    <3>1. Order[k] \in Tasks
      BY TrainerAssumption
    <3>. QED
      BY <3>1, <2>1, <1>4, <1>0 DEF Lock, TypeOK, SubmittedPrefix
  <2>4. MapsFinished'
    <3> SUFFICES ASSUME NEW m \in Nodes
                 PROVE  layouts'[m] = {s \in NodeStreams[m] : task'[<<m, s>>] = "finished"}
      BY DEF MapsFinished
    <3>1. \A s \in NodeStreams[m] : task'[<<m, s>>] = "finished" <=> task[<<m, s>>] = "finished"
      BY <1>4, <1>0, <2>1, PairInTasks DEF Lock, TypeOK
    <3>. QED
      BY <3>1, <1>4, <1>0 DEF Lock, MapsFinished
  <2>5. MutexHeld'
    <3>1. ASSUME NEW m \in Nodes, holder'[m] # NoTask
          PROVE  holder'[m][1] = m /\ task'[holder'[m]] = "locked"
      <4>1. CASE m = n
        BY <4>1, <1>4, <1>0 DEF Lock, TypeOK
      <4>2. CASE m # n
        <5>1. holder[m] # NoTask /\ holder'[m] = holder[m]
          BY <4>2, <3>1, <1>4, <1>0 DEF Lock, TypeOK
        <5>2. holder[m][1] = m /\ task[holder[m]] = "locked" /\ holder[m] \in Tasks
          BY <5>1, <1>0 DEF MutexHeld, TypeOK
        <5>. QED
          BY <5>1, <5>2, <2>1, <1>4, <1>0 DEF Lock, TypeOK
      <4>. QED
        BY <4>1, <4>2
    <3>2. ASSUME NEW u \in Tasks, task'[u] = "locked"
          PROVE  holder'[u[1]] = u /\ snap'[u] = layouts'[u[1]]
      <4>1. CASE u = t
        BY <4>1, <1>4, <1>0, <2>1 DEF Lock, TypeOK
      <4>2. CASE u # t
        <5>1. task[u] = "locked"
          BY <4>2, <3>2, <1>4, <1>0 DEF Lock, TypeOK
        <5>2. holder[u[1]] = u /\ snap[u] = layouts[u[1]] /\ u[1] \in Nodes
          BY <5>1, <1>0, TaskParts DEF MutexHeld
        <5>3. u[1] # n
          BY <5>2, <2>1, TrainerAssumption
        <5>. QED
          BY <5>2, <5>3, <4>2, <1>4, <1>0 DEF Lock, TypeOK
      <4>. QED
        BY <4>1, <4>2
    <3>. QED
      BY <3>1, <3>2 DEF MutexHeld
  <2>6. Returned'
    <3>1. main = "done" => task[t] = "finished"
      BY <1>0 DEF Returned
    <3>. QED
      BY <3>1, <2>1, <1>4 DEF Lock, Returned
  <2>. QED
    BY <2>2, <2>3, <2>4, <2>5, <2>6 DEF IInv
<1>5. ASSUME NEW t \in Tasks, Unlock(t) PROVE IInv'
  <2> DEFINE n == t[1]
  <2>1. /\ n \in Nodes /\ t[2] \in NodeStreams[n] /\ t = <<n, t[2]>>
        /\ task[t] = "locked" /\ holder[n] = t /\ snap[t] = layouts[n]
    BY <1>5, <1>0, TaskParts DEF Unlock, MutexHeld
  <2>2. TypeOK'
    BY <1>5, <1>0, <2>1 DEF Unlock, TypeOK
  <2>3. SubmittedPrefix'
    <3> SUFFICES ASSUME NEW k \in 1..Len(Order)
                 PROVE  task'[Order[k]] = "none" <=> k > submitted'
      BY <1>5, <1>0 DEF Unlock, SubmittedPrefix
    <3>1. Order[k] \in Tasks
      BY TrainerAssumption
    <3>. QED
      BY <3>1, <2>1, <1>5, <1>0 DEF Unlock, TypeOK, SubmittedPrefix
  <2>4. MapsFinished'
    <3> SUFFICES ASSUME NEW m \in Nodes
                 PROVE  layouts'[m] = {s \in NodeStreams[m] : task'[<<m, s>>] = "finished"}
      BY DEF MapsFinished
    <3>1. CASE m = n
      <4>1. \A s \in NodeStreams[m] :
              task'[<<m, s>>] = "finished" <=> (task[<<m, s>>] = "finished" \/ s = t[2])
        BY <3>1, <2>1, <1>5, <1>0, PairInTasks DEF Unlock, TypeOK
      <4>2. layouts'[m] = layouts[m] \cup {t[2]}
        BY <3>1, <2>1, <1>5, <1>0 DEF Unlock, TypeOK
      <4>. QED
        BY <4>1, <4>2, <3>1, <2>1, <1>0 DEF MapsFinished
    <3>2. CASE m # n
      <4>1. \A s \in NodeStreams[m] : task'[<<m, s>>] = task[<<m, s>>]
        BY <3>2, <2>1, <1>5, <1>0, PairInTasks DEF Unlock, TypeOK
      <4>2. layouts'[m] = layouts[m]
        BY <3>2, <1>5, <1>0 DEF Unlock, TypeOK
      <4>. QED
        BY <4>1, <4>2, <1>0 DEF MapsFinished
    <3>. QED
      BY <3>1, <3>2
  <2>5. MutexHeld'
    <3>1. ASSUME NEW m \in Nodes, holder'[m] # NoTask
          PROVE  holder'[m][1] = m /\ task'[holder'[m]] = "locked"
      <4>1. m # n /\ holder'[m] = holder[m] /\ holder[m] # NoTask
        BY <3>1, <1>5, <1>0, <2>1 DEF Unlock, TypeOK
      <4>2. holder[m][1] = m /\ task[holder[m]] = "locked" /\ holder[m] \in Tasks
        BY <4>1, <1>0 DEF MutexHeld, TypeOK
      <4>3. holder[m] # t
        BY <4>1, <4>2
      <4>. QED
        BY <4>1, <4>2, <4>3, <1>5, <1>0 DEF Unlock, TypeOK
    <3>2. ASSUME NEW u \in Tasks, task'[u] = "locked"
          PROVE  holder'[u[1]] = u /\ snap'[u] = layouts'[u[1]]
      <4>1. u # t /\ task[u] = "locked"
        BY <3>2, <1>5, <1>0 DEF Unlock, TypeOK
      <4>2. holder[u[1]] = u /\ snap[u] = layouts[u[1]] /\ u[1] \in Nodes
        BY <4>1, <1>0, TaskParts DEF MutexHeld
      <4>3. u[1] # n
        BY <4>1, <4>2, <2>1
      <4>. QED
        BY <4>2, <4>3, <1>5, <1>0 DEF Unlock, TypeOK
    <3>. QED
      BY <3>1, <3>2 DEF MutexHeld
  <2>6. Returned'
    <3>1. main # "done"
      BY <2>1, <1>0 DEF Returned
    <3>. QED
      BY <3>1, <1>5 DEF Unlock, Returned
  <2>. QED
    BY <2>2, <2>3, <2>4, <2>5, <2>6 DEF IInv
<1>6. CASE WaitAll
  <2>1. TypeOK'
    BY <1>6, <1>0 DEF WaitAll, TypeOK
  <2>2. Returned'
    BY <1>6, <1>0 DEF WaitAll, AllRan, Returned
  <2>. QED
    BY <1>6, <1>0, <2>1, <2>2 DEF WaitAll, IInv, SubmittedPrefix, MapsFinished,
                                  MutexHeld
<1>7. CASE UNCHANGED vars
  BY <1>7, <1>0 DEF vars, IInv, TypeOK, SubmittedPrefix, MapsFinished,
                    MutexHeld, Returned
<1>. QED
  BY <1>1, <1>2, <1>3, <1>4, <1>5, <1>6, <1>7 DEF Next

\* Whatever the schema, the order of the walk, the number of executor
\* threads and the interleaving of the tasks, a tree train returns holds a
\* layout under exactly the stream identifiers of each of its nodes.
THEOREM TrainedTreeComplete == Spec => []TreeComplete
<1>1. Init => IInv
  BY InitIInv
<1>2. IInv /\ [Next]_vars => IInv'
  BY NextIInv
<1>3. IInv => TreeComplete
  <2> SUFFICES ASSUME IInv, main = "done", NEW n \in Nodes
               PROVE  result[n] = NodeStreams[n]
    BY DEF TreeComplete
  <2>1. \A s \in NodeStreams[n] : task[<<n, s>>] = "finished"
    BY PairInTasks DEF IInv, Returned
  <2>. QED
    BY <2>1 DEF IInv, Returned, MapsFinished
<1>. QED
  BY <1>1, <1>2, <1>3, PTL DEF Spec

\* The trainer's state stays typed.
THEOREM TypeCorrect == Spec => []TypeOK
<1>1. Init => IInv
  BY InitIInv
<1>2. IInv /\ [Next]_vars => IInv'
  BY NextIInv
<1>. QED
  BY <1>1, <1>2, PTL DEF Spec, IInv

-----------------------------------------------------------------------------
(* Refinement: the trainer implements TrainerAbstract under AbsTask.        *)

\* The abstract view of a one-task status change.
LEMMA AbsTaskUpdate ==
  ASSUME TypeOK, NEW t \in Tasks, NEW b, task' = [task EXCEPT ![t] = b]
  PROVE  AbsTask' = [AbsTask EXCEPT ![t] = IF b \in {"running", "trained", "locked"}
                                           THEN "queued" ELSE b]
BY DEF AbsTask, TypeOK

\* A status change between two states the abstract trainer does not tell
\* apart is a stutter of it.
LEMMA AbsStutter ==
  ASSUME TypeOK, NEW t \in Tasks, NEW b,
         task[t] \in {"queued", "running", "trained", "locked"},
         b \in {"running", "trained", "locked"},
         task' = [task EXCEPT ![t] = b],
         UNCHANGED <<main, submitted, layouts, result>>
  PROVE  UNCHANGED Abstract!vars
<1>1. AbsTask' = AbsTask
  BY AbsTaskUpdate DEF AbsTask, TypeOK
<1>. QED
  BY <1>1 DEF Abstract!vars

LEMMA InitRefines == Init => Abstract!Init
BY DEF Init, Abstract!Init, AbsTask, Abstract!Tasks, Tasks

LEMMA NextRefines == IInv /\ [Next]_vars => [Abstract!Next]_Abstract!vars
<1> SUFFICES ASSUME IInv, [Next]_vars PROVE [Abstract!Next]_Abstract!vars
  OBVIOUS
<1>0. TypeOK /\ MutexHeld /\ Abstract!Tasks = Tasks
  BY DEF IInv, Abstract!Tasks, Tasks
<1>1. CASE Submit
  <2> DEFINE t0 == Order[submitted + 1]
  <2>1. t0 \in Tasks /\ task[t0] = "none"
    <3>1. submitted + 1 \in 1..Len(Order)
      BY <1>1, <1>0 DEF Submit, TypeOK
    <3>2. t0 \in Tasks
      BY <3>1, TrainerAssumption DEF t0
    <3>3. SubmittedPrefix
      BY DEF IInv
    <3>. QED
      BY <3>1, <3>2, <3>3, <1>0 DEF SubmittedPrefix, TypeOK, t0
  <2>2. AbsTask' = [AbsTask EXCEPT ![t0] = "queued"]
    BY <1>1, <1>0, <2>1, AbsTaskUpdate DEF Submit, t0
  <2>. QED
    BY <2>2, <1>1 DEF Submit, Abstract!Submit, Abstract!Next, t0
<1>2. CASE EndBuild
  BY <1>2 DEF EndBuild, Abstract!EndBuild, Abstract!Next, AbsTask
<1>3. ASSUME NEW t \in Tasks, Run(t) PROVE [Abstract!Next]_Abstract!vars
  BY <1>3, <1>0, AbsStutter DEF Run
<1>4. ASSUME NEW t \in Tasks, Train(t) PROVE [Abstract!Next]_Abstract!vars
  <2>1. CASE task' = [task EXCEPT ![t] = "trained"]
    BY <2>1, <1>4, <1>0, AbsStutter DEF Train
  <2>2. CASE task' = [task EXCEPT ![t] = "threw"]
    <3>1. AbsTask' = [AbsTask EXCEPT ![t] = "threw"] /\ AbsTask[t] = "queued"
      BY <2>2, <1>4, <1>0, AbsTaskUpdate DEF Train, AbsTask, TypeOK
    <3>2. Abstract!Throw(t)
      BY <3>1, <1>4 DEF Train, Abstract!Throw
    <3>. QED
      BY <3>2, <1>0 DEF Abstract!Next
  <2>. QED
    BY <2>1, <2>2, <1>4 DEF Train
<1>5. ASSUME NEW t \in Tasks, Lock(t) PROVE [Abstract!Next]_Abstract!vars
  BY <1>5, <1>0, AbsStutter DEF Lock
<1>6. ASSUME NEW t \in Tasks, Unlock(t) PROVE [Abstract!Next]_Abstract!vars
  <2>1. task[t] = "locked" /\ snap[t] = layouts[t[1]]
    BY <1>6, <1>0 DEF Unlock, MutexHeld
  <2>2. AbsTask' = [AbsTask EXCEPT ![t] = "finished"] /\ AbsTask[t] = "queued"
    BY <2>1, <1>6, <1>0, AbsTaskUpdate DEF Unlock, AbsTask, TypeOK
  <2>3. layouts' = [layouts EXCEPT ![t[1]] = layouts[t[1]] \cup {t[2]}]
    BY <2>1, <1>6 DEF Unlock
  <2>4. Abstract!Insert(t)
    BY <2>2, <2>3, <1>6 DEF Unlock, Abstract!Insert
  <2>. QED
    BY <2>4, <1>0 DEF Abstract!Next
<1>7. CASE WaitAll
  <2>1. AbsTask' = AbsTask
    BY <1>7 DEF WaitAll, AbsTask
  <2>2. \A t \in Tasks : (AbsTask[t] \in {"finished", "threw"} <=> task[t] \in {"finished", "threw"})
                         /\ (AbsTask[t] = "threw" <=> task[t] = "threw")
    BY <1>0 DEF AbsTask, TypeOK
  <2>3. Abstract!WaitAll
    BY <2>1, <2>2, <1>7, <1>0 DEF WaitAll, AllRan, Abstract!WaitAll
  <2>. QED
    BY <2>3 DEF Abstract!Next
<1>8. CASE UNCHANGED vars
  BY <1>8 DEF vars, Abstract!vars, AbsTask
<1>. QED
  BY <1>1, <1>2, <1>3, <1>4, <1>5, <1>6, <1>7, <1>8 DEF Next

\* The trainer implements the abstract trainer, in which every task's
\* insert into its node's map is one indivisible step: for every schema,
\* walk order and number of executor threads, the mutex makes setLayout's
\* read and write of the map act as one insert.
THEOREM Refinement == Spec => ImplementsAbstract
<1>1. Init => IInv /\ Abstract!Init
  BY InitIInv, InitRefines
<1>2. IInv /\ [Next]_vars => IInv' /\ [Abstract!Next]_Abstract!vars
  BY NextIInv, NextRefines
<1>. QED
  BY <1>1, <1>2, PTL DEF Spec, ImplementsAbstract, Abstract!Spec

====
