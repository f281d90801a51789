-------------------------- MODULE BacktestJobsProofs --------------------------
(***************************************************************************)
(* The invariants of BacktestJobs for any number of jobs, requests and     *)
(* restarts.  They are inductive only together, with two facts more: a job *)
(* that no request has inserted yet has no execution, and the results      *)
(* stored so far are those of the place the execution has reached.         *)
(***************************************************************************)
EXTENDS BacktestJobs, FiniteSetTheorems, TLAPS

Inserts(r, j) == req[r] = [at |-> "insert", job |-> j]

Born ==
    /\ \A j \in Jobs : status[j] = "none" => exec[j] = "none"
    /\ \A r \in Requests, j \in Jobs : Inserts(r, j) =>
          /\ status[j] = "none"
          /\ \A o \in Requests : Inserts(o, j) => o = r

Stored ==
    \A j \in Jobs :
        /\ status[j] \in {"none", "deleted"} => results[j] = 0
        /\ exec[j] \in {"none", "queued", "mark", "read"} => results[j] = 0
        /\ exec[j] = "work" => results[j] < Batches(kind[j])
        /\ exec[j] = "complete" /\ InTable(j) => results[j] = Batches(kind[j])
        /\ status[j] = "COMPLETED" =>
              exec[j] \in {"finally", "over", "lost"} /\ results[j] = Batches(kind[j])

Inv == TypeOK /\ CountIsTrue /\ Born /\ Stored /\ UnfinishedIsAlive

----------------------------------------------------------------------------
\* How one execution that moves changes the number of executions under way.
LEMMA Counting ==
    ASSUME exec \in [Jobs -> {"none", "queued", "over", "lost"} \cup Counted],
           NEW j \in Jobs, NEW at, exec' = [exec EXCEPT ![j] = at]
    PROVE  /\ Cardinality(Executing) \in Nat
           /\ exec[j] \in Counted /\ at \in Counted =>
                 Cardinality(Executing') = Cardinality(Executing)
           /\ exec[j] \notin Counted /\ at \notin Counted =>
                 Cardinality(Executing') = Cardinality(Executing)
           /\ exec[j] \notin Counted /\ at \in Counted =>
                 Cardinality(Executing') = Cardinality(Executing) + 1
           /\ exec[j] \in Counted /\ at \notin Counted =>
                 /\ Cardinality(Executing) > 0
                 /\ Cardinality(Executing') = Cardinality(Executing) - 1
<1>1. IsFiniteSet(Executing)
  BY JobsAssumption, FS_Subset DEF Executing
<1>2. Cardinality(Executing) \in Nat
  BY <1>1, FS_CardinalityType
<1>3. ASSUME exec[j] \in Counted <=> at \in Counted
      PROVE  Executing' = Executing
  BY <1>3 DEF Executing, Counted
<1>4. ASSUME exec[j] \notin Counted, at \in Counted
      PROVE  Cardinality(Executing') = Cardinality(Executing) + 1
  <2>1. Executing' = Executing \cup {j} /\ j \notin Executing
    BY <1>4 DEF Executing, Counted
  <2> QED
    BY <2>1, <1>1, FS_AddElement
<1>5. ASSUME exec[j] \in Counted, at \notin Counted
      PROVE  /\ Cardinality(Executing) > 0
             /\ Cardinality(Executing') = Cardinality(Executing) - 1
  <2>1. Executing' = Executing \ {j} /\ j \in Executing
    BY <1>5 DEF Executing, Counted
  <2>2. Executing # {}
    BY <2>1
  <2>3. Cardinality(Executing) # 0
    BY <2>2, <1>1, FS_EmptySet
  <2> QED
    BY <2>1, <2>3, <1>1, <1>2, FS_RemoveElement
<1> QED
  BY <1>2, <1>3, <1>4, <1>5

----------------------------------------------------------------------------
\* A process that has just started, with empty tables, satisfies it.
LEMMA InitInv == Init => Inv
<1> SUFFICES ASSUME Init PROVE Inv
  OBVIOUS
<1>1. TypeOK /\ Born /\ Stored /\ UnfinishedIsAlive
  BY NumbersAssumption, SMT
  DEF Init, TypeOK, Born, Stored, UnfinishedIsAlive, Inserts, Idle, InTable, Alive,
      Counted, Ends, Batches
<1>2. Executing = {}
  BY DEF Init, Executing, Counted
<1>3. CountIsTrue
  BY <1>2, FS_EmptySet DEF Init, CountIsTrue
<1> QED
  BY <1>1, <1>3 DEF Inv

\* A request touches no execution but the one it creates.
LEMMA RequestKeepsInv ==
    ASSUME Inv, NEW r \in Requests,
           CreateStart(r) \/ CreateInsert(r) \/ RemoveStart(r) \/ RemoveDelete(r)
    PROVE  Inv'
<1> USE DEF Inv
<1>1. CASE CreateStart(r)
  <2>1. UNCHANGED Executing
    BY <1>1 DEF CreateStart, Executing
  <2>2. TypeOK' /\ Stored' /\ UnfinishedIsAlive'
    BY <1>1 DEF CreateStart, TypeOK, Stored, UnfinishedIsAlive, InTable, Alive
  <2>3. Born'
    BY <1>1, SMT DEF CreateStart, Born, Inserts, TypeOK, Idle
  <2> QED
    BY <2>1, <2>2, <2>3, <1>1 DEF CountIsTrue, CreateStart
<1>2. CASE CreateInsert(r)
  <2> DEFINE j == req[r].job
  <2>1. j \in Jobs /\ Inserts(r, j)
    BY <1>2, SMT DEF CreateInsert, TypeOK, Idle, Inserts
  <2>2. status[j] = "none" /\ exec[j] = "none"
    BY <2>1, SMT DEF Born
  <2>3. status' = [status EXCEPT ![j] = "PENDING"] /\ exec' = [exec EXCEPT ![j] = "queued"]
    BY <1>2 DEF CreateInsert, Goto
  <2>4. TypeOK'
    BY <1>2, <2>1, <2>3, SMT DEF CreateInsert, TypeOK, Idle
  <2>5. CountIsTrue'
    <3>1. exec[j] \notin Counted /\ "queued" \notin Counted
      BY <2>2 DEF Counted
    <3>2. Cardinality(Executing') = Cardinality(Executing)
      BY <3>1, <2>1, <2>3, Counting DEF TypeOK
    <3> QED
      BY <3>2, <1>2 DEF CountIsTrue, CreateInsert
  <2>6. Born'
    <3>1. req' = [req EXCEPT ![r] = Idle]
      BY <1>2 DEF CreateInsert
    <3>2. \A o \in Requests : ~(o # r /\ Inserts(o, j))
      BY <2>1, SMT DEF Born
    <3> QED
      BY <2>1, <2>3, <3>1, <3>2, SMT DEF Born, Inserts, TypeOK, Idle
  <2>7. Stored'
    BY <1>2, <2>1, <2>2, <2>3, SMT DEF CreateInsert, TypeOK, Stored, InTable, Batches
  <2>8. UnfinishedIsAlive'
    BY <2>1, <2>3, SMT DEF TypeOK, UnfinishedIsAlive, Alive, Counted
  <2> QED
    BY <2>4, <2>5, <2>6, <2>7, <2>8
<1>3. CASE RemoveStart(r)
  <2>1. UNCHANGED Executing
    BY <1>3 DEF RemoveStart, Executing
  <2>2. TypeOK' /\ Stored' /\ UnfinishedIsAlive'
    BY <1>3 DEF RemoveStart, TypeOK, Stored, UnfinishedIsAlive, InTable, Alive
  <2>3. Born'
    BY <1>3, SMT DEF RemoveStart, Born, Inserts, TypeOK, Idle
  <2> QED
    BY <2>1, <2>2, <2>3, <1>3 DEF CountIsTrue, RemoveStart
<1>4. CASE RemoveDelete(r)
  <2>1. UNCHANGED Executing
    BY <1>4 DEF RemoveDelete, Executing
  <2>2. req[r].job \in Jobs
    BY <1>4, SMT DEF RemoveDelete, TypeOK, Idle
  <2>3. TypeOK'
    BY <1>4, <2>2, NumbersAssumption, SMT DEF RemoveDelete, TypeOK, Idle
  <2>4. Stored'
    BY <1>4, <2>2, NumbersAssumption, SMT
    DEF RemoveDelete, TypeOK, Stored, InTable, Batches
  <2>5. UnfinishedIsAlive'
    BY <1>4, <2>2, SMT DEF RemoveDelete, TypeOK, UnfinishedIsAlive, Alive
  <2>6. Born'
    BY <1>4, <2>2, SMT DEF RemoveDelete, Born, Inserts, TypeOK, Idle, InTable
  <2> QED
    BY <2>1, <2>3, <2>4, <2>5, <2>6, <1>4 DEF CountIsTrue, RemoveDelete
<1> QED
  BY <1>1, <1>2, <1>3, <1>4

\* An execution moves alone, and touches no request.
LEMMA ExecutionKeepsInv ==
    ASSUME Inv, NEW j \in Jobs, Exec(j)
    PROVE  Inv'
<1> USE DEF Inv
<1>0. UNCHANGED <<kind, req, starts>>
  BY DEF Exec, ExecStart, ExecMark, ExecRead, ExecFetchFails, ExecStore, ExecComplete,
         ExecFail, ExecFinally
<1>a. CountIsTrue /\ running \in Nat
  BY DEF TypeOK
<1>b. exec \in [Jobs -> {"none", "queued", "over", "lost"} \cup Counted]
  BY DEF TypeOK
<1>1. CASE ExecStart(j)
  <2>1. exec' = [exec EXCEPT ![j] = "mark"] /\ running' = running + 1
    BY <1>1 DEF ExecStart, Goto
  <2>2. exec[j] \notin Counted /\ "mark" \in Counted
    BY <1>1 DEF ExecStart, Counted
  <2>3. Cardinality(Executing') = Cardinality(Executing) + 1
    BY <2>1, <2>2, <1>b, Counting
  <2>4. CountIsTrue'
    BY <2>1, <2>3, <1>a DEF CountIsTrue
  <2>5. TypeOK' /\ Stored'
    BY <1>0, <1>1, <2>1, SMT DEF ExecStart, TypeOK, Stored, InTable, Counted
  <2>6. UnfinishedIsAlive' /\ Born'
    BY <1>0, <1>1, <2>1, <1>b, SMT
    DEF ExecStart, UnfinishedIsAlive, Born, Inserts, Alive, Counted
  <2> QED
    BY <2>4, <2>5, <2>6
<1>2. CASE ExecMark(j)
  <2>1. \E at \in {"read", "fail"} : exec' = [exec EXCEPT ![j] = at]
    BY <1>2 DEF ExecMark, Goto
  <2>2. CountIsTrue'
    <3>1. PICK at \in {"read", "fail"} : exec' = [exec EXCEPT ![j] = at]
      BY <2>1
    <3>2. exec[j] \in Counted /\ at \in Counted /\ UNCHANGED running
      BY <1>2 DEF ExecMark, Counted
    <3>3. Cardinality(Executing') = Cardinality(Executing)
      BY <3>1, <3>2, <1>b, Counting
    <3> QED
      BY <3>2, <3>3, <1>a DEF CountIsTrue
  <2>3. TypeOK' /\ Stored'
    BY <1>0, <1>2, SMT DEF ExecMark, Goto, TypeOK, Stored, InTable, Counted
  <2>4. UnfinishedIsAlive' /\ Born'
    BY <1>0, <1>2, <1>b, SMT
    DEF ExecMark, Goto, TypeOK, UnfinishedIsAlive, Born, Inserts, Alive, Counted, InTable
  <2> QED
    BY <2>2, <2>3, <2>4
<1>3. CASE ExecRead(j)
  <2>2. CountIsTrue'
    <3>1. PICK at \in {"work", "finally"} : exec' = [exec EXCEPT ![j] = at]
      BY <1>3 DEF ExecRead, Goto
    <3>2. exec[j] \in Counted /\ at \in Counted /\ UNCHANGED running
      BY <1>3 DEF ExecRead, Counted
    <3>3. Cardinality(Executing') = Cardinality(Executing)
      BY <3>1, <3>2, <1>b, Counting
    <3> QED
      BY <3>2, <3>3, <1>a DEF CountIsTrue
  <2>3. TypeOK' /\ Stored'
    BY <1>0, <1>3, NumbersAssumption, SMT
    DEF ExecRead, Goto, TypeOK, Stored, InTable, Counted, Batches
  <2>4. UnfinishedIsAlive' /\ Born'
    BY <1>0, <1>3, <1>b, SMT
    DEF ExecRead, Goto, TypeOK, UnfinishedIsAlive, Born, Inserts, Alive, Counted, InTable
  <2> QED
    BY <2>2, <2>3, <2>4
<1>4. CASE ExecFetchFails(j)
  <2>2. CountIsTrue'
    <3>1. exec' = [exec EXCEPT ![j] = "fail"] /\ UNCHANGED running
      BY <1>4 DEF ExecFetchFails, Goto
    <3>2. exec[j] \in Counted /\ "fail" \in Counted
      BY <1>4 DEF ExecFetchFails, Counted
    <3>3. Cardinality(Executing') = Cardinality(Executing)
      BY <3>1, <3>2, <1>b, Counting
    <3> QED
      BY <3>1, <3>3, <1>a DEF CountIsTrue
  <2>3. TypeOK' /\ Stored'
    BY <1>0, <1>4, SMT DEF ExecFetchFails, Goto, TypeOK, Stored, InTable, Counted
  <2>4. UnfinishedIsAlive' /\ Born'
    BY <1>0, <1>4, <1>b, SMT
    DEF ExecFetchFails, Goto, TypeOK, UnfinishedIsAlive, Born, Inserts, Alive, Counted
  <2> QED
    BY <2>2, <2>3, <2>4
<1>5. CASE ExecStore(j)
  <2>2. CountIsTrue'
    <3>1. PICK at \in {"fail", "complete", "work"} : exec' = [exec EXCEPT ![j] = at]
      BY <1>5 DEF ExecStore, Goto
    <3>2. exec[j] \in Counted /\ at \in Counted /\ UNCHANGED running
      BY <1>5 DEF ExecStore, Counted
    <3>3. Cardinality(Executing') = Cardinality(Executing)
      BY <3>1, <3>2, <1>b, Counting
    <3> QED
      BY <3>2, <3>3, <1>a DEF CountIsTrue
  <2>3. results[j] < Batches(kind[j]) /\ results[j] \in Nat
    BY <1>5, NumbersAssumption, SMT DEF ExecStore, Stored, TypeOK
  <2>4. Batches(kind[j]) \in 1..(1 + TopN)
    BY NumbersAssumption, SMT DEF Batches
  <2>5. TypeOK'
    BY <1>0, <1>5, <2>3, <2>4, NumbersAssumption, SMT DEF ExecStore, Goto, TypeOK, Counted
  <2>6. Stored'
    BY <1>0, <1>5, <2>3, <2>4, NumbersAssumption, SMT
    DEF ExecStore, Goto, TypeOK, Stored, InTable, Counted, Batches
  <2>7. UnfinishedIsAlive' /\ Born'
    BY <1>0, <1>5, <1>b, SMT
    DEF ExecStore, Goto, TypeOK, UnfinishedIsAlive, Born, Inserts, Alive, Counted
  <2> QED
    BY <2>2, <2>5, <2>6, <2>7
<1>6. CASE ExecComplete(j)
  <2>2. CountIsTrue'
    <3>1. PICK at \in {"finally", "fail"} : exec' = [exec EXCEPT ![j] = at]
      BY <1>6 DEF ExecComplete, Goto
    <3>2. exec[j] \in Counted /\ at \in Counted /\ UNCHANGED running
      BY <1>6 DEF ExecComplete, Counted
    <3>3. Cardinality(Executing') = Cardinality(Executing)
      BY <3>1, <3>2, <1>b, Counting
    <3> QED
      BY <3>2, <3>3, <1>a DEF CountIsTrue
  <2>3. TypeOK' /\ Stored'
    BY <1>0, <1>6, SMT DEF ExecComplete, Goto, TypeOK, Stored, InTable, Counted, Ends
  <2>4. UnfinishedIsAlive' /\ Born'
    BY <1>0, <1>6, <1>b, SMT
    DEF ExecComplete, Goto, TypeOK, UnfinishedIsAlive, Born, Inserts, Alive, Counted, InTable
  <2> QED
    BY <2>2, <2>3, <2>4
<1>7. CASE ExecFail(j)
  <2>2. CountIsTrue'
    <3>1. exec' = [exec EXCEPT ![j] = "finally"] /\ UNCHANGED running
      BY <1>7 DEF ExecFail, Goto
    <3>2. exec[j] \in Counted /\ "finally" \in Counted
      BY <1>7 DEF ExecFail, Counted
    <3>3. Cardinality(Executing') = Cardinality(Executing)
      BY <3>1, <3>2, <1>b, Counting
    <3> QED
      BY <3>1, <3>3, <1>a DEF CountIsTrue
  <2>3. TypeOK' /\ Stored'
    BY <1>0, <1>7, SMT DEF ExecFail, Goto, TypeOK, Stored, InTable, Counted, Ends
  <2>4. UnfinishedIsAlive' /\ Born'
    BY <1>0, <1>7, <1>b, SMT
    DEF ExecFail, Goto, TypeOK, UnfinishedIsAlive, Born, Inserts, Alive, Counted, InTable
  <2> QED
    BY <2>2, <2>3, <2>4
<1>8. CASE ExecFinally(j)
  <2>1. exec' = [exec EXCEPT ![j] = "over"]
    BY <1>8 DEF ExecFinally, Goto
  <2>2. exec[j] \in Counted /\ "over" \notin Counted
    BY <1>8 DEF ExecFinally, Counted
  <2>3. /\ Cardinality(Executing) > 0
        /\ Cardinality(Executing') = Cardinality(Executing) - 1
    BY <2>1, <2>2, <1>b, Counting
  <2>4. running' = running - 1 /\ running' \in Nat
    BY <2>3, <1>8, <1>a, SMT DEF ExecFinally, CountIsTrue
  <2>5. CountIsTrue'
    BY <2>3, <2>4, <1>a DEF CountIsTrue
  <2>6. TypeOK' /\ Stored'
    BY <1>0, <1>8, <2>1, <2>4, SMT DEF ExecFinally, TypeOK, Stored, InTable, Counted
  <2>7. UnfinishedIsAlive' /\ Born'
    BY <1>0, <1>8, <2>1, <1>b, SMT
    DEF ExecFinally, UnfinishedIsAlive, Born, Inserts, Alive, Counted
  <2> QED
    BY <2>5, <2>6, <2>7
<1> QED
  BY <1>1, <1>2, <1>3, <1>4, <1>5, <1>6, <1>7, <1>8 DEF Exec

\* A restart forgets all executions at once, and the requests with them.
LEMMA RestartKeepsInv == Inv /\ Restart => Inv'
<1> SUFFICES ASSUME Inv, Restart PROVE Inv'
  OBVIOUS
<1> USE DEF Inv
<1>1. \A j \in Jobs : exec'[j] \notin Counted
  BY SMT DEF Restart, Alive, Counted
<1>2. Executing' = {}
  BY <1>1 DEF Executing
<1>3. CountIsTrue'
  BY <1>2, FS_EmptySet DEF Restart, CountIsTrue
<1>4. TypeOK'
  BY NumbersAssumption, SMT DEF Restart, TypeOK, Alive, Counted, Idle
<1>5. Stored'
  BY SMT DEF Restart, TypeOK, Stored, Alive, InTable, Counted
<1>6. UnfinishedIsAlive' /\ Born'
  BY SMT DEF Restart, TypeOK, UnfinishedIsAlive, Born, Inserts, Alive, Counted, Idle
<1> QED
  BY <1>3, <1>4, <1>5, <1>6

----------------------------------------------------------------------------
\* The invariant holds in every state of every run.
THEOREM JobsInv == Spec => []Inv
<1>1. Inv /\ [Next]_vars => Inv'
  <2> SUFFICES ASSUME Inv, [Next]_vars PROVE Inv'
    OBVIOUS
  <2>1. CASE UNCHANGED vars
    BY <2>1 DEF vars, Inv, TypeOK, CountIsTrue, Executing, Born, Inserts, Stored,
                InTable, UnfinishedIsAlive, Alive
  <2>2. CASE Next
    BY <2>2, RequestKeepsInv, ExecutionKeepsInv, RestartKeepsInv DEF Next
  <2> QED
    BY <2>1, <2>2
<1> QED
  BY InitInv, <1>1, PTL DEF Spec

\* Jobs, their executions and the requests keep their types in every interleaving
\* of requests, executions and restarts; a job is never without a status.
THEOREM JobsAreWellTyped == Spec => []TypeOK
<1>1. Inv => TypeOK
  BY DEF Inv
<1> QED
  BY JobsInv, <1>1, PTL

\* runningCount is the number of executions under way, however many jobs are
\* created, fail, are deleted while they run, or are lost in a restart.
THEOREM JobsAreCounted == Spec => []CountIsTrue
<1>1. Inv => CountIsTrue
  BY DEF Inv
<1> QED
  BY JobsInv, <1>1, PTL

\* A COMPLETED job has all its batches of results, a deleted one has none.
THEOREM CompletedJobsAreWhole == Spec => []ResultsAreWhole
<1>1. Inv => ResultsAreWhole
  BY DEF Inv, Stored, ResultsAreWhole
<1> QED
  BY JobsInv, <1>1, PTL

\* An unfinished job has an execution under way, or lost its own in a restart.
THEOREM NoJobIsForgotten == Spec => []UnfinishedIsAlive
<1>1. Inv => UnfinishedIsAlive
  BY DEF Inv
<1> QED
  BY JobsInv, <1>1, PTL

============================================================================
