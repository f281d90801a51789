----------------------------- MODULE BacktestJobs -----------------------------
(***************************************************************************)
(* BacktestService: a job is a row, created by a request, executed after   *)
(* it, and deleted by another.  The process counts its executions; the     *)
(* count, like everything but the tables, is lost with the process.        *)
(*                                                                         *)
(* Every await is a step: the candles may fail to arrive and the row may   *)
(* be gone by then.  A replay itself is BacktestEngine's subject.          *)
(***************************************************************************)
EXTENDS Integers, FiniteSets

CONSTANTS
    Jobs,         \* the jobs that may be created
    Requests,     \* requests of the HTTP interface in flight
    Kinds,        \* of "single", "split", "grid", "gridSplit"
    TopN,         \* combinations of a grid that are run again out of sample
    MaxConcurrent,
    MaxRestarts   \* bound: starts of the process

ASSUME JobsAssumption == IsFiniteSet(Jobs)
ASSUME NumbersAssumption ==
    /\ TopN \in Nat \ {0} /\ MaxConcurrent \in Nat /\ MaxRestarts \in Nat

VARIABLES
    status,    \* job -> its status in the table, or "none", or "deleted"
    kind,      \* job -> type and sample split of its configuration
    results,   \* job -> how many batches of results are stored
    exec,      \* job -> where its execution is
    running,   \* runningCount
    req,       \* request -> where it is, and its job
    starts     \* the starts of the process so far

vars == <<status, kind, results, exec, running, req, starts>>

Idle == [at |-> "idle"]

\* The results of a job come in batches, each stored with one call; a grid
\* with a sample split stores one out-of-sample result after the other.
Batches(k) == IF k = "gridSplit" THEN 1 + TopN ELSE 1

\* Candles are fetched before the first batch, and once more for the
\* out-of-sample part of a grid.
Fetches(j) == results[j] = 0 \/ (kind[j] = "gridSplit" /\ results[j] = 1)

Init ==
    /\ status = [j \in Jobs |-> "none"]
    /\ kind \in [Jobs -> Kinds]
    /\ results = [j \in Jobs |-> 0]
    /\ exec = [j \in Jobs |-> "none"]
    /\ running = 0
    /\ req = [r \in Requests |-> Idle]
    /\ starts = 0

InTable(j) == status[j] \notin {"none", "deleted"}
Goto(j, at) == exec' = [exec EXCEPT ![j] = at]

\* Where runningCount counts an execution, and where it is alive.
Counted == {"mark", "read", "work", "complete", "fail", "finally"}
Executing == {j \in Jobs : exec[j] \in Counted}
Alive(j) == exec[j] \in {"queued"} \cup Counted

----------------------------------------------------------------------------
(* Requests.                                                               *)

Free == running < MaxConcurrent

\* create: an invalid request or a busy process is refused at once.
CreateStart(r) ==
    /\ req[r] = Idle /\ Free
    /\ \E j \in Jobs :
          /\ status[j] = "none"
          /\ \A o \in Requests : req[o] # [at |-> "insert", job |-> j]
          /\ req' = [req EXCEPT ![r] = [at |-> "insert", job |-> j]]
    /\ UNCHANGED <<status, kind, results, exec, running, starts>>

\* The row is created, and the execution is left to setImmediate.
CreateInsert(r) ==
    /\ req[r].at = "insert"
    /\ status' = [status EXCEPT ![req[r].job] = "PENDING"]
    /\ Goto(req[r].job, "queued")
    /\ req' = [req EXCEPT ![r] = Idle]
    /\ UNCHANGED <<kind, results, running, starts>>

\* remove: the row must exist when it is read, and again when it is deleted;
\* the deletion cascades to the results.
RemoveStart(r) ==
    /\ req[r] = Idle
    /\ \E j \in Jobs :
          /\ InTable(j)
          /\ req' = [req EXCEPT ![r] = [at |-> "delete", job |-> j]]
    /\ UNCHANGED <<status, kind, results, exec, running, starts>>

RemoveDelete(r) ==
    /\ req[r].at = "delete"
    /\ LET j == req[r].job IN
       IF InTable(j)
       THEN /\ status' = [status EXCEPT ![j] = "deleted"]
            /\ results' = [results EXCEPT ![j] = 0]
       ELSE UNCHANGED <<status, results>>
    /\ req' = [req EXCEPT ![r] = Idle]
    /\ UNCHANGED <<kind, exec, running, starts>>

----------------------------------------------------------------------------
(* executeJob.                                                             *)

\* Mutant: the limit is looked at again, and the job given up.
ExecStart_GivesUp(j) ==
    /\ exec[j] = "queued"
    /\ running' = IF Free THEN running + 1 ELSE running
    /\ Goto(j, IF Free THEN "mark" ELSE "over")
    /\ UNCHANGED <<status, kind, results, req, starts>>

ExecStart(j) ==
    /\ exec[j] = "queued"
    /\ running' = running + 1
    /\ Goto(j, "mark")
    /\ UNCHANGED <<status, kind, results, req, starts>>

\* An update of a row that is gone throws.
ExecMark(j) ==
    /\ exec[j] = "mark"
    /\ IF InTable(j)
       THEN status' = [status EXCEPT ![j] = "RUNNING"] /\ Goto(j, "read")
       ELSE UNCHANGED status /\ Goto(j, "fail")
    /\ UNCHANGED <<kind, results, running, req, starts>>

\* Mutant: a job that is gone ends without its finally.
ExecRead_Return(j) ==
    /\ exec[j] = "read"
    /\ Goto(j, IF InTable(j) THEN "work" ELSE "over")
    /\ UNCHANGED <<status, kind, results, running, req, starts>>

ExecRead(j) ==
    /\ exec[j] = "read"
    /\ Goto(j, IF InTable(j) THEN "work" ELSE "finally")
    /\ UNCHANGED <<status, kind, results, running, req, starts>>

\* Candles that cannot be had, or are too many, fail the job.
ExecFetchFails(j) ==
    /\ exec[j] = "work" /\ Fetches(j)
    /\ Goto(j, "fail")
    /\ UNCHANGED <<status, kind, results, running, req, starts>>

\* Mutant: a job is complete once its first batch is stored.
ExecStore_FirstOnly(j) ==
    /\ exec[j] = "work"
    /\ IF ~InTable(j)
       THEN UNCHANGED results /\ Goto(j, "fail")
       ELSE results' = [results EXCEPT ![j] = @ + 1] /\ Goto(j, "complete")
    /\ UNCHANGED <<status, kind, running, req, starts>>

\* Mutant: the loop runs once too often.
ExecStore_OneMore(j) ==
    /\ exec[j] = "work"
    /\ IF ~InTable(j)
       THEN UNCHANGED results /\ Goto(j, "fail")
       ELSE /\ results' = [results EXCEPT ![j] = @ + 1]
            /\ Goto(j, IF results[j] = Batches(kind[j]) THEN "complete" ELSE "work")
    /\ UNCHANGED <<status, kind, running, req, starts>>

\* One batch; a result of a job that is gone breaks its foreign key.
ExecStore(j) ==
    /\ exec[j] = "work"
    /\ IF ~InTable(j)
       THEN UNCHANGED results /\ Goto(j, "fail")
       ELSE /\ results' = [results EXCEPT ![j] = @ + 1]
            /\ Goto(j, IF results[j] + 1 = Batches(kind[j]) THEN "complete" ELSE "work")
    /\ UNCHANGED <<status, kind, running, req, starts>>

ExecComplete(j) ==
    /\ exec[j] = "complete"
    /\ IF InTable(j)
       THEN status' = [status EXCEPT ![j] = "COMPLETED"] /\ Goto(j, "finally")
       ELSE UNCHANGED status /\ Goto(j, "fail")
    /\ UNCHANGED <<kind, results, running, req, starts>>

\* Mutant: the catch forgets to write the status.
ExecFail_Silent(j) ==
    /\ exec[j] = "fail"
    /\ Goto(j, "finally")
    /\ UNCHANGED <<status, kind, results, running, req, starts>>

\* The catch; it throws itself when the row is gone, and finally runs anyway.
ExecFail(j) ==
    /\ exec[j] = "fail"
    /\ status' = IF InTable(j) THEN [status EXCEPT ![j] = "FAILED"] ELSE status
    /\ Goto(j, "finally")
    /\ UNCHANGED <<kind, results, running, req, starts>>

ExecFinally(j) ==
    /\ exec[j] = "finally"
    /\ running' = IF running > 0 THEN running - 1 ELSE 0
    /\ Goto(j, "over")
    /\ UNCHANGED <<status, kind, results, req, starts>>

Exec(j) ==
    \/ ExecStart(j) \/ ExecMark(j) \/ ExecRead(j) \/ ExecFetchFails(j)
    \/ ExecStore(j) \/ ExecComplete(j) \/ ExecFail(j) \/ ExecFinally(j)

\* Nothing takes up the jobs of the process before.
Restart ==
    /\ starts < MaxRestarts
    /\ starts' = starts + 1
    /\ exec' = [j \in Jobs |-> IF Alive(j) THEN "lost" ELSE exec[j]]
    /\ running' = 0
    /\ req' = [r \in Requests |-> Idle]
    /\ UNCHANGED <<status, kind, results>>

Next ==
    \/ \E r \in Requests :
          CreateStart(r) \/ CreateInsert(r) \/ RemoveStart(r) \/ RemoveDelete(r)
    \/ \E j \in Jobs : Exec(j)
    \/ Restart

Spec == Init /\ [][Next]_vars

\* A call in flight goes on: the database and the exchange answer.
FairSpec ==
    /\ Spec
    /\ \A r \in Requests : WF_vars(CreateInsert(r) \/ RemoveDelete(r))
    /\ \A j \in Jobs : WF_vars(Exec(j))

----------------------------------------------------------------------------
Ends == {"COMPLETED", "FAILED"}

TypeOK ==
    /\ status \in [Jobs -> {"none", "PENDING", "RUNNING", "deleted"} \cup Ends]
    /\ kind \in [Jobs -> Kinds]
    /\ results \in [Jobs -> 0..(1 + TopN)]
    /\ exec \in [Jobs -> {"none", "queued", "over", "lost"} \cup Counted]
    /\ running \in Nat
    /\ req \in [Requests -> {Idle} \cup [at : {"insert", "delete"}, job : Jobs]]
    /\ starts \in 0..MaxRestarts

\* The count is that of the executions under way, however they ended and
\* whatever was deleted under them: no slot leaks, none is freed twice, and
\* Math.max(0, ...) in the finally never has anything to do.
CountIsTrue == running = Cardinality(Executing)

\* What is shown as COMPLETED has all its results, in and out of sample, and
\* what was deleted has none left behind by an execution that came later.
ResultsAreWhole ==
    \A j \in Jobs :
        /\ status[j] = "COMPLETED" => results[j] = Batches(kind[j])
        /\ status[j] = "deleted" => results[j] = 0

\* A job is shown as unfinished only while its execution is under way, or for
\* good if that died with its process: nothing takes such jobs up again.
UnfinishedIsAlive ==
    \A j \in Jobs : status[j] \in {"PENDING", "RUNNING"} =>
        exec[j] = "lost" \/ (Alive(j) /\ exec[j] # "finally")

\* A job that was created ends or is deleted, unless its process dies.
JobsEnd ==
    \A j \in Jobs : status[j] = "PENDING" ~>
        status[j] \in Ends \cup {"deleted"} \/ exec[j] = "lost"

============================================================================
