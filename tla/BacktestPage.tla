----------------------------- MODULE BacktestPage -----------------------------
(***************************************************************************)
(* The page of the frontend on which backtests are created, watched and    *)
(* deleted (Backtest.tsx), against the jobs of the server.  The page asks  *)
(* for the list of jobs and for the selected one, polls what has not       *)
(* ended, and fills its form from a job that is clicked.  Any answer may   *)
(* be late or be missing.                                                  *)
(*                                                                         *)
(* The form is what the properties tell apart: the type, the start of the  *)
(* range in hours, the costs (fee, slippage and balance), and the lists of *)
(* take profits and of leverages of a grid.  None is a field that is not   *)
(* in a configuration, or a list that is empty.  A job is RUNNING, which   *)
(* stands for PENDING too, or COMPLETED, which stands for FAILED too: the  *)
(* page tells them apart only in what it writes.                           *)
(***************************************************************************)
EXTENDS Integers, FiniteSets

CONSTANTS
    Jobs,          \* ids of jobs, in the order of their creation
    Existing,      \* [1..n -> Forms]: configurations of jobs that are there first
    Form0,         \* the form as the page opens
    Edits,         \* forms the user may type
    DefaultCosts,  \* what the server names as default costs
    Zone,          \* hours of the browser's clock ahead of UTC
    MaxClicks,     \* bound: what the user does
    None

VARIABLES
    config, jobStatus,  \* the server's jobs; a status is None before the creation
    form, meta,         \* the form; have the defaults arrived
    selected,           \* the id that is selected, or None
    list, listing,      \* the list as shown, and the request for it, or None
    cache, gets,        \* what is known of each job; the requests for single jobs
    submit, deletes,    \* the request to create, or None; the requests to delete
    origin, copyOf,     \* whose copy the form is; of which job each job is a rerun
    clicks,             \* how much the user did
    told, listFailed    \* what this page was told: "created", "removed"; a list was lost

serverVars == <<config, jobStatus>>
formVars == <<form, meta, origin>>
listVars == <<list, listing, listFailed>>
detailVars == <<cache, gets>>
mutationVars == <<submit, deletes, copyOf, told>>
pageVars == <<clicks, serverVars, formVars, selected, listVars, detailVars, mutationVars>>

Rank(s) == CASE s = "RUNNING" -> 1 [] s = "COMPLETED" -> 2 [] OTHER -> 0
Alive(j) == jobStatus[j] \notin {None, "REMOVED"}

\* The answer to a request for the list: the jobs there are, newest first.
Rows == [j \in Jobs |-> IF Alive(j) THEN jobStatus[j] ELSE None]

Sent == [answer |-> None]

PageInit ==
    /\ config = [j \in Jobs |-> IF j \in DOMAIN Existing THEN Existing[j] ELSE Form0]
    /\ jobStatus = [j \in Jobs |-> IF j \in DOMAIN Existing THEN "RUNNING" ELSE None]
    /\ clicks = 0
    /\ form = Form0 /\ meta = FALSE /\ selected = None
    /\ list = None /\ listing = Sent /\ listFailed = FALSE
    /\ cache = [j \in Jobs |-> None] /\ gets = {}
    /\ submit = None /\ deletes = {}
    /\ origin = None /\ copyOf = [j \in Jobs |-> None] /\ told = [j \in Jobs |-> None]

----------------------------------------------------------------------------
(* The server.                                                             *)

JobEnds(j) ==
    /\ jobStatus[j] = "RUNNING" /\ jobStatus' = [jobStatus EXCEPT ![j] = "COMPLETED"]
    /\ UNCHANGED <<config, formVars, selected, listVars, detailVars, mutationVars>>

----------------------------------------------------------------------------
(* The form.                                                               *)

MetaArrives ==
    /\ ~meta /\ meta' = TRUE
    /\ form' = [form EXCEPT !.costs = DefaultCosts]
    /\ origin' = None
    /\ UNCHANGED <<serverVars, selected, listVars, detailVars, mutationVars>>

Edit(f) ==
    /\ form' = f /\ origin' = None
    /\ UNCHANGED <<serverVars, meta, selected, listVars, detailVars, mutationVars>>

\* An ISO time of the server is cut to the text of the field: a time in UTC.
toDatetimeLocalUtc(hour) == hour
\* The text of a field is read as a time of the browser's zone.
FromLocal(hour) == hour - Zone

\* A bug: a list of leverages that is empty is not filled in.
applyJobToForm_OldLeverages(c) ==
    LET Or(new, old) == IF new = None THEN old ELSE new
        grid == c.type = "GRID"
    IN [type |-> c.type, start |-> toDatetimeLocalUtc(c.start),
        costs |-> Or(c.costs, form.costs),
        tp |-> IF grid THEN Or(c.tp, form.tp) ELSE form.tp,
        lev |-> IF grid THEN Or(c.lev, form.lev) ELSE form.lev]

applyJobToForm(c) ==
    LET Or(new, old) == IF new = None THEN old ELSE new
        grid == c.type = "GRID"
    IN [type |-> c.type, start |-> toDatetimeLocalUtc(c.start),
        costs |-> Or(c.costs, form.costs),
        tp |-> IF grid THEN Or(c.tp, form.tp) ELSE form.tp,
        lev |-> IF grid THEN c.lev ELSE form.lev]

buildInput ==
    [form EXCEPT !.start = FromLocal(form.start),
                 !.tp = IF form.type = "GRID" THEN form.tp ELSE None,
                 !.lev = IF form.type = "GRID" THEN form.lev ELSE None]

----------------------------------------------------------------------------
(* Queries.  One request for a job is in flight at a time; its answer is   *)
(* kept under the id it was asked for.                                     *)

InFlight(j) == \E g \in gets : g.id = j
Request(j) == [id |-> j, status |-> None]

\* A job that is selected is asked for, unless it is known and recent.
Observe(j) ==
    \/ ~InFlight(j) /\ gets' = gets \cup {Request(j)}
    \/ (InFlight(j) \/ cache[j] # None) /\ UNCHANGED gets

\* A click on a row of the list.
handleSelectJob(j) ==
    /\ list # None /\ list[j] # None
    /\ form' = applyJobToForm(config[j]) /\ origin' = IF meta THEN j ELSE None
    /\ selected' = j /\ Observe(j)
    /\ UNCHANGED <<serverVars, meta, listVars, cache, mutationVars>>

\* A bug: a poll does not wait for the answer before.
Poll_Overlaps(j) ==
    /\ j = selected /\ cache[j] = "RUNNING"
    /\ gets' = gets \cup {Request(j)}
    /\ UNCHANGED <<serverVars, formVars, selected, listVars, cache, mutationVars>>

\* refetchInterval of the selected job, by its last known status.
Poll(j) ==
    /\ j = selected /\ cache[j] = "RUNNING"
    /\ ~InFlight(j)
    /\ gets' = gets \cup {Request(j)}
    /\ UNCHANGED <<serverVars, formVars, selected, listVars, cache, mutationVars>>

GetServed(g) ==
    /\ g.status = None
    /\ gets' = (gets \ {g})
                 \cup IF Alive(g.id) THEN {[g EXCEPT !.status = jobStatus[g.id]]} ELSE {}
    /\ UNCHANGED <<serverVars, formVars, selected, listVars, cache, mutationVars>>

GetAnswered(g) ==
    /\ g.status # None
    /\ cache' = [cache EXCEPT ![g.id] = g.status] /\ gets' = gets \ {g}
    /\ UNCHANGED <<serverVars, formVars, selected, listVars, mutationVars>>

GetFails(g) ==
    /\ gets' = gets \ {g}
    /\ UNCHANGED <<serverVars, formVars, selected, listVars, cache, mutationVars>>

\* refetchInterval of the list.
PollList ==
    /\ listing = None /\ list # None /\ \E j \in Jobs : list[j] = "RUNNING"
    /\ listing' = Sent
    /\ UNCHANGED <<serverVars, formVars, selected, list, listFailed, detailVars, mutationVars>>

ListServed ==
    /\ listing = Sent /\ listing' = [answer |-> Rows]
    /\ UNCHANGED <<serverVars, formVars, selected, list, listFailed, detailVars, mutationVars>>

ListAnswered ==
    /\ listing # None /\ listing.answer # None
    /\ list' = listing.answer /\ listing' = None /\ listFailed' = FALSE
    /\ UNCHANGED <<serverVars, formVars, selected, detailVars, mutationVars>>

ListFails ==
    /\ listing # None
    /\ listing' = None /\ listFailed' = TRUE
    /\ UNCHANGED <<serverVars, formVars, selected, list, detailVars, mutationVars>>

\* A bug: a list in flight is taken for the answer.
InvalidateList_Joins ==
    /\ listing' = IF listing # None THEN listing ELSE Sent
    /\ UNCHANGED <<list, listFailed>>

\* invalidateQueries: a list in flight is asked again, but for the first one.
InvalidateList ==
    /\ listing' = IF list = None /\ listing # None THEN listing ELSE Sent
    /\ UNCHANGED <<list, listFailed>>

----------------------------------------------------------------------------
(* Mutations.                                                              *)

handleSubmit ==
    /\ submit = None
    /\ submit' = [input |-> buildInput, origin |-> origin, id |-> None]
    /\ UNCHANGED <<serverVars, formVars, selected, listVars, detailVars, deletes,
                    copyOf, told>>

NextId == {j \in Jobs : jobStatus[j] = None /\ \A k \in Jobs : k < j => jobStatus[k] # None}

\* The server keeps the input as the configuration of a job.
CreateServed ==
    /\ submit # None /\ submit.id = None
    /\ \E j \in NextId :
         /\ config' = [config EXCEPT ![j] = submit.input]
         /\ jobStatus' = [jobStatus EXCEPT ![j] = "RUNNING"]
         /\ copyOf' = [copyOf EXCEPT ![j] = submit.origin]
         /\ submit' = [submit EXCEPT !.id = j]
    /\ UNCHANGED <<formVars, selected, listVars, detailVars, deletes, told>>

CreateAnswered ==
    /\ submit # None /\ submit.id # None
    /\ selected' = submit.id /\ Observe(submit.id)
    /\ InvalidateList
    /\ told' = IF list # None /\ told[submit.id] = None
                THEN [told EXCEPT ![submit.id] = "created"] ELSE told
    /\ submit' = None
    /\ UNCHANGED <<serverVars, formVars, cache, deletes, copyOf>>

\* Refused, or its answer is lost.
CreateFails ==
    /\ submit # None /\ submit' = None
    /\ UNCHANGED <<serverVars, formVars, selected, listVars, detailVars, deletes,
                    copyOf, told>>

\* The button is there when the selected job is known.
DeleteStart(j) ==
    /\ j = selected /\ cache[j] # None
    /\ deletes' = deletes \cup {[id |-> j, done |-> FALSE]}
    /\ UNCHANGED <<serverVars, formVars, selected, listVars, detailVars, submit,
                    copyOf, told>>

DeleteServed(d) ==
    /\ ~d.done /\ Alive(d.id)
    /\ jobStatus' = [jobStatus EXCEPT ![d.id] = "REMOVED"]
    /\ deletes' = (deletes \ {d}) \cup {[d EXCEPT !.done = TRUE]}
    /\ UNCHANGED <<config, formVars, selected, listVars, detailVars, submit,
                    copyOf, told>>

\* The selection is cleared, whatever is selected by now.
DeleteAnswered(d) ==
    /\ d.done
    /\ selected' = None
    /\ InvalidateList
    /\ told' = IF list # None THEN [told EXCEPT ![d.id] = "removed"] ELSE told
    /\ deletes' = deletes \ {d}
    /\ UNCHANGED <<serverVars, formVars, detailVars, submit, copyOf>>

DeleteFails(d) ==
    /\ deletes' = deletes \ {d}
    /\ UNCHANGED <<serverVars, formVars, selected, listVars, detailVars, submit,
                    copyOf, told>>

UserNext ==
    /\ clicks < MaxClicks /\ clicks' = clicks + 1
    /\ \/ \E j \in Jobs : handleSelectJob(j) \/ DeleteStart(j)
       \/ \E f \in Edits : Edit(f)
       \/ handleSubmit

PageNext ==
    \/ UserNext
    \/ /\ UNCHANGED clicks
       /\ \/ \E j \in Jobs : JobEnds(j) \/ Poll(j)
          \/ \E g \in gets : GetServed(g) \/ GetAnswered(g) \/ GetFails(g)
          \/ MetaArrives \/ PollList \/ ListServed \/ ListAnswered \/ ListFails
          \/ CreateServed \/ CreateAnswered \/ CreateFails
          \/ \E d \in deletes : DeleteServed(d) \/ DeleteAnswered(d) \/ DeleteFails(d)

PageSpec == PageInit /\ [][PageNext]_pageVars

----------------------------------------------------------------------------
Forms == [type : {"SINGLE", "GRID"}, start : Int, costs : Nat \cup {None},
          tp : Nat \cup {None}, lev : Nat \cup {None}]
Statuses == {None, "RUNNING", "COMPLETED"}

\* What the page keeps and what is in flight has its types; one request for a
\* job is in flight at a time, and a rerun comes after its job.
PageTypeOK ==
    /\ form \in Forms /\ meta \in BOOLEAN
    /\ config \in [Jobs -> Forms] /\ jobStatus \in [Jobs -> Statuses \cup {"REMOVED"}]
    /\ selected \in Jobs \cup {None} /\ origin \in Jobs \cup {None}
    /\ list = None \/ list \in [Jobs -> Statuses]
    /\ listing = None \/ listing = Sent \/ listing.answer \in [Jobs -> Statuses]
    /\ listFailed \in BOOLEAN
    /\ cache \in [Jobs -> Statuses]
    /\ gets \subseteq [id : Jobs, status : Statuses]
    /\ \A g, h \in gets : g.id = h.id => g = h
    /\ deletes \subseteq [id : Jobs, done : BOOLEAN]
    /\ submit # None => /\ submit.input \in Forms
                        /\ {submit.origin, submit.id} \subseteq Jobs \cup {None}
    /\ \A j \in Jobs : copyOf[j] # None => copyOf[j] \in Jobs /\ copyOf[j] < j
    /\ clicks \in 0 .. MaxClicks
    /\ told \in [Jobs -> {None, "created", "removed"}]

\* A job that is clicked and submitted untouched is run again with its own
\* type, costs and lists, whatever the form held before, if the defaults of
\* the server had arrived; what its configuration leaves open stays as it was.
\* Its range is off by the zone of the browser: the field is filled in UTC
\* (toDatetimeLocalUtc) and read as local time (buildInput).
RerunIsTheJob ==
    \A j \in Jobs : copyOf[j] # None =>
        LET job == config[copyOf[j]] rerun == config[j]
        IN /\ rerun.type = job.type
           /\ rerun.start = job.start - Zone
           /\ rerun.costs \in IF job.costs = None THEN Nat ELSE {job.costs}
           /\ job.type = "GRID" => /\ rerun.lev = job.lev
                                   /\ job.tp # None => rerun.tp = job.tp

\* The list that is shown, when none is asked for and the last was answered,
\* has every job this page was told of, but for those it was told are removed,
\* although lists read before may be answered after (invalidateQueries of the
\* mutations).  The first list is not asked again: it may miss a job that was
\* created before its answer.
ListIsTrue ==
    list # None /\ listing = None /\ ~listFailed =>
        \A j \in Jobs : /\ told[j] = "created" => list[j] # None \/ ~Alive(j)
                        /\ told[j] = "removed" => list[j] = None

\* No late answer takes the status of a job back: the job shown as ended is
\* polled no more, so it would stay so (refetchInterval).
ShownGoesForward ==
    \A g \in gets : g.status # None => Rank(g.status) >= Rank(cache[g.id])

\* What the page shows and sends is what the server has, however late its
\* answers are.
PageIsTrue == RerunIsTheJob /\ ListIsTrue /\ ShownGoesForward

============================================================================
