------------------------------- MODULE Backtests -------------------------------
(***************************************************************************)
(* The parts of a backtest besides the life of its job: what a job         *)
(* computes from, what it computes, and the page that shows jobs.  They    *)
(* share no state: a behaviour is one of one of them, and the others stay  *)
(* as they begin.                                                          *)
(***************************************************************************)
EXTENDS BacktestCosts

CONSTANTS
    None,
    \* BacktestSamples
    SampleJobs, Start, Ends, Splits, Grids, Horizon, Limit, MaxPages, MaxKlines,
    MaxCombinations, TopN, CacheLife, MaxScore, Missing,
    \* BacktestPage
    Jobs, Existing, Form0, Edits, DefaultCosts, Zone, MaxClicks

VARIABLES
    part,
    \* BacktestSamples
    now, klines, job,
    \* BacktestPage
    config, jobStatus, form, meta, selected, list, listing, cache, gets,
    submit, deletes, origin, copyOf, told, listFailed, clicks

Samples == INSTANCE BacktestSamples WITH Jobs <- SampleJobs, redis <- klines
Page == INSTANCE BacktestPage

\* MAX_KLINES is 10000; fetchPaginated reads up to 50 pages of 1000 candles, so
\* its guard never cuts a range that is not refused as too long.
ASSUME SamplesAssumption ==
    /\ Start \in Int /\ Horizon \in Int /\ Ends \subseteq Int
    /\ Splits \ {None} \subseteq Int
    /\ Limit \in Nat \ {0} /\ MaxPages \in Nat \ {0} /\ MaxKlines \in Nat
    /\ MaxPages * Limit >= MaxKlines - 2
    /\ MaxCombinations \in Nat /\ TopN \in Nat \ {0} /\ MaxScore \in Nat

\* validateDto refuses a range that does not end after its start.
ASSUME RangeAssumption == \A end \in Ends : Start < end /\ end <= Horizon

\* Ids are given in the order of creation, to the jobs that are there first too.
ASSUME IdAssumption ==
    /\ Jobs \subseteq Nat /\ MaxClicks \in Nat
    /\ \A j \in DOMAIN Existing, k \in Jobs : k < j => k \in DOMAIN Existing

\* The form has costs whenever it is typed; nothing is None but what is not there.
ASSUME PageAssumption ==
    LET Full == [type : {"SINGLE", "GRID"}, start : Int, costs : Nat,
                 tp : Nat \cup {None}, lev : Nat \cup {None}]
    IN /\ Form0 \in Full /\ Edits \subseteq Full /\ DefaultCosts \in Nat
       /\ DOMAIN Existing \subseteq Jobs /\ Zone \in Int
       /\ \A j \in DOMAIN Existing : Existing[j] \in Page!Forms
       /\ None \notin Jobs \cup Nat
       /\ None \notin {"RUNNING", "COMPLETED", "REMOVED", "created", "removed"}
       /\ None \notin [Jobs -> Page!Statuses]
       /\ None \notin [answer : {None} \cup [Jobs -> Page!Statuses]]

sampleState == <<now, klines, job>>
pageState == <<config, jobStatus, form, meta, selected, list, listing, cache, gets,
               submit, deletes, origin, copyOf, told, listFailed, clicks>>
computeVars == <<part, both, sampleState, pageState>>

ComputeInit ==
    /\ part \in {"replay", "samples", "page"}
    /\ BothInit /\ Samples!SamplesInit /\ Page!PageInit
    /\ part # "samples" => now = Horizon

ComputeNext ==
    /\ UNCHANGED part
    /\ \/ part = "replay" /\ BothNext /\ UNCHANGED <<sampleState, pageState>>
       \/ part = "samples" /\ Samples!SamplesNext /\ UNCHANGED <<both, pageState>>
       \/ part = "page" /\ Page!PageNext /\ UNCHANGED <<both, sampleState>>

ComputeSpec == ComputeInit /\ [][ComputeNext]_computeVars

----------------------------------------------------------------------------
\* Legs have types and belong to bars that were read; fetches, windows and
\* ranks have theirs, and so have the page's requests.
ComputeTypeOK == TypeOK /\ Samples!SamplesTypeOK /\ Page!PageTypeOK

\* What a job computes from is whole, and its windows are apart.
SamplesAreFair == Samples!SamplesAreFair

\* The page shows, and sends again, what the server has.
PageIsTrue == Page!PageIsTrue

============================================================================
