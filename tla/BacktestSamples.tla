---------------------------- MODULE BacktestSamples ----------------------------
(***************************************************************************)
(* What a backtest job computes from: the candles of its range, read page  *)
(* by page or taken from a cache, the windows of a sample split, and the   *)
(* combinations of a grid, ranked in sample and run again out of sample.   *)
(* BacktestEngine is the engine; here it only gives each combination a     *)
(* score.  BacktestJobs has the life of a job.  Time is in candles.        *)
(***************************************************************************)
EXTENDS Integers, FiniteSets, FiniteSetsExt

CONSTANTS
    Jobs,
    Start, Ends, Splits,  \* of the ranges that are asked for; a split may be None
    Grids,         \* bound: combinations in a grid, or None for a single run
    Horizon,       \* bound: the last moment
    Limit,         \* candles in a page
    MaxPages,      \* the guard of fetchPaginated
    MaxKlines, MaxCombinations,
    TopN,
    CacheLife,     \* the hour of a Redis key
    MaxScore,      \* bound: the scores told apart
    Missing,       \* candles the exchange does not have: nothing was traded
    None

VARIABLES
    now,
    redis,    \* range -> candles and the moment they were asked for
    job

sampleVars == <<now, redis, job>>

Times == Start..Horizon
Ranges == {r \in Times \X Times : r[1] < r[2]}
InRange(r) == {t \in Times : r[1] <= t /\ t < r[2]}
\* A candle is listed as soon as it opens.
Listed == {t \in Times : t <= now} \ Missing

IdleJob == [at |-> "idle"]
Combinations == 1..MaxCombinations
Scores == UNION {[1..n -> 0..MaxScore] : n \in Combinations}
Orders == UNION {[1..n -> Combinations] : n \in 0..MaxCombinations}

\* grid: the number of combinations, or None; split: None without windows.
Config == [range : Ranges, split : Times \cup {None}, grid : Combinations \cup {None}]
Parts == {"whole", "in", "out"}

JobStates ==
    {IdleJob}
        \cup [at : {"cache", "page", "kept"}, config : Config, part : Parts,
              since : Int, pages : 0..MaxPages, got : SUBSET Times, asOf : Times,
              first : Times, inside : SUBSET Times, score : Scores \cup {None}]
        \cup [at : {"rerun", "completed"}, config : Config, asOf : Times,
              inside : SUBSET Times, outside : SUBSET Times,
              score : Scores \cup {None}, reruns : Orders]

SamplesTypeOK ==
    /\ now \in Times
    /\ \A r \in DOMAIN redis : r \in Ranges /\ redis[r].got \subseteq Times
                               /\ redis[r].asOf \in Times
    /\ job \in [Jobs -> JobStates]

SamplesInit ==
    /\ now \in Times
    /\ redis = << >>
    /\ job = [j \in Jobs |-> IdleJob]

----------------------------------------------------------------------------
(* Time, the cache and the exchange.                                       *)

Drop(f, keys) == [r \in DOMAIN f \ keys |-> f[r]]
Old(moment) == {r \in DOMAIN redis : moment - redis[r].at >= CacheLife}

Passes ==
    /\ now < Horizon /\ now' = now + 1
    /\ redis' = Drop(redis, Old(now + 1))
    /\ UNCHANGED job

JobGoto(j, state) == job' = [job EXCEPT ![j] = state]

\* The range of the fetch a job is at: a grid with windows reads one each.
FetchRange(config, part) ==
    CASE part = "whole" -> config.range
      [] part = "in" -> <<config.range[1], config.split>>
      [] part = "out" -> <<config.split, config.range[2]>>

Fetch(config, part, first, inside, score) ==
    [at |-> "cache", config |-> config, part |-> part, since |-> 0, pages |-> 0,
     got |-> {}, asOf |-> now, first |-> first, inside |-> inside, score |-> score]

\* Candidates in two dimensions; an empty list stands for the default, and too
\* many combinations are refused.
GridSizes == {a * b : a, b \in Combinations} \cap Combinations

\* A job is validated and begins: the split must be inside the range, and a grid
\* has a dimension to search and not too many combinations.
Begin(j, config) ==
    /\ job[j].at \in {"idle", "completed"}
    /\ config.split # None =>
          config.range[1] < config.split /\ config.split < config.range[2]
    /\ config.grid # None => config.grid >= 2 /\ config.grid \in GridSizes
    /\ JobGoto(j, Fetch(config, IF config.grid # None /\ config.split # None
                                THEN "in" ELSE "whole", now, {}, None))
    /\ UNCHANGED <<now, redis>>

TooLong(r) == r[2] - r[1] + 2 > MaxKlines

\* fetchRange: what Redis has, if it is there, or the first page; a range that
\* is too long is refused (and the job fails).
ReadCache(j) ==
    /\ job[j].at = "cache"
    /\ ~TooLong(FetchRange(job[j].config, job[j].part))
    /\ LET r == FetchRange(job[j].config, job[j].part) IN
       \/ /\ r \in DOMAIN redis
          /\ JobGoto(j, [job[j] EXCEPT !.at = "kept", !.got = redis[r].got,
                           !.asOf = redis[r].asOf])
       \/ JobGoto(j, [job[j] EXCEPT !.at = "page", !.since = r[1], !.asOf = now])
    /\ UNCHANGED <<now, redis>>

\* The first Limit candles from since on.
Page(since) ==
    {t \in Listed : t >= since
                    /\ Cardinality({u \in Listed : since <= u /\ u < t}) < Limit}

\* Mutant: the next page begins with the last candle of this one.
After_Last(page) == Max(page)

After(page) == Max(page) + 1

\* What was read is kept for an hour, if Redis is there.
Keep(r, got, asOf) ==
    redis' = [s \in DOMAIN redis \cup {r} |->
        IF s = r THEN [got |-> got, asOf |-> asOf, at |-> now] ELSE redis[s]]

\* fetchPaginated: a page that is empty or short is the last one, and so is one
\* that reaches the end of the range or the guard.
ReadPage(j) ==
    /\ job[j].at = "page"
    /\ LET here == job[j]
           r == FetchRange(here.config, here.part)
           page == Page(here.since)
           next == IF page = {} THEN here.since ELSE After(page)
           more == /\ Cardinality(page) = Limit
                   /\ next > here.since /\ next < r[2]
                   /\ here.pages + 1 < MaxPages
           got == here.got \cup (page \cap InRange(r))
       IN /\ JobGoto(j, [here EXCEPT !.at = IF more THEN "page" ELSE "kept",
                           !.since = next, !.pages = here.pages + 1, !.got = got])
          /\ \/ ~more /\ got # {} /\ Keep(r, got, here.asOf)
             \/ UNCHANGED redis
    /\ UNCHANGED now

\* Any fetch may fail, and the job with it.
JobFails(j) ==
    /\ job[j].at \in {"cache", "page"}
    /\ JobGoto(j, IdleJob)
    /\ UNCHANGED <<now, redis>>

----------------------------------------------------------------------------
(* Windows and ranks.                                                      *)

\* Mutant: the in-sample window includes the candle that opens at the split.
InSample_Closed(candles, split) == {t \in candles : t <= split}

\* filterKlinesByRange: without its end for the window in the sample, and with
\* it for the one outside.
InSample(candles, split) == {t \in candles : t < split}
OutSample(candles, split, end) == {t \in candles : split <= t /\ t <= end}

\* Mutant: the combinations stay in the order they were built in.
RankBy_Order(score) == [i \in DOMAIN score |-> i]

\* The sort is stable: equal scores keep their order.
RankBy(score) ==
    LET rank(c) == 1 + Cardinality({d \in DOMAIN score :
                        score[d] > score[c] \/ (score[d] = score[c] /\ d < c)})
    IN [i \in DOMAIN score |-> CHOOSE c \in DOMAIN score : rank(c) = i]

Top(n) == Max({1, Min({TopN, n})})

Done(config, asOf, inside, outside, score, at) ==
    [at |-> at, config |-> config, asOf |-> asOf, inside |-> inside,
     outside |-> outside, score |-> score, reruns |-> <<>>]

\* A single run over the range, or over both windows of it.
RunSingle(j) ==
    /\ job[j].at = "kept" /\ job[j].config.grid = None
    /\ LET here == job[j]
           split == here.config.split
       IN JobGoto(j, IF split = None
            THEN Done(here.config, here.asOf, here.got, {}, None, "completed")
            ELSE Done(here.config, here.asOf, InSample(here.got, split),
                      OutSample(here.got, split, here.config.range[2]), None, "completed"))
    /\ UNCHANGED <<now, redis>>

\* All combinations over the same candles, the best first; with windows the
\* candles outside come next.
RunGrid(j) ==
    /\ job[j].at = "kept" /\ job[j].config.grid # None /\ job[j].part # "out"
    /\ LET here == job[j] IN
       \E score \in [1..here.config.grid -> 0..MaxScore] :
          JobGoto(j, IF here.config.split = None
            THEN Done(here.config, here.asOf, here.got, {}, score, "completed")
            ELSE Fetch(here.config, "out", here.asOf, here.got, score))
    /\ UNCHANGED <<now, redis>>

\* The combinations at the top are run again outside, the best first.
RerunStart(j) ==
    /\ job[j].at = "kept" /\ job[j].part = "out"
    /\ LET here == job[j]
           r == here.config.range
       IN JobGoto(j, Done(here.config, Min({here.asOf, here.first}), here.inside,
                          OutSample(here.got, here.config.split, r[2]),
                          here.score, "rerun"))
    /\ UNCHANGED <<now, redis>>

Rerun(j) ==
    /\ job[j].at = "rerun"
    /\ LET here == job[j]
           n == Cardinality(DOMAIN here.reruns)
           last == n + 1 = Top(Cardinality(DOMAIN here.score))
       IN JobGoto(j, [here EXCEPT
            !.reruns = [i \in 1..(n + 1) |-> RankBy(here.score)[i]],
            !.at = IF last THEN "completed" ELSE "rerun"])
    /\ UNCHANGED <<now, redis>>

SamplesNext ==
    \/ Passes
    \/ \E j \in Jobs :
          \/ \E end \in Ends, split \in Splits, grid \in Grids :
                Begin(j, [range |-> <<Start, end>>, split |-> split, grid |-> grid])
          \/ ReadCache(j) \/ ReadPage(j) \/ JobFails(j)
          \/ RunSingle(j) \/ RunGrid(j) \/ RerunStart(j) \/ Rerun(j)

SamplesSpec == SamplesInit /\ [][SamplesNext]_sampleVars

----------------------------------------------------------------------------
Completed == {j \in Jobs : job[j].at = "completed"}

\* A fetch, of any number of pages and with the cache, misses no candle that the
\* exchange had when it began, and has none from outside its range.
CandlesAreWhole ==
    \A j \in Jobs :
        job[j].at = "kept" =>
            LET r == FetchRange(job[j].config, job[j].part) IN
            /\ {t \in InRange(r) \ Missing : t <= job[j].asOf} \subseteq job[j].got
            /\ job[j].got \subseteq InRange(r) \ Missing

\* What is tuned in the sample is tested outside of it: no candle is in both
\* windows, whether they were cut from one fetch or read by two.
NoLookAhead ==
    \A j \in Completed :
        job[j].config.split # None =>
            /\ \A t \in job[j].inside, u \in job[j].outside : t < u
            /\ {t \in InRange(job[j].config.range) \ Missing : t <= job[j].asOf}
                 \subseteq job[j].inside \cup job[j].outside

\* Out of the sample the best combinations are run again, each once, the better
\* before the worse, and none that did better in the sample is left out.
BestAreRerun ==
    \A j \in Completed :
        job[j].config.split # None /\ job[j].config.grid # None =>
            LET score == job[j].score
                reruns == job[j].reruns
                chosen == {reruns[i] : i \in DOMAIN reruns}
            IN /\ Cardinality(chosen) = Min({TopN, Cardinality(DOMAIN score)})
               /\ \A i, k \in DOMAIN reruns : i < k => score[reruns[i]] >= score[reruns[k]]
               /\ \A c \in DOMAIN score \ chosen, b \in chosen : score[c] <= score[b]

\* What a job reports of a strategy is fair: computed from all the candles, with
\* the best parameters of the sample, tested on candles the choice never saw.
SamplesAreFair == CandlesAreWhole /\ NoLookAhead /\ BestAreRerun

============================================================================
