--------------------------- MODULE StrategyEngine ---------------------------
(***************************************************************************)
(* The life of strategies: StrategyEngineService (cron jobs and cycles),   *)
(* StrategyService (create, update, status, remove), SystemService         *)
(* (emergency stop) and the restart of the process, over the strategies    *)
(* table and the in-memory cron registry.                                  *)
(*                                                                         *)
(* A slot is one execution of executeCycle in flight: nothing keeps a slow *)
(* cycle from overlapping the next one.  A request is one administrator's  *)
(* HTTP request in flight.  Each action ends at an await.  Opening and     *)
(* closing positions is abstract here (the modules OrderService and        *)
(* TpslMonitor have the detail): a group is one cycle's pair of legs.      *)
(***************************************************************************)
EXTENDS RiskService

CONSTANTS
    Strategies, Groups, Slots, Requests,
    Kinds,        \* the kinds of request made
    OwnLimit,     \* Strategy.maxPositions
    ActiveFirst,  \* strategies active and scheduled in Init
    MaxRuns,      \* bound: requests made through one member of Requests
    MaxRestarts,  \* bound: restarts of the process
    EarlyRequests,\* requests may come before the strategies are loaded
    CanFail       \* exchange calls of a cycle or a close may fail

ASSUME OwnLimitAssumption == OwnLimit \in [Strategies -> Nat \ {0}]
ASSUME FirstAssumption == ActiveFirst \subseteq Strategies
ASSUME FiniteAssumption == IsFiniteSet(Slots)

KindsAll == {"create", "update", "status", "remove", "stop", "params", "reset"}
ASSUME KindsAssumption == Kinds \subseteq KindsAll

Sides == {"LONG", "SHORT"}
Legs == [strat : Strategies, grp : Groups, side : Sides]
Statuses == {"IDLE", "RUNNING", "OPENING", "ERROR", "PAUSED", "STOPPED"}

None == "none"
Done == "done"
ASSUME NamesAssumption ==
    {None, Done} \cap (Strategies \cup Groups \cup Requests) = {}

VARIABLES
    exists,   \* strategies with a row
    active,   \* Strategy.isActive
    st,       \* Strategy.status
    legs,     \* OPEN positions in the database
    held,     \* legs the exchange account holds
    cron,     \* strategies with a job in the scheduler registry
    late,     \* strategies whose un-awaited write of RUNNING is under way
    cyc,      \* the cycles in flight
    req,      \* the requests in flight
    boot,     \* loadActiveStrategies of the running process
    runs,     \* requests made so far
    restarts, \* restarts so far
    stopper   \* history: the emergency stop that has read the active strategies
              \* while nothing was activating any, until something does; Done
              \* once it has ended

tableVars == <<exists, active, st>>
countVars == <<runs, restarts>>
vars == <<riskVars, tableVars, legs, held, cron, late, cyc, req, boot,
          countVars, stopper>>

CyclePCs == {"idle", "read", "mark", "breaker", "count", "funds",
             "open", "save", "refused", "full", "end", "fail"}
CycleRecord == [pc : CyclePCs, strat : Strategies \cup {None},
                grp : Groups \cup {None}, got : SUBSET Sides]
NoCycle == [pc |-> "idle", strat |-> None, grp |-> None, got |-> {}]

RequestPCs == {"idle", "create.write", "update.write", "status.write",
               "register", "schedule", "remove.delete", "stop.read",
               "stop.next", "stop.write", "stop.list", "stop.close",
               "params.save"}
RequestRecord == [pc : RequestPCs, strat : Strategies \cup {None},
                  act : BOOLEAN, keep : BOOLEAN, status : Statuses,
                  limit : Limits, todo : SUBSET Strategies, closing : SUBSET Legs]
NoRequest == [pc |-> "idle", strat |-> None, act |-> FALSE, keep |-> FALSE,
              status |-> "IDLE", limit |-> FirstLimit, todo |-> {}, closing |-> {}]

\* The start of the process: find the strategies, then one by one reactivate
\* the stale ones and register all.
BootRecord == [pc : {"wait", "next", "write", "done"}, todo : SUBSET Strategies,
               stale : SUBSET Strategies, cur : Strategies \cup {None}]
Booted == [pc |-> "done", todo |-> {}, stale |-> {}, cur |-> None]

TableTypeOK ==
    /\ exists \subseteq Strategies
    /\ active \in [Strategies -> BOOLEAN]
    /\ st \in [Strategies -> Statuses]

LegTypeOK == legs \subseteq Legs /\ held \subseteq Legs

CronTypeOK == cron \subseteq Strategies /\ late \subseteq Strategies

HistoryTypeOK ==
    /\ runs \in [Requests -> Nat] /\ restarts \in Nat
    /\ stopper \in Requests \cup {None, Done}

EngineTypeOK ==
    /\ RiskTypeOK /\ TableTypeOK /\ LegTypeOK /\ CronTypeOK /\ HistoryTypeOK
    /\ cyc \in [Slots -> CycleRecord]
    /\ req \in [Requests -> RequestRecord]
    /\ boot \in BootRecord

Init ==
    /\ RiskInit
    /\ exists = ActiveFirst
    /\ active = [s \in Strategies |-> s \in ActiveFirst]
    /\ st = [s \in Strategies |-> IF s \in ActiveFirst THEN "RUNNING" ELSE "IDLE"]
    /\ legs = {} /\ held = {}
    /\ cron = ActiveFirst /\ late = {}
    /\ cyc = [c \in Slots |-> NoCycle]
    /\ req = [r \in Requests |-> NoRequest]
    /\ boot = Booted
    /\ runs = [r \in Requests |-> 0] /\ restarts = 0
    /\ stopper = None

\* updateStrategyStatus: a failing update (the row is gone) is only logged.
Write(s, status) == st' = IF s \in exists THEN [st EXCEPT ![s] = status] ELSE st

\* registerStrategyCron replaces the job and writes RUNNING without waiting.
Register(s) == cron' = cron \cup {s} /\ late' = late \cup {s}
Unregister(s) == cron' = cron \ {s} /\ UNCHANGED late

LegsOf(s) == {l \in legs : l.strat = s}

----------------------------------------------------------------------------
(* executeCycle                                                             *)
CycleAt(c, pc) == cyc[c].pc = pc
CycleGoto(c, pc) == cyc' = [cyc EXCEPT ![c].pc = pc]
CycleDone(c) == cyc' = [cyc EXCEPT ![c] = NoCycle]
notCycle == <<cron, late, req, boot, countVars, stopper>>

\* The cron job of s fires.
CycleFire(c, s) ==
    /\ CycleAt(c, "idle") /\ s \in cron
    /\ cyc' = [cyc EXCEPT ![c] = [NoCycle EXCEPT !.pc = "read", !.strat = s]]
    /\ UNCHANGED <<riskVars, tableVars, legs, held, notCycle>>

\* Mutant: only the existence of the row is checked.
CycleRead_Inactive(c) ==
    /\ CycleAt(c, "read")
    /\ IF cyc[c].strat \in exists THEN CycleGoto(c, "mark") ELSE CycleDone(c)
    /\ UNCHANGED <<riskVars, tableVars, legs, held, notCycle>>

CycleRead(c) ==
    /\ CycleAt(c, "read")
    /\ LET s == cyc[c].strat IN
       IF s \in exists /\ active[s] THEN CycleGoto(c, "mark") ELSE CycleDone(c)
    /\ UNCHANGED <<riskVars, tableVars, legs, held, notCycle>>

CycleMark(c) ==
    /\ CycleAt(c, "mark")
    /\ Write(cyc[c].strat, "OPENING")
    /\ CycleGoto(c, "breaker")
    /\ UNCHANGED <<riskVars, exists, active, legs, held, notCycle>>

\* checkBeforeOpen: the breaker, then the number of OPEN positions, ...
CycleBreaker(c) ==
    /\ CycleAt(c, "breaker")
    /\ \/ PassBreaker /\ CycleGoto(c, "count")
       \/ BreakerBlocks /\ CycleGoto(c, "refused") /\ UNCHANGED riskVars
    /\ UNCHANGED <<tableVars, legs, held, notCycle>>

CycleCount(c) ==
    /\ CycleAt(c, "count")
    /\ LET s == cyc[c].strat
           full == TooMany(Cardinality(LegsOf(s)), OwnLimit[s])
       IN CycleGoto(c, IF full THEN "full"
                       ELSE IF TooManyLosses THEN "refused" ELSE "funds")
    /\ UNCHANGED <<riskVars, tableVars, legs, held, notCycle>>

\* ... then notional and margin; afterwards the price (getPrice may throw) and
\* the quantity, which may round to zero.
CycleFunds(c) ==
    /\ CycleAt(c, "funds")
    /\ \/ CycleGoto(c, "open")
       \/ CycleGoto(c, "refused")
       \/ CanFail /\ CycleGoto(c, "fail")
    /\ UNCHANGED <<riskVars, tableVars, legs, held, notCycle>>

NextSide(c) == IF "LONG" \in cyc[c].got THEN "SHORT" ELSE "LONG"
LegOf(c) == [strat |-> cyc[c].strat, grp |-> cyc[c].grp, side |-> NextSide(c)]

InUse == {l.grp : l \in held \cup legs} \cup {cyc[c].grp : c \in Slots}

\* openPosition: the market order, LONG first (a fresh group; bound: with none
\* left the order fails), then SHORT ...
CycleOpen(c) ==
    /\ CycleAt(c, "open")
    /\ LET groups == IF cyc[c].got = {} THEN Groups \ InUse ELSE {cyc[c].grp} IN
       \/ \E g \in groups :
             /\ held' = held \cup
                  {[strat |-> cyc[c].strat, grp |-> g, side |-> NextSide(c)]}
             /\ cyc' = [cyc EXCEPT ![c].pc = "save", ![c].grp = g]
       \/ (CanFail \/ groups = {}) /\ CycleGoto(c, "fail") /\ UNCHANGED held
    /\ UNCHANGED <<riskVars, tableVars, legs, notCycle>>

\* ... and its row, which needs a fill price and the strategy's row.  After the SHORT leg both
\* get their TP and SL; a failure there does not end the cycle.
CycleSave(c) ==
    /\ CycleAt(c, "save")
    /\ \/ /\ cyc[c].strat \in exists
          /\ legs' = legs \cup {LegOf(c)}
          /\ cyc' = [cyc EXCEPT ![c].pc = IF NextSide(c) = "LONG"
                                          THEN "open" ELSE "end",
                                ![c].got = @ \cup {NextSide(c)}]
       \/ /\ CanFail \/ cyc[c].strat \notin exists
          /\ CycleGoto(c, "fail") /\ UNCHANGED legs
    /\ UNCHANGED <<riskVars, tableVars, held, notCycle>>

\* Mutant: the state the class comment names, which no consumer expects.
CycleEnd_Monitoring(c) ==
    /\ cyc[c].pc \in {"refused", "full", "end"}
    /\ Write(cyc[c].strat, "MONITORING")
    /\ CycleDone(c)
    /\ UNCHANGED <<riskVars, exists, active, legs, held, notCycle>>

CycleEnd(c) ==
    /\ cyc[c].pc \in {"refused", "full", "end"}
    /\ Write(cyc[c].strat, "RUNNING")
    /\ CycleDone(c)
    /\ UNCHANGED <<riskVars, exists, active, legs, held, notCycle>>

CycleFail(c) ==
    /\ CycleAt(c, "fail")
    /\ Write(cyc[c].strat, "ERROR")
    /\ CycleDone(c)
    /\ UNCHANGED <<riskVars, exists, active, legs, held, notCycle>>

CycleStep(c) ==
    \/ CycleRead(c) \/ CycleMark(c) \/ CycleBreaker(c) \/ CycleCount(c)
    \/ CycleFunds(c) \/ CycleOpen(c) \/ CycleSave(c) \/ CycleEnd(c) \/ CycleFail(c)

\* The write of RUNNING that registerStrategyCron did not wait for.
LateWrite(s) ==
    /\ s \in late
    /\ Write(s, "RUNNING")
    /\ late' = late \ {s}
    /\ UNCHANGED <<riskVars, exists, active, legs, held, cron, cyc, req, boot,
                   countVars, stopper>>

\* cleanupStrategies: active strategies leave ERROR.
Cleanup ==
    /\ \E s \in exists : st[s] = "ERROR" /\ active[s]
    /\ st' = [s \in Strategies |->
                IF s \in exists /\ st[s] = "ERROR" /\ active[s]
                THEN "RUNNING" ELSE st[s]]
    /\ UNCHANGED <<riskVars, exists, active, legs, held, cyc, notCycle>>

\* A position closes by TP, SL or hand.
CloseLeg(l) ==
    /\ l \in legs
    /\ legs' = legs \ {l} /\ held' = held \ {l}
    /\ UNCHANGED <<riskVars, tableVars, cyc, notCycle>>

----------------------------------------------------------------------------
(* StrategyService: the requests of an administrator                        *)
ReqAt(r, pc) == req[r].pc = pc
ReqGoto(r, pc) == req' = [req EXCEPT ![r].pc = pc]
ReqDone(r) == req' = [req EXCEPT ![r] = NoRequest]
notReq == <<cyc, boot, restarts>>

Ask(r, kind, record) ==
    /\ kind \in Kinds
    /\ boot = Booted \/ EarlyRequests
    /\ ReqAt(r, "idle") /\ runs[r] < MaxRuns
    /\ runs' = [runs EXCEPT ![r] = @ + 1]
    /\ req' = [req EXCEPT ![r] = record]
    /\ UNCHANGED <<tableVars, held, late, notReq>>

\* Whoever activates a strategy ends what an emergency stop promised.
Promise(act) == stopper' = IF act THEN None ELSE stopper

CreateStart(r, s, act) ==
    /\ s \notin exists
    /\ Ask(r, "create", [NoRequest EXCEPT !.pc = "create.write", !.strat = s,
                                          !.act = act])
    /\ Promise(act)
    /\ UNCHANGED <<riskVars, legs, cron>>

\* update changes settings and sets or keeps isActive; updateStatus writes a
\* status and what it implies for isActive.  Both first find the strategy.
UpdateStart(r, s, act, keep) ==
    /\ s \in exists /\ (keep => ~act)
    /\ Ask(r, "update", [NoRequest EXCEPT !.pc = "update.write", !.strat = s,
                                          !.act = act, !.keep = keep])
    /\ Promise(act)
    /\ UNCHANGED <<riskVars, legs, cron>>

StatusStart(r, s, status) ==
    /\ s \in exists /\ status \in {"RUNNING", "PAUSED", "STOPPED", "IDLE"}
    /\ Ask(r, "status", [NoRequest EXCEPT !.pc = "status.write", !.strat = s,
                           !.act = (status = "RUNNING"), !.status = status])
    /\ Promise(status = "RUNNING")
    /\ UNCHANGED <<riskVars, legs, cron>>

CreateWrite(r) ==
    /\ ReqAt(r, "create.write")
    /\ LET s == req[r].strat IN
       /\ exists' = exists \cup {s}
       /\ active' = [active EXCEPT ![s] = req[r].act]
       /\ st' = [st EXCEPT ![s] = "IDLE"]
    /\ ReqGoto(r, "register")
    /\ UNCHANGED <<riskVars, legs, held, cron, late, notReq, runs, stopper>>

\* An update of a row that is gone throws and ends the request.
UpdateWrite(r) ==
    /\ ReqAt(r, "update.write")
    /\ LET s == req[r].strat
           act == IF req[r].keep THEN active[s] ELSE req[r].act IN
       IF s \in exists
       THEN /\ active' = [active EXCEPT ![s] = act]
            /\ req' = [req EXCEPT ![r].pc = "register", ![r].act = act]
       ELSE ReqDone(r) /\ UNCHANGED active
    /\ UNCHANGED <<riskVars, exists, st, legs, held, cron, late, notReq, runs,
                   stopper>>

StatusWrite(r) ==
    /\ ReqAt(r, "status.write")
    /\ LET s == req[r].strat IN
       IF s \in exists
       THEN /\ active' = [active EXCEPT ![s] = req[r].act]
            /\ st' = [st EXCEPT ![s] = req[r].status]
            /\ ReqGoto(r, "schedule")
       ELSE ReqDone(r) /\ UNCHANGED <<active, st>>
    /\ UNCHANGED <<riskVars, exists, legs, held, cron, late, notReq, runs, stopper>>

\* Mutant: the status request no longer registers the job.
Schedule_OnlyStops(r) ==
    /\ req[r].pc \in {"register", "schedule"}
    /\ IF ~req[r].act /\ ReqAt(r, "schedule") THEN Unregister(req[r].strat)
       ELSE UNCHANGED <<cron, late>>
    /\ ReqDone(r)
    /\ UNCHANGED <<riskVars, tableVars, legs, held, notReq, runs, stopper>>

\* After the write: register an active strategy; only updateStatus also
\* unregisters an inactive one.
Schedule(r) ==
    /\ req[r].pc \in {"register", "schedule"}
    /\ LET s == req[r].strat IN
       \/ req[r].act /\ Register(s)
       \/ ~req[r].act /\ ReqAt(r, "schedule") /\ Unregister(s)
       \/ ~req[r].act /\ ReqAt(r, "register") /\ UNCHANGED <<cron, late>>
    /\ ReqDone(r)
    /\ UNCHANGED <<riskVars, tableVars, legs, held, notReq, runs, stopper>>

\* remove unregisters the job and deletes the row, and with it (onDelete:
\* Cascade) the rows of its positions.
RemoveStart(r, s) ==
    /\ s \in exists
    /\ Ask(r, "remove", [NoRequest EXCEPT !.pc = "remove.delete", !.strat = s])
    /\ cron' = cron \ {s}
    /\ UNCHANGED <<riskVars, legs, stopper>>

RemoveDelete(r) ==
    /\ ReqAt(r, "remove.delete")
    /\ exists' = exists \ {req[r].strat}
    /\ legs' = legs \ LegsOf(req[r].strat)
    /\ ReqDone(r)
    /\ UNCHANGED <<riskVars, active, st, held, cron, late, notReq, runs, stopper>>

----------------------------------------------------------------------------
(* SystemService.emergencyStop, and the risk requests                       *)
StopStart(r) ==
    /\ Ask(r, "stop", [NoRequest EXCEPT !.pc = "stop.read"])
    /\ TriggerBreaker
    /\ UNCHANGED <<legs, cron, stopper>>

Activating ==
    \/ boot # Booted
    \/ \E r \in Requests :
          req[r].act /\ req[r].pc \in {"create.write", "update.write", "status.write"}

StopRead(r) ==
    /\ ReqAt(r, "stop.read")
    /\ req' = [req EXCEPT ![r].pc = "stop.next",
                          ![r].todo = {s \in exists : active[s]}]
    /\ stopper' = IF Activating \/ stopper = Done THEN stopper ELSE r
    /\ UNCHANGED <<riskVars, tableVars, legs, held, cron, late, notReq, runs>>

StopNext(r) ==
    /\ ReqAt(r, "stop.next")
    /\ \/ \E s \in req[r].todo :
             /\ Unregister(s)
             /\ req' = [req EXCEPT ![r].pc = "stop.write", ![r].strat = s,
                                   ![r].todo = @ \ {s}]
       \/ /\ req[r].todo = {}
          /\ ReqGoto(r, "stop.list")
          /\ UNCHANGED <<cron, late>>
    /\ UNCHANGED <<riskVars, tableVars, legs, held, notReq, runs, stopper>>

\* A strategy deleted meanwhile makes the whole stop throw.
StopWrite(r) ==
    /\ ReqAt(r, "stop.write")
    /\ LET s == req[r].strat IN
       \/ /\ s \in exists
          /\ active' = [active EXCEPT ![s] = FALSE]
          /\ st' = [st EXCEPT ![s] = "PAUSED"]
          /\ ReqGoto(r, "stop.next")
          /\ UNCHANGED stopper
       \/ /\ s \notin exists
          /\ ReqDone(r)
          /\ stopper' = IF stopper = r THEN None ELSE stopper
          /\ UNCHANGED <<active, st>>
    /\ UNCHANGED <<riskVars, exists, legs, held, cron, late, notReq, runs>>

StopList(r) ==
    /\ ReqAt(r, "stop.list")
    /\ req' = [req EXCEPT ![r].pc = "stop.close", ![r].closing = legs]
    /\ UNCHANGED <<riskVars, tableVars, legs, held, cron, late, notReq, runs, stopper>>

\* closeAll: a close that fails, or whose position is closed already, is noted.
StopClose(r, l) ==
    /\ ReqAt(r, "stop.close") /\ l \in req[r].closing
    /\ req' = [req EXCEPT ![r].closing = @ \ {l}]
    /\ \/ /\ l \in legs
          /\ legs' = legs \ {l} /\ held' = held \ {l}
       \/ (CanFail \/ l \notin legs) /\ UNCHANGED <<legs, held>>
    /\ UNCHANGED <<riskVars, tableVars, cron, late, notReq, runs, stopper>>

StopDone(r) ==
    /\ ReqAt(r, "stop.close") /\ req[r].closing = {}
    /\ stopper' = IF stopper = r THEN Done ELSE stopper
    /\ ReqDone(r)
    /\ UNCHANGED <<riskVars, tableVars, legs, held, cron, late, notReq, runs>>

ParamsStart(r, n) ==
    /\ Ask(r, "params", [NoRequest EXCEPT !.pc = "params.save", !.limit = n])
    /\ SetLimit(n)
    /\ UNCHANGED <<legs, cron, stopper>>

ParamsSave(r) ==
    /\ ReqAt(r, "params.save")
    /\ SaveLimit(req[r].limit)
    /\ ReqDone(r)
    /\ UNCHANGED <<tableVars, legs, held, cron, late, notReq, runs, stopper>>

ResetRequest(r) ==
    /\ Ask(r, "reset", NoRequest)
    /\ ResetBreaker
    /\ UNCHANGED <<legs, cron, stopper>>

RequestStart(r) ==
    \/ \E s \in Strategies : RemoveStart(r, s)
    \/ \E s \in Strategies, act \in BOOLEAN :
          CreateStart(r, s, act) \/ \E keep \in BOOLEAN : UpdateStart(r, s, act, keep)
    \/ \E s \in Strategies, status \in Statuses : StatusStart(r, s, status)
    \/ StopStart(r) \/ ResetRequest(r) \/ \E n \in Limits : ParamsStart(r, n)

RequestStep(r) ==
    \/ CreateWrite(r) \/ UpdateWrite(r) \/ StatusWrite(r) \/ Schedule(r)
    \/ RemoveDelete(r)
    \/ StopRead(r) \/ StopNext(r) \/ StopWrite(r) \/ StopList(r) \/ StopDone(r)
    \/ \E l \in Legs : StopClose(r, l)
    \/ ParamsSave(r)

----------------------------------------------------------------------------
(* A restart: the memory, and every call chain with it, is gone.  Three     *)
(* seconds after the start the engine loads the strategies.                 *)
Restart ==
    /\ restarts < MaxRestarts
    /\ restarts' = restarts + 1
    /\ RiskRestart
    /\ cron' = {} /\ late' = {}
    /\ cyc' = [c \in Slots |-> NoCycle]
    /\ req' = [r \in Requests |-> NoRequest]
    /\ boot' = [Booted EXCEPT !.pc = "wait"]
    /\ stopper' = None
    /\ UNCHANGED <<tableVars, legs, held, runs>>

\* Mutant: only active strategies are loaded.
BootRead_ActiveOnly ==
    /\ boot.pc = "wait"
    /\ boot' = [boot EXCEPT !.pc = "next", !.todo = {s \in exists : active[s]}]
    /\ UNCHANGED <<riskVars, tableVars, legs, held, cron, late, cyc, req,
                   countVars, stopper>>

\* Active strategies, and those whose status says that they ran.
BootRead ==
    /\ boot.pc = "wait"
    /\ LET ran == {s \in exists : st[s] \in {"RUNNING", "OPENING"}} IN
       boot' = [boot EXCEPT !.pc = "next",
                            !.todo = {s \in exists : active[s]} \cup ran,
                            !.stale = {s \in ran : ~active[s]}]
    /\ UNCHANGED <<riskVars, tableVars, legs, held, cron, late, cyc, req,
                   countVars, stopper>>

\* Mutant: only the reactivated strategies would be registered.
BootNext_SkipsActive(s) ==
    /\ boot.pc = "next" /\ s \in boot.todo /\ boot.cur \in {None, s}
    /\ boot' = [boot EXCEPT !.pc = IF s \in boot.stale THEN "write" ELSE @,
                            !.cur = IF s \in boot.stale THEN s ELSE None,
                            !.todo = @ \ {s}]
    /\ UNCHANGED <<riskVars, tableVars, legs, held, cron, late, cyc, req,
                   countVars, stopper>>

BootNext(s) ==
    /\ boot.pc = "next" /\ s \in boot.todo /\ boot.cur \in {None, s}
    /\ IF s \in boot.stale
       THEN /\ boot' = [boot EXCEPT !.pc = "write", !.cur = s, !.todo = @ \ {s}]
            /\ UNCHANGED <<cron, late>>
       ELSE /\ Register(s)
            /\ boot' = [boot EXCEPT !.todo = @ \ {s}, !.cur = None]
    /\ UNCHANGED <<riskVars, tableVars, legs, held, cyc, req, countVars, stopper>>

\* A stale strategy is made active, and then registered like the others; one
\* deleted meanwhile ends the loading.
BootWrite ==
    /\ boot.pc = "write"
    /\ LET s == boot.cur IN
       IF s \in exists
       THEN /\ active' = [active EXCEPT ![s] = TRUE]
            /\ st' = [st EXCEPT ![s] = "RUNNING"]
            /\ boot' = [boot EXCEPT !.pc = "next", !.todo = @ \cup {s},
                                    !.stale = @ \ {s}]
       ELSE boot' = Booted /\ UNCHANGED <<active, st>>
    /\ UNCHANGED <<riskVars, exists, legs, held, cron, late, cyc, req, countVars,
                   stopper>>

BootDone ==
    /\ boot.pc = "next" /\ boot.todo = {}
    /\ boot' = Booted
    /\ UNCHANGED <<riskVars, tableVars, legs, held, cron, late, cyc, req,
                   countVars, stopper>>

BootStep == BootRead \/ BootWrite \/ BootDone \/ \E s \in Strategies : BootNext(s)

----------------------------------------------------------------------------
Timer == (CoolDown \/ RuntimeMonitor)
         /\ UNCHANGED <<tableVars, legs, held, cyc, notCycle>>

Rest ==
    /\ \A c \in Slots : CycleAt(c, "idle")
    /\ \A r \in Requests : ReqAt(r, "idle")
    /\ UNCHANGED vars

Next ==
    \/ \E c \in Slots : CycleStep(c) \/ \E s \in Strategies : CycleFire(c, s)
    \/ \E s \in Strategies : LateWrite(s)
    \/ \E l \in Legs : CloseLeg(l)
    \/ \E r \in Requests : RequestStart(r) \/ RequestStep(r)
    \/ Cleanup \/ Timer \/ Restart \/ BootStep \/ Rest

Spec == Init /\ [][Next]_vars

\* What has begun goes on, cron jobs and the hourly clean-up keep firing.
\* Requests, closes, the timers and restarts are never owed.
Fairness ==
    /\ \A c \in Slots : WF_vars(CycleStep(c))
    /\ \A s \in Strategies : WF_vars(\E c \in Slots : CycleFire(c, s))
    /\ \A s \in Strategies : WF_vars(LateWrite(s))
    /\ \A r \in Requests : WF_vars(RequestStep(r))
    /\ WF_vars(Cleanup) /\ WF_vars(BootStep)

FairSpec == Spec /\ Fairness

----------------------------------------------------------------------------
Quiet == boot = Booted /\ \A r \in Requests : ReqAt(r, "idle")

\* However many executions of executeCycle overlap, and whatever closes or
\* restarts meanwhile, a strategy's OPEN positions exceed its maxPositions by
\* less than two legs per execution: checkBeforeOpen counts once, before both
\* legs are opened.
LegLimit ==
    \A s \in Strategies :
        Cardinality(LegsOf(s)) <= OwnLimit[s] - 1 + 2 * Cardinality(Slots)

\* When no request is in flight and the engine has loaded, every active
\* strategy has its cron job, after any sequence of requests and restarts.
ActiveIsScheduled == Quiet => \A s \in exists : active[s] => s \in cron

\* Once an emergency stop has ended, and until someone activates a strategy or
\* the process restarts, no execution of a cycle gets past its first read.
StopIsFinal ==
    [][stopper = Done /\ stopper' = Done => \A c \in Slots :
          cyc[c].pc \in {"idle", "read"} => cyc'[c].pc \in {"idle", "read"}]_vars

\* A strategy does not stay OPENING: the cycle that wrote it, or the loading
\* after a crash in its middle, replaces it.
OpeningEnds ==
    \A s \in Strategies :
        st[s] = "OPENING" ~> (st[s] # "OPENING" \/ s \notin exists)

\* An active strategy keeps executing cycles, through errors and restarts.
KeepsTrading ==
    \A s \in Strategies :
        []<>(s \notin exists \/ ~active[s] \/ \E c \in Slots : cyc[c].strat = s)

\* The project document: one request stops all strategies and closes all
\* positions.
FlatAfterStop == stopper = Done => legs = {}

============================================================================
