------------------------ MODULE StrategyEngineProofs ------------------------
(* Proofs about StrategyEngine.                                              *)
EXTENDS StrategyEngine, FiniteSetTheorems, TLAPS

(***************************************************************************)
(* Type correctness needs to know who works on which strategy.             *)
(***************************************************************************)
CycleWorks(cy) ==
    /\ cy.pc # "idle" => cy.strat \in Strategies
    /\ cy.pc \in {"read", "mark", "breaker", "count", "funds"} => cy.got = {}
    /\ cy.pc \in {"open", "save"} => cy.got \in {{}, {"LONG"}}
    /\ cy.pc = "save" => cy.grp \in Groups
    /\ cy.pc = "open" /\ cy.got # {} => cy.grp \in Groups

RequestWorks(rec) ==
    rec.pc \in {"create.write", "update.write", "status.write", "register",
                "schedule", "remove.delete", "stop.write"}
       => rec.strat \in Strategies

BootWorks == boot.pc = "write" => boot.cur \in Strategies

TypeInv ==
    /\ EngineTypeOK
    /\ \A c \in Slots : CycleWorks(cyc[c])
    /\ \A r \in Requests : RequestWorks(req[r])
    /\ BootWorks

\* The records of a slot and a request at rest are well-formed.
LEMMA NoRecords ==
    /\ NoCycle \in CycleRecord /\ CycleWorks(NoCycle)
    /\ NoRequest \in RequestRecord /\ RequestWorks(NoRequest)
    /\ Booted \in BootRecord
BY LimitsAssumption DEF NoCycle, CycleRecord, CyclePCs, CycleWorks, NoRequest,
   RequestRecord, RequestPCs, RequestWorks, Booted, BootRecord, Statuses

\* The initial states satisfy the invariant.
LEMMA TypeInit == Init => TypeInv
<1> SUFFICES ASSUME Init PROVE TypeInv
    OBVIOUS
<1>1. RiskTypeOK
  <2>1. FirstLimit \in Limits
      BY LimitsAssumption
  <2>2. 0 \in 0..MaxLosses
      BY MaxLossesAssumption
  <2>3. RiskInit
      BY DEF Init
  <2> QED
      BY <2>1, <2>2, <2>3 DEF RiskInit, RiskTypeOK
<1>2. TableTypeOK /\ LegTypeOK /\ CronTypeOK /\ HistoryTypeOK
    BY FirstAssumption DEF Init, TableTypeOK, LegTypeOK, CronTypeOK, HistoryTypeOK,
       Statuses
<1>3. EngineTypeOK
    BY <1>1, <1>2, NoRecords DEF Init, EngineTypeOK
<1>4. /\ \A c \in Slots : CycleWorks(cyc[c])
      /\ \A r \in Requests : RequestWorks(req[r])
    BY NoRecords DEF Init
<1>5. BootWorks
    BY DEF Init, BootWorks, Booted
<1> QED
    BY <1>3, <1>4, <1>5 DEF TypeInv

----------------------------------------------------------------------------
(* A step of a cycle replaces its record by another one and may write the    *)
(* status, the breaker or a leg.                                             *)
CycleMove(c, cy) ==
    /\ cyc' = [cyc EXCEPT ![c] = cy]
    /\ UNCHANGED <<exists, active, notCycle>>

\* A cycle that only moves on keeps the types.
LEMMA CycleMoveTypes ==
    ASSUME TypeInv, NEW c \in Slots, NEW cy \in CycleRecord, CycleMove(c, cy),
           CycleWorks(cy), RiskTypeOK', LegTypeOK', st' \in [Strategies -> Statuses]
    PROVE  TypeInv'
<1> USE DEF TypeInv, CycleMove, notCycle, countVars
<1>1. TableTypeOK' /\ CronTypeOK' /\ HistoryTypeOK'
    BY DEF EngineTypeOK, TableTypeOK, CronTypeOK, HistoryTypeOK
<1>2. cyc' \in [Slots -> CycleRecord] /\ \A d \in Slots : CycleWorks(cyc'[d])
    BY DEF EngineTypeOK
<1>3. BootWorks' /\ req' = req /\ boot' = boot
    BY DEF BootWorks
<1> QED
    BY <1>1, <1>2, <1>3 DEF EngineTypeOK

\* A write of a status, made or lost, keeps the table well-formed.
LEMMA WriteTypes ==
    ASSUME TableTypeOK, NEW s, NEW status \in Statuses, Write(s, status)
    PROVE  st' \in [Strategies -> Statuses]
BY DEF TableTypeOK, Write

\* What leaves the risk service alone keeps its types.
LEMMA RiskUnchanged == RiskTypeOK /\ UNCHANGED riskVars => RiskTypeOK'
BY DEF RiskTypeOK, riskVars, memoryVars

\* Every step of a cycle keeps the invariant.
LEMMA CycleTypes ==
    ASSUME TypeInv, NEW c \in Slots,
           CycleStep(c) \/ \E s \in Strategies : CycleFire(c, s)
    PROVE  TypeInv'
<1> DEFINE Same == RiskTypeOK' /\ LegTypeOK' /\ st' \in [Strategies -> Statuses]
<1>0. /\ cyc \in [Slots -> CycleRecord] /\ cyc[c] \in CycleRecord
      /\ CycleWorks(cyc[c])
      /\ RiskTypeOK /\ LegTypeOK /\ TableTypeOK /\ st \in [Strategies -> Statuses]
      /\ NoCycle \in CycleRecord /\ CycleWorks(NoCycle)
    BY NoRecords DEF TypeInv, EngineTypeOK, TableTypeOK
<1>1. ASSUME NEW cy \in CycleRecord, CycleMove(c, cy), CycleWorks(cy), Same
      PROVE  TypeInv'
    BY <1>1, CycleMoveTypes
<1>2. ASSUME UNCHANGED <<riskVars, tableVars, legs, held, notCycle>>,
             NEW cy \in CycleRecord, cyc' = [cyc EXCEPT ![c] = cy], CycleWorks(cy)
      PROVE  TypeInv'
  <2>1. Same
      BY <1>0, <1>2, RiskUnchanged DEF LegTypeOK, tableVars
  <2>2. CycleMove(c, cy)
      BY <1>2 DEF CycleMove, tableVars
  <2> QED
      BY <1>1, <1>2, <2>1, <2>2
<1> HIDE DEF Same
<1> USE DEF CycleAt, CycleGoto, CycleDone, CycleWorks
<1>3. ASSUME NEW s \in Strategies, CycleFire(c, s) PROVE TypeInv'
  <2> DEFINE cy == [NoCycle EXCEPT !.pc = "read", !.strat = s]
  <2>1. cy \in CycleRecord /\ CycleWorks(cy)
      BY DEF NoCycle, CycleRecord, CyclePCs
  <2> QED
      BY <1>2, <1>3, <2>1 DEF CycleFire
<1> DEFINE At(pc) == [cyc[c] EXCEPT !.pc = pc]
<1>4. \A pc \in CyclePCs :
         /\ At(pc) \in CycleRecord /\ At(pc).pc = pc
         /\ At(pc).strat = cyc[c].strat /\ At(pc).got = cyc[c].got
    BY <1>0 DEF CycleRecord
<1> HIDE DEF At
<1>14. ASSUME cyc[c].pc \in {"read", "mark", "breaker", "count", "funds"},
              NEW pc \in {"mark", "breaker", "count", "funds", "open",
                          "refused", "full", "fail"}
       PROVE  CycleWorks(At(pc)) /\ At(pc) \in CycleRecord
  <2>1. pc \in CyclePCs
      BY DEF CyclePCs
  <2>2. cyc[c].strat \in Strategies /\ cyc[c].got = {}
      BY <1>0, <1>14
  <2> QED
      BY <1>4, <2>1, <2>2
<1>15. ASSUME cyc[c].pc # "idle"
       PROVE  CycleWorks(At("fail")) /\ At("fail") \in CycleRecord
  <2>1. "fail" \in CyclePCs
      BY DEF CyclePCs
  <2>2. cyc[c].strat \in Strategies
      BY <1>0, <1>15
  <2> QED
      BY <1>4, <2>1, <2>2
<1>5. CASE CycleRead(c)
  <2>1. CycleWorks(At("mark")) /\ At("mark") \in CycleRecord
      BY <1>5, <1>14 DEF CycleRead
  <2> QED
      BY <1>0, <1>2, <1>5, <2>1 DEF CycleRead, At
<1>6. CASE CycleMark(c)
  <2>1. CycleWorks(At("breaker")) /\ At("breaker") \in CycleRecord
      BY <1>6, <1>14 DEF CycleMark
  <2>2. Same
      BY <1>0, <1>6, WriteTypes, RiskUnchanged DEF CycleMark, LegTypeOK, Statuses, Same
  <2>3. CycleMove(c, At("breaker"))
      BY <1>6 DEF CycleMark, CycleMove, At
  <2> QED
      BY <1>1, <2>1, <2>2, <2>3
<1>7. CASE CycleBreaker(c)
  <2>1. /\ CycleWorks(At("count")) /\ At("count") \in CycleRecord
        /\ CycleWorks(At("refused")) /\ At("refused") \in CycleRecord
      BY <1>7, <1>14 DEF CycleBreaker
  <2>2. Same
    <3>1. RiskTypeOK'
        BY <1>0, <1>7, RiskUnchanged DEF CycleBreaker, PassBreaker, RiskTypeOK
    <3> QED
        BY <1>0, <1>7, <3>1 DEF CycleBreaker, LegTypeOK, tableVars, Same
  <2>3. CycleMove(c, At("count")) \/ CycleMove(c, At("refused"))
      BY <1>7 DEF CycleBreaker, CycleMove, tableVars, At
  <2> QED
      BY <1>1, <2>1, <2>2, <2>3
<1>8. CASE CycleCount(c)
  <2>1. \A pc \in {"full", "refused", "funds"} :
           CycleWorks(At(pc)) /\ At(pc) \in CycleRecord
      BY <1>8, <1>14 DEF CycleCount
  <2>2. \E pc \in {"full", "refused", "funds"} : cyc' = [cyc EXCEPT ![c] = At(pc)]
      BY <1>8 DEF CycleCount, At
  <2> QED
      BY <1>2, <1>8, <2>1, <2>2 DEF CycleCount
<1>9. CASE CycleFunds(c)
  <2>1. \A pc \in {"open", "refused", "fail"} :
           CycleWorks(At(pc)) /\ At(pc) \in CycleRecord
      BY <1>9, <1>14 DEF CycleFunds
  <2>2. \E pc \in {"open", "refused", "fail"} : cyc' = [cyc EXCEPT ![c] = At(pc)]
      BY <1>9 DEF CycleFunds, At
  <2>3. UNCHANGED <<riskVars, tableVars, legs, held, notCycle>>
      BY <1>9 DEF CycleFunds
  <2> QED
      BY <1>2, <2>1, <2>2, <2>3
<1>10. CASE CycleOpen(c)
  <2>1. CycleWorks(At("fail")) /\ At("fail") \in CycleRecord
      BY <1>10, <1>15 DEF CycleOpen
  <2>2. CASE cyc' = [cyc EXCEPT ![c] = At("fail")] /\ UNCHANGED held
    <3>1. UNCHANGED <<riskVars, tableVars, legs, held, notCycle>>
        BY <1>10, <2>2 DEF CycleOpen
    <3> QED
        BY <1>2, <2>1, <2>2, <3>1
  <2>3. ASSUME NEW g \in (IF cyc[c].got = {} THEN Groups \ InUse ELSE {cyc[c].grp}),
               held' = held \cup {[strat |-> cyc[c].strat, grp |-> g,
                                   side |-> NextSide(c)]},
               cyc' = [cyc EXCEPT ![c].pc = "save", ![c].grp = g]
        PROVE  TypeInv'
    <3> DEFINE cy == [cyc[c] EXCEPT !.pc = "save", !.grp = g]
    <3>0. cyc[c].pc = "open"
        BY <1>10 DEF CycleOpen
    <3>1. g \in Groups /\ cyc[c].strat \in Strategies
        BY <1>0, <2>3, <3>0
    <3>2. cy \in CycleRecord /\ CycleWorks(cy)
      <4>1. cy \in CycleRecord
          BY <1>0, <3>1 DEF CyclePCs, CycleRecord
      <4>2. /\ cy.pc = "save" /\ cy.grp = g /\ cy.strat = cyc[c].strat
            /\ cy.got = cyc[c].got /\ cyc[c].got \in {{}, {"LONG"}}
          BY <1>0, <3>0 DEF CycleRecord
      <4> QED
          BY <3>1, <4>1, <4>2
    <3>3. LegTypeOK'
      <4>1. [strat |-> cyc[c].strat, grp |-> g, side |-> NextSide(c)] \in Legs
          BY <3>1 DEF Legs, NextSide, Sides
      <4>2. legs' = legs
          BY <1>10 DEF CycleOpen
      <4> QED
          BY <1>0, <2>3, <4>1, <4>2 DEF LegTypeOK
    <3>4. Same
        BY <1>0, <1>10, <3>3, RiskUnchanged DEF CycleOpen, tableVars, Same
    <3>5. CycleMove(c, cy)
      <4>1. cyc' = [cyc EXCEPT ![c] = cy]
          BY <1>0, <2>3
      <4> QED
          BY <1>10, <4>1 DEF CycleOpen, CycleMove, tableVars
    <3> QED
        BY <1>1, <3>2, <3>4, <3>5
  <2> QED
      BY <1>10, <2>2, <2>3 DEF CycleOpen, At
<1>11. CASE CycleSave(c)
  <2>1. CycleWorks(At("fail")) /\ At("fail") \in CycleRecord
      BY <1>11, <1>15 DEF CycleSave
  <2>2. CASE cyc' = [cyc EXCEPT ![c] = At("fail")] /\ UNCHANGED legs
    <3>1. UNCHANGED <<riskVars, tableVars, legs, held, notCycle>>
        BY <1>11, <2>2 DEF CycleSave
    <3> QED
        BY <1>2, <2>1, <2>2, <3>1
  <2>3. CASE /\ legs' = legs \cup {LegOf(c)}
             /\ cyc' = [cyc EXCEPT ![c].pc = IF NextSide(c) = "LONG"
                                             THEN "open" ELSE "end",
                                   ![c].got = @ \cup {NextSide(c)}]
    <3> DEFINE cy == [cyc[c] EXCEPT
                        !.pc = IF NextSide(c) = "LONG" THEN "open" ELSE "end",
                        !.got = @ \cup {NextSide(c)}]
    <3>1. /\ cyc[c].grp \in Groups /\ cyc[c].strat \in Strategies
          /\ cyc[c].got \in {{}, {"LONG"}}
        BY <1>0, <1>11 DEF CycleSave
    <3>2. cy \in CycleRecord
        BY <1>0, <3>1 DEF CyclePCs, CycleRecord, NextSide, Sides
    <3>3. CycleWorks(cy)
        BY <1>0, <3>1 DEF CycleRecord, NextSide
    <3>4. LegTypeOK'
        BY <1>0, <1>11, <2>3, <3>1 DEF CycleSave, LegTypeOK, Legs, LegOf, NextSide, Sides
    <3>5. Same
        BY <1>0, <1>11, <3>4, RiskUnchanged DEF CycleSave, tableVars, Same
    <3>6. CycleMove(c, cy)
      <4>1. cyc' = [cyc EXCEPT ![c] = cy]
          BY <1>0, <2>3
      <4> QED
          BY <1>11, <4>1 DEF CycleSave, CycleMove, tableVars
    <3> QED
        BY <1>1, <3>2, <3>3, <3>5, <3>6
  <2> QED
      BY <1>11, <2>2, <2>3 DEF CycleSave, At
<1>12. CASE CycleEnd(c)
  <2>1. Same
      BY <1>0, <1>12, WriteTypes, RiskUnchanged DEF CycleEnd, LegTypeOK, Statuses, Same
  <2>2. CycleMove(c, NoCycle)
      BY <1>12 DEF CycleEnd, CycleMove
  <2> QED
      BY <1>0, <1>1, <2>1, <2>2
<1>13. CASE CycleFail(c)
  <2>1. Same
      BY <1>0, <1>13, WriteTypes, RiskUnchanged DEF CycleFail, LegTypeOK, Statuses, Same
  <2>2. CycleMove(c, NoCycle)
      BY <1>13 DEF CycleFail, CycleMove
  <2> QED
      BY <1>0, <1>1, <2>1, <2>2
<1> QED
    BY <1>3, <1>5, <1>6, <1>7, <1>8, <1>9, <1>10, <1>11, <1>12, <1>13 DEF CycleStep

----------------------------------------------------------------------------
(* A request starts with a record, and a step of it writes another one.      *)
\* A request whose record is replaced by a well-formed one keeps the invariant.
LEMMA RequestMoveTypes ==
    ASSUME TypeInv, NEW r \in Requests, NEW rec \in RequestRecord,
           RequestWorks(rec), req' = [req EXCEPT ![r] = rec], UNCHANGED <<cyc, boot>>,
           RiskTypeOK', TableTypeOK', LegTypeOK', CronTypeOK', HistoryTypeOK'
    PROVE  TypeInv'
<1> USE DEF TypeInv
<1>1. req' \in [Requests -> RequestRecord] /\ \A q \in Requests : RequestWorks(req'[q])
    BY DEF EngineTypeOK
<1>2. BootWorks'
    BY DEF BootWorks
<1> QED
    BY <1>1, <1>2 DEF EngineTypeOK

\* So does one that starts.
LEMMA AskTypes ==
    ASSUME TypeInv, NEW r \in Requests, NEW kind, NEW rec \in RequestRecord,
           RequestWorks(rec), Ask(r, kind, rec), RiskTypeOK', legs' = legs,
           cron' \subseteq cron,
           stopper' \in {stopper, None}
    PROVE  TypeInv'
<1>1. /\ TableTypeOK /\ LegTypeOK /\ CronTypeOK /\ HistoryTypeOK
    BY DEF TypeInv, EngineTypeOK
<1>2. /\ req' = [req EXCEPT ![r] = rec] /\ runs' = [runs EXCEPT ![r] = @ + 1]
      /\ UNCHANGED <<tableVars, held, late, notReq>>
    BY DEF Ask
<1>3. TableTypeOK' /\ LegTypeOK' /\ CronTypeOK'
    BY <1>1, <1>2 DEF TableTypeOK, LegTypeOK, CronTypeOK, tableVars
<1>4. HistoryTypeOK'
    BY <1>1, <1>2 DEF HistoryTypeOK, notReq
<1> QED
    BY <1>2, <1>3, <1>4, RequestMoveTypes DEF notReq

\* Every start of a request keeps the invariant.
LEMMA StartTypes ==
    ASSUME TypeInv, NEW r \in Requests, RequestStart(r)
    PROVE  TypeInv'
<1>0. /\ RiskTypeOK /\ stopper \in Requests \cup {None, Done}
      /\ FirstLimit \in Limits /\ "IDLE" \in Statuses
    BY LimitsAssumption DEF TypeInv, EngineTypeOK, HistoryTypeOK, Statuses
<1>1. ASSUME NEW s \in Strategies, RemoveStart(r, s) PROVE TypeInv'
  <2> DEFINE rec == [NoRequest EXCEPT !.pc = "remove.delete", !.strat = s]
  <2>1. rec \in RequestRecord /\ RequestWorks(rec)
      BY <1>0 DEF NoRequest, RequestRecord, RequestPCs, RequestWorks
  <2>2. Ask(r, "remove", rec)
      BY <1>1 DEF RemoveStart
  <2>3. cron' \subseteq cron /\ legs' = legs /\ stopper' \in {stopper, None}
      BY <1>1 DEF RemoveStart
  <2>4. RiskTypeOK'
      BY <1>0, <1>1, RiskUnchanged DEF RemoveStart
  <2> HIDE DEF rec
  <2> QED
      BY <2>1, <2>2, <2>3, <2>4, AskTypes
<1>2. ASSUME NEW s \in Strategies, NEW act \in BOOLEAN, CreateStart(r, s, act)
      PROVE  TypeInv'
  <2> DEFINE rec == [NoRequest EXCEPT !.pc = "create.write", !.strat = s, !.act = act]
  <2>1. rec \in RequestRecord /\ RequestWorks(rec)
      BY <1>0 DEF NoRequest, RequestRecord, RequestPCs, RequestWorks
  <2>2. Ask(r, "create", rec)
      BY <1>2 DEF CreateStart
  <2>3. cron' \subseteq cron /\ legs' = legs /\ stopper' \in {stopper, None}
      BY <1>2 DEF CreateStart, Promise
  <2>4. RiskTypeOK'
      BY <1>0, <1>2, RiskUnchanged DEF CreateStart
  <2> HIDE DEF rec
  <2> QED
      BY <2>1, <2>2, <2>3, <2>4, AskTypes
<1>3. ASSUME NEW s \in Strategies, NEW act \in BOOLEAN, NEW keep \in BOOLEAN,
             UpdateStart(r, s, act, keep)
      PROVE  TypeInv'
  <2> DEFINE rec == [NoRequest EXCEPT !.pc = "update.write", !.strat = s,
                                  !.act = act, !.keep = keep]
  <2>1. rec \in RequestRecord /\ RequestWorks(rec)
      BY <1>0 DEF NoRequest, RequestRecord, RequestPCs, RequestWorks
  <2>2. Ask(r, "update", rec)
      BY <1>3 DEF UpdateStart
  <2>3. cron' \subseteq cron /\ legs' = legs /\ stopper' \in {stopper, None}
      BY <1>3 DEF UpdateStart, Promise
  <2>4. RiskTypeOK'
      BY <1>0, <1>3, RiskUnchanged DEF UpdateStart
  <2> HIDE DEF rec
  <2> QED
      BY <2>1, <2>2, <2>3, <2>4, AskTypes
<1>4. ASSUME NEW s \in Strategies, NEW status \in Statuses, StatusStart(r, s, status)
      PROVE  TypeInv'
  <2> DEFINE rec == [NoRequest EXCEPT !.pc = "status.write", !.strat = s,
                                  !.act = (status = "RUNNING"), !.status = status]
  <2>1. rec \in RequestRecord /\ RequestWorks(rec)
      BY <1>0 DEF NoRequest, RequestRecord, RequestPCs, RequestWorks
  <2>2. Ask(r, "status", rec)
      BY <1>4 DEF StatusStart
  <2>3. cron' \subseteq cron /\ legs' = legs /\ stopper' \in {stopper, None}
      BY <1>4 DEF StatusStart, Promise
  <2>4. RiskTypeOK'
      BY <1>0, <1>4, RiskUnchanged DEF StatusStart
  <2> HIDE DEF rec
  <2> QED
      BY <2>1, <2>2, <2>3, <2>4, AskTypes
<1>5. CASE StopStart(r)
  <2> DEFINE rec == [NoRequest EXCEPT !.pc = "stop.read"]
  <2>1. rec \in RequestRecord /\ RequestWorks(rec)
      BY <1>0 DEF NoRequest, RequestRecord, RequestPCs, RequestWorks
  <2>2. Ask(r, "stop", rec)
      BY <1>5 DEF StopStart
  <2>3. RiskTypeOK'
      BY <1>0, <1>5 DEF StopStart, TriggerBreaker, RiskTypeOK
  <2>4. cron' \subseteq cron /\ legs' = legs /\ stopper' \in {stopper, None}
      BY <1>5 DEF StopStart
  <2> HIDE DEF rec
  <2> QED
      BY <2>1, <2>2, <2>3, <2>4, AskTypes
<1>6. CASE ResetRequest(r)
  <2>1. RiskTypeOK'
    <3>1. 0 \in 0..MaxLosses
        BY MaxLossesAssumption
    <3> QED
        BY <1>0, <1>6, <3>1 DEF ResetRequest, ResetBreaker, RiskTypeOK
  <2>2. /\ Ask(r, "reset", NoRequest)
        /\ cron' \subseteq cron /\ legs' = legs /\ stopper' \in {stopper, None}
      BY <1>6 DEF ResetRequest
  <2> QED
      BY <2>1, <2>2, AskTypes, NoRecords
<1>7. ASSUME NEW n \in Limits, ParamsStart(r, n) PROVE TypeInv'
  <2> DEFINE rec == [NoRequest EXCEPT !.pc = "params.save", !.limit = n]
  <2>1. rec \in RequestRecord /\ RequestWorks(rec)
      BY <1>0 DEF NoRequest, RequestRecord, RequestPCs, RequestWorks
  <2>2. Ask(r, "params", rec)
      BY <1>7 DEF ParamsStart
  <2>3. RiskTypeOK'
      BY <1>0, <1>7 DEF ParamsStart, SetLimit, RiskTypeOK
  <2>4. cron' \subseteq cron /\ legs' = legs /\ stopper' \in {stopper, None}
      BY <1>7 DEF ParamsStart
  <2> HIDE DEF rec
  <2> QED
      BY <2>1, <2>2, <2>3, <2>4, AskTypes
<1> QED
    BY <1>1, <1>2, <1>3, <1>4, <1>5, <1>6, <1>7 DEF RequestStart

\* Every later step of a request keeps it.
LEMMA RequestTypes ==
    ASSUME TypeInv, NEW r \in Requests, RequestStep(r)
    PROVE  TypeInv'
<1> DEFINE Rows == TableTypeOK' /\ LegTypeOK' /\ CronTypeOK' /\ HistoryTypeOK'
           Moves == \E rec \in RequestRecord :
                       RequestWorks(rec) /\ req' = [req EXCEPT ![r] = rec]
<1>0. /\ req \in [Requests -> RequestRecord] /\ req[r] \in RequestRecord
      /\ RequestWorks(req[r])
      /\ RiskTypeOK /\ TableTypeOK /\ LegTypeOK /\ CronTypeOK /\ HistoryTypeOK
      /\ NoRequest \in RequestRecord /\ RequestWorks(NoRequest)
    BY NoRecords DEF TypeInv, EngineTypeOK
<1>1. ASSUME Rows, Moves, RiskTypeOK', UNCHANGED <<cyc, boot>> PROVE TypeInv'
    BY <1>1, RequestMoveTypes
<1>2. ASSUME ReqDone(r) PROVE Moves
    BY <1>0, <1>2 DEF ReqDone
<1>3. ASSUME NEW pc \in RequestPCs, ReqGoto(r, pc),
             pc \in {"register", "schedule", "stop.write"} => req[r].strat \in Strategies,
             pc \notin {"create.write", "update.write", "status.write", "remove.delete"}
      PROVE  Moves
  <2> DEFINE rec == [req[r] EXCEPT !.pc = pc]
  <2>1. rec \in RequestRecord /\ RequestWorks(rec)
      BY <1>0, <1>3 DEF RequestRecord, RequestWorks
  <2>2. req' = [req EXCEPT ![r] = rec]
      BY <1>0, <1>3 DEF ReqGoto
  <2> QED
      BY <2>1, <2>2
<1>4. \A pc \in {"register", "schedule", "stop.next", "stop.write", "stop.list"} :
         pc \in RequestPCs
    BY DEF RequestPCs
<1> HIDE DEF Moves
<1>5. CASE CreateWrite(r)
  <2>1. req[r].strat \in Strategies
      BY <1>0, <1>5 DEF CreateWrite, ReqAt, RequestWorks
  <2>2. ReqGoto(r, "register")
      BY <1>5 DEF CreateWrite
  <2>3. Moves
      BY <1>3, <1>4, <2>1, <2>2
  <2>4. TableTypeOK'
    <3>1. req[r].act \in BOOLEAN
        BY <1>0 DEF RequestRecord
    <3>2. exists' \subseteq Strategies /\ active' \in [Strategies -> BOOLEAN]
        BY <1>0, <1>5, <2>1, <3>1 DEF CreateWrite, TableTypeOK
    <3>3. st' \in [Strategies -> Statuses]
        BY <1>0, <1>5 DEF CreateWrite, TableTypeOK, Statuses
    <3> QED
        BY <3>2, <3>3 DEF TableTypeOK
  <2>5. LegTypeOK' /\ CronTypeOK' /\ HistoryTypeOK' /\ RiskTypeOK'
        /\ UNCHANGED <<cyc, boot>>
      BY <1>0, <1>5, RiskUnchanged
         DEF CreateWrite, LegTypeOK, CronTypeOK, HistoryTypeOK, notReq
  <2> QED
      BY <1>1, <2>3, <2>4, <2>5
<1>6. CASE UpdateWrite(r)
  <2>1. req[r].strat \in Strategies /\ req[r].act \in BOOLEAN
      BY <1>0, <1>6 DEF UpdateWrite, ReqAt, RequestWorks, RequestRecord
  <2> DEFINE act == IF req[r].keep THEN active[req[r].strat] ELSE req[r].act
  <2>2. act \in BOOLEAN
      BY <1>0, <2>1 DEF TableTypeOK
  <2>3. Moves
    <3>1. CASE ReqDone(r)
        BY <1>2, <3>1
    <3>2. CASE req' = [req EXCEPT ![r].pc = "register", ![r].act = act]
      <4> DEFINE rec == [req[r] EXCEPT !.pc = "register", !.act = act]
      <4> HIDE DEF act
      <4>1. rec \in RequestRecord /\ RequestWorks(rec)
          BY <1>0, <1>4, <2>1, <2>2 DEF RequestRecord, RequestWorks
      <4>2. req' = [req EXCEPT ![r] = rec]
          BY <1>0, <3>2
      <4> QED
          BY <4>1, <4>2 DEF Moves
    <3> QED
        BY <1>6, <3>1, <3>2 DEF UpdateWrite
  <2>4. TableTypeOK'
    <3>1. /\ UNCHANGED <<exists, st>>
          /\ active' = active \/ active' = [active EXCEPT ![req[r].strat] = act]
        BY <1>6 DEF UpdateWrite
    <3> HIDE DEF act
    <3> QED
        BY <1>0, <2>1, <2>2, <3>1 DEF TableTypeOK
  <2>5. LegTypeOK' /\ CronTypeOK' /\ HistoryTypeOK' /\ RiskTypeOK'
        /\ UNCHANGED <<cyc, boot>>
    <3>1. UNCHANGED <<riskVars, legs, held, cron, late, notReq, runs, stopper>>
        BY <1>6 DEF UpdateWrite
    <3> QED
        BY <1>0, <3>1, RiskUnchanged DEF LegTypeOK, CronTypeOK, HistoryTypeOK, notReq
  <2> QED
      BY <1>1, <2>3, <2>4, <2>5
<1>7. CASE StatusWrite(r)
  <2>1. /\ req[r].strat \in Strategies /\ req[r].act \in BOOLEAN
        /\ req[r].status \in Statuses
      BY <1>0, <1>7 DEF StatusWrite, ReqAt, RequestWorks, RequestRecord
  <2>2. ReqGoto(r, "schedule") \/ ReqDone(r)
      BY <1>7 DEF StatusWrite
  <2>3. Moves
      BY <1>2, <1>3, <1>4, <2>1, <2>2
  <2>4. TableTypeOK'
    <3>1. /\ exists' = exists
          /\ \/ UNCHANGED <<active, st>>
             \/ /\ active' = [active EXCEPT ![req[r].strat] = req[r].act]
                /\ st' = [st EXCEPT ![req[r].strat] = req[r].status]
        BY <1>7 DEF StatusWrite
    <3> QED
        BY <1>0, <2>1, <3>1 DEF TableTypeOK
  <2>5. LegTypeOK' /\ CronTypeOK' /\ HistoryTypeOK' /\ RiskTypeOK'
        /\ UNCHANGED <<cyc, boot>>
    <3>1. UNCHANGED <<riskVars, legs, held, cron, late, notReq, runs, stopper>>
        BY <1>7 DEF StatusWrite
    <3> QED
        BY <1>0, <3>1, RiskUnchanged DEF LegTypeOK, CronTypeOK, HistoryTypeOK, notReq
  <2> QED
      BY <1>1, <2>3, <2>4, <2>5
<1>8. CASE Schedule(r)
  <2>1. req[r].strat \in Strategies /\ Moves
      BY <1>0, <1>2, <1>8 DEF Schedule, RequestWorks
  <2>2. CronTypeOK'
      BY <1>0, <1>8, <2>1 DEF Schedule, Register, Unregister, CronTypeOK
  <2>3. TableTypeOK' /\ LegTypeOK' /\ HistoryTypeOK' /\ RiskTypeOK'
        /\ UNCHANGED <<cyc, boot>>
    <3>1. UNCHANGED <<riskVars, tableVars, legs, held, notReq, runs, stopper>>
        BY <1>8 DEF Schedule
    <3> QED
        BY <1>0, <3>1, RiskUnchanged
           DEF TableTypeOK, tableVars, LegTypeOK, HistoryTypeOK, notReq
  <2> QED
      BY <1>1, <2>1, <2>2, <2>3
<1>9. CASE RemoveDelete(r)
  <2>1. Moves
      BY <1>2, <1>9 DEF RemoveDelete
  <2>2. RiskTypeOK' /\ TableTypeOK' /\ LegTypeOK' /\ CronTypeOK' /\ HistoryTypeOK'
        /\ UNCHANGED <<cyc, boot>>
      BY <1>0, <1>9, RiskUnchanged
         DEF RemoveDelete, TableTypeOK, LegTypeOK, CronTypeOK, HistoryTypeOK, notReq
  <2> QED
      BY <1>1, <2>1, <2>2
<1>10. CASE StopRead(r)
  <2> DEFINE rec == [req[r] EXCEPT !.pc = "stop.next",
                                   !.todo = {s \in exists : active[s]}]
  <2>1. rec \in RequestRecord /\ RequestWorks(rec)
      BY <1>0, <1>4 DEF RequestRecord, RequestWorks, TableTypeOK
  <2>2. req' = [req EXCEPT ![r] = rec]
      BY <1>0, <1>10 DEF StopRead
  <2>3. Moves
      BY <2>1, <2>2 DEF Moves
  <2>4. /\ UNCHANGED <<riskVars, tableVars, legs, held, cron, late, notReq, runs>>
        /\ stopper' \in {stopper, r}
      BY <1>10 DEF StopRead
  <2>5. RiskTypeOK' /\ TableTypeOK' /\ LegTypeOK' /\ CronTypeOK' /\ HistoryTypeOK'
        /\ UNCHANGED <<cyc, boot>>
      BY <1>0, <2>4, RiskUnchanged
         DEF tableVars, TableTypeOK, LegTypeOK, CronTypeOK, HistoryTypeOK, notReq
  <2> QED
      BY <1>1, <2>3, <2>5
<1>11. CASE StopNext(r)
  <2>1. CASE /\ ReqGoto(r, "stop.list") /\ UNCHANGED <<cron, late>>
    <3>1. Moves
        BY <1>3, <1>4, <2>1
    <3>2. RiskTypeOK' /\ TableTypeOK' /\ LegTypeOK' /\ CronTypeOK' /\ HistoryTypeOK'
          /\ UNCHANGED <<cyc, boot>>
      <4>1. UNCHANGED <<riskVars, tableVars, legs, held, notReq, runs, stopper>>
          BY <1>11 DEF StopNext
      <4> QED
          BY <1>0, <2>1, <4>1, RiskUnchanged DEF tableVars, TableTypeOK, LegTypeOK,
             CronTypeOK, HistoryTypeOK, notReq
    <3> QED
        BY <1>1, <3>1, <3>2
  <2>2. ASSUME NEW s \in req[r].todo, Unregister(s),
               req' = [req EXCEPT ![r].pc = "stop.write", ![r].strat = s,
                                  ![r].todo = @ \ {s}]
        PROVE  TypeInv'
    <3> DEFINE rec == [req[r] EXCEPT !.pc = "stop.write", !.strat = s,
                                     !.todo = @ \ {s}]
    <3>1. rec \in RequestRecord /\ RequestWorks(rec)
        BY <1>0, <1>4 DEF RequestRecord, RequestWorks
    <3>2. req' = [req EXCEPT ![r] = rec]
        BY <1>0, <2>2
    <3>3. Moves
        BY <3>1, <3>2 DEF Moves
    <3>4. UNCHANGED <<riskVars, tableVars, legs, held, notReq, runs, stopper>>
        BY <1>11 DEF StopNext
    <3>5. RiskTypeOK' /\ TableTypeOK' /\ LegTypeOK' /\ CronTypeOK' /\ HistoryTypeOK'
          /\ UNCHANGED <<cyc, boot>>
        BY <1>0, <2>2, <3>4, RiskUnchanged DEF Unregister, tableVars, TableTypeOK,
           LegTypeOK, CronTypeOK, HistoryTypeOK, notReq
    <3> QED
        BY <1>1, <3>3, <3>5
  <2> QED
      BY <1>11, <2>1, <2>2 DEF StopNext
<1>12. CASE StopWrite(r)
  <2>1. req[r].strat \in Strategies
      BY <1>0, <1>12 DEF StopWrite, ReqAt, RequestWorks
  <2>2. ReqGoto(r, "stop.next") \/ ReqDone(r)
      BY <1>12 DEF StopWrite
  <2>3. Moves
      BY <1>2, <1>3, <1>4, <2>2
  <2>4. TableTypeOK'
    <3>1. /\ exists' = exists
          /\ \/ UNCHANGED <<active, st>>
             \/ /\ active' = [active EXCEPT ![req[r].strat] = FALSE]
                /\ st' = [st EXCEPT ![req[r].strat] = "PAUSED"]
        BY <1>12 DEF StopWrite
    <3>2. "PAUSED" \in Statuses
        BY DEF Statuses
    <3> QED
        BY <1>0, <2>1, <3>1, <3>2 DEF TableTypeOK
  <2>5. LegTypeOK' /\ CronTypeOK' /\ HistoryTypeOK' /\ RiskTypeOK'
        /\ UNCHANGED <<cyc, boot>>
    <3>1. /\ UNCHANGED <<riskVars, legs, held, cron, late, notReq, runs>>
          /\ stopper' \in {stopper, None}
        BY <1>12 DEF StopWrite
    <3> QED
        BY <1>0, <3>1, RiskUnchanged DEF LegTypeOK, CronTypeOK, HistoryTypeOK, notReq
  <2> QED
      BY <1>1, <2>3, <2>4, <2>5
<1>13. CASE StopList(r)
  <2> DEFINE rec == [req[r] EXCEPT !.pc = "stop.close", !.closing = legs]
  <2>1. rec \in RequestRecord /\ RequestWorks(rec)
      BY <1>0 DEF RequestRecord, RequestPCs, RequestWorks, LegTypeOK
  <2>2. req' = [req EXCEPT ![r] = rec]
      BY <1>0, <1>13 DEF StopList
  <2>3. Moves
      BY <2>1, <2>2 DEF Moves
  <2>4. RiskTypeOK' /\ TableTypeOK' /\ LegTypeOK' /\ CronTypeOK' /\ HistoryTypeOK'
        /\ UNCHANGED <<cyc, boot>>
      BY <1>0, <1>13, RiskUnchanged DEF StopList, tableVars, TableTypeOK, LegTypeOK,
         CronTypeOK, HistoryTypeOK, notReq
  <2> QED
      BY <1>1, <2>3, <2>4
<1>14. CASE StopDone(r)
  <2>1. Moves
      BY <1>2, <1>14 DEF StopDone
  <2>2. /\ UNCHANGED <<riskVars, tableVars, legs, held, cron, late, notReq, runs>>
        /\ stopper' \in {stopper, Done}
      BY <1>14 DEF StopDone
  <2>3. RiskTypeOK' /\ TableTypeOK' /\ LegTypeOK' /\ CronTypeOK' /\ HistoryTypeOK'
        /\ UNCHANGED <<cyc, boot>>
      BY <1>0, <2>2, RiskUnchanged DEF tableVars, TableTypeOK, LegTypeOK, CronTypeOK,
         HistoryTypeOK, notReq
  <2> QED
      BY <1>1, <2>1, <2>3
<1>15. ASSUME NEW l \in Legs, StopClose(r, l) PROVE TypeInv'
  <2> DEFINE rec == [req[r] EXCEPT !.closing = @ \ {l}]
  <2>1. rec \in RequestRecord /\ RequestWorks(rec)
      BY <1>0 DEF RequestRecord, RequestWorks
  <2>2. req' = [req EXCEPT ![r] = rec]
      BY <1>0, <1>15 DEF StopClose
  <2>3. Moves
      BY <2>1, <2>2 DEF Moves
  <2>4. RiskTypeOK'
      BY <1>0, <1>15, RiskUnchanged DEF StopClose
  <2>5. LegTypeOK'
      BY <1>0, <1>15 DEF StopClose, LegTypeOK
  <2>6. TableTypeOK' /\ CronTypeOK' /\ HistoryTypeOK' /\ UNCHANGED <<cyc, boot>>
      BY <1>0, <1>15 DEF StopClose, tableVars, TableTypeOK, CronTypeOK,
         HistoryTypeOK, notReq
  <2> QED
      BY <1>1, <2>3, <2>4, <2>5, <2>6
<1>16. CASE ParamsSave(r)
  <2>1. Moves
      BY <1>2, <1>16 DEF ParamsSave
  <2>2. RiskTypeOK'
    <3>1. req[r].limit \in Limits
        BY <1>0 DEF RequestRecord
    <3> QED
        BY <1>0, <1>16, <3>1 DEF ParamsSave, SaveLimit, RiskTypeOK, memoryVars
  <2>3. TableTypeOK' /\ LegTypeOK' /\ CronTypeOK' /\ HistoryTypeOK'
        /\ UNCHANGED <<cyc, boot>>
      BY <1>0, <1>16 DEF ParamsSave, tableVars, TableTypeOK, LegTypeOK, CronTypeOK,
         HistoryTypeOK, notReq
  <2> QED
      BY <1>1, <2>1, <2>2, <2>3
<1> QED
    BY <1>5, <1>6, <1>7, <1>8, <1>9, <1>10, <1>11, <1>12, <1>13, <1>14, <1>15, <1>16
       DEF RequestStep

----------------------------------------------------------------------------
(* The remaining steps.                                                      *)
\* The late write of RUNNING keeps it.
LEMMA LateTypes == ASSUME TypeInv, NEW s \in Strategies, LateWrite(s) PROVE TypeInv'
<1>0. RiskTypeOK /\ TableTypeOK /\ LegTypeOK /\ CronTypeOK /\ HistoryTypeOK
    BY DEF TypeInv, EngineTypeOK
<1>1. /\ Write(s, "RUNNING") /\ late' = late \ {s}
      /\ UNCHANGED <<riskVars, exists, active, legs, held, cron, cyc, req, boot,
                     countVars, stopper>>
    BY DEF LateWrite
<1>2. "RUNNING" \in Statuses
    BY DEF Statuses
<1>3. TableTypeOK' /\ CronTypeOK'
    BY <1>0, <1>1, <1>2, WriteTypes DEF TableTypeOK, CronTypeOK
<1>4. RiskTypeOK' /\ LegTypeOK' /\ HistoryTypeOK'
    BY <1>0, <1>1, RiskUnchanged DEF LegTypeOK, HistoryTypeOK, countVars
<1> QED
    BY <1>1, <1>3, <1>4 DEF TypeInv, EngineTypeOK, BootWorks

\* The hourly clean-up keeps it.
LEMMA CleanupTypes == ASSUME TypeInv, Cleanup PROVE TypeInv'
<1>0. RiskTypeOK /\ TableTypeOK /\ LegTypeOK /\ CronTypeOK /\ HistoryTypeOK
    BY DEF TypeInv, EngineTypeOK
<1>1. UNCHANGED <<riskVars, exists, active, legs, held, cyc, notCycle>>
    BY DEF Cleanup
<1>2. st' \in [Strategies -> Statuses]
    BY <1>0 DEF Cleanup, TableTypeOK, Statuses
<1>3. RiskTypeOK' /\ TableTypeOK' /\ LegTypeOK' /\ CronTypeOK' /\ HistoryTypeOK'
    BY <1>0, <1>1, <1>2, RiskUnchanged DEF TableTypeOK, LegTypeOK, CronTypeOK,
       HistoryTypeOK, notCycle, countVars
<1>4. UNCHANGED <<cyc, req, boot>>
    BY <1>1 DEF notCycle
<1> QED
    BY <1>3, <1>4 DEF TypeInv, EngineTypeOK, BootWorks

\* The close of a leg keeps it.
LEMMA CloseTypes ==
    ASSUME TypeInv, NEW l \in Legs, CloseLeg(l)
    PROVE  TypeInv'
<1>0. RiskTypeOK /\ TableTypeOK /\ LegTypeOK /\ CronTypeOK /\ HistoryTypeOK
    BY DEF TypeInv, EngineTypeOK
<1>1. UNCHANGED <<tableVars, cyc, notCycle>>
    BY DEF CloseLeg
<1>2. RiskTypeOK' /\ LegTypeOK'
    BY <1>0, RiskUnchanged DEF CloseLeg, LegTypeOK
<1>3. TableTypeOK' /\ CronTypeOK' /\ HistoryTypeOK'
    BY <1>0, <1>1 DEF TableTypeOK, tableVars, CronTypeOK, HistoryTypeOK, notCycle,
       countVars
<1>4. UNCHANGED <<cyc, req, boot>>
    BY <1>1 DEF notCycle
<1> QED
    BY <1>2, <1>3, <1>4 DEF TypeInv, EngineTypeOK, BootWorks

\* The timers of the risk service keep it.
LEMMA TimerTypes == ASSUME TypeInv, Timer PROVE TypeInv'
<1>0. RiskTypeOK /\ TableTypeOK /\ LegTypeOK /\ CronTypeOK /\ HistoryTypeOK
    BY DEF TypeInv, EngineTypeOK
<1>1. UNCHANGED <<tableVars, legs, held, cyc, notCycle>>
    BY DEF Timer
<1>2. RiskTypeOK'
    BY <1>0 DEF Timer, CoolDown, RuntimeMonitor, TriggerBreaker, RiskTypeOK
<1>3. TableTypeOK' /\ LegTypeOK' /\ CronTypeOK' /\ HistoryTypeOK'
    BY <1>0, <1>1 DEF TableTypeOK, tableVars, LegTypeOK, CronTypeOK, HistoryTypeOK,
       notCycle, countVars
<1>4. UNCHANGED <<cyc, req, boot>>
    BY <1>1 DEF notCycle
<1> QED
    BY <1>2, <1>3, <1>4 DEF TypeInv, EngineTypeOK, BootWorks

\* A restart keeps it.
LEMMA RestartTypes == ASSUME TypeInv, Restart PROVE TypeInv'
<1>0. RiskTypeOK /\ TableTypeOK /\ LegTypeOK /\ CronTypeOK /\ HistoryTypeOK
    BY DEF TypeInv, EngineTypeOK
<1>1. RiskTypeOK'
  <2>1. 0 \in 0..MaxLosses
      BY MaxLossesAssumption
  <2> QED
      BY <1>0, <2>1 DEF Restart, RiskRestart, RiskTypeOK
<1>2. TableTypeOK' /\ LegTypeOK' /\ CronTypeOK' /\ HistoryTypeOK'
  <2>1. TableTypeOK' /\ LegTypeOK' /\ CronTypeOK'
      BY <1>0 DEF Restart, TableTypeOK, tableVars, LegTypeOK, CronTypeOK
  <2>2. HistoryTypeOK'
      BY <1>0 DEF Restart, HistoryTypeOK
  <2> QED
      BY <2>1, <2>2
<1>3. /\ cyc' \in [Slots -> CycleRecord] /\ \A c \in Slots : CycleWorks(cyc'[c])
      /\ req' \in [Requests -> RequestRecord] /\ \A r \in Requests : RequestWorks(req'[r])
    BY NoRecords DEF Restart
<1>4. boot' \in BootRecord /\ BootWorks'
    BY DEF Restart, Booted, BootRecord, BootWorks
<1> QED
    BY <1>1, <1>2, <1>3, <1>4 DEF TypeInv, EngineTypeOK

\* The loading of the strategies keeps it.
LEMMA BootTypes == ASSUME TypeInv, BootStep PROVE TypeInv'
<1> DEFINE Boots == boot' \in BootRecord /\ BootWorks'
<1>0. /\ RiskTypeOK /\ TableTypeOK /\ LegTypeOK /\ CronTypeOK /\ HistoryTypeOK
      /\ boot \in BootRecord /\ BootWorks /\ Booted \in BootRecord
    BY NoRecords DEF TypeInv, EngineTypeOK
<1>1. ASSUME Boots, TableTypeOK', CronTypeOK',
             UNCHANGED <<riskVars, legs, held, cyc, req, countVars, stopper>>
      PROVE  TypeInv'
  <2>1. RiskTypeOK' /\ LegTypeOK' /\ HistoryTypeOK'
      BY <1>0, <1>1, RiskUnchanged DEF LegTypeOK, HistoryTypeOK, countVars
  <2> QED
      BY <1>1, <2>1 DEF TypeInv, EngineTypeOK
<1>2. ASSUME boot' = Booted PROVE Boots
    BY <1>0, <1>2 DEF BootWorks, Booted
<1>3. CASE BootRead
  <2>1. Boots
      BY <1>0, <1>3 DEF BootRead, BootRecord, BootWorks, TableTypeOK
  <2>2. TableTypeOK' /\ CronTypeOK'
      BY <1>0, <1>3 DEF BootRead, TableTypeOK, tableVars, CronTypeOK
  <2> QED
      BY <1>1, <1>3, <2>1, <2>2 DEF BootRead
<1>4. CASE BootWrite
  <2>1. boot.cur \in Strategies
      BY <1>0, <1>4 DEF BootWrite, BootWorks
  <2>2. Boots
    <3>1. CASE boot' = [boot EXCEPT !.pc = "next", !.todo = @ \cup {boot.cur},
                                    !.stale = @ \ {boot.cur}]
        BY <1>0, <2>1, <3>1 DEF BootRecord, BootWorks
    <3> QED
        BY <1>2, <1>4, <3>1 DEF BootWrite
  <2>3. TableTypeOK' /\ CronTypeOK'
    <3>1. /\ UNCHANGED <<exists, cron, late>>
          /\ \/ UNCHANGED <<active, st>>
             \/ /\ active' = [active EXCEPT ![boot.cur] = TRUE]
                /\ st' = [st EXCEPT ![boot.cur] = "RUNNING"]
        BY <1>4 DEF BootWrite
    <3> QED
        BY <1>0, <2>1, <3>1 DEF TableTypeOK, CronTypeOK, Statuses
  <2> QED
      BY <1>1, <1>4, <2>2, <2>3 DEF BootWrite
<1>5. CASE BootDone
  <2>1. TableTypeOK' /\ CronTypeOK'
      BY <1>0, <1>5 DEF BootDone, TableTypeOK, tableVars, CronTypeOK
  <2> QED
      BY <1>1, <1>2, <1>5, <2>1 DEF BootDone
<1>6. ASSUME NEW s \in Strategies, BootNext(s) PROVE TypeInv'
  <2>1. Boots
    <3>1. CASE boot' = [boot EXCEPT !.pc = "write", !.cur = s, !.todo = @ \ {s}]
        BY <1>0, <3>1 DEF BootRecord, BootWorks
    <3>2. CASE boot' = [boot EXCEPT !.todo = @ \ {s}, !.cur = None]
      <4>1. boot.pc = "next"
          BY <1>6 DEF BootNext
      <4> QED
          BY <1>0, <3>2, <4>1 DEF BootRecord, BootWorks
    <3> QED
        BY <1>6, <3>1, <3>2 DEF BootNext
  <2>2. TableTypeOK' /\ CronTypeOK'
      BY <1>0, <1>6 DEF BootNext, Register, TableTypeOK, tableVars, CronTypeOK
  <2> QED
      BY <1>1, <1>6, <2>1, <2>2 DEF BootNext
<1> QED
    BY <1>3, <1>4, <1>5, <1>6 DEF BootStep

\* A step that changes nothing keeps it.
LEMMA RestTypes == ASSUME TypeInv, UNCHANGED vars PROVE TypeInv'
<1>1. /\ UNCHANGED riskVars
      /\ UNCHANGED <<exists, active, st, legs, held, cron, late, cyc, req, boot, runs,
                     restarts, stopper>>
    BY DEF vars, tableVars, countVars
<1>2. RiskTypeOK'
    BY <1>1, RiskUnchanged DEF TypeInv, EngineTypeOK
<1> QED
    BY <1>1, <1>2 DEF TypeInv, EngineTypeOK, TableTypeOK, LegTypeOK, CronTypeOK,
       HistoryTypeOK, BootWorks

\* The invariant is inductive.
LEMMA TypeStep == TypeInv /\ [Next]_vars => TypeInv'
BY CycleTypes, LateTypes, CloseTypes, StartTypes, RequestTypes, CleanupTypes,
   TimerTypes, RestartTypes, BootTypes, RestTypes DEF Next, Rest

\* Whatever requests, cycles, closes and restarts follow one another, the
\* tables, the registry, the breaker and every call chain keep their types: no
\* status the consumers do not know is ever written, no chain works on nothing.
THEOREM EngineTypeCorrect == Spec => []EngineTypeOK
<1>1. TypeInv => EngineTypeOK
    BY DEF TypeInv
<1> QED
    BY <1>1, TypeInit, TypeStep, PTL DEF Spec

============================================================================
