------------------------- MODULE EngineSafetyProofs -------------------------
(***************************************************************************)
(* Safety of the strategy engine, three invariants: the position limit     *)
(* under overlapping cycles (LegLimit), what an emergency stop settles     *)
(* (StopIsFinal), and that every active strategy has its cron job          *)
(* (ActiveIsScheduled).                                                    *)
(***************************************************************************)
EXTENDS StrategyEngineProofs

(***************************************************************************)
(* The limit.  A cycle that has passed checkBeforeOpen will open both of   *)
(* its legs, so the legs that cycles in flight may still save count        *)
(* together with the saved ones.  Only the check itself adds to what is    *)
(* pending, and it runs only when fewer legs than the limit are saved;     *)
(* saving turns a pending leg into a saved one.                            *)
(***************************************************************************)

\* The legs that cycles of s may still save.
Pending(s) ==
    {p \in Slots \X Sides :
        /\ cyc[p[1]].strat = s
        /\ cyc[p[1]].pc \in {"funds", "open", "save"}
        /\ p[2] \notin cyc[p[1]].got}

LegBound(s) == OwnLimit[s] - 1 + 2 * Cardinality(Slots)

LimitInv ==
    /\ IsFiniteSet(legs)
    /\ \A s \in Strategies :
          Cardinality(LegsOf(s)) + Cardinality(Pending(s)) <= LegBound(s)

----------------------------------------------------------------------------
\* Slots and sides make at most two pairs a slot.
LEMMA PairsBound ==
    ASSUME NEW P \in SUBSET (Slots \X Sides)
    PROVE  /\ IsFiniteSet(P) /\ Cardinality(P) \in Nat
           /\ Cardinality(P) <= 2 * Cardinality(Slots)
           /\ Cardinality(Slots) \in Nat
<1>1. IsFiniteSet(Sides) /\ Cardinality(Sides) = 2
  <2>1. IsFiniteSet({"LONG"}) /\ Cardinality({"LONG"}) = 1
      BY FS_Singleton
  <2>2. {"LONG"} \cup {"SHORT"} = Sides /\ "SHORT" \notin {"LONG"}
      BY DEF Sides
  <2> QED
      BY <2>1, <2>2, FS_AddElement
<1>2. IsFiniteSet(Slots) /\ Cardinality(Slots) \in Nat
    BY FiniteAssumption, FS_CardinalityType
<1>3. /\ IsFiniteSet(Slots \X Sides)
      /\ Cardinality(Slots \X Sides) = Cardinality(Slots) * Cardinality(Sides)
    BY <1>1, <1>2, FS_Product
<1>4. IsFiniteSet(P) /\ Cardinality(P) <= Cardinality(Slots \X Sides)
    BY <1>3, FS_Subset
<1>5. Cardinality(P) \in Nat
    BY <1>4, FS_CardinalityType
<1> QED
    BY <1>1, <1>2, <1>3, <1>4, <1>5

\* So at most two legs a slot are pending.
LEMMA PendingBound ==
    ASSUME NEW s
    PROVE  /\ IsFiniteSet(Pending(s)) /\ Cardinality(Pending(s)) \in Nat
           /\ Cardinality(Pending(s)) <= 2 * Cardinality(Slots)
           /\ IsFiniteSet(Pending(s)') /\ Cardinality(Pending(s)') \in Nat
           /\ Cardinality(Pending(s)') <= 2 * Cardinality(Slots)
           /\ Cardinality(Slots) \in Nat
<1>1. Pending(s) \in SUBSET (Slots \X Sides) /\ Pending(s)' \in SUBSET (Slots \X Sides)
    BY DEF Pending
<1> QED
    BY <1>1, PairsBound

\* The legs of a strategy are finitely many.
LEMMA LegsFinite ==
    ASSUME LimitInv, NEW s
    PROVE  IsFiniteSet(LegsOf(s)) /\ Cardinality(LegsOf(s)) \in Nat
<1>1. LegsOf(s) \in SUBSET legs
    BY DEF LegsOf
<1>2. IsFiniteSet(LegsOf(s))
    BY <1>1, FS_Subset DEF LimitInv
<1> QED
    BY <1>2, FS_CardinalityType

\* Closing, deleting and ending cycles only takes away.
LEMMA LimitShrinks ==
    ASSUME LimitInv, legs' \subseteq legs,
           \A s \in Strategies : Pending(s)' \subseteq Pending(s)
    PROVE  LimitInv'
<1>1. IsFiniteSet(legs')
    BY FS_Subset DEF LimitInv
<1>2. ASSUME NEW s \in Strategies
      PROVE  Cardinality(LegsOf(s)') + Cardinality(Pending(s)') <= LegBound(s)
  <2>1. /\ IsFiniteSet(LegsOf(s)) /\ Cardinality(LegsOf(s)) \in Nat
        /\ IsFiniteSet(Pending(s)) /\ Cardinality(Pending(s)) \in Nat
      BY LegsFinite, PendingBound
  <2>2. LegsOf(s)' \in SUBSET LegsOf(s)
      BY DEF LegsOf
  <2>3. Pending(s)' \in SUBSET Pending(s)
      OBVIOUS
  <2>4. /\ Cardinality(LegsOf(s)') <= Cardinality(LegsOf(s))
        /\ Cardinality(Pending(s)') <= Cardinality(Pending(s))
        /\ IsFiniteSet(LegsOf(s)') /\ IsFiniteSet(Pending(s)')
      BY <2>1, <2>2, <2>3, FS_Subset
  <2>5. Cardinality(LegsOf(s)') \in Nat /\ Cardinality(Pending(s)') \in Nat
      BY <2>4, FS_CardinalityType
  <2>6. /\ LegBound(s) \in Int
        /\ Cardinality(LegsOf(s)) + Cardinality(Pending(s)) <= LegBound(s)
      BY OwnLimitAssumption, PendingBound DEF LimitInv, LegBound
  <2> QED
      BY <2>1, <2>4, <2>5, <2>6
<1> QED
    BY <1>1, <1>2 DEF LimitInv, LegBound

\* No leg is there in the beginning.
LEMMA LimitInit == Init => LimitInv
<1> SUFFICES ASSUME Init PROVE LimitInv
    OBVIOUS
<1>1. IsFiniteSet(legs)
    BY FS_EmptySet DEF Init
<1>2. ASSUME NEW s \in Strategies
      PROVE  Cardinality(LegsOf(s)) + Cardinality(Pending(s)) <= LegBound(s)
  <2>1. LegsOf(s) = {} /\ Pending(s) = {}
      BY DEF Init, LegsOf, Pending, NoCycle
  <2>2. OwnLimit[s] \in Nat \ {0} /\ Cardinality(Slots) \in Nat
      BY OwnLimitAssumption, PendingBound
  <2> QED
      BY <2>1, <2>2, FS_EmptySet DEF LegBound
<1> QED
    BY <1>1, <1>2 DEF LimitInv

----------------------------------------------------------------------------
\* The check: fewer than maxPositions legs are saved when it lets a cycle pass.
LEMMA LimitCount ==
    ASSUME TypeInv, LimitInv, NEW c \in Slots, CycleCount(c)
    PROVE  LimitInv'
<1> DEFINE t == cyc[c].strat
<1>1. /\ cyc \in [Slots -> CycleRecord] /\ cyc[c].pc = "count" /\ t \in Strategies
      /\ limit \in Limits
    BY DEF TypeInv, EngineTypeOK, RiskTypeOK, CycleWorks, CycleCount, CycleAt
<1>2. legs' = legs
    BY DEF CycleCount
<1>3. \E pc \in {"full", "refused", "funds"} : cyc' = [cyc EXCEPT ![c].pc = pc]
    BY DEF CycleCount, CycleGoto
<1>4. CASE cyc' # [cyc EXCEPT ![c].pc = "funds"]
  <2>1. PICK pc \in {"full", "refused"} : cyc' = [cyc EXCEPT ![c].pc = pc]
      BY <1>3, <1>4
  <2>2. \A s \in Strategies : Pending(s)' \subseteq Pending(s)
      BY <1>1, <2>1 DEF Pending, CycleRecord
  <2> QED
      BY <1>2, <2>2, LimitShrinks
<1>5. CASE cyc' = [cyc EXCEPT ![c].pc = "funds"]
  <2>1. ~TooMany(Cardinality(LegsOf(t)), OwnLimit[t])
    <3>1. \A pc \in {"full", "refused"} :
             [cyc EXCEPT ![c].pc = pc] # [cyc EXCEPT ![c].pc = "funds"]
        BY <1>1 DEF CycleRecord
    <3> QED
        BY <1>5, <3>1 DEF CycleCount, CycleGoto
  <2>2. Cardinality(LegsOf(t)) <= OwnLimit[t] - 1
    <3>1. /\ OwnLimit[t] \in Nat /\ limit \in Nat
          /\ Cardinality(LegsOf(t)) \in Nat
        BY <1>1, OwnLimitAssumption, LimitsAssumption, LegsFinite
    <3> QED
        BY <2>1, <3>1 DEF TooMany, Allowed
  <2>3. ASSUME NEW s \in Strategies, s # t PROVE Pending(s)' \subseteq Pending(s)
      BY <1>1, <1>5, <2>3 DEF Pending, CycleRecord
  <2>4. ASSUME NEW s \in Strategies
        PROVE  Cardinality(LegsOf(s)') + Cardinality(Pending(s)') <= LegBound(s)
    <3>1. LegsOf(s)' = LegsOf(s) /\ Cardinality(LegsOf(s)) \in Nat
        BY <1>2, LegsFinite DEF LegsOf
    <3>2. OwnLimit[s] \in Nat
        BY OwnLimitAssumption
    <3>3. CASE s = t
      <4>1. /\ Cardinality(Pending(s)') \in Nat /\ Cardinality(Slots) \in Nat
            /\ Cardinality(Pending(s)') <= 2 * Cardinality(Slots)
          BY <3>3, PendingBound
      <4> QED
          BY <2>2, <3>1, <3>2, <3>3, <4>1 DEF LegBound
    <3>4. CASE s # t
      <4>1. /\ Cardinality(Pending(s)) \in Nat /\ IsFiniteSet(Pending(s))
            /\ Cardinality(Slots) \in Nat
          BY PendingBound
      <4>2. /\ Cardinality(Pending(s)') <= Cardinality(Pending(s))
            /\ IsFiniteSet(Pending(s)')
        <5>1. Pending(s)' \in SUBSET Pending(s)
            BY <2>3, <3>4
        <5> QED
            BY <4>1, <5>1, FS_Subset
      <4>3. Cardinality(Pending(s)') \in Nat
          BY <4>2, FS_CardinalityType
      <4> QED
          BY <3>1, <3>2, <4>1, <4>2, <4>3 DEF LimitInv, LegBound
    <3> QED
        BY <3>3, <3>4
  <2> QED
      BY <1>2, <2>4 DEF LimitInv, LegBound
<1> QED
    BY <1>4, <1>5

\* Saving a leg: one more is saved, one fewer is pending.
LEMMA LimitSave ==
    ASSUME TypeInv, LimitInv, NEW c \in Slots, CycleSave(c)
    PROVE  LimitInv'
<1> DEFINE t == cyc[c].strat
           side == NextSide(c)
<1>1. /\ cyc \in [Slots -> CycleRecord] /\ cyc[c].pc = "save" /\ t \in Strategies
      /\ cyc[c].got \in {{}, {"LONG"}}
    BY DEF TypeInv, EngineTypeOK, CycleWorks, CycleSave, CycleAt
<1>2. side \in Sides /\ side \notin cyc[c].got
    BY <1>1 DEF NextSide, Sides
<1>3. CASE cyc' = [cyc EXCEPT ![c].pc = "fail"] /\ UNCHANGED legs
  <2>1. \A s \in Strategies : Pending(s)' \subseteq Pending(s)
      BY <1>1, <1>3 DEF Pending, CycleRecord
  <2> QED
      BY <1>3, <2>1, LimitShrinks
<1>4. CASE /\ legs' = legs \cup {LegOf(c)}
           /\ cyc' = [cyc EXCEPT ![c].pc = IF side = "LONG" THEN "open" ELSE "end",
                                 ![c].got = @ \cup {side}]
  <2>1. IsFiniteSet(legs')
      BY <1>4, FS_AddElement DEF LimitInv
  <2>2. /\ <<c, side>> \in Pending(t)
        /\ \A s \in Strategies : Pending(s)' \subseteq Pending(s) \ {<<c, side>>}
    <3>1. <<c, side>> \in Pending(t)
        BY <1>1, <1>2 DEF Pending
    <3>2. /\ cyc'[c].strat = t /\ cyc'[c].got = cyc[c].got \cup {side}
          /\ \A d \in Slots : d # c => cyc'[d] = cyc[d]
        BY <1>1, <1>4 DEF CycleRecord
    <3>3. ASSUME NEW s \in Strategies, NEW p \in Pending(s)'
          PROVE  p \in Pending(s) \ {<<c, side>>}
      <4>1. /\ p \in Slots \X Sides /\ cyc'[p[1]].strat = s
            /\ cyc'[p[1]].pc \in {"funds", "open", "save"} /\ p[2] \notin cyc'[p[1]].got
          BY <3>3 DEF Pending
      <4>2. p # <<c, side>>
          BY <3>2, <4>1
      <4>3. cyc[p[1]].strat = s /\ p[2] \notin cyc[p[1]].got
          BY <3>2, <4>1
      <4>4. cyc[p[1]].pc \in {"funds", "open", "save"}
          BY <1>1, <3>2, <4>1
      <4> QED
          BY <4>1, <4>2, <4>3, <4>4 DEF Pending
    <3> QED
        BY <3>1, <3>3
  <2>3. ASSUME NEW s \in Strategies
        PROVE  Cardinality(LegsOf(s)') + Cardinality(Pending(s)') <= LegBound(s)
    <3>1. /\ IsFiniteSet(LegsOf(s)) /\ Cardinality(LegsOf(s)) \in Nat
          /\ IsFiniteSet(Pending(s)) /\ Cardinality(Pending(s)) \in Nat
          /\ IsFiniteSet(Pending(s)') /\ Cardinality(Pending(s)') \in Nat
          /\ Cardinality(Slots) \in Nat /\ OwnLimit[s] \in Nat
        BY LegsFinite, PendingBound, OwnLimitAssumption
    <3>2. Cardinality(LegsOf(s)) + Cardinality(Pending(s)) <= LegBound(s)
        BY DEF LimitInv
    <3>3. CASE s = t
      <4>1. LegsOf(s)' = LegsOf(s) \cup {LegOf(c)}
          BY <1>4, <3>3 DEF LegsOf, LegOf
      <4>2. /\ Cardinality(LegsOf(s)') \in Nat
            /\ Cardinality(LegsOf(s)') <= Cardinality(LegsOf(s)) + 1
        <5>1. /\ IsFiniteSet(LegsOf(s)')
              /\ Cardinality(LegsOf(s)') \in {Cardinality(LegsOf(s)),
                                              Cardinality(LegsOf(s)) + 1}
            BY <3>1, <4>1, FS_AddElement
        <5> QED
            BY <3>1, <5>1
      <4>3. Cardinality(Pending(s)') <= Cardinality(Pending(s)) - 1
        <5> DEFINE less == Pending(s) \ {<<c, side>>}
        <5>1. IsFiniteSet(less) /\ Cardinality(less) = Cardinality(Pending(s)) - 1
            BY <2>2, <3>1, <3>3, FS_RemoveElement
        <5>2. Pending(s)' \in SUBSET less
            BY <2>2
        <5> HIDE DEF less
        <5>3. Cardinality(Pending(s)') <= Cardinality(less)
            BY <5>1, <5>2, FS_Subset
        <5> QED
            BY <5>1, <5>3
      <4> QED
          BY <3>1, <3>2, <4>2, <4>3 DEF LegBound
    <3>4. CASE s # t
      <4>1. LegsOf(s)' = LegsOf(s)
          BY <1>4, <3>4 DEF LegsOf, LegOf
      <4>2. Pending(s)' \in SUBSET Pending(s)
          BY <2>2
      <4>3. Cardinality(Pending(s)') <= Cardinality(Pending(s))
          BY <3>1, <4>2, FS_Subset
      <4> QED
          BY <3>1, <3>2, <4>1, <4>3 DEF LegBound
    <3> QED
        BY <3>3, <3>4
  <2> QED
      BY <2>1, <2>3 DEF LimitInv, LegBound
<1> QED
    BY <1>3, <1>4 DEF CycleSave, CycleGoto

\* The bound is inductive.
LEMMA LimitStep == TypeInv /\ LimitInv /\ [Next]_vars => LimitInv'
<1> SUFFICES ASSUME TypeInv, LimitInv, [Next]_vars PROVE LimitInv'
    OBVIOUS
<1>0. cyc \in [Slots -> CycleRecord]
    BY DEF TypeInv, EngineTypeOK
<1>1. ASSUME legs' \subseteq legs, cyc' = cyc PROVE LimitInv'
  <2>1. \A s \in Strategies : Pending(s)' \subseteq Pending(s)
      BY <1>1 DEF Pending
  <2> QED
      BY <1>1, <2>1, LimitShrinks
\* A cycle that goes on without passing the check, or ends.
<1>2. ASSUME NEW c \in Slots, legs' = legs, NEW cy, cyc' = [cyc EXCEPT ![c] = cy],
             cy.pc \in {"funds", "open", "save"} =>
                /\ cyc[c].pc \in {"funds", "open", "save"}
                /\ cy.strat = cyc[c].strat /\ cy.got = cyc[c].got
      PROVE  LimitInv'
  <2>1. ASSUME NEW s \in Strategies, NEW p \in Pending(s)' PROVE p \in Pending(s)
    <3>1. /\ p \in Slots \X Sides /\ cyc'[p[1]].strat = s
          /\ cyc'[p[1]].pc \in {"funds", "open", "save"} /\ p[2] \notin cyc'[p[1]].got
        BY <2>1 DEF Pending
    <3>2. CASE p[1] = c
        BY <1>0, <1>2, <3>1, <3>2 DEF Pending
    <3>3. CASE p[1] # c
        BY <1>0, <1>2, <3>1, <3>3 DEF Pending
    <3> QED
        BY <3>2, <3>3
  <2> QED
      BY <1>2, <2>1, LimitShrinks
<1>3. ASSUME NEW c \in Slots, NEW s \in Strategies, CycleFire(c, s) PROVE LimitInv'
  <2> DEFINE cy == [NoCycle EXCEPT !.pc = "read", !.strat = s]
  <2>1. cyc' = [cyc EXCEPT ![c] = cy] /\ legs' = legs
      BY <1>3 DEF CycleFire
  <2>2. cy.pc = "read"
      BY DEF NoCycle
  <2> HIDE DEF cy
  <2> QED
      BY <1>2, <2>1, <2>2
<1>4. ASSUME NEW c \in Slots, CycleStep(c) PROVE LimitInv'
  <2> DEFINE At(pc) == [cyc[c] EXCEPT !.pc = pc]
  <2>1. \A pc \in CyclePCs : At(pc).pc = pc /\ At(pc).strat = cyc[c].strat
                             /\ At(pc).got = cyc[c].got
      BY <1>0 DEF CycleRecord
  <2>2. ASSUME NEW pc \in CyclePCs, cyc' = [cyc EXCEPT ![c].pc = pc], legs' = legs,
               pc \in {"funds", "open", "save"} => cyc[c].pc \in {"funds", "open", "save"}
        PROVE  LimitInv'
    <3>1. cyc' = [cyc EXCEPT ![c] = At(pc)]
        BY <1>0, <2>2
    <3> HIDE DEF At
    <3> QED
        BY <1>2, <2>1, <2>2, <3>1
  <2>3. ASSUME cyc' = [cyc EXCEPT ![c] = NoCycle], legs' = legs PROVE LimitInv'
    <3>1. NoCycle.pc = "idle"
        BY DEF NoCycle
    <3> QED
        BY <1>2, <2>3, <3>1
  <2> USE DEF CycleAt, CycleGoto, CycleDone, CyclePCs
  <2>4. CASE CycleRead(c)
      BY <2>2, <2>3, <2>4 DEF CycleRead
  <2>5. CASE CycleMark(c)
      BY <2>2, <2>5 DEF CycleMark
  <2>6. CASE CycleBreaker(c)
      BY <2>2, <2>6 DEF CycleBreaker
  <2>7. CASE CycleFunds(c)
      BY <2>2, <2>7 DEF CycleFunds
  <2>8. CASE CycleOpen(c)
    <3>1. CASE cyc' = [cyc EXCEPT ![c].pc = "fail"]
        BY <2>2, <2>8, <3>1 DEF CycleOpen
    <3>2. ASSUME NEW g, cyc' = [cyc EXCEPT ![c].pc = "save", ![c].grp = g]
          PROVE  LimitInv'
      <4> DEFINE cy == [cyc[c] EXCEPT !.pc = "save", !.grp = g]
      <4>1. cyc' = [cyc EXCEPT ![c] = cy]
          BY <1>0, <3>2
      <4>2. /\ cy.strat = cyc[c].strat /\ cy.got = cyc[c].got
            /\ cyc[c].pc = "open" /\ legs' = legs
          BY <1>0, <2>8 DEF CycleOpen, CycleRecord
      <4> HIDE DEF cy
      <4> QED
          BY <1>2, <4>1, <4>2
    <3> QED
        BY <2>8, <3>1, <3>2 DEF CycleOpen
  <2>9. CASE CycleEnd(c)
      BY <2>3, <2>9 DEF CycleEnd
  <2>10. CASE CycleFail(c)
      BY <2>3, <2>10 DEF CycleFail
  <2> QED
      BY <1>4, <2>4, <2>5, <2>6, <2>7, <2>8, <2>9, <2>10, LimitCount, LimitSave
         DEF CycleStep
<1>5. CASE \E s \in Strategies : LateWrite(s)
    BY <1>1, <1>5 DEF LateWrite
<1>6. ASSUME NEW l \in Legs, CloseLeg(l) PROVE LimitInv'
    BY <1>1, <1>6 DEF CloseLeg
<1>7. ASSUME NEW r \in Requests, RequestStart(r) PROVE LimitInv'
  <2>1. UNCHANGED <<cyc, legs>>
    <3> USE DEF Ask, notReq
    <3>1. ASSUME NEW s \in Strategies, RemoveStart(r, s) PROVE UNCHANGED <<cyc, legs>>
        BY <3>1 DEF RemoveStart
    <3>2. ASSUME NEW s \in Strategies, NEW act, CreateStart(r, s, act)
          PROVE  UNCHANGED <<cyc, legs>>
        BY <3>2 DEF CreateStart
    <3>3. ASSUME NEW s \in Strategies, NEW act, NEW keep, UpdateStart(r, s, act, keep)
          PROVE  UNCHANGED <<cyc, legs>>
        BY <3>3 DEF UpdateStart
    <3>4. ASSUME NEW s \in Strategies, NEW status, StatusStart(r, s, status)
          PROVE  UNCHANGED <<cyc, legs>>
        BY <3>4 DEF StatusStart
    <3>5. CASE StopStart(r)
        BY <3>5 DEF StopStart
    <3>6. CASE ResetRequest(r)
        BY <3>6 DEF ResetRequest
    <3>7. ASSUME NEW n, ParamsStart(r, n) PROVE UNCHANGED <<cyc, legs>>
        BY <3>7 DEF ParamsStart
    <3> QED
        BY <1>7, <3>1, <3>2, <3>3, <3>4, <3>5, <3>6, <3>7 DEF RequestStart
  <2> QED
      BY <1>1, <2>1
<1>8. ASSUME NEW r \in Requests, RequestStep(r) PROVE LimitInv'
  <2>1. cyc' = cyc /\ legs' \subseteq legs
    <3> USE <1>8 DEF notReq
    <3>1. CASE CreateWrite(r)
        BY <3>1 DEF CreateWrite
    <3>2. CASE UpdateWrite(r)
        BY <3>2 DEF UpdateWrite
    <3>3. CASE StatusWrite(r)
        BY <3>3 DEF StatusWrite
    <3>4. CASE Schedule(r)
        BY <3>4 DEF Schedule
    <3>5. CASE RemoveDelete(r)
        BY <3>5 DEF RemoveDelete
    <3>6. CASE StopRead(r) \/ StopNext(r) \/ StopWrite(r) \/ StopList(r) \/ StopDone(r)
        BY <3>6 DEF StopRead, StopNext, StopWrite, StopList, StopDone
    <3>7. ASSUME NEW l \in Legs, StopClose(r, l)
          PROVE  cyc' = cyc /\ legs' \subseteq legs
        BY <3>7 DEF StopClose
    <3>8. CASE ParamsSave(r)
        BY <3>8 DEF ParamsSave
    <3> QED
        BY <3>1, <3>2, <3>3, <3>4, <3>5, <3>6, <3>7, <3>8 DEF RequestStep
  <2> QED
      BY <1>1, <2>1
<1>9. CASE Cleanup
    BY <1>1, <1>9 DEF Cleanup
<1>10. CASE Timer
    BY <1>1, <1>10 DEF Timer
<1>11. CASE Restart
  <2>1. \A s \in Strategies : Pending(s)' = {}
      BY <1>11 DEF Restart, Pending, NoCycle
  <2> QED
      BY <1>11, <2>1, LimitShrinks DEF Restart
<1>12. CASE BootStep
  <2>1. UNCHANGED <<cyc, legs>>
      BY <1>12 DEF BootStep, BootRead, BootWrite, BootDone, BootNext
  <2> QED
      BY <1>1, <2>1
<1>13. CASE UNCHANGED vars
    BY <1>1, <1>13 DEF vars
<1> QED
    BY <1>3, <1>4, <1>5, <1>6, <1>7, <1>8, <1>9, <1>10, <1>11, <1>12, <1>13
       DEF Next, Rest

\* However many executions of executeCycle overlap, and whatever closes,
\* requests and restarts come between, a strategy's OPEN positions exceed its
\* maxPositions by less than two for each of them.
THEOREM LegsStayLimited == Spec => []LegLimit
<1>1. LimitInv => LegLimit
  <2> SUFFICES ASSUME LimitInv, NEW s \in Strategies
               PROVE  Cardinality(LegsOf(s)) <= OwnLimit[s] - 1 + 2 * Cardinality(Slots)
      BY DEF LegLimit
  <2>1. /\ Cardinality(LegsOf(s)) \in Nat /\ Cardinality(Pending(s)) \in Nat
        /\ Cardinality(Slots) \in Nat /\ OwnLimit[s] \in Nat
      BY LegsFinite, PendingBound, OwnLimitAssumption
  <2> QED
      BY <2>1 DEF LimitInv, LegBound
<1> QED
    BY <1>1, TypeInit, TypeStep, LimitInit, LimitStep, PTL DEF Spec

----------------------------------------------------------------------------
(***************************************************************************)
(* The emergency stop.  While it runs, every strategy still active is one  *)
(* that it has yet to pause: nothing else activates one, or the history    *)
(* variable stopper would have been reset.  When it has ended none is      *)
(* active, so a cycle that has not yet read its strategy ends there.       *)
(***************************************************************************)

Stopping == {"stop.next", "stop.write", "stop.list", "stop.close"}

\* What is left to pause for the request r.
LeftTo(r) ==
    /\ req[r].pc \in Stopping
    /\ \A s \in exists : active[s] =>
          s \in req[r].todo \/ (req[r].pc = "stop.write" /\ s = req[r].strat)
    /\ req[r].pc \in {"stop.list", "stop.close"} => req[r].todo = {}

StopInv ==
    /\ stopper # None => ~Activating
    /\ stopper = Done => \A s \in exists : ~active[s]
    /\ stopper \in Requests => LeftTo(stopper)

\* The three kinds of stopper differ.
LEMMA Names == None # Done /\ None \notin Requests /\ Done \notin Requests
BY NamesAssumption DEF None, Done

\* No stop is under way in the beginning.
LEMMA StopInit == Init => StopInv
BY Names DEF Init, StopInv

----------------------------------------------------------------------------
\* Steps that leave the requests and the loading alone and activate nothing.
LEMMA StopUntouched ==
    ASSUME StopInv, UNCHANGED <<req, boot, stopper>>, exists' \subseteq exists,
           active' = active
    PROVE  StopInv'
<1>1. Activating' <=> Activating
    BY DEF Activating
<1>2. ASSUME stopper \in Requests PROVE LeftTo(stopper)'
    BY <1>2 DEF StopInv, LeftTo
<1> QED
    BY <1>1, <1>2 DEF StopInv

\* A request that is not the stop itself moves: it activates nothing unless it
\* ends what the stop promised.
LEMMA OthersMove ==
    ASSUME TypeInv, StopInv, NEW r \in Requests, NEW rec,
           stopper # r, req' = [req EXCEPT ![r] = rec],
           boot' = boot, stopper' \in {stopper, None},
           stopper' # None =>
              /\ ~(rec.act /\ rec.pc \in {"create.write", "update.write", "status.write"})
              /\ \A s \in exists' : active'[s] => s \in exists /\ active[s]
    PROVE  StopInv'
<1>0. req \in [Requests -> RequestRecord]
    BY DEF TypeInv, EngineTypeOK
<1>1. CASE stopper' = None
    BY <1>1, Names DEF StopInv
<1>2. CASE stopper' # None
  <2>1. stopper' = stopper /\ req'[r] = rec /\ \A q \in Requests \ {r} : req'[q] = req[q]
      BY <1>0, <1>2
  <2>2. ~Activating'
      BY <1>2, <2>1 DEF Activating, StopInv
  <2>3. ASSUME stopper \in Requests PROVE LeftTo(stopper)'
    <3>1. req'[stopper] = req[stopper] /\ LeftTo(stopper)
        BY <2>1, <2>3 DEF StopInv
    <3> QED
        BY <1>2, <2>1, <3>1 DEF LeftTo
  <2> QED
      BY <1>2, <2>1, <2>2, <2>3 DEF StopInv
<1> QED
    BY <1>1, <1>2

\* A request that starts keeps the invariant of the stop.
LEMMA StopStarts ==
    ASSUME TypeInv, StopInv, NEW r \in Requests, RequestStart(r)
    PROVE  StopInv'
<1>0. req \in [Requests -> RequestRecord]
    BY DEF TypeInv, EngineTypeOK
<1>1. ASSUME NEW kind, NEW rec, Ask(r, kind, rec), stopper' \in {stopper, None},
             stopper' # None =>
               ~(rec.act /\ rec.pc \in {"create.write", "update.write", "status.write"})
      PROVE  StopInv'
  <2>1. /\ req[r].pc = "idle" /\ req' = [req EXCEPT ![r] = rec]
        /\ UNCHANGED <<tableVars, boot>>
      BY <1>1 DEF Ask, ReqAt, notReq
  <2>2. stopper # r
      BY <2>1 DEF StopInv, LeftTo, Stopping
  <2> QED
      BY <1>1, <2>1, <2>2, OthersMove DEF tableVars
<1>2. ASSUME NEW s \in Strategies, RemoveStart(r, s) PROVE StopInv'
  <2> DEFINE rec == [NoRequest EXCEPT !.pc = "remove.delete", !.strat = s]
  <2>1. rec.act = FALSE
      BY DEF NoRequest
  <2>2. Ask(r, "remove", rec) /\ stopper' = stopper
      BY <1>2 DEF RemoveStart
  <2> HIDE DEF rec
  <2> QED
      BY <1>1, <2>1, <2>2
<1>3. ASSUME NEW s \in Strategies, NEW act \in BOOLEAN, CreateStart(r, s, act)
      PROVE  StopInv'
  <2> DEFINE rec == [NoRequest EXCEPT !.pc = "create.write", !.strat = s, !.act = act]
  <2>1. rec.act = act
      BY DEF NoRequest
  <2>2. Ask(r, "create", rec) /\ stopper' = IF act THEN None ELSE stopper
      BY <1>3 DEF CreateStart, Promise
  <2> HIDE DEF rec
  <2> QED
      BY <1>1, <2>1, <2>2
<1>4. ASSUME NEW s \in Strategies, NEW act \in BOOLEAN, NEW keep \in BOOLEAN,
             UpdateStart(r, s, act, keep)
      PROVE  StopInv'
  <2> DEFINE rec == [NoRequest EXCEPT !.pc = "update.write", !.strat = s,
                                      !.act = act, !.keep = keep]
  <2>1. rec.act = act
      BY DEF NoRequest
  <2>2. Ask(r, "update", rec) /\ stopper' = IF act THEN None ELSE stopper
      BY <1>4 DEF UpdateStart, Promise
  <2> HIDE DEF rec
  <2> QED
      BY <1>1, <2>1, <2>2
<1>5. ASSUME NEW s \in Strategies, NEW status \in Statuses, StatusStart(r, s, status)
      PROVE  StopInv'
  <2> DEFINE rec == [NoRequest EXCEPT !.pc = "status.write", !.strat = s,
                                      !.act = (status = "RUNNING"), !.status = status]
  <2>1. rec.act = (status = "RUNNING")
      BY DEF NoRequest
  <2>2. /\ Ask(r, "status", rec)
        /\ stopper' = IF status = "RUNNING" THEN None ELSE stopper
      BY <1>5 DEF StatusStart, Promise
  <2> HIDE DEF rec
  <2> QED
      BY <1>1, <2>1, <2>2
<1>6. CASE StopStart(r)
  <2> DEFINE rec == [NoRequest EXCEPT !.pc = "stop.read"]
  <2>1. rec.act = FALSE
      BY DEF NoRequest
  <2>2. Ask(r, "stop", rec) /\ stopper' = stopper
      BY <1>6 DEF StopStart
  <2> HIDE DEF rec
  <2> QED
      BY <1>1, <2>1, <2>2
<1>7. CASE ResetRequest(r)
  <2>1. NoRequest.act = FALSE
      BY DEF NoRequest
  <2>2. Ask(r, "reset", NoRequest) /\ stopper' = stopper
      BY <1>7 DEF ResetRequest
  <2> QED
      BY <1>1, <2>1, <2>2
<1>8. ASSUME NEW n \in Limits, ParamsStart(r, n) PROVE StopInv'
  <2> DEFINE rec == [NoRequest EXCEPT !.pc = "params.save", !.limit = n]
  <2>1. rec.act = FALSE
      BY DEF NoRequest
  <2>2. Ask(r, "params", rec) /\ stopper' = stopper
      BY <1>8 DEF ParamsStart
  <2> HIDE DEF rec
  <2> QED
      BY <1>1, <2>1, <2>2
<1> QED
    BY <1>2, <1>3, <1>4, <1>5, <1>6, <1>7, <1>8 DEF RequestStart

----------------------------------------------------------------------------
\* A request that goes on keeps it.
LEMMA StopRequests ==
    ASSUME TypeInv, StopInv, NEW r \in Requests, RequestStep(r)
    PROVE  StopInv'
<1> DEFINE Writes == {"create.write", "update.write", "status.write"}
<1>0. /\ req \in [Requests -> RequestRecord] /\ req[r] \in RequestRecord
      /\ RequestWorks(req[r]) /\ active \in [Strategies -> BOOLEAN]
      /\ exists \subseteq Strategies
      /\ NoRequest.pc = "idle" /\ NoRequest.act = FALSE
    BY DEF TypeInv, EngineTypeOK, TableTypeOK, NoRequest
<1>1. stopper = r => req[r].pc \in Stopping /\ LeftTo(r)
    BY DEF StopInv, LeftTo
<1>2. stopper # None => ~(req[r].act /\ req[r].pc \in Writes)
    BY DEF StopInv, Activating
<1>3. ASSUME stopper # r, boot' = boot, stopper' \in {stopper, None},
             NEW rec, req' = [req EXCEPT ![r] = rec], rec.pc \notin Writes,
             stopper' # None => \A s \in exists' : active'[s] => s \in exists /\ active[s]
      PROVE  StopInv'
    BY <1>3, OthersMove
<1> HIDE DEF Writes
<1>4. ASSUME NEW pc \in RequestPCs, pc \notin Writes, ReqGoto(r, pc),
             stopper # r, boot' = boot, stopper' \in {stopper, None},
             stopper' # None => \A s \in exists' : active'[s] => s \in exists /\ active[s]
      PROVE  StopInv'
  <2> DEFINE rec == [req[r] EXCEPT !.pc = pc]
  <2>1. rec.pc = pc /\ req' = [req EXCEPT ![r] = rec]
      BY <1>0, <1>4 DEF ReqGoto, RequestRecord
  <2> HIDE DEF rec
  <2> QED
      BY <1>3, <1>4, <2>1
<1>5. ASSUME ReqDone(r), stopper # r, boot' = boot, stopper' \in {stopper, None},
             stopper' # None => \A s \in exists' : active'[s] => s \in exists /\ active[s]
      PROVE  StopInv'
  <2>1. NoRequest.pc \notin Writes
      BY <1>0 DEF Writes
  <2> QED
      BY <1>3, <1>5, <2>1 DEF ReqDone
<1>6. \A pc \in {"register", "schedule", "stop.next", "stop.list"} :
         pc \in RequestPCs /\ pc \notin Writes
    BY DEF RequestPCs, Writes
<1>7. CASE CreateWrite(r)
  <2>1. /\ req[r].pc = "create.write" /\ req[r].strat \in Strategies
        /\ ReqGoto(r, "register") /\ boot' = boot /\ stopper' = stopper
        /\ exists' = exists \cup {req[r].strat}
        /\ active' = [active EXCEPT ![req[r].strat] = req[r].act]
      BY <1>0, <1>7 DEF CreateWrite, ReqAt, RequestWorks, notReq
  <2>2. stopper # r
      BY <1>1, <2>1 DEF Stopping
  <2>3. stopper # None => ~req[r].act
      BY <1>2, <2>1 DEF Writes
  <2>4. stopper' # None => \A s \in exists' : active'[s] => s \in exists /\ active[s]
      BY <1>0, <2>1, <2>3
  <2> QED
      BY <1>4, <1>6, <2>1, <2>2, <2>4
<1>8. CASE UpdateWrite(r)
  <2>1. /\ req[r].pc = "update.write" /\ req[r].strat \in Strategies
        /\ boot' = boot /\ stopper' = stopper /\ exists' = exists
      BY <1>0, <1>8 DEF UpdateWrite, ReqAt, RequestWorks, notReq
  <2>2. stopper # r
      BY <1>1, <2>1 DEF Stopping
  <2>3. stopper # None => ~req[r].act
      BY <1>2, <2>1 DEF Writes
  <2>4. CASE ReqDone(r) /\ active' = active
      BY <1>5, <2>1, <2>2, <2>4
  <2> DEFINE act == IF req[r].keep THEN active[req[r].strat] ELSE req[r].act
             rec == [req[r] EXCEPT !.pc = "register", !.act = act]
  <2>5. CASE /\ active' = [active EXCEPT ![req[r].strat] = act]
             /\ req' = [req EXCEPT ![r].pc = "register", ![r].act = act]
    <3>1. stopper' # None => \A s \in exists' : active'[s] => s \in exists /\ active[s]
        BY <1>0, <2>1, <2>3, <2>5
    <3>2. rec.pc = "register" /\ req' = [req EXCEPT ![r] = rec]
        BY <1>0, <2>5 DEF RequestRecord
    <3> HIDE DEF rec
    <3> QED
        BY <1>3, <1>6, <2>1, <2>2, <3>1, <3>2
  <2> QED
      BY <1>8, <2>4, <2>5 DEF UpdateWrite
<1>9. CASE StatusWrite(r)
  <2>1. /\ req[r].pc = "status.write" /\ req[r].strat \in Strategies
        /\ boot' = boot /\ stopper' = stopper /\ exists' = exists
        /\ \/ /\ active' = [active EXCEPT ![req[r].strat] = req[r].act]
              /\ ReqGoto(r, "schedule")
           \/ ReqDone(r) /\ active' = active
      BY <1>0, <1>9 DEF StatusWrite, ReqAt, RequestWorks, notReq
  <2>2. stopper # r
      BY <1>1, <2>1 DEF Stopping
  <2>3. stopper # None => ~req[r].act
      BY <1>2, <2>1 DEF Writes
  <2>4. stopper' # None => \A s \in exists' : active'[s] => s \in exists /\ active[s]
      BY <1>0, <2>1, <2>3
  <2> QED
      BY <1>4, <1>5, <1>6, <2>1, <2>2, <2>4
<1>10. CASE Schedule(r) \/ RemoveDelete(r) \/ ParamsSave(r)
  <2>1. /\ ReqDone(r) /\ boot' = boot /\ stopper' = stopper /\ exists' \subseteq exists
        /\ active' = active /\ req[r].pc \notin Stopping
      BY <1>10 DEF Schedule, RemoveDelete, ParamsSave, ReqAt, notReq, tableVars, Stopping
  <2> QED
      BY <1>1, <1>5, <2>1
<1>11. CASE StopRead(r)
  <2> DEFINE rec == [req[r] EXCEPT !.pc = "stop.next", !.todo = {s \in exists : active[s]}]
  <2>1. /\ req[r].pc = "stop.read" /\ req' = [req EXCEPT ![r] = rec] /\ boot' = boot
        /\ exists' = exists /\ active' = active
        /\ stopper' = IF Activating \/ stopper = Done THEN stopper ELSE r
      BY <1>0, <1>11 DEF StopRead, ReqAt, notReq, tableVars
  <2>2. rec.pc = "stop.next" /\ rec.todo = {s \in exists : active[s]}
      BY <1>0 DEF RequestRecord
  <2> HIDE DEF rec
  <2>3. stopper # r
      BY <1>1, <2>1 DEF Stopping
  <2>4. CASE stopper' = stopper
      BY <1>3, <1>6, <2>1, <2>2, <2>3, <2>4
  <2>5. CASE stopper' = r /\ ~Activating
    <3>1. ~Activating'
        BY <1>0, <1>6, <2>1, <2>2, <2>5 DEF Activating, Writes
    <3>2. LeftTo(r)'
        BY <1>0, <2>1, <2>2 DEF LeftTo, Stopping
    <3> QED
        BY <2>5, <3>1, <3>2, Names DEF StopInv
  <2> QED
      BY <2>1, <2>4, <2>5
\* The stop whose promise is kept goes on.
<1>12. ASSUME stopper = r, NEW rec, req' = [req EXCEPT ![r] = rec],
              UNCHANGED <<stopper, boot, exists>>, rec.pc \in Stopping, LeftTo(r)'
       PROVE  StopInv'
  <2>1. rec.pc \notin Writes
      BY <1>12 DEF Stopping, Writes
  <2>2. stopper # None /\ stopper # Done
      BY <1>12, Names
  <2>3. ~Activating'
      BY <1>0, <1>12, <2>1, <2>2 DEF StopInv, Activating, Writes
  <2> QED
      BY <1>12, <2>2, <2>3 DEF StopInv
<1>13. CASE StopNext(r)
  <2>1. req[r].pc = "stop.next" /\ UNCHANGED <<stopper, boot, exists, active>>
      BY <1>13 DEF StopNext, ReqAt, notReq, tableVars
  <2>2. CASE req[r].todo = {} /\ ReqGoto(r, "stop.list")
    <3> DEFINE rec == [req[r] EXCEPT !.pc = "stop.list"]
    <3>1. /\ rec.pc = "stop.list" /\ rec.todo = {} /\ req' = [req EXCEPT ![r] = rec]
        BY <1>0, <2>2 DEF ReqGoto, RequestRecord
    <3> HIDE DEF rec
    <3>2. CASE stopper # r
        BY <1>3, <1>6, <2>1, <3>1, <3>2
    <3>3. CASE stopper = r
      <4>1. req'[r] = rec /\ LeftTo(r)
          BY <1>0, <1>1, <3>1, <3>3
      <4>2. LeftTo(r)'
          BY <2>1, <2>2, <3>1, <4>1 DEF LeftTo, Stopping
      <4>3. rec.pc \in Stopping
          BY <3>1 DEF Stopping
      <4> QED
          BY <1>12, <2>1, <3>1, <3>3, <4>2, <4>3
    <3> QED
        BY <3>2, <3>3
  <2>3. ASSUME NEW s \in req[r].todo,
               req' = [req EXCEPT ![r].pc = "stop.write", ![r].strat = s,
                                  ![r].todo = @ \ {s}]
        PROVE  StopInv'
    <3> DEFINE rec == [req[r] EXCEPT !.pc = "stop.write", !.strat = s, !.todo = @ \ {s}]
    <3>1. /\ rec.pc = "stop.write" /\ rec.strat = s /\ rec.todo = req[r].todo \ {s}
          /\ req' = [req EXCEPT ![r] = rec]
        BY <1>0, <2>3 DEF RequestRecord
    <3> HIDE DEF rec
    <3>2. rec.pc \in Stopping /\ rec.pc \notin Writes
        BY <3>1 DEF Stopping, Writes
    <3>3. CASE stopper # r
        BY <1>3, <2>1, <3>1, <3>2, <3>3
    <3>4. CASE stopper = r
      <4>1. req'[r] = rec /\ LeftTo(r)
          BY <1>0, <1>1, <3>1, <3>4
      <4>2. LeftTo(r)'
          BY <2>1, <3>1, <4>1 DEF LeftTo, Stopping
      <4> QED
          BY <1>12, <2>1, <3>1, <3>2, <3>4, <4>2
    <3> QED
        BY <3>3, <3>4
  <2> QED
      BY <1>13, <2>2, <2>3 DEF StopNext
<1>14. CASE StopWrite(r)
  <2>1. /\ req[r].pc = "stop.write" /\ req[r].strat \in Strategies
        /\ UNCHANGED <<boot, exists>>
      BY <1>0, <1>14 DEF StopWrite, ReqAt, RequestWorks, notReq
  <2>2. CASE req[r].strat \notin exists
    <3>1. ReqDone(r) /\ active' = active
          /\ stopper' = IF stopper = r THEN None ELSE stopper
        BY <1>14, <2>2 DEF StopWrite
    <3>2. CASE stopper # r
        BY <1>5, <2>1, <3>1, <3>2
    <3>3. CASE stopper = r
        BY <3>1, <3>3, Names DEF StopInv
    <3> QED
        BY <3>2, <3>3
  <2>3. CASE req[r].strat \in exists
    <3> DEFINE rec == [req[r] EXCEPT !.pc = "stop.next"]
    <3>1. /\ ReqGoto(r, "stop.next") /\ stopper' = stopper
          /\ active' = [active EXCEPT ![req[r].strat] = FALSE]
        BY <1>14, <2>3 DEF StopWrite
    <3>2. CASE stopper # r
        BY <1>0, <1>4, <1>6, <2>1, <3>1, <3>2
    <3>3. CASE stopper = r
      <4>1. /\ rec.pc = "stop.next" /\ rec.todo = req[r].todo
            /\ req' = [req EXCEPT ![r] = rec]
          BY <1>0, <3>1 DEF ReqGoto, RequestRecord
      <4> HIDE DEF rec
      <4>2. req'[r] = rec /\ LeftTo(r)
          BY <1>0, <1>1, <3>3, <4>1
      <4>3. LeftTo(r)'
          BY <1>0, <2>1, <3>1, <4>1, <4>2 DEF LeftTo, Stopping
      <4>4. rec.pc \in Stopping
          BY <4>1 DEF Stopping
      <4> QED
          BY <1>12, <2>1, <3>1, <3>3, <4>1, <4>3, <4>4
    <3> QED
        BY <3>2, <3>3
  <2> QED
      BY <2>2, <2>3
\* Listing and closing positions touches no strategy.
<1>15. ASSUME NEW rec, req' = [req EXCEPT ![r] = rec], rec.pc = "stop.close",
              req[r].pc \in {"stop.list", "stop.close"}, rec.todo = req[r].todo,
              UNCHANGED <<stopper, boot, exists, active>>
       PROVE  StopInv'
  <2>1. rec.pc \in Stopping /\ rec.pc \notin Writes
      BY <1>15 DEF Stopping, Writes
  <2>2. CASE stopper # r
      BY <1>3, <1>15, <2>1, <2>2
  <2>3. CASE stopper = r
    <3>1. req'[r] = rec /\ LeftTo(r)
        BY <1>0, <1>1, <1>15, <2>3
    <3>2. LeftTo(r)'
        BY <1>15, <3>1 DEF LeftTo, Stopping
    <3> QED
        BY <1>12, <1>15, <2>1, <2>3, <3>2
  <2> QED
      BY <2>2, <2>3
<1>16. CASE StopList(r)
  <2> DEFINE rec == [req[r] EXCEPT !.pc = "stop.close", !.closing = legs]
  <2>1. /\ rec.pc = "stop.close" /\ rec.todo = req[r].todo
        /\ req' = [req EXCEPT ![r] = rec] /\ req[r].pc = "stop.list"
        /\ UNCHANGED <<stopper, boot, exists, active>>
      BY <1>0, <1>16 DEF StopList, ReqAt, RequestRecord, notReq, tableVars
  <2> HIDE DEF rec
  <2> QED
      BY <1>15, <2>1
<1>17. ASSUME NEW l \in Legs, StopClose(r, l) PROVE StopInv'
  <2> DEFINE rec == [req[r] EXCEPT !.closing = @ \ {l}]
  <2>1. /\ rec.pc = "stop.close" /\ rec.todo = req[r].todo
        /\ req' = [req EXCEPT ![r] = rec] /\ req[r].pc = "stop.close"
        /\ UNCHANGED <<stopper, boot, exists, active>>
      BY <1>0, <1>17 DEF StopClose, ReqAt, RequestRecord, notReq, tableVars
  <2> HIDE DEF rec
  <2> QED
      BY <1>15, <2>1
<1>18. CASE StopDone(r)
  <2>1. /\ req[r].pc = "stop.close" /\ ReqDone(r) /\ UNCHANGED <<boot, exists, active>>
        /\ stopper' = IF stopper = r THEN Done ELSE stopper
      BY <1>18 DEF StopDone, ReqAt, notReq, tableVars
  <2>2. CASE stopper # r
      BY <1>5, <2>1, <2>2
  <2>3. CASE stopper = r
    <3>1. \A s \in exists' : ~active'[s]
        BY <1>1, <2>1, <2>3 DEF LeftTo
    <3>2. ~Activating'
        BY <1>0, <2>1, <2>3, Names DEF StopInv, Activating, ReqDone
    <3> QED
        BY <2>1, <2>3, <3>1, <3>2, Names DEF StopInv
  <2> QED
      BY <2>2, <2>3
<1> QED
    BY <1>7, <1>8, <1>9, <1>10, <1>11, <1>13, <1>14, <1>16, <1>17, <1>18
       DEF RequestStep

\* A cycle only reads the strategies table and the cron registry; it writes no
\* more of them than the status.
LEMMA CycleLeaves ==
    ASSUME NEW c \in Slots, CycleStep(c) \/ \E s \in Strategies : CycleFire(c, s)
    PROVE  UNCHANGED <<req, boot, stopper, exists, active, cron>>
<1> USE DEF notCycle, tableVars
<1>1. CASE \E s \in Strategies : CycleFire(c, s)
    BY <1>1 DEF CycleFire
<1>2. CASE CycleRead(c) \/ CycleMark(c) \/ CycleBreaker(c) \/ CycleCount(c)
    BY <1>2 DEF CycleRead, CycleMark, CycleBreaker, CycleCount
<1>3. CASE CycleFunds(c) \/ CycleOpen(c)
    BY <1>3 DEF CycleFunds, CycleOpen
<1>4. CASE CycleSave(c) \/ CycleEnd(c) \/ CycleFail(c)
    BY <1>4 DEF CycleSave, CycleEnd, CycleFail
<1> QED
    BY <1>1, <1>2, <1>3, <1>4 DEF CycleStep

\* It is inductive.
LEMMA StopStep == TypeInv /\ StopInv /\ [Next]_vars => StopInv'
<1> SUFFICES ASSUME TypeInv, StopInv, [Next]_vars PROVE StopInv'
    OBVIOUS
<1>1. ASSUME NEW c \in Slots, CycleStep(c) \/ \E s \in Strategies : CycleFire(c, s)
      PROVE  StopInv'
    BY <1>1, CycleLeaves, StopUntouched
<1>2. CASE \E s \in Strategies : LateWrite(s)
    BY <1>2, StopUntouched DEF LateWrite
<1>3. CASE \E l \in Legs : CloseLeg(l)
    BY <1>3, StopUntouched DEF CloseLeg, notCycle, tableVars
<1>4. CASE Cleanup
    BY <1>4, StopUntouched DEF Cleanup, notCycle
<1>5. CASE Timer
    BY <1>5, StopUntouched DEF Timer, notCycle, tableVars
<1>6. CASE Restart
    BY <1>6, Names DEF Restart, StopInv
<1>7. CASE BootStep
  <2>1. boot # Booted /\ stopper' = stopper
    <3>1. boot.pc # "done" /\ stopper' = stopper
        BY <1>7 DEF BootStep, BootRead, BootWrite, BootDone, BootNext
    <3>2. Booted.pc = "done"
        BY DEF Booted
    <3> QED
        BY <3>1, <3>2
  <2>2. stopper = None
      BY <2>1 DEF StopInv, Activating
  <2> QED
      BY <2>1, <2>2, Names DEF StopInv
<1>8. CASE UNCHANGED vars
    BY <1>8, StopUntouched DEF vars, tableVars
<1> QED
    BY <1>1, <1>2, <1>3, <1>4, <1>5, <1>6, <1>7, <1>8, StopStarts, StopRequests
       DEF Next, Rest

----------------------------------------------------------------------------
\* A cycle gets past its first read for an active strategy only.
LEMMA ReadsStop ==
    ASSUME TypeInv, StopInv, [Next]_vars, stopper = Done, NEW c \in Slots,
           cyc[c].pc \in {"idle", "read"}
    PROVE  cyc'[c].pc \in {"idle", "read"}
<1>0. /\ cyc \in [Slots -> CycleRecord] /\ NoCycle.pc = "idle"
      /\ \A s \in exists : ~active[s]
    BY DEF TypeInv, EngineTypeOK, NoCycle, StopInv
<1>2. ASSUME NEW d \in Slots, NEW s \in Strategies, CycleFire(d, s)
      PROVE  cyc'[c].pc \in {"idle", "read"}
    BY <1>0, <1>2 DEF CycleFire, NoCycle
<1>3. ASSUME NEW d \in Slots, CycleStep(d), d # c PROVE cyc'[c].pc \in {"idle", "read"}
  <2> USE <1>0, <1>3 DEF CycleGoto, CycleDone
  <2>1. CASE CycleRead(d) \/ CycleMark(d) \/ CycleBreaker(d)
      BY <2>1 DEF CycleRead, CycleMark, CycleBreaker
  <2>2. CASE CycleCount(d) \/ CycleFunds(d)
      BY <2>2 DEF CycleCount, CycleFunds
  <2>3. CASE CycleOpen(d)
      BY <2>3 DEF CycleOpen
  <2>4. CASE CycleSave(d)
      BY <2>4 DEF CycleSave
  <2>5. CASE CycleEnd(d) \/ CycleFail(d)
      BY <2>5 DEF CycleEnd, CycleFail
  <2> QED
      BY <2>1, <2>2, <2>3, <2>4, <2>5 DEF CycleStep
<1>4. CASE CycleStep(c)
  <2>1. CycleRead(c)
      BY <1>4 DEF CycleStep, CycleRead, CycleMark, CycleBreaker, CycleCount,
         CycleFunds, CycleOpen, CycleSave, CycleEnd, CycleFail, CycleAt
  <2> QED
      BY <1>0, <2>1 DEF CycleRead, CycleDone
<1>5. CASE cyc' = cyc
    BY <1>5
<1>6. CASE Restart
    BY <1>0, <1>6 DEF Restart
<1>7. CASE \E r \in Requests : RequestStart(r) \/ RequestStep(r)
  <2>1. cyc' = cyc
    <3>1. ASSUME NEW r \in Requests, RequestStart(r) PROVE cyc' = cyc
        BY <3>1 DEF RequestStart, RemoveStart, CreateStart, UpdateStart, StatusStart,
           StopStart, ResetRequest, ParamsStart, Ask, notReq
    <3>2. ASSUME NEW r \in Requests, RequestStep(r) PROVE cyc' = cyc
        BY <3>2 DEF RequestStep, CreateWrite, UpdateWrite, StatusWrite, Schedule,
           RemoveDelete, StopRead, StopNext, StopWrite, StopList, StopDone, StopClose,
           ParamsSave, notReq
    <3> QED
        BY <1>7, <3>1, <3>2
  <2> QED
      BY <1>5, <2>1
<1>8. ASSUME \/ \E s \in Strategies : LateWrite(s)
             \/ \E l \in Legs : CloseLeg(l)
             \/ Cleanup \/ Timer
      PROVE  cyc' = cyc
    BY <1>8 DEF LateWrite, CloseLeg, Cleanup, Timer
<1>10. ASSUME BootStep PROVE cyc' = cyc
    BY <1>10 DEF BootStep, BootRead, BootWrite, BootDone, BootNext
<1>11. ASSUME UNCHANGED vars PROVE cyc' = cyc
    BY <1>11 DEF vars
<1>9. ASSUME NEW d \in Slots, CycleStep(d) PROVE cyc'[c].pc \in {"idle", "read"}
    BY <1>3, <1>4, <1>9
<1> QED
  <2> DEFINE Cycles == \E d \in Slots : CycleStep(d) \/ \E s \in Strategies : CycleFire(d, s)
             Asks == \E r \in Requests : RequestStart(r) \/ RequestStep(r)
             Others == \/ \E s \in Strategies : LateWrite(s)
                       \/ \E l \in Legs : CloseLeg(l)
                       \/ Cleanup \/ Timer
  <2>1. Cycles \/ Asks \/ Others \/ BootStep \/ Restart \/ UNCHANGED vars
      BY DEF Next, Rest
  <2>2. CASE Cycles
      BY <1>2, <1>9, <2>2
  <2>3. CASE Asks
      BY <1>7, <2>3
  <2>4. CASE Others
    <3>1. cyc' = cyc
        BY <1>8, <2>4
    <3> QED
        BY <1>5, <3>1
  <2>5. CASE BootStep \/ UNCHANGED vars
      BY <1>5, <1>10, <1>11, <2>5
  <2> HIDE DEF Cycles, Asks, Others
  <2> QED
      BY <1>6, <2>1, <2>2, <2>3, <2>4, <2>5

\* Once an emergency stop has ended, and until someone activates a strategy or
\* the process restarts, no execution of executeCycle gets past its first read,
\* whatever other requests, stops and cycles are in flight.
THEOREM EmergencyStopIsFinal == Spec => StopIsFinal
<1>1. TypeInv /\ StopInv /\ [Next]_vars
        => [stopper = Done /\ stopper' = Done => \A c \in Slots :
              cyc[c].pc \in {"idle", "read"} => cyc'[c].pc \in {"idle", "read"}]_vars
    BY ReadsStop
<1> QED
    BY <1>1, TypeInit, TypeStep, StopInit, StopStep, PTL DEF Spec, StopIsFinal

----------------------------------------------------------------------------
(***************************************************************************)
(* The schedule.  An active strategy without its job is one that the       *)
(* loading will come to, or that the request in flight is about to         *)
(* register, delete or pause.  This takes a single administrator whose     *)
(* requests wait for the loading: of two requests in flight, the one that  *)
(* deactivates may unregister the job after the other has activated.       *)
(***************************************************************************)

\* The request with this record will still see to s.
Owes(rec, s) ==
    /\ rec.strat = s
    /\ \/ rec.pc \in {"register", "schedule"} /\ rec.act
       \/ rec.pc \in {"remove.delete", "stop.write"}

Scheduled(s) ==
    \/ s \in cron
    \/ boot.pc = "wait"
    \/ boot.pc \in {"next", "write"} /\ s \in boot.todo
    \/ \E r \in Requests : Owes(req[r], s)

\* No request is in flight during the loading; what it found stale is inactive.
BootAlone ==
    /\ boot # Booted => \A r \in Requests : req[r].pc = "idle"
    /\ boot # Booted => boot.pc \in {"wait", "next", "write"}
    /\ boot.pc \in {"next", "write"} =>
          \A s \in boot.stale : s \in exists /\ ~active[s]
    /\ boot.pc = "write" => boot.cur \in boot.stale

\* What is about to be unregistered is inactive.
Deactivated ==
    \A r \in Requests : req[r].pc = "schedule" /\ ~req[r].act =>
        ~active[req[r].strat]

ScheduleInv ==
    /\ BootAlone /\ Deactivated
    /\ \A s \in exists : active[s] => Scheduled(s)

OneRequest == \A r, u \in Requests : r = u

\* Steps that leave the requests, the loading and the registry alone.
LEMMA ScheduleUntouched ==
    ASSUME ScheduleInv, UNCHANGED <<req, boot, cron, exists, active>>
    PROVE  ScheduleInv'
BY DEF ScheduleInv, BootAlone, Deactivated, Scheduled, Owes

\* A request that moves, after the loading.
LEMMA ScheduleMove ==
    ASSUME TypeInv, OneRequest, NEW r \in Requests, NEW rec,
           req' = [req EXCEPT ![r] = rec], boot = Booted, boot' = boot,
           rec.pc = "schedule" /\ ~rec.act => ~active'[rec.strat],
           \A s \in exists' : active'[s] => s \in cron' \/ Owes(rec, s)
    PROVE  ScheduleInv'
<1>1. \A u \in Requests : req'[u] = rec
    BY DEF TypeInv, EngineTypeOK, OneRequest
<1>2. BootAlone'
    BY DEF BootAlone, Booted
<1>3. Deactivated'
    BY <1>1 DEF Deactivated
<1>4. ASSUME NEW s \in exists', active'[s], Owes(rec, s) PROVE Scheduled(s)'
  <2>1. Owes(req[r], s)'
      BY <1>1, <1>4 DEF Owes
  <2> QED
      BY <2>1 DEF Scheduled
<1> QED
    BY <1>2, <1>3, <1>4 DEF ScheduleInv, Scheduled

\* What a single request in flight leaves to do.
LEMMA ScheduleNow ==
    ASSUME ScheduleInv, OneRequest, NEW r \in Requests, boot = Booted
    PROVE  \A s \in exists : active[s] => s \in cron \/ Owes(req[r], s)
BY DEF ScheduleInv, Scheduled, OneRequest, Booted

\* A request starts only after the loading, and only remove unregisters at once.
LEMMA ScheduleStarts ==
    ASSUME TypeInv, ScheduleInv, OneRequest, ~EarlyRequests,
           NEW r \in Requests, RequestStart(r)
    PROVE  ScheduleInv'
<1>1. PICK q \in RequestRecord : q = req[r]
    BY DEF TypeInv, EngineTypeOK
<1>2. ASSUME NEW kind, NEW rec, Ask(r, kind, rec),
             rec.pc # "schedule",
             \A s \in Strategies : s \in cron => s \in cron' \/ Owes(rec, s)
      PROVE  ScheduleInv'
  <2>1. /\ boot = Booted /\ q.pc = "idle" /\ req' = [req EXCEPT ![r] = rec]
        /\ UNCHANGED <<exists, active, boot>>
      BY <1>1, <1>2 DEF Ask, ReqAt, tableVars, notReq
  <2>2. \A s \in exists : active[s] => s \in cron
      BY <1>1, <2>1, ScheduleNow DEF Owes
  <2>3. exists \subseteq Strategies
      BY DEF TypeInv, EngineTypeOK, TableTypeOK
  <2> QED
      BY <1>2, <2>1, <2>2, <2>3, ScheduleMove
<1>3. ASSUME NEW x \in Strategies, RemoveStart(r, x) PROVE ScheduleInv'
  <2> DEFINE rec == [NoRequest EXCEPT !.pc = "remove.delete", !.strat = x]
  <2>1. rec.pc = "remove.delete" /\ rec.strat = x
      BY DEF NoRequest
  <2>2. Ask(r, "remove", rec) /\ cron' = cron \ {x}
      BY <1>3 DEF RemoveStart
  <2> HIDE DEF rec
  <2>3. \A s \in Strategies : s \in cron => s \in cron' \/ Owes(rec, s)
      BY <2>1, <2>2 DEF Owes
  <2> QED
      BY <1>2, <2>1, <2>2, <2>3
<1>4. ASSUME NEW s \in Strategies, NEW act \in BOOLEAN, CreateStart(r, s, act)
      PROVE  ScheduleInv'
  <2> DEFINE rec == [NoRequest EXCEPT !.pc = "create.write", !.strat = s, !.act = act]
  <2>1. rec.pc = "create.write"
      BY DEF NoRequest
  <2>2. Ask(r, "create", rec) /\ cron' = cron
      BY <1>4 DEF CreateStart
  <2> HIDE DEF rec
  <2> QED
      BY <1>2, <2>1, <2>2
<1>5. ASSUME NEW s \in Strategies, NEW act \in BOOLEAN, NEW keep \in BOOLEAN,
             UpdateStart(r, s, act, keep)
      PROVE  ScheduleInv'
  <2> DEFINE rec == [NoRequest EXCEPT !.pc = "update.write", !.strat = s,
                                      !.act = act, !.keep = keep]
  <2>1. rec.pc = "update.write"
      BY DEF NoRequest
  <2>2. Ask(r, "update", rec) /\ cron' = cron
      BY <1>5 DEF UpdateStart
  <2> HIDE DEF rec
  <2> QED
      BY <1>2, <2>1, <2>2
<1>6. ASSUME NEW s \in Strategies, NEW status \in Statuses, StatusStart(r, s, status)
      PROVE  ScheduleInv'
  <2> DEFINE rec == [NoRequest EXCEPT !.pc = "status.write", !.strat = s,
                                      !.act = (status = "RUNNING"), !.status = status]
  <2>1. rec.pc = "status.write"
      BY DEF NoRequest
  <2>2. Ask(r, "status", rec) /\ cron' = cron
      BY <1>6 DEF StatusStart
  <2> HIDE DEF rec
  <2> QED
      BY <1>2, <2>1, <2>2
<1>7. ASSUME StopStart(r) PROVE ScheduleInv'
  <2> DEFINE rec == [NoRequest EXCEPT !.pc = "stop.read"]
  <2>1. rec.pc = "stop.read"
      BY DEF NoRequest
  <2>2. Ask(r, "stop", rec) /\ cron' = cron
      BY <1>7 DEF StopStart
  <2> HIDE DEF rec
  <2> QED
      BY <1>2, <2>1, <2>2
<1>8. ASSUME NEW n \in Limits, ParamsStart(r, n)
      PROVE  ScheduleInv'
  <2> DEFINE rec == [NoRequest EXCEPT !.pc = "params.save", !.limit = n]
  <2>1. rec.pc = "params.save"
      BY DEF NoRequest
  <2>2. Ask(r, "params", rec) /\ cron' = cron
      BY <1>8 DEF ParamsStart
  <2> HIDE DEF rec
  <2> QED
      BY <1>2, <2>1, <2>2
<1>9. ASSUME ResetRequest(r) PROVE ScheduleInv'
  <2>1. NoRequest.pc = "idle" /\ Ask(r, "reset", NoRequest) /\ cron' = cron
      BY <1>9 DEF ResetRequest, NoRequest
  <2> QED
      BY <1>2, <2>1
<1> QED
    BY <1>3, <1>4, <1>5, <1>6, <1>7, <1>8, <1>9 DEF RequestStart

\* A request that goes on: what it activates it registers, and what it
\* unregisters it has deactivated, or is about to deactivate or to delete.
LEMMA ScheduleRequests ==
    ASSUME TypeInv, ScheduleInv, OneRequest, NEW r \in Requests, RequestStep(r)
    PROVE  ScheduleInv'
<1>1. PICK q \in RequestRecord : q = req[r]
    BY DEF TypeInv, EngineTypeOK
<1>2. q.pc # "idle" /\ boot' = boot
  <2>1. CASE \E l \in Legs : StopClose(r, l)
      BY <1>1, <2>1 DEF StopClose, ReqAt, notReq
  <2>2. CASE CreateWrite(r) \/ UpdateWrite(r) \/ StatusWrite(r) \/ Schedule(r)
      BY <1>1, <2>2 DEF CreateWrite, UpdateWrite, StatusWrite, Schedule, ReqAt, notReq
  <2>3. CASE \/ RemoveDelete(r) \/ StopRead(r) \/ StopNext(r) \/ StopWrite(r)
             \/ StopList(r) \/ StopDone(r) \/ ParamsSave(r)
      BY <1>1, <2>3 DEF RemoveDelete, StopRead, StopNext, StopWrite, StopList,
         StopDone, ParamsSave, ReqAt, notReq
  <2> QED
      BY <2>1, <2>2, <2>3 DEF RequestStep
<1>3. boot = Booted
    BY <1>1, <1>2 DEF ScheduleInv, BootAlone
<1>4. /\ \A s \in exists : active[s] => s \in cron \/ Owes(q, s)
      /\ exists \subseteq Strategies /\ active \in [Strategies -> BOOLEAN]
      /\ q.pc = "schedule" /\ ~q.act => ~active[q.strat]
    BY <1>1, <1>3, ScheduleNow
    DEF TypeInv, EngineTypeOK, TableTypeOK, ScheduleInv, Deactivated
<1>5. ASSUME NEW rec, req' = [req EXCEPT ![r] = rec],
             rec.pc = "schedule" /\ ~rec.act => ~active'[rec.strat],
             \A s \in exists' : active'[s] => s \in cron' \/ Owes(rec, s)
      PROVE  ScheduleInv'
    BY <1>2, <1>3, <1>5, ScheduleMove
<1>6. ASSUME ReqDone(r), \A s \in exists' : active'[s] => s \in cron'
      PROVE  ScheduleInv'
  <2>1. NoRequest.pc = "idle"
      BY DEF NoRequest
  <2> QED
      BY <1>5, <1>6, <2>1 DEF ReqDone
<1>7. CASE CreateWrite(r)
  <2> DEFINE rec == [q EXCEPT !.pc = "register"]
  <2>1. /\ q.pc = "create.write" /\ cron' = cron
        /\ exists' = exists \cup {q.strat}
        /\ active' = [active EXCEPT ![q.strat] = q.act]
        /\ req' = [req EXCEPT ![r] = rec]
      BY <1>1, <1>7 DEF CreateWrite, ReqAt, ReqGoto
  <2>2. rec.pc = "register" /\ rec.strat = q.strat /\ rec.act = q.act
      BY DEF RequestRecord
  <2> HIDE DEF rec
  <2>3. q.strat \in Strategies
      BY <1>1, <2>1 DEF TypeInv, RequestWorks
  <2>4. \A s \in exists' : active'[s] => s \in cron' \/ Owes(rec, s)
      BY <1>4, <2>1, <2>2, <2>3 DEF Owes
  <2> QED
      BY <1>5, <2>1, <2>2, <2>4
<1>8. CASE UpdateWrite(r)
  <2>1. q.pc = "update.write" /\ UNCHANGED <<exists, cron>>
      BY <1>1, <1>8 DEF UpdateWrite, ReqAt
  <2>2. \A s \in exists : active[s] => s \in cron
      BY <1>4, <2>1 DEF Owes
  <2>3. CASE ReqDone(r) /\ active' = active
      BY <1>6, <2>1, <2>2, <2>3
  <2>4. ASSUME NEW act \in BOOLEAN, active' = [active EXCEPT ![q.strat] = act],
               req' = [req EXCEPT ![r].pc = "register", ![r].act = act]
        PROVE  ScheduleInv'
    <3> DEFINE rec == [q EXCEPT !.pc = "register", !.act = act]
    <3>1. req' = [req EXCEPT ![r] = rec]
        BY <1>1, <2>4
    <3>2. rec.pc = "register" /\ rec.strat = q.strat /\ rec.act = act
        BY DEF RequestRecord
    <3> HIDE DEF rec
    <3>3. \A s \in exists' : active'[s] => s \in cron' \/ Owes(rec, s)
        BY <1>4, <2>1, <2>2, <2>4, <3>2 DEF Owes
    <3> QED
        BY <1>5, <3>1, <3>2, <3>3
  <2>5. q.strat \in exists => (IF q.keep THEN active[q.strat] ELSE q.act) \in BOOLEAN
      BY <1>4 DEF RequestRecord
  <2> QED
      BY <1>1, <1>8, <2>3, <2>4, <2>5 DEF UpdateWrite
<1>9. CASE StatusWrite(r)
  <2>1. q.pc = "status.write" /\ UNCHANGED <<exists, cron>>
      BY <1>1, <1>9 DEF StatusWrite, ReqAt
  <2>2. \A s \in exists : active[s] => s \in cron
      BY <1>4, <2>1 DEF Owes
  <2>3. CASE ReqDone(r) /\ active' = active
      BY <1>6, <2>1, <2>2, <2>3
  <2>4. CASE /\ q.strat \in exists /\ ReqGoto(r, "schedule")
             /\ active' = [active EXCEPT ![q.strat] = q.act]
    <3> DEFINE rec == [q EXCEPT !.pc = "schedule"]
    <3>1. req' = [req EXCEPT ![r] = rec]
        BY <1>1, <2>4 DEF ReqGoto
    <3>2. rec.pc = "schedule" /\ rec.strat = q.strat /\ rec.act = q.act
        BY DEF RequestRecord
    <3> HIDE DEF rec
    <3>3. /\ \A s \in exists' : active'[s] => s \in cron' \/ Owes(rec, s)
          /\ ~rec.act => ~active'[rec.strat]
        BY <1>4, <2>1, <2>2, <2>4, <3>2 DEF Owes
    <3> QED
        BY <1>5, <3>1, <3>2, <3>3
  <2> QED
      BY <1>1, <1>9, <2>3, <2>4 DEF StatusWrite
<1>10. CASE Schedule(r)
  <2>1. /\ q.pc \in {"register", "schedule"} /\ UNCHANGED <<exists, active>>
        /\ ReqDone(r)
        /\ \/ q.act /\ cron' = cron \cup {q.strat}
           \/ ~q.act /\ q.pc = "schedule" /\ cron' = cron \ {q.strat}
           \/ ~q.act /\ cron' = cron
      BY <1>1, <1>10 DEF Schedule, ReqAt, Register, Unregister, tableVars
  <2>2. \A s \in exists' : active'[s] => s \in cron'
      BY <1>4, <2>1 DEF Owes
  <2> QED
      BY <1>6, <2>1, <2>2
<1>11. CASE RemoveDelete(r)
  <2>1. /\ q.pc = "remove.delete" /\ UNCHANGED <<active, cron>> /\ ReqDone(r)
        /\ exists' = exists \ {q.strat}
      BY <1>1, <1>11 DEF RemoveDelete, ReqAt
  <2>2. \A s \in exists' : active'[s] => s \in cron'
      BY <1>4, <2>1 DEF Owes
  <2> QED
      BY <1>6, <2>1, <2>2
<1>12. CASE StopRead(r)
  <2> DEFINE rec == [q EXCEPT !.pc = "stop.next", !.todo = {s \in exists : active[s]}]
  <2>1. /\ q.pc = "stop.read" /\ UNCHANGED <<exists, active, cron>>
        /\ req' = [req EXCEPT ![r] = rec]
      BY <1>1, <1>12 DEF StopRead, ReqAt, tableVars
  <2>2. rec.pc = "stop.next"
      BY DEF RequestRecord
  <2> HIDE DEF rec
  <2> QED
      BY <1>4, <1>5, <2>1, <2>2 DEF Owes
<1>13. CASE StopNext(r)
  <2>1. q.pc = "stop.next" /\ UNCHANGED <<exists, active>>
      BY <1>1, <1>13 DEF StopNext, ReqAt, tableVars
  <2>2. \A s \in exists : active[s] => s \in cron
      BY <1>4, <2>1 DEF Owes
  <2>3. ASSUME NEW x \in q.todo, Unregister(x),
               req' = [req EXCEPT ![r].pc = "stop.write", ![r].strat = x,
                                  ![r].todo = @ \ {x}]
        PROVE  ScheduleInv'
    <3> DEFINE rec == [q EXCEPT !.pc = "stop.write", !.strat = x,
                                !.todo = q.todo \ {x}]
    <3>1. req' = [req EXCEPT ![r] = rec]
        BY <1>1, <2>3
    <3>2. rec.pc = "stop.write" /\ rec.strat = x
        BY DEF RequestRecord
    <3> HIDE DEF rec
    <3>3. \A s \in exists' : active'[s] => s \in cron' \/ Owes(rec, s)
        BY <2>1, <2>2, <2>3, <3>2 DEF Owes, Unregister
    <3> QED
        BY <1>5, <3>1, <3>2, <3>3
  <2>4. CASE ReqGoto(r, "stop.list") /\ cron' = cron
    <3> DEFINE rec == [q EXCEPT !.pc = "stop.list"]
    <3>1. req' = [req EXCEPT ![r] = rec]
        BY <1>1, <2>4 DEF ReqGoto
    <3>2. rec.pc = "stop.list"
        BY DEF RequestRecord
    <3> HIDE DEF rec
    <3> QED
        BY <1>5, <2>1, <2>2, <2>4, <3>1, <3>2
  <2> QED
      BY <1>1, <1>13, <2>3, <2>4 DEF StopNext
<1>14. CASE StopWrite(r)
  <2>1. q.pc = "stop.write" /\ UNCHANGED <<exists, cron>>
      BY <1>1, <1>14 DEF StopWrite, ReqAt
  <2>2. CASE ReqDone(r) /\ q.strat \notin exists /\ active' = active
      BY <1>4, <1>6, <2>1, <2>2 DEF Owes
  <2>3. CASE ReqGoto(r, "stop.next") /\ active' = [active EXCEPT ![q.strat] = FALSE]
    <3> DEFINE rec == [q EXCEPT !.pc = "stop.next"]
    <3>1. req' = [req EXCEPT ![r] = rec]
        BY <1>1, <2>3 DEF ReqGoto
    <3>2. rec.pc = "stop.next"
        BY DEF RequestRecord
    <3> HIDE DEF rec
    <3>3. \A s \in exists' : active'[s] => s \in cron'
        BY <1>4, <2>1, <2>3 DEF Owes
    <3> QED
        BY <1>5, <3>1, <3>2, <3>3
  <2> QED
      BY <1>1, <1>14, <2>2, <2>3 DEF StopWrite
<1>15. CASE StopList(r)
  <2> DEFINE rec == [q EXCEPT !.pc = "stop.close", !.closing = legs]
  <2>1. /\ q.pc = "stop.list" /\ UNCHANGED <<exists, active, cron>>
        /\ req' = [req EXCEPT ![r] = rec]
      BY <1>1, <1>15 DEF StopList, ReqAt, tableVars
  <2>2. rec.pc = "stop.close"
      BY DEF RequestRecord
  <2> HIDE DEF rec
  <2> QED
      BY <1>4, <1>5, <2>1, <2>2 DEF Owes
<1>16. CASE \E l \in Legs : StopClose(r, l)
  <2>1. PICK l \in Legs : StopClose(r, l)
      BY <1>16
  <2> DEFINE rec == [q EXCEPT !.closing = q.closing \ {l}]
  <2>2. /\ q.pc = "stop.close" /\ UNCHANGED <<exists, active, cron>>
        /\ req' = [req EXCEPT ![r] = rec]
      BY <1>1, <2>1 DEF StopClose, ReqAt, tableVars
  <2>3. rec.pc = q.pc
      BY DEF RequestRecord
  <2> HIDE DEF rec
  <2> QED
      BY <1>4, <1>5, <2>2, <2>3 DEF Owes
<1>17. CASE StopDone(r) \/ ParamsSave(r)
  <2>1. /\ q.pc \in {"stop.close", "params.save"} /\ ReqDone(r)
        /\ UNCHANGED <<exists, active, cron>>
      BY <1>1, <1>17 DEF StopDone, ParamsSave, ReqAt, tableVars
  <2> QED
      BY <1>4, <1>6, <2>1 DEF Owes
<1> QED
    BY <1>7, <1>8, <1>9, <1>10, <1>11, <1>12, <1>13, <1>14, <1>15, <1>16, <1>17
       DEF RequestStep

\* The loading: what it drops from its list is registered, or was inactive and
\* is put back when it has been made active.
LEMMA ScheduleBoot ==
    ASSUME TypeInv, ScheduleInv, BootStep
    PROVE  ScheduleInv'
<1>1. PICK b \in BootRecord : b = boot
    BY DEF TypeInv, EngineTypeOK
<1>2. /\ b.pc # "done" /\ UNCHANGED <<exists, req>>
    BY <1>1 DEF BootStep, BootRead, BootNext, BootWrite, BootDone, tableVars
<1>3. \A r \in Requests : req[r].pc = "idle" /\ req'[r].pc = "idle"
    BY <1>1, <1>2 DEF ScheduleInv, BootAlone, Booted
<1>4. /\ \A s \in exists : active[s] =>
            s \in cron \/ b.pc = "wait" \/ s \in b.todo
      /\ b.pc \in {"next", "write"} =>
            \A s \in b.stale : s \in exists /\ ~active[s]
      /\ b.pc = "write" => b.cur \in b.stale
      /\ exists \subseteq Strategies /\ active \in [Strategies -> BOOLEAN]
    BY <1>1, <1>3 DEF ScheduleInv, Scheduled, Owes, BootAlone, TypeInv,
       EngineTypeOK, TableTypeOK
<1>5. Deactivated'
    BY <1>3 DEF Deactivated
<1>6. ASSUME NEW a, boot' = a, a.pc \in {"next", "write"},
             \A s \in a.stale : s \in exists /\ ~active'[s],
             a.pc = "write" => a.cur \in a.stale,
             \A s \in exists : active'[s] => s \in cron' \/ s \in a.todo
      PROVE  ScheduleInv'
    BY <1>2, <1>3, <1>5, <1>6 DEF ScheduleInv, BootAlone, Scheduled
<1>7. CASE BootRead
  <2> DEFINE ran == {s \in exists : st[s] \in {"RUNNING", "OPENING"}}
             a == [b EXCEPT !.pc = "next",
                            !.todo = {s \in exists : active[s]} \cup ran,
                            !.stale = {s \in ran : ~active[s]}]
  <2>1. boot' = a /\ active' = active
      BY <1>1, <1>7 DEF BootRead, tableVars
  <2>2. /\ a.pc = "next" /\ a.todo = {s \in exists : active[s]} \cup ran
        /\ a.stale = {s \in ran : ~active[s]}
      BY DEF BootRecord
  <2> HIDE DEF a
  <2> QED
      BY <1>6, <2>1, <2>2
<1>8. CASE BootWrite
  <2>1. b.pc = "write" /\ b.cur \in exists /\ cron' = cron
      BY <1>1, <1>4, <1>8 DEF BootWrite
  <2> DEFINE a == [b EXCEPT !.pc = "next", !.todo = b.todo \cup {b.cur},
                            !.stale = b.stale \ {b.cur}]
  <2>2. boot' = a /\ active' = [active EXCEPT ![b.cur] = TRUE]
      BY <1>1, <1>8, <2>1 DEF BootWrite
  <2>3. /\ a.pc = "next" /\ a.todo = b.todo \cup {b.cur}
        /\ a.stale = b.stale \ {b.cur}
      BY DEF BootRecord
  <2> HIDE DEF a
  <2> QED
      BY <1>4, <1>6, <2>1, <2>2, <2>3
<1>9. CASE BootDone
  <2>1. /\ b.pc = "next" /\ b.todo = {} /\ boot' = Booted
        /\ UNCHANGED <<active, cron>>
      BY <1>1, <1>9 DEF BootDone, tableVars
  <2> QED
      BY <1>2, <1>4, <1>5, <2>1 DEF ScheduleInv, BootAlone, Scheduled, Booted
<1>10. ASSUME NEW s \in Strategies, BootNext(s)
       PROVE  ScheduleInv'
  <2>1. b.pc = "next" /\ s \in b.todo /\ active' = active
      BY <1>1, <1>10 DEF BootNext, tableVars
  <2>2. CASE s \in b.stale
    <3> DEFINE a == [b EXCEPT !.pc = "write", !.cur = s, !.todo = b.todo \ {s}]
    <3>1. boot' = a /\ cron' = cron
        BY <1>1, <1>10, <2>2 DEF BootNext
    <3>2. /\ a.pc = "write" /\ a.cur = s /\ a.todo = b.todo \ {s}
          /\ a.stale = b.stale
        BY DEF BootRecord
    <3> HIDE DEF a
    <3> QED
        BY <1>4, <1>6, <2>1, <2>2, <3>1, <3>2
  <2>3. CASE s \notin b.stale
    <3> DEFINE a == [b EXCEPT !.todo = b.todo \ {s}, !.cur = None]
    <3>1. boot' = a /\ cron' = cron \cup {s}
        BY <1>1, <1>10, <2>3 DEF BootNext, Register
    <3>2. a.pc = b.pc /\ a.todo = b.todo \ {s} /\ a.stale = b.stale
        BY DEF BootRecord
    <3> HIDE DEF a
    <3> QED
        BY <1>4, <1>6, <2>1, <3>1, <3>2
  <2> QED
      BY <2>2, <2>3
<1> QED
    BY <1>7, <1>8, <1>9, <1>10 DEF BootStep

\* It is inductive.
LEMMA ScheduleStep ==
    ASSUME OneRequest, ~EarlyRequests, TypeInv, ScheduleInv, [Next]_vars
    PROVE  ScheduleInv'
<1>1. ASSUME NEW c \in Slots, CycleStep(c) \/ \E s \in Strategies : CycleFire(c, s)
      PROVE  ScheduleInv'
    BY <1>1, CycleLeaves, ScheduleUntouched
<1>2. CASE \E s \in Strategies : LateWrite(s)
    BY <1>2, ScheduleUntouched DEF LateWrite
<1>3. CASE \E l \in Legs : CloseLeg(l)
    BY <1>3, ScheduleUntouched DEF CloseLeg, notCycle, tableVars
<1>4. CASE Cleanup
    BY <1>4, ScheduleUntouched DEF Cleanup, notCycle
<1>5. CASE Timer
    BY <1>5, ScheduleUntouched DEF Timer, notCycle, tableVars
<1>6. CASE Restart
  <2>1. /\ boot' = [Booted EXCEPT !.pc = "wait"]
        /\ req' = [r \in Requests |-> NoRequest]
      BY <1>6 DEF Restart
  <2>2. boot'.pc = "wait" /\ NoRequest.pc = "idle"
      BY <2>1 DEF Booted, NoRequest
  <2> QED
      BY <2>1, <2>2 DEF ScheduleInv, BootAlone, Deactivated, Scheduled
<1>7. CASE UNCHANGED vars
    BY <1>7, ScheduleUntouched DEF vars, tableVars
<1> QED
    BY <1>1, <1>2, <1>3, <1>4, <1>5, <1>6, <1>7, ScheduleStarts,
       ScheduleRequests, ScheduleBoot DEF Next, Rest

\* The cron registry is memory, isActive is a row, and every request that
\* changes one changes the other after an await; a restart empties the first.
\* Yet when the engine has loaded and no request is in flight, every active
\* strategy has its job; for any number of strategies and restarts, with one
\* administrator at a time who does not come before the loading is done.
THEOREM ActivesAreScheduled ==
    ASSUME OneRequest, ~EarlyRequests
    PROVE  Spec => []ActiveIsScheduled
<1>1. Init => TypeInv /\ ScheduleInv
  <2> SUFFICES ASSUME Init PROVE ScheduleInv
      BY TypeInit
  <2>1. /\ boot = Booted /\ cron = ActiveFirst
        /\ active = [s \in Strategies |-> s \in ActiveFirst]
        /\ exists = ActiveFirst /\ \A r \in Requests : req[r] = NoRequest
      BY DEF Init
  <2>2. NoRequest.pc = "idle" /\ boot.pc = "done"
      BY <2>1 DEF NoRequest, Booted
  <2> QED
      BY <2>1, <2>2 DEF ScheduleInv, BootAlone, Deactivated, Scheduled
<1>2. TypeInv /\ ScheduleInv /\ [Next]_vars => (TypeInv /\ ScheduleInv)'
    BY TypeStep, ScheduleStep
<1>3. ScheduleInv => ActiveIsScheduled
    BY DEF ScheduleInv, ActiveIsScheduled, Quiet, ReqAt, Scheduled, Owes, Booted
<1> QED
    BY <1>1, <1>2, <1>3, PTL DEF Spec

============================================================================
