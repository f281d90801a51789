------------------------- MODULE ExchangeServiceProofs -------------------------
(***************************************************************************)
(* The invariants of ExchangeService for any number of configurations,     *)
(* callers and administrators.  CachedIsCurrent needs what callers hold on *)
(* the way to the cache (HeldIsCurrent), OneSigner that only a Binance     *)
(* adapter is initialised (InitIsBinance), and LegsApart that what is      *)
(* about to be bound has been checked (BindIsChecked).                     *)
(***************************************************************************)
EXTENDS ExchangeService, TLAPS

Holds(k) == call[k].at \in {"create", "init"}

\* The row a caller holds is the one in the table, or the table was edited.
HeldIsCurrent ==
    \A k \in Callers : Holds(k) /\ call[k].config \notin raced =>
        call[k].row = table[call[k].config]

InitIsBinance ==
    \A k \in Callers : call[k].at = "init" => ~Lighter(call[k].config)

\* Foreign keys: a configuration that is bound is in the table.
BoundInTable ==
    \A s \in Strategies : \A c \in {bound[s].long, bound[s].short} \ {NoConfig} : InTable(c)

BindIsChecked ==
    \A a \in Admins : admin[a].at = "bind" => ValidBinding(admin[a].to, admin[a].seen)

Inv ==
    /\ CacheTypeOK /\ BoundInTable /\ InitIsBinance /\ BindIsChecked
    /\ OneSigner /\ HeldIsCurrent /\ CachedIsCurrent /\ LegsApart

----------------------------------------------------------------------------
\* A row is not the absence of one.
LEMMA RowsAreNotNoRow == \A row \in Rows : row # NoRow
<1> SUFFICES ASSUME NEW row \in Rows, row = NoRow PROVE FALSE
  OBVIOUS
<1>1. row.secret \in Nat
  BY DEF Rows
<1>2. row.secret = -1
  BY DEF NoRow
<1> QED
  BY <1>1, <1>2, SMT

\* What a caller in flight works on.
LEMMA CallShape ==
    ASSUME CacheTypeOK, NEW k \in Callers
    PROVE  /\ call[k] \in CallStates
           /\ Holds(k) => call[k].config \in Configs /\ call[k].row \in Rows
           /\ call[k].at \in {"default", "testnet"} => call[k].side \in Sides
BY SMT DEF CacheTypeOK, CallStates, IdleCall, Holds

\* What a request in flight works on.
LEMMA AdminShape ==
    ASSUME CacheTypeOK, NEW a \in Admins
    PROVE  /\ admin[a] \in AdminStates
           /\ admin[a].at \in {"update", "remove", "clear"} => admin[a].config \in Configs
           /\ admin[a].at \in {"check", "bind"} =>
                 /\ admin[a].strategy \in Strategies /\ admin[a].to \in Binding
                 /\ admin[a].seen \in [Configs -> Accounts]
BY SMT DEF CacheTypeOK, AdminStates, IdleAdmin

\* A process that has just started has no adapters, and bindings that are valid.
LEMMA InitInv == CacheInit => Inv
<1> SUFFICES ASSUME CacheInit PROVE Inv
  OBVIOUS
<1>1. CacheTypeOK
  BY BindingAssumption, EditsAssumption, SMT
  DEF CacheInit, CacheTypeOK, Rows, Accounts, NoRow, CallStates, AdminStates, IdleCall,
      IdleAdmin
<1>2. \A c \in DOMAIN Table0 : /\ InTable(c) /\ table[c].account = Table0[c]
  BY BindingAssumption, SMT DEF CacheInit, InTable, NoRow
<1>3. BoundInTable
  BY <1>2, BindingAssumption DEF CacheInit, BoundInTable
<1>4. InitIsBinance /\ HeldIsCurrent
  BY DEF CacheInit, InitIsBinance, HeldIsCurrent, Holds, IdleCall
<1>5. BindIsChecked
  BY DEF CacheInit, BindIsChecked, IdleAdmin
<1>6. OneSigner /\ CachedIsCurrent
  BY DEF CacheInit, OneSigner, CachedIsCurrent
<1>7. LegsApart
  BY <1>2, BindingAssumption, SMT DEF CacheInit, LegsApart, Lighter, Binding
<1> QED
  BY <1>1, <1>3, <1>4, <1>5, <1>6, <1>7 DEF Inv

----------------------------------------------------------------------------
(* Callers.                                                                *)

\* A caller changes no row, no binding and no request.
LEMMA CallerKeepsTables ==
    ASSUME Inv, UNCHANGED <<tables, admin, histories>>
    PROVE  BoundInTable' /\ BindIsChecked' /\ LegsApart'
BY DEF Inv, tables, histories, BoundInTable, BindIsChecked, LegsApart, InTable

\* A step of a caller that leaves the cache alone and holds only what it held, or
\* the row as it is now.
LEMMA CallerStep ==
    ASSUME Inv, NEW k \in Callers, NEW state \in CallStates, Goto(k, state),
           UNCHANGED <<tables, adapters, admin, histories>>,
           state.at = "init" => ~Lighter(state.config),
           state.at \in {"create", "init"} =>
               \/ state.row = table[state.config]
               \/ Holds(k) /\ state.config = call[k].config /\ state.row = call[k].row
    PROVE  Inv'
<1> USE DEF Inv, tables, adapters, histories
<1>1. call' = [call EXCEPT ![k] = state] /\ call \in [Callers -> CallStates]
  BY DEF Goto, CacheTypeOK
<1>2. CacheTypeOK'
  BY <1>1 DEF CacheTypeOK
<1>3. InitIsBinance'
  BY <1>1 DEF InitIsBinance, Lighter
<1>4. HeldIsCurrent'
  BY <1>1 DEF HeldIsCurrent, Holds
<1>5. OneSigner' /\ CachedIsCurrent'
  BY DEF OneSigner, CachedIsCurrent, Clearing
<1> QED
  BY <1>2, <1>3, <1>4, <1>5, CallerKeepsTables

\* Returning, and reading a row of the table, are such steps.
LEMMA ReturnOrRead ==
    ASSUME Inv, NEW k \in Callers, UNCHANGED <<tables, adapters, admin, histories>>,
           \/ Return(k)
           \/ \E c \in Configs : InTable(c) /\ Read(k, c)
    PROVE  Inv'
<1>1. CASE Return(k)
  <2>1. IdleCall \in CallStates /\ IdleCall.at = "idle"
    BY DEF CallStates, IdleCall
  <2> QED
    BY <1>1, <2>1, CallerStep DEF Return
<1>2. CASE \E c \in Configs : InTable(c) /\ Read(k, c)
  <2> PICK c \in Configs : InTable(c) /\ Read(k, c)
    BY <1>2
  <2> DEFINE state == [at |-> "create", config |-> c, row |-> table[c]]
  <2>1. table[c] \in Rows
    BY DEF Inv, CacheTypeOK, InTable
  <2>2. state \in CallStates
    BY <2>1 DEF CallStates
  <2>3. Goto(k, state) /\ state.at = "create" /\ state.row = table[state.config]
    BY DEF Read
  <2> HIDE DEF state
  <2> QED
    BY <2>2, <2>3, CallerStep
<1> QED
  BY <1>1, <1>2

\* Looking up the configuration of one side: it is bound, so it is in the table.
LEMMA ResolveSideInv ==
    ASSUME Inv, NEW k \in Callers, NEW s \in Strategies, NEW side \in Sides,
           ResolveSide(k, s, side)
    PROVE  Inv'
<1> DEFINE c == SideConfig(s, side)
           state == [at |-> "default", side |-> side]
<1>1. UNCHANGED <<tables, adapters, admin, histories>>
  BY DEF ResolveSide
<1>2. CASE c = NoConfig
  <2>1. Goto(k, state)
    BY <1>2 DEF ResolveSide
  <2>2. state \in CallStates /\ state.at = "default"
    BY DEF CallStates
  <2> HIDE DEF state
  <2> QED
    BY <1>1, <2>1, <2>2, CallerStep
<1>3. CASE c # NoConfig
  <2>1. Read(k, c)
    BY <1>3 DEF ResolveSide
  <2>2. c \in {bound[s].long, bound[s].short}
    BY DEF SideConfig
  <2>3. bound[s] \in Binding
    BY DEF Inv, CacheTypeOK
  <2>4. c \in Configs
    BY <1>3, <2>2, <2>3 DEF Binding
  <2>5. InTable(c)
    BY <1>3, <2>2 DEF Inv, BoundInTable
  <2> QED
    BY <1>1, <2>1, <2>4, <2>5, ReturnOrRead
<1> QED
  BY <1>2, <1>3

\* Looking for an active configuration, of the default environment, then the testnet.
LEMMA DefaultConfigInv ==
    ASSUME Inv, NEW k \in Callers, DefaultConfig(k)
    PROVE  Inv'
<1> DEFINE state == [call[k] EXCEPT !.at = "testnet"]
<1>1. UNCHANGED <<tables, adapters, admin, histories>>
  BY DEF DefaultConfig
<1>2. call[k].at \in {"default", "testnet"}
  BY DEF DefaultConfig
<1>3. \A env : \A c \in Active(env) : c \in Configs /\ InTable(c)
  BY DEF Active
<1>4. \/ \E c \in Configs : InTable(c) /\ Read(k, c)
      \/ Return(k)
      \/ Goto(k, state)
  BY <1>3 DEF DefaultConfig
<1>5. CASE Goto(k, state)
  <2>1. call[k] \in CallStates
    BY DEF Inv, CacheTypeOK
  <2>2. state \in CallStates /\ state.at = "testnet"
    BY <1>2, <2>1 DEF CallStates, IdleCall
  <2> HIDE DEF state
  <2> QED
    BY <1>1, <1>5, <2>2, CallerStep
<1> QED
  BY <1>1, <1>4, <1>5, ReturnOrRead

\* Looking up a configuration by its id.
LEMMA ResolveConfigInv ==
    ASSUME Inv, NEW k \in Callers, NEW c \in Configs, ResolveConfig(k, c)
    PROVE  Inv'
BY ReturnOrRead DEF ResolveConfig

\* An adapter is cached: of the row its caller holds, with a signer of its own
\* on Lighter, where there was none before.
LEMMA CachedInv ==
    ASSUME Inv, NEW k \in Callers, Holds(k), Return(k),
           UNCHANGED <<tables, admin, histories>>,
           cache' = [cache EXCEPT ![call[k].config] = call[k].row],
           \/ Lighter(call[k].config) /\ cache[call[k].config] = NoRow
              /\ signers' = [signers EXCEPT ![call[k].config] = @ + 1]
           \/ ~Lighter(call[k].config) /\ UNCHANGED signers
    PROVE  Inv'
<1> DEFINE c == call[k].config
           row == call[k].row
<1> USE DEF Inv, tables, histories
<1>1. c \in Configs /\ row \in Rows /\ row # NoRow
  BY CallShape, RowsAreNotNoRow
<1>2. call' = [call EXCEPT ![k] = IdleCall] /\ call \in [Callers -> CallStates]
  BY DEF Return, Goto, CacheTypeOK
<1>3. cache' = [cache EXCEPT ![c] = row] /\ cache \in [Configs -> Rows \cup {NoRow}]
  BY DEF CacheTypeOK
<1>4. c \notin raced => row = table[c]
  BY DEF HeldIsCurrent
<1>5. signers \in [Configs -> Nat]
  BY DEF CacheTypeOK
<1> HIDE DEF c, row
<1>6. \/ Lighter(c) /\ cache[c] = NoRow /\ signers' = [signers EXCEPT ![c] = @ + 1]
      \/ ~Lighter(c) /\ UNCHANGED signers
  BY DEF c
<1>7. IdleCall \in CallStates
  BY DEF CallStates
<1>8. CacheTypeOK'
  <2>1. signers' \in [Configs -> Nat]
    BY <1>1, <1>5, <1>6, SMT
  <2> QED
    BY <1>1, <1>2, <1>3, <1>7, <2>1 DEF CacheTypeOK
<1>9. InitIsBinance' /\ HeldIsCurrent'
  BY <1>2 DEF InitIsBinance, HeldIsCurrent, Holds, IdleCall, Lighter
<1>10. OneSigner'
  <2> SUFFICES ASSUME NEW d \in Configs
               PROVE  signers'[d] = IF Lighter(d) /\ cache'[d] # NoRow THEN 1 ELSE 0
    BY DEF OneSigner, Lighter
  <2>1. signers[d] = IF Lighter(d) /\ cache[d] # NoRow THEN 1 ELSE 0
    BY DEF OneSigner
  <2>2. cache'[c] # NoRow /\ (d # c => cache'[d] = cache[d])
    BY <1>1, <1>3
  <2>3. CASE Lighter(c) /\ cache[c] = NoRow /\ signers' = [signers EXCEPT ![c] = @ + 1]
    <3>1. signers'[c] = signers[c] + 1 /\ (d # c => signers'[d] = signers[d])
      BY <1>1, <1>5, <2>3
    <3>2. d = c => signers[c] = 0
      BY <2>1, <2>3
    <3>3. d = c => signers'[d] = 1
      BY <3>1, <3>2, SMT
    <3> QED
      BY <2>1, <2>2, <2>3, <3>1, <3>3
  <2>4. CASE ~Lighter(c) /\ UNCHANGED signers
    BY <2>1, <2>2, <2>4
  <2> QED
    BY <1>6, <2>3, <2>4
<1>11. CachedIsCurrent'
  BY <1>1, <1>3, <1>4 DEF CachedIsCurrent, Clearing
<1> QED
  BY <1>8, <1>9, <1>10, <1>11, CallerKeepsTables

\* createAdapter up to its await: cached already, refused, cached now, or to be
\* initialised, which happens only to an adapter of Binance.
LEMMA CreateInv ==
    ASSUME Inv, NEW k \in Callers, Create(k)
    PROVE  Inv'
<1> DEFINE c == call[k].config
           state == [call[k] EXCEPT !.at = "init"]
<1>1. UNCHANGED <<tables, admin, histories>> /\ call[k].at = "create" /\ Holds(k)
  BY DEF Create, Holds
<1>2. CASE UNCHANGED adapters /\ Return(k)
  BY <1>1, <1>2, ReturnOrRead
<1>3. CASE /\ cache[c] = NoRow /\ Lighter(c)
           /\ cache' = [cache EXCEPT ![c] = call[k].row]
           /\ signers' = [signers EXCEPT ![c] = @ + 1]
           /\ Return(k)
  BY <1>1, <1>3, CachedInv
<1>4. CASE ~Lighter(c) /\ UNCHANGED adapters /\ Goto(k, state)
  <2>1. call[k] \in CallStates
    BY DEF Inv, CacheTypeOK
  <2>2. call[k] \in [at : {"create", "init"}, config : Configs, row : Rows]
    BY <1>1, <2>1 DEF CallStates, IdleCall
  <2>3. /\ state \in CallStates /\ state.at = "init"
        /\ state.config = c /\ state.row = call[k].row
    BY <2>2 DEF CallStates
  <2> HIDE DEF state
  <2> QED
    BY <1>1, <1>4, <2>3, CallerStep
<1> QED
  BY <1>2, <1>3, <1>4 DEF Create

\* An initialised Binance adapter is cached.
LEMMA CreateAfterInitInv ==
    ASSUME Inv, NEW k \in Callers, CreateAfterInit(k)
    PROVE  Inv'
<1>1. Holds(k) /\ ~Lighter(call[k].config)
  BY DEF CreateAfterInit, Inv, InitIsBinance, Holds
<1>2. /\ cache' = [cache EXCEPT ![call[k].config] = call[k].row]
      /\ Return(k) /\ UNCHANGED <<tables, signers, admin, histories>>
  BY DEF CreateAfterInit
<1> QED
  BY <1>1, <1>2, CachedInv

----------------------------------------------------------------------------
(* Requests.                                                               *)

\* A request that changes no row and binds nothing: it ends, or goes on with what
\* it has found, and takes no adapter.
LEMMA RequestStep ==
    ASSUME Inv, NEW a \in Admins, NEW state \in AdminStates, AdminGoto(a, state),
           UNCHANGED <<table, bound, adapters, call, histories>>, edits' \in 0..MaxEdits,
           admin[a].at # "clear",
           state.at = "bind" => ValidBinding(state.to, state.seen)
    PROVE  Inv'
<1> USE DEF Inv, adapters, histories
<1>1. admin' = [admin EXCEPT ![a] = state] /\ admin \in [Admins -> AdminStates]
  BY DEF AdminGoto, CacheTypeOK
<1>2. CacheTypeOK'
  BY <1>1 DEF CacheTypeOK
<1>3. BoundInTable' /\ InitIsBinance' /\ OneSigner' /\ HeldIsCurrent' /\ LegsApart'
  BY DEF BoundInTable, InitIsBinance, OneSigner, HeldIsCurrent, LegsApart, InTable,
         Lighter, Holds
<1>4. BindIsChecked'
  BY <1>1 DEF BindIsChecked, ValidBinding, Lighter
<1>5. \A c \in Configs : Clearing(c) => Clearing(c)'
  <2> SUFFICES ASSUME NEW c \in Configs, NEW b \in Admins,
                      admin[b] = [at |-> "clear", config |-> c]
               PROVE  admin'[b] = [at |-> "clear", config |-> c]
    BY DEF Clearing
  <2>1. b # a
    OBVIOUS
  <2> QED
    BY <1>1, <2>1
<1>6. CachedIsCurrent'
  BY <1>5 DEF CachedIsCurrent
<1> QED
  BY <1>2, <1>3, <1>4, <1>6

\* The row of one configuration is written and its adapter is to be dropped: what
\* is held and what is cached of the others stays as true as it was.
LEMMA WriteKeepsAdapters ==
    ASSUME Inv, NEW a \in Admins, NEW c \in Configs, NEW row \in Rows \cup {NoRow},
           admin[a].at # "clear",
           table' = [table EXCEPT ![c] = row],
           AdminGoto(a, [at |-> "clear", config |-> c]), MarkRaced(c),
           UNCHANGED <<adapters, call>>
    PROVE  /\ table' \in [Configs -> Rows \cup {NoRow}]
           /\ admin' \in [Admins -> AdminStates]
           /\ raced' \subseteq Configs
           /\ InitIsBinance' /\ BindIsChecked' /\ OneSigner'
           /\ HeldIsCurrent' /\ CachedIsCurrent'
<1> USE DEF Inv, adapters
<1> DEFINE state == [at |-> "clear", config |-> c]
<1>1. state \in AdminStates /\ state.at = "clear"
  BY DEF AdminStates
<1>2. admin' = [admin EXCEPT ![a] = state] /\ admin \in [Admins -> AdminStates]
  BY DEF AdminGoto, CacheTypeOK
<1>3. table \in [Configs -> Rows \cup {NoRow}] /\ raced \subseteq Configs
  BY DEF CacheTypeOK
<1>4. raced' \subseteq Configs /\ raced' \in {raced \cup {c}, raced \ {c}}
  BY <1>3 DEF MarkRaced
<1>5. InitIsBinance' /\ OneSigner'
  BY DEF InitIsBinance, OneSigner, Lighter
<1>6. BindIsChecked'
  BY <1>1, <1>2 DEF BindIsChecked, ValidBinding, Lighter
<1>7. HeldIsCurrent'
  <2> SUFFICES ASSUME NEW k \in Callers, Holds(k), call[k].config \notin raced'
               PROVE  call[k].row = table'[call[k].config]
    BY DEF HeldIsCurrent, Holds
  <2>1. CASE call[k].config = c
    BY <2>1 DEF MarkRaced, Held, Holds
  <2>2. CASE call[k].config # c
    BY <1>3, <1>4, <2>2, CallShape DEF HeldIsCurrent
  <2> QED
    BY <2>1, <2>2
<1>8. CachedIsCurrent'
  <2> SUFFICES ASSUME NEW d \in Configs, cache[d] # NoRow, ~Clearing(d)', d \notin raced'
               PROVE  cache[d] = table'[d]
    BY DEF CachedIsCurrent
  <2>1. d # c
    BY <1>2 DEF Clearing
  <2>2. ~Clearing(d)
    <3> SUFFICES ASSUME NEW b \in Admins, admin[b] = [at |-> "clear", config |-> d]
                 PROVE  FALSE
      BY DEF Clearing
    <3>1. b # a
      OBVIOUS
    <3> QED
      BY <1>2, <3>1 DEF Clearing
  <2> QED
    BY <1>3, <1>4, <2>1, <2>2 DEF CachedIsCurrent
<1> QED
  BY <1>1, <1>2, <1>3, <1>4, <1>5, <1>6, <1>7, <1>8

\* A configuration that is created is bound to nothing yet.
LEMMA CreateConfigInv ==
    ASSUME Inv, NEW a \in Admins, NEW c \in Configs, CreateConfig(a, c)
    PROVE  Inv'
<1> USE DEF Inv
<1>1. PICK acc \in SubAccounts : table' = [table EXCEPT ![c] =
                      [secret |-> 0, account |-> acc, active |-> TRUE]]
  BY DEF CreateConfig
<1> DEFINE row == [secret |-> 0, account |-> acc, active |-> TRUE]
<1>2. row \in Rows
  BY DEF Rows, Accounts
<1>3. admin[a].at # "clear"
  BY DEF CreateConfig, IdleAdmin
<1>4. /\ AdminGoto(a, [at |-> "clear", config |-> c]) /\ MarkRaced(c) /\ ~InTable(c)
      /\ UNCHANGED <<bound, adapters, call, moved>>
      /\ edits' \in 0..MaxEdits
  BY EditsAssumption, SMT DEF CreateConfig, Edit, CacheTypeOK
<1> HIDE DEF row
<1>5. table' = [table EXCEPT ![c] = row]
  BY <1>1 DEF row
<1>6. /\ table' \in [Configs -> Rows \cup {NoRow}]
      /\ admin' \in [Admins -> AdminStates] /\ raced' \subseteq Configs
      /\ InitIsBinance' /\ BindIsChecked' /\ OneSigner'
      /\ HeldIsCurrent' /\ CachedIsCurrent'
  BY <1>2, <1>3, <1>4, <1>5, WriteKeepsAdapters
<1>7. CacheTypeOK'
  BY <1>4, <1>6 DEF CacheTypeOK, adapters
<1>8. table \in [Configs -> Rows \cup {NoRow}] /\ bound \in [Strategies -> Binding]
  BY DEF CacheTypeOK
<1>9. \A s \in Strategies : \A d \in {bound[s].long, bound[s].short} \ {NoConfig} :
          d \in Configs /\ d # c /\ InTable(d) /\ table'[d] = table[d]
  BY <1>4, <1>5, <1>8 DEF BoundInTable, Binding
<1>10. BoundInTable'
  BY <1>4, <1>9 DEF BoundInTable, InTable
<1>11. LegsApart'
  BY <1>4, <1>9 DEF LegsApart, Lighter
<1> QED
  BY <1>6, <1>7, <1>10, <1>11

\* An edit that has found its row.
LEMMA EditStartInv ==
    ASSUME Inv, NEW a \in Admins, NEW c \in Configs, NEW what \in {"update", "remove"},
           EditStart(a, c, what)
    PROVE  Inv'
<1> DEFINE state == [at |-> what, config |-> c]
<1>1. state \in AdminStates /\ state.at # "bind"
  BY DEF AdminStates
<1>2. AdminGoto(a, state) /\ admin[a].at # "clear"
  BY DEF EditStart, IdleAdmin
<1>3. UNCHANGED <<table, bound, adapters, call, histories>> /\ edits' \in 0..MaxEdits
  BY EditsAssumption, SMT DEF EditStart, Edit, Inv, CacheTypeOK
<1> HIDE DEF state
<1> QED
  BY <1>1, <1>2, <1>3, RequestStep

\* A request that finds its row gone ends.
LEMMA RequestEnds ==
    ASSUME Inv, NEW a \in Admins, AdminGoto(a, IdleAdmin), admin[a].at # "clear",
           UNCHANGED <<tables, adapters, call, histories>>
    PROVE  Inv'
<1>1. IdleAdmin \in AdminStates /\ IdleAdmin.at # "bind"
  BY DEF AdminStates, IdleAdmin
<1>2. UNCHANGED <<table, bound, adapters, call, histories>> /\ edits' \in 0..MaxEdits
  BY DEF tables, Inv, CacheTypeOK
<1> QED
  BY <1>1, <1>2, RequestStep

\* An update: a binding whose account it changes counts as moved.
LEMMA UpdateWriteInv ==
    ASSUME Inv, NEW a \in Admins, UpdateWrite(a)
    PROVE  Inv'
<1> DEFINE c == admin[a].config
<1> USE DEF Inv
<1>1. /\ c \in Configs /\ admin[a].at # "clear"
      /\ UNCHANGED <<bound, adapters, call, edits>>
  BY AdminShape DEF UpdateWrite
<1>2. CASE ~InTable(c)
  BY <1>1, <1>2, RequestEnds DEF UpdateWrite, tables, histories
<1>3. CASE InTable(c)
  <2>1. PICK u \in Updates :
          /\ table' = [table EXCEPT ![c] =
               [secret |-> @.secret + 1, account |-> u.account, active |-> u.active]]
          /\ moved' = IF u.account = table[c].account THEN moved
                      ELSE moved \cup BoundTo(c)
    BY <1>3 DEF UpdateWrite
  <2> DEFINE row == [secret |-> table[c].secret + 1, account |-> u.account,
                     active |-> u.active]
  <2>2. table[c] \in Rows /\ table \in [Configs -> Rows \cup {NoRow}]
    BY <1>1, <1>3 DEF InTable, CacheTypeOK
  <2>3. row \in Rows /\ row.account = u.account
    BY <2>2, RequestsAssumption, SMT DEF Rows
  <2>4. AdminGoto(a, [at |-> "clear", config |-> c]) /\ MarkRaced(c)
    BY <1>3 DEF UpdateWrite
  <2>5. table' = [table EXCEPT ![c] = row]
    BY <2>1
  <2> HIDE DEF row, c
  <2>6. /\ table' \in [Configs -> Rows \cup {NoRow}]
        /\ admin' \in [Admins -> AdminStates] /\ raced' \subseteq Configs
        /\ InitIsBinance' /\ BindIsChecked' /\ OneSigner'
        /\ HeldIsCurrent' /\ CachedIsCurrent'
    BY <1>1, <2>3, <2>4, <2>5, WriteKeepsAdapters
  <2>7. moved' \subseteq Strategies
    BY <2>1 DEF BoundTo, CacheTypeOK
  <2>8. CacheTypeOK'
    BY <1>1, <2>6, <2>7 DEF CacheTypeOK, adapters
  <2>9. table'[c] = row /\ row # NoRow /\ (\A d \in Configs \ {c} : table'[d] = table[d])
    BY <1>1, <2>2, <2>3, <2>5, RowsAreNotNoRow
  <2>10. bound \in [Strategies -> Binding]
    BY DEF CacheTypeOK
  <2>11. BoundInTable'
    BY <1>1, <2>9, <2>10 DEF BoundInTable, InTable, Binding
  <2>12. \A s \in Strategies \ moved' : \A d \in {bound[s].long, bound[s].short} \ {NoConfig} :
            table'[d].account = table[d].account
    BY <2>1, <2>3, <2>9, <2>10 DEF BoundTo, Binding
  <2>13. moved \subseteq moved'
    BY <2>1
  <2>14. LegsApart'
    BY <1>1, <2>12, <2>13 DEF LegsApart, Lighter
  <2> QED
    BY <2>6, <2>8, <2>11, <2>14
<1> QED
  BY <1>2, <1>3

\* A removal: no binding names the configuration afterwards.
LEMMA RemoveWriteInv ==
    ASSUME Inv, NEW a \in Admins, RemoveWrite(a)
    PROVE  Inv'
<1> DEFINE c == admin[a].config
           free(b) == IF b = c THEN NoConfig ELSE b
<1> USE DEF Inv
<1>1. /\ c \in Configs /\ admin[a].at # "clear"
      /\ UNCHANGED <<adapters, call, edits>>
  BY AdminShape DEF RemoveWrite
<1>2. CASE ~InTable(c)
  BY <1>1, <1>2, RequestEnds DEF RemoveWrite, tables, histories
<1>3. CASE InTable(c)
  <2>1. /\ table' = [table EXCEPT ![c] = NoRow]
        /\ bound' = [s \in Strategies |-> [long |-> free(bound[s].long),
                                          short |-> free(bound[s].short)]]
        /\ moved' = moved \cup BoundTo(c)
        /\ AdminGoto(a, [at |-> "clear", config |-> c])
        /\ MarkRaced(c)
    BY <1>3 DEF RemoveWrite
  <2>2. /\ table \in [Configs -> Rows \cup {NoRow}]
        /\ bound \in [Strategies -> Binding] /\ moved \subseteq Strategies
    BY DEF CacheTypeOK
  <2>3. /\ table' \in [Configs -> Rows \cup {NoRow}]
        /\ admin' \in [Admins -> AdminStates] /\ raced' \subseteq Configs
        /\ InitIsBinance' /\ BindIsChecked' /\ OneSigner'
        /\ HeldIsCurrent' /\ CachedIsCurrent'
    BY <1>1, <2>1, WriteKeepsAdapters
  <2> HIDE DEF c
  <2>4. \A s \in Strategies : bound'[s] \in Binding
    BY <2>1, <2>2 DEF Binding
  <2>5. CacheTypeOK'
    <3>1. bound' \in [Strategies -> Binding]
      BY <2>1, <2>4
    <3> QED
      BY <1>1, <2>1, <2>2, <2>3, <3>1 DEF CacheTypeOK, adapters, BoundTo
  <2>6. \A s \in Strategies : \A d \in {bound'[s].long, bound'[s].short} \ {NoConfig} :
            /\ d \in {bound[s].long, bound[s].short} /\ d \in Configs \ {c}
            /\ table'[d] = table[d]
    BY <1>1, <2>1, <2>2 DEF Binding
  <2>7. BoundInTable'
    BY <2>6 DEF BoundInTable, InTable
  <2>8. \A s \in Strategies \ moved' :
            /\ s \notin moved /\ bound'[s].long = bound[s].long
            /\ bound'[s].short = bound[s].short
    BY <2>1 DEF BoundTo
  <2>9. LegsApart'
    BY <2>6, <2>8 DEF LegsApart, Lighter
  <2> QED
    BY <2>3, <2>5, <2>7, <2>9
<1> QED
  BY <1>2, <1>3

\* clearCache closes the one signer there is, and leaves the other adapters alone.
LEMMA ClearCacheInv ==
    ASSUME Inv, NEW a \in Admins, ClearCache(a)
    PROVE  Inv'
<1> DEFINE c == admin[a].config
<1> USE DEF Inv, tables, histories
<1>1. /\ admin[a].at = "clear" /\ c \in Configs
      /\ signers' = [signers EXCEPT ![c] =
                        IF Lighter(c) /\ cache[c] # NoRow THEN @ - 1 ELSE @]
      /\ cache' = [cache EXCEPT ![c] = NoRow]
      /\ admin' = [admin EXCEPT ![a] = IdleAdmin]
      /\ UNCHANGED <<tables, call, histories>>
  BY AdminShape DEF ClearCache, AdminGoto
<1>2. /\ signers \in [Configs -> Nat] /\ cache \in [Configs -> Rows \cup {NoRow}]
      /\ admin \in [Admins -> AdminStates] /\ IdleAdmin \in AdminStates
  BY DEF CacheTypeOK, AdminStates
<1> HIDE DEF c
<1>3. \A d \in Configs : signers[d] = IF Lighter(d) /\ cache[d] # NoRow THEN 1 ELSE 0
  BY DEF OneSigner
<1>4. signers'[c] = 0 /\ cache'[c] = NoRow
  <2>1. CASE Lighter(c) /\ cache[c] # NoRow
    <3>1. signers[c] = 1
      BY <1>1, <1>3, <2>1
    <3>2. signers'[c] = signers[c] - 1
      BY <1>1, <1>2, <2>1
    <3> QED
      BY <1>1, <1>2, <3>1, <3>2, SMT
  <2>2. CASE ~(Lighter(c) /\ cache[c] # NoRow)
    BY <1>1, <1>2, <1>3, <2>2
  <2> QED
    BY <2>1, <2>2
<1>5. \A d \in Configs \ {c} : signers'[d] = signers[d] /\ cache'[d] = cache[d]
  BY <1>1, <1>2
<1>6. OneSigner'
  BY <1>3, <1>4, <1>5 DEF OneSigner, Lighter
<1>7. CacheTypeOK'
  <2>1. signers' \in [Configs -> Nat]
    <3>1. \A d \in Configs : signers'[d] \in Nat
      BY <1>2, <1>4, <1>5, SMT
    <3> QED
      BY <1>1, <1>2, <3>1
  <2> QED
    BY <1>1, <1>2, <2>1 DEF CacheTypeOK
<1>8. BoundInTable' /\ InitIsBinance' /\ HeldIsCurrent' /\ LegsApart'
  BY <1>1 DEF BoundInTable, InitIsBinance, HeldIsCurrent, LegsApart, InTable, Lighter,
              Holds
<1>9. BindIsChecked'
  BY <1>1, <1>2 DEF BindIsChecked, ValidBinding, Lighter, IdleAdmin
<1>10. CachedIsCurrent'
  <2> SUFFICES ASSUME NEW d \in Configs, cache'[d] # NoRow, ~Clearing(d)', d \notin raced
               PROVE  cache'[d] = table[d]
    BY <1>1 DEF CachedIsCurrent
  <2>1. d # c
    BY <1>4
  <2>2. ~Clearing(d)
    <3> SUFFICES ASSUME NEW b \in Admins, admin[b] = [at |-> "clear", config |-> d]
                 PROVE  FALSE
      BY DEF Clearing
    <3>1. b # a
      BY <2>1 DEF c
    <3> QED
      BY <1>1, <1>2, <3>1 DEF Clearing
  <2> QED
    BY <1>5, <2>1, <2>2 DEF CachedIsCurrent
<1> QED
  BY <1>6, <1>7, <1>8, <1>9, <1>10

\* A binding is asked for, its LONG row read.
LEMMA BindStartInv ==
    ASSUME Inv, NEW a \in Admins, NEW s \in Strategies, NEW b \in Bindings,
           BindStart(a, s, b)
    PROVE  Inv'
<1> DEFINE seen == IF b.long = NoConfig THEN Unread
                   ELSE [Unread EXCEPT ![b.long] = table[b.long].account]
           state == [at |-> "check", strategy |-> s, to |-> b, seen |-> seen]
<1>1. b \in Binding
  BY RequestsAssumption
<1>2. AdminGoto(a, state) /\ admin[a].at # "clear"
  BY DEF BindStart, IdleAdmin
<1>3. UNCHANGED <<table, bound, adapters, call, histories>> /\ edits' \in 0..MaxEdits
  BY EditsAssumption, SMT DEF BindStart, Edit, Inv, CacheTypeOK
<1>4. Unread \in [Configs -> Accounts]
  BY DEF Unread, Accounts
<1>5. seen \in [Configs -> Accounts]
  <2>1. CASE b.long = NoConfig
    BY <1>4, <2>1
  <2>2. CASE b.long # NoConfig
    <3>1. b.long \in Configs /\ table[b.long] # NoRow
      BY <1>1, <2>2 DEF BindStart, InTable, Binding
    <3>2. table[b.long].account \in Accounts
      BY <3>1 DEF Inv, CacheTypeOK, Rows
    <3> QED
      BY <1>4, <2>2, <3>2
  <2> QED
    BY <2>1, <2>2
<1> HIDE DEF seen
<1>6. state \in AdminStates /\ state.at # "bind"
  BY <1>1, <1>5 DEF AdminStates
<1> HIDE DEF state
<1> QED
  BY <1>2, <1>3, <1>6, RequestStep

\* A binding goes on to its write only when validateApiConfigBinding accepts it.
LEMMA BindCheckInv ==
    ASSUME Inv, NEW a \in Admins, BindCheck(a)
    PROVE  Inv'
<1> DEFINE b == admin[a].to
           reads == b.short # NoConfig /\ InTable(b.short)
           seen == IF reads
                   THEN [admin[a].seen EXCEPT ![b.short] = table[b.short].account]
                   ELSE admin[a].seen
           state == [admin[a] EXCEPT !.at = "bind", !.seen = seen]
<1>1. admin[a].at = "check" /\ UNCHANGED <<tables, adapters, call, histories>>
  BY DEF BindCheck
<1>2. admin[a].at # "clear"
  BY <1>1
<1>3. CASE AdminGoto(a, IdleAdmin)
  BY <1>1, <1>2, <1>3, RequestEnds
<1>4. CASE ValidBinding(b, seen) /\ AdminGoto(a, state)
  <2>1. /\ admin[a].strategy \in Strategies /\ b \in Binding
        /\ admin[a].seen \in [Configs -> Accounts]
        /\ admin[a] \in AdminStates
    BY <1>1, AdminShape DEF Inv
  <2>2. admin[a] \in [at : {"check", "bind"}, strategy : Strategies, to : Binding,
                      seen : [Configs -> Accounts]]
    BY <1>1, <2>1 DEF AdminStates, IdleAdmin
  <2>3. seen \in [Configs -> Accounts]
    <3>1. CASE reads
      <4>1. b.short \in Configs /\ table[b.short] # NoRow
        BY <2>1, <3>1 DEF InTable, Binding
      <4>2. table[b.short].account \in Accounts
        BY <4>1 DEF Inv, CacheTypeOK, Rows
      <4> QED
        BY <2>1, <3>1, <4>2
    <3>2. CASE ~reads
      BY <2>1, <3>2
    <3> QED
      BY <3>1, <3>2
  <2> HIDE DEF seen
  <2>4. /\ state \in AdminStates /\ state.at = "bind"
        /\ state.to = b /\ state.seen = seen
    BY <2>2, <2>3 DEF AdminStates
  <2>5. UNCHANGED <<table, bound, adapters, call, histories>> /\ edits' \in 0..MaxEdits
    BY <1>1 DEF tables, Inv, CacheTypeOK
  <2> HIDE DEF state
  <2> QED
    BY <1>2, <1>4, <2>4, <2>5, RequestStep
<1> QED
  BY <1>3, <1>4 DEF BindCheck

\* The binding is written: the accounts it was checked with are those of the table,
\* or the strategy counts as moved.
LEMMA BindWriteInv ==
    ASSUME Inv, NEW a \in Admins, BindWrite(a)
    PROVE  Inv'
<1> DEFINE b == admin[a].to
           s == admin[a].strategy
           same == \A c \in {b.long, b.short} \ {NoConfig} :
                      table[c].account = admin[a].seen[c]
<1>1. /\ admin[a].at = "bind" /\ admin[a].at # "clear" /\ AdminGoto(a, IdleAdmin)
      /\ UNCHANGED <<table, edits, adapters, call, raced>>
  BY DEF BindWrite
<1>2. CASE ~Exists(b)
  BY <1>1, <1>2, RequestEnds DEF BindWrite, tables, histories
<1>3. CASE Exists(b)
  <2> USE DEF Inv
  <2>1. /\ bound' = [bound EXCEPT ![s] = b]
        /\ moved' = IF same THEN moved \ {s} ELSE moved \cup {s}
    BY <1>3 DEF BindWrite
  <2>2. s \in Strategies /\ b \in Binding /\ bound \in [Strategies -> Binding]
    BY <1>1, AdminShape DEF CacheTypeOK
  <2>3. ValidBinding(b, admin[a].seen)
    BY <1>1 DEF BindIsChecked
  <2>4. /\ admin' = [admin EXCEPT ![a] = IdleAdmin] /\ admin \in [Admins -> AdminStates]
        /\ IdleAdmin \in AdminStates
    BY <1>1 DEF AdminGoto, CacheTypeOK, AdminStates
  <2>5. \A c \in {b.long, b.short} \ {NoConfig} : InTable(c)
    BY <1>3 DEF Exists
  <2>6. same => \/ b.long = NoConfig \/ ~Lighter(b.long)
                \/ /\ b.short # NoConfig
                   /\ \/ table[b.short].account # table[b.long].account
                      \/ table[b.long].account = NoAccount
    BY <2>3 DEF ValidBinding
  <2> HIDE DEF b, s, same
  <2>7. CacheTypeOK'
    BY <1>1, <2>1, <2>2, <2>4 DEF CacheTypeOK, adapters
  <2>8. bound'[s] = b /\ \A t \in Strategies \ {s} : bound'[t] = bound[t]
    BY <2>1, <2>2
  <2>9. BoundInTable'
    BY <1>1, <2>5, <2>8 DEF BoundInTable, InTable
  <2>10. LegsApart'
    BY <1>1, <2>1, <2>6, <2>8 DEF LegsApart, Lighter
  <2>11. BindIsChecked'
    BY <2>4 DEF BindIsChecked, ValidBinding, Lighter, IdleAdmin
  <2>12. InitIsBinance' /\ OneSigner' /\ HeldIsCurrent'
    BY <1>1 DEF InitIsBinance, OneSigner, HeldIsCurrent, Lighter, Holds, adapters
  <2>13. \A c \in Configs : Clearing(c) => Clearing(c)'
    <3> SUFFICES ASSUME NEW c \in Configs, NEW d \in Admins,
                        admin[d] = [at |-> "clear", config |-> c]
                 PROVE  admin'[d] = [at |-> "clear", config |-> c]
      BY DEF Clearing
    <3>1. d # a
      BY <1>1
    <3> QED
      BY <2>4, <3>1
  <2>14. CachedIsCurrent'
    BY <1>1, <2>13 DEF CachedIsCurrent, adapters
  <2> QED
    BY <2>7, <2>9, <2>10, <2>11, <2>12, <2>14
<1> QED
  BY <1>2, <1>3

----------------------------------------------------------------------------
\* The whole invariant: every step of a caller or of a request keeps it.
THEOREM InvHolds == CacheSpec => []Inv
<1>1. Inv /\ [CacheNext]_cacheVars => Inv'
  <2> SUFFICES ASSUME Inv, [CacheNext]_cacheVars PROVE Inv'
    OBVIOUS
  <2>1. CASE UNCHANGED cacheVars
    BY <2>1 DEF cacheVars, Inv, CacheTypeOK, BoundInTable, InitIsBinance, BindIsChecked,
                OneSigner, HeldIsCurrent, CachedIsCurrent, LegsApart, InTable, Lighter,
                Holds, Clearing, ValidBinding
  <2>2. ASSUME NEW k \in Callers,
               \/ \E s \in Strategies, side \in Sides : ResolveSide(k, s, side)
               \/ \E c \in Configs : ResolveConfig(k, c)
               \/ DefaultConfig(k) \/ Create(k) \/ CreateAfterInit(k)
        PROVE  Inv'
    BY <2>2, ResolveSideInv, ResolveConfigInv, DefaultConfigInv, CreateInv,
       CreateAfterInitInv
  <2>3. ASSUME NEW a \in Admins,
               \/ \E c \in Configs : CreateConfig(a, c)
               \/ \E c \in Configs, what \in {"update", "remove"} : EditStart(a, c, what)
               \/ \E s \in Strategies, b \in Bindings : BindStart(a, s, b)
               \/ UpdateWrite(a) \/ RemoveWrite(a) \/ ClearCache(a)
               \/ BindCheck(a) \/ BindWrite(a)
        PROVE  Inv'
    BY <2>3, CreateConfigInv, EditStartInv, BindStartInv, UpdateWriteInv, RemoveWriteInv,
       ClearCacheInv, BindCheckInv, BindWriteInv
  <2> QED
    BY <2>1, <2>2, <2>3 DEF CacheNext
<1> QED
  BY InitInv, <1>1, PTL DEF CacheSpec

\* createAdapter and clearCache keep one adapter per configuration and one signer
\* per Lighter adapter, and an adapter in the cache is made of the present row
\* unless its drop is pending or a caller carried an older row across the edit;
\* for any number of configurations, callers and edits.
THEOREM AdaptersStayCurrent == CacheSpec => []AdaptersAreCurrent
<1>1. Inv => AdaptersAreCurrent
  BY DEF Inv, AdaptersAreCurrent
<1> QED
  BY InvHolds, <1>1, PTL

\* validateApiConfigBinding is enough: the two legs of a strategy never share a
\* Lighter sub-account, unless an account is edited after the binding was checked;
\* for any number of strategies, configurations and requests.
THEOREM LegsStayApart == CacheSpec => []LegsApart
<1>1. Inv => LegsApart
  BY DEF Inv
<1> QED
  BY InvHolds, <1>1, PTL

============================================================================
