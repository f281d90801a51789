--------------------------- MODULE ExchangeService ---------------------------
(***************************************************************************)
(* ExchangeService hands out adapters: it looks up the API configuration   *)
(* of one side of a strategy and keeps one adapter per configuration in    *)
(* memory.  ApiConfigService edits the configurations and then drops the   *)
(* adapter; StrategyService binds configurations to strategies.            *)
(*                                                                         *)
(* A caller holds the row it read across the awaits before the adapter is  *)
(* cached, so an edit and the drop that follows it may both come too       *)
(* early.  A Lighter adapter owns a signer, which destroy closes; a        *)
(* Binance adapter owns nothing but must synchronise its clock first.      *)
(***************************************************************************)
EXTENDS Integers, FiniteSets

CONSTANTS
    Configs,      \* the configurations there may ever be
    ExchangeOf,   \* configuration -> "BINANCE" or "LIGHTER"
    EnvOf,        \* configuration -> "LIVE" or "TESTNET"
    DefaultEnv,   \* defaultEnvironment
    SubAccounts,  \* Lighter account indices
    NoAccount,    \* accountIndex is null
    Strategies, Callers, Admins,
    Table0,       \* the account of each configuration there is at first
    Bound0,       \* the binding of each strategy at first
    NoConfig,
    Updates,      \* bound: the accounts and states that updates set
    Bindings,     \* bound: the bindings that are asked for
    MaxEdits      \* bound: edits of configurations and bindings

ASSUME ConfigAssumption ==
    /\ ExchangeOf \in [Configs -> {"BINANCE", "LIGHTER"}]
    /\ EnvOf \in [Configs -> {"LIVE", "TESTNET"}]
    /\ NoConfig \notin Configs
ASSUME EditsAssumption == MaxEdits \in Nat

\* What an adapter is made of: the credentials, numbered, and the sub-account.
Accounts == SubAccounts \cup {NoAccount}
Rows == [secret : Nat, account : Accounts, active : BOOLEAN]
NoRow == [secret |-> -1]
Binding == [long : Configs \cup {NoConfig}, short : Configs \cup {NoConfig}]
Sides == {"LONG", "SHORT"}
ASSUME RequestsAssumption ==
    /\ Updates \subseteq [account : Accounts, active : BOOLEAN]
    /\ Bindings \subseteq Binding

\* Bound configurations exist, and a strategy on Lighter has two, with different
\* sub-accounts, as validateApiConfigBinding wants it.
ASSUME BindingAssumption ==
    /\ DOMAIN Table0 \subseteq Configs
    /\ \A c \in DOMAIN Table0 : Table0[c] \in SubAccounts
    /\ Bound0 \in [Strategies -> Binding]
    /\ \A s \in Strategies : LET b == Bound0[s] IN
         /\ {b.long, b.short} \ {NoConfig} \subseteq DOMAIN Table0
         /\ b.long # NoConfig /\ ExchangeOf[b.long] = "LIGHTER" =>
               b.short # NoConfig /\ Table0[b.long] # Table0[b.short]

VARIABLES
    table,    \* api_configs: configuration -> its row, or NoRow
    bound,    \* strategies: apiConfigId and shortApiConfigId
    cache,    \* adapterCache: configuration -> the row of its adapter, or NoRow
    signers,  \* signer clients not closed yet, per configuration
    call,     \* the callers in flight
    admin,    \* the requests in flight
    edits,    \* edits so far
    raced,    \* history: configurations edited while a caller held the old row
    moved     \* history: strategies whose accounts were edited once bound

cacheVars == <<table, bound, cache, signers, call, admin, edits, raced, moved>>

IdleCall == [at |-> "idle"]
IdleAdmin == [at |-> "idle"]

CallStates ==
    {IdleCall}
        \cup [at : {"default", "testnet"}, side : Sides]
        \cup [at : {"create", "init"}, config : Configs, row : Rows]

AdminStates ==
    {IdleAdmin}
        \cup [at : {"update", "remove", "clear"}, config : Configs]
        \cup [at : {"check", "bind"}, strategy : Strategies, to : Binding,
              seen : [Configs -> Accounts]]

CacheTypeOK ==
    /\ table \in [Configs -> Rows \cup {NoRow}]
    /\ bound \in [Strategies -> Binding]
    /\ cache \in [Configs -> Rows \cup {NoRow}]
    /\ signers \in [Configs -> Nat]
    /\ call \in [Callers -> CallStates]
    /\ admin \in [Admins -> AdminStates]
    /\ edits \in 0..MaxEdits
    /\ raced \subseteq Configs
    /\ moved \subseteq Strategies

InTable(c) == table[c] # NoRow
Lighter(c) == ExchangeOf[c] = "LIGHTER"
BoundTo(c) == {s \in Strategies : c \in {bound[s].long, bound[s].short}}

Unread == [c \in Configs |-> NoAccount]

CacheInit ==
    /\ bound = Bound0
    /\ table = [c \in Configs |->
         IF c \in DOMAIN Table0
         THEN [secret |-> 0, account |-> Table0[c], active |-> TRUE] ELSE NoRow]
    /\ cache = [c \in Configs |-> NoRow]
    /\ signers = [c \in Configs |-> 0]
    /\ call = [k \in Callers |-> IdleCall]
    /\ admin = [a \in Admins |-> IdleAdmin]
    /\ edits = 0 /\ raced = {} /\ moved = {}

----------------------------------------------------------------------------
(* Callers.                                                                *)

tables == <<table, bound, edits>>
adapters == <<cache, signers>>
histories == <<raced, moved>>

Goto(k, state) == call' = [call EXCEPT ![k] = state]
Return(k) == Goto(k, IdleCall)
Read(k, c) == Goto(k, [at |-> "create", config |-> c, row |-> table[c]])

\* The configuration of one side; the SHORT side without one of its own uses
\* that of the LONG side.
SideConfig(s, side) ==
    IF side = "SHORT" /\ bound[s].short # NoConfig
    THEN bound[s].short ELSE bound[s].long

\* A Lighter account holds one net position: a SHORT leg needs its own.
Refused(side, c, ownShort) == side = "SHORT" /\ Lighter(c) /\ ~ownShort

\* getAdapterForStrategy: one query reads the strategy with both rows.
ResolveSide(k, s, side) ==
    /\ call[k] = IdleCall
    /\ LET c == SideConfig(s, side) IN
       IF c = NoConfig THEN Goto(k, [at |-> "default", side |-> side])
       ELSE /\ ~Refused(side, c, bound[s].short # NoConfig)
            /\ Read(k, c)
    /\ UNCHANGED <<tables, adapters, admin, histories>>

Active(env) == {c \in Configs : InTable(c) /\ table[c].active /\ EnvOf[c] = env}

\* Nothing is bound: any active configuration of the default environment, else
\* of the testnet, else an error.
DefaultConfig(k) ==
    /\ call[k].at \in {"default", "testnet"}
    /\ LET found == Active(IF call[k].at = "default" THEN DefaultEnv
                           ELSE "TESTNET")
       IN \/ \E c \in found :
                IF Refused(call[k].side, c, FALSE) THEN Return(k) ELSE Read(k, c)
          \/ /\ found = {}
             /\ IF call[k].at = "default"
                THEN Goto(k, [call[k] EXCEPT !.at = "testnet"]) ELSE Return(k)
    /\ UNCHANGED <<tables, adapters, admin, histories>>

\* getAdapterByApiConfigId; getExchangeForEnvironment finds an active one.
ResolveConfig(k, c) ==
    /\ call[k] = IdleCall /\ InTable(c)
    /\ Read(k, c)
    /\ UNCHANGED <<tables, adapters, admin, histories>>

\* Mutant: the cache is looked at before the row is read, not after.
Create_NoLookup(k) ==
    /\ call[k].at = "create"
    /\ LET c == call[k].config IN
       IF Lighter(c)
       THEN /\ cache' = [cache EXCEPT ![c] = call[k].row]
            /\ signers' = [signers EXCEPT ![c] = @ + 1]
            /\ Return(k)
       ELSE UNCHANGED adapters /\ Goto(k, [call[k] EXCEPT !.at = "init"])
    /\ UNCHANGED <<tables, admin, histories>>

\* createAdapter, up to its await: a cached adapter is returned whatever it was
\* made of, a Lighter adapter is made at once, if it has an account.
Create(k) ==
    /\ call[k].at = "create"
    /\ LET c == call[k].config IN
       CASE cache[c] # NoRow -> UNCHANGED adapters /\ Return(k)
         [] cache[c] = NoRow /\ Lighter(c) /\ call[k].row.account = NoAccount ->
              UNCHANGED adapters /\ Return(k)
         [] cache[c] = NoRow /\ Lighter(c) /\ call[k].row.account # NoAccount ->
              /\ cache' = [cache EXCEPT ![c] = call[k].row]
              /\ signers' = [signers EXCEPT ![c] = @ + 1]
              /\ Return(k)
         [] OTHER -> UNCHANGED adapters /\ Goto(k, [call[k] EXCEPT !.at = "init"])
    /\ UNCHANGED <<tables, admin, histories>>

\* The clock of a Binance adapter is set (or not: a failure is logged), and the
\* adapter is cached over whatever is there by now.
CreateAfterInit(k) ==
    /\ call[k].at = "init"
    /\ cache' = [cache EXCEPT ![call[k].config] = call[k].row]
    /\ Return(k)
    /\ UNCHANGED <<tables, signers, admin, histories>>

----------------------------------------------------------------------------
(* Requests.                                                               *)

AdminGoto(a, state) == admin' = [admin EXCEPT ![a] = state]

Edit == edits < MaxEdits /\ edits' = edits + 1

\* Some caller holds the row of c.
Held(c) == \E k \in Callers : call[k].at \in {"create", "init"}
                              /\ call[k].config = c

MarkRaced(c) == raced' = IF Held(c) THEN raced \cup {c} ELSE raced \ {c}

\* create: the row, then a drop of what cannot be there.
CreateConfig(a, c) ==
    /\ admin[a] = IdleAdmin /\ ~InTable(c) /\ Edit
    /\ \E acc \in SubAccounts :
          table' = [table EXCEPT ![c] =
                      [secret |-> 0, account |-> acc, active |-> TRUE]]
    /\ AdminGoto(a, [at |-> "clear", config |-> c])
    /\ MarkRaced(c)
    /\ UNCHANGED <<bound, adapters, call, moved>>

\* update and remove find the row first.
EditStart(a, c, what) ==
    /\ admin[a] = IdleAdmin /\ InTable(c) /\ Edit
    /\ AdminGoto(a, [at |-> what, config |-> c])
    /\ UNCHANGED <<table, bound, adapters, call, histories>>

\* New credentials, another sub-account (nobody looks whose it is), or an end of
\* its use by default.  A row that is gone throws.
UpdateWrite(a) ==
    /\ admin[a].at = "update"
    /\ LET c == admin[a].config IN
       IF ~InTable(c)
       THEN AdminGoto(a, IdleAdmin) /\ UNCHANGED <<table, histories>>
       ELSE /\ \E u \in Updates :
                  /\ table' = [table EXCEPT ![c] =
                       [secret |-> @.secret + 1, account |-> u.account,
                        active |-> u.active]]
                  /\ moved' = IF u.account = table[c].account THEN moved
                              ELSE moved \cup BoundTo(c)
            /\ AdminGoto(a, [at |-> "clear", config |-> c])
            /\ MarkRaced(c)
    /\ UNCHANGED <<bound, adapters, call, edits>>

\* The row goes, and with it every binding to it (onDelete: SetNull).
RemoveWrite(a) ==
    /\ admin[a].at = "remove"
    /\ LET c == admin[a].config
           free(b) == IF b = c THEN NoConfig ELSE b
       IN IF ~InTable(c)
          THEN AdminGoto(a, IdleAdmin) /\ UNCHANGED <<table, bound, histories>>
          ELSE /\ table' = [table EXCEPT ![c] = NoRow]
               /\ bound' = [s \in Strategies |->
                              [long |-> free(bound[s].long),
                               short |-> free(bound[s].short)]]
               /\ moved' = moved \cup BoundTo(c)
               /\ AdminGoto(a, [at |-> "clear", config |-> c])
               /\ MarkRaced(c)
    /\ UNCHANGED <<adapters, call, edits>>

\* Mutant: the signer of a dropped adapter is not closed.
ClearCache_NoDestroy(a) ==
    /\ admin[a].at = "clear"
    /\ cache' = [cache EXCEPT ![admin[a].config] = NoRow]
    /\ AdminGoto(a, IdleAdmin)
    /\ UNCHANGED <<tables, signers, call, histories>>

\* Mutant: the adapter stays.
ClearCache_Keeps(a) ==
    /\ admin[a].at = "clear"
    /\ AdminGoto(a, IdleAdmin)
    /\ UNCHANGED <<tables, adapters, call, histories>>

\* Mutant: a signer is closed whether or not there is one.
ClearCache_Unasked(a) ==
    /\ admin[a].at = "clear"
    /\ LET c == admin[a].config IN
       /\ signers' = [signers EXCEPT ![c] = IF Lighter(c) THEN @ - 1 ELSE @]
       /\ cache' = [cache EXCEPT ![c] = NoRow]
    /\ AdminGoto(a, IdleAdmin)
    /\ UNCHANGED <<tables, call, histories>>

\* clearCache, once the write is answered.
ClearCache(a) ==
    /\ admin[a].at = "clear"
    /\ LET c == admin[a].config IN
       /\ signers' = [signers EXCEPT ![c] =
                        IF Lighter(c) /\ cache[c] # NoRow THEN @ - 1 ELSE @]
       /\ cache' = [cache EXCEPT ![c] = NoRow]
    /\ AdminGoto(a, IdleAdmin)
    /\ UNCHANGED <<tables, call, histories>>

\* Mutant: the sub-accounts are not compared.
ValidBinding_AnyAccount(b, account) ==
    IF b.long = NoConfig THEN b.short = NoConfig
    ELSE IF Lighter(b.long)
         THEN b.short \notin {NoConfig, b.long} /\ Lighter(b.short)
         ELSE b.short = NoConfig

\* validateApiConfigBinding: Lighter needs a second configuration, of another
\* sub-account in the same environment; Binance must not have one.
ValidBinding(b, account) ==
    IF b.long = NoConfig THEN b.short = NoConfig
    ELSE IF Lighter(b.long)
         THEN /\ b.short \notin {NoConfig, b.long}
              /\ Lighter(b.short)
              /\ EnvOf[b.short] = EnvOf[b.long]
              /\ account[b.short] # account[b.long] \/ account[b.long] = NoAccount
         ELSE b.short = NoConfig

Exists(b) == \A c \in {b.long, b.short} \ {NoConfig} : InTable(c)

\* A strategy is created or updated: the LONG row is read first,
BindStart(a, s, b) ==
    /\ admin[a] = IdleAdmin /\ Edit
    /\ b.long # NoConfig => InTable(b.long)
    /\ AdminGoto(a, [at |-> "check", strategy |-> s, to |-> b,
                     seen |-> IF b.long = NoConfig THEN Unread
                              ELSE [Unread EXCEPT ![b.long] = table[b.long].account]])
    /\ UNCHANGED <<table, bound, adapters, call, histories>>

\* then the SHORT row,
BindCheck(a) ==
    /\ admin[a].at = "check"
    /\ LET b == admin[a].to
           reads == b.short # NoConfig /\ InTable(b.short)
           seen == IF reads
                   THEN [admin[a].seen EXCEPT ![b.short] = table[b.short].account]
                   ELSE admin[a].seen
       IN IF (b.short = NoConfig \/ reads) /\ ValidBinding(b, seen)
          THEN AdminGoto(a, [admin[a] EXCEPT !.at = "bind", !.seen = seen])
          ELSE AdminGoto(a, IdleAdmin)
    /\ UNCHANGED <<tables, adapters, call, histories>>

\* and the binding is written, if both rows are still there (foreign keys).
BindWrite(a) ==
    /\ admin[a].at = "bind"
    /\ LET b == admin[a].to
           s == admin[a].strategy
           same == \A c \in {b.long, b.short} \ {NoConfig} :
                      table[c].account = admin[a].seen[c]
       IN IF Exists(b)
          THEN /\ bound' = [bound EXCEPT ![s] = b]
               /\ moved' = IF same THEN moved \ {s} ELSE moved \cup {s}
          ELSE UNCHANGED <<bound, moved>>
    /\ AdminGoto(a, IdleAdmin)
    /\ UNCHANGED <<table, edits, adapters, call, raced>>

----------------------------------------------------------------------------
CacheNext ==
    \/ \E k \in Callers :
          \/ \E s \in Strategies, side \in Sides : ResolveSide(k, s, side)
          \/ \E c \in Configs : ResolveConfig(k, c)
          \/ DefaultConfig(k) \/ Create(k) \/ CreateAfterInit(k)
    \/ \E a \in Admins :
          \/ \E c \in Configs : CreateConfig(a, c)
          \/ \E c \in Configs, what \in {"update", "remove"} : EditStart(a, c, what)
          \/ \E s \in Strategies, b \in Bindings : BindStart(a, s, b)
          \/ UpdateWrite(a) \/ RemoveWrite(a) \/ ClearCache(a)
          \/ BindCheck(a) \/ BindWrite(a)

CacheSpec == CacheInit /\ [][CacheNext]_cacheVars

\* An edited configuration is about to be dropped from the cache.
Clearing(c) == \E a \in Admins : admin[a] = [at |-> "clear", config |-> c]

\* A cached adapter was made of the row as it is now, in the table; after an
\* edit it is an old one only until clearCache comes, or if a caller had read
\* the old row before the edit and caches its adapter after the drop.
CachedIsCurrent ==
    \A c \in Configs :
        cache[c] # NoRow /\ ~Clearing(c) /\ c \notin raced => cache[c] = table[c]

\* A Lighter key signs with one client at a time: that of the cached adapter.
\* However callers and edits interleave, none is left open and none made twice.
OneSigner ==
    \A c \in Configs :
        signers[c] = IF Lighter(c) /\ cache[c] # NoRow THEN 1 ELSE 0

\* The two legs of a strategy never share a Lighter sub-account, where they would
\* cancel each other out, unless an account was edited behind its back.
LegsApart ==
    \A s \in Strategies :
        LET b == bound[s] IN
        s \notin moved /\ b.long # NoConfig /\ Lighter(b.long) =>
            /\ b.short # NoConfig
            /\ \/ table[b.short].account # table[b.long].account
               \/ table[b.long].account = NoAccount

\* However callers of createAdapter and edits of configurations interleave, the
\* cache has the adapters of the present rows, and a signer for each, no more.
AdaptersAreCurrent == CachedIsCurrent /\ OneSigner

============================================================================
