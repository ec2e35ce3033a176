-------------------------- MODULE ShardingManager --------------------------
(***************************************************************************)
(* src/sharding/manager.go and wrapper.go: the process-wide manager of the *)
(* sharded databases.                                                      *)
(*                                                                         *)
(* Admins are goroutines that call Init and Close, Clients goroutines that *)
(* ask for a database.  Init holds databasesLock for writing while it      *)
(* opens connections one after the other, but it replaces sm.config before *)
(* it takes the lock; the lookups read sm.initialized and sm.config        *)
(* without the lock.  Reads and writes of one field are atomic (they are   *)
(* words), and reads are not reordered.                                    *)
(*                                                                         *)
(* A configuration is reduced to what routing depends on: the number of    *)
(* databases and, for the one table of the model, whether TableConfigs     *)
(* lists it and its TableCount.  The table's algorithm is the Long one.    *)
(***************************************************************************)
EXTENDS ShardRouting, Sequences, FiniteSets

CONSTANTS Admins,      \* goroutines that call Init and Close
          Clients,     \* goroutines that look databases up
          Configs,     \* the configurations Init is called with
          Keys,        \* sharding values, as int64
          BadKeys,     \* sharding values the algorithm has no conversion for
          None,        \* nil
          MaxInits,    \* bound: calls of Init
          MaxCloses,   \* bound: calls of Close
          MaxLookups   \* bound: lookups per client

Handles == [cfg : Configs, index : Nat, round : Nat]

ASSUME ConstantsAssumption ==
    /\ Admins \cap Clients = {}
    /\ Configs \subseteq [dbs : Nat \ {0}, listed : BOOLEAN, tables : Nat]
    /\ Keys \subseteq Int
    /\ BadKeys \subseteq Keys
    /\ None \notin Configs \cup Handles \cup Admins
    /\ MaxInits \in Nat
    /\ MaxCloses \in Nat
    /\ MaxLookups \in Nat

VARIABLES
    config,       \* sm.config
    databases,    \* sm.databases, a sequence of handles and nils
    initialized,  \* sm.initialized
    writer,       \* the admin that holds databasesLock for writing
    fresh,        \* the connection the holder opened and has not stored
    slot,         \* how many connections the holder has stored
    open,         \* connections that are open at the database server
    round,        \* how many Inits got past the check of sm.initialized
    inits,        \* calls of Init
    closes,       \* calls of Close
    pc,           \* where each goroutine is
    arg,          \* the argument of each admin's Init
    call,         \* each client's operation and its argument
    plan,         \* table index that CalculateShardForTable returned
    idx,          \* database index the client computed
    res,          \* what the client's lookup returned
    lookups,      \* lookups begun by each client
    overlap,      \* ghost: what ran since the client's lookup began
    initFailed    \* ghost: some Init gave up after it opened a connection

managerVars == <<config, databases, initialized, writer, fresh, slot, open>>
boundVars == <<round, inits, closes>>
clientVars == <<call, plan, idx, res, lookups>>
ghostVars == <<overlap, initFailed>>
vars == <<managerVars, boundVars, pc, arg, clientVars, ghostVars>>

(* Operations of the clients, which of them look up the table's            *)
(* configuration, which set the sharded table's name on the session, and   *)
(* which fall back to the default database after an error.                 *)
KeyOps == {"GetDB", "GetDBForTable", "GetShardedDB", "MustGetShardedDB",
           "GetDBWithShardingKey", "GetDBWithShardingKeyForTable"}
Sharded == {"GetShardedDB", "MustGetShardedDB"}
ByTable == Sharded \cup {"GetDBForTable", "GetDBWithShardingKeyForTable"}
FallsBack == {"MustGetShardedDB", "GetDBWithShardingKey", "GetDBWithShardingKeyForTable"}

Unsharded == -1          \* the table's own name, without a suffix
NoCall == [op |-> "none", key |-> 0, fallback |-> FALSE]
NoResult == [kind |-> "none", db |-> None, table |-> Unsharded]

Init ==
    /\ config = None
    /\ databases = <<>>
    /\ initialized = FALSE
    /\ writer = None
    /\ fresh = None
    /\ slot = 0
    /\ open = {}
    /\ round = 0
    /\ inits = 0
    /\ closes = 0
    /\ pc = [p \in Admins \cup Clients |-> "idle"]
    /\ arg = [a \in Admins |-> None]
    /\ call = [p \in Clients |-> NoCall]
    /\ plan = [p \in Clients |-> Unsharded]
    /\ idx = [p \in Clients |-> 0]
    /\ res = [p \in Clients |-> NoResult]
    /\ lookups = [p \in Clients |-> 0]
    /\ overlap = [p \in Clients |-> {}]
    /\ initFailed = FALSE

Goto(p, label) == pc' = [pc EXCEPT ![p] = label]

(* Every lookup under way sees the event e happen during its call. *)
Note(e) == overlap' = [p \in Clients |-> IF pc[p] = "idle" THEN {} ELSE overlap[p] \cup {e}]

Entries == {databases[i] : i \in DOMAIN databases} \ {None}

(* A goroutine dereferenced a nil *gorm.DB; nobody recovers. *)
Crashed == \E p \in Clients : pc[p] = "panicked"

-----------------------------------------------------------------------------
(* Init(config) *)

(* sm.config = config, before the lock *)
InitCall(a, c) ==
    /\ pc[a] = "idle"
    /\ inits < MaxInits
    /\ inits' = inits + 1
    /\ config' = c
    /\ arg' = [arg EXCEPT ![a] = c]
    /\ Goto(a, "lock")
    /\ Note("init")
    /\ UNCHANGED <<databases, initialized, writer, fresh, slot, open, round, closes,
                   clientVars, initFailed>>

(* Mutants of InitEnter: the write lock is not waited for;                 *)
(* sm.initialized is not checked under it.                                 *)
InitEnterUnlocked(a) ==
    /\ pc[a] = "lock"
    /\ ~initialized
    /\ writer' = a
    /\ round' = round + 1
    /\ databases' = [i \in 1 .. arg[a].dbs |-> None]
    /\ slot' = 0
    /\ Goto(a, "open")
    /\ UNCHANGED <<config, initialized, fresh, open, inits, closes, arg, clientVars,
                   ghostVars>>

InitEnterUnchecked(a) ==
    /\ pc[a] = "lock"
    /\ writer = None
    /\ writer' = a
    /\ round' = round + 1
    /\ databases' = [i \in 1 .. arg[a].dbs |-> None]
    /\ slot' = 0
    /\ Goto(a, "open")
    /\ UNCHANGED <<config, initialized, fresh, open, inits, closes, arg, clientVars, ghostVars>>

(* databasesLock.Lock(), the check, and make([]*gorm.DB, DatabaseCount) *)
InitEnter(a) ==
    /\ pc[a] = "lock"
    /\ writer = None
    /\ ~initialized
    /\ writer' = a
    /\ round' = round + 1
    /\ databases' = [i \in 1 .. arg[a].dbs |-> None]
    /\ slot' = 0
    /\ Goto(a, "open")
    /\ UNCHANGED <<config, initialized, fresh, open, inits, closes, arg, clientVars, ghostVars>>

(* "sharding manager already initialized": the new config stays *)
InitRejected(a) ==
    /\ pc[a] = "lock"
    /\ writer = None
    /\ initialized
    /\ arg' = [arg EXCEPT ![a] = None]
    /\ Goto(a, "idle")
    /\ UNCHANGED <<managerVars, boundVars, clientVars, ghostVars>>

(* gorm.Open for database number slot, by the template in sm.config *)
OpenDatabase(a) ==
    /\ pc[a] = "open"
    /\ fresh' = [cfg |-> config, index |-> slot, round |-> round]
    /\ open' = open \cup {fresh'}
    /\ Goto(a, "validate")
    /\ UNCHANGED <<config, databases, initialized, writer, slot, boundVars, arg,
                   clientVars, ghostVars>>

(* gorm.Open returns an error: Init gives up and the deferred Unlock runs. *)
OpenFails(a) ==
    /\ pc[a] = "open"
    /\ writer' = None
    /\ slot' = 0
    /\ arg' = [arg EXCEPT ![a] = None]
    /\ initFailed' = (initFailed \/ slot > 0)
    /\ Goto(a, "idle")
    /\ UNCHANGED <<config, databases, initialized, fresh, open, boundVars,
                   clientVars, overlap>>

(* What initDatabase demands of sm.config.TableConfigs. *)
Valid(c) == c.listed => c.tables > 0

(* Mutant of AddDatabase: sm.initialized is set with the first database. *)
AddDatabaseEarly(a) ==
    /\ pc[a] = "validate"
    /\ Valid(config)
    /\ databases' = [databases EXCEPT ![slot + 1] = fresh]
    /\ fresh' = None
    /\ initialized' = TRUE
    /\ IF slot + 1 = arg[a].dbs
         THEN /\ writer' = None
              /\ slot' = 0
              /\ arg' = [arg EXCEPT ![a] = None]
              /\ Goto(a, "idle")
         ELSE /\ slot' = slot + 1
              /\ Goto(a, "open")
              /\ UNCHANGED <<writer, arg>>
    /\ UNCHANGED <<config, open, boundVars, clientVars, ghostVars>>

(* The validation passes and the connection is stored; the last one makes  *)
(* the manager initialized.                                                *)
AddDatabase(a) ==
    /\ pc[a] = "validate"
    /\ Valid(config)
    /\ databases' = [databases EXCEPT ![slot + 1] = fresh]
    /\ fresh' = None
    /\ IF slot + 1 = arg[a].dbs
         THEN /\ initialized' = TRUE
              /\ writer' = None
              /\ slot' = 0
              /\ arg' = [arg EXCEPT ![a] = None]
              /\ Goto(a, "idle")
         ELSE /\ slot' = slot + 1
              /\ Goto(a, "open")
              /\ UNCHANGED <<initialized, writer, arg>>
    /\ UNCHANGED <<config, open, boundVars, clientVars, ghostVars>>

(* The validation fails: Init gives up, the connection is forgotten. *)
TablesRefused(a) ==
    /\ pc[a] = "validate"
    /\ ~Valid(config)
    /\ fresh' = None
    /\ writer' = None
    /\ slot' = 0
    /\ arg' = [arg EXCEPT ![a] = None]
    /\ initFailed' = TRUE
    /\ Goto(a, "idle")
    /\ UNCHANGED <<config, databases, initialized, open, boundVars, clientVars, overlap>>

-----------------------------------------------------------------------------
(* Close() *)

(* Mutant of Close: the last entry is missed. *)
CloseMissesLast(a) ==
    /\ pc[a] = "idle"
    /\ closes < MaxCloses
    /\ writer = None
    /\ closes' = closes + 1
    /\ open' = open \ {databases[i] : i \in 1 .. Len(databases) - 1}
    /\ databases' = [i \in DOMAIN databases |-> None]
    /\ initialized' = FALSE
    /\ Note("close")
    /\ UNCHANGED <<config, writer, fresh, slot, round, inits, pc, arg, clientVars, initFailed>>

(* Under the lock: closes and clears every entry, keeps the slice's length *)
(* and sm.config.                                                          *)
Close(a) ==
    /\ pc[a] = "idle"
    /\ closes < MaxCloses
    /\ writer = None
    /\ closes' = closes + 1
    /\ open' = open \ Entries
    /\ databases' = [i \in DOMAIN databases |-> None]
    /\ initialized' = FALSE
    /\ Note("close")
    /\ UNCHANGED <<config, writer, fresh, slot, round, inits, pc, arg, clientVars, initFailed>>

-----------------------------------------------------------------------------
(* Lookups *)

Begin(p, op, key, label) ==
    /\ pc[p] = "idle"
    /\ lookups[p] < MaxLookups
    /\ lookups' = [lookups EXCEPT ![p] = @ + 1]
    /\ call' = [call EXCEPT ![p] = [op |-> op, key |-> key, fallback |-> FALSE]]
    /\ Goto(p, label)
    /\ UNCHANGED <<managerVars, boundVars, arg, plan, res, ghostVars>>

LookupByKey(p, op, k) ==
    /\ Begin(p, op, k, IF op \in Sharded THEN "isInitialized" ELSE "check")
    /\ UNCHANGED idx

LookupByIndex(p, i) ==
    /\ Begin(p, "GetDBByIndex", 0, "check")
    /\ idx' = [idx EXCEPT ![p] = i]

(* An error inside the lookup.  The operations that fall back ask for the  *)
(* default database, number 0; when that fails too MustGetShardedDB        *)
(* returns an empty gorm.DB and the other two return nil.                  *)
Fail(p, why) ==
    IF call[p].op \in FallsBack /\ ~call[p].fallback
    THEN /\ call' = [call EXCEPT ![p].fallback = TRUE]
         /\ plan' = [plan EXCEPT ![p] = Unsharded]
         /\ idx' = [idx EXCEPT ![p] = 0]
         /\ Goto(p, "check")
         /\ UNCHANGED res
    ELSE /\ res' = [res EXCEPT ![p].kind = IF call[p].fallback THEN "noDefault" ELSE why]
         /\ Goto(p, "done")
         /\ UNCHANGED <<call, plan, idx>>

Unaffected == <<managerVars, boundVars, arg, lookups, ghostVars>>

(* CalculateShardForTable: IsInitialized, under the read lock *)
IsInitialized(p) ==
    /\ pc[p] = "isInitialized"
    /\ writer = None
    /\ IF initialized
         THEN Goto(p, "getConfig") /\ UNCHANGED <<call, plan, idx, res>>
         ELSE Fail(p, "notInitialized")
    /\ UNCHANGED Unaffected

(* Mutant of GetConfig: the table index is taken modulo the databases. *)
GetConfigByDatabases(p) ==
    /\ pc[p] = "getConfig"
    /\ writer = None
    /\ IF config.listed /\ config.tables > 0 /\ call[p].key \notin BadKeys
         THEN /\ plan' = [plan EXCEPT ![p] = LongIndex(call[p].key, config.dbs)]
              /\ Goto(p, "check")
              /\ UNCHANGED <<call, idx, res>>
         ELSE Fail(p, "noShard")
    /\ UNCHANGED Unaffected

(* The rest of it: GetConfig, under the read lock, and the table index *)
GetConfig(p) ==
    /\ pc[p] = "getConfig"
    /\ writer = None
    /\ IF config.listed /\ config.tables > 0 /\ call[p].key \notin BadKeys
         THEN /\ plan' = [plan EXCEPT ![p] = LongIndex(call[p].key, config.tables)]
              /\ Goto(p, "check")
              /\ UNCHANGED <<call, idx, res>>
         ELSE Fail(p, "noShard")
    /\ UNCHANGED Unaffected

(* What GetDBByIndex, GetDBForTable and GetDB do next. *)
AfterCheck(c) ==
    IF c.fallback \/ c.op = "GetDBByIndex" THEN "fetch"
    ELSE IF c.op \in ByTable THEN "table" ELSE "index"

(* if !sm.initialized, without the lock: first line of GetDB,              *)
(* GetDBForTable and GetDBByIndex                                          *)
CheckInitialized(p) ==
    /\ pc[p] = "check"
    /\ IF initialized
         THEN /\ Goto(p, AfterCheck(call[p]))
              /\ UNCHANGED <<call, plan, idx, res>>
         ELSE Fail(p, "notInitialized")
    /\ UNCHANGED Unaffected

(* sm.config.TableConfigs[tableName], without the lock *)
FindTable(p) ==
    /\ pc[p] = "table"
    /\ IF config.listed
         THEN Goto(p, "index") /\ UNCHANGED <<call, plan, idx, res>>
         ELSE Fail(p, "noTable")
    /\ UNCHANGED Unaffected

(* calculateDatabaseIndex: sm.config.DatabaseCount, without the lock *)
ComputeIndex(p) ==
    /\ pc[p] = "index"
    /\ IF call[p].key \notin BadKeys
         THEN /\ idx' = [idx EXCEPT ![p] = LongIndex(call[p].key, config.dbs)]
              /\ Goto(p, "fetch")
              /\ UNCHANGED <<call, plan, res>>
         ELSE Fail(p, "noShard")
    /\ UNCHANGED Unaffected

(* The bounds check and sm.databases[dbIndex], under the read lock; the    *)
(* sharded operations then call db.Table, which panics when db is nil.     *)
Fetch(p) ==
    /\ pc[p] = "fetch"
    /\ writer = None
    /\ LET db == databases[idx[p] + 1]
           sharded == call[p].op \in Sharded
       IN \/ /\ idx[p] \notin 0 .. Len(databases) - 1
             /\ Fail(p, "badIndex")
          \/ /\ idx[p] \in 0 .. Len(databases) - 1
             /\ db = None /\ sharded
             /\ Goto(p, "panicked")
             /\ UNCHANGED <<call, plan, idx, res>>
          \/ /\ idx[p] \in 0 .. Len(databases) - 1
             /\ ~(db = None /\ sharded)
             /\ res' = [res EXCEPT ![p] = [kind |-> IF db = None THEN "nil" ELSE "db",
                                           db |-> db, table |-> plan[p]]]
             /\ Goto(p, "done")
             /\ UNCHANGED <<call, plan, idx>>
    /\ UNCHANGED Unaffected

(* The caller takes the result. *)
Return(p) ==
    /\ pc[p] = "done"
    /\ call' = [call EXCEPT ![p] = NoCall]
    /\ plan' = [plan EXCEPT ![p] = Unsharded]
    /\ idx' = [idx EXCEPT ![p] = 0]
    /\ res' = [res EXCEPT ![p] = NoResult]
    /\ overlap' = [overlap EXCEPT ![p] = {}]
    /\ Goto(p, "idle")
    /\ UNCHANGED <<managerVars, boundVars, arg, lookups, initFailed>>

-----------------------------------------------------------------------------
AdminStep(a) ==
    \/ \E c \in Configs : InitCall(a, c)
    \/ InitEnter(a) \/ InitRejected(a) \/ OpenDatabase(a) \/ OpenFails(a)
    \/ AddDatabase(a) \/ TablesRefused(a) \/ Close(a)

ClientStep(p) ==
    \/ \E op \in KeyOps, k \in Keys : LookupByKey(p, op, k)
    \/ \E i \in 0 .. 1 : LookupByIndex(p, i)
    \/ IsInitialized(p) \/ GetConfig(p) \/ CheckInitialized(p) \/ FindTable(p)
    \/ ComputeIndex(p) \/ Fetch(p) \/ Return(p)

(* Nothing is left to do. *)
Finished ==
    \/ Crashed
    \/ /\ \A p \in Admins \cup Clients : pc[p] = "idle"
       /\ inits = MaxInits /\ closes = MaxCloses
       /\ \A p \in Clients : lookups[p] = MaxLookups

Terminated == Finished /\ UNCHANGED vars

Next ==
    \/ ~Crashed /\ \E a \in Admins : AdminStep(a)
    \/ ~Crashed /\ \E p \in Clients : ClientStep(p)
    \/ Terminated

Spec == Init /\ [][Next]_vars

-----------------------------------------------------------------------------
(* Properties *)

AdminLabels == {"idle", "lock", "open", "validate"}
ClientLabels == {"idle", "isInitialized", "getConfig", "check", "table", "index",
                 "fetch", "done", "panicked"}
Kinds == {"none", "db", "nil", "notInitialized", "noTable", "noShard", "badIndex", "noDefault"}

(* Every variable has its type, and the lock is held for writing exactly   *)
(* by the admin that is opening connections.                               *)
TypeOK ==
    /\ config \in Configs \cup {None}
    /\ databases \in Seq(Handles \cup {None})
    /\ initialized \in BOOLEAN
    /\ writer \in Admins \cup {None}
    /\ fresh \in Handles \cup {None}
    /\ slot \in Nat /\ round \in Nat
    /\ inits \in 0 .. MaxInits /\ closes \in 0 .. MaxCloses
    /\ open \subseteq Handles
    /\ pc \in [Admins \cup Clients -> AdminLabels \cup ClientLabels]
    /\ \A a \in Admins : /\ pc[a] \in AdminLabels
                         /\ pc[a] \in {"open", "validate"} <=> writer = a
    /\ \A p \in Clients : pc[p] \in ClientLabels
    /\ arg \in [Admins -> Configs \cup {None}]
    /\ call \in [Clients -> [op : KeyOps \cup {"GetDBByIndex", "none"}, key : Int,
                             fallback : BOOLEAN]]
    /\ plan \in [Clients -> Int] /\ idx \in [Clients -> Int]
    /\ res \in [Clients -> [kind : Kinds, db : Handles \cup {None}, table : Int]]
    /\ lookups \in [Clients -> 0 .. MaxLookups]
    /\ overlap \in [Clients -> SUBSET {"init", "close"}]
    /\ initFailed \in BOOLEAN

(* The manager never stores a closed connection where a lookup may find    *)
(* it, and once it is initialized every database has one, whatever Inits   *)
(* and Closes run at the same time.                                        *)
PublishedOpen ==
    /\ Entries \subseteq open
    /\ initialized => databases # <<>> /\ \A i \in DOMAIN databases : databases[i] \in open

(* Close finds every connection there is: unless some Init gave up half    *)
(* way, the open connections are the stored ones and the one in the hands  *)
(* of the Init that runs.                                                  *)
OpenAreOwned ==
    ~initFailed => open = Entries \cup ({fresh} \ {None})

(* A lookup returns a nil database without an error, or dereferences one,  *)
(* only if a Close ran during the call: sm.initialized was read before it  *)
(* and sm.databases after it.                                              *)
NilOnlyAcrossClose ==
    \A p \in Clients :
        res[p].kind = "nil" \/ pc[p] = "panicked" => "close" \in overlap[p]

(* As long as Init has been called once, the index a key is routed to is   *)
(* within the slice, also across a Close; a second Init, even a rejected   *)
(* one, replaces the configuration under the databases that are open.      *)
IndexFitsFirstInit ==
    \A p \in Clients :
        res[p].kind = "badIndex" /\ call[p].op \in KeyOps => inits > 1

(* A lookup by key during which nobody called Init gets the database and   *)
(* the table suffix that the current configuration says; one that fell     *)
(* back gets database 0 and the table's own name, never half of each.      *)
RoutedByConfig ==
    \A p \in Clients :
        LET key == call[p].key
            routed == res[p].kind = "db" /\ call[p].op \in KeyOps
        IN /\ routed /\ ~call[p].fallback /\ "init" \notin overlap[p]
                => /\ res[p].db.index = LongIndex(key, config.dbs)
                   /\ call[p].op \in Sharded => res[p].table = LongIndex(key, config.tables)
           /\ routed /\ call[p].fallback => res[p].db.index = 0 /\ res[p].table = Unsharded

(* The facts the proofs of the above need of one another.  While an Init   *)
(* runs, the slice is the one it made, filled up to slot; outside of one   *)
(* only a failed Init leaves connections behind without sm.initialized. *)
Building ==
    /\ \A a \in Admins : pc[a] \in {"open", "validate"} =>
         /\ ~initialized
         /\ arg[a] \in Configs
         /\ Len(databases) = arg[a].dbs
         /\ slot \in 0 .. Len(databases) - 1
         /\ \A i \in DOMAIN databases : databases[i] # None <=> i <= slot
         /\ fresh # None <=> pc[a] = "validate"
         /\ pc[a] = "validate" => fresh \in open /\ fresh.index = slot
    /\ writer = None => fresh = None
    /\ writer = None /\ ~initialized /\ ~initFailed => Entries = {}
    /\ \A i \in DOMAIN databases : databases[i] # None => databases[i].index = i - 1

(* A configuration is there when somebody reads its fields. *)
ConfigSet ==
    /\ initialized => config \in Configs
    /\ \A a \in Admins : pc[a] # "idle" => config \in Configs /\ arg[a] \in Configs
    /\ \A p \in Clients : pc[p] \in {"getConfig", "table", "index"} => config \in Configs

(* A lookup that has passed the check of sm.initialized: the check is      *)
(* still good unless a Close ran.                                          *)
CheckHolds ==
    \A p \in Clients :
        /\ pc[p] \in {"table", "index", "fetch"} /\ "close" \notin overlap[p] => initialized
        /\ pc[p] # "done" => res[p].kind = "none"

(* What a lookup has computed so far, and where it can be once it has      *)
(* fallen back.                                                            *)
Computed ==
    \A p \in Clients :
        LET c == call[p]
            current == ~c.fallback /\ "init" \notin overlap[p]
        IN /\ current /\ pc[p] = "fetch" /\ c.op \in KeyOps
                => idx[p] = LongIndex(c.key, config.dbs)
           /\ current /\ pc[p] \in {"check", "table", "index", "fetch"} /\ c.op \in Sharded
                => plan[p] = LongIndex(c.key, config.tables)
           /\ c.fallback => /\ pc[p] \in {"check", "fetch", "done", "panicked"}
                            /\ idx[p] = 0 /\ plan[p] = Unsharded
           /\ pc[p] # "idle" => c.op # "none"
           /\ c.op \in KeyOps => c.key \in Keys
           /\ c.op = "GetDBByIndex" => pc[p] \in {"check", "fetch", "done"}

(* As long as Init has been called once at most, the configuration, the    *)
(* argument of that Init and the length of its slice agree, from before    *)
(* the slice exists until after a Close.                                   *)
FirstInit ==
    /\ inits = 0 => databases = <<>> /\ \A a \in Admins : pc[a] = "idle"
    /\ \A p \in Clients : pc[p] \in {"table", "index", "fetch"} => databases # <<>>
    /\ inits <= 1 =>
         /\ \A a \in Admins : pc[a] # "idle" => arg[a] = config
         /\ databases # <<>> => Len(databases) = config.dbs
         /\ \A p \in Clients :
              pc[p] = "fetch" /\ ~call[p].fallback /\ call[p].op \in KeyOps
                  => idx[p] \in 0 .. config.dbs - 1

-----------------------------------------------------------------------------
(* What the comments of the code say and the code does not do *)

(* manager.go:289, Close "closes all database connections": after a Close  *)
(* no connection is open.                                                  *)
CloseClosesAll == [][\A a \in Admins : Close(a) => open' = {}]_vars

(* wrapper.go:106, MustGetShardedDB "returns no error and falls back when  *)
(* it fails": it does not panic.                                           *)
MustNeverPanics ==
    \A p \in Clients : pc[p] = "panicked" => call[p].op # "MustGetShardedDB"
=============================================================================
