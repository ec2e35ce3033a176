----------------------- MODULE ShardingManagerProofs -----------------------
(***************************************************************************)
(* Theorems about ShardingManager, for any sets of goroutines, any         *)
(* configurations and any number of calls.                                 *)
(***************************************************************************)
EXTENDS ShardingManager, TLAPS, SequenceTheorems

-----------------------------------------------------------------------------
(* Routing *)

(* LongShardingAlgorithm returns an index within the number of shards, for *)
(* negative values too.                                                    *)
THEOREM LongIndexInRange ==
    ASSUME NEW id \in Int, NEW n \in Nat \ {0}
    PROVE  LongIndex(id, n) \in 0 .. n - 1
<1>1. CASE id >= 0
  <2>1. id % n \in 0 .. n - 1 BY <1>1
  <2> QED BY <1>1, <2>1 DEF LongIndex, GoRem
<1>2. CASE id < 0
  <2>1. (-id) % n \in 0 .. n - 1 BY <1>2
  <2> QED BY <1>2, <2>1 DEF LongIndex, GoRem
<1> QED BY <1>1, <1>2

-----------------------------------------------------------------------------
(* Who changes what *)

(* What a step of client p leaves alone, and what a step of admin a does. *)
OthersKeep(p) ==
    /\ UNCHANGED <<managerVars, boundVars, arg, initFailed>>
    /\ \A q \in (Admins \cup Clients) \ {p} : pc'[q] = pc[q]
    /\ \A q \in Clients \ {p} : /\ call'[q] = call[q] /\ plan'[q] = plan[q]
                                /\ idx'[q] = idx[q] /\ res'[q] = res[q]
                                /\ overlap'[q] = overlap[q]

ClientsKeep(a) ==
    /\ UNCHANGED clientVars
    /\ \A q \in (Admins \cup Clients) \ {a} : pc'[q] = pc[q]

LEMMA ClientFrame ==
    ASSUME TypeOK, NEW p \in Clients, ClientStep(p)
    PROVE  OthersKeep(p)
<1> USE DEF TypeOK, managerVars, boundVars, ghostVars, Unaffected, Goto, OthersKeep
<1>1. ASSUME NEW op \in KeyOps, NEW k \in Keys, LookupByKey(p, op, k)
      PROVE  OthersKeep(p)
  BY <1>1 DEF LookupByKey, Begin
<1>2. ASSUME NEW i \in 0 .. 1, LookupByIndex(p, i)
      PROVE  OthersKeep(p)
  BY <1>2 DEF LookupByIndex, Begin
<1>3. CASE IsInitialized(p) BY <1>3 DEF IsInitialized, Fail
<1>4. CASE GetConfig(p) BY SMTT(40), <1>4 DEF GetConfig, Fail
<1>5. CASE CheckInitialized(p) BY SMTT(40), <1>5 DEF CheckInitialized, Fail
<1>6. CASE FindTable(p) BY <1>6 DEF FindTable, Fail
<1>7. CASE ComputeIndex(p) BY ZenonT(40), <1>7 DEF ComputeIndex, Fail
<1>8. CASE Fetch(p) BY SMTT(40), <1>8 DEF Fetch, Fail
<1>9. CASE Return(p) BY <1>9 DEF Return
<1> QED
  BY <1>1, <1>2, <1>3, <1>4, <1>5, <1>6, <1>7, <1>8, <1>9 DEF ClientStep

LEMMA AdminFrame ==
    ASSUME TypeOK, NEW a \in Admins, AdminStep(a)
    PROVE  ClientsKeep(a)
<1> USE DEF TypeOK, clientVars, ghostVars, Goto, ClientsKeep
<1>1. ASSUME NEW c \in Configs, InitCall(a, c) PROVE ClientsKeep(a)
  BY <1>1 DEF InitCall
<1>2. CASE InitEnter(a) BY <1>2 DEF InitEnter
<1>3. CASE InitRejected(a) BY <1>3 DEF InitRejected
<1>4. CASE OpenDatabase(a) BY <1>4 DEF OpenDatabase
<1>5. CASE OpenFails(a) BY <1>5 DEF OpenFails
<1>6. CASE AddDatabase(a) BY <1>6 DEF AddDatabase
<1>7. CASE TablesRefused(a) BY <1>7 DEF TablesRefused
<1>8. CASE Close(a) BY <1>8 DEF Close
<1> QED
  BY <1>1, <1>2, <1>3, <1>4, <1>5, <1>6, <1>7, <1>8 DEF AdminStep

-----------------------------------------------------------------------------
(* Type correctness, with the configurations that are read *)

LEMMA SliceOfNils ==
    ASSUME NEW n \in Nat, NEW S, None \in S
    PROVE  /\ [i \in 1 .. n |-> None] \in Seq(S)
           /\ Len([i \in 1 .. n |-> None]) = n
           /\ DOMAIN [i \in 1 .. n |-> None] = 1 .. n
BY IsASeq, LenProperties

Typed == TypeOK /\ ConfigSet /\ Building

LEMMA TypedInit == Init => Typed
<1> SUFFICES ASSUME Init PROVE Typed
  OBVIOUS
<1>1. databases \in Seq(Handles \cup {None}) /\ Len(databases) = 0 /\ DOMAIN databases = {}
  BY EmptySeq DEF Init
<1>2. TypeOK
  <2>1. /\ NoCall \in [op : KeyOps \cup {"GetDBByIndex", "none"}, key : Int, fallback : BOOLEAN]
        /\ NoResult \in [kind : Kinds, db : Handles \cup {None}, table : Int]
        /\ Unsharded \in Int
    BY DEF NoCall, NoResult, Kinds, Unsharded
  <2>2. \A a \in Admins : writer # a BY ConstantsAssumption DEF Init
  <2>3. /\ pc \in [Admins \cup Clients -> AdminLabels \cup ClientLabels]
        /\ \A a \in Admins : pc[a] \in AdminLabels /\ pc[a] \notin {"open", "validate"}
        /\ \A p \in Clients : pc[p] \in ClientLabels
    BY DEF Init, AdminLabels, ClientLabels
  <2>4. /\ 0 \in 0 .. MaxInits /\ 0 \in 0 .. MaxCloses /\ 0 \in 0 .. MaxLookups
    BY ConstantsAssumption
  <2>5. /\ arg \in [Admins -> Configs \cup {None}]
        /\ lookups \in [Clients -> 0 .. MaxLookups]
        /\ overlap \in [Clients -> SUBSET {"init", "close"}]
    BY <2>4 DEF Init
  <2>6. /\ call \in [Clients -> [op : KeyOps \cup {"GetDBByIndex", "none"}, key : Int,
                                 fallback : BOOLEAN]]
        /\ plan \in [Clients -> Int] /\ idx \in [Clients -> Int]
        /\ res \in [Clients -> [kind : Kinds, db : Handles \cup {None}, table : Int]]
    BY <2>1 DEF Init
  <2>7. /\ config = None /\ initialized = FALSE /\ initFailed = FALSE /\ writer = None
        /\ fresh = None /\ slot = 0 /\ round = 0 /\ inits = 0 /\ closes = 0 /\ open = {}
    BY DEF Init
  <2> QED BY <1>1, <2>2, <2>3, <2>4, <2>5, <2>6, <2>7 DEF TypeOK
<1>3. ConfigSet BY DEF Init, ConfigSet
<1>4. Building BY <1>1 DEF Init, Building, Entries
<1> QED BY <1>2, <1>3, <1>4 DEF Typed

LEMMA AdminTypes ==
    ASSUME Typed, NEW a \in Admins, AdminStep(a)
    PROVE  TypeOK'
<1> USE ConstantsAssumption DEF Typed, TypeOK, ConfigSet, Building, Goto, Note, AdminLabels,
                     ClientLabels, managerVars, boundVars, clientVars, ghostVars
<1>1. ASSUME NEW c \in Configs, InitCall(a, c) PROVE TypeOK'
  BY SMTT(40), <1>1 DEF InitCall
<1>2. CASE InitEnter(a)
  <2>1. arg[a].dbs \in Nat BY <1>2 DEF InitEnter
  <2>2. databases' \in Seq(Handles \cup {None}) BY <1>2, <2>1, SliceOfNils DEF InitEnter
  <2> QED BY <1>2, <2>2 DEF InitEnter
<1>3. CASE InitRejected(a) BY <1>3 DEF InitRejected
<1>4. CASE OpenDatabase(a)
  <2>1. fresh' \in Handles BY <1>4 DEF OpenDatabase, Handles
  <2> QED BY <1>4, <2>1 DEF OpenDatabase
<1>5. CASE OpenFails(a) BY <1>5 DEF OpenFails
<1>6. CASE AddDatabase(a)
  <2>1. databases' \in Seq(Handles \cup {None})
    BY <1>6, ExceptSeq DEF AddDatabase
  <2>2. CASE slot + 1 = arg[a].dbs
    <3>1. writer' = None /\ slot' = 0 /\ pc' = [pc EXCEPT ![a] = "idle"]
      BY <1>6, <2>2 DEF AddDatabase
    <3>2. arg' = [arg EXCEPT ![a] = None] BY <1>6, <2>2 DEF AddDatabase
    <3> QED BY <1>6, <2>1, <2>2, <3>1, <3>2 DEF AddDatabase
  <2>3. CASE slot + 1 # arg[a].dbs
    <3>1. slot' \in Nat /\ pc' = [pc EXCEPT ![a] = "open"] /\ UNCHANGED <<writer, arg>>
      BY <1>6, <2>3 DEF AddDatabase
    <3> QED BY <1>6, <2>1, <2>3, <3>1 DEF AddDatabase
  <2> QED BY <2>2, <2>3
<1>7. CASE TablesRefused(a) BY <1>7 DEF TablesRefused
<1>8. CASE Close(a)
  <2>1. databases' \in Seq(Handles \cup {None})
    BY <1>8, SliceOfNils, LenProperties DEF Close
  <2>2. open' \subseteq Handles /\ closes' \in 0 .. MaxCloses BY <1>8 DEF Close
  <2>3. overlap' \in [Clients -> SUBSET {"init", "close"}] BY <1>8 DEF Close
  <2> QED BY <1>8, <2>1, <2>2, <2>3 DEF Close
<1> QED
  BY <1>1, <1>2, <1>3, <1>4, <1>5, <1>6, <1>7, <1>8 DEF AdminStep

(* The client's part of TypeOK. *)
LocalTypes ==
    /\ pc \in [Admins \cup Clients -> AdminLabels \cup ClientLabels]
    /\ \A p \in Clients : pc[p] \in ClientLabels
    /\ call \in [Clients -> [op : KeyOps \cup {"GetDBByIndex", "none"}, key : Int,
                             fallback : BOOLEAN]]
    /\ plan \in [Clients -> Int]
    /\ idx \in [Clients -> Int]
    /\ res \in [Clients -> [kind : Kinds, db : Handles \cup {None}, table : Int]]
    /\ lookups \in [Clients -> 0 .. MaxLookups]
    /\ overlap \in [Clients -> SUBSET {"init", "close"}]

LEMMA LocalSuffices ==
    ASSUME TypeOK, NEW p \in Clients, OthersKeep(p), LocalTypes'
    PROVE  TypeOK'
<1>1. \A a \in Admins : pc'[a] = pc[a] BY ConstantsAssumption DEF OthersKeep
<1> QED BY <1>1 DEF TypeOK, OthersKeep, LocalTypes, managerVars, boundVars

LEMMA GotoTypes ==
    ASSUME LocalTypes, NEW p \in Clients, NEW label \in ClientLabels, Goto(p, label)
    PROVE  /\ pc' \in [Admins \cup Clients -> AdminLabels \cup ClientLabels]
           /\ \A q \in Clients : pc'[q] \in ClientLabels
           /\ pc' = [pc EXCEPT ![p] = label]
BY DEF LocalTypes, Goto

LEMMA FailTypes ==
    ASSUME LocalTypes, NEW p \in Clients, NEW why \in Kinds, Fail(p, why),
           UNCHANGED <<lookups, overlap>>
    PROVE  LocalTypes'
<1>1. "noDefault" \in Kinds /\ Unsharded \in Int /\ {"check", "done"} \subseteq ClientLabels
  BY DEF Kinds, Unsharded, ClientLabels
<1>2. CASE call[p].op \in FallsBack /\ ~call[p].fallback
  <2>1. /\ call' = [call EXCEPT ![p] = [call[p] EXCEPT !.fallback = TRUE]]
        /\ plan' = [plan EXCEPT ![p] = Unsharded]
        /\ idx' = [idx EXCEPT ![p] = 0]
        /\ Goto(p, "check") /\ UNCHANGED res
    BY <1>2 DEF Fail
  <2>2. [call[p] EXCEPT !.fallback = TRUE]
            \in [op : KeyOps \cup {"GetDBByIndex", "none"}, key : Int, fallback : BOOLEAN]
    <3>1. call[p] \in [op : KeyOps \cup {"GetDBByIndex", "none"}, key : Int, fallback : BOOLEAN]
      BY DEF LocalTypes
    <3> HIDE DEF KeyOps
    <3> QED BY <3>1
  <2>3. call' \in [Clients -> [op : KeyOps \cup {"GetDBByIndex", "none"}, key : Int,
                               fallback : BOOLEAN]]
    BY <2>1, <2>2 DEF LocalTypes
  <2> QED BY <1>1, <2>1, <2>3, GotoTypes DEF LocalTypes
<1>3. CASE ~(call[p].op \in FallsBack /\ ~call[p].fallback)
  <2>1. PICK k \in Kinds : res' = [res EXCEPT ![p] = [res[p] EXCEPT !.kind = k]]
    BY <1>1, <1>3 DEF Fail
  <2>2. res' \in [Clients -> [kind : Kinds, db : Handles \cup {None}, table : Int]]
    BY ZenonT(40), <2>1 DEF LocalTypes
  <2>3. Goto(p, "done") /\ UNCHANGED <<call, plan, idx>> BY <1>3 DEF Fail
  <2> QED BY <1>1, <2>2, <2>3, GotoTypes DEF LocalTypes
<1> QED BY <1>2, <1>3

LEMMA ClientTypes ==
    ASSUME Typed, NEW p \in Clients, ClientStep(p)
    PROVE  TypeOK'
<1>1. OthersKeep(p) BY ClientFrame DEF Typed
<1> SUFFICES LocalTypes' BY <1>1, LocalSuffices DEF Typed
<1>2. LocalTypes BY DEF Typed, TypeOK, LocalTypes
<1>3. /\ "notInitialized" \in Kinds /\ "noTable" \in Kinds /\ "noShard" \in Kinds
      /\ "badIndex" \in Kinds /\ "db" \in Kinds /\ "nil" \in Kinds
  BY DEF Kinds
<1>4. /\ "isInitialized" \in ClientLabels /\ "getConfig" \in ClientLabels
      /\ "check" \in ClientLabels /\ "table" \in ClientLabels /\ "index" \in ClientLabels
      /\ "fetch" \in ClientLabels /\ "done" \in ClientLabels
      /\ "panicked" \in ClientLabels /\ "idle" \in ClientLabels
  BY DEF ClientLabels
<1>5. ASSUME NEW op \in KeyOps, NEW k \in Keys, LookupByKey(p, op, k)
      PROVE  LocalTypes'
  <2>1. [op |-> op, key |-> k, fallback |-> FALSE]
            \in [op : KeyOps \cup {"GetDBByIndex", "none"}, key : Int, fallback : BOOLEAN]
    BY ConstantsAssumption
  <2>2. lookups' \in [Clients -> 0 .. MaxLookups]
    BY <1>2, <1>5, ConstantsAssumption DEF LookupByKey, Begin, LocalTypes
  <2> QED BY <1>2, <1>4, <1>5, <2>1, <2>2, GotoTypes DEF LookupByKey, Begin, LocalTypes, ghostVars
<1>6. ASSUME NEW i \in 0 .. 1, LookupByIndex(p, i)
      PROVE  LocalTypes'
  <2>1. [op |-> "GetDBByIndex", key |-> 0, fallback |-> FALSE]
            \in [op : KeyOps \cup {"GetDBByIndex", "none"}, key : Int, fallback : BOOLEAN]
    OBVIOUS
  <2>2. lookups' \in [Clients -> 0 .. MaxLookups]
    BY <1>2, <1>6, ConstantsAssumption DEF LookupByIndex, Begin, LocalTypes
  <2> QED BY <1>2, <1>4, <1>6, <2>1, <2>2, GotoTypes DEF LookupByIndex, Begin, LocalTypes, ghostVars
<1>7. CASE IsInitialized(p)
  BY <1>2, <1>3, <1>4, <1>7, FailTypes, GotoTypes
     DEF IsInitialized, LocalTypes, Unaffected, ghostVars
<1>8. CASE GetConfig(p)
  <2>1. config \in Configs BY <1>8 DEF GetConfig, Typed, ConfigSet
  <2>2. call[p].key \in Int BY <1>2 DEF LocalTypes
  <2>3. config.tables > 0 => LongIndex(call[p].key, config.tables) \in Int
    BY <2>1, <2>2, LongIndexInRange, ConstantsAssumption
  <2> QED BY SMTT(40), <1>2, <1>3, <1>4, <1>8, <2>3, FailTypes, GotoTypes
          DEF GetConfig, LocalTypes, Unaffected, ghostVars
<1>9. CASE CheckInitialized(p)
  BY <1>2, <1>3, <1>4, <1>9, FailTypes, GotoTypes
     DEF CheckInitialized, AfterCheck, LocalTypes, Unaffected, ghostVars
<1>10. CASE FindTable(p)
  BY <1>2, <1>3, <1>4, <1>10, FailTypes, GotoTypes
     DEF FindTable, LocalTypes, Unaffected, ghostVars
<1>11. CASE ComputeIndex(p)
  <2>1. config \in Configs BY <1>11 DEF ComputeIndex, Typed, ConfigSet
  <2>2. call[p].key \in Int BY <1>2 DEF LocalTypes
  <2>3. LongIndex(call[p].key, config.dbs) \in Int
    BY <2>1, <2>2, LongIndexInRange, ConstantsAssumption
  <2> QED BY ZenonT(40), <1>2, <1>3, <1>4, <1>11, <2>3, FailTypes, GotoTypes
          DEF ComputeIndex, LocalTypes, Unaffected, ghostVars
<1>12. CASE Fetch(p)
  <2>1. UNCHANGED <<lookups, overlap>> BY <1>12 DEF Fetch, Unaffected, ghostVars
  <2>2. CASE Fail(p, "badIndex") BY <1>2, <1>3, <2>1, <2>2, FailTypes
  <2>3. CASE Goto(p, "panicked") /\ UNCHANGED <<call, plan, idx, res>>
    BY <1>2, <1>4, <2>1, <2>3, GotoTypes DEF LocalTypes
  <2>4. ASSUME idx[p] \in 0 .. Len(databases) - 1,
               res' = [res EXCEPT ![p] = [kind |-> IF databases[idx[p] + 1] = None THEN "nil" ELSE "db",
                                          db |-> databases[idx[p] + 1], table |-> plan[p]]],
               Goto(p, "done"), UNCHANGED <<call, plan, idx>>
        PROVE  LocalTypes'
    <3>1. databases[idx[p] + 1] \in Handles \cup {None}
      BY <2>4, ElementOfSeq DEF Typed, TypeOK
    <3>2. res' \in [Clients -> [kind : Kinds, db : Handles \cup {None}, table : Int]]
      BY <1>2, <1>3, <2>4, <3>1 DEF LocalTypes
    <3> QED BY <1>2, <1>4, <2>1, <2>4, <3>2, GotoTypes DEF LocalTypes
  <2> QED BY <1>12, <2>2, <2>3, <2>4 DEF Fetch
<1>13. CASE Return(p)
  <2>1. /\ NoCall \in [op : KeyOps \cup {"GetDBByIndex", "none"}, key : Int, fallback : BOOLEAN]
        /\ NoResult \in [kind : Kinds, db : Handles \cup {None}, table : Int]
        /\ Unsharded \in Int
    BY DEF NoCall, NoResult, Kinds, Unsharded
  <2> QED BY <1>2, <1>4, <1>13, <2>1, GotoTypes DEF Return, LocalTypes
<1> QED
  BY <1>5, <1>6, <1>7, <1>8, <1>9, <1>10, <1>11, <1>12, <1>13 DEF ClientStep

-----------------------------------------------------------------------------
(* ConfigSet and Building *)

LEMMA NilsAreNoEntries ==
    ASSUME \A i \in DOMAIN databases : databases[i] = None
    PROVE  Entries = {}
BY DEF Entries

(* Where an error takes a lookup. *)
LEMMA FailGoes ==
    ASSUME TypeOK, NEW p \in Clients, NEW why, Fail(p, why)
    PROVE  \/ /\ call[p].op \in FallsBack /\ ~call[p].fallback
              /\ pc'[p] = "check" /\ call'[p].fallback
              /\ call'[p].op = call[p].op /\ call'[p].key = call[p].key
              /\ plan'[p] = Unsharded /\ idx'[p] = 0 /\ UNCHANGED res
           \/ /\ pc'[p] = "done"
              /\ res'[p].kind = IF call[p].fallback THEN "noDefault" ELSE why
              /\ UNCHANGED <<call, plan, idx>>
BY DEF TypeOK, Fail, Goto

LEMMA ClientConfigSet ==
    ASSUME Typed, NEW p \in Clients, ClientStep(p)
    PROVE  ConfigSet'
<1>1. OthersKeep(p) BY ClientFrame DEF Typed
<1>2. pc'[p] \in {"getConfig", "table", "index"} => config \in Configs
  <2> USE DEF Typed, TypeOK, ConfigSet, Goto
  <2>1. ASSUME NEW op \in KeyOps, NEW k \in Keys, LookupByKey(p, op, k)
        PROVE  pc'[p] \notin {"getConfig", "table", "index"}
    BY <2>1 DEF LookupByKey, Begin
  <2>2. ASSUME NEW i \in 0 .. 1, LookupByIndex(p, i)
        PROVE  pc'[p] \notin {"getConfig", "table", "index"}
    BY <2>2 DEF LookupByIndex, Begin
  <2>3. CASE IsInitialized(p) BY <2>3, FailGoes DEF IsInitialized
  <2>4. CASE GetConfig(p) BY <2>4, FailGoes DEF GetConfig
  <2>5. CASE CheckInitialized(p) BY <2>5, FailGoes DEF CheckInitialized, AfterCheck
  <2>6. CASE FindTable(p) BY <2>6, FailGoes DEF FindTable
  <2>7. CASE ComputeIndex(p) BY <2>7, FailGoes DEF ComputeIndex
  <2>8. CASE Fetch(p) BY <2>8, FailGoes DEF Fetch
  <2>9. CASE Return(p) BY <2>9 DEF Return
  <2> QED
    BY <2>1, <2>2, <2>3, <2>4, <2>5, <2>6, <2>7, <2>8, <2>9 DEF ClientStep
<1> QED BY <1>1, <1>2, ConstantsAssumption DEF OthersKeep, Typed, ConfigSet, managerVars

LEMMA ClientBuilding ==
    ASSUME Typed, NEW p \in Clients, ClientStep(p)
    PROVE  Building'
<1>1. OthersKeep(p) BY ClientFrame DEF Typed
<1>2. \A a \in Admins : pc'[a] = pc[a] BY <1>1, ConstantsAssumption DEF OthersKeep
<1>3. UNCHANGED <<config, databases, initialized, writer, fresh, slot, open, arg, initFailed>>
  BY <1>1 DEF OthersKeep, managerVars
<1>4. Entries' = Entries BY <1>3 DEF Entries
<1> QED BY <1>2, <1>3, <1>4 DEF Typed, Building

LEMMA AdminConfigSet ==
    ASSUME Typed, NEW a \in Admins, AdminStep(a)
    PROVE  ConfigSet'
<1>1. ClientsKeep(a) BY AdminFrame DEF Typed
<1>2. config' \in Configs \/ config' = config
  BY DEF AdminStep, InitCall, InitEnter, InitRejected, OpenDatabase, OpenFails, AddDatabase,
         TablesRefused, Close, managerVars
<1>3. initialized' => config' \in Configs
  BY <1>2 DEF Typed, ConfigSet, AdminStep, InitCall, InitEnter, InitRejected, OpenDatabase,
      OpenFails, AddDatabase, TablesRefused, Close, managerVars
<1>4. pc'[a] # "idle" => config' \in Configs /\ arg'[a] \in Configs
  BY <1>2 DEF Typed, TypeOK, ConfigSet, Goto, AdminStep, InitCall, InitEnter, InitRejected,
      OpenDatabase, OpenFails, AddDatabase, TablesRefused, Close, managerVars
<1>5. \A b \in Admins \ {a} : arg'[b] = arg[b]
  BY DEF Typed, TypeOK, AdminStep, InitCall, InitEnter, InitRejected, OpenDatabase,
      OpenFails, AddDatabase, TablesRefused, Close
<1> QED
  BY <1>1, <1>2, <1>3, <1>4, <1>5, ConstantsAssumption DEF ClientsKeep, Typed, ConfigSet

(* Building', by the parts that speak of one admin, of an idle lock and of *)
(* the entries. *)
LEMMA AdminBuilding ==
    ASSUME Typed, NEW a \in Admins, AdminStep(a)
    PROVE  Building'
<1> USE ConstantsAssumption DEF Typed, Goto
<1>1. ASSUME NEW c \in Configs, InitCall(a, c) PROVE Building'
  <2>1. UNCHANGED <<databases, initialized, writer, fresh, slot, open, initFailed>>
    BY <1>1 DEF InitCall
  <2>2. \A b \in Admins : pc'[b] \in {"open", "validate"} =>
                             pc'[b] = pc[b] /\ arg'[b] = arg[b]
    BY <1>1 DEF InitCall, TypeOK
  <2> QED BY <2>1, <2>2 DEF Building, Entries
<1>2. CASE InitEnter(a)
  <2>1. arg[a] \in Configs /\ arg[a].dbs \in Nat \ {0} BY <1>2 DEF InitEnter, ConfigSet
  <2>2. /\ Len(databases') = arg[a].dbs /\ DOMAIN databases' = 1 .. arg[a].dbs
        /\ \A i \in 1 .. arg[a].dbs : databases'[i] = None
    BY <1>2, <2>1, SliceOfNils DEF InitEnter
  <2>3. \A b \in Admins : pc'[b] \in {"open", "validate"} => b = a
    BY <1>2 DEF InitEnter, TypeOK
  <2>4. pc'[a] = "open" BY <1>2 DEF InitEnter, TypeOK
  <2>5. /\ ~initialized' /\ writer' # None /\ slot' = 0 /\ fresh' = None /\ arg' = arg
    BY <1>2 DEF InitEnter, Building
  <2> QED BY <2>1, <2>2, <2>3, <2>4, <2>5 DEF Building
<1>3. CASE InitRejected(a)
  <2>1. UNCHANGED managerVars /\ UNCHANGED initFailed BY <1>3 DEF InitRejected, ghostVars
  <2>2. \A b \in Admins : pc'[b] \in {"open", "validate"} =>
                             pc'[b] = pc[b] /\ arg'[b] = arg[b]
    BY <1>3 DEF InitRejected, TypeOK
  <2> QED BY ZenonT(40), <2>1, <2>2 DEF Building, Entries, managerVars
<1>4. CASE OpenDatabase(a)
  <2>1. \A b \in Admins : pc'[b] \in {"open", "validate"} => b = a
    BY <1>4 DEF OpenDatabase, TypeOK
  <2>2. pc'[a] = "validate" BY <1>4 DEF OpenDatabase, TypeOK
  <2>3. /\ fresh' \in open' /\ fresh'.index = slot /\ fresh' # None
    <3>1. config \in Configs /\ slot \in Nat /\ round \in Nat
      BY <1>4 DEF OpenDatabase, ConfigSet, TypeOK
    <3>2. [cfg |-> config, index |-> slot, round |-> round] \in Handles BY <3>1 DEF Handles
    <3> QED BY <1>4, <3>2 DEF OpenDatabase
  <2>4. UNCHANGED <<databases, initialized, writer, slot, arg, initFailed>> /\ writer = a
    BY <1>4 DEF OpenDatabase, TypeOK, ghostVars
  <2> QED BY <1>4, <2>1, <2>2, <2>3, <2>4 DEF Building, OpenDatabase
<1>5. CASE OpenFails(a)
  <2>1. \A b \in Admins : pc'[b] \notin {"open", "validate"}
    BY <1>5 DEF OpenFails, TypeOK
  <2>2. UNCHANGED <<databases, initialized, fresh>> BY <1>5 DEF OpenFails
  <2>3. fresh = None BY <1>5 DEF OpenFails, Building
  <2>4. ~initFailed' => Entries' = {}
    <3>1. ASSUME slot = 0 PROVE Entries = {}
      <4>1. \A i \in DOMAIN databases : databases[i] = None
        BY <1>5, <3>1, LenProperties DEF OpenFails, Building, TypeOK
      <4> QED BY <4>1, NilsAreNoEntries
    <3>2. ~initFailed' => slot = 0
      <4>1. slot > 0 => initFailed' BY <1>5, Zenon DEF OpenFails
      <4> QED BY <4>1 DEF TypeOK
    <3>3. Entries' = Entries BY <2>2 DEF Entries
    <3> QED BY <3>1, <3>2, <3>3
  <2> QED BY <2>1, <2>2, <2>3, <2>4 DEF Building
<1>6. CASE AddDatabase(a)
  <2>1. /\ DOMAIN databases = 1 .. Len(databases) /\ slot + 1 \in DOMAIN databases
        /\ slot \in Nat /\ fresh # None /\ fresh.index = slot
    BY <1>6, LenProperties DEF AddDatabase, Building, TypeOK
  <2>2. databases' \in Seq(Handles \cup {None}) /\ Len(databases') = Len(databases)
    BY <1>6, <2>1, ExceptSeq DEF AddDatabase, TypeOK
  <2>3. /\ DOMAIN databases' = DOMAIN databases
        /\ databases'[slot + 1] = fresh
        /\ \A i \in DOMAIN databases \ {slot + 1} : databases'[i] = databases[i]
    BY <1>6, <2>1 DEF AddDatabase
  <2>4. \A i \in DOMAIN databases : databases'[i] # None <=> i <= slot + 1
    BY <1>6, <2>1, <2>3 DEF AddDatabase, Building
  <2>5. \A i \in DOMAIN databases : databases'[i] # None => databases'[i].index = i - 1
    BY <2>1, <2>3 DEF Building
  <2>6. CASE slot + 1 = arg[a].dbs
    <3>1. \A b \in Admins : pc'[b] \notin {"open", "validate"}
      BY ZenonT(40), <1>6, <2>6 DEF AddDatabase, TypeOK
    <3>2. initialized' /\ fresh' = None BY <1>6, <2>6 DEF AddDatabase
    <3> QED BY <2>3, <2>5, <3>1, <3>2 DEF Building
  <2>7. CASE slot + 1 # arg[a].dbs
    <3>1. \A b \in Admins : pc'[b] \in {"open", "validate"} => b = a
      BY <1>6, <2>7 DEF AddDatabase, TypeOK
    <3>2. /\ pc'[a] = "open" /\ slot' = slot + 1 /\ UNCHANGED <<initialized, arg, writer>>
          /\ fresh' = None
      BY <1>6, <2>7 DEF AddDatabase, TypeOK
    <3>3. slot + 1 \in 0 .. Len(databases) - 1
      BY <1>6, <2>1, <2>7 DEF AddDatabase, Building
    <3>4. writer' # None BY <1>6, <3>2 DEF AddDatabase, TypeOK
    <3>5. ~initialized /\ arg[a] \in Configs /\ Len(databases) = arg[a].dbs
      BY <1>6 DEF AddDatabase, Building
    <3> QED BY <2>2, <2>3, <2>4, <2>5, <3>1, <3>2, <3>3, <3>4, <3>5 DEF Building
  <2> QED BY <2>6, <2>7
<1>7. CASE TablesRefused(a)
  <2>1. \A b \in Admins : pc'[b] \notin {"open", "validate"}
    BY <1>7 DEF TablesRefused, TypeOK
  <2>2. UNCHANGED databases /\ fresh' = None /\ initFailed'
    BY <1>7 DEF TablesRefused
  <2> QED BY <2>1, <2>2 DEF Building
<1>8. CASE Close(a)
  <2>1. \A i \in DOMAIN databases' : databases'[i] = None BY <1>8 DEF Close
  <2>2. \A b \in Admins : pc'[b] \notin {"open", "validate"} BY <1>8 DEF Close, TypeOK
  <2>3. Entries' = {} BY <2>1 DEF Entries
  <2>4. fresh' = None BY <1>8 DEF Close, Building
  <2> QED BY <2>1, <2>2, <2>3, <2>4 DEF Building
<1> QED
  BY <1>1, <1>2, <1>3, <1>4, <1>5, <1>6, <1>7, <1>8 DEF AdminStep

LEMMA TypedStutter == Typed /\ UNCHANGED vars => Typed'
<1> SUFFICES ASSUME Typed, UNCHANGED vars PROVE Typed'
  OBVIOUS
<1> USE DEF vars, managerVars, boundVars, clientVars, ghostVars
<1>1. TypeOK' BY DEF Typed, TypeOK
<1>2. ConfigSet' BY DEF Typed, ConfigSet
<1>3. Building'
  <2>1. Entries' = Entries BY DEF Entries
  <2> QED BY <2>1 DEF Typed, Building
<1> QED BY <1>1, <1>2, <1>3 DEF Typed

LEMMA TypedInvariant == Spec => []Typed
<1>1. Typed /\ [Next]_vars => Typed'
  <2> SUFFICES ASSUME Typed, [Next]_vars PROVE Typed'
    OBVIOUS
  <2>1. ASSUME NEW a \in Admins, AdminStep(a) PROVE Typed'
    BY <2>1, AdminTypes, AdminConfigSet, AdminBuilding DEF Typed
  <2>2. ASSUME NEW p \in Clients, ClientStep(p) PROVE Typed'
    BY <2>2, ClientTypes, ClientConfigSet, ClientBuilding DEF Typed
  <2> QED BY <2>1, <2>2, TypedStutter DEF Next, Terminated
<1> QED BY <1>1, TypedInit, PTL DEF Spec

(* TypeOK holds of every reachable state; with it, the write lock is held  *)
(* by at most one Init, the one that opens connections.                    *)
THEOREM TypeCorrect == Spec => []TypeOK
BY TypedInvariant, PTL DEF Typed

-----------------------------------------------------------------------------
(* The connections *)

LEMMA PublishedStep ==
    ASSUME Typed, PublishedOpen, [Next]_vars
    PROVE  PublishedOpen'
<1> USE ConstantsAssumption DEF Typed
<1>1. ASSUME UNCHANGED <<databases, initialized, open>> PROVE PublishedOpen'
  BY <1>1 DEF PublishedOpen, Entries
<1>2. ASSUME NEW a \in Admins, InitEnter(a) PROVE PublishedOpen'
  <2>1. \A i \in DOMAIN databases' : databases'[i] = None BY <1>2 DEF InitEnter
  <2> QED BY <1>2, <2>1 DEF PublishedOpen, Entries, InitEnter
<1>3. ASSUME NEW a \in Admins, OpenDatabase(a) PROVE PublishedOpen'
  BY <1>3 DEF PublishedOpen, Entries, OpenDatabase
<1>4. ASSUME NEW a \in Admins, AddDatabase(a) PROVE PublishedOpen'
  <2>1. /\ DOMAIN databases = 1 .. Len(databases) /\ slot + 1 \in DOMAIN databases
        /\ slot \in Nat /\ fresh \in open /\ Len(databases) \in Nat
        /\ ~initialized
    BY <1>4, LenProperties DEF AddDatabase, Building, TypeOK
  <2>2. /\ DOMAIN databases' = DOMAIN databases
        /\ databases'[slot + 1] = fresh
        /\ \A i \in DOMAIN databases \ {slot + 1} : databases'[i] = databases[i]
        /\ open' = open
    BY <1>4, <2>1 DEF AddDatabase
  <2>3. Entries' \subseteq open'
    BY <2>1, <2>2 DEF Entries, PublishedOpen
  <2>4. ASSUME initialized' PROVE databases' # <<>> /\ \A i \in DOMAIN databases' : databases'[i] \in open'
    <3>1. slot + 1 = Len(databases)
      BY <1>4, <2>1, <2>4 DEF AddDatabase, Building
    <3>2. \A i \in DOMAIN databases : i <= slot => databases[i] # None
      BY <1>4 DEF AddDatabase, Building
    <3>3. \A i \in DOMAIN databases' : databases'[i] \in open'
      BY <2>1, <2>2, <3>1, <3>2 DEF Entries, PublishedOpen
    <3> QED BY SMTT(40), <2>1, <2>2, <3>3
  <2> QED BY <2>3, <2>4 DEF PublishedOpen
<1>5. ASSUME NEW a \in Admins, Close(a) PROVE PublishedOpen'
  <2>1. \A i \in DOMAIN databases' : databases'[i] = None BY <1>5 DEF Close
  <2> QED BY <1>5, <2>1 DEF PublishedOpen, Entries, Close
<1>6. ASSUME NEW p \in Clients, ClientStep(p) PROVE PublishedOpen'
  BY <1>1, <1>6, ClientFrame DEF OthersKeep, managerVars
<1>7. ASSUME NEW a \in Admins, AdminStep(a) PROVE PublishedOpen'
  BY <1>1, <1>2, <1>3, <1>4, <1>5, <1>7
  DEF AdminStep, InitCall, InitRejected, OpenFails, TablesRefused, managerVars
<1>8. CASE UNCHANGED vars BY <1>1, <1>8 DEF vars, managerVars
<1> QED BY <1>6, <1>7, <1>8 DEF Next, Terminated

(* Every connection a lookup may find in the slice is open, and an         *)
(* initialized manager has one for each of its databases.                  *)
THEOREM ConnectionsPublished == Spec => []PublishedOpen
<1>1. Init => PublishedOpen BY DEF Init, PublishedOpen, Entries
<1> QED BY <1>1, TypedInvariant, PublishedStep, PTL DEF Spec

LEMMA OwnedStep ==
    ASSUME Typed, OpenAreOwned, [Next]_vars
    PROVE  OpenAreOwned'
<1> USE ConstantsAssumption DEF Typed
<1>1. ASSUME UNCHANGED <<databases, open, fresh, initFailed>> PROVE OpenAreOwned'
  BY <1>1 DEF OpenAreOwned, Entries
<1>2. ASSUME NEW a \in Admins, InitEnter(a) PROVE OpenAreOwned'
  <2>1. \A i \in DOMAIN databases' : databases'[i] = None BY <1>2 DEF InitEnter
  <2>2. Entries' = {} BY <2>1 DEF Entries
  <2>3. ~initFailed => Entries = {} BY <1>2 DEF InitEnter, Building
  <2> QED BY <1>2, <2>2, <2>3 DEF OpenAreOwned, InitEnter, ghostVars
<1>3. ASSUME NEW a \in Admins, OpenDatabase(a) PROVE OpenAreOwned'
  <2>1. fresh = None BY <1>3 DEF OpenDatabase, Building
  <2>2. fresh' # None
    <3>1. config \in Configs /\ slot \in Nat /\ round \in Nat
      BY <1>3 DEF OpenDatabase, ConfigSet, TypeOK
    <3>2. [cfg |-> config, index |-> slot, round |-> round] \in Handles BY <3>1 DEF Handles
    <3> QED BY <1>3, <3>2 DEF OpenDatabase
  <2>3. Entries' = Entries BY <1>3 DEF OpenDatabase, Entries
  <2> QED BY <1>3, <2>1, <2>2, <2>3 DEF OpenAreOwned, OpenDatabase, ghostVars
<1>4. ASSUME NEW a \in Admins, OpenFails(a) PROVE OpenAreOwned'
  <2>1. Entries' = Entries BY <1>4 DEF OpenFails, Entries
  <2> QED BY <1>4, <2>1 DEF OpenAreOwned, OpenFails
<1>5. ASSUME NEW a \in Admins, AddDatabase(a) PROVE OpenAreOwned'
  <2>1. /\ DOMAIN databases = 1 .. Len(databases) /\ slot + 1 \in DOMAIN databases
        /\ slot \in Nat /\ fresh # None
        /\ databases[slot + 1] = None
    BY <1>5, LenProperties DEF AddDatabase, Building, TypeOK
  <2>2. /\ DOMAIN databases' = DOMAIN databases
        /\ databases'[slot + 1] = fresh
        /\ \A i \in DOMAIN databases \ {slot + 1} : databases'[i] = databases[i]
    BY <1>5, <2>1 DEF AddDatabase
  <2>3. Entries' = Entries \cup {fresh} BY <2>1, <2>2 DEF Entries
  <2> QED BY <1>5, <2>1, <2>3 DEF OpenAreOwned, AddDatabase, ghostVars
<1>6. ASSUME NEW a \in Admins, TablesRefused(a) PROVE OpenAreOwned'
  BY <1>6 DEF OpenAreOwned, TablesRefused
<1>7. ASSUME NEW a \in Admins, Close(a) PROVE OpenAreOwned'
  <2>1. \A i \in DOMAIN databases' : databases'[i] = None BY <1>7 DEF Close
  <2>2. Entries' = {} /\ fresh = None /\ fresh' = None
    BY <1>7, <2>1 DEF Entries, Close, Building
  <2> QED BY <1>7, <2>2 DEF OpenAreOwned, Close
<1>8. ASSUME NEW p \in Clients, ClientStep(p) PROVE OpenAreOwned'
  BY <1>1, <1>8, ClientFrame DEF OthersKeep, managerVars
<1>9. ASSUME NEW a \in Admins, AdminStep(a) PROVE OpenAreOwned'
  BY <1>1, <1>2, <1>3, <1>4, <1>5, <1>6, <1>7, <1>9
  DEF AdminStep, InitCall, InitRejected, managerVars, ghostVars
<1>10. CASE UNCHANGED vars BY <1>1, <1>10 DEF vars, managerVars, ghostVars
<1> QED BY <1>8, <1>9, <1>10 DEF Next, Terminated

(* As long as no Init gave up half way, no connection is lost: Close finds *)
(* them all.                                                               *)
THEOREM ConnectionsOwned == Spec => []OpenAreOwned
<1>1. Init => OpenAreOwned BY DEF Init, OpenAreOwned, Entries
<1> QED BY <1>1, TypedInvariant, OwnedStep, PTL DEF Spec

-----------------------------------------------------------------------------
(* The lookups *)

LEMMA ClientCheckHolds ==
    ASSUME Typed, PublishedOpen, CheckHolds, NilOnlyAcrossClose,
           NEW p \in Clients, ClientStep(p)
    PROVE  CheckHolds' /\ NilOnlyAcrossClose'
<1>1. OthersKeep(p) BY ClientFrame DEF Typed
<1> DEFINE Mine == /\ pc[p] \in {"table", "index", "fetch"} /\ "close" \notin overlap[p] => initialized
                   /\ pc[p] # "done" => res[p].kind = "none"
                   /\ res[p].kind = "nil" \/ pc[p] = "panicked" => "close" \in overlap[p]
<1>2. Mine BY DEF CheckHolds, NilOnlyAcrossClose
<1>3. Mine'
  <2> USE <1>2 DEF Typed, TypeOK, Goto, Unaffected, managerVars, ghostVars
  <2>1. ASSUME NEW op \in KeyOps, NEW k \in Keys, LookupByKey(p, op, k)
        PROVE  Mine'
    BY <2>1 DEF LookupByKey, Begin
  <2>2. ASSUME NEW i \in 0 .. 1, LookupByIndex(p, i)
        PROVE  Mine'
    BY <2>2 DEF LookupByIndex, Begin
  <2>3. CASE IsInitialized(p)
    <3>1. pc[p] = "isInitialized" /\ UNCHANGED <<initialized, overlap>>
      BY <2>3 DEF IsInitialized
    <3>2. CASE Fail(p, "notInitialized") BY <3>1, <3>2, FailGoes
    <3>3. CASE pc' = [pc EXCEPT ![p] = "getConfig"] /\ UNCHANGED res BY <3>1, <3>3
    <3> QED BY <2>3, <3>2, <3>3 DEF IsInitialized
  <2>4. CASE GetConfig(p) BY <2>4, FailGoes DEF GetConfig
  <2>5. CASE CheckInitialized(p) BY <2>5, FailGoes DEF CheckInitialized, AfterCheck
  <2>6. CASE FindTable(p) BY SMTT(40), <2>6, FailGoes DEF FindTable
  <2>7. CASE ComputeIndex(p)
    <3>1. pc[p] = "index" /\ UNCHANGED <<initialized, overlap>>
      BY <2>7 DEF ComputeIndex
    <3>2. CASE Fail(p, "noShard") BY <3>1, <3>2, FailGoes
    <3>3. CASE pc' = [pc EXCEPT ![p] = "fetch"] /\ UNCHANGED res BY <3>1, <3>3
    <3> QED BY <2>7, <3>2, <3>3 DEF ComputeIndex
  <2>8. CASE Fetch(p)
    <3>1. UNCHANGED <<initialized, overlap>> BY <2>8 DEF Fetch
    <3>2. idx[p] \in 0 .. Len(databases) - 1 /\ initialized => databases[idx[p] + 1] # None
      <4>1. None \notin open BY ConstantsAssumption
      <4>2. DOMAIN databases = 1 .. Len(databases) BY LenProperties
      <4> QED BY <4>1, <4>2 DEF PublishedOpen
    <3>3. pc[p] = "fetch" BY <2>8 DEF Fetch
    <3>4. CASE Fail(p, "badIndex") BY <3>1, <3>3, <3>4, FailGoes
    <3>5. CASE /\ idx[p] \in 0 .. Len(databases) - 1 /\ databases[idx[p] + 1] = None
               /\ pc' = [pc EXCEPT ![p] = "panicked"] /\ UNCHANGED res
      BY <3>1, <3>2, <3>3, <3>5
    <3>6. CASE /\ idx[p] \in 0 .. Len(databases) - 1
               /\ res' = [res EXCEPT ![p] = [kind |-> IF databases[idx[p] + 1] = None THEN "nil" ELSE "db",
                                             db |-> databases[idx[p] + 1], table |-> plan[p]]]
               /\ pc' = [pc EXCEPT ![p] = "done"]
      BY <3>1, <3>2, <3>3, <3>6
    <3> QED BY <2>8, <3>4, <3>5, <3>6 DEF Fetch
  <2>9. CASE Return(p) BY <2>9 DEF Return, NoResult
  <2> QED
    BY <2>1, <2>2, <2>3, <2>4, <2>5, <2>6, <2>7, <2>8, <2>9 DEF ClientStep
<1>4. UNCHANGED initialized BY <1>1 DEF OthersKeep, managerVars
<1> QED BY <1>1, <1>3, <1>4 DEF OthersKeep, CheckHolds, NilOnlyAcrossClose

LEMMA AdminCheckHolds ==
    ASSUME Typed, CheckHolds, NilOnlyAcrossClose, NEW a \in Admins, AdminStep(a)
    PROVE  CheckHolds' /\ NilOnlyAcrossClose'
<1>1. ClientsKeep(a) BY AdminFrame DEF Typed
<1>2. \A p \in Clients : pc'[p] = pc[p] BY <1>1, ConstantsAssumption DEF ClientsKeep
<1>3. \A p \in Clients : pc[p] # "idle" => overlap[p] \subseteq overlap'[p]
  BY DEF AdminStep, InitCall, InitEnter, InitRejected, OpenDatabase, OpenFails, AddDatabase,
         TablesRefused, Close, Note, ghostVars
<1>4. \/ initialized => initialized'
      \/ \A p \in Clients : pc[p] # "idle" => "close" \in overlap'[p]
  BY DEF Typed, TypeOK, AdminStep, InitCall, InitEnter, InitRejected, OpenDatabase, OpenFails,
         AddDatabase, TablesRefused, Close, Note, managerVars
<1>5. UNCHANGED res BY <1>1 DEF ClientsKeep, clientVars
<1>6. \A p \in Clients : res[p].kind = "nil" => pc[p] = "done" BY DEF CheckHolds
<1> QED BY <1>2, <1>3, <1>4, <1>5, <1>6 DEF CheckHolds, NilOnlyAcrossClose

LEMMA CheckInvariant == Spec => [](CheckHolds /\ NilOnlyAcrossClose)
<1>1. Init => CheckHolds /\ NilOnlyAcrossClose
  BY DEF Init, CheckHolds, NilOnlyAcrossClose, NoResult
<1>2. Typed /\ PublishedOpen /\ CheckHolds /\ NilOnlyAcrossClose /\ [Next]_vars
          => CheckHolds' /\ NilOnlyAcrossClose'
  <2> SUFFICES ASSUME Typed, PublishedOpen, CheckHolds, NilOnlyAcrossClose, [Next]_vars
               PROVE  CheckHolds' /\ NilOnlyAcrossClose'
    OBVIOUS
  <2>1. ASSUME NEW a \in Admins, AdminStep(a) PROVE CheckHolds' /\ NilOnlyAcrossClose'
    BY <2>1, AdminCheckHolds
  <2>2. ASSUME NEW p \in Clients, ClientStep(p) PROVE CheckHolds' /\ NilOnlyAcrossClose'
    BY <2>2, ClientCheckHolds
  <2>3. CASE UNCHANGED vars
    BY <2>3 DEF CheckHolds, NilOnlyAcrossClose, vars, managerVars, clientVars, ghostVars
  <2> QED BY <2>1, <2>2, <2>3 DEF Next, Terminated
<1> QED BY <1>1, <1>2, TypedInvariant, ConnectionsPublished, PTL DEF Spec

(* A nil database without an error, and the panic of db.Table, need a      *)
(* Close in the middle of the call.                                        *)
THEOREM NilNeedsClose == Spec => []NilOnlyAcrossClose
BY CheckInvariant, PTL

-----------------------------------------------------------------------------
(* Routing by the configuration *)

LEMMA AdminComputed ==
    ASSUME Typed, CheckHolds, Computed, RoutedByConfig, NEW a \in Admins, AdminStep(a)
    PROVE  Computed' /\ RoutedByConfig'
<1>1. ClientsKeep(a) BY AdminFrame DEF Typed
<1>2. \A p \in Clients : pc'[p] = pc[p] BY <1>1, ConstantsAssumption DEF ClientsKeep
<1>3. UNCHANGED <<call, plan, idx, res>> BY <1>1 DEF ClientsKeep, clientVars
<1>4. \/ config' = config /\ \A p \in Clients : pc[p] # "idle" => overlap[p] \subseteq overlap'[p]
      \/ \A p \in Clients : pc[p] # "idle" => "init" \in overlap'[p]
  BY SMTT(40) DEF Typed, TypeOK, AdminStep, InitCall, InitEnter, InitRejected, OpenDatabase, OpenFails,
         AddDatabase, TablesRefused, Close, Note, managerVars, ghostVars
<1>5. Computed' BY <1>2, <1>3, <1>4 DEF Computed
<1>6. \A p \in Clients : res[p].kind = "db" => pc[p] # "idle" BY DEF CheckHolds
<1>7. RoutedByConfig' BY <1>2, <1>3, <1>4, <1>6 DEF RoutedByConfig
<1> QED BY <1>5, <1>7

(* The conjuncts of Computed and RoutedByConfig for one client. *)
ComputedFor(p) ==
    LET c == call[p]
        current == ~c.fallback /\ "init" \notin overlap[p]
    IN /\ current /\ pc[p] = "fetch" /\ c.op \in KeyOps
            => idx[p] = LongIndex(c.key, config.dbs)
       /\ current /\ pc[p] \in {"check", "table", "index", "fetch"} /\ c.op \in Sharded
            => plan[p] = LongIndex(c.key, config.tables)
       /\ c.fallback => /\ pc[p] \in {"check", "fetch", "done", "panicked"}
                        /\ idx[p] = 0 /\ plan[p] = Unsharded
       /\ pc[p] # "idle" => c.op # "none"
       /\ c.op \in KeyOps => c.key \in Keys
       /\ c.op = "GetDBByIndex" => pc[p] \in {"check", "fetch", "done"}

RoutedFor(p) ==
    LET key == call[p].key
        routed == res[p].kind = "db" /\ call[p].op \in KeyOps
    IN /\ routed /\ ~call[p].fallback /\ "init" \notin overlap[p]
            => /\ res[p].db.index = LongIndex(key, config.dbs)
               /\ call[p].op \in Sharded => res[p].table = LongIndex(key, config.tables)
       /\ routed /\ call[p].fallback => res[p].db.index = 0 /\ res[p].table = Unsharded

(* An error keeps what was computed: the fallback discards it. *)
LEMMA FailComputed ==
    ASSUME Typed, CheckHolds, NEW p \in Clients, ComputedFor(p),
           NEW why \in Kinds \ {"db"}, Fail(p, why), pc[p] \notin {"idle", "done"}, UNCHANGED config,
           UNCHANGED overlap
    PROVE  ComputedFor(p)' /\ RoutedFor(p)'
<1>1. "noDefault" # "db" OBVIOUS
<1>2. CASE pc'[p] = "check"
  <2>1. /\ call'[p].fallback /\ call'[p].op = call[p].op /\ call'[p].key = call[p].key
        /\ plan'[p] = Unsharded /\ idx'[p] = 0 /\ UNCHANGED res
        /\ call[p].op \in FallsBack
    BY <1>2, FailGoes DEF Typed
  <2>2. res[p].kind = "none" BY DEF CheckHolds
  <2> QED BY <1>2, <2>1, <2>2 DEF ComputedFor, RoutedFor, FallsBack
<1>3. CASE pc'[p] = "done"
  <2>1. /\ res'[p].kind \in {"noDefault", why} /\ UNCHANGED <<call, plan, idx>>
    BY <1>3, FailGoes DEF Typed
  <2> QED BY <1>3, <2>1 DEF ComputedFor, RoutedFor
<1> QED BY <1>2, <1>3, FailGoes DEF Typed

LEMMA ClientComputed ==
    ASSUME Typed, CheckHolds, Computed, RoutedByConfig, NEW p \in Clients, ClientStep(p)
    PROVE  Computed' /\ RoutedByConfig'
<1>1. OthersKeep(p) BY ClientFrame DEF Typed
<1>2. ComputedFor(p) BY DEF Computed, ComputedFor
<1>3. config' = config BY <1>1 DEF OthersKeep, managerVars
<1>4. /\ Kinds \ {"db"} = {"none", "nil", "notInitialized", "noTable", "noShard", "badIndex", "noDefault"}
  BY DEF Kinds
<1>5. pc[p] # "done" => res[p].kind = "none" BY DEF CheckHolds
<1>6. ComputedFor(p)' /\ RoutedFor(p)'
  <2> USE DEF Typed, TypeOK, Goto, Unaffected, ghostVars
  <2>1. ASSUME NEW op \in KeyOps, NEW k \in Keys, LookupByKey(p, op, k)
        PROVE  ComputedFor(p)' /\ RoutedFor(p)'
    <3>1. /\ call'[p] = [op |-> op, key |-> k, fallback |-> FALSE]
          /\ pc'[p] = IF op \in Sharded THEN "isInitialized" ELSE "check"
          /\ UNCHANGED res /\ pc[p] = "idle"
      BY <2>1 DEF LookupByKey, Begin
    <3>2. op # "none" /\ op # "GetDBByIndex" BY DEF KeyOps
    <3> QED BY <1>5, <3>1, <3>2 DEF ComputedFor, RoutedFor
  <2>2. ASSUME NEW i \in 0 .. 1, LookupByIndex(p, i)
        PROVE  ComputedFor(p)' /\ RoutedFor(p)'
    <3>1. /\ call'[p] = [op |-> "GetDBByIndex", key |-> 0, fallback |-> FALSE]
          /\ pc'[p] = "check" /\ UNCHANGED res /\ pc[p] = "idle"
      BY <2>2 DEF LookupByIndex, Begin
    <3> QED BY <1>5, <3>1 DEF ComputedFor, RoutedFor, KeyOps, Sharded
  <2>3. CASE IsInitialized(p)
    <3>1. pc[p] = "isInitialized" /\ UNCHANGED overlap BY <2>3 DEF IsInitialized
    <3>2. CASE Fail(p, "notInitialized")
      BY <1>2, <1>3, <1>4, <3>1, <3>2, FailComputed
    <3>3. CASE pc' = [pc EXCEPT ![p] = "getConfig"] /\ UNCHANGED <<call, plan, idx, res>>
      BY <1>2, <1>5, <3>1, <3>3 DEF ComputedFor, RoutedFor
    <3> QED BY <2>3, <3>2, <3>3 DEF IsInitialized
  <2>4. CASE GetConfig(p)
    <3>1. pc[p] = "getConfig" /\ UNCHANGED overlap BY <2>4 DEF GetConfig
    <3>2. CASE Fail(p, "noShard") BY <1>2, <1>3, <1>4, <3>1, <3>2, FailComputed
    <3>3. CASE /\ plan' = [plan EXCEPT ![p] = LongIndex(call[p].key, config.tables)]
               /\ pc' = [pc EXCEPT ![p] = "check"] /\ UNCHANGED <<call, idx, res>>
      BY <1>2, <1>3, <1>5, <3>1, <3>3 DEF ComputedFor, RoutedFor
    <3> QED BY <2>4, <3>2, <3>3 DEF GetConfig
  <2>5. CASE CheckInitialized(p)
    <3>1. pc[p] = "check" /\ UNCHANGED overlap BY <2>5 DEF CheckInitialized
    <3>2. CASE Fail(p, "notInitialized") BY <1>2, <1>3, <1>4, <3>1, <3>2, FailComputed
    <3>3. CASE /\ pc' = [pc EXCEPT ![p] = AfterCheck(call[p])]
               /\ UNCHANGED <<call, plan, idx, res>>
      <4>1. /\ pc'[p] \in {"fetch", "table", "index"}
            /\ pc'[p] = "fetch" <=> call[p].fallback \/ call[p].op = "GetDBByIndex"
        BY <3>3 DEF AfterCheck
      <4>2. "GetDBByIndex" \notin KeyOps \cup Sharded BY DEF KeyOps, Sharded
      <4>3. RoutedFor(p)' BY <1>5, <3>1, <3>3 DEF RoutedFor
      <4> QED BY <1>2, <1>3, <3>1, <3>3, <4>1, <4>2, <4>3 DEF ComputedFor
    <3> QED BY <2>5, <3>2, <3>3 DEF CheckInitialized
  <2>6. CASE FindTable(p)
    <3>1. pc[p] = "table" /\ UNCHANGED overlap BY <2>6 DEF FindTable
    <3>2. CASE Fail(p, "noTable") BY <1>2, <1>3, <1>4, <3>1, <3>2, FailComputed
    <3>3. CASE pc' = [pc EXCEPT ![p] = "index"] /\ UNCHANGED <<call, plan, idx, res>>
      BY <1>2, <1>3, <1>5, <3>1, <3>3 DEF ComputedFor, RoutedFor
    <3> QED BY <2>6, <3>2, <3>3 DEF FindTable
  <2>7. CASE ComputeIndex(p)
    <3>1. pc[p] = "index" /\ UNCHANGED overlap BY <2>7 DEF ComputeIndex
    <3>2. CASE Fail(p, "noShard") BY <1>2, <1>3, <1>4, <3>1, <3>2, FailComputed
    <3>3. CASE /\ idx' = [idx EXCEPT ![p] = LongIndex(call[p].key, config.dbs)]
               /\ pc' = [pc EXCEPT ![p] = "fetch"] /\ UNCHANGED <<call, plan, res>>
      BY <1>2, <1>3, <1>5, <3>1, <3>3 DEF ComputedFor, RoutedFor
    <3> QED BY <2>7, <3>2, <3>3 DEF ComputeIndex
  <2>8. CASE Fetch(p)
    <3>1. pc[p] = "fetch" /\ UNCHANGED overlap BY <2>8 DEF Fetch
    <3>2. CASE Fail(p, "badIndex") BY <1>2, <1>3, <1>4, <3>1, <3>2, FailComputed
    <3>3. CASE /\ pc' = [pc EXCEPT ![p] = "panicked"] /\ UNCHANGED <<call, plan, idx, res>>
               /\ call[p].op \in Sharded
      BY <1>2, <1>3, <1>5, <3>1, <3>3 DEF ComputedFor, RoutedFor, Sharded
    <3>4. CASE /\ idx[p] \in 0 .. Len(databases) - 1
               /\ res' = [res EXCEPT ![p] = [kind |-> IF databases[idx[p] + 1] = None THEN "nil" ELSE "db",
                                             db |-> databases[idx[p] + 1], table |-> plan[p]]]
               /\ pc' = [pc EXCEPT ![p] = "done"] /\ UNCHANGED <<call, plan, idx>>
      <4>1. databases[idx[p] + 1] # None => databases[idx[p] + 1].index = idx[p]
        <5>1. DOMAIN databases = 1 .. Len(databases) BY LenProperties
        <5> QED BY SMTT(40), <3>4, <5>1 DEF Building
      <4>2. ComputedFor(p)' BY <1>2, <1>3, <3>1, <3>4 DEF ComputedFor
      <4>3. res'[p].kind = "db" => res'[p].db.index = idx[p] /\ res'[p].table = plan[p]
        BY <3>4, <4>1
      <4>4. RoutedFor(p)' BY <1>2, <1>3, <3>1, <3>4, <4>3 DEF ComputedFor, RoutedFor
      <4> QED BY <4>2, <4>4
    <3> QED BY <2>8, <3>2, <3>3, <3>4 DEF Fetch
  <2>9. CASE Return(p)
    <3>1. pc'[p] = "idle" /\ call'[p] = NoCall /\ res'[p] = NoResult
      BY <2>9 DEF Return
    <3> QED BY <3>1 DEF ComputedFor, RoutedFor, NoCall, NoResult, KeyOps, Sharded
  <2> QED
    BY <2>1, <2>2, <2>3, <2>4, <2>5, <2>6, <2>7, <2>8, <2>9 DEF ClientStep
<1>7. Computed' BY <1>1, <1>3, <1>6 DEF OthersKeep, Computed, ComputedFor
<1>8. RoutedByConfig' BY <1>1, <1>3, <1>6 DEF OthersKeep, RoutedByConfig, RoutedFor
<1> QED BY <1>7, <1>8

(* A lookup that no Init disturbs is routed as the configuration says, for *)
(* every key, every number of databases and of tables; a fallback is whole.*)
THEOREM RoutingFollowsConfig == Spec => []RoutedByConfig
<1>1. Init => Computed /\ RoutedByConfig
  BY DEF Init, Computed, RoutedByConfig, NoCall, NoResult, KeyOps, Sharded
<1>2. Typed /\ CheckHolds /\ Computed /\ RoutedByConfig /\ [Next]_vars
          => Computed' /\ RoutedByConfig'
  <2> SUFFICES ASSUME Typed, CheckHolds, Computed, RoutedByConfig, [Next]_vars
               PROVE  Computed' /\ RoutedByConfig'
    OBVIOUS
  <2>1. ASSUME NEW a \in Admins, AdminStep(a) PROVE Computed' /\ RoutedByConfig'
    BY <2>1, AdminComputed
  <2>2. ASSUME NEW p \in Clients, ClientStep(p) PROVE Computed' /\ RoutedByConfig'
    BY <2>2, ClientComputed
  <2>3. CASE UNCHANGED vars
    BY <2>3 DEF Computed, RoutedByConfig, vars, managerVars, clientVars, ghostVars
  <2> QED BY <2>1, <2>2, <2>3 DEF Next, Terminated
<1> QED BY <1>1, <1>2, TypedInvariant, CheckInvariant, PTL DEF Spec

-----------------------------------------------------------------------------
(* The first Init *)

(* The conjuncts of FirstInit and IndexFitsFirstInit for one client. *)
FitsFor(p) ==
    /\ pc[p] \in {"table", "index", "fetch"} => databases # <<>>
    /\ inits <= 1 /\ pc[p] = "fetch" /\ ~call[p].fallback /\ call[p].op \in KeyOps
           => idx[p] \in 0 .. config.dbs - 1
    /\ res[p].kind = "badIndex" /\ call[p].op \in KeyOps => inits > 1

LEMMA DatabasesShape ==
    TypeOK => /\ Len(databases) \in Nat
              /\ DOMAIN databases = 1 .. Len(databases)
              /\ databases = <<>> <=> Len(databases) = 0
BY LenProperties, EmptySeq DEF TypeOK

(* A second Init is needed to change the configuration or the length of    *)
(* the slice once there is a slice.                                        *)
LEMMA AdminFirstInit ==
    ASSUME Typed, CheckHolds, FirstInit, IndexFitsFirstInit, NEW a \in Admins, AdminStep(a)
    PROVE  FirstInit' /\ IndexFitsFirstInit'
<1>1. ClientsKeep(a) BY AdminFrame DEF Typed
<1>2. \A p \in Clients : pc'[p] = pc[p] BY <1>1, ConstantsAssumption DEF ClientsKeep
<1>3. UNCHANGED <<call, plan, idx, res>> BY <1>1 DEF ClientsKeep, clientVars
<1>4. inits \in Nat /\ (inits' = inits \/ inits' = inits + 1)
  BY ConstantsAssumption
  DEF Typed, TypeOK, AdminStep, InitCall, InitEnter, InitRejected, OpenDatabase, OpenFails,
      AddDatabase, TablesRefused, Close, boundVars
<1>5. IndexFitsFirstInit'
  BY <1>2, <1>3, <1>4 DEF IndexFitsFirstInit
<1>6. FirstInit'
  <2> USE DEF FirstInit, Typed
  <2>1. ASSUME NEW c \in Configs, InitCall(a, c) PROVE FirstInit'
    <3>1. inits' = inits + 1 /\ databases' = databases
      BY <2>1 DEF InitCall
    <3>2. CASE inits = 0
      <4>1. /\ databases = <<>> /\ \A b \in Admins \ {a} : pc'[b] = "idle"
            /\ arg'[a] = config'
        BY <2>1, <3>2 DEF InitCall, Goto, TypeOK
      <4> QED BY <1>2, <1>4, <3>1, <3>2, <4>1
    <3>3. CASE inits # 0
      BY <1>2, <1>4, <3>1, <3>3
    <3> QED BY <3>2, <3>3
  <2>2. ASSUME UNCHANGED <<inits, config, databases>>,
               \A b \in Admins : pc'[b] # "idle" => pc[b] # "idle" /\ arg'[b] = arg[b],
               pc[a] # "idle"
        PROVE  FirstInit'
    BY <1>2, <1>3, <1>4, <2>2
  <2>3. CASE InitEnter(a)
    <3>1. arg[a] \in Configs /\ arg[a].dbs \in Nat \ {0}
      BY <2>3, ConstantsAssumption DEF InitEnter, ConfigSet
    <3>2. Len(databases') = arg[a].dbs /\ databases' # <<>>
      <4>1. databases' = [i \in 1 .. arg[a].dbs |-> None] BY <2>3 DEF InitEnter
      <4>2. Len(databases') = arg[a].dbs
        BY <3>1, <4>1, SliceOfNils
      <4> QED BY <3>1, <4>2, EmptySeq
    <3>3. inits # 0 /\ UNCHANGED <<inits, config, arg>>
      BY <2>3 DEF InitEnter
    <3>4. inits <= 1 => arg[a] = config
      BY <2>3 DEF InitEnter
    <3>5. \A b \in Admins : pc'[b] # "idle" => pc[b] # "idle"
      BY <2>3 DEF InitEnter, Goto, TypeOK
    <3> QED BY <1>2, <1>3, <1>4, <3>2, <3>3, <3>4, <3>5
  <2>4. CASE InitRejected(a)
    BY <2>2, <2>4 DEF InitRejected, Goto, TypeOK, managerVars, boundVars
  <2>5. CASE OpenDatabase(a)
    BY <2>2, <2>5 DEF OpenDatabase, Goto, TypeOK, boundVars
  <2>6. CASE OpenFails(a)
    BY <2>2, <2>6 DEF OpenFails, Goto, TypeOK, boundVars
  <2>7. CASE AddDatabase(a)
    <3>1. Len(databases') = Len(databases)
      BY <2>7, ExceptSeq, DatabasesShape DEF AddDatabase, Building, TypeOK
    <3>2. databases' # <<>>
      <4>1. Len(databases) # 0
        BY <2>7, DatabasesShape DEF AddDatabase, Building
      <4> QED BY <3>1, <4>1, EmptySeq
    <3>3. inits # 0 /\ UNCHANGED <<inits, config>> /\ databases # <<>>
      BY <2>7, DatabasesShape DEF AddDatabase, boundVars, Building
    <3>4. \A b \in Admins : pc'[b] # "idle" => pc[b] # "idle" /\ arg'[b] = arg[b]
      BY <2>7 DEF AddDatabase, Goto, TypeOK
    <3> QED BY <1>2, <1>3, <1>4, <3>1, <3>2, <3>3, <3>4
  <2>8. CASE TablesRefused(a)
    BY <2>2, <2>8 DEF TablesRefused, Goto, TypeOK, boundVars
  <2>9. CASE Close(a)
    <3>1. databases' = [i \in 1 .. Len(databases) |-> None]
      BY <2>9, DatabasesShape DEF Close
    <3>2. Len(databases') = Len(databases) /\ (databases' = <<>> <=> databases = <<>>)
      <4>1. /\ databases' \in Seq({None}) /\ Len(databases') = Len(databases)
        BY <3>1, DatabasesShape, SliceOfNils
      <4> QED BY <4>1, DatabasesShape, EmptySeq
    <3>3. UNCHANGED <<inits, config, arg, pc>>
      BY <2>9 DEF Close
    <3> QED BY <1>2, <1>3, <1>4, <3>2, <3>3
  <2> QED
    BY <2>1, <2>3, <2>4, <2>5, <2>6, <2>7, <2>8, <2>9 DEF AdminStep
<1> QED BY <1>5, <1>6

(* An error on the way leaves the lookup where no index is used, or at the *)
(* check with the index of the default database.                           *)
LEMMA FailFits ==
    ASSUME Typed, CheckHolds, NEW p \in Clients, FitsFor(p), NEW why \in Kinds \ {"badIndex"},
           Fail(p, why), UNCHANGED <<databases, config, inits>>,
           pc[p] # "done"
    PROVE  FitsFor(p)'
<1>1. res[p].kind = "none" BY DEF CheckHolds
<1>2. CASE pc'[p] = "check" /\ UNCHANGED res
  BY <1>1, <1>2 DEF FitsFor
<1>3. CASE pc'[p] = "done" /\ res'[p].kind \in {"noDefault", why}
  BY <1>3 DEF FitsFor
<1> QED BY <1>2, <1>3, FailGoes DEF Typed

LEMMA ClientFirstInit ==
    ASSUME Typed, PublishedOpen, CheckHolds, FirstInit, IndexFitsFirstInit,
           NEW p \in Clients, ClientStep(p)
    PROVE  FirstInit' /\ IndexFitsFirstInit'
<1>1. OthersKeep(p) BY ClientFrame DEF Typed
<1>2. UNCHANGED <<config, databases, inits, arg, initialized>>
  BY <1>1 DEF OthersKeep, managerVars, boundVars
<1>3. \A a \in Admins : pc'[a] = pc[a]
  BY <1>1, ConstantsAssumption DEF OthersKeep
<1>4. FitsFor(p) BY DEF FirstInit, IndexFitsFirstInit, FitsFor
<1>5. pc[p] # "done" => res[p].kind = "none" BY DEF CheckHolds
<1>6. initialized => databases # <<>> BY DEF PublishedOpen
<1>7. Kinds \ {"badIndex"} = {"none", "db", "nil", "notInitialized", "noTable", "noShard", "noDefault"}
  BY DEF Kinds
<1>8. FitsFor(p)'
  <2> USE DEF Typed, TypeOK, Goto
  <2>1. ASSUME NEW op \in KeyOps, NEW k \in Keys, LookupByKey(p, op, k)
        PROVE  FitsFor(p)'
    BY <1>5, <2>1 DEF LookupByKey, Begin, FitsFor
  <2>2. ASSUME NEW i \in 0 .. 1, LookupByIndex(p, i)
        PROVE  FitsFor(p)'
    BY <1>5, <2>2 DEF LookupByIndex, Begin, FitsFor
  <2>3. CASE IsInitialized(p)
    <3>1. CASE Fail(p, "notInitialized")
      BY <1>2, <1>4, <1>7, <2>3, <3>1, FailFits DEF IsInitialized
    <3>2. CASE pc' = [pc EXCEPT ![p] = "getConfig"] /\ UNCHANGED res
      BY <1>5, <2>3, <3>2 DEF IsInitialized, FitsFor
    <3> QED BY <2>3, <3>1, <3>2 DEF IsInitialized
  <2>4. CASE GetConfig(p)
    <3>1. CASE Fail(p, "noShard")
      BY <1>2, <1>4, <1>7, <2>4, <3>1, FailFits DEF GetConfig
    <3>2. CASE pc' = [pc EXCEPT ![p] = "check"] /\ UNCHANGED res
      BY <1>5, <2>4, <3>2 DEF GetConfig, FitsFor
    <3> QED BY <2>4, <3>1, <3>2 DEF GetConfig
  <2>5. CASE CheckInitialized(p)
    <3>1. CASE Fail(p, "notInitialized")
      BY <1>2, <1>4, <1>7, <2>5, <3>1, FailFits DEF CheckInitialized
    <3>2. CASE /\ initialized /\ pc' = [pc EXCEPT ![p] = AfterCheck(call[p])]
               /\ UNCHANGED <<call, res>>
      <4>1. pc'[p] = "fetch" => call[p].fallback \/ call[p].op = "GetDBByIndex"
        BY <3>2 DEF AfterCheck
      <4>2. "GetDBByIndex" \notin KeyOps BY DEF KeyOps
      <4> QED BY <1>2, <1>5, <1>6, <2>5, <3>2, <4>1, <4>2 DEF CheckInitialized, FitsFor
    <3> QED BY <2>5, <3>1, <3>2 DEF CheckInitialized
  <2>6. CASE FindTable(p)
    <3>1. CASE Fail(p, "noTable")
      BY <1>2, <1>4, <1>7, <2>6, <3>1, FailFits DEF FindTable
    <3>2. CASE pc' = [pc EXCEPT ![p] = "index"] /\ UNCHANGED res
      BY <1>2, <1>4, <1>5, <2>6, <3>2 DEF FindTable, FitsFor
    <3> QED BY <2>6, <3>1, <3>2 DEF FindTable
  <2>7. CASE ComputeIndex(p)
    <3>1. CASE Fail(p, "noShard")
      BY <1>2, <1>4, <1>7, <2>7, <3>1, FailFits DEF ComputeIndex
    <3>2. CASE /\ idx' = [idx EXCEPT ![p] = LongIndex(call[p].key, config.dbs)]
               /\ pc' = [pc EXCEPT ![p] = "fetch"] /\ UNCHANGED <<call, res>>
      <4>1. config \in Configs /\ call[p].key \in Int
        BY <2>7 DEF ComputeIndex, ConfigSet
      <4>2. idx'[p] \in 0 .. config.dbs - 1
        BY <3>2, <4>1, LongIndexInRange, ConstantsAssumption
      <4> QED BY <1>2, <1>4, <1>5, <2>7, <3>2, <4>2 DEF ComputeIndex, FitsFor
    <3> QED BY <2>7, <3>1, <3>2 DEF ComputeIndex
  <2>8. CASE Fetch(p)
    <3>1. pc[p] = "fetch" /\ databases # <<>>
      BY <1>4, <2>8 DEF Fetch, FitsFor
    <3>2. CASE Fail(p, "badIndex") /\ idx[p] \notin 0 .. Len(databases) - 1
      <4>1. CASE pc'[p] = "check" /\ UNCHANGED res
        BY <1>5, <3>1, <4>1 DEF FitsFor
      <4>2. CASE /\ pc'[p] = "done" /\ UNCHANGED <<call, idx>>
                 /\ res'[p].kind = IF call[p].fallback THEN "noDefault" ELSE "badIndex"
        <5>1. CASE call[p].fallback \/ call[p].op \notin KeyOps
          BY <4>2, <5>1 DEF FitsFor
        <5>2. CASE ~call[p].fallback /\ call[p].op \in KeyOps
          <6>1. inits <= 1 => Len(databases) = config.dbs
            BY <3>1 DEF FirstInit
          <6>2. ~(inits <= 1)
            BY <1>4, <3>1, <3>2, <5>2, <6>1 DEF FitsFor
          <6>3. inits > 1
            BY <6>2, ConstantsAssumption
          <6> QED BY <1>2, <4>2, <6>3 DEF FitsFor
        <5> QED BY <5>1, <5>2
      <4> QED BY <3>2, <4>1, <4>2, FailGoes
    <3>3. CASE pc' = [pc EXCEPT ![p] = "panicked"] /\ UNCHANGED res
      BY <1>5, <3>1, <3>3 DEF FitsFor
    <3>4. CASE /\ pc' = [pc EXCEPT ![p] = "done"]
               /\ res' = [res EXCEPT ![p] = [kind |-> IF databases[idx[p] + 1] = None THEN "nil" ELSE "db",
                                             db |-> databases[idx[p] + 1], table |-> plan[p]]]
      BY <3>4 DEF FitsFor
    <3> QED BY <2>8, <3>2, <3>3, <3>4 DEF Fetch
  <2>9. CASE Return(p)
    BY <2>9 DEF Return, FitsFor, NoResult
  <2> QED
    BY <2>1, <2>2, <2>3, <2>4, <2>5, <2>6, <2>7, <2>8, <2>9 DEF ClientStep
<1>9. FirstInit'
  BY <1>1, <1>2, <1>3, <1>8 DEF OthersKeep, FirstInit, FitsFor
<1>10. IndexFitsFirstInit'
  BY <1>1, <1>2, <1>8 DEF OthersKeep, IndexFitsFirstInit, FitsFor
<1> QED BY <1>9, <1>10

(* Until Init is called a second time no lookup by key computes an index   *)
(* outside of the slice, also while a Close runs: the configuration, the   *)
(* slice and every computed index stay of one mind.                        *)
THEOREM FirstInitFits == Spec => []IndexFitsFirstInit
<1>1. Init => FirstInit /\ IndexFitsFirstInit
  <2> SUFFICES ASSUME Init PROVE FirstInit /\ IndexFitsFirstInit
    OBVIOUS
  <2>1. \A p \in Clients : pc[p] = "idle" /\ res[p].kind = "none"
    BY DEF Init, NoResult
  <2>2. databases = <<>> /\ \A a \in Admins : pc[a] = "idle"
    BY DEF Init
  <2> QED BY <2>1, <2>2 DEF FirstInit, IndexFitsFirstInit
<1>2. Typed /\ PublishedOpen /\ CheckHolds /\ FirstInit /\ IndexFitsFirstInit /\ [Next]_vars
          => FirstInit' /\ IndexFitsFirstInit'
  <2> SUFFICES ASSUME Typed, PublishedOpen, CheckHolds, FirstInit, IndexFitsFirstInit,
                      [Next]_vars
               PROVE  FirstInit' /\ IndexFitsFirstInit'
    OBVIOUS
  <2>1. ASSUME NEW a \in Admins, AdminStep(a) PROVE FirstInit' /\ IndexFitsFirstInit'
    BY <2>1, AdminFirstInit
  <2>2. ASSUME NEW p \in Clients, ClientStep(p) PROVE FirstInit' /\ IndexFitsFirstInit'
    BY <2>2, ClientFirstInit
  <2>3. CASE UNCHANGED vars
    BY <2>3 DEF FirstInit, IndexFitsFirstInit, vars, managerVars, boundVars, clientVars
  <2> QED BY <2>1, <2>2, <2>3 DEF Next, Terminated
<1> QED BY <1>1, <1>2, TypedInvariant, ConnectionsPublished, CheckInvariant, PTL DEF Spec
=============================================================================
