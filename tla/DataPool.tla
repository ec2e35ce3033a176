------------------------------ MODULE DataPool ------------------------------
(***************************************************************************)
(* static.ShardingDataPool (sharding_data_pool.go): which loader it takes, *)
(* and what its lookups make of the manager's answers. The manager sm is   *)
(* as the last Init or Close left it: config, the number open of databases *)
(* in its slice (of an earlier Init, when a later one was refused), and    *)
(* whether it is initialized. A pool whose own Init failed is not          *)
(* attached: it has no manager.                                            *)
(***************************************************************************)
EXTENDS Sharding

NoDB == -1        \* nil, or an empty gorm.DB
Panicked == -2    \* a nil manager dereferenced

(* template: sharding.database_template.host is set. What the pool itself  *)
(* demands of the sections the loaders demand as well.                     *)
InitShardingWithAutoConfig(mysql, sharding) == LoadConfigFromViperWithMysql(mysql, sharding)
InitShardingWithConfig(template, mysql, sharding) ==
  IF template THEN LoadConfigFromViper(sharding) ELSE InitShardingWithAutoConfig(mysql, sharding)

----------------------------------------------------------------------------
(* The manager's lookups, without another goroutine in between.            *)
Error == [err |-> TRUE, db |-> NoDB]
GetDBByIndex(sm, i) == IF sm.initialized /\ i \in 0 .. sm.open - 1 THEN [err |-> FALSE, db |-> i] ELSE Error
Routed(sm, algorithm, v) ==
  LET r == CalculateShardIndex(algorithm, v, sm.config.databaseCount)
  IN  IF r.err THEN Error ELSE GetDBByIndex(sm, r.index)
GetDB(sm, v) == Routed(sm, "long", v)
GetDBForTable(sm, table, v) ==
  IF table \in DOMAIN sm.config.tables THEN Routed(sm, sm.config.tables[table].algorithm, v) ELSE Error
GetShardedDB(sm, table, v) ==
  LET info == CalculateShardForTable(sm.config, table, v)
      r == GetDBForTable(sm, table, v)
  IN  IF ~sm.initialized \/ info.err \/ r.err THEN Error ELSE [err |-> FALSE, db |-> r.db, name |-> info.tableName]

(* wrapper.go: the default database with the plain name. *)
MustGetShardedDB(sm, table, v) ==
  LET r == GetShardedDB(sm, table, v)
  IN  IF r.err THEN [db |-> GetDBByIndex(sm, 0).db, name |-> <<table>>] ELSE [db |-> r.db, name |-> r.name]

(* The pool's: database 0 whatever the error, nil when there is none.      *)
OrDefault(pool, r) ==
  IF ~pool.attached THEN Panicked ELSE IF r.err THEN GetDBByIndex(pool.sm, 0).db ELSE r.db
PoolGetDB(pool, v) == OrDefault(pool, GetDB(pool.sm, v))
PoolGetDBForTable(pool, table, v) == OrDefault(pool, GetDBForTable(pool.sm, table, v))
PoolGetShardedDB(pool, table, v) ==
  LET r == GetShardedDB(pool.sm, table, v)
  IN  IF r.err THEN [db |-> OrDefault(pool, r), name |-> <<table>>] ELSE [db |-> r.db, name |-> r.name]

----------------------------------------------------------------------------
(* Sharding_data_pool.go:163-252: whatever configuration the manager has   *)
(* and however many databases are open, the two ways to a table's database *)
(* agree, and with the package's own; GetDB's default algorithm agrees for *)
(* the tables that use it; a sharded name is only given with the database  *)
(* that the calculator reports for it, a plain one only with database 0;   *)
(* with all databases open only a value without an index and a table that  *)
(* is not listed lose their shard; and a pool without a manager still      *)
(* finds what another pool opened, and panics only where it falls back.    *)
PoolRoutes(c, values) ==
  ~c.err =>
    \A open \in {0, 1, c.databaseCount}, table \in DOMAIN c.tables \cup {"unlisted"}, v \in values :
      LET sm == [initialized |-> open > 0, config |-> c, open |-> open]
          pool == [attached |-> TRUE, sm |-> sm]
      IN  \A got \in {PoolGetShardedDB(pool, table, v)}, lone \in {PoolGetShardedDB([pool EXCEPT !.attached = FALSE], table, v)},
             info \in {CalculateShardForTable(c, table, v)} :
          /\ got.db = PoolGetDBForTable(pool, table, v) /\ got = MustGetShardedDB(sm, table, v)
          /\ table \in DOMAIN c.tables /\ c.tables[table].algorithm = "long" => got.db = PoolGetDB(pool, v)
          /\ got.db = NoDB <=> open = 0
          /\ got.db # NoDB =>
               IF got.name = <<table>> THEN got.db = 0
               ELSE ~info.err /\ got.db = info.db /\ got.name = info.tableName
          /\ open = c.databaseCount => (got.name = <<table>> <=> info.err)
          /\ lone = got \/ (lone.db = Panicked /\ got.name = <<table>>)
=============================================================================
