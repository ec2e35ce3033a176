------------------------------ MODULE Sharding -------------------------------
(***************************************************************************)
(* The sharding algorithms on strings and the shard calculator             *)
(* (algorithms.go, calculator.go); the loaders of the configuration        *)
(* (config.go), what the manager makes of it and what                      *)
(* CalculateShardForTable reports. A string is the sequence of its runes,  *)
(* a number is itself; an index of -1 stands for a panic. IntMax stands    *)
(* for 2^31 - 1, the largest int32.                                        *)
(***************************************************************************)
EXTENDS ShardRouting, Loops, FiniteSets, TLC

CONSTANTS IntMax,      \* the greatest value of a hash code
          Separator    \* the rune between the parts of a multi_string

ASSUME IntMaxAssumption == IntMax \in Nat /\ IntMax > 0

Wraps == 2 * (IntMax + 1)

(* The int32 that n is stored as. *)
Int32(n) == LET r == n % Wraps IN IF r > IntMax THEN r - Wraps ELSE r

stringHashCode(s) == Each(0, s, LAMBDA hash, c : Int32(hash * 31 + c))

(* Mutant: the sign bit is not cut off. *)
HashIndexSigned(hash, count) == LET n == Int32(count) IN IF n = 0 THEN -1 ELSE GoRem(hash, IF n < 0 THEN -n ELSE n)

(* (hashCode & 0x7FFFFFFF) % int32(shardCount): the sign bit is cut off,   *)
(* and the remainder has the sign of its dividend, which is positive.      *)
HashIndex(hash, count) ==
  LET n == Int32(count)
  IN  IF n = 0 THEN -1 ELSE (hash % (IntMax + 1)) % (IF n < 0 THEN -n ELSE n)
StringIndex(s, count) == HashIndex(stringHashCode(s), count)

(* The parts of a value: a string is one; of a map, given as the pairs in  *)
(* the order of the iteration, they are the values in the order of the     *)
(* keys, sorted by exchanges.                                              *)
SortKeys(pairs) ==
  For(pairs, 1, Len(pairs) - 1, LAMBDA t, i :
    For(t, i + 1, Len(pairs), LAMBDA u, j :
      IF u[i].key > u[j].key THEN [u EXCEPT ![i] = u[j], ![j] = u[i]] ELSE u))
MapParts(pairs) == LET sorted == SortKeys(pairs) IN [i \in DOMAIN pairs |-> sorted[i].value]
Join(parts) == For(<<>>, 1, Len(parts), LAMBDA s, i : s \o (IF i = 1 THEN <<>> ELSE <<Separator>>) \o parts[i])

(* No parts are an error. *)
MultiStringIndex(parts, count) ==
  IF parts = <<>> THEN [err |-> TRUE, index |-> 0] ELSE [err |-> FALSE, index |-> HashIndex(stringHashCode(Join(parts)), count)]

(* LongShardingAlgorithm on any value: numbers and strings of digits, the  *)
(* rest is refused.                                                        *)
LongValueIndex(v, count) ==
  IF v.kind \in {"number", "digits"} THEN [err |-> FALSE, index |-> LongIndex(v.id, count)]
  ELSE [err |-> TRUE, index |-> 0]

Algorithms == {"long", "string", "multi_string"}
GetShardingAlgorithm(type) == [err |-> type \notin Algorithms, algorithm |-> type]

(* A value v: kind, the number id, the runes text. *)
CalculateShardIndex(algorithm, v, count) ==
  CASE algorithm = "long"         -> LongValueIndex(v, count)
    [] algorithm = "string"       -> [err |-> FALSE, index |-> StringIndex(v.text, count)]
    [] algorithm = "multi_string" -> MultiStringIndex(<<v.text>>, count)

Failed == [err |-> TRUE, db |-> 0, table |-> 0]
CalculateShard(sc, v) ==
  LET db == CalculateShardIndex(sc.algorithm, v, sc.databaseCount)
      table == CalculateShardIndex(sc.algorithm, v, sc.tableCount)
  IN  IF db.err \/ table.err THEN Failed ELSE [err |-> FALSE, db |-> db.index, table |-> table.index]

(* A name is a sequence of parts, of which "{db_index}" is replaced by the *)
(* index wherever it stands, leftmost first, until none is left.           *)
Placeholder == "{db_index}"
RECURSIVE CalculateDatabaseName(_, _)
CalculateDatabaseName(template, db) ==
  LET at == {i \in DOMAIN template : template[i] = Placeholder}
      idx == CHOOSE i \in at : \A j \in at : i <= j
  IN  IF at = {} THEN template ELSE CalculateDatabaseName([template EXCEPT ![idx] = ToString(db)], db)
CalculateTableName(table, index) == <<table, ToString(index)>>

GetShardInfo(sc, table, template, v) ==
  LET s == CalculateShard(sc, v)
  IN  IF s.err THEN [err |-> TRUE]
      ELSE [err |-> FALSE, db |-> s.db, table |-> s.table, dbName |-> CalculateDatabaseName(template, s.db),
            tableName |-> CalculateTableName(table, s.table)]
CalculateShardLocation(type, dbs, tables, table, template, v) ==
  IF GetShardingAlgorithm(type).err THEN [err |-> TRUE]
  ELSE GetShardInfo([algorithm |-> type, databaseCount |-> dbs, tableCount |-> tables], table, template, v)

----------------------------------------------------------------------------
(* Algorithms.go:162: the hash is the polynomial in 31 of the runes,       *)
(* modulo the width; every index is within the count, whatever the hash's  *)
(* sign, unless the count is a multiple of 2^32, where it panics; and the  *)
(* iteration order of a map does not show in the index.                    *)
RECURSIVE Polynomial(_)
Polynomial(s) == IF s = <<>> THEN 0 ELSE Polynomial(SubSeq(s, 1, Len(s) - 1)) * 31 + s[Len(s)]

Shuffles(s) == {t \in [DOMAIN s -> {s[i] : i \in DOMAIN s}] : {t[i] : i \in DOMAIN t} = {s[i] : i \in DOMAIN s}}

HashInRange(s, count) ==
  /\ stringHashCode(s) = Int32(Polynomial(s))
  /\ IF count % Wraps = 0 THEN StringIndex(s, count) = -1 ELSE StringIndex(s, count) \in 0 .. count - 1
  /\ LET pairs == [i \in DOMAIN s |-> [key |-> i, value |-> <<s[i]>>]]
     IN  \A t \in Shuffles(pairs) : MapParts(t) = MapParts(pairs)

----------------------------------------------------------------------------
(* A text of the configuration that is not there is "" and a number 0, as  *)
(* viper has it; a name is a sequence of parts as above. The tables are a  *)
(* function from their names.                                              *)
Refused == [err |-> TRUE]

(* What both loaders demand of every table, and make of it. *)
TablesValid(tables) ==
  \A t \in DOMAIN tables : /\ tables[t].algorithm # "" /\ tables[t].shardingKey # "" /\ tables[t].tableCount > 0
                           /\ ~GetShardingAlgorithm(tables[t].algorithm).err
TableConfigs(tables) ==
  [t \in DOMAIN tables |-> [tableName |-> t, shardingKey |-> tables[t].shardingKey,
                            algorithm |-> GetShardingAlgorithm(tables[t].algorithm).algorithm,
                            tableCount |-> tables[t].tableCount]]
DatabaseCount(n) == IF n <= 0 THEN 1 ELSE n

HasPlaceholder(name) == \E i \in DOMAIN name : name[i] = Placeholder

(* The tables may not be missing; a name without a placeholder gets one    *)
(* when there are several databases.                                       *)
LoadConfigFromViperWithMysql(mysql, sharding) ==
  IF \/ ~mysql.set \/ mysql.host = "" \/ mysql.username = "" \/ mysql.database = <<>>
     \/ ~sharding.set \/ DOMAIN sharding.tables = {} \/ ~TablesValid(sharding.tables)
  THEN Refused
  ELSE LET count == DatabaseCount(sharding.databaseCount)
       IN  [err |-> FALSE, databaseCount |-> count,
            port |-> IF mysql.port = 0 THEN 3306 ELSE mysql.port,
            database |-> IF count > 1 /\ ~HasPlaceholder(mysql.database)
                         THEN mysql.database \o <<"_", Placeholder>> ELSE mysql.database,
            algorithm |-> "", tables |-> TableConfigs(sharding.tables)]

(* Here everything may be missing but the section. *)
LoadConfigFromViper(sharding) ==
  IF \/ ~sharding.set \/ ~TablesValid(sharding.tables)
     \/ sharding.algorithm # "" /\ GetShardingAlgorithm(sharding.algorithm).err
  THEN Refused
  ELSE [err |-> FALSE, databaseCount |-> DatabaseCount(sharding.databaseCount), port |-> sharding.port,
        database |-> sharding.database, algorithm |-> sharding.algorithm, tables |-> TableConfigs(sharding.tables)]

GetShardingKey(t, global) == IF t.shardingKey # "" THEN t.shardingKey ELSE global
GetTableCount(t, global) == IF t.tableCount > 0 THEN t.tableCount ELSE global
GetAlgorithm(t, global) == IF t.algorithm # "" THEN t.algorithm ELSE global

(* initDatabase: the tables it refuses, and the name of the database. *)
TablesRefused(c) == \E t \in DOMAIN c.tables : \/ c.tables[t].shardingKey = "" \/ c.tables[t].tableCount <= 0
                                               \/ c.tables[t].algorithm = ""
OpenedName(c, i) == IF c.database = <<>> THEN <<"nbgame_", ToString(i)>> ELSE CalculateDatabaseName(c.database, i)

(* The placeholder is replaced for several databases only. *)
CalculateShardForTable(c, table, v) ==
  IF table \notin DOMAIN c.tables THEN Refused
  ELSE LET t == c.tables[table]
           db == CalculateShardIndex(t.algorithm, v, c.databaseCount)
           index == CalculateShardIndex(t.algorithm, v, t.tableCount)
       IN  IF db.err \/ index.err THEN Refused
           ELSE [err |-> FALSE, db |-> db.index, table |-> index.index,
                 dbName |-> IF c.databaseCount > 1 THEN CalculateDatabaseName(c.database, db.index) ELSE c.database,
                 tableName |-> CalculateTableName(table, index.index)]

----------------------------------------------------------------------------
(* Config.go, manager.go, wrapper.go: of a loaded configuration the        *)
(* manager refuses no table, and each keeps its own settings whatever the  *)
(* global ones are; several databases have different names; the database   *)
(* reported for a value is the one opened; and the calculator gives the    *)
(* same places. Not claimed, because the code does otherwise than          *)
(* documented: different names for a template without placeholder that     *)
(* LoadConfigFromViper was given (sharding/README.md:47), the reported     *)
(* name for a placeholder of a single database (config_example.yaml:31) or *)
(* for no name at all, and that a table without settings takes the global  *)
(* ones (README_TABLE_CONFIG.md:56): the loaders refuse it.                *)
LoadedRoutes(c, values) ==
  ~c.err =>
    /\ ~TablesRefused(c)
    /\ \A t \in DOMAIN c.tables, count \in {0, 7}, algorithm \in Algorithms, key \in {"", "global"} :
         <<GetTableCount(c.tables[t], count), GetAlgorithm(c.tables[t], algorithm), GetShardingKey(c.tables[t], key)>> =
           <<c.tables[t].tableCount, c.tables[t].algorithm, c.tables[t].shardingKey>>
    /\ c.database = <<>> \/ HasPlaceholder(c.database) =>
         \A i, j \in 0 .. c.databaseCount - 1 : i # j => OpenedName(c, i) # OpenedName(c, j)
    /\ \A t \in DOMAIN c.tables, v \in values :
         LET r == CalculateShardForTable(c, t, v)
             s == CalculateShardLocation(c.tables[t].algorithm, c.databaseCount, c.tables[t].tableCount, t, c.database, v)
         IN  /\ r.err <=> c.tables[t].algorithm = "long" /\ v.kind = "text"
             /\ r.err = s.err
             /\ ~r.err =>
                  /\ r.db \in 0 .. c.databaseCount - 1 /\ <<r.db, r.table, r.tableName>> = <<s.db, s.table, s.tableName>>
                  /\ c.database # <<>> /\ (c.databaseCount = 1 => ~HasPlaceholder(c.database)) =>
                       r.dbName = OpenedName(c, r.db)

NamesApart(c) == ~c.err => \A i, j \in 0 .. c.databaseCount - 1 : i # j => OpenedName(c, i) # OpenedName(c, j)

(* Wrapper.go:166: both indexes are remainders of one value, so that of    *)
(* the tables of a database only those are ever used whose number agrees   *)
(* with the database's modulo every common divisor of the two counts.      *)
PairsUsed(dbs, tables) ==
  {<<LongIndex(k, dbs), LongIndex(k, tables)>> : k \in -(dbs * tables) .. dbs * tables} =
    {p \in (0 .. dbs - 1) \X (0 .. tables - 1) :
       \A g \in 1 .. dbs : dbs % g = 0 /\ tables % g = 0 => p[1] % g = p[2] % g}
=============================================================================
