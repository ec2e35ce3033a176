----------------------------- MODULE MCUtilities -----------------------------
(***************************************************************************)
(* Inputs for Utilities. Of the containers: keys 1 and 2 share a slot of a *)
(* map of two, key 3 has the other; in a map of four or more each has its  *)
(* own. The largest hash code stands for 2^31 - 1, half a byte of the      *)
(* codec is two bits, and the codec begins to skip after six misses        *)
(* instead of 128.                                                         *)
(***************************************************************************)
EXTENDS Utilities

MCOthers == {<<>>, <<1>>, <<2, 1>>, <<1, 2, 1>>}
MCMixed == [x \in {1, 2, 3, 11, 12} |-> CASE x = 1 -> 4 [] x = 2 -> 6 [] x = 3 -> 5 [] x = 11 -> 1 [] x = 12 -> 3]

SeqsOf(S, lengths) == UNION {[1 .. n -> S] : n \in lengths}

(* Keys 1 to 3, of which 1 and 2 have two elements each; and slices so     *)
(* long that ShellSort begins with a gap of four, with all keys different  *)
(* in the last ones.                                                       *)
MCSorted == SeqsOf({10, 11, 20, 21, 30}, 0 .. 4) \cup SeqsOf({10, 11, 20}, 6 .. 7) \cup
  {s \in [1 .. 6 -> {10, 20, 30, 40, 50, 60}] : \A i, j \in 1 .. 6 : s[i] = s[j] => i = j}
MCItems == SeqsOf({0, 1, 2}, 0 .. 4)
MCNumbers == -1 .. 5
MCContents == {<<1>>, <<2>>, <<2, 1, 2>>}

Lists == {<<>>, <<"all">>, <<"debug">>, <<"info", "warning">>, <<"error">>, <<"debug", "error">>, <<"fatal">>, <<"unknown">>}
MCLogConfigs == [level : {"absent", "debug", "info", "warn", "error", "panic", "fatal", "unknown"}, type : {"absent", "console", "file", "hybrid", "none"},
                 fileMode : {"single", "multi"}, consoleLevels : Lists, fileLevels : Lists]
MCRotations == [rotationTime : [ok : BOOLEAN, n : {-1, 0, 1, 24, 59, 90}, unit : {"d", "h", "m", "s"}],
                maxAge : [ok : BOOLEAN, n : {-1, 0, 3}], rotationCount : [ok : BOOLEAN, n : {-1, 0, 3}]]

MCTexts == SeqsOf({1, 2, 6}, 0 .. 3)
MCCounts == {1, 2, 3, 4, 6, 9, 16, 17}

Table(algorithm, key, count) == [algorithm |-> algorithm, shardingKey |-> key, tableCount |-> count]
TableChoices == {Table("long", "id", 4), Table("string", "name", 3), Table("multi_string", "name", 1),
                 Table("", "id", 2), Table("hash", "id", 2), Table("long", "", 2), Table("long", "id", 0)}
Missing == [set |-> FALSE]
Mysql(host, port, database) == [set |-> TRUE, host |-> host, port |-> port, username |-> "root", database |-> database]
MysqlSections == {Missing, Mysql("", 0, <<"game">>)} \cup
  {Mysql("localhost", port, d) : port \in {0, 3307}, d \in {<<>>, <<"game">>, <<"game_", Placeholder>>, <<Placeholder, "_", Placeholder>>}}
ShardingSections(algorithms, databases) == {Missing} \cup
  [set : {TRUE}, databaseCount : {-1, 0, 1, 2, 4}, algorithm : algorithms, port : {3306}, database : databases,
   tables : {<<>>} \cup [{"user"} -> TableChoices] \cup [{"user", "item"} -> {Table("long", "id", 4), Table("string", "name", 3), Table("", "id", 2)}]]

(* What a loader never looks at is not varied. *)
MCSections ==
  [template : {FALSE}, mysql : MysqlSections, sharding : ShardingSections({""}, {<<>>})] \cup
  [template : {TRUE}, mysql : {Missing}, sharding : ShardingSections({"", "long", "hash"}, {<<>>, <<"game">>, <<"game_", Placeholder>>})]
MCShardValues == [kind : {"number", "digits", "text"}, id : {-3, 0, 2}, text : {<<1, 2>>, <<6>>}]

(* A word, repeated, and a tail: what it takes to match, to overlap, to    *)
(* skip and to step back.                                                  *)
Again(w, n) == [i \in 1 .. n * Len(w) |-> w[((i - 1) % Len(w)) + 1]]
Ramp(n) == [i \in 1 .. n |-> (i * i) % 11]
MCBlocks == {Ramp(k) \o Again(w, n) \o Ramp(t) :
               w \in {<<1>>, <<1, 2>>, <<3, 1, 2>>, <<1, 2, 3, 5, 7>>}, n \in {0, 1, 4, 9}, k \in {0, 3, 17}, t \in {0, 6, 13}}
MCSlices == {<<>>, <<1>>, <<2>>, <<1, 2, 3>>, <<2, 2>>}
=============================================================================
