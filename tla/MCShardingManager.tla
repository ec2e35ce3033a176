------------------------- MODULE MCShardingManager -------------------------
(***************************************************************************)
(* Instance of ShardingManager for TLC: two databases with three tables    *)
(* each, one database whose configuration does not list the table, and two *)
(* databases with a table of no shards, which the validation refuses.      *)
(***************************************************************************)
EXTENDS ShardingManager, TLC

MCConfigs == {[dbs |-> 2, listed |-> TRUE, tables |-> 3],
              [dbs |-> 1, listed |-> FALSE, tables |-> 0],
              [dbs |-> 2, listed |-> TRUE, tables |-> 0]}
MCKeys == {-5, 4, 7}
MCBadKeys == {7}

Symmetry == Permutations(Admins)
=============================================================================
