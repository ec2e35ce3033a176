---------------------------- MODULE ShardRouting ----------------------------
(***************************************************************************)
(* src/sharding/algorithms.go: from a sharding value to a shard index.     *)
(***************************************************************************)
EXTENDS Integers

(* Go's remainder, truncated towards zero, for a positive divisor. *)
GoRem(a, n) == IF a >= 0 THEN a % n ELSE -((-a) % n)

(* Mutant of LongIndex: the sign of the remainder is kept. *)
LongIndexSigned(id, n) == GoRem(id, n)

(* LongShardingAlgorithm.CalculateShardIndex, after the conversion of the  *)
(* sharding value to an int64.                                             *)
LongIndex(id, n) == LET r == GoRem(id, n) IN IF r < 0 THEN -r ELSE r
=============================================================================
