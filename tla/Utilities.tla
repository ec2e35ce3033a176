------------------------------ MODULE Utilities ------------------------------
(***************************************************************************)
(* The parts of the repository that run in one goroutine: one of them, the *)
(* object obj, with want, what it should come to, and the clock now.       *)
(* obj.type tells which part it is. The containers, the iterators, the     *)
(* combinators and the memory of IndexOf go through their calls; the parts *)
(* that only compute are functions of their input, which nothing changes.  *)
(***************************************************************************)
EXTENDS Containers, DataPool, Basics

CONSTANTS ToSort,                       \* slices to sort and to search
          ItemSlices,                   \* slices for the slice functions
          Numbers,                      \* their indexes and sizes
          Texts, Counts,                \* strings and shard counts
          Sections, ShardValues,        \* configurations of the sharding, and values
          Blocks,                       \* inputs of the block codec
          mlMask, incompressible, hashTableSize, MaxInputSize,
          Slices, MaxSteps

SR == INSTANCE Sorting
SO == INSTANCE SliceOps
SM == INSTANCE Streams
MO == INSTANCE MapOps
LZ == INSTANCE LZ4Block
IT == INSTANCE Iterators

Inputs ==
  \/ \E s \in ToSort : obj = [type |-> "Sort", s |-> s]
  \/ \E s \in ItemSlices : obj = [type |-> "Slice", s |-> s]
  \/ \E s, t, u \in {i \in ItemSlices : Len(i) <= 2} : obj = [type |-> "Slices", s |-> s, t |-> t, u |-> u]
  \/ \E s \in Texts, n \in Counts : obj = [type |-> "Text", s |-> s, count |-> n]
  \/ \E c \in Sections : obj = [type |-> "Sections", template |-> c.template, mysql |-> c.mysql, sharding |-> c.sharding]
  \/ \E src \in Blocks : obj = [type |-> "Block", src |-> src]

(* Only the containers tell whether they are trusted, only the combinators *)
(* read the clock.                                                         *)
UtilitiesInit ==
  \/ ContainersInit /\ now = 1
  \/ BasicsInit /\ trusted = TRUE
  \/ (IT!Init \/ (Inputs /\ want = 0)) /\ now = 1 /\ trusted = TRUE

UtilitiesNext ==
  \/ ContainersNext /\ UNCHANGED now
  \/ BasicsNext /\ UNCHANGED trusted
  \/ IT!Next /\ UNCHANGED <<now, trusted>>

UtilitiesSpec == UtilitiesInit /\ [][UtilitiesNext]_<<obj, want, now, trusted>>

(* Sort.go, search.go: the sorts order every slice and lose nothing, the   *)
(* searches find what is there.                                            *)
SortsAndSearches == Is("Sort") => SR!SortsAll(obj.s) /\ \A x \in SR!Near(obj.s) : SR!SearchesFind(obj.s, x)

(* Slice.go, stream.go, map.go: the functions on slices, streams and maps  *)
(* agree with one another and with the operations on sets; and Compose is  *)
(* Pipeline turned around.                                                 *)
SlicesAgree ==
  /\ Is("Slice") =>
       /\ \A pred \in SUBSET SO!ItemsOf(obj.s) : SO!DividesBy(obj.s, pred) /\ SM!StreamsLikeSlices(obj.s, pred)
       /\ SO!OrdersBy(obj.s, [x \in SO!ItemsOf(obj.s) |-> x % 2])
       /\ \A n \in Numbers, t \in {<<>>, <<7>>, <<8, 7>>} : SO!CutsAndMends(obj.s, n, t)
       /\ \A n, m \in Numbers : SM!CutsLikeRange(obj.s, n, m)
  /\ Is("Slices") => SO!SetsOf(obj.s, obj.t, obj.u) /\ MO!MapsAsSets(obj.s, obj.t, obj.u)
  /\ Is("Text") => CO!ComposeIsPipeline(<<[x \in 0 .. 9 |-> (x + 3) % 10], [x \in 0 .. 9 |-> (2 * x) % 10], [x \in 0 .. 9 |-> 9 - x]>>, Len(obj.s))

(* From the configuration to the shard: every loaded configuration can be  *)
(* served, what is reported is what is opened, and the data pool's lookups *)
(* agree with the manager's.                                               *)
ShardsRoute ==
  /\ Is("Text") => HashInRange(obj.s, obj.count)
  /\ Is("Sections") =>
       LET c == InitShardingWithConfig(obj.template, obj.mysql, obj.sharding)
       IN  /\ LoadedRoutes(c, ShardValues) /\ PoolRoutes(c, ShardValues)
           /\ ~obj.template => NamesApart(c)
           /\ ~c.err => \A t \in DOMAIN c.tables : PairsUsed(c.databaseCount, c.tables[t].tableCount)

(* What lz4 encodes it decodes, and a block cut short shows.               *)
BlocksRoundTrip == Is("Block") => LZ!RoundTrips(obj.src) /\ LZ!CutShort(obj.src)

(* Iterators give what is left, in its order, directly and through a       *)
(* channel.                                                                *)
ItemsLeft == IT!GivesWhatIsLeft /\ IT!ChannelGivesAll
=============================================================================
