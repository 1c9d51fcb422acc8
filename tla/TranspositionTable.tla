-------------------------- MODULE TranspositionTable --------------------------
(***************************************************************************)
(* The hash table of the search (tt.cpp, tt.h) as its threads use it       *)
(* (search.cpp).  There is no lock: every field of an entry is a relaxed    *)
(* atomic, read and written by itself, so that each load and each store of  *)
(* a field is a step here.  A writer got from probe() is kept while the     *)
(* children of the node are searched, by when its entry may be another's.   *)
(*                                                                         *)
(* Data.  A position is a record: `lo' is the 16 bits of its key that an   *)
(* entry keeps, `hi' what chooses the cluster.  move16 is {} or {lo} for a *)
(* move of that position.  value16 (with eval16) remembers which result it *)
(* is the value of.  genBound8 is the packed byte.  What is ghost: `born'  *)
(* of an entry, `alone' and `whole' of an access, `undisturbed' of an      *)
(* answer, `raced' and `searches'.                                         *)
(* `work' bounds the probes and saves between two clearings.               *)
(***************************************************************************)
EXTENDS Integers, Sequences, FiniteSets

CONSTANTS
  Thread,          \* the search threads
  Key,             \* positions, records [lo, hi]
  HashRange,       \* hi is below it (2^64 in the code)
  ClusterSize,     \* entries of a cluster (3)
  ClusterCounts,   \* the sizes resize() is called with
  GenerationBits,  \* bits of genBound8 for the generation (5)
  Results,         \* what a node may save: [depth, pv, bound, move, value]
  MaxNesting,      \* bound: nodes of one thread that wait for a child
  MaxSearches,     \* bound: searches between two clearings
  MaxWork          \* bound: probes and saves between two clearings

DEPTH_NONE == -3
DEPTH_UNSEARCHED == -2
BOUND_EXACT == 3

ASSUME ThreadAssumption == IsFiniteSet(Thread) /\ Thread # {}
ASSUME KeyAssumption ==
  /\ HashRange \in Nat \ {0}
  /\ \A k \in Key : k = [lo |-> k.lo, hi |-> k.hi] /\ k.lo \in Nat /\ k.hi \in 0 .. HashRange - 1
ASSUME TableAssumption ==
  /\ ClusterSize \in Nat \ {0}
  /\ ClusterCounts \subseteq Nat \ {0}
  /\ GenerationBits \in Nat
  /\ 2 ^ GenerationBits \in Nat \ {0}
\* The assertions of TTEntry::save() on the depth.
ASSUME ResultAssumption ==
  /\ Results \subseteq [depth : Int, pv : BOOLEAN, bound : 0 .. 3, move : BOOLEAN,
                        value : {"none", "even", "decisive"}]
  /\ \A r \in Results : r.depth > DEPTH_NONE /\ r.depth - DEPTH_NONE < 256
ASSUME BoundAssumption == MaxNesting \in Nat /\ MaxSearches \in Nat /\ MaxWork \in Nat

VARIABLES
  table,        \* [cluster -> [entry -> fields]]
  generation8,
  clearing,     \* the shares of clear() not yet set to zero
  stack,        \* [thread -> nodes it is in, each with the writer it got]
  op,           \* [thread -> the access it is in the middle of]
  answer,       \* [thread -> what its last probe() found, until its next access]
  searches,     \* ghost: calls of new_search() since the last clearing
  raced,        \* ghost: the slots whose last writers overlapped
  work

vars == <<table, generation8, clearing, stack, op, answer, searches, raced, work>>

-----------------------------------------------------------------------------
(* The packed byte.                                                         *)

Generations == 2 ^ GenerationBits
b2i(b) == IF b THEN 1 ELSE 0
Pack(generation, bound, pv) == generation + Generations * bound + 4 * Generations * b2i(pv)
BoundOf(genBound8) == (genBound8 \div Generations) % 4
PvOf(genBound8) == genBound8 \div (4 * Generations) > 0

\* Mutant of RelativeAge: a difference that does not borrow.
AgeNoBorrow(generation, genBound8) == generation - (genBound8 % Generations)

\* The unsigned subtraction borrows, whatever the upper bits are.
RelativeAge(generation, genBound8) == (generation - genBound8) % Generations

-----------------------------------------------------------------------------
(* Entries and clusters.                                                    *)

NoResult == [depth |-> DEPTH_NONE, pv |-> FALSE, bound |-> 0, move |-> FALSE, value |-> "even"]

\* An entry that memset() has set to zero, and one in memory never written.
Zero == [key16 |-> 0, depth8 |-> 0, genBound8 |-> 0, move16 |-> {},
         value16 |-> [of |-> 0, result |-> NoResult], born |-> 0]
Junk == [Zero EXCEPT !.depth8 = 255]

Clusters == DOMAIN table
Entries == 0 .. ClusterSize - 1
Slots == Clusters \X Entries
Entry(s) == table[s[1]][s[2]]

\* mul_hi64(key, clusterCount)
FirstEntry(k) == <<(k.hi * Cardinality(Clusters)) \div HashRange, 0>>

\* Mutant of Share: the last thread gets no more than the others.
EvenShare(count, n, i) == (count \div n) * i .. (count \div n) * (i + 1) - 1

\* The clusters the i-th of n threads clears in a table of `count' clusters.
Share(count, n, i) ==
  LET stride == count \div n
      start == stride * i
      len == IF i + 1 # n THEN stride ELSE count - start
  IN  start .. start + len - 1

ThreadCount == Cardinality(Thread)
Shares == 0 .. ThreadCount - 1

-----------------------------------------------------------------------------
(* Accesses.                                                                *)

Idle == [pc |-> "idle", alone |-> TRUE, whole |-> FALSE, result |-> NoResult, data |-> Zero,
         todo |-> <<>>]
NoAnswer == [hit |-> FALSE, undisturbed |-> FALSE, data |-> Zero]

Top(t) == stack[t][Len(stack[t])]
Slot(t) == Top(t).slot
MyEntry(t) == Entry(Slot(t))

Searching(t) == stack[t] # <<>>
Quiet == \A t \in Thread : ~Searching(t)

Reads == {"occupied", "reading"}
Writes == {"storeMove", "testKey", "testDepth", "testAge", "storing", "ageDepth", "ageBound",
           "ageValue", "ageLoad", "lower"}

\* The threads other than t in the middle of an access to slot s.
Others(t, s, pcs) == {u \in Thread \ {t} : op[u].pc \in pcs /\ Slot(u) = s}

\* Thread t goes on with its access without storing anything.
Continue(t, next) ==
  /\ op' = [op EXCEPT ![t] = next]
  /\ UNCHANGED <<table, generation8, clearing, stack, answer, searches, raced, work>>

\* Thread t stores the fields of `new' and goes on with `next'.  Accesses of
\* others to the slot are no longer alone.  The slot has been raced for if a
\* writer is among them or among those that disturbed t; it is sound again
\* once a writer that nobody disturbed has replaced all of its fields.
Store(t, new, next) ==
  LET s == Slot(t)
      met == Others(t, s, Reads \cup Writes)
  IN  /\ table' = [table EXCEPT ![s[1]][s[2]] = new]
      /\ op' = [u \in Thread |-> IF u = t THEN next
                                 ELSE IF u \in met THEN [op[u] EXCEPT !.alone = FALSE]
                                 ELSE op[u]]
      /\ raced' = IF ~op[t].alone \/ Others(t, s, Writes) # {} THEN raced \cup {s}
                  ELSE IF op[t].pc = "storing" /\ next = Idle /\ op[t].whole THEN raced \ {s}
                  ELSE raced
      /\ UNCHANGED <<generation8, clearing, stack, answer, searches, work>>

-----------------------------------------------------------------------------
(* A node is entered with TranspositionTable::probe().                      *)

Visit(t) ==
  /\ clearing = {} /\ searches > 0
  /\ op[t].pc = "idle"
  /\ Len(stack[t]) < MaxNesting /\ work < MaxWork
  /\ \E k \in Key :
       LET parents == [i \in DOMAIN stack[t] |-> [stack[t][i] EXCEPT !.state = "past"]]
       IN  stack' = [stack EXCEPT ![t] =
                       Append(parents, [key |-> k, slot |-> FirstEntry(k), state |-> "probing"])]
  /\ op' = [op EXCEPT ![t].pc = "look"]
  /\ answer' = [answer EXCEPT ![t] = NoAnswer]
  /\ work' = work + 1
  /\ UNCHANGED <<table, generation8, clearing, searches, raced>>

\* Thread t's probe has ended with a writer to slot s.
Probed(t, s, found) ==
  /\ stack' = [stack EXCEPT ![t][Len(stack[t])].slot = s,
                            ![t][Len(stack[t])].state = IF found.hit THEN "hit" ELSE "miss"]
  /\ op' = [op EXCEPT ![t] = Idle]
  /\ answer' = [answer EXCEPT ![t] = found]
  /\ UNCHANGED <<table, generation8, clearing, searches, raced, work>>

\* tte[i].key16 == key16: the entry is read, field by field, if it is occupied.
LookMatch(t) ==
  /\ op[t].pc = "look"
  /\ MyEntry(t).key16 = Top(t).key.lo
  /\ Continue(t, [op[t] EXCEPT !.pc = "occupied", !.data.key16 = Top(t).key.lo,
                               !.alone = Others(t, Slot(t), Writes) = {}])

LookOn(t) ==
  /\ op[t].pc = "look"
  /\ MyEntry(t).key16 # Top(t).key.lo
  /\ IF Slot(t)[2] + 1 \in Entries
     THEN /\ stack' = [stack EXCEPT ![t][Len(stack[t])].slot[2] = @ + 1]
          /\ UNCHANGED op
     ELSE /\ op' = [op EXCEPT ![t].pc = "replace"]
          /\ UNCHANGED stack
  /\ UNCHANGED <<table, generation8, clearing, answer, searches, raced, work>>

IsOccupied(t) ==
  /\ op[t].pc = "occupied"
  /\ IF MyEntry(t).depth8 # 0
     THEN Continue(t, [op[t] EXCEPT !.pc = "reading",
                                    !.todo = <<"move16", "value16", "depth8", "genBound8">>])
     ELSE Probed(t, Slot(t), NoAnswer)

Read(t) ==
  /\ op[t].pc = "reading"
  /\ LET f == Head(op[t].todo)
         data == [op[t].data EXCEPT ![f] = MyEntry(t)[f]]
     IN  IF Tail(op[t].todo) # <<>>
         THEN Continue(t, [op[t] EXCEPT !.data = data, !.todo = Tail(@)])
         ELSE Probed(t, Slot(t), [hit |-> TRUE, data |-> data,
                                  undisturbed |-> op[t].alone /\ Slot(t) \notin raced])

\* The value of an entry is its depth minus 8 times its age; the first of the
\* least valuable ones is replaced.  While another thread writes into the
\* cluster the comparisons may mix old and new, and choose any entry.
Worth(e) == e.depth8 - 8 * RelativeAge(generation8, e.genBound8)

Replace(t) ==
  /\ op[t].pc = "replace"
  /\ LET c == Slot(t)[1]
         worth == [i \in Entries |-> Worth(table[c][i])]
     IN  \E i \in Entries :
           /\ \/ \A u \in Thread \ {t}, j \in Entries : Others(t, <<c, j>>, Writes) = {}
                 /\ worth[i] <= worth[j] /\ (j < i => worth[i] < worth[j])
              \/ \E j \in Entries : Others(t, <<c, j>>, Writes) # {}
           /\ Probed(t, <<c, i>>, NoAnswer)

-----------------------------------------------------------------------------
(* TTWriter::write(), that is TTEntry::save(), and TTWriter::penalize().    *)

Begin(t, access) ==
  /\ op[t].pc = "idle" /\ Searching(t)
  /\ op' = [op EXCEPT ![t] = access]
  /\ answer' = [answer EXCEPT ![t] = NoAnswer]
  /\ stack' = [stack EXCEPT ![t][Len(stack[t])].state = "past"]
  /\ UNCHANGED <<table, generation8, clearing, searches, raced>>

\* A static evaluation is saved after a miss, before anything else.
Write(t) ==
  /\ work < MaxWork
  /\ \E r \in Results :
       /\ Begin(t, [Idle EXCEPT !.pc = "testMove", !.result = r])
       /\ r.depth = DEPTH_UNSEARCHED => Top(t).state = "miss"
  /\ work' = work + 1

\* After a hit, before the moves of the node are searched.
Penalize(t) ==
  /\ Begin(t, [Idle EXCEPT !.pc = "penalize"])
  /\ Top(t).state = "hit"
  /\ UNCHANGED work

\* if (m || u16(k) != key16) move16 = m;
TestMove(t) ==
  /\ op[t].pc = "testMove"
  /\ Continue(t, [op[t] EXCEPT
       !.pc = IF op[t].result.move \/ MyEntry(t).key16 # Top(t).key.lo
              THEN "storeMove" ELSE "testKey"])

StoreMove(t) ==
  /\ op[t].pc = "storeMove"
  /\ Store(t, [MyEntry(t) EXCEPT !.move16 = IF op[t].result.move THEN {Top(t).key.lo} ELSE {}],
              [op[t] EXCEPT !.pc = "testKey", !.whole = TRUE])

Overwrite(t) ==
  [op[t] EXCEPT !.pc = "storing", !.todo = <<"key16", "depth8", "genBound8", "value16">>]

\* Mutant of TestKey: without the comparison of the keys.
TestBoundOnly(t) ==
  /\ op[t].pc = "testKey"
  /\ Continue(t, IF op[t].result.bound = BOUND_EXACT
                 THEN Overwrite(t) ELSE [op[t] EXCEPT !.pc = "testDepth"])

TestKey(t) ==
  /\ op[t].pc = "testKey"
  /\ Continue(t, IF op[t].result.bound = BOUND_EXACT \/ MyEntry(t).key16 # Top(t).key.lo
                 THEN Overwrite(t) ELSE [op[t] EXCEPT !.pc = "testDepth"])

TestDepth(t) ==
  /\ op[t].pc = "testDepth"
  /\ LET r == op[t].result
     IN  Continue(t, IF r.depth - DEPTH_NONE + 2 * b2i(r.pv) > MyEntry(t).depth8 - 4
                     THEN Overwrite(t) ELSE [op[t] EXCEPT !.pc = "testAge"])

TestAge(t) ==
  /\ op[t].pc = "testAge"
  /\ Continue(t, IF RelativeAge(generation8, MyEntry(t).genBound8) # 0
                 THEN Overwrite(t) ELSE [op[t] EXCEPT !.pc = "ageDepth"])

\* The fields in the order save() stores them.
StoreField(t) ==
  /\ op[t].pc = "storing"
  /\ LET r == op[t].result
         new == [MyEntry(t) EXCEPT
                   !.key16 = Top(t).key.lo,
                   !.depth8 = r.depth - DEPTH_NONE,
                   !.genBound8 = Pack(generation8, r.bound, r.pv),
                   !.value16 = [of |-> Top(t).key.lo, result |-> r]]
         f == Head(op[t].todo)
     IN  Store(t, [MyEntry(t) EXCEPT ![f] = new[f],
                                     !.born = IF f = "genBound8" THEN searches ELSE @],
                  IF Tail(op[t].todo) = <<>> THEN Idle ELSE [op[t] EXCEPT !.todo = Tail(@)])

\* Secondary ageing: deep enough, not exact, and a mate score.
AgeDepth(t) ==
  /\ op[t].pc = "ageDepth"
  /\ Continue(t, IF MyEntry(t).depth8 + DEPTH_NONE >= 5
                 THEN [op[t] EXCEPT !.pc = "ageBound"] ELSE Idle)

AgeBound(t) ==
  /\ op[t].pc = "ageBound"
  /\ Continue(t, IF BoundOf(MyEntry(t).genBound8) # BOUND_EXACT
                 THEN [op[t] EXCEPT !.pc = "ageValue"] ELSE Idle)

AgeValue(t) ==
  /\ op[t].pc = "ageValue"
  /\ Continue(t, IF MyEntry(t).value16.result.value = "decisive"
                 THEN [op[t] EXCEPT !.pc = "ageLoad"] ELSE Idle)

\* depth8 = std::max(int(depth8) - 1, 0): a load, then a store.
LoadDepth(t) ==
  /\ op[t].pc \in {"ageLoad", "penalize"}
  /\ Continue(t, [op[t] EXCEPT !.pc = "lower", !.data.depth8 = MyEntry(t).depth8])

\* Mutant of Lowered: the byte wraps around.
LoweredByte(depth8) == (depth8 - 1) % 256

Lowered(depth8) == IF depth8 > 0 THEN depth8 - 1 ELSE 0

LowerDepth(t) ==
  /\ op[t].pc = "lower"
  /\ Store(t, [MyEntry(t) EXCEPT !.depth8 = Lowered(op[t].data.depth8)], Idle)

\* The node returns to its parent; a node may return without writing.
Leave(t) ==
  /\ op[t].pc = "idle"
  /\ Searching(t)
  /\ stack' = [stack EXCEPT ![t] = SubSeq(@, 1, Len(@) - 1)]
  /\ answer' = [answer EXCEPT ![t] = NoAnswer]
  /\ UNCHANGED <<table, generation8, clearing, op, searches, raced, work>>

-----------------------------------------------------------------------------
(* Between searches.                                                        *)

NewSearch ==
  /\ Quiet /\ clearing = {} /\ searches < MaxSearches
  /\ generation8' = (generation8 + 1) % Generations
  /\ searches' = searches + 1
  /\ UNCHANGED <<table, clearing, stack, op, answer, raced, work>>

\* clear() gives each thread its share and waits for all of them.
Clear ==
  /\ clearing' = Shares
  /\ generation8' = 0
  /\ searches' = 0 /\ raced' = {} /\ work' = 0
  /\ UNCHANGED <<stack, op, answer>>

NewGame == Quiet /\ clearing = {} /\ Clear /\ UNCHANGED table

\* resize() gets memory it knows nothing about, and clears it.
Resize ==
  /\ Quiet /\ clearing = {}
  /\ \E n \in ClusterCounts : table' = [c \in 0 .. n - 1 |-> [i \in Entries |-> Junk]]
  /\ Clear

ClearShare(i) ==
  /\ i \in clearing
  /\ LET mine == Share(Cardinality(Clusters), ThreadCount, i)
     IN  table' = [c \in Clusters |-> IF c \in mine THEN [j \in Entries |-> Zero] ELSE table[c]]
  /\ clearing' = clearing \ {i}
  /\ UNCHANGED <<generation8, stack, op, answer, searches, raced, work>>

-----------------------------------------------------------------------------
\* The constructor of the engine has called resize().
Init ==
  /\ \E n \in ClusterCounts : table = [c \in 0 .. n - 1 |-> [i \in Entries |-> Junk]]
  /\ generation8 = 0
  /\ clearing = Shares
  /\ stack = [t \in Thread |-> <<>>]
  /\ op = [t \in Thread |-> Idle]
  /\ answer = [t \in Thread |-> NoAnswer]
  /\ searches = 0 /\ raced = {} /\ work = 0

Probe(t) == LookMatch(t) \/ LookOn(t) \/ IsOccupied(t) \/ Read(t) \/ Replace(t)

Save(t) ==
  \/ TestMove(t) \/ StoreMove(t) \/ TestKey(t) \/ TestDepth(t) \/ TestAge(t) \/ StoreField(t)
  \/ AgeDepth(t) \/ AgeBound(t) \/ AgeValue(t) \/ LoadDepth(t) \/ LowerDepth(t)

Next ==
  \/ \E t \in Thread : Visit(t) \/ Probe(t) \/ Write(t) \/ Penalize(t) \/ Save(t) \/ Leave(t)
  \/ NewSearch \/ NewGame \/ Resize
  \/ \E i \in clearing : ClearShare(i)

Spec == Init /\ [][Next]_vars

-----------------------------------------------------------------------------
(* Properties.                                                              *)

Lo == {k.lo : k \in Key}

Fields == [key16 : Lo \cup {0}, depth8 : 0 .. 255, genBound8 : 0 .. 8 * Generations - 1,
           move16 : SUBSET Lo,
           value16 : [of : Lo \cup {0}, result : Results \cup {NoResult}],
           born : 0 .. MaxSearches]

Nodes == [key : Key, slot : Slots, state : {"probing", "hit", "miss", "past"}]

Access == [pc : {"idle", "look", "occupied", "reading", "replace", "testMove", "storeMove",
                 "testKey", "testDepth", "testAge", "storing", "ageDepth", "ageBound",
                 "ageValue", "ageLoad", "penalize", "lower"},
           alone : BOOLEAN, whole : BOOLEAN, result : Results \cup {NoResult}, data : Fields,
           todo : Seq({"key16", "depth8", "genBound8", "move16", "value16"})]

\* Every field keeps to its width: the depth is a byte, and the generation
\* never reaches into the bound and pv bits of genBound8.
TypeOK ==
  /\ \E n \in ClusterCounts : Clusters = 0 .. n - 1
  /\ table \in [Clusters -> [Entries -> Fields]]
  /\ generation8 \in 0 .. Generations - 1
  /\ clearing \subseteq Shares
  /\ stack \in [Thread -> Seq(Nodes)]
  /\ op \in [Thread -> Access]
  /\ answer \in [Thread -> [hit : BOOLEAN, undisturbed : BOOLEAN, data : Fields]]
  /\ searches \in 0 .. MaxSearches
  /\ raced \subseteq Slots
  /\ work \in 0 .. MaxWork

\* However the threads of a search race, no entry claims a depth deeper than
\* any that was saved: penalize() and the ageing of save(), which lower a
\* depth byte they have read before, never make it wrap around.
DepthsWereSaved ==
  clearing = {} =>
    \A s \in Slots : Entry(s).depth8 # 0 =>
      \E r \in Results : Entry(s).depth8 <= r.depth - DEPTH_NONE

\* What one entry says is one result: of the position whose key it has, not
\* deeper than it was searched, with its bound, its pv flag, and its own move.
Consistent(e) ==
  /\ e.value16.of = e.key16
  /\ e.move16 \subseteq {e.key16}
  /\ e.depth8 <= e.value16.result.depth - DEPTH_NONE
  /\ BoundOf(e.genBound8) = e.value16.result.bound
  /\ PvOf(e.genBound8) = e.value16.result.pv

\* probe() warns that its copy may be inconsistent because of races.  That is
\* the only way: a hit that no store disturbed, on an entry whose last full
\* replacement no other writer overlapped, is consistent, although the writers
\* of nested nodes come late and to entries that others have taken over.
OnlyRacesTear ==
  \A t \in Thread : answer[t].hit /\ answer[t].undisturbed => Consistent(answer[t].data)

\* The age of an entry is the number of searches since it was saved, also when
\* the generation has wrapped around and whatever the bound and pv bits are.
AgesAreTrue ==
  clearing = {} =>
    \A s \in Slots : RelativeAge(generation8, Entry(s).genBound8)
                        = (searches - Entry(s).born) % Generations

\* When clear() returns, its threads have set every cluster to zero, whatever
\* the size of the table, also in memory fresh from resize().
NothingSurvivesClear ==
  clearing = {} /\ searches = 0 => \A s \in Slots : Entry(s) = Zero

=============================================================================
