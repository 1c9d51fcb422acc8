--------------------------- MODULE SharedDataProofs ---------------------------
(***************************************************************************)
(* The data that is shared: the transposition table by the threads of an   *)
(* engine, without a lock, and the network by the engines of a machine.    *)
(***************************************************************************)
EXTENDS TranspositionTable, SharedMemory, TLAPS, FiniteSetTheorems

-----------------------------------------------------------------------------
(***************************************************************************)
(* For any number of threads, entries, clusters, generations and results:  *)
(* clear() zeroes the whole table, no entry ever claims a depth that was   *)
(* not saved, and ages survive the wrap-around of the generation.          *)
(*                                                                         *)
(* DepthsWereSaved is not inductive.  Memory fresh from resize() holds any *)
(* depth until its share has been cleared, so that the invariant follows   *)
(* the shares (SharesLeft) and needs that the shares cover the table       *)
(* (SharesCover) and that nobody looks at it before that (FreshIsQuiet).   *)
(* What penalize() and the ageing store is a depth they have read before   *)
(* (OpSound).  Ages compare remainders: that of the generation with that   *)
(* of the count of the searches (GenerationCounts), and that of the byte   *)
(* of an entry with that of the search it was saved in (TrueAge).          *)
(*                                                                         *)
(* OnlyRacesTear speaks of a finished copy.  Its invariant, RaceInv, says  *)
(* what each access on its way may rely on while no other store has met it:*)
(* a writer knows which fields are already those of its result (Knows), a  *)
(* reader that those it has copied are still those of the entry (Copies),  *)
(* and an entry that is not whole and not raced for has a writer who is    *)
(* about to replace all of it (Owes).                                      *)
(***************************************************************************)
\* What is true of the depth and of the generation of an entry.
Saved(depth8) == depth8 = 0 \/ \E r \in Results : depth8 <= r.depth - DEPTH_NONE
TrueAge(e) == e.genBound8 % Generations = e.born % Generations
Sound(e) == Saved(e.depth8) /\ TrueAge(e)

\* A thread is in the middle of an access only inside a node.
InNode == \A t \in Thread : op[t].pc # "idle" => Searching(t)

\* Nobody is in a node before the first search after a clearing has begun.
FreshIsQuiet == (clearing # {} => searches = 0) /\ (searches = 0 => Quiet)

\* What an access has still to do, and what it is going to store.
SoundAccess(o) ==
  /\ o.pc \in {"reading", "storing"} => o.todo # <<>>
  /\ o.pc \in {"testMove", "storeMove", "testKey", "testDepth", "testAge", "storing"} =>
       o.result \in Results
  /\ o.pc = "lower" => Saved(o.data.depth8)
OpSound == \A t \in Thread : SoundAccess(op[t])

\* The clusters in nobody's share any more have been cleared.
Cleared(c) == \A i \in clearing : c \notin Share(Cardinality(Clusters), ThreadCount, i)
SharesLeft ==
  \A c \in Clusters : Cleared(c) =>
    /\ \A j \in Entries : Sound(table[c][j])
    /\ searches = 0 => \A j \in Entries : table[c][j] = Zero

\* The generation counts the searches in its bits.
GenerationCounts == generation8 = searches % Generations

IInv == TypeOK /\ InNode /\ FreshIsQuiet /\ OpSound /\ SharesLeft /\ GenerationCounts

-----------------------------------------------------------------------------
(* The division of the table.                                              *)

\* The quotient and the remainder of whole numbers.
LEMMA DivFacts ==
  ASSUME NEW a \in Nat, NEW b \in Nat \ {0}
  PROVE  /\ a \div b \in Nat
         /\ b * (a \div b) <= a
         /\ a < b * (a \div b) + b
         /\ a % b \in 0 .. b - 1
BY SMT

\* Products grow with a factor.
LEMMA MulMono ==
  ASSUME NEW a \in Nat, NEW b \in Nat, NEW c \in Nat, a <= b
  PROVE  c * a <= c * b
BY SMT

LEMMA MulMonoStrict ==
  ASSUME NEW a \in Nat, NEW b \in Nat, NEW c \in Nat, a + 1 <= b
  PROVE  c * a + c <= c * b
BY SMT

\* A number below r, scaled to n, stays below n: first_entry() finds a cluster.
LEMMA Scaled ==
  ASSUME NEW h \in Nat, NEW n \in Nat \ {0}, NEW r \in Nat \ {0}, h < r
  PROVE  (h * n) \div r \in 0 .. n - 1
<1>1. h * n \in Nat BY SMT
<1>2. h * n + n <= r * n BY SMT
<1>3. PICK q \in Nat : q = (h * n) \div r BY <1>1, DivFacts
<1>4. r * q <= h * n BY <1>1, <1>3, DivFacts
<1>5. ~(n <= q)
  <2>1. SUFFICES ASSUME n <= q PROVE FALSE OBVIOUS
  <2>2. r * n <= r * q BY <2>1, <1>3, MulMono
  <2> QED BY <1>1, <1>2, <1>4, <2>2, <1>3, SMT
<1> QED BY <1>3, <1>5

\* Every cluster is in somebody's share.
LEMMA SharesCover ==
  ASSUME NEW count \in Nat, NEW n \in Nat \ {0}, NEW c \in 0 .. count - 1
  PROVE  \E i \in 0 .. n - 1 : c \in Share(count, n, i)
<1> DEFINE stride == count \div n
<1>1. stride \in Nat BY DivFacts
<1>2. CASE c < stride * (n - 1)
  <2>1. stride # 0 BY <1>1, <1>2, SMT
  <2> DEFINE i == c \div stride
  <2>2. i \in Nat /\ stride * i <= c /\ c < stride * i + stride
    <3> HIDE DEF stride
    <3>1. stride \in Nat \ {0} /\ c \in Nat BY <2>1, <1>1
    <3> QED BY <3>1, DivFacts
  <2>3. i < n - 1
    <3>1. SUFFICES ASSUME n - 1 <= i PROVE FALSE BY <2>2
    <3>2. stride * (n - 1) <= stride * i BY <1>1, <2>2, <3>1, MulMono
    <3> QED BY <1>1, <1>2, <2>2, <3>2, SMT
  <2>4. c \in Share(count, n, i)
    <3>1. stride * i \in Nat BY <1>1, <2>2, SMT
    <3>. HIDE DEF stride, i
    <3> QED BY <1>1, <2>2, <2>3, <3>1 DEF Share, stride
  <2> QED BY <2>2, <2>3, <2>4
<1>3. CASE stride * (n - 1) <= c
  <2>1. stride * (n - 1) \in Nat BY <1>1, SMT
  <2>2. c \in Share(count, n, n - 1)
    <3>1. (n - 1) + 1 = n OBVIOUS
    <3>2. Share(count, n, n - 1)
            = stride * (n - 1) .. stride * (n - 1) + (count - stride * (n - 1)) - 1
      BY <3>1 DEF Share
    <3> HIDE DEF stride
    <3> QED BY <1>1, <1>3, <2>1, <3>2
  <2> QED BY <2>2
<1>4. stride * (n - 1) \in Int BY <1>1, SMT
<1> QED BY <1>2, <1>3, <1>4

\* No cluster is in the shares of two threads.
LEMMA SharesDisjoint ==
  ASSUME NEW count \in Nat, NEW n \in Nat \ {0}, NEW i \in 0 .. n - 1, NEW j \in 0 .. n - 1, i < j
  PROVE  Share(count, n, i) \cap Share(count, n, j) = {}
<1> DEFINE stride == count \div n
<1>1. stride \in Nat BY DivFacts
<1>2. stride * i + stride <= stride * j BY <1>1, MulMonoStrict
<1>3. stride * i \in Nat /\ stride * j \in Nat BY <1>1, SMT
<1> HIDE DEF stride
<1>4. \A c \in Share(count, n, i) : c < stride * i + stride
  BY <1>1, <1>3 DEF Share, stride
<1>5. \A c \in Share(count, n, j) : stride * j <= c
  BY <1>1, <1>3 DEF Share, stride
<1>6. \A c \in Share(count, n, i) : c \in Int
  BY <1>1, <1>3 DEF Share, stride
<1> QED BY <1>1, <1>2, <1>3, <1>4, <1>5, <1>6

-----------------------------------------------------------------------------
(* Remainders.                                                             *)

\* The quotient and the remainder of a number that may be negative.
LEMMA DivInt ==
  ASSUME NEW a \in Int, NEW g \in Nat \ {0}
  PROVE  /\ a \div g \in Int
         /\ a % g \in 0 .. g - 1
         /\ a = g * (a \div g) + (a % g)
BY SMT

\* What is left of a number beyond a multiple of g, if less than g, is its
\* remainder.
LEMMA ModUnique ==
  ASSUME NEW a \in Int, NEW g \in Nat \ {0}, NEW q \in Int, NEW r \in 0 .. g - 1, a = g * q + r
  PROVE  a % g = r
<1> DEFINE p == a \div g
           m == a % g
<1>1. p \in Int /\ m \in 0 .. g - 1 /\ a = g * p + m BY DivInt
<1> HIDE DEF p, m
<1>2. g * p \in Int /\ g * q \in Int BY <1>1, SMT
<1>3. CASE q + 1 <= p
  <2>1. g * p = g * (p - q) + g * q BY <1>1, SMT
  <2>2. g * (p - q) >= g BY <1>1, <1>3, SMT
  <2> QED BY <1>1, <1>2, <2>1, <2>2
<1>4. CASE p + 1 <= q
  <2>1. g * q = g * (q - p) + g * p BY <1>1, SMT
  <2>2. g * (q - p) >= g BY <1>1, <1>4, SMT
  <2> QED BY <1>1, <1>2, <2>1, <2>2
<1>5. CASE p = q BY <1>1, <1>2, <1>5 DEF m
<1> QED BY <1>1, <1>3, <1>4, <1>5

\* A difference has the remainder of the difference of the remainders.
LEMMA ModMinus ==
  ASSUME NEW a \in Int, NEW c \in Int, NEW g \in Nat \ {0}
  PROVE  (a - c) % g = ((a % g) - (c % g)) % g
<1> DEFINE m == a % g
           k == c % g
           r == (m - k) % g
<1>1. PICK p \in Int : a = g * p + m BY DivInt
<1>2. PICK o \in Int : c = g * o + k BY DivInt
<1>3. m \in Int /\ k \in Int BY DivInt
<1>4. m - k \in Int BY <1>3
<1>5. PICK q \in Int : m - k = g * q + r BY <1>4, DivInt
<1>6. r \in 0 .. g - 1 BY <1>4, DivInt
<1> HIDE DEF m, k, r
<1>7. g * (p - o + q) = g * p - g * o + g * q
      /\ g * p \in Int /\ g * o \in Int /\ g * q \in Int
  BY SMT
<1>8. a - c = g * (p - o + q) + r BY <1>1, <1>2, <1>3, <1>5, <1>6, <1>7
<1>9. p - o + q \in Int /\ a - c \in Int OBVIOUS
<1>10. (a - c) % g = r BY <1>6, <1>8, <1>9, ModUnique
<1> QED BY <1>10 DEF m, k, r

\* A remainder is its own remainder.
LEMMA ModTwice ==
  ASSUME NEW a \in Int, NEW g \in Nat \ {0}
  PROVE  (a % g) % g = a % g
<1> DEFINE m == a % g
<1>1. m \in 0 .. g - 1 BY DivInt
<1> HIDE DEF m
<1>2. m = g * 0 + m /\ m \in Int BY <1>1
<1>3. m % g = m BY <1>1, <1>2, ModUnique
<1> QED BY <1>3 DEF m

\* Counting up commutes with the remainder.
LEMMA ModSuccessor ==
  ASSUME NEW a \in Int, NEW g \in Nat \ {0}
  PROVE  ((a % g) + 1) % g = (a + 1) % g
<1> DEFINE m == a % g
           r == (m + 1) % g
<1>1. PICK p \in Int : a = g * p + m BY DivInt
<1>2. m \in 0 .. g - 1 BY DivInt
<1>3. m + 1 \in Int BY <1>2
<1>4. PICK q \in Int : m + 1 = g * q + r BY <1>3, DivInt
<1>5. r \in 0 .. g - 1 BY <1>3, DivInt
<1> HIDE DEF m, r
<1>6. g * (p + q) = g * p + g * q /\ g * p \in Int /\ g * q \in Int BY SMT
<1>7. a + 1 = g * (p + q) + r BY <1>1, <1>2, <1>4, <1>5, <1>6
<1>8. p + q \in Int /\ a + 1 \in Int OBVIOUS
<1>9. (a + 1) % g = r BY <1>5, <1>7, <1>8, ModUnique
<1> QED BY <1>9 DEF m, r

-----------------------------------------------------------------------------
(* Types.                                                                  *)

\* What the assumptions on the constants say of the sizes.
LEMMA Sizes ==
  /\ ThreadCount \in Nat \ {0}
  /\ Generations \in Nat \ {0}
  /\ HashRange \in Nat \ {0}
  /\ \A n \in Nat : Cardinality(0 .. n - 1) = n
<1>1. ThreadCount \in Nat \ {0}
  BY ThreadAssumption, FS_CardinalityType, FS_EmptySet DEF ThreadCount
<1>2. \A n \in Nat : Cardinality(0 .. n - 1) = n
  <2> TAKE n \in Nat
  <2>1. Cardinality(0 .. n - 1) = IF 0 > n - 1 THEN 0 ELSE (n - 1) - 0 + 1
    BY FS_Interval
  <2> QED BY <2>1
<1> QED BY <1>1, <1>2, TableAssumption, KeyAssumption DEF Generations

\* The clusters are numbered from zero.
LEMMA ClusterCount ==
  ASSUME TypeOK
  PROVE  /\ Cardinality(Clusters) \in ClusterCounts
         /\ Cardinality(Clusters) \in Nat \ {0}
         /\ Clusters = 0 .. Cardinality(Clusters) - 1
BY Sizes, TableAssumption DEF TypeOK

\* The constants of the module are of their types.
LEMMA ZeroType == Zero \in Fields /\ Junk \in Fields /\ Idle \in Access /\ NoAnswer.data \in Fields
<1>1. 0 \in 0 .. 8 * Generations - 1 BY Sizes
<1>2. Zero \in Fields
  BY <1>1, BoundAssumption DEF Zero, Fields, NoResult
<1>3. Junk \in Fields BY <1>2 DEF Junk, Fields
<1>4. Idle \in Access BY <1>2 DEF Idle, Access
<1> QED BY <1>2, <1>3, <1>4 DEF NoAnswer

\* first_entry() points into the table.
LEMMA FirstEntryType ==
  ASSUME TypeOK, NEW k \in Key
  PROVE  FirstEntry(k) \in Slots
<1>1. k.hi \in Nat /\ k.hi < HashRange BY KeyAssumption
<1>2. (k.hi * Cardinality(Clusters)) \div HashRange \in 0 .. Cardinality(Clusters) - 1
  BY <1>1, Scaled, Sizes, ClusterCount
<1>3. 0 \in Entries BY TableAssumption DEF Entries
<1> QED BY <1>2, <1>3, ClusterCount DEF FirstEntry, Slots

\* The node a thread is in, and the entry its writer points to, exist.
LEMMA TopType ==
  ASSUME TypeOK, NEW t \in Thread, Searching(t)
  PROVE  /\ Len(stack[t]) \in DOMAIN stack[t]
         /\ Top(t) \in Nodes
         /\ Slot(t) \in Slots
         /\ Slot(t)[1] \in Clusters /\ Slot(t)[2] \in Entries
         /\ Top(t).key.lo \in Lo
         /\ MyEntry(t) \in Fields
<1>1. stack[t] \in Seq(Nodes) /\ stack[t] # <<>> BY DEF TypeOK, Searching
<1>2. Len(stack[t]) \in DOMAIN stack[t] /\ Top(t) \in Nodes BY <1>1 DEF Top
<1>3. Slot(t) \in Slots /\ Top(t).key.lo \in Lo BY <1>2 DEF Slot, Nodes, Lo
<1>4. Slot(t)[1] \in Clusters /\ Slot(t)[2] \in Entries BY <1>3 DEF Slots
<1>5. MyEntry(t) \in Fields BY <1>4 DEF MyEntry, Entry, TypeOK
<1> QED BY <1>2, <1>3, <1>4, <1>5

\* A change to the top of a stack.
LEMMA TopChanged ==
  ASSUME NEW s \in Seq(Nodes), s # <<>>, NEW x \in Nodes
  PROVE  /\ [s EXCEPT ![Len(s)] = x] \in Seq(Nodes)
         /\ [s EXCEPT ![Len(s)] = x] # <<>>
         /\ Len([s EXCEPT ![Len(s)] = x]) = Len(s)
OBVIOUS

-----------------------------------------------------------------------------
(* The kinds of steps.                                                     *)

Answers == [hit : BOOLEAN, undisturbed : BOOLEAN, data : Fields]

\* While a thread is in a node nothing is being cleared.
LEMMA InSearch ==
  ASSUME IInv, NEW t \in Thread, Searching(t)
  PROVE  searches # 0 /\ clearing = {}
BY DEF IInv, FreshIsQuiet, Quiet

\* A step that stores nothing keeps IInv if it leaves its thread with a sound
\* access.
LEMMA ContinueStep ==
  ASSUME IInv, NEW t \in Thread, Searching(t), NEW next \in Access, SoundAccess(next),
         Continue(t, next)
  PROVE  IInv'
<1>1. TypeOK'
  <2>1. op' \in [Thread -> Access] BY DEF IInv, TypeOK, Continue
  <2>2. Clusters' = Clusters /\ Slots' = Slots /\ Nodes' = Nodes
    BY DEF Continue, Clusters, Slots, Nodes
  <2> QED BY <2>1, <2>2 DEF IInv, TypeOK, Continue
<1>2. InNode' /\ FreshIsQuiet'
  BY DEF IInv, TypeOK, Continue, InNode, FreshIsQuiet, Quiet, Searching
<1>3. OpSound'
  BY DEF IInv, TypeOK, Continue, OpSound
<1>4. SharesLeft' /\ GenerationCounts'
  BY DEF IInv, Continue, SharesLeft, Cleared, Clusters, GenerationCounts
<1> QED BY <1>1, <1>2, <1>3, <1>4 DEF IInv

\* A store keeps IInv if what it stores is sound.
LEMMA StoreStep ==
  ASSUME IInv, NEW t \in Thread, Searching(t), NEW new \in Fields, Sound(new),
         NEW next \in Access, SoundAccess(next), Store(t, new, next)
  PROVE  IInv'
<1> DEFINE s == Slot(t)
<1>1. s \in Slots /\ s[1] \in Clusters /\ s[2] \in Entries BY TopType DEF IInv
<1>2. table' = [table EXCEPT ![s[1]][s[2]] = new] /\ Clusters' = Clusters
  BY DEF Store, Clusters
<1>3. op' \in [Thread -> Access] /\ OpSound' /\ (\A u \in Thread : op'[u].pc # "idle" =>
        u = t \/ op[u].pc # "idle")
  <2>1. \A u \in Thread : \/ op'[u] = next /\ u = t
                       \/ op'[u] = op[u]
                       \/ op'[u] = [op[u] EXCEPT !.alone = FALSE]
    BY DEF Store
  <2>2. \A o \in Access : /\ [o EXCEPT !.alone = FALSE] \in Access
                          /\ SoundAccess(o) => SoundAccess([o EXCEPT !.alone = FALSE])
                          /\ [o EXCEPT !.alone = FALSE].pc = o.pc
    BY DEF Access, SoundAccess
  <2>3. op \in [Thread -> Access] /\ OpSound BY DEF IInv, TypeOK
  <2>4. \A u \in Thread : /\ op'[u] \in Access /\ SoundAccess(op'[u])
                          /\ op'[u].pc # "idle" => u = t \/ op[u].pc # "idle"
    <3> TAKE u \in Thread
    <3>1. op[u] \in Access /\ SoundAccess(op[u]) BY <2>3 DEF OpSound
    <3> QED BY <2>1, <2>2, <3>1
  <2>5. op' \in [Thread -> Access] BY <2>4 DEF Store
  <2>6. OpSound' BY <2>4 DEF OpSound
  <2> QED BY <2>4, <2>5, <2>6
<1>4. TypeOK'
  <2>1. table' \in [Clusters -> [Entries -> Fields]] BY <1>1, <1>2 DEF IInv, TypeOK
  <2>2. raced' \subseteq Slots BY <1>1 DEF Store, IInv, TypeOK
  <2>3. Slots' = Slots BY <1>2 DEF Slots
  <2>4. UNCHANGED <<generation8, clearing, stack, answer, searches, work>> BY DEF Store
  <2> QED BY <1>2, <1>3, <2>1, <2>2, <2>3, <2>4 DEF IInv, TypeOK, Nodes
<1>5. InNode' /\ FreshIsQuiet'
  BY <1>3 DEF Store, IInv, InNode, FreshIsQuiet, Quiet, Searching
<1>6. SharesLeft'
  <2>1. searches' # 0 /\ clearing' = {} /\ clearing = {} BY InSearch DEF Store
  <2>2. \A c \in Clusters, j \in Entries : Sound(table[c][j])
    BY <2>1 DEF IInv, SharesLeft, Cleared
  <2>3. \A c \in Clusters, j \in Entries : table'[c][j] = new \/ table'[c][j] = table[c][j]
    BY <1>1, <1>2 DEF IInv, TypeOK
  <2>4. \A c \in Clusters, j \in Entries : Sound(table'[c][j])
    BY <2>2, <2>3
  <2> QED BY <1>2, <2>1, <2>4 DEF SharesLeft, Sound, Saved, TrueAge
<1>7. GenerationCounts' BY DEF Store, IInv, GenerationCounts
<1> QED BY <1>3, <1>4, <1>5, <1>6, <1>7 DEF IInv

\* A step that changes the stack of one thread and leaves the table alone.
LEMMA StackStep ==
  ASSUME IInv, NEW t \in Thread, searches # 0, clearing = {},
         NEW nodes \in Seq(Nodes), stack' = [stack EXCEPT ![t] = nodes],
         NEW next \in Access, op' = [op EXCEPT ![t] = next], SoundAccess(next),
         next.pc # "idle" => nodes # <<>>,
         NEW found \in Answers, answer' = [answer EXCEPT ![t] = found],
         work' \in 0 .. MaxWork,
         UNCHANGED <<table, generation8, clearing, searches, raced>>
  PROVE  IInv'
<1>1. Clusters' = Clusters /\ Slots' = Slots /\ Nodes' = Nodes
  BY DEF Clusters, Slots, Nodes
<1>2. stack' \in [Thread -> Seq(Nodes)] /\ op' \in [Thread -> Access]
      /\ answer' \in [Thread -> Answers]
  BY DEF IInv, TypeOK, Answers
<1>3. TypeOK' BY <1>1, <1>2 DEF IInv, TypeOK, Answers
<1>4. InNode' BY <1>2 DEF IInv, TypeOK, InNode, Searching
<1>5. FreshIsQuiet' BY DEF FreshIsQuiet
<1>6. OpSound' BY <1>2 DEF IInv, OpSound, TypeOK
<1>7. SharesLeft' /\ GenerationCounts' BY <1>1 DEF IInv, SharesLeft, Cleared, GenerationCounts
<1> QED BY <1>3, <1>4, <1>5, <1>6, <1>7 DEF IInv

LEMMA IdleAccess == Idle \in Access /\ SoundAccess(Idle) /\ Idle.pc = "idle"
BY ZeroType DEF Idle, SoundAccess

LEMMA NoAnswerType == NoAnswer \in Answers
BY ZeroType DEF NoAnswer, Answers

\* The end of a probe keeps IInv.
LEMMA ProbedStep ==
  ASSUME IInv, NEW t \in Thread, Searching(t), NEW s \in Slots, NEW found \in Answers,
         Probed(t, s, found)
  PROVE  IInv'
<1> DEFINE state == IF found.hit THEN "hit" ELSE "miss"
           node == [Top(t) EXCEPT !.slot = s, !.state = state]
           nodes == [stack[t] EXCEPT ![Len(stack[t])] = node]
<1>1. TypeOK /\ searches # 0 /\ clearing = {} BY InSearch DEF IInv
<1>2. stack[t] \in Seq(Nodes) /\ stack[t] # <<>> /\ Top(t) \in Nodes
  BY <1>1, TopType DEF TypeOK, Searching
<1>3. node \in Nodes BY <1>2 DEF Nodes
<1>4. nodes \in Seq(Nodes) /\ nodes # <<>> BY <1>2, <1>3, TopChanged
<1>5. stack' = [stack EXCEPT ![t] = nodes] BY <1>1, <1>2 DEF Probed, Top, TypeOK
<1>6. Idle \in Access /\ SoundAccess(Idle) /\ Idle.pc = "idle" BY IdleAccess
<1>7. work' \in 0 .. MaxWork BY <1>1 DEF Probed, TypeOK
<1> HIDE DEF nodes
<1> QED BY <1>1, <1>4, <1>5, <1>6, <1>7, StackStep DEF Probed

-----------------------------------------------------------------------------
(* Each action keeps IInv.                                                 *)

\* A thread in the middle of an access is in a node, and its access is sound.
LEMMA OpInNode ==
  ASSUME IInv, NEW t \in Thread, op[t].pc # "idle"
  PROVE  Searching(t) /\ TypeOK /\ op[t] \in Access /\ SoundAccess(op[t])
BY DEF IInv, InNode, OpSound, TypeOK

LEMMA VisitKeeps == ASSUME IInv, NEW t \in Thread, Visit(t) PROVE IInv'
<1> DEFINE parents == [i \in DOMAIN stack[t] |-> [stack[t][i] EXCEPT !.state = "past"]]
           next == [op[t] EXCEPT !.pc = "look"]
<1>1. PICK k \in Key :
        stack' = [stack EXCEPT ![t] =
                    Append(parents, [key |-> k, slot |-> FirstEntry(k), state |-> "probing"])]
  BY DEF Visit
<1> DEFINE node == [key |-> k, slot |-> FirstEntry(k), state |-> "probing"]
<1>2. stack[t] \in Seq(Nodes) /\ op[t] \in Access BY DEF IInv, TypeOK
<1>3. parents \in Seq(Nodes)
  <2>1. \A i \in DOMAIN stack[t] : [stack[t][i] EXCEPT !.state = "past"] \in Nodes
    <3>1. \A i \in DOMAIN stack[t] : stack[t][i] \in Nodes BY <1>2
    <3>2. \A x \in Nodes : [x EXCEPT !.state = "past"] \in Nodes BY DEF Nodes
    <3> QED BY <3>1, <3>2
  <2>2. DOMAIN stack[t] = 1 .. Len(stack[t]) /\ Len(stack[t]) \in Nat BY <1>2
  <2>3. parents \in [1 .. Len(stack[t]) -> Nodes] BY <2>1, <2>2
  <2> HIDE DEF parents
  <2> QED BY <2>2, <2>3
<1>4. node \in Nodes BY FirstEntryType DEF Nodes, IInv
<1>5. Append(parents, node) \in Seq(Nodes) /\ Append(parents, node) # <<>>
  <2> HIDE DEF parents, node
  <2> QED BY <1>3, <1>4
<1>6. next \in Access /\ SoundAccess(next) BY <1>2 DEF Access, SoundAccess
<1>7. op' = [op EXCEPT ![t] = next] /\ work' \in 0 .. MaxWork /\ searches # 0 /\ clearing = {}
  BY BoundAssumption DEF Visit, IInv, TypeOK
<1> HIDE DEF next, parents, node
<1> QED BY <1>1, <1>5, <1>6, <1>7, NoAnswerType, StackStep DEF Visit, node

LEMMA LookMatchKeeps == ASSUME IInv, NEW t \in Thread, LookMatch(t) PROVE IInv'
<1> DEFINE next == [op[t] EXCEPT !.pc = "occupied", !.data.key16 = Top(t).key.lo,
                                 !.alone = Others(t, Slot(t), Writes) = {}]
<1>1. Searching(t) /\ TypeOK /\ op[t] \in Access BY OpInNode DEF LookMatch
<1>2. Top(t).key.lo \in Lo BY <1>1, TopType
<1>3. next \in Access BY <1>1, <1>2 DEF Access, Fields
<1>4. SoundAccess(next) BY <1>1 DEF SoundAccess, Access
<1> QED BY <1>1, <1>3, <1>4, ContinueStep DEF LookMatch

LEMMA LookOnKeeps == ASSUME IInv, NEW t \in Thread, LookOn(t) PROVE IInv'
<1>1. Searching(t) /\ TypeOK /\ op[t] \in Access /\ op[t].pc = "look" BY OpInNode DEF LookOn
<1>2. searches # 0 /\ clearing = {} BY <1>1, InSearch
<1>3. stack[t] \in Seq(Nodes) /\ stack[t] # <<>> /\ Top(t) \in Nodes
  BY <1>1, TopType DEF TypeOK, Searching
<1>4. work' \in 0 .. MaxWork BY <1>1 DEF LookOn, TypeOK
<1>5. answer[t] \in Answers /\ answer' = [answer EXCEPT ![t] = answer[t]]
  BY <1>1 DEF TypeOK, Answers, LookOn
<1>6. CASE Slot(t)[2] + 1 \in Entries
  <2> DEFINE node == [Top(t) EXCEPT !.slot[2] = @ + 1]
             nodes == [stack[t] EXCEPT ![Len(stack[t])] = node]
  <2>1. node \in Nodes BY <1>3, <1>6 DEF Nodes, Slots, Slot
  <2>2. nodes \in Seq(Nodes) /\ nodes # <<>> BY <1>3, <2>1, TopChanged
  <2>3. stack' = [stack EXCEPT ![t] = nodes] BY <1>1, <1>3, <1>6 DEF LookOn, Top, TypeOK
  <2>4. op' = [op EXCEPT ![t] = op[t]] BY <1>1, <1>6 DEF LookOn, TypeOK
  <2>5. SoundAccess(op[t]) BY <1>1 DEF SoundAccess
  <2> HIDE DEF nodes
  <2> QED BY <1>1, <1>2, <1>4, <1>5, <2>2, <2>3, <2>4, <2>5, StackStep DEF LookOn
<1>7. CASE Slot(t)[2] + 1 \notin Entries
  <2> DEFINE next == [op[t] EXCEPT !.pc = "replace"]
  <2>1. next \in Access /\ SoundAccess(next) BY <1>1 DEF Access, SoundAccess
  <2>2. op' = [op EXCEPT ![t] = next] /\ stack' = [stack EXCEPT ![t] = stack[t]]
    BY <1>1, <1>7 DEF LookOn, TypeOK
  <2> HIDE DEF next
  <2> QED BY <1>2, <1>3, <1>4, <1>5, <2>1, <2>2, StackStep DEF LookOn
<1> QED BY <1>6, <1>7

LEMMA IsOccupiedKeeps == ASSUME IInv, NEW t \in Thread, IsOccupied(t) PROVE IInv'
<1> DEFINE next == [op[t] EXCEPT !.pc = "reading",
                                 !.todo = <<"move16", "value16", "depth8", "genBound8">>]
<1>1. Searching(t) /\ TypeOK /\ op[t] \in Access BY OpInNode DEF IsOccupied
<1>2. next \in Access /\ SoundAccess(next)
  <2> DEFINE rest == <<"move16", "value16", "depth8", "genBound8">>
  <2>1. rest \in Seq({"key16", "depth8", "genBound8", "move16", "value16"}) /\ rest # <<>>
    OBVIOUS
  <2> HIDE DEF rest
  <2> QED BY <1>1, <2>1 DEF Access, SoundAccess, rest
<1>3. Slot(t) \in Slots BY <1>1, TopType
<1> HIDE DEF next
<1> QED BY <1>1, <1>2, <1>3, ContinueStep, ProbedStep, NoAnswerType DEF IsOccupied, next

LEMMA ReadKeeps == ASSUME IInv, NEW t \in Thread, Read(t) PROVE IInv'
<1> DEFINE f == Head(op[t].todo)
           data == [op[t].data EXCEPT ![f] = MyEntry(t)[f]]
           next == [op[t] EXCEPT !.data = data, !.todo = Tail(@)]
           found == [hit |-> TRUE, data |-> data,
                     undisturbed |-> op[t].alone /\ Slot(t) \notin raced]
<1>1. /\ Searching(t) /\ TypeOK /\ op[t] \in Access
      /\ op[t].pc = "reading" /\ op[t].todo # <<>>
  BY OpInNode DEF Read, SoundAccess
<1>2. Slot(t) \in Slots /\ MyEntry(t) \in Fields BY <1>1, TopType
<1>3. f \in {"key16", "depth8", "genBound8", "move16", "value16"}
      /\ Tail(op[t].todo) \in Seq({"key16", "depth8", "genBound8", "move16", "value16"})
  BY <1>1 DEF Access
<1>4. data \in Fields BY <1>1, <1>2, <1>3 DEF Access, Fields
<1>5. found \in Answers BY <1>4, <1>1 DEF Answers, Access
<1>6. next \in Access BY <1>1, <1>3, <1>4 DEF Access
<1>7. CASE Tail(op[t].todo) # <<>>
  <2>1. SoundAccess(next) BY <1>1, <1>7 DEF SoundAccess, Access
  <2>2. Continue(t, next) BY <1>7 DEF Read
  <2> QED BY <1>1, <1>6, <2>1, <2>2, ContinueStep
<1>8. CASE Tail(op[t].todo) = <<>>
  <2>1. Probed(t, Slot(t), found) BY <1>8 DEF Read
  <2> QED BY <1>1, <1>2, <1>5, <2>1, ProbedStep
<1> QED BY <1>7, <1>8

LEMMA ReplaceKeeps == ASSUME IInv, NEW t \in Thread, Replace(t) PROVE IInv'
<1>1. Searching(t) /\ TypeOK BY OpInNode DEF Replace
<1>2. PICK i \in Entries : Probed(t, <<Slot(t)[1], i>>, NoAnswer) BY DEF Replace
<1>3. <<Slot(t)[1], i>> \in Slots BY <1>1, TopType DEF Slots
<1> QED BY <1>1, <1>2, <1>3, NoAnswerType, ProbedStep

\* The begin of a save or a penalty keeps IInv.
LEMMA BeginStep ==
  ASSUME IInv, NEW t \in Thread, NEW access \in Access, SoundAccess(access), Begin(t, access),
         work' \in 0 .. MaxWork
  PROVE  IInv'
<1> DEFINE node == [Top(t) EXCEPT !.state = "past"]
           nodes == [stack[t] EXCEPT ![Len(stack[t])] = node]
<1>1. TypeOK /\ Searching(t) /\ searches # 0 /\ clearing = {} BY InSearch DEF IInv, Begin
<1>2. stack[t] \in Seq(Nodes) /\ stack[t] # <<>> /\ Top(t) \in Nodes
  BY <1>1, TopType DEF TypeOK, Searching
<1>3. node \in Nodes BY <1>2 DEF Nodes
<1>4. nodes \in Seq(Nodes) /\ nodes # <<>> BY <1>2, <1>3, TopChanged
<1>5. stack' = [stack EXCEPT ![t] = nodes] BY <1>1, <1>2 DEF Begin, Top, TypeOK
<1> HIDE DEF nodes
<1> QED BY <1>1, <1>4, <1>5, NoAnswerType, StackStep DEF Begin

LEMMA WriteKeeps == ASSUME IInv, NEW t \in Thread, Write(t) PROVE IInv'
<1>1. PICK r \in Results : Begin(t, [Idle EXCEPT !.pc = "testMove", !.result = r])
  BY DEF Write
<1> DEFINE access == [Idle EXCEPT !.pc = "testMove", !.result = r]
<1>2. access \in Access BY IdleAccess DEF Access
<1>3. SoundAccess(access) BY DEF SoundAccess, Idle
<1>4. work' \in 0 .. MaxWork BY BoundAssumption DEF Write, IInv, TypeOK
<1> QED BY <1>1, <1>2, <1>3, <1>4, BeginStep

LEMMA PenalizeKeeps == ASSUME IInv, NEW t \in Thread, Penalize(t) PROVE IInv'
<1> DEFINE access == [Idle EXCEPT !.pc = "penalize"]
<1>1. access \in Access BY IdleAccess DEF Access
<1>2. SoundAccess(access) BY DEF SoundAccess, Idle
<1>3. work' \in 0 .. MaxWork BY DEF Penalize, IInv, TypeOK
<1> QED BY <1>1, <1>2, <1>3, BeginStep DEF Penalize

\* The steps of save() that only look.
LEMMA TestsKeep ==
  ASSUME IInv, NEW t \in Thread,
         \/ TestMove(t) \/ TestKey(t) \/ TestDepth(t) \/ TestAge(t)
         \/ AgeDepth(t) \/ AgeBound(t) \/ AgeValue(t)
  PROVE  IInv'
<1>1. Searching(t) /\ TypeOK /\ op[t] \in Access /\ SoundAccess(op[t])
  BY OpInNode DEF TestMove, TestKey, TestDepth, TestAge, AgeDepth, AgeBound, AgeValue
<1>2. \A pc \in {"storeMove", "testKey", "testDepth", "testAge"} :
        op[t].pc \in {"testMove", "testKey", "testDepth"} =>
          [op[t] EXCEPT !.pc = pc] \in Access /\ SoundAccess([op[t] EXCEPT !.pc = pc])
  BY <1>1 DEF Access, SoundAccess
<1>3. \A pc \in {"ageDepth", "ageBound", "ageValue", "ageLoad"} :
        [op[t] EXCEPT !.pc = pc] \in Access /\ SoundAccess([op[t] EXCEPT !.pc = pc])
  BY <1>1 DEF Access, SoundAccess
<1>4. op[t].pc \in {"testKey", "testDepth", "testAge"} =>
        Overwrite(t) \in Access /\ SoundAccess(Overwrite(t))
  <2> DEFINE all == <<"key16", "depth8", "genBound8", "value16">>
  <2>1. all \in Seq({"key16", "depth8", "genBound8", "move16", "value16"}) /\ all # <<>>
    OBVIOUS
  <2> HIDE DEF all
  <2> QED BY <1>1, <2>1 DEF Access, SoundAccess, Overwrite, all
<1>5. CASE TestMove(t)
  <2>1. PICK pc \in {"storeMove", "testKey"} : Continue(t, [op[t] EXCEPT !.pc = pc])
    BY <1>5 DEF TestMove
  <2> QED BY <1>1, <1>2, <1>5, <2>1, ContinueStep DEF TestMove
<1>6. CASE TestKey(t)
  BY <1>1, <1>2, <1>4, <1>6, ContinueStep DEF TestKey
<1>7. CASE TestDepth(t)
  BY <1>1, <1>2, <1>4, <1>7, ContinueStep DEF TestDepth
<1>8. CASE TestAge(t)
  BY <1>1, <1>3, <1>4, <1>8, ContinueStep DEF TestAge
<1>9. CASE AgeDepth(t)
  BY <1>1, <1>3, <1>9, IdleAccess, ContinueStep DEF AgeDepth
<1>10. CASE AgeBound(t)
  BY <1>1, <1>3, <1>10, IdleAccess, ContinueStep DEF AgeBound
<1>11. CASE AgeValue(t)
  BY <1>1, <1>3, <1>11, IdleAccess, ContinueStep DEF AgeValue
<1> QED BY <1>5, <1>6, <1>7, <1>8, <1>9, <1>10, <1>11

\* The entry that a thread's writer points to is sound.
LEMMA MyEntrySound ==
  ASSUME IInv, NEW t \in Thread, Searching(t)
  PROVE  Sound(MyEntry(t))
<1>1. Slot(t)[1] \in Clusters /\ Slot(t)[2] \in Entries BY TopType DEF IInv
<1>2. clearing = {} BY InSearch
<1> QED BY <1>1, <1>2 DEF IInv, SharesLeft, Cleared, MyEntry, Entry

LEMMA StoreMoveKeeps == ASSUME IInv, NEW t \in Thread, StoreMove(t) PROVE IInv'
<1> DEFINE move == IF op[t].result.move THEN {Top(t).key.lo} ELSE {}
           new == [MyEntry(t) EXCEPT !.move16 = move]
           next == [op[t] EXCEPT !.pc = "testKey", !.whole = TRUE]
<1>1. /\ Searching(t) /\ TypeOK /\ op[t] \in Access /\ SoundAccess(op[t])
      /\ op[t].pc = "storeMove"
  BY OpInNode DEF StoreMove
<1>2. MyEntry(t) \in Fields /\ Top(t).key.lo \in Lo BY <1>1, TopType
<1>3. move \in SUBSET Lo BY <1>2
<1>4. new \in Fields /\ Sound(new)
  <2>1. Sound(MyEntry(t)) BY <1>1, MyEntrySound
  <2> HIDE DEF move
  <2> QED BY <1>2, <1>3, <2>1 DEF Fields, Sound, TrueAge
<1>5. next \in Access /\ SoundAccess(next) BY <1>1 DEF Access, SoundAccess
<1>6. Store(t, new, next) BY DEF StoreMove
<1> HIDE DEF new, next
<1> QED BY <1>1, <1>4, <1>5, <1>6, StoreStep

\* The packed byte is a byte.
LEMMA PackType ==
  ASSUME NEW g \in 0 .. Generations - 1, NEW b \in 0 .. 3, NEW pv \in BOOLEAN
  PROVE  Pack(g, b, pv) \in 0 .. 8 * Generations - 1
<1>1. Generations \in Nat \ {0} BY Sizes
<1>2. Generations * b \in Nat /\ Generations * b <= 3 * Generations
  <2>1. b = 0 \/ b = 1 \/ b = 2 \/ b = 3 OBVIOUS
  <2> QED BY <1>1, <2>1
<1>3. 4 * Generations * b2i(pv) \in {0, 4 * Generations}
  <2>1. b2i(pv) = 0 \/ b2i(pv) = 1 BY DEF b2i
  <2> QED BY <1>1, <2>1
<1> QED BY <1>1, <1>2, <1>3 DEF Pack

\* The packed byte gives back its generation.
LEMMA PackGeneration ==
  ASSUME NEW g \in 0 .. Generations - 1, NEW b \in 0 .. 3, NEW pv \in BOOLEAN
  PROVE  Pack(g, b, pv) % Generations = g
<1>1. Generations \in Nat \ {0} BY Sizes
<1>2. b2i(pv) \in Int BY DEF b2i
<1> DEFINE q == b + 4 * b2i(pv)
<1>3. q \in Int BY <1>2
<1>4. Generations * q = Generations * b + 4 * Generations * b2i(pv)
  BY <1>1, <1>2, SMT
<1>5. Generations * b \in Int /\ 4 * Generations * b2i(pv) \in Int BY <1>1, <1>2, SMT
<1> HIDE DEF q
<1>6. Pack(g, b, pv) = Generations * q + g /\ Pack(g, b, pv) \in Int
  BY <1>1, <1>4, <1>5 DEF Pack
<1> QED BY <1>1, <1>3, <1>6, ModUnique

\* The depth of a result fits into a byte.
LEMMA ResultDepth ==
  ASSUME NEW r \in Results
  PROVE  r.depth - DEPTH_NONE \in 0 .. 255 /\ Saved(r.depth - DEPTH_NONE)
<1>1. r.depth \in Int /\ r.depth > -3 /\ r.depth + 3 < 256
  BY ResultAssumption DEF DEPTH_NONE
<1>2. r.depth - DEPTH_NONE <= r.depth - DEPTH_NONE BY <1>1 DEF DEPTH_NONE
<1>3. Saved(r.depth - DEPTH_NONE) BY <1>2 DEF Saved
<1> QED BY <1>1, <1>3 DEF DEPTH_NONE

LEMMA StoreFieldKeeps == ASSUME IInv, NEW t \in Thread, StoreField(t) PROVE IInv'
<1> DEFINE r == op[t].result
           new == [MyEntry(t) EXCEPT
                     !.key16 = Top(t).key.lo,
                     !.depth8 = r.depth - DEPTH_NONE,
                     !.genBound8 = Pack(generation8, r.bound, r.pv),
                     !.value16 = [of |-> Top(t).key.lo, result |-> r]]
           f == Head(op[t].todo)
           entry == [MyEntry(t) EXCEPT ![f] = new[f],
                                       !.born = IF f = "genBound8" THEN searches ELSE @]
           next == IF Tail(op[t].todo) = <<>> THEN Idle ELSE [op[t] EXCEPT !.todo = Tail(@)]
<1>1. /\ Searching(t) /\ TypeOK /\ op[t] \in Access /\ SoundAccess(op[t])
      /\ op[t].pc = "storing" /\ op[t].todo # <<>> /\ r \in Results
  BY OpInNode DEF StoreField, SoundAccess
<1>2. MyEntry(t) \in Fields /\ Top(t).key.lo \in Lo BY <1>1, TopType
<1>3. f \in {"key16", "depth8", "genBound8", "move16", "value16"}
      /\ Tail(op[t].todo) \in Seq({"key16", "depth8", "genBound8", "move16", "value16"})
  BY <1>1 DEF Access
<1>4. r.depth - DEPTH_NONE \in 0 .. 255 /\ Saved(r.depth - DEPTH_NONE)
  BY <1>1, ResultDepth
<1>5. r.bound \in 0 .. 3 /\ r.pv \in BOOLEAN BY <1>1, ResultAssumption
<1>6. Pack(generation8, r.bound, r.pv) \in 0 .. 8 * Generations - 1
  BY <1>1, <1>5, PackType DEF TypeOK
<1>7. new \in Fields /\ new.depth8 = r.depth - DEPTH_NONE
  <2> HIDE DEF r
  <2> QED BY <1>1, <1>2, <1>4, <1>6 DEF Fields
<1>8. entry \in Fields /\ (entry.depth8 = MyEntry(t).depth8 \/ entry.depth8 = new.depth8)
  <2>1. searches \in 0 .. MaxSearches BY <1>1 DEF TypeOK
  <2> HIDE DEF new, f
  <2>2. [MyEntry(t) EXCEPT ![f] = new[f]] \in Fields
        /\ [MyEntry(t) EXCEPT ![f] = new[f]].depth8 \in {MyEntry(t).depth8, new.depth8}
    BY <1>2, <1>3, <1>7 DEF Fields
  <2>3. \A e \in Fields, b \in 0 .. MaxSearches :
          [e EXCEPT !.born = b] \in Fields /\ [e EXCEPT !.born = b].depth8 = e.depth8
    BY DEF Fields
  <2>4. PICK b \in 0 .. MaxSearches :
          entry = [[MyEntry(t) EXCEPT ![f] = new[f]] EXCEPT !.born = b]
    BY <1>2, <1>3, <2>1 DEF Fields
  <2> QED BY <2>2, <2>3, <2>4
<1>9. Sound(entry)
  <2>1. Sound(MyEntry(t)) BY <1>1, MyEntrySound
  <2>2. Saved(entry.depth8)
    <3> HIDE DEF entry, new, r
    <3> QED BY <1>4, <1>7, <1>8, <2>1 DEF Sound
  <2>3. CASE f = "genBound8"
    <3>1. entry.genBound8 = Pack(generation8, r.bound, r.pv) /\ entry.born = searches
      BY <1>2, <2>3 DEF Fields
    <3>2. Pack(generation8, r.bound, r.pv) % Generations = generation8
      BY <1>1, <1>5, PackGeneration DEF TypeOK
    <3> HIDE DEF entry, r
    <3> QED BY <2>2, <3>1, <3>2 DEF Sound, TrueAge, IInv, GenerationCounts
  <2>4. CASE f # "genBound8"
    <3>1. entry.genBound8 = MyEntry(t).genBound8 /\ entry.born = MyEntry(t).born
      BY <1>2, <1>3, <2>4 DEF Fields
    <3> HIDE DEF entry
    <3> QED BY <2>1, <2>2, <3>1 DEF Sound, TrueAge
  <2> QED BY <2>3, <2>4
<1>10. next \in Access /\ SoundAccess(next)
  <2>1. CASE Tail(op[t].todo) = <<>> BY <2>1, IdleAccess
  <2>2. CASE Tail(op[t].todo) # <<>> BY <1>1, <1>3, <2>2 DEF Access, SoundAccess
  <2> QED BY <2>1, <2>2
<1>11. Store(t, entry, next) BY DEF StoreField
<1> HIDE DEF entry, next
<1> QED BY <1>1, <1>8, <1>9, <1>10, <1>11, StoreStep

LEMMA LoadDepthKeeps == ASSUME IInv, NEW t \in Thread, LoadDepth(t) PROVE IInv'
<1> DEFINE next == [op[t] EXCEPT !.pc = "lower", !.data.depth8 = MyEntry(t).depth8]
<1>1. Searching(t) /\ TypeOK /\ op[t] \in Access BY OpInNode DEF LoadDepth
<1>2. MyEntry(t).depth8 \in 0 .. 255 BY <1>1, TopType DEF Fields
<1>3. Saved(MyEntry(t).depth8) BY <1>1, MyEntrySound DEF Sound
<1>4. next \in Access /\ next.data.depth8 = MyEntry(t).depth8 /\ next.pc = "lower"
  BY <1>1, <1>2 DEF Access, Fields
<1>5. SoundAccess(next)
  <2> HIDE DEF next
  <2> QED BY <1>3, <1>4 DEF SoundAccess
<1>6. Continue(t, next) BY DEF LoadDepth
<1> HIDE DEF next
<1> QED BY <1>1, <1>4, <1>5, <1>6, ContinueStep

LEMMA LowerDepthKeeps == ASSUME IInv, NEW t \in Thread, LowerDepth(t) PROVE IInv'
<1> DEFINE new == [MyEntry(t) EXCEPT !.depth8 = Lowered(op[t].data.depth8)]
<1>1. Searching(t) /\ TypeOK /\ op[t] \in Access /\ Saved(op[t].data.depth8)
  BY OpInNode DEF LowerDepth, SoundAccess
<1>2. op[t].data.depth8 \in 0 .. 255 BY <1>1 DEF Access, Fields
<1>3. Lowered(op[t].data.depth8) \in 0 .. 255 /\ Saved(Lowered(op[t].data.depth8))
  BY <1>1, <1>2, ResultAssumption DEF Lowered, Saved, DEPTH_NONE
<1>4. new \in Fields /\ Sound(new)
  <2>1. Sound(MyEntry(t)) /\ MyEntry(t) \in Fields BY <1>1, MyEntrySound, TopType
  <2> QED BY <1>3, <2>1 DEF Fields, Sound, TrueAge
<1> HIDE DEF new
<1> QED BY <1>1, <1>4, IdleAccess, StoreStep DEF LowerDepth, new

LEMMA LeaveKeeps == ASSUME IInv, NEW t \in Thread, Leave(t) PROVE IInv'
<1> DEFINE nodes == SubSeq(stack[t], 1, Len(stack[t]) - 1)
<1>1. TypeOK /\ Searching(t) /\ searches # 0 /\ clearing = {} BY InSearch DEF IInv, Leave
<1>2. stack[t] \in Seq(Nodes) /\ stack[t] # <<>> BY <1>1 DEF TypeOK, Searching
<1>3. nodes \in Seq(Nodes) BY <1>2
<1>4. stack' = [stack EXCEPT ![t] = nodes] BY <1>1 DEF Leave, TypeOK
<1>5. op[t] \in Access /\ SoundAccess(op[t]) /\ op' = [op EXCEPT ![t] = op[t]]
  BY <1>1 DEF Leave, TypeOK, IInv, OpSound
<1>6. work' \in 0 .. MaxWork BY <1>1 DEF Leave, TypeOK
<1> HIDE DEF nodes
<1> QED BY <1>1, <1>3, <1>4, <1>5, <1>6, NoAnswerType, StackStep DEF Leave

LEMMA ZeroRemainder == 0 % Generations = 0
<1>1. 0 = Generations * 0 + 0 /\ 0 \in 0 .. Generations - 1 BY Sizes
<1> QED BY <1>1, Sizes, ModUnique

LEMMA ZeroSound == Sound(Zero)
BY DEF Sound, Saved, TrueAge, Zero

LEMMA NewSearchKeeps == ASSUME IInv, NewSearch PROVE IInv'
<1>1. (generation8 + 1) % Generations \in 0 .. Generations - 1
  BY Sizes, DivFacts DEF IInv, TypeOK
<1>2. Clusters' = Clusters /\ Slots' = Slots /\ Nodes' = Nodes
  BY DEF NewSearch, Clusters, Slots, Nodes
<1>3. searches \in Nat /\ searches' = searches + 1 /\ searches' \in 0 .. MaxSearches
  BY BoundAssumption DEF NewSearch, IInv, TypeOK
<1>4. TypeOK' BY <1>1, <1>2, <1>3 DEF NewSearch, IInv, TypeOK
<1>5. InNode' BY DEF NewSearch, IInv, InNode, Searching
<1>6. FreshIsQuiet' BY <1>3 DEF NewSearch, FreshIsQuiet
<1>7. OpSound' BY DEF NewSearch, IInv, OpSound
<1>8. SharesLeft' BY <1>2, <1>3 DEF NewSearch, IInv, SharesLeft, Cleared
<1>9. GenerationCounts'
  <2>1. searches \in Int /\ Generations \in Nat \ {0} BY <1>3, Sizes
  <2>2. ((searches % Generations) + 1) % Generations = (searches + 1) % Generations
    BY <2>1, ModSuccessor
  <2> QED BY <1>3, <2>2 DEF NewSearch, IInv, GenerationCounts
<1> QED BY <1>4, <1>5, <1>6, <1>7, <1>8, <1>9 DEF IInv

\* While no share is cleared yet, no cluster is.
LEMMA NothingCleared ==
  ASSUME NEW n \in Nat \ {0}, NEW c \in 0 .. n - 1
  PROVE  \E i \in Shares : c \in Share(n, ThreadCount, i)
BY Sizes, SharesCover DEF Shares

LEMMA ClearKeeps == ASSUME IInv, NewGame \/ Resize PROVE IInv'
<1>1. clearing' = Shares /\ generation8' = 0 /\ searches' = 0 /\ raced' = {} /\ work' = 0
      /\ UNCHANGED <<stack, op, answer>> /\ Quiet
  BY DEF NewGame, Resize, Clear
<1>2. /\ \E n \in ClusterCounts : Clusters' = 0 .. n - 1
      /\ table' \in [Clusters' -> [Entries -> Fields]]
  <2>1. CASE NewGame BY <2>1 DEF NewGame, IInv, TypeOK, Clusters
  <2>2. CASE Resize BY <2>2, ZeroType DEF Resize, Clusters
  <2> QED BY <2>1, <2>2
<1>3. stack' \in [Thread -> Seq(Nodes')]
  BY <1>1 DEF IInv, TypeOK, Quiet, Searching
<1>4. TypeOK'
  <2>1. 0 \in 0 .. Generations - 1 /\ 0 \in 0 .. MaxSearches /\ 0 \in 0 .. MaxWork
    BY Sizes, BoundAssumption
  <2> QED BY <1>1, <1>2, <1>3, <2>1 DEF IInv, TypeOK
<1>5. InNode' BY <1>1 DEF IInv, InNode, Searching
<1>6. FreshIsQuiet' BY <1>1 DEF FreshIsQuiet, Quiet, Searching
<1>7. OpSound' BY <1>1 DEF IInv, OpSound
<1>8. SharesLeft'
  <2>1. PICK n \in Nat \ {0} : Clusters' = 0 .. n - 1 BY <1>2, TableAssumption
  <2>2. Cardinality(Clusters') = n BY <2>1, Sizes
  <2>3. \A c \in Clusters' : ~Cleared(c)' BY <1>1, <2>1, <2>2, NothingCleared DEF Cleared
  <2> QED BY <2>3 DEF SharesLeft
<1>9. GenerationCounts' BY <1>1, ZeroRemainder DEF GenerationCounts
<1> QED BY <1>4, <1>5, <1>6, <1>7, <1>8, <1>9 DEF IInv

LEMMA ClearShareKeeps == ASSUME IInv, NEW i \in clearing, ClearShare(i) PROVE IInv'
<1> DEFINE mine == Share(Cardinality(Clusters), ThreadCount, i)
<1>1. /\ table' = [c \in Clusters |-> IF c \in mine THEN [j \in Entries |-> Zero] ELSE table[c]]
      /\ clearing' = clearing \ {i}
      /\ UNCHANGED <<generation8, stack, op, answer, searches, raced, work>>
  BY DEF ClearShare
<1>2. Clusters' = Clusters /\ Slots' = Slots /\ Nodes' = Nodes
  BY <1>1 DEF Clusters, Slots, Nodes
<1>3. TypeOK'
  <2>1. table' \in [Clusters -> [Entries -> Fields]]
    BY <1>1, ZeroType DEF IInv, TypeOK
  <2> QED BY <1>1, <1>2, <2>1 DEF IInv, TypeOK
<1>4. InNode' BY <1>1 DEF IInv, InNode, Searching
<1>5. FreshIsQuiet' BY <1>1 DEF IInv, FreshIsQuiet, Quiet, Searching
<1>6. OpSound' BY <1>1 DEF IInv, OpSound
<1>7. SharesLeft'
  <2> SUFFICES ASSUME NEW c \in Clusters, Cleared(c)'
               PROVE  /\ \A j \in Entries : Sound(table'[c][j])
                      /\ searches = 0 => \A j \in Entries : table'[c][j] = Zero
    BY <1>1, <1>2 DEF SharesLeft, Sound, Saved, TrueAge
  <2>1. CASE c \in mine
    <3>1. \A j \in Entries : table'[c][j] = Zero BY <1>1, <2>1
    <3> QED BY <3>1, ZeroSound
  <2>2. CASE c \notin mine
    <3>1. table'[c] = table[c] BY <1>1, <2>2
    <3>2. Cleared(c) BY <1>1, <1>2, <2>2 DEF Cleared
    <3> QED BY <3>1, <3>2 DEF IInv, SharesLeft
  <2> QED BY <2>1, <2>2
<1>8. GenerationCounts' BY <1>1 DEF IInv, GenerationCounts
<1> QED BY <1>3, <1>4, <1>5, <1>6, <1>7, <1>8 DEF IInv

LEMMA InitIInv == ASSUME Init PROVE IInv
<1>1. PICK n \in ClusterCounts : table = [c \in 0 .. n - 1 |-> [i \in Entries |-> Junk]]
  BY DEF Init
<1>2. Clusters = 0 .. n - 1 BY <1>1 DEF Clusters
<1>3. n \in Nat \ {0} BY TableAssumption
<1>4. TypeOK
  <2>1. table \in [Clusters -> [Entries -> Fields]] BY <1>1, <1>2, ZeroType
  <2>2. stack \in [Thread -> Seq(Nodes)] BY DEF Init
  <2>3. op \in [Thread -> Access] BY ZeroType DEF Init
  <2>4. answer \in [Thread -> Answers] BY NoAnswerType DEF Init
  <2>5. 0 \in 0 .. Generations - 1 /\ 0 \in 0 .. MaxSearches /\ 0 \in 0 .. MaxWork
    BY Sizes, BoundAssumption
  <2> QED BY <1>2, <2>1, <2>2, <2>3, <2>4, <2>5 DEF Init, TypeOK, Answers
<1>5. InNode BY IdleAccess DEF Init, InNode
<1>6. FreshIsQuiet BY DEF Init, FreshIsQuiet, Quiet, Searching
<1>7. OpSound BY IdleAccess DEF Init, OpSound
<1>8. SharesLeft
  <2>1. Cardinality(Clusters) = n BY <1>2, <1>3, Sizes
  <2>2. \A c \in Clusters : ~Cleared(c) BY <1>2, <1>3, <2>1, NothingCleared DEF Init, Cleared
  <2> QED BY <2>2 DEF SharesLeft
<1>9. GenerationCounts BY ZeroRemainder DEF Init, GenerationCounts
<1> QED BY <1>4, <1>5, <1>6, <1>7, <1>8, <1>9 DEF IInv

LEMMA NextIInv == ASSUME IInv, [Next]_vars PROVE IInv'
<1>1. ASSUME NEW t \in Thread, Probe(t) PROVE IInv'
  BY <1>1, LookMatchKeeps, LookOnKeeps, IsOccupiedKeeps, ReadKeeps, ReplaceKeeps DEF Probe
<1>2. ASSUME NEW t \in Thread, Save(t) PROVE IInv'
  BY <1>2, TestsKeep, StoreMoveKeeps, StoreFieldKeeps, LoadDepthKeeps, LowerDepthKeeps DEF Save
<1>3. ASSUME NEW t \in Thread, Visit(t) \/ Write(t) \/ Penalize(t) \/ Leave(t) PROVE IInv'
  BY <1>3, VisitKeeps, WriteKeeps, PenalizeKeeps, LeaveKeeps
<1>4. ASSUME NewSearch \/ NewGame \/ Resize PROVE IInv'
  BY <1>4, NewSearchKeeps, ClearKeeps
<1>5. ASSUME NEW i \in clearing, ClearShare(i) PROVE IInv'
  BY <1>5, ClearShareKeeps
<1>6. ASSUME UNCHANGED vars PROVE IInv'
  <2>1. Clusters' = Clusters /\ Slots' = Slots /\ Nodes' = Nodes
    BY <1>6 DEF vars, Clusters, Slots, Nodes
  <2>2. TypeOK' BY <1>6, <2>1 DEF vars, IInv, TypeOK
  <2>3. SharesLeft' BY <1>6, <2>1 DEF vars, IInv, SharesLeft, Cleared
  <2>4. InNode' /\ FreshIsQuiet' /\ OpSound' /\ GenerationCounts'
    BY <1>6 DEF vars, IInv, InNode, FreshIsQuiet, OpSound, Quiet, Searching, GenerationCounts
  <2> QED BY <2>2, <2>3, <2>4 DEF IInv
<1> QED BY <1>1, <1>2, <1>3, <1>4, <1>5, <1>6 DEF Next

LEMMA Invariance == Spec => []IInv
BY InitIInv, NextIInv, PTL DEF Spec

-----------------------------------------------------------------------------
(***************************************************************************)
(* OnlyRacesTear: an entry that is not being raced for is whole, or its one*)
(* writer is about to make it so.                                          *)
(***************************************************************************)
Lo16(t) == Top(t).key.lo
Writing(t, s) == op[t].pc \in Writes /\ Slot(t) = s

\* A writer has stored something.
Stored(o) == o.whole \/ (o.pc = "storing" /\ Len(o.todo) < 4)

ToRead == {<<"move16", "value16", "depth8", "genBound8">>, <<"value16", "depth8", "genBound8">>,
           <<"depth8", "genBound8">>, <<"genBound8">>}
ToStore == {<<"key16", "depth8", "genBound8", "value16">>, <<"depth8", "genBound8", "value16">>,
            <<"genBound8", "value16">>, <<"value16">>}

\* What a writer that nobody disturbed knows of the entry e, where it saves a result of the key k
Knows(o, e, k) ==
  /\ o.pc \in {"testKey", "testDepth", "testAge", "storing"} =>
       IF o.whole THEN e.move16 \subseteq {k} ELSE e.key16 = k
  /\ o.pc \in {"testDepth", "testAge"} => e.key16 = k
  /\ o.pc = "storing" =>
       /\ o.todo \in ToStore
       /\ Len(o.todo) <= 3 => e.key16 = k
       /\ Len(o.todo) <= 2 => e.depth8 = o.result.depth - DEPTH_NONE
       /\ Len(o.todo) <= 1 => BoundOf(e.genBound8) = o.result.bound /\ PvOf(e.genBound8) = o.result.pv
  /\ o.pc = "lower" => o.data.depth8 = e.depth8

\* It has torn the entry and will replace all of it.
Owes(o, e, k) ==
  /\ e.move16 \subseteq {k}
  /\ \/ o.pc = "testKey" /\ o.whole /\ e.key16 # k
     \/ o.pc = "storing" /\ Stored(o)

\* What a reader that nobody disturbed has read so far
Copies(o, e) ==
  /\ o.data.key16 = e.key16
  /\ o.pc = "reading" =>
       /\ o.todo \in ToRead
       /\ Len(o.todo) <= 3 => o.data.move16 = e.move16
       /\ Len(o.todo) <= 2 => o.data.value16 = e.value16
       /\ Len(o.todo) <= 1 => o.data.depth8 = e.depth8

\* An access that has stored nothing yet
Begins(o) ==
  /\ o.pc \in {"testMove", "penalize"} => o.alone
  /\ o.pc \in {"testMove", "penalize", "storeMove"} => ~o.whole

WritersAlone ==
  \A t \in Thread : Begins(op[t]) /\ (op[t].pc \in Writes /\ Slot(t) \notin raced => op[t].alone)
WritersKnow ==
  \A t \in Thread : op[t].pc \in Writes /\ op[t].alone => Knows(op[t], MyEntry(t), Lo16(t))
ReadersKnow ==
  \A t \in Thread : op[t].pc \in Reads /\ op[t].alone =>
    /\ Copies(op[t], MyEntry(t))
    /\ \A u \in Thread : Writing(u, Slot(t)) => ~Stored(op[u])
EntriesWhole ==
  \A s \in Slots : Cleared(s[1]) =>
    \/ s \in raced
    \/ Consistent(Entry(s))
    \/ \E t \in Thread : Writing(t, s) /\ Owes(op[t], Entry(s), Lo16(t))

RaceInv == WritersAlone /\ WritersKnow /\ ReadersKnow /\ EntriesWhole /\ OnlyRacesTear

-----------------------------------------------------------------------------
(* The kinds of steps, once more.                                          *)
LEMMA PcKinds ==
  /\ Reads \cap Writes = {}
  /\ \A p \in Reads \cup Writes : p # "idle"
BY DEF Reads, Writes

\* The slot and the key of a thread whose stack does not change
LEMMA SamePlace ==
  ASSUME NEW t \in Thread, stack'[t] = stack[t]
  PROVE  Top(t)' = Top(t) /\ Slot(t)' = Slot(t) /\ Lo16(t)' = Lo16(t)
BY DEF Top, Slot, Lo16

\* A step of thread t that stores nothing, and what it has to leave true.
Unstored(t) ==
  /\ UNCHANGED <<table, clearing, raced>>
  /\ \A u \in Thread \ {t} : op'[u] = op[u] /\ stack'[u] = stack[u] /\ answer'[u] = answer[u]
  /\ op'[t].pc \in Reads \cup Writes => stack'[t] = stack[t]
  /\ Begins(op'[t])
  /\ op'[t].pc \in Writes /\ Slot(t) \notin raced => op'[t].alone
  /\ op'[t].pc \in Writes /\ op'[t].alone => Knows(op'[t], MyEntry(t), Lo16(t))
  /\ op'[t].pc \in Writes /\ Stored(op'[t]) => op[t].pc \in Writes /\ Stored(op[t])
  /\ op'[t].pc \in Reads /\ op'[t].alone =>
       /\ Copies(op'[t], MyEntry(t))
       /\ \A u \in Thread \ {t} : Writing(u, Slot(t)) => ~Stored(op[u])
  /\ op[t].pc \in Writes /\ Owes(op[t], MyEntry(t), Lo16(t)) =>
       op'[t].pc \in Writes /\ Owes(op'[t], MyEntry(t), Lo16(t))
  /\ answer'[t].hit /\ answer'[t].undisturbed => Consistent(answer'[t].data)

LEMMA UnstoredStep ==
  ASSUME RaceInv, NEW t \in Thread, Unstored(t)
  PROVE  RaceInv'
<1>1. /\ UNCHANGED <<table, clearing, raced>>
      /\ \A u \in Thread \ {t} : op'[u] = op[u] /\ stack'[u] = stack[u] /\ answer'[u] = answer[u]
      /\ op'[t].pc \in Reads \cup Writes => stack'[t] = stack[t]
  BY DEF Unstored
<1>2. \A u \in Thread : op'[u].pc \in Reads \cup Writes => stack'[u] = stack[u]
  BY <1>1
<1>3. \A u \in Thread : stack'[u] = stack[u] =>
        Slot(u)' = Slot(u) /\ Lo16(u)' = Lo16(u) /\ MyEntry(u)' = MyEntry(u)
  BY <1>1, SamePlace DEF MyEntry, Entry
<1>4. \A s : Entry(s)' = Entry(s)
  BY <1>1 DEF Entry
<1>5. WritersAlone'
  BY <1>1, <1>2, <1>3 DEF RaceInv, WritersAlone, Unstored
<1>6. WritersKnow'
  BY <1>1, <1>2, <1>3 DEF RaceInv, WritersKnow, Unstored
<1>7. ASSUME NEW u \in Thread, op'[u].pc \in Writes, Stored(op'[u])
      PROVE  Slot(u)' = Slot(u) /\ op[u].pc \in Writes /\ Stored(op[u])
  <2>1. Slot(u)' = Slot(u)
    BY <1>2, <1>3, <1>7
  <2> QED BY <1>1, <1>7, <2>1 DEF Unstored
<1>8. ReadersKnow'
  <2> SUFFICES ASSUME NEW u \in Thread, op'[u].pc \in Reads, op'[u].alone
               PROVE  /\ Copies(op'[u], MyEntry(u)')
                      /\ \A w \in Thread : op'[w].pc \in Writes /\ Slot(w)' = Slot(u)' => ~Stored(op'[w])
    BY DEF ReadersKnow, Writing
  <2>1. Slot(u)' = Slot(u) /\ MyEntry(u)' = MyEntry(u)
    BY <1>2, <1>3
  <2>2. Copies(op'[u], MyEntry(u)) /\ \A w \in Thread \ {u} : Writing(w, Slot(u)) => ~Stored(op[w])
    <3>1. CASE u = t
      BY <3>1 DEF Unstored
    <3>2. CASE u # t
      BY <1>1, <3>2 DEF RaceInv, ReadersKnow
    <3> QED BY <3>1, <3>2
  <2>3. ASSUME NEW w \in Thread, op'[w].pc \in Writes, Slot(w)' = Slot(u)', Stored(op'[w])
        PROVE  FALSE
    <3>1. Slot(w) = Slot(u) /\ op[w].pc \in Writes /\ Stored(op[w])
      BY <1>7, <2>1, <2>3
    <3> QED BY <2>2, <2>3, <3>1, PcKinds DEF Writing
  <2> QED BY <2>1, <2>2, <2>3
<1>9. EntriesWhole'
  <2>1. Slots' = Slots /\ \A c : Cleared(c)' = Cleared(c)
    BY <1>1 DEF Slots, Clusters, Cleared
  <2>2. ASSUME NEW s \in Slots, NEW u \in Thread, Writing(u, s), Owes(op[u], Entry(s), Lo16(u))
        PROVE  Writing(u, s)' /\ Owes(op[u], Entry(s), Lo16(u))'
    <3>1. CASE u = t
      <4>1. s = Slot(t) /\ MyEntry(t) = Entry(s)
        BY <2>2, <3>1 DEF Writing, MyEntry
      <4>2. op'[t].pc \in Writes /\ Owes(op'[t], MyEntry(t), Lo16(t))
        BY <2>2, <3>1, <4>1 DEF Unstored, Writing
      <4>3. Slot(t)' = Slot(t) /\ Lo16(t)' = Lo16(t)
        BY <1>2, <1>3, <4>2
      <4> QED BY <1>4, <3>1, <4>1, <4>2, <4>3 DEF Writing
    <3>2. CASE u # t
      <4>1. op'[u] = op[u] /\ Slot(u)' = Slot(u) /\ Lo16(u)' = Lo16(u)
        BY <1>1, <1>3, <3>2
      <4> QED BY <1>4, <2>2, <4>1 DEF Writing
    <3> QED BY <3>1, <3>2
  <2> QED BY <1>1, <1>4, <2>1, <2>2 DEF RaceInv, EntriesWhole, Consistent
<1>10. OnlyRacesTear'
  BY <1>1 DEF RaceInv, OnlyRacesTear, Unstored, Consistent
<1> QED BY <1>5, <1>6, <1>8, <1>9, <1>10 DEF RaceInv

\* Thread t stores the entry `new' and goes on with `next', and what it has to leave true.
Storing(t, new, next) ==
  /\ Store(t, new, next) /\ op[t].pc \in Writes /\ Searching(t)
  /\ next.pc \in Writes \cup {"idle"} /\ Begins(next)
  /\ next.pc \in Writes => /\ next.alone = op[t].alone
                           /\ op[t].alone => Knows(next, new, Lo16(t))
  /\ op[t].alone =>
       LET whole == \/ Slot(t) \notin raced /\ (Consistent(MyEntry(t)) \/ Owes(op[t], MyEntry(t), Lo16(t)))
                    \/ op[t].pc = "storing" /\ next = Idle /\ op[t].whole
       IN  whole => Consistent(new) \/ (next.pc \in Writes /\ Owes(next, new, Lo16(t)))

LEMMA StoringStep ==
  ASSUME IInv, RaceInv, NEW t \in Thread, NEW new, NEW next, Storing(t, new, next)
  PROVE  RaceInv'
<1> DEFINE s == Slot(t)
           met == Others(t, s, Reads \cup Writes)
<1>0. TypeOK
  BY DEF IInv
<1>1. s \in Slots /\ s[1] \in Clusters /\ s[2] \in Entries /\ clearing = {}
  BY <1>0, TopType, InSearch DEF Storing
<1>2. /\ UNCHANGED <<clearing, stack, answer>> /\ Clusters' = Clusters /\ Slots' = Slots
      /\ op'[t] = next
      /\ \A u \in Thread \ {t} : op'[u] = IF u \in met THEN [op[u] EXCEPT !.alone = FALSE] ELSE op[u]
      /\ table' = [table EXCEPT ![s[1]][s[2]] = new]
  BY DEF Storing, Store, Clusters, Slots
<1>3. \A u \in Thread : Top(u)' = Top(u) /\ Slot(u)' = Slot(u) /\ Lo16(u)' = Lo16(u)
  BY <1>2, SamePlace
<1>4. table'[s[1]][s[2]] = new /\ \A r \in Slots : r # s => table'[r[1]][r[2]] = Entry(r)
  <2>1. table \in [Clusters -> [Entries -> Fields]]
    BY <1>0 DEF TypeOK
  <2>2. \A r \in Slots : r[1] \in Clusters /\ r[2] \in Entries /\ r = <<r[1], r[2]>>
    BY DEF Slots
  <2>3. \A c \in Clusters, j \in Entries :
          table'[c][j] = IF c = s[1] /\ j = s[2] THEN new ELSE table[c][j]
    BY <1>1, <1>2, <2>1
  <2> HIDE DEF s
  <2> QED BY <1>1, <2>2, <2>3 DEF Entry
<1>5. /\ raced' \subseteq raced \cup {s} /\ raced \subseteq raced' \cup {s}
      /\ s \notin raced' =>
           /\ op[t].alone /\ Others(t, s, Writes) = {}
           /\ s \notin raced \/ (op[t].pc = "storing" /\ next = Idle /\ op[t].whole)
  BY DEF Storing, Store
<1>6. ASSUME NEW u \in Thread, u # t, Slot(u) = s, op[u].pc \in Reads \cup Writes
      PROVE  ~op'[u].alone
  <2>1. u \in met /\ op[u] \in Access
    BY <1>0, <1>6 DEF Others, TypeOK
  <2>2. op'[u] = [op[u] EXCEPT !.alone = FALSE]
    BY <1>2, <1>6, <2>1
  <2> QED BY <2>1, <2>2 DEF Access
<1>7. ASSUME NEW u \in Thread, u # t
      PROVE  /\ op'[u].pc = op[u].pc /\ op'[u].whole = op[u].whole /\ op'[u].todo = op[u].todo
             /\ Slot(u) # s => op'[u] = op[u]
  <2>1. op[u] \in Access
    BY <1>0 DEF TypeOK
  <2>2. [op[u] EXCEPT !.alone = FALSE].pc = op[u].pc /\ [op[u] EXCEPT !.alone = FALSE].whole = op[u].whole
        /\ [op[u] EXCEPT !.alone = FALSE].todo = op[u].todo
    BY <2>1 DEF Access
  <2>3. Slot(u) # s => u \notin met
    BY DEF Others
  <2> QED BY <1>2, <1>7, <2>2, <2>3
<1>8. \A u \in Thread : op'[u].pc \in Reads \cup Writes => Slot(u) \in Slots
  <2> SUFFICES ASSUME NEW u \in Thread, op'[u].pc \in Reads \cup Writes PROVE Slot(u) \in Slots
    OBVIOUS
  <2>1. u = t \/ op[u].pc # "idle"
    BY <1>7, PcKinds
  <2> QED BY <1>0, <1>1, <2>1, OpInNode, TopType
<1> HIDE DEF s, met
<1>9. \A u \in Thread : u # t /\ op'[u].pc \in Reads \cup Writes /\ op'[u].alone => Slot(u) # s
  BY <1>6, <1>7
<1>10. \A u \in Thread : op'[u].pc \in Reads \cup Writes /\ Slot(u) # s => MyEntry(u)' = MyEntry(u)
  <2>1. \A u \in Thread : MyEntry(u)' = table'[Slot(u)[1]][Slot(u)[2]]
    BY <1>3 DEF MyEntry, Entry
  <2> QED BY <1>4, <1>8, <2>1 DEF MyEntry
<1>11. MyEntry(t)' = new
  BY <1>3, <1>4 DEF MyEntry, Entry, s
<1>12. WritersAlone'
  <2> SUFFICES ASSUME NEW u \in Thread
               PROVE  Begins(op'[u]) /\ (op'[u].pc \in Writes /\ Slot(u) \notin raced' => op'[u].alone)
    BY <1>3 DEF WritersAlone
  <2>1. CASE u = t
    BY <1>2, <1>5, <2>1, PcKinds DEF Storing, s, Writes
  <2>2. CASE u # t
    <3>1. Begins(op[u]) /\ (op[u].pc \in Writes /\ Slot(u) \notin raced => op[u].alone)
      BY DEF RaceInv, WritersAlone
    <3>2. Begins(op'[u])
      <4>1. op'[u] = op[u] \/ u \in met
        BY <1>2, <2>2
      <4>2. u \in met => op[u].pc \notin {"testMove", "penalize"}
        BY DEF met, Others, Reads, Writes
      <4> QED BY <1>7, <2>2, <3>1, <4>1, <4>2 DEF Begins
    <3>3. ASSUME op'[u].pc \in Writes, Slot(u) \notin raced' PROVE op'[u].alone
      <4>1. op[u].pc \in Writes
        BY <1>7, <2>2, <3>3
      <4>2. Slot(u) # s
        <5>1. Slot(u) = s => u \in Others(t, s, Writes)
          BY <2>2, <4>1 DEF Others
        <5> QED BY <1>5, <3>3, <5>1
      <4> QED BY <1>5, <1>7, <2>2, <3>1, <3>3, <4>1, <4>2
    <3> QED BY <3>2, <3>3
  <2> QED BY <2>1, <2>2
<1>13. WritersKnow'
  <2> SUFFICES ASSUME NEW u \in Thread, op'[u].pc \in Writes, op'[u].alone
               PROVE  Knows(op'[u], MyEntry(u)', Lo16(u))
    BY <1>3 DEF WritersKnow
  <2>1. CASE u = t
    BY <1>2, <1>11, <2>1, PcKinds DEF Storing
  <2>2. CASE u # t
    BY <1>7, <1>9, <1>10, <2>2 DEF RaceInv, WritersKnow
  <2> QED BY <2>1, <2>2
<1>14. ReadersKnow'
  <2> SUFFICES ASSUME NEW u \in Thread, op'[u].pc \in Reads, op'[u].alone
               PROVE  /\ Copies(op'[u], MyEntry(u)')
                      /\ \A w \in Thread : op'[w].pc \in Writes /\ Slot(w) = Slot(u) => ~Stored(op'[w])
    BY <1>3 DEF ReadersKnow, Writing
  <2>1. u # t
    BY <1>2, PcKinds DEF Storing, Reads, Writes
  <2>2. Slot(u) # s /\ op'[u] = op[u] /\ MyEntry(u)' = MyEntry(u)
    BY <1>7, <1>9, <1>10, <2>1
  <2>3. Copies(op[u], MyEntry(u)) /\ \A w \in Thread : Writing(w, Slot(u)) => ~Stored(op[w])
    BY <2>2 DEF RaceInv, ReadersKnow
  <2>4. ASSUME NEW w \in Thread, op'[w].pc \in Writes, Slot(w) = Slot(u) PROVE ~Stored(op'[w])
    <3>1. w # t
      BY <2>2, <2>4 DEF s
    <3> QED BY <1>7, <2>2, <2>3, <2>4, <3>1 DEF Writing, Stored
  <2> QED BY <2>2, <2>3, <2>4
<1>15. EntriesWhole'
  <2> SUFFICES ASSUME NEW r \in Slots, r \notin raced', ~Consistent(Entry(r)')
               PROVE  \E u \in Thread : Writing(u, r)' /\ Owes(op'[u], Entry(r)', Lo16(u))
    BY <1>2, <1>3 DEF EntriesWhole, Consistent
  <2>1. r \notin raced => Consistent(Entry(r)) \/ \E u \in Thread : Writing(u, r) /\ Owes(op[u], Entry(r), Lo16(u))
    BY <1>1 DEF RaceInv, EntriesWhole, Cleared
  <2>2. CASE r # s
    <3>1. Entry(r)' = Entry(r) /\ r \notin raced
      BY <1>4, <1>5, <2>2 DEF Entry
    <3>2. PICK u \in Thread : Writing(u, r) /\ Owes(op[u], Entry(r), Lo16(u))
      BY <2>1, <3>1
    <3>3. u # t /\ op'[u] = op[u]
      BY <1>7, <2>2, <3>2 DEF Writing, s
    <3> QED BY <1>3, <3>1, <3>2, <3>3 DEF Writing
  <2>3. CASE r = s
    <3>1. op[t].alone /\ \A u \in Thread : Writing(u, s) => u = t
      BY <1>5, <2>3 DEF Others, Writing
    <3>2. Entry(s) = MyEntry(t)
      BY DEF MyEntry, s
    <3>3. \/ s \notin raced /\ (Consistent(MyEntry(t)) \/ Owes(op[t], MyEntry(t), Lo16(t)))
          \/ op[t].pc = "storing" /\ next = Idle /\ op[t].whole
      BY <1>5, <2>1, <2>3, <3>1, <3>2
    <3>4. Consistent(new) \/ (next.pc \in Writes /\ Owes(next, new, Lo16(t)))
      BY <3>1, <3>3 DEF Storing, s
    <3>5. Entry(r)' = new
      BY <1>4, <2>3 DEF Entry
    <3>6. next.pc \in Writes /\ Owes(next, new, Lo16(t))
      BY <2>3, <3>4, <3>5
    <3> QED BY <1>2, <1>3, <2>3, <3>5, <3>6 DEF Writing, s
  <2> QED BY <2>2, <2>3
<1>16. OnlyRacesTear'
  BY <1>2 DEF RaceInv, OnlyRacesTear, Consistent
<1> QED BY <1>12, <1>13, <1>14, <1>15, <1>16 DEF RaceInv

-----------------------------------------------------------------------------
(* Sequences of fields.                                                    *)
LEMMA ToReadFacts ==
  ASSUME NEW q \in ToRead
  PROVE  /\ Len(q) \in 1 .. 4
         /\ Len(q) = 4 => Head(q) = "move16" /\ Len(Tail(q)) = 3
         /\ Len(q) = 3 => Head(q) = "value16" /\ Len(Tail(q)) = 2
         /\ Len(q) = 2 => Head(q) = "depth8" /\ Len(Tail(q)) = 1
         /\ Len(q) = 1 => Head(q) = "genBound8" /\ Tail(q) = <<>>
         /\ Len(q) # 1 => Tail(q) \in ToRead /\ Tail(q) # <<>>
<1>1. CASE q = <<"move16", "value16", "depth8", "genBound8">>
  <2>1. Tail(q) = <<"value16", "depth8", "genBound8">>
    BY <1>1
  <2> QED BY <1>1, <2>1 DEF ToRead
<1>2. CASE q = <<"value16", "depth8", "genBound8">>
  <2>1. Tail(q) = <<"depth8", "genBound8">>
    BY <1>2
  <2> QED BY <1>2, <2>1 DEF ToRead
<1>3. CASE q = <<"depth8", "genBound8">>
  <2>1. Tail(q) = <<"genBound8">>
    BY <1>3
  <2> QED BY <1>3, <2>1 DEF ToRead
<1>4. CASE q = <<"genBound8">>
  BY <1>4
<1> QED BY <1>1, <1>2, <1>3, <1>4 DEF ToRead

LEMMA ToStoreFacts ==
  ASSUME NEW q \in ToStore
  PROVE  /\ Len(q) \in 1 .. 4
         /\ Len(q) = 4 => Head(q) = "key16" /\ Len(Tail(q)) = 3
         /\ Len(q) = 3 => Head(q) = "depth8" /\ Len(Tail(q)) = 2
         /\ Len(q) = 2 => Head(q) = "genBound8" /\ Len(Tail(q)) = 1
         /\ Len(q) = 1 => Head(q) = "value16" /\ Tail(q) = <<>>
         /\ Len(q) # 1 => Tail(q) \in ToStore /\ Tail(q) # <<>>
<1>1. CASE q = <<"key16", "depth8", "genBound8", "value16">>
  <2>1. Tail(q) = <<"depth8", "genBound8", "value16">>
    BY <1>1
  <2> QED BY <1>1, <2>1 DEF ToStore
<1>2. CASE q = <<"depth8", "genBound8", "value16">>
  <2>1. Tail(q) = <<"genBound8", "value16">>
    BY <1>2
  <2> QED BY <1>2, <2>1 DEF ToStore
<1>3. CASE q = <<"genBound8", "value16">>
  <2>1. Tail(q) = <<"value16">>
    BY <1>3
  <2> QED BY <1>3, <2>1 DEF ToStore
<1>4. CASE q = <<"value16">>
  BY <1>4
<1> QED BY <1>1, <1>2, <1>3, <1>4 DEF ToStore

-----------------------------------------------------------------------------
(* The steps that store nothing.                                           *)

\* Thread t is in the middle of neither a read nor a write of an entry when the step ends.
LEMMA OutsideStep ==
  ASSUME RaceInv, NEW t \in Thread, UNCHANGED <<table, clearing, raced>>,
         \A u \in Thread \ {t} : op'[u] = op[u] /\ stack'[u] = stack[u] /\ answer'[u] = answer[u],
         op[t].pc \notin Writes, op'[t].pc \notin Reads \cup Writes, Begins(op'[t]),
         answer'[t].hit /\ answer'[t].undisturbed => Consistent(answer'[t].data)
  PROVE  RaceInv'
<1>1. Unstored(t)
  BY DEF Unstored
<1> QED BY <1>1, UnstoredStep

\* The access goes on as `next'.
LEMMA WithinStep ==
  ASSUME IInv, RaceInv, NEW t \in Thread, NEW next, Continue(t, next), Begins(next),
         next.pc \in Writes /\ Slot(t) \notin raced => next.alone,
         next.pc \in Writes /\ next.alone => Knows(next, MyEntry(t), Lo16(t)),
         next.pc \in Writes /\ Stored(next) => op[t].pc \in Writes /\ Stored(op[t]),
         next.pc \in Reads /\ next.alone =>
           /\ Copies(next, MyEntry(t))
           /\ \A u \in Thread \ {t} : Writing(u, Slot(t)) => ~Stored(op[u]),
         op[t].pc \in Writes /\ Owes(op[t], MyEntry(t), Lo16(t)) =>
           next.pc \in Writes /\ Owes(next, MyEntry(t), Lo16(t))
  PROVE  RaceInv'
<1>1. op \in [Thread -> Access]
  BY DEF IInv, TypeOK
<1>2. op'[t] = next /\ (\A u \in Thread \ {t} : op'[u] = op[u])
      /\ UNCHANGED <<table, clearing, raced, stack, answer>>
  BY <1>1 DEF Continue
<1>3. answer[t].hit /\ answer[t].undisturbed => Consistent(answer[t].data)
  BY DEF RaceInv, OnlyRacesTear
<1>4. Unstored(t)
  BY <1>2, <1>3 DEF Unstored
<1> QED BY <1>4, UnstoredStep

LEMMA IdleBegins == Begins(Idle) /\ Idle.pc \notin Reads \cup Writes /\ ~NoAnswer.hit
BY DEF Begins, Idle, Reads, Writes, NoAnswer

LEMMA ProbedRaces ==
  ASSUME IInv, RaceInv, NEW t \in Thread, NEW s, NEW found, Probed(t, s, found), op[t].pc \notin Writes,
         found.hit /\ found.undisturbed => Consistent(found.data)
  PROVE  RaceInv'
<1>1. /\ \A u \in Thread \ {t} : stack'[u] = stack[u] /\ op'[u] = op[u] /\ answer'[u] = answer[u]
      /\ op'[t] = Idle /\ answer'[t] = found /\ UNCHANGED <<table, clearing, raced>>
  BY DEF Probed, IInv, TypeOK
<1> QED BY <1>1, IdleBegins, OutsideStep

LEMMA BeginRaces ==
  ASSUME IInv, RaceInv, NEW t \in Thread, Write(t) \/ Penalize(t)
  PROVE  RaceInv'
<1>1. PICK access : Begin(t, access) /\ access.pc \in {"testMove", "penalize"} /\ access.alone /\ ~access.whole
  <2>1. CASE Write(t)
    <3>1. PICK r \in Results : Begin(t, [Idle EXCEPT !.pc = "testMove", !.result = r])
      BY <2>1 DEF Write
    <3> DEFINE access == [Idle EXCEPT !.pc = "testMove", !.result = r]
    <3>2. access.pc = "testMove" /\ access.alone /\ ~access.whole
      BY DEF Idle
    <3> HIDE DEF access
    <3> QED BY <3>1, <3>2 DEF access
  <2>2. CASE Penalize(t)
    <3> DEFINE access == [Idle EXCEPT !.pc = "penalize"]
    <3>1. access.pc = "penalize" /\ access.alone /\ ~access.whole
      BY DEF Idle
    <3>2. Begin(t, access)
      BY <2>2 DEF Penalize
    <3> HIDE DEF access
    <3> QED BY <3>1, <3>2
  <2> QED BY <2>1, <2>2
<1>2. /\ \A u \in Thread \ {t} : stack'[u] = stack[u] /\ op'[u] = op[u] /\ answer'[u] = answer[u]
      /\ op'[t] = access /\ answer'[t] = NoAnswer /\ UNCHANGED <<table, clearing, raced>> /\ op[t].pc = "idle"
  BY <1>1 DEF Begin, IInv, TypeOK
<1>3. Begins(access) /\ access.pc \notin Reads \cup Writes
  BY <1>1 DEF Begins, Reads, Writes
<1> QED BY <1>2, <1>3, IdleBegins, OutsideStep, PcKinds

LEMMA OutsideRaces ==
  ASSUME IInv, RaceInv, NEW t \in Thread, Visit(t) \/ LookOn(t) \/ Leave(t)
  PROVE  RaceInv'
<1>0. op[t] \in Access /\ answer[t] \in Answers
  BY DEF IInv, TypeOK, Answers
<1>1. /\ \A u \in Thread \ {t} : stack'[u] = stack[u] /\ op'[u] = op[u] /\ answer'[u] = answer[u]
      /\ UNCHANGED <<table, clearing, raced>>
  BY DEF Visit, LookOn, Leave, IInv, TypeOK
<1>2. op[t].pc \in {"idle", "look"} /\ op'[t].pc \in {"idle", "look", "replace"}
  BY DEF Visit, LookOn, Leave, IInv, TypeOK, Access
<1>3. answer'[t] = answer[t] \/ answer'[t] = NoAnswer
  BY DEF Visit, LookOn, Leave, IInv, TypeOK
<1>4. answer'[t].hit /\ answer'[t].undisturbed => Consistent(answer'[t].data)
  BY <1>3, IdleBegins DEF RaceInv, OnlyRacesTear
<1>5. op[t].pc \notin Writes /\ op'[t].pc \notin Reads \cup Writes /\ Begins(op'[t])
  BY <1>2 DEF Reads, Writes, Begins
<1> QED BY <1>1, <1>4, <1>5, OutsideStep

LEMMA LookMatchRaces ==
  ASSUME IInv, RaceInv, NEW t \in Thread, LookMatch(t)
  PROVE  RaceInv'
<1> DEFINE next == [op[t] EXCEPT !.pc = "occupied", !.data.key16 = Top(t).key.lo,
                                 !.alone = Others(t, Slot(t), Writes) = {}]
<1>1. op[t] \in Access /\ op[t].pc = "look" /\ MyEntry(t).key16 = Top(t).key.lo /\ Continue(t, next)
  BY DEF LookMatch, IInv, TypeOK
<1>2. /\ next.pc = "occupied" /\ next.data.key16 = MyEntry(t).key16
      /\ next.alone => \A u \in Thread \ {t} : ~Writing(u, Slot(t))
  BY <1>1 DEF Access, Fields, Others, Writing
<1> HIDE DEF next
<1>3. Begins(next) /\ next.pc \notin Writes /\ Copies(next, MyEntry(t)) /\ op[t].pc \notin Writes
  BY <1>1, <1>2 DEF Begins, Writes, Copies
<1> QED BY <1>1, <1>2, <1>3, WithinStep

LEMMA IsOccupiedRaces ==
  ASSUME IInv, RaceInv, NEW t \in Thread, IsOccupied(t)
  PROVE  RaceInv'
<1> DEFINE next == [op[t] EXCEPT !.pc = "reading",
                                 !.todo = <<"move16", "value16", "depth8", "genBound8">>]
<1>1. op[t] \in Access /\ op[t].pc = "occupied" /\ op[t].pc \in Reads /\ op[t].pc \notin Writes
  BY DEF IsOccupied, IInv, TypeOK, Reads, Writes
<1>2. CASE Probed(t, Slot(t), NoAnswer)
  BY <1>1, <1>2, IdleBegins, ProbedRaces
<1>3. CASE Continue(t, next)
  <2>1. /\ next.pc = "reading" /\ next.data = op[t].data /\ next.alone = op[t].alone
        /\ next.todo = <<"move16", "value16", "depth8", "genBound8">>
    BY <1>1 DEF Access
  <2> HIDE DEF next
  <2>2. Begins(next) /\ next.pc \notin Writes
    BY <2>1 DEF Begins, Writes
  <2>3. next.todo \in ToRead /\ Len(next.todo) = 4
    BY <2>1 DEF ToRead
  <2>4. op[t].alone => Copies(op[t], MyEntry(t)) /\ \A u \in Thread : Writing(u, Slot(t)) => ~Stored(op[u])
    BY <1>1 DEF RaceInv, ReadersKnow
  <2>5. next.alone => Copies(next, MyEntry(t))
    BY <2>1, <2>3, <2>4 DEF Copies
  <2> QED BY <1>1, <1>3, <2>1, <2>2, <2>4, <2>5, WithinStep
<1> QED BY <1>2, <1>3 DEF IsOccupied

\* One more field has been read.
LEMMA ReadCopies ==
  ASSUME NEW o \in Access, NEW e \in Fields, o.pc = "reading", Copies(o, e),
         NEW data, \A g \in {"key16", "move16", "value16", "depth8", "genBound8"} :
                     data[g] = IF g = Head(o.todo) THEN e[g] ELSE o.data[g],
         NEW next, next.pc = "reading", next.data = data, next.todo = Tail(o.todo)
  PROVE  /\ Tail(o.todo) # <<>> => Copies(next, e)
         /\ Tail(o.todo) = <<>> =>
              \A g \in {"key16", "move16", "value16", "depth8", "genBound8"} : data[g] = e[g]
<1>1. PICK q \in ToRead : q = o.todo
  BY DEF Copies
<1>2. PICK f, p : f = Head(q) /\ p = Tail(q)
  OBVIOUS
<1>3. \A g \in {"key16", "move16", "value16", "depth8", "genBound8"} :
        data[g] = IF g = f THEN e[g] ELSE o.data[g]
  BY <1>1, <1>2
<1>11. next.todo = p /\ q \in ToRead
  BY <1>1, <1>2
<1>4. /\ o.data.key16 = e.key16
      /\ Len(q) <= 3 => o.data.move16 = e.move16
      /\ Len(q) <= 2 => o.data.value16 = e.value16
      /\ Len(q) <= 1 => o.data.depth8 = e.depth8
  BY <1>1 DEF Copies
<1>5. data.key16 = e.key16
  BY <1>3, <1>4
<1>12. ASSUME NEW n \in 0 .. 3, p \in ToRead, p # <<>>, Len(p) = n, data.key16 = e.key16,
              n <= 3 => data.move16 = e.move16, n <= 2 => data.value16 = e.value16,
              n <= 1 => data.depth8 = e.depth8
       PROVE  Copies(next, e) /\ Tail(o.todo) # <<>>
  <2>1. Len(next.todo) = n /\ next.todo \in ToRead /\ next.data = data
    BY <1>11, <1>12
  <2>2. Copies(next, e)
    BY <1>12, <2>1 DEF Copies
  <2> QED BY <1>1, <1>2, <1>12, <2>2
<1>6. CASE Len(q) = 4
  <2>1. f = "move16" /\ p \in ToRead /\ Len(p) = 3 /\ p # <<>>
    BY <1>2, <1>6, <1>11, ToReadFacts
  <2>2. data.move16 = e.move16
    BY <1>3, <2>1
  <2> QED BY <1>5, <1>12, <2>1, <2>2
<1>7. CASE Len(q) = 3
  <2>1. f = "value16" /\ p \in ToRead /\ Len(p) = 2 /\ p # <<>>
    BY <1>2, <1>7, <1>11, ToReadFacts
  <2>2. data.move16 = e.move16 /\ data.value16 = e.value16
    BY <1>3, <1>4, <1>7, <2>1
  <2> QED BY <1>5, <1>12, <2>1, <2>2
<1>8. CASE Len(q) = 2
  <2>1. f = "depth8" /\ p \in ToRead /\ Len(p) = 1 /\ p # <<>>
    BY <1>2, <1>8, <1>11, ToReadFacts
  <2>2. data.move16 = e.move16 /\ data.value16 = e.value16 /\ data.depth8 = e.depth8
    BY <1>3, <1>4, <1>8, <2>1
  <2> QED BY <1>5, <1>12, <2>1, <2>2
<1>9. CASE Len(q) = 1
  <2>1. f = "genBound8" /\ p = <<>>
    BY <1>2, <1>9, <1>11, ToReadFacts
  <2>2. /\ data.move16 = e.move16 /\ data.value16 = e.value16 /\ data.depth8 = e.depth8
        /\ data.genBound8 = e.genBound8
    BY <1>3, <1>4, <1>9, <2>1
  <2> QED BY <1>1, <1>2, <1>5, <2>1, <2>2
<1>10. Len(q) \in 1 .. 4
  BY <1>11, ToReadFacts
<1> QED BY <1>6, <1>7, <1>8, <1>9, <1>10

LEMMA ReadRaces ==
  ASSUME IInv, RaceInv, NEW t \in Thread, Read(t)
  PROVE  RaceInv'
<1> DEFINE o == op[t]
           e == MyEntry(t)
           f == Head(o.todo)
           data == [o.data EXCEPT ![f] = e[f]]
           next == [o EXCEPT !.data = data, !.todo = Tail(o.todo)]
           found == [hit |-> TRUE, data |-> data, undisturbed |-> o.alone /\ Slot(t) \notin raced]
<1>1. o \in Access /\ o.pc = "reading" /\ o.pc \in Reads /\ o.pc \notin Writes /\ o.data \in Fields
  BY DEF Read, IInv, TypeOK, Reads, Writes, Access
<1>2. Searching(t) /\ e \in Fields /\ Slot(t) \in Slots /\ Slot(t)[1] \in Clusters
  BY <1>1, OpInNode, TopType, PcKinds
<1>3. o.alone => /\ Copies(o, e) /\ o.todo \in ToRead
                 /\ \A u \in Thread : Writing(u, Slot(t)) => ~Stored(op[u])
  BY <1>1 DEF RaceInv, ReadersKnow, Copies
<1>6. \A g \in {"key16", "move16", "value16", "depth8", "genBound8"} :
        data[g] = IF g = Head(o.todo) THEN e[g] ELSE o.data[g]
  BY <1>1 DEF Fields
<1>4. CASE Continue(t, next) /\ Tail(o.todo) # <<>>
  <2>1. next.pc = "reading" /\ next.data = data /\ next.alone = o.alone /\ next.todo = Tail(o.todo)
    BY <1>1 DEF Access
  <2>2. Begins(next) /\ next.pc \notin Writes
    BY <2>1 DEF Begins, Writes
  <2>3. ASSUME o.alone PROVE Copies(next, e)
    <3>1. Copies(o, e)
      BY <1>3, <2>3
    <3> HIDE DEF next, data, e, o
    <3> QED BY <1>1, <1>2, <1>4, <2>1, <3>1, <1>6, ReadCopies
  <2> HIDE DEF next
  <2> QED BY <1>1, <1>3, <1>4, <2>1, <2>2, <2>3, WithinStep
<1>5. CASE Probed(t, Slot(t), found) /\ Tail(o.todo) = <<>>
  <2>1. ASSUME o.alone, Slot(t) \notin raced PROVE Consistent(data)
    <3>1. Copies(o, e)
      BY <1>3, <2>1
    <3>2. PICK last : last.pc = "reading" /\ last.data = data /\ last.todo = Tail(o.todo)
      <4> DEFINE last == [pc |-> "reading", data |-> data, todo |-> Tail(o.todo)]
      <4>1. last.pc = "reading" /\ last.data = data /\ last.todo = Tail(o.todo)
        OBVIOUS
      <4> HIDE DEF last
      <4> QED BY <4>1
    <3>3. \A g \in {"key16", "move16", "value16", "depth8", "genBound8"} : data[g] = e[g]
      <4> HIDE DEF data, e, o
      <4>1. o \in Access /\ e \in Fields /\ o.pc = "reading" /\ Tail(o.todo) = <<>>
        BY <1>1, <1>2, <1>5
      <4> QED BY <1>6, <3>1, <3>2, <4>1, ReadCopies
    <3>4. Consistent(e) \/ \E u \in Thread : Writing(u, Slot(t)) /\ Owes(op[u], e, Lo16(u))
      <4>1. clearing = {}
        BY <1>2, InSearch
      <4> QED BY <1>2, <2>1, <4>1 DEF RaceInv, EntriesWhole, Cleared, MyEntry
    <3>5. \A u \in Thread : Owes(op[u], e, Lo16(u)) => Stored(op[u])
      BY DEF Owes, Stored
    <3>6. Consistent(e)
      BY <1>3, <2>1, <3>4, <3>5
    <3> HIDE DEF data, f, e, o
    <3>7. /\ data.key16 = e.key16 /\ data.move16 = e.move16 /\ data.value16 = e.value16
          /\ data.depth8 = e.depth8 /\ data.genBound8 = e.genBound8
      BY <3>3
    <3> QED BY <3>6, <3>7 DEF Consistent
  <2>2. found.hit /\ found.undisturbed => Consistent(found.data)
    <3> HIDE DEF data, o
    <3> QED BY <2>1
  <2> HIDE DEF found
  <2> QED BY <1>1, <1>5, <2>2, ProbedRaces
<1> QED BY <1>4, <1>5 DEF Read

LEMMA ReplaceRaces ==
  ASSUME IInv, RaceInv, NEW t \in Thread, Replace(t)
  PROVE  RaceInv'
<1>1. PICK s : Probed(t, s, NoAnswer)
  BY DEF Replace
<1>2. op[t].pc \notin Writes
  BY DEF Replace, Writes
<1> QED BY <1>1, <1>2, IdleBegins, ProbedRaces

-----------------------------------------------------------------------------
(* save(): the steps that only look.                                       *)

\* What a writer in the middle of an access may rely on
LEMMA WriterFacts ==
  ASSUME IInv, RaceInv, NEW t \in Thread, op[t].pc # "idle"
  PROVE  /\ Searching(t) /\ op[t] \in Access /\ MyEntry(t) \in Fields /\ Lo16(t) \in Lo
         /\ Begins(op[t]) /\ SoundAccess(op[t])
         /\ op[t].pc \in Writes => /\ Slot(t) \notin raced => op[t].alone
                                   /\ op[t].alone => Knows(op[t], MyEntry(t), Lo16(t))
<1>1. Searching(t) /\ TypeOK /\ op[t] \in Access /\ SoundAccess(op[t])
  BY OpInNode
<1>2. MyEntry(t) \in Fields /\ Lo16(t) \in Lo
  BY <1>1, TopType DEF Lo16
<1> QED BY <1>1, <1>2 DEF RaceInv, WritersAlone, WritersKnow

\* The access looks at the entry and changes nothing but its place in the code.
LEMMA LookStep ==
  ASSUME IInv, RaceInv, NEW t \in Thread, op[t].pc \in Writes, NEW next, Continue(t, next),
         next.pc \in Writes \cup {"idle"}, next.pc \notin {"storeMove"},
         next.pc \in Writes => /\ next.alone = op[t].alone
                               /\ op[t].alone => Knows(next, MyEntry(t), Lo16(t))
                               /\ Stored(next) => Stored(op[t]),
         Owes(op[t], MyEntry(t), Lo16(t)) => next.pc \in Writes /\ Owes(next, MyEntry(t), Lo16(t))
  PROVE  RaceInv'
<1>1. Begins(next) /\ next.pc \notin Reads
  BY DEF Begins, Reads, Writes
<1>2. Slot(t) \notin raced => op[t].alone
  BY WriterFacts, PcKinds
<1> QED BY <1>1, <1>2, WithinStep

LEMMA TestMoveRaces ==
  ASSUME IInv, RaceInv, NEW t \in Thread, TestMove(t)
  PROVE  RaceInv'
<1> DEFINE e == MyEntry(t)
           stores == op[t].result.move \/ e.key16 # Lo16(t)
           next == [op[t] EXCEPT !.pc = IF stores THEN "storeMove" ELSE "testKey"]
<1>1. op[t].pc = "testMove" /\ Continue(t, next)
  BY DEF TestMove, Lo16
<1>2. op[t] \in Access /\ op[t].alone /\ ~op[t].whole /\ op[t].pc \notin Writes
  BY <1>1, WriterFacts DEF Begins, Writes
<1>3. /\ next.pc = IF stores THEN "storeMove" ELSE "testKey"
      /\ next.alone /\ ~next.whole
  BY <1>2 DEF Access
<1> HIDE DEF next
<1>4. next.pc \in {"storeMove", "testKey"} /\ next.pc \notin Reads
  BY <1>3 DEF Reads
<1>5. Begins(next) /\ ~Stored(next)
  BY <1>3, <1>4 DEF Begins, Stored
<1>6. Knows(next, e, Lo16(t))
  <2>1. next.pc = "testKey" => e.key16 = Lo16(t)
    BY <1>3
  <2> HIDE DEF e
  <2> QED BY <1>3, <1>4, <2>1 DEF Knows
<1> QED BY <1>1, <1>2, <1>3, <1>4, <1>5, <1>6, WithinStep

LEMMA OverwriteFacts ==
  ASSUME NEW t \in Thread, op[t] \in Access
  PROVE  /\ Overwrite(t).pc = "storing" /\ Overwrite(t).alone = op[t].alone
         /\ Overwrite(t).whole = op[t].whole /\ Overwrite(t).result = op[t].result
         /\ Overwrite(t).todo \in ToStore /\ Len(Overwrite(t).todo) = 4
<1> DEFINE q == <<"key16", "depth8", "genBound8", "value16">>
<1>1. q \in ToStore /\ Len(q) = 4
  BY DEF ToStore
<1> HIDE DEF q
<1>2. Overwrite(t) = [op[t] EXCEPT !.pc = "storing", !.todo = q]
  BY DEF Overwrite, q
<1> QED BY <1>1, <1>2 DEF Access

\* A test that leads to the replacement of the whole entry
LEMMA OverwriteRaces ==
  ASSUME IInv, RaceInv, NEW t \in Thread, op[t].pc \in {"testKey", "testDepth", "testAge"},
         Continue(t, Overwrite(t))
  PROVE  RaceInv'
<1> DEFINE e == MyEntry(t)
           o == op[t]
<1>1. o \in Access /\ o.pc \in Writes /\ (o.alone => Knows(o, e, Lo16(t)))
  BY WriterFacts DEF Writes
<1>2. PICK next : next = Overwrite(t)
  OBVIOUS
<1>3. /\ next.pc = "storing" /\ next.alone = o.alone /\ next.whole = o.whole
      /\ next.todo \in ToStore /\ Len(next.todo) = 4
  BY <1>1, <1>2, OverwriteFacts
<1>4. /\ ~(Len(next.todo) < 4) /\ ~(Len(next.todo) <= 3) /\ ~(Len(next.todo) <= 2) /\ ~(Len(next.todo) <= 1)
  BY <1>3
<1> HIDE DEF e, o
<1>5. o.alone => IF o.whole THEN e.move16 \subseteq {Lo16(t)} ELSE e.key16 = Lo16(t)
  BY <1>1 DEF Knows, o
<1>6. o.alone => Knows(next, e, Lo16(t))
  BY <1>3, <1>4, <1>5 DEF Knows
<1>7. Stored(next) => Stored(o)
  BY <1>3, <1>4 DEF Stored
<1>8. Owes(o, e, Lo16(t)) => Owes(next, e, Lo16(t))
  <2>1. o.pc # "storing"
    BY DEF o
  <2> QED BY <1>3, <2>1 DEF Owes, Stored
<1>9. next.pc \in Writes
  BY <1>3 DEF Writes
<1> QED BY <1>1, <1>2, <1>3, <1>6, <1>7, <1>8, <1>9, LookStep DEF o, e

\* A test that leads on to the next one
LEMMA TestOnRaces ==
  ASSUME IInv, RaceInv, NEW t \in Thread,
         NEW pc \in {"testDepth", "testAge", "ageDepth", "ageBound", "ageValue", "ageLoad"},
         op[t].pc \in {"testKey", "testDepth", "testAge", "ageDepth", "ageBound", "ageValue"},
         op[t].pc = "testKey" => pc = "testDepth" /\ MyEntry(t).key16 = Lo16(t),
         pc = "testAge" => op[t].pc = "testDepth", pc = "testDepth" => op[t].pc = "testKey",
         Continue(t, [op[t] EXCEPT !.pc = pc])
  PROVE  RaceInv'
<1> DEFINE e == MyEntry(t)
           o == op[t]
<1>1. o \in Access /\ o.pc \in Writes /\ (o.alone => Knows(o, e, Lo16(t)))
  BY WriterFacts DEF Writes
<1>2. PICK next : next = [op[t] EXCEPT !.pc = pc]
  OBVIOUS
<1>3. next.pc = pc /\ next.alone = o.alone /\ next.whole = o.whole
  BY <1>1, <1>2 DEF Access
<1>4. next.pc \in Writes /\ next.pc \notin {"storing", "storeMove", "testKey", "lower"}
  BY <1>3 DEF Writes
<1> HIDE DEF e, o
<1>5. pc \in {"testDepth", "testAge"} /\ o.alone =>
        /\ e.key16 = Lo16(t)
        /\ IF o.whole THEN e.move16 \subseteq {Lo16(t)} ELSE e.key16 = Lo16(t)
  BY <1>1 DEF Knows, o, e
<1>6. o.alone => Knows(next, e, Lo16(t))
  BY <1>3, <1>4, <1>5 DEF Knows
<1>7. Stored(next) => Stored(o)
  BY <1>3, <1>4 DEF Stored
<1>8. ~Owes(o, e, Lo16(t))
  BY DEF Owes, o, e
<1> QED BY <1>1, <1>2, <1>3, <1>4, <1>6, <1>7, <1>8, LookStep DEF o, e

LEMMA IdleRaces ==
  ASSUME IInv, RaceInv, NEW t \in Thread, op[t].pc \in {"ageDepth", "ageBound", "ageValue"},
         Continue(t, Idle)
  PROVE  RaceInv'
<1>1. op[t].pc \in Writes /\ Idle.pc = "idle" /\ Idle.pc \notin Writes
  BY DEF Writes, Idle
<1>2. ~Owes(op[t], MyEntry(t), Lo16(t))
  BY DEF Owes
<1> QED BY <1>1, <1>2, LookStep

LEMMA TestRaces ==
  ASSUME IInv, RaceInv, NEW t \in Thread,
         TestKey(t) \/ TestDepth(t) \/ TestAge(t) \/ AgeDepth(t) \/ AgeBound(t) \/ AgeValue(t)
  PROVE  RaceInv'
<1>1. CASE TestKey(t)
  <2>1. \/ Continue(t, Overwrite(t))
        \/ MyEntry(t).key16 = Lo16(t) /\ Continue(t, [op[t] EXCEPT !.pc = "testDepth"])
    BY <1>1 DEF TestKey, Lo16
  <2>2. op[t].pc = "testKey"
    BY <1>1 DEF TestKey
  <2> QED BY <2>1, <2>2, OverwriteRaces, TestOnRaces
<1>2. CASE TestDepth(t)
  <2>1. Continue(t, Overwrite(t)) \/ Continue(t, [op[t] EXCEPT !.pc = "testAge"])
    BY <1>2 DEF TestDepth
  <2>2. op[t].pc = "testDepth"
    BY <1>2 DEF TestDepth
  <2> QED BY <2>1, <2>2, OverwriteRaces, TestOnRaces
<1>3. CASE TestAge(t)
  <2>1. Continue(t, Overwrite(t)) \/ Continue(t, [op[t] EXCEPT !.pc = "ageDepth"])
    BY <1>3 DEF TestAge
  <2>2. op[t].pc = "testAge"
    BY <1>3 DEF TestAge
  <2> QED BY <2>1, <2>2, OverwriteRaces, TestOnRaces
<1>4. CASE AgeDepth(t)
  <2>1. Continue(t, Idle) \/ Continue(t, [op[t] EXCEPT !.pc = "ageBound"])
    BY <1>4 DEF AgeDepth
  <2>2. op[t].pc = "ageDepth"
    BY <1>4 DEF AgeDepth
  <2> QED BY <2>1, <2>2, IdleRaces, TestOnRaces
<1>5. CASE AgeBound(t)
  <2>1. Continue(t, Idle) \/ Continue(t, [op[t] EXCEPT !.pc = "ageValue"])
    BY <1>5 DEF AgeBound
  <2>2. op[t].pc = "ageBound"
    BY <1>5 DEF AgeBound
  <2> QED BY <2>1, <2>2, IdleRaces, TestOnRaces
<1>6. CASE AgeValue(t)
  <2>1. Continue(t, Idle) \/ Continue(t, [op[t] EXCEPT !.pc = "ageLoad"])
    BY <1>6 DEF AgeValue
  <2>2. op[t].pc = "ageValue"
    BY <1>6 DEF AgeValue
  <2> QED BY <2>1, <2>2, IdleRaces, TestOnRaces
<1> QED BY <1>1, <1>2, <1>3, <1>4, <1>5, <1>6

LEMMA LoadDepthRaces ==
  ASSUME IInv, RaceInv, NEW t \in Thread, LoadDepth(t)
  PROVE  RaceInv'
<1> DEFINE e == MyEntry(t)
           o == op[t]
           next == [o EXCEPT !.pc = "lower", !.data.depth8 = e.depth8]
<1>1. o.pc \in {"ageLoad", "penalize"} /\ Continue(t, next)
  BY DEF LoadDepth
<1>2. o \in Access /\ e \in Fields /\ Begins(o) /\ (o.pc \in Writes => (Slot(t) \notin raced => o.alone))
  BY <1>1, WriterFacts
<1>3. /\ next.pc = "lower" /\ next.alone = o.alone /\ next.whole = o.whole
      /\ next.data.depth8 = e.depth8
  BY <1>2 DEF Access, Fields
<1> HIDE DEF next, o, e
<1>4. Begins(next) /\ next.pc \in Writes /\ next.pc \notin Reads
  BY <1>3 DEF Begins, Writes, Reads
<1>5. Knows(next, e, Lo16(t))
  BY <1>3 DEF Knows
<1>6. Slot(t) \notin raced => next.alone
  BY <1>1, <1>2, <1>3 DEF Begins, Writes
<1>7. Stored(next) => o.pc \in Writes /\ Stored(o)
  BY <1>1, <1>2, <1>3 DEF Stored, Begins, Writes
<1>8. ~Owes(o, e, Lo16(t))
  BY <1>1 DEF Owes
<1> QED BY <1>1, <1>4, <1>5, <1>6, <1>7, <1>8, WithinStep DEF o, e

-----------------------------------------------------------------------------
(* save() and penalize(): the steps that store.                            *)

\* What is left beyond a multiple of g, if less than g, does not count in the quotient.
LEMMA DivUnique ==
  ASSUME NEW a \in Int, NEW g \in Nat \ {0}, NEW q \in Int, NEW r \in 0 .. g - 1, a = g * q + r
  PROVE  a \div g = q
<1> DEFINE p == a \div g
           m == a % g
<1>1. p \in Int /\ m \in 0 .. g - 1 /\ a = g * p + m
  BY DivInt
<1>2. m = r
  BY ModUnique
<1> HIDE DEF p, m
<1>3. g * p \in Int /\ g * q \in Int /\ g * p = g * q
  BY <1>1, <1>2, SMT
<1>4. CASE q + 1 <= p
  <2>1. g * p = g * (p - q) + g * q
    BY <1>1, SMT
  <2>2. g * (p - q) >= g
    BY <1>1, <1>4, SMT
  <2> QED BY <1>3, <2>1, <2>2
<1>5. CASE p + 1 <= q
  <2>1. g * q = g * (q - p) + g * p
    BY <1>1, SMT
  <2>2. g * (q - p) >= g
    BY <1>1, <1>5, SMT
  <2> QED BY <1>3, <2>1, <2>2
<1>6. p = q
  BY <1>1, <1>4, <1>5
<1> QED BY <1>6 DEF p

\* The packed byte gives back its bound and its pv flag.
LEMMA PackGivesBack ==
  ASSUME NEW g \in 0 .. Generations - 1, NEW b \in 0 .. 3, NEW pv \in BOOLEAN
  PROVE  BoundOf(Pack(g, b, pv)) = b /\ PvOf(Pack(g, b, pv)) = pv
<1> DEFINE G == Generations
           p == b2i(pv)
           q == b + 4 * p
           packed == Pack(g, b, pv)
<1>1. G \in Nat \ {0} /\ g \in 0 .. G - 1
  BY Sizes
<1>2. p \in {0, 1} /\ (p = 1 <=> pv)
  BY DEF b2i
<1>3. packed = g + G * b + 4 * G * p
  BY DEF Pack
<1> HIDE DEF G, p, packed
<1>4. q \in Int /\ 4 \in Nat \ {0} /\ q = 4 * p + b /\ b \in 0 .. 4 - 1
  BY <1>2
<1>5. G * b \in Nat /\ 4 * G * p \in Int /\ G * q = G * b + 4 * G * p
  <2>1. b = 0 \/ b = 1 \/ b = 2 \/ b = 3
    OBVIOUS
  <2> QED BY <1>1, <1>2, <2>1
<1>6. packed \in Int /\ packed = G * q + g
  BY <1>1, <1>3, <1>5
<1>7. packed \div G = q
  <2> HIDE DEF q
  <2> QED BY <1>1, <1>4, <1>6, DivUnique
<1>8. q % 4 = b
  BY <1>2, <1>4, ModUnique
<1>9. packed \div (4 * G) = p
  <2>1. 4 * G \in Nat \ {0} /\ p \in Int
    BY <1>1, <1>2
  <2>2. g + G * b \in 0 .. 4 * G - 1
    <3>1. b = 0 \/ b = 1 \/ b = 2 \/ b = 3
      OBVIOUS
    <3> QED BY <1>1, <3>1
  <2>3. packed = (4 * G) * p + (g + G * b)
    BY <1>1, <1>2, <1>3, <1>5
  <2> QED BY <1>6, <2>1, <2>2, <2>3, DivUnique
<1>10. p > 0 <=> pv
  BY <1>2
<1> HIDE DEF q
<1> QED BY <1>7, <1>8, <1>9, <1>10 DEF BoundOf, PvOf, packed, G

LEMMA StoreMoveRaces ==
  ASSUME IInv, RaceInv, NEW t \in Thread, StoreMove(t)
  PROVE  RaceInv'
<1> DEFINE o == op[t]
           e == MyEntry(t)
           k == Lo16(t)
           move == IF o.result.move THEN {k} ELSE {}
           new == [e EXCEPT !.move16 = move]
           next == [o EXCEPT !.pc = "testKey", !.whole = TRUE]
<1>1. o.pc = "storeMove" /\ Store(t, new, next)
  BY DEF StoreMove, Lo16
<1>2. o \in Access /\ e \in Fields /\ Searching(t) /\ o.pc \in Writes
  BY <1>1, WriterFacts DEF Writes
<1>3. move \subseteq {k}
  OBVIOUS
<1>4. /\ new.move16 = move /\ new.key16 = e.key16 /\ new.depth8 = e.depth8
      /\ new.genBound8 = e.genBound8 /\ new.value16 = e.value16
  BY <1>2 DEF Fields
<1>5. next.pc = "testKey" /\ next.whole /\ next.alone = o.alone
  BY <1>2 DEF Access
<1> HIDE DEF new, next, move, e, k, o
<1>6. next.pc \in Writes /\ Begins(next)
  BY <1>5 DEF Writes, Begins
<1>7. Knows(next, new, k)
  BY <1>3, <1>4, <1>5 DEF Knows
<1>8. ~Owes(o, e, k) /\ o.pc # "storing"
  BY <1>1 DEF Owes
<1>9. Consistent(e) => Consistent(new) \/ Owes(next, new, k)
  <2>1. CASE e.key16 = k
    BY <1>3, <1>4, <2>1 DEF Consistent
  <2>2. CASE e.key16 # k
    BY <1>3, <1>4, <1>5, <2>2 DEF Owes
  <2> QED BY <2>1, <2>2
<1>10. Storing(t, new, next)
  BY <1>1, <1>2, <1>5, <1>6, <1>7, <1>8, <1>9 DEF Storing, o, e, k
<1> QED BY <1>10, StoringStep

\* One more of the fields q is stored: the entry e becomes `new', the access o becomes `next'.
FieldStored(o, e, k, new, next, q) ==
  /\ o.pc = "storing" /\ o.result \in Results /\ q = o.todo /\ new.move16 = e.move16
  /\ new.key16 = IF Head(q) = "key16" THEN k ELSE e.key16
  /\ new.depth8 = IF Head(q) = "depth8" THEN o.result.depth - DEPTH_NONE ELSE e.depth8
  /\ IF Head(q) = "genBound8"
     THEN BoundOf(new.genBound8) = o.result.bound /\ PvOf(new.genBound8) = o.result.pv
     ELSE new.genBound8 = e.genBound8
  /\ new.value16 = IF Head(q) = "value16" THEN [of |-> k, result |-> o.result] ELSE e.value16
  /\ IF Tail(q) = <<>> THEN next.pc = "idle"
     ELSE next.pc = "storing" /\ next.result = o.result /\ next.whole = o.whole /\ next.todo = Tail(q)

LEMMA StoredField ==
  ASSUME NEW o, NEW e, NEW k, NEW new, NEW next, NEW q, FieldStored(o, e, k, new, next, q),
         Knows(o, e, k)
  PROVE  /\ q \in ToStore
         /\ next.pc = "storing" => Knows(next, new, k)
         /\ Consistent(e) \/ Owes(o, e, k) \/ o.whole =>
              Consistent(new) \/ (next.pc = "storing" /\ Owes(next, new, k))
<1>1. /\ q \in ToStore /\ IF o.whole THEN e.move16 \subseteq {k} ELSE e.key16 = k
      /\ Len(q) <= 3 => e.key16 = k
      /\ Len(q) <= 2 => e.depth8 = o.result.depth - DEPTH_NONE
      /\ Len(q) <= 1 => BoundOf(e.genBound8) = o.result.bound /\ PvOf(e.genBound8) = o.result.pv
  BY DEF Knows, FieldStored
<1>2. PICK n \in 1 .. 4 : n = Len(q)
  BY <1>1, ToStoreFacts
<1>3. /\ n = 4 => Head(q) = "key16" /\ Len(Tail(q)) = 3
      /\ n = 3 => Head(q) = "depth8" /\ Len(Tail(q)) = 2
      /\ n = 2 => Head(q) = "genBound8" /\ Len(Tail(q)) = 1
      /\ n = 1 => Head(q) = "value16" /\ Tail(q) = <<>>
      /\ n # 1 => Tail(q) \in ToStore /\ Tail(q) # <<>>
  BY <1>1, <1>2, ToStoreFacts
<1>4. PICK f : f = Head(q)
  OBVIOUS
<1>5. new.key16 = k
  <2>1. n = 4 \/ e.key16 = k
    BY <1>1, <1>2
  <2> QED BY <1>3, <2>1 DEF FieldStored
<1>6. n <= 3 => new.depth8 = o.result.depth - DEPTH_NONE
  <2>1. n <= 3 => f = "depth8" \/ e.depth8 = o.result.depth - DEPTH_NONE
    BY <1>1, <1>2, <1>3, <1>4
  <2> QED BY <1>4, <2>1 DEF FieldStored
<1>7. n <= 2 => BoundOf(new.genBound8) = o.result.bound /\ PvOf(new.genBound8) = o.result.pv
  <2>1. n = 2 => Head(q) = "genBound8"
    BY <1>3
  <2>2. n = 1 => BoundOf(e.genBound8) = o.result.bound /\ PvOf(e.genBound8) = o.result.pv
                 /\ Head(q) # "genBound8"
    BY <1>1, <1>2, <1>3
  <2>3. n <= 2 => n = 1 \/ n = 2
    OBVIOUS
  <2> QED BY <2>1, <2>2, <2>3 DEF FieldStored
<1>8. Consistent(e) \/ Owes(o, e, k) \/ o.whole => new.move16 \subseteq {k}
  BY <1>1 DEF Consistent, Owes, FieldStored
<1>9. CASE n = 1
  <2>1. next.pc = "idle" /\ new.value16 = [of |-> k, result |-> o.result]
    BY <1>3, <1>9 DEF FieldStored
  <2>2. new.value16.of = k /\ new.value16.result = o.result
    BY <2>1
  <2>3. new.depth8 <= o.result.depth - DEPTH_NONE
    <3>1. o.result.depth \in Int
      BY ResultAssumption DEF FieldStored
    <3> QED BY <1>6, <1>9, <3>1 DEF DEPTH_NONE
  <2>4. BoundOf(new.genBound8) = o.result.bound /\ PvOf(new.genBound8) = o.result.pv
    BY <1>7, <1>9
  <2>5. new.move16 \subseteq {k} => Consistent(new)
    BY <1>5, <2>2, <2>3, <2>4 DEF Consistent
  <2> QED BY <1>1, <1>8, <2>1, <2>5
<1>10. CASE n # 1
  <2>1. /\ next.pc = "storing" /\ next.result = o.result /\ next.whole = o.whole
        /\ next.todo = Tail(q) /\ next.todo \in ToStore
    BY <1>3, <1>10 DEF FieldStored
  <2>2. PICK m \in 1 .. 3 : m = n - 1
    BY <1>10
  <2>3. Len(next.todo) = m
    <3>1. PICK l : l = Len(Tail(q))
      OBVIOUS
    <3>2. (n = 4 => l = 3) /\ (n = 3 => l = 2) /\ (n = 2 => l = 1)
      BY <1>3, <3>1
    <3>3. l = m
      BY <1>10, <2>2, <3>2
    <3> QED BY <2>1, <3>1, <3>3
  <2>4. o.whole => new.move16 \subseteq {k}
    BY <1>8
  <2>5. /\ m <= 2 => new.depth8 = next.result.depth - DEPTH_NONE
        /\ m <= 1 => BoundOf(new.genBound8) = next.result.bound /\ PvOf(new.genBound8) = next.result.pv
    BY <1>6, <1>7, <2>1, <2>2
  <2>6. Knows(next, new, k)
    BY <1>5, <2>1, <2>3, <2>4, <2>5 DEF Knows
  <2>7. Stored(next)
    BY <2>1, <2>3 DEF Stored
  <2> QED BY <1>1, <1>8, <2>1, <2>6, <2>7 DEF Owes
<1> QED BY <1>9, <1>10

LEMMA StoreFieldRaces ==
  ASSUME IInv, RaceInv, NEW t \in Thread, StoreField(t)
  PROVE  RaceInv'
<1> DEFINE o == op[t]
           e == MyEntry(t)
           k == Lo16(t)
           r == o.result
           q == o.todo
           full == [e EXCEPT !.key16 = k, !.depth8 = r.depth - DEPTH_NONE,
                             !.genBound8 = Pack(generation8, r.bound, r.pv),
                             !.value16 = [of |-> k, result |-> r]]
           f == Head(q)
           new == [e EXCEPT ![f] = full[f], !.born = IF f = "genBound8" THEN searches ELSE @]
           next == IF Tail(q) = <<>> THEN Idle ELSE [o EXCEPT !.todo = Tail(q)]
<1>1. o.pc = "storing" /\ Store(t, new, next)
  BY DEF StoreField, Lo16
<1>2. o \in Access /\ e \in Fields /\ Searching(t) /\ o.pc \in Writes /\ r \in Results /\ q # <<>>
      /\ (o.alone => Knows(o, e, k))
  BY <1>1, WriterFacts DEF Writes, SoundAccess
<1>3. /\ full.key16 = k /\ full.depth8 = r.depth - DEPTH_NONE /\ full.move16 = e.move16
      /\ full.genBound8 = Pack(generation8, r.bound, r.pv)
      /\ full.value16 = [of |-> k, result |-> r]
  <2> HIDE DEF r
  <2> QED BY <1>2 DEF Fields
<1>4. f \in {"key16", "depth8", "genBound8", "move16", "value16"}
  BY <1>2 DEF Access
<1>5. \A g \in {"key16", "move16", "value16", "depth8", "genBound8"} :
        new[g] = IF g = f THEN full[g] ELSE e[g]
  <2> HIDE DEF full, f
  <2> QED BY <1>2, <1>4 DEF Fields
<1>6. BoundOf(full.genBound8) = r.bound /\ PvOf(full.genBound8) = r.pv
  <2>1. r.bound \in 0 .. 3 /\ r.pv \in BOOLEAN /\ generation8 \in 0 .. Generations - 1
    BY <1>2, ResultAssumption DEF IInv, TypeOK
  <2> QED BY <1>3, <2>1, PackGivesBack
<1>7. /\ Tail(q) = <<>> => next = Idle /\ next.pc = "idle"
      /\ Tail(q) # <<>> => /\ next.pc = "storing" /\ next.result = r /\ next.whole = o.whole
                           /\ next.alone = o.alone /\ next.todo = Tail(q)
  BY <1>1, <1>2 DEF Access, Idle
<1> HIDE DEF new, next, full, f, e, k, o, r, q
<1>8. next.pc \in {"idle", "storing"} /\ Begins(next) /\ "storing" \in Writes /\ "idle" \notin Writes
  BY <1>7 DEF Writes, Begins
<1>9. /\ new.key16 = IF f = "key16" THEN k ELSE e.key16
      /\ new.depth8 = IF f = "depth8" THEN r.depth - DEPTH_NONE ELSE e.depth8
      /\ f # "genBound8" => new.genBound8 = e.genBound8
      /\ f = "genBound8" => BoundOf(new.genBound8) = r.bound /\ PvOf(new.genBound8) = r.pv
      /\ new.value16 = IF f = "value16" THEN [of |-> k, result |-> r] ELSE e.value16
      /\ new.move16 = e.move16
  BY <1>3, <1>5, <1>6
<1>10. o.alone => /\ next.pc = "storing" => Knows(next, new, k)
                  /\ Consistent(e) \/ Owes(o, e, k) \/ o.whole =>
                       Consistent(new) \/ (next.pc = "storing" /\ Owes(next, new, k))
  <2>1. FieldStored(o, e, k, new, next, q)
    BY <1>1, <1>2, <1>7, <1>9 DEF FieldStored, f, r, q
  <2> QED BY <1>2, <2>1, StoredField
<1>11. next.pc = "storing" => next.alone = o.alone
  BY <1>7
<1>12. Storing(t, new, next)
  BY <1>1, <1>2, <1>8, <1>10, <1>11 DEF Storing, o, e, k
<1> QED BY <1>12, StoringStep

LEMMA LowerDepthRaces ==
  ASSUME IInv, RaceInv, NEW t \in Thread, LowerDepth(t)
  PROVE  RaceInv'
<1> DEFINE o == op[t]
           e == MyEntry(t)
           d == Lowered(o.data.depth8)
           new == [e EXCEPT !.depth8 = d]
<1>1. o.pc = "lower" /\ Store(t, new, Idle)
  BY DEF LowerDepth
<1>2. o \in Access /\ e \in Fields /\ Searching(t) /\ o.pc \in Writes
      /\ (o.alone => Knows(o, e, Lo16(t)))
  BY <1>1, WriterFacts DEF Writes
<1>3. Idle.pc = "idle" /\ "idle" \notin Writes /\ Begins(Idle)
  BY IdleBegins DEF Idle, Writes
<1>4. ~Owes(o, e, Lo16(t)) /\ o.pc # "storing"
  BY <1>1 DEF Owes
<1>5. o.alone => d <= e.depth8 /\ d \in Int
  <2>1. e.depth8 \in 0 .. 255
    BY <1>2 DEF Fields
  <2> QED BY <1>1, <1>2, <2>1 DEF Knows, Lowered
<1>6. /\ new.depth8 = d /\ new.key16 = e.key16 /\ new.move16 = e.move16
      /\ new.value16 = e.value16 /\ new.genBound8 = e.genBound8
  BY <1>2 DEF Fields
<1>7. e.depth8 \in Int /\ e.value16.result.depth \in Int
  <2>1. e.value16.result \in Results \cup {NoResult} /\ e.depth8 \in 0 .. 255
    BY <1>2 DEF Fields
  <2> QED BY <2>1, ResultAssumption DEF NoResult, DEPTH_NONE
<1> HIDE DEF o, e, d, new
<1>8. o.alone /\ Consistent(e) => Consistent(new)
  BY <1>5, <1>6, <1>7 DEF Consistent, DEPTH_NONE
<1>9. Storing(t, new, Idle)
  BY <1>1, <1>2, <1>3, <1>4, <1>8 DEF Storing, o, e
<1> QED BY <1>9, StoringStep

-----------------------------------------------------------------------------
(* Between searches, and the invariant.                                    *)

\* Everybody is outside the table.
LEMMA QuietIdle ==
  ASSUME IInv, Quiet
  PROVE  \A t \in Thread : op[t].pc \notin Reads \cup Writes
BY PcKinds DEF IInv, InNode, Quiet

\* Steps taken while everybody is outside the table
LEMMA QuietStep ==
  ASSUME IInv, RaceInv, Quiet, UNCHANGED <<op, answer>>, EntriesWhole'
  PROVE  RaceInv'
<1>1. \A t \in Thread : op'[t] = op[t] /\ op'[t].pc \notin Reads \cup Writes
  BY QuietIdle
<1>2. WritersAlone'
  BY <1>1 DEF RaceInv, WritersAlone
<1>3. WritersKnow' /\ ReadersKnow'
  BY <1>1 DEF WritersKnow, ReadersKnow
<1>4. OnlyRacesTear'
  BY DEF RaceInv, OnlyRacesTear, Consistent
<1> QED BY <1>2, <1>3, <1>4 DEF RaceInv

LEMMA NewSearchRaces == ASSUME IInv, RaceInv, NewSearch PROVE RaceInv'
<1>1. /\ UNCHANGED <<table, clearing, stack, op, answer, raced>> /\ Quiet
  BY DEF NewSearch
<1>2. Slots' = Slots /\ (\A c : Cleared(c)' = Cleared(c)) /\ \A s : Entry(s)' = Entry(s)
  BY <1>1 DEF Slots, Clusters, Cleared, Entry
<1>3. \A s \in Slots : Cleared(s[1]) => s \in raced \/ Consistent(Entry(s))
  BY <1>1, QuietIdle DEF RaceInv, EntriesWhole, Writing
<1>4. EntriesWhole'
  BY <1>1, <1>2, <1>3 DEF EntriesWhole, Consistent
<1> QED BY <1>1, <1>4, QuietStep

LEMMA ClearRaces == ASSUME IInv, RaceInv, NewGame \/ Resize PROVE RaceInv'
<1>1. clearing' = Shares /\ UNCHANGED <<op, answer>> /\ Quiet
  BY DEF NewGame, Resize, Clear
<1>2. PICK n \in Nat \ {0} : Clusters' = 0 .. n - 1
  <2>1. CASE NewGame BY <2>1, TableAssumption DEF NewGame, IInv, TypeOK, Clusters
  <2>2. CASE Resize BY <2>2, TableAssumption DEF Resize, Clusters
  <2> QED BY <2>1, <2>2
<1>3. Cardinality(Clusters') = n
  BY <1>2, Sizes
<1>4. \A c \in Clusters' : ~Cleared(c)'
  BY <1>1, <1>2, <1>3, NothingCleared DEF Cleared
<1>5. \A s \in Slots' : s[1] \in Clusters'
  BY DEF Slots
<1>6. EntriesWhole'
  BY <1>4, <1>5 DEF EntriesWhole
<1> QED BY <1>1, <1>6, QuietStep

\* An entry of zeros is the result of nothing.
LEMMA ZeroConsistent == Consistent(Zero)
<1>1. 0 \div Generations = 0 /\ 0 % 4 = 0 /\ 0 \div (4 * Generations) = 0
  <2>1. Generations \in Nat \ {0} /\ 4 * Generations \in Nat \ {0}
    BY Sizes
  <2>2. 0 \div Generations = 0
    BY <2>1, DivUnique
  <2>3. 0 \div (4 * Generations) = 0
    BY <2>1, DivUnique
  <2> QED BY <2>2, <2>3
<1>2. BoundOf(0) = 0 /\ PvOf(0) = FALSE
  BY <1>1 DEF BoundOf, PvOf
<1>3. /\ Zero.value16.of = Zero.key16 /\ Zero.move16 = {} /\ Zero.depth8 = 0 /\ Zero.genBound8 = 0
      /\ Zero.value16.result.depth = DEPTH_NONE /\ Zero.value16.result.bound = 0
      /\ Zero.value16.result.pv = FALSE
  BY DEF Zero, NoResult
<1>4. 0 <= DEPTH_NONE - DEPTH_NONE
  BY DEF DEPTH_NONE
<1> QED BY <1>2, <1>3, <1>4 DEF Consistent

LEMMA ClearShareRaces == ASSUME IInv, RaceInv, NEW i \in clearing, ClearShare(i) PROVE RaceInv'
<1> DEFINE mine == Share(Cardinality(Clusters), ThreadCount, i)
<1>1. /\ table' = [c \in Clusters |-> IF c \in mine THEN [j \in Entries |-> Zero] ELSE table[c]]
      /\ clearing' = clearing \ {i}
      /\ UNCHANGED <<stack, op, answer, raced>>
  BY DEF ClearShare
<1>2. Clusters' = Clusters /\ Slots' = Slots
  BY <1>1 DEF Clusters, Slots
<1>3. Quiet
  BY DEF IInv, FreshIsQuiet
<1>4. \A s \in Slots : Cleared(s[1]) => s \in raced \/ Consistent(Entry(s))
  BY <1>3, QuietIdle DEF RaceInv, EntriesWhole, Writing
<1>5. EntriesWhole'
  <2> SUFFICES ASSUME NEW s \in Slots, Cleared(s[1])', s \notin raced PROVE Consistent(Entry(s)')
    BY <1>1, <1>2 DEF EntriesWhole, Consistent
  <2>1. s[1] \in Clusters /\ s[2] \in Entries
    BY DEF Slots
  <2>2. CASE s[1] \in mine
    <3>1. Entry(s)' = Zero
      BY <1>1, <2>1, <2>2 DEF Entry
    <3> QED BY <3>1, ZeroConsistent
  <2>3. CASE s[1] \notin mine
    <3>1. Entry(s)' = Entry(s)
      BY <1>1, <2>1, <2>3 DEF Entry
    <3>2. Cleared(s[1])
      BY <1>1, <1>2, <2>3 DEF Cleared
    <3> QED BY <1>4, <3>1, <3>2
  <2> QED BY <2>2, <2>3
<1> QED BY <1>1, <1>3, <1>5, QuietStep

LEMMA InitRaceInv == ASSUME Init PROVE RaceInv
<1>1. IInv /\ Quiet
  BY InitIInv DEF Init, Quiet, Searching
<1>2. \A t \in Thread : op[t] = Idle /\ answer[t] = NoAnswer
  BY DEF Init
<1>3. Begins(Idle) /\ Idle.pc \notin Reads \cup Writes /\ ~NoAnswer.hit
  BY IdleBegins
<1>4. WritersAlone /\ WritersKnow /\ ReadersKnow /\ OnlyRacesTear
  BY <1>2, <1>3 DEF WritersAlone, WritersKnow, ReadersKnow, OnlyRacesTear
<1>5. EntriesWhole
  <2>1. PICK n \in Nat \ {0} : Clusters = 0 .. n - 1
    BY TableAssumption DEF Init, Clusters
  <2>2. Cardinality(Clusters) = n
    BY <2>1, Sizes
  <2>3. \A c \in Clusters : ~Cleared(c)
    BY <2>1, <2>2, NothingCleared DEF Init, Cleared
  <2>4. \A s \in Slots : s[1] \in Clusters
    BY DEF Slots
  <2> QED BY <2>3, <2>4 DEF EntriesWhole
<1> QED BY <1>4, <1>5 DEF RaceInv

LEMMA NextRaceInv == ASSUME IInv, RaceInv, [Next]_vars PROVE RaceInv'
<1>1. ASSUME NEW t \in Thread, Visit(t) \/ Probe(t) \/ Leave(t) PROVE RaceInv'
  BY <1>1, OutsideRaces, LookMatchRaces, IsOccupiedRaces, ReadRaces, ReplaceRaces DEF Probe
<1>2. ASSUME NEW t \in Thread, Write(t) \/ Penalize(t) \/ Save(t) PROVE RaceInv'
  BY <1>2, BeginRaces, TestMoveRaces, StoreMoveRaces, TestRaces, StoreFieldRaces,
     LoadDepthRaces, LowerDepthRaces DEF Save
<1>3. ASSUME NewSearch \/ NewGame \/ Resize PROVE RaceInv'
  BY <1>3, NewSearchRaces, ClearRaces
<1>4. ASSUME NEW i \in clearing, ClearShare(i) PROVE RaceInv'
  BY <1>4, ClearShareRaces
<1>5. ASSUME UNCHANGED vars PROVE RaceInv'
  <2>1. /\ UNCHANGED <<table, clearing, stack, op, answer, raced>>
    BY <1>5 DEF vars
  <2>2. /\ Slots' = Slots /\ (\A c : Cleared(c)' = Cleared(c)) /\ (\A s : Entry(s)' = Entry(s))
        /\ \A t \in Thread : Slot(t)' = Slot(t) /\ Lo16(t)' = Lo16(t) /\ MyEntry(t)' = MyEntry(t)
    BY <2>1, SamePlace DEF Slots, Clusters, Cleared, Entry, MyEntry
  <2>3. WritersAlone' /\ WritersKnow' /\ ReadersKnow'
    BY <2>1, <2>2 DEF RaceInv, WritersAlone, WritersKnow, ReadersKnow, Writing
  <2>4. EntriesWhole' /\ OnlyRacesTear'
    BY <2>1, <2>2 DEF RaceInv, EntriesWhole, OnlyRacesTear, Writing, Consistent
  <2> QED BY <2>3, <2>4 DEF RaceInv
<1> QED BY <1>1, <1>2, <1>3, <1>4, <1>5 DEF Next

LEMMA RaceInvariance == Spec => []RaceInv
BY InitIInv, NextIInv, InitRaceInv, NextRaceInv, PTL DEF Spec

-----------------------------------------------------------------------------
(* The theorems.                                                           *)

\* The threads that clear the table divide it: each cluster is in the share of
\* one of them and of no other, for any size of the table and of the pool
\* (tt.cpp:211-215), fewer clusters than threads included.
THEOREM ClearDividesTable ==
  ASSUME NEW count \in Nat, NEW n \in Nat \ {0}, NEW c \in 0 .. count - 1
  PROVE  \E i \in 0 .. n - 1 :
           /\ c \in Share(count, n, i)
           /\ \A j \in 0 .. n - 1 : c \in Share(count, n, j) => j = i
<1>1. PICK i \in 0 .. n - 1 : c \in Share(count, n, i) BY SharesCover
<1>2. ASSUME NEW j \in 0 .. n - 1, c \in Share(count, n, j), j # i PROVE FALSE
  <2>1. CASE i < j BY <1>1, <1>2, <2>1, SharesDisjoint
  <2>2. CASE j < i BY <1>1, <1>2, <2>2, SharesDisjoint
  <2> QED BY <1>2, <2>1, <2>2
<1> QED BY <1>1, <1>2

\* Fields keep their widths: no generation reaches into the bound bits
\* (tt.cpp:239-243) and every writer points into the table.
THEOREM TypesAreKept == Spec => []TypeOK
<1>1. IInv => TypeOK BY DEF IInv
<1> QED BY <1>1, Invariance, PTL

\* No race between saves, penalties and ageing makes an entry claim a depth
\* that was not searched (tt.cpp:91-123, 143-146).
THEOREM DepthsAreSaved == Spec => []DepthsWereSaved
<1>1. ASSUME IInv PROVE DepthsWereSaved
  <2> SUFFICES ASSUME clearing = {}, NEW s \in Slots
               PROVE  Saved(Entry(s).depth8)
    BY DEF DepthsWereSaved, Saved
  <2>1. s[1] \in Clusters /\ s[2] \in Entries BY DEF Slots
  <2> QED BY <1>1, <2>1 DEF IInv, SharesLeft, Cleared, Entry, Sound
<1> QED BY <1>1, Invariance, PTL

\* The age of an entry is right however often the generation has wrapped
\* around (tt.cpp:126-131, 239-243).
THEOREM AgesStayTrue == Spec => []AgesAreTrue
<1>1. ASSUME IInv PROVE AgesAreTrue
  <2> SUFFICES ASSUME clearing = {}, NEW s \in Slots
               PROVE  RelativeAge(generation8, Entry(s).genBound8)
                        = (searches - Entry(s).born) % Generations
    BY DEF AgesAreTrue
  <2> DEFINE g == Entry(s).genBound8
             b == Entry(s).born
  <2>1. s[1] \in Clusters /\ s[2] \in Entries BY DEF Slots
  <2>2. Entry(s) \in Fields /\ TrueAge(Entry(s))
    BY <1>1, <2>1 DEF IInv, TypeOK, SharesLeft, Cleared, Entry, Sound
  <2>3. g \in Int /\ b \in Int /\ searches \in Int /\ generation8 \in 0 .. Generations - 1
        /\ generation8 = searches % Generations /\ g % Generations = b % Generations
    BY <1>1, <2>2, Sizes DEF IInv, TypeOK, GenerationCounts, Fields, TrueAge
  <2> HIDE DEF g, b
  <2>4. generation8 \in Int BY <2>3, Sizes
  <2>5. generation8 % Generations = searches % Generations
    BY <2>3, Sizes, ModTwice
  <2>6. (generation8 - g) % Generations
          = ((generation8 % Generations) - (g % Generations)) % Generations
    BY <2>3, <2>4, Sizes, ModMinus
  <2>7. (searches - b) % Generations
          = ((searches % Generations) - (b % Generations)) % Generations
    BY <2>3, Sizes, ModMinus
  <2>8. (generation8 - g) % Generations = (searches - b) % Generations
    BY <2>3, <2>5, <2>6, <2>7
  <2> QED BY <2>8 DEF RelativeAge, g, b
<1> QED BY <1>1, Invariance, PTL

\* When clear() has returned, and until a search has begun, the whole table is
\* zero, also in memory fresh from resize() (tt.cpp:166-222).
THEOREM TableIsCleared == Spec => []NothingSurvivesClear
<1>1. ASSUME IInv PROVE NothingSurvivesClear
  <2> SUFFICES ASSUME clearing = {}, searches = 0, NEW s \in Slots
               PROVE  Entry(s) = Zero
    BY DEF NothingSurvivesClear
  <2>1. s[1] \in Clusters /\ s[2] \in Entries BY DEF Slots
  <2> QED BY <1>1, <2>1 DEF IInv, SharesLeft, Cleared, Entry
<1> QED BY <1>1, Invariance, PTL

\* Only races tear: a hit that no store disturbed, on an entry that was not
\* raced for, is one result of one position (tt.h:42-43, tt.cpp:91-123, 253-278), for
\* any number of threads and whatever their writers were kept for.
THEOREM OnlyRacesTearEntries == Spec => []OnlyRacesTear
<1>1. RaceInv => OnlyRacesTear BY DEF RaceInv
<1> QED BY <1>1, RaceInvariance, PTL

-----------------------------------------------------------------------------
(***************************************************************************)
(* Proofs about the memory that several engines share, for any number of   *)
(* engines, objects, memories, crashes and failed calls.                   *)
(*                                                                         *)
(* Neither promise is inductive.  That a user reads a whole network rests  *)
(* on the lock that is held from the first byte that is written to the     *)
(* last (LockHeld), on where the constructions are (UnderConstruction) and *)
(* on who may touch the memory that is being filled (UnixFills,            *)
(* WindowsFills): together Filled.  That there is one memory rests, on     *)
(* Unix, on a chain through the sockets: a memory that counts has a server *)
(* (Served), every server is asked before a new memory is made (AsksAll),  *)
(* so that the memory a newcomer gets, or makes because nobody answered,   *)
(* is the one of all that bear one (Agree): together Found.                *)
(***************************************************************************)
\* Each platform has its own steps.
PlacesFit ==
  \A p \in Processes : at[p] \notin (IF Unix THEN WindowsSteps ELSE UnixSteps) \ {"half"}

\* Where a process holds the file lock, or the mutex.
Locked == IF Unix THEN UnixSteps \ {"lock"} ELSE {"check", "half", "flag", "release"}
LockHeld == \A p \in Processes : at[p] \in Locked => lock = p

\* Where the object that is constructed has its memory
Having == {"map", "init", "half", "unlink", "bind", "listen", "unlock",
           "mutex", "wait", "check", "flag", "release"}

Whole(m) == content[m] \in IF Unix THEN {"whole"} ELSE {"flagged"}

\* The object a process constructs has no user yet; a process that is gone
\* has no object.
UnderConstruction ==
  \A p \in Processes :
    /\ Opening(p) => obj[p][cur[p]].state = "none" /\ (obj[p][cur[p]].listening => at[p] = "unlock")
    /\ at[p] \in {"lock", "scan", "create"} => obj[p][cur[p]] = Free
    /\ at[p] \in Having => Mem(p) # 0
    /\ at[p] = "off" => \A o \in Objects : obj[p][o] = Free

\* Whoever uses a memory, or serves it to others, has a whole one.
ReadsWhole ==
  \A p \in Processes, o \in Objects :
    obj[p][o].state = "shared" \/ obj[p][o].listening => obj[p][o].mem # 0 /\ Whole(obj[p][o].mem)

\* The memory that is being initialised is nobody else's, and it is whole afterwards.
UnixFills ==
  Unix => \A p \in Processes :
    /\ at[p] \in {"map", "unlink", "bind", "listen", "unlock"} => Whole(Mem(p))
    /\ at[p] \in {"init", "half"} =>
         \A q \in Processes, o \in Objects : obj[q][o].mem = Mem(p) => q = p /\ o = cur[p]

\* There is one mapping, and its flag is set last.
WindowsFills ==
  ~Unix =>
    /\ \A p \in Processes, o \in Objects : obj[p][o].mem \in {0, 1} /\ ~obj[p][o].listening
    /\ \A p \in Processes :
         /\ at[p] = "half" => content[1] = "half"
         /\ at[p] = "flag" => content[1] = "whole"
         /\ at[p] = "release" => content[1] = "flagged"

Filled == LockHeld /\ PlacesFit /\ UnderConstruction /\ ReadsWhole /\ UnixFills /\ WindowsFills

\* The objects whose memory a newcomer may come to share
Bears(p, o) ==
  \/ Counts(<<p, o>>)
  \/ file[p] = o /\ obj[p][o].listening
  \/ at[p] \in Having /\ o = cur[p]

Agree ==
  \A p, q \in Processes, o, i \in Objects : Bears(p, o) /\ Bears(q, i) => obj[p][o].mem = obj[q][i].mem

\* A memory that counts has a server, if its process is not just replacing it.
Served ==
  \A p \in Processes, o \in Objects : Counts(<<p, o>>) => Listens(p) \/ at[p] \in {"bind", "listen"}

AsksAll == \A p, q \in Processes : at[p] = "scan" /\ Listens(q) => q \in todo[p]

\* What happens to the socket of an object
Sockets ==
  \A p \in Processes :
    /\ at[p] \in {"listen", "unlock"} => file[p] = cur[p]
    /\ at[p] = "unlock" => obj[p][cur[p]].listening
    /\ at[p] = "destroy" => failed[p]

Found == Unix => Served /\ Sockets /\ (~late => Agree /\ AsksAll)

NetworkInv == SharedTypeOK /\ Filled /\ Found

-----------------------------------------------------------------------------
(***************************************************************************)
(* Types                                                                   *)
(***************************************************************************)
LEMMA Constants ==
  /\ 1 \in Objects /\ 0 \notin Objects /\ Objects \subseteq Int
  /\ 1 \in Mems /\ 0 \notin Mems /\ Mems \subseteq Int
  /\ Nobody \notin Processes
  /\ Free \in Object
BY SharedMemoryAssumption DEF Objects, Mems, Free, Object

LEMMA Updates ==
  ASSUME NEW x \in Object
  PROVE  /\ [x EXCEPT !.state = "shared"] \in Object
         /\ [Free EXCEPT !.mem = x.mem] \in Object
BY DEF Object, Free

LEMMA FreeFields ==
  /\ Free.state = "none" /\ Free.mem = 0 /\ Free.listening = FALSE
  /\ \A m : LET x == [Free EXCEPT !.mem = m] IN x.state = "none" /\ x.mem = m /\ x.listening = FALSE
BY DEF Free

LEMMA Unused ==
  ASSUME NEW m, ~InUse(m), NEW p \in Processes, NEW o \in Objects
  PROVE  obj[p][o].mem # m
<1>1. <<p, o>> \in SharedObjects
  BY DEF SharedObjects
<1> QED BY <1>1 DEF InUse

\* A process that dies has no objects, and leaves those of others alone.
LEMMA Death ==
  ASSUME SharedTypeOK, NEW p \in Processes, Crash(p) \/ Exit(p)
  PROVE  /\ at'[p] = "off" /\ \A q \in Processes \ {p} : at'[q] = at[q]
         /\ \A o \in Objects : obj'[p][o] = Free
         /\ \A q \in Processes \ {p} : obj'[q] = obj[q]
         /\ UNCHANGED <<platform, cur, file, content, late, failed>>
BY DEF Crash, Exit, Die, Goto, SharedTypeOK

\* Moving on and replacing an object keep the types.
LEMMA Pieces ==
  ASSUME SharedTypeOK, NEW p \in Processes
  PROVE  /\ \A l \in Place : Goto(p, l) => at' \in [Processes -> Place]
         /\ \A r \in Object : SetObj(p, r) => obj' \in [Processes -> [Objects -> Object]]
         /\ \A m \in Mems : [Free EXCEPT !.mem = m] \in Object
         /\ Mem(p) \in Mems \cup {0} /\ cur[p] \in Objects
         /\ Fault => faults' \in 0 .. MaxFaults
<1>1. cur[p] \in Objects /\ obj[p] \in [Objects -> Object]
  BY DEF SharedTypeOK
<1>2. Mem(p) \in Mems \cup {0}
  BY <1>1 DEF Mem, Object
<1>3. \A l \in Place : Goto(p, l) => at' \in [Processes -> Place]
  BY DEF SharedTypeOK, Goto
<1>4. \A r \in Object : SetObj(p, r) => obj' \in [Processes -> [Objects -> Object]]
  BY <1>1 DEF SharedTypeOK, SetObj
<1>5. \A m \in Mems : [Free EXCEPT !.mem = m] \in Object
  BY DEF Free, Object
<1>6. Fault => faults' \in 0 .. MaxFaults
  BY SharedMemoryAssumption DEF Fault, SharedTypeOK
<1> QED BY <1>1, <1>2, <1>3, <1>4, <1>5, <1>6

\* Who leaves keeps its memory mapped, but loses its servers and, on Unix, its pointers.
LEMMA Leaving ==
  ASSUME SharedTypeOK, NEW p \in Processes, AtExit(p)
  PROVE  /\ obj' \in [Processes -> [Objects -> Object]]
         /\ at[p] = "idle" /\ at' = [at EXCEPT ![p] = "exit"]
         /\ \A o \in Objects :
              /\ obj'[p][o].mem = obj[p][o].mem /\ obj'[p][o].listening = FALSE
              /\ obj'[p][o].state = IF Unix /\ obj[p][o].state = "shared" THEN "null" ELSE obj[p][o].state
         /\ \A q \in Processes \ {p} : obj'[q] = obj[q] /\ file'[q] = file[q]
         /\ UNCHANGED <<platform, cur, todo, lock, mutex, content, faults, late, failed>>
<1>1. obj \in [Processes -> [Objects -> Object]] /\ at \in [Processes -> Place]
  BY DEF SharedTypeOK
<1>2. ASSUME NEW x \in Object
      PROVE  /\ ClosedAtExit(x) \in Object
             /\ ClosedAtExit(x).mem = x.mem /\ ClosedAtExit(x).listening = FALSE
             /\ ClosedAtExit(x).state = IF Unix /\ x.state = "shared" THEN "null" ELSE x.state
  BY DEF ClosedAtExit, Object
<1>3. obj' = [obj EXCEPT ![p] = [o \in Objects |-> ClosedAtExit(obj[p][o])]]
  BY DEF AtExit
<1>4. \A o \in Objects : obj[p][o] \in Object /\ obj'[p][o] = ClosedAtExit(obj[p][o])
  BY <1>1, <1>3
<1>5. obj' \in [Processes -> [Objects -> Object]]
  BY <1>1, <1>2, <1>3, <1>4
<1>6. \A q \in Processes \ {p} : obj'[q] = obj[q] /\ file'[q] = file[q]
  BY <1>1, <1>3 DEF AtExit, SharedTypeOK
<1> QED BY <1>1, <1>2, <1>4, <1>5, <1>6 DEF AtExit, Goto

\* What of it the invariants depend on
LeavesQuietly(p) ==
  /\ at[p] = "idle" /\ at' = [at EXCEPT ![p] = "exit"]
  /\ \A o \in Objects :
       /\ obj'[p][o].mem = obj[p][o].mem /\ ~obj'[p][o].listening
       /\ obj'[p][o].state = "shared" => obj[p][o].state = "shared"
  /\ \A q \in Processes \ {p} : obj'[q] = obj[q]
  /\ UNCHANGED <<platform, cur, content>>

LEMMA Departure ==
  ASSUME SharedTypeOK, NEW p \in Processes, AtExit(p)
  PROVE  LeavesQuietly(p)
BY Leaving DEF LeavesQuietly

LEMMA UnixTypes ==
  ASSUME SharedTypeOK, NEW p \in Processes,
         \/ Lock(p) \/ Receive(p) \/ Refused(p) \/ HungUp(p) \/ TimedOut(p) \/ Create(p) \/ Map(p)
         \/ Initialise(p) \/ Unlink(p) \/ Bind(p) \/ Listen(p) \/ Unlock(p)
  PROVE  SharedTypeOK'
<1> USE DEF SharedTypeOK
<1>1. CASE Lock(p)
  BY <1>1 DEF Lock, Goto, Place, UnixSteps
<1>2. CASE Receive(p)
  <2>1. PICK q \in todo[p] : Listens(q) /\ SetObj(p, [Free EXCEPT !.mem = obj[q][file[q]].mem])
    BY <1>2 DEF Receive
  <2>2. file[q] \in Objects /\ q \in Processes
    BY <2>1 DEF Listens
  <2>3. [Free EXCEPT !.mem = obj[q][file[q]].mem] \in Object
    <3>1. obj[q][file[q]] \in Object
      BY <2>2
    <3> QED BY <3>1, Updates
  <2> QED BY <1>2, <2>1, <2>3, Pieces DEF Receive, Place, UnixSteps
<1>3. CASE Refused(p)
  BY <1>3 DEF Refused
<1>4. CASE HungUp(p)
  BY <1>4 DEF HungUp
<1>5. CASE TimedOut(p)
  BY <1>5, Pieces DEF TimedOut
<1>6. CASE Create(p)
  BY <1>6, Pieces DEF Create, Place, UnixSteps
<1>7. CASE Map(p)
  BY <1>7, Pieces DEF Map, Place, UnixSteps
<1>8. CASE Initialise(p)
  BY <1>8, Pieces DEF Initialise, Put, Place, UnixSteps
<1>9. CASE Unlink(p)
  BY <1>9, Pieces DEF Unlink, Place, UnixSteps
<1>10. CASE Bind(p)
  BY <1>10, Pieces DEF Bind, Place, UnixSteps
<1>11. CASE Listen(p)
  <2>1. [state |-> "none", mem |-> Mem(p), listening |-> TRUE] \in Object
    BY Pieces DEF Object
  <2> QED BY <1>11, <2>1, Pieces DEF Listen, Place, UnixSteps
<1>12. CASE Unlock(p)
  <2>1. obj' = [obj EXCEPT ![p][cur[p]] = [@ EXCEPT !.state = "shared"]] /\ obj[p][cur[p]] \in Object
    BY <1>12, Pieces DEF Unlock
  <2>2. obj' \in [Processes -> [Objects -> Object]]
    BY <2>1, Pieces, Updates
  <2> QED BY <1>12, <2>2, Pieces DEF Unlock, Place
<1> QED BY <1>1, <1>2, <1>3, <1>4, <1>5, <1>6, <1>7, <1>8, <1>9, <1>10, <1>11, <1>12

LEMMA WindowsTypes ==
  ASSUME SharedTypeOK, NEW p \in Processes,
         OpenMapping(p) \/ OpenMutex(p) \/ Wait(p) \/ Check(p) \/ Fill(p) \/ Release(p)
  PROVE  SharedTypeOK'
<1> USE DEF SharedTypeOK
<1>1. CASE OpenMapping(p)
  BY <1>1, Pieces, Constants DEF OpenMapping, Place, WindowsSteps
<1>2. CASE OpenMutex(p)
  BY <1>2, Pieces DEF OpenMutex, Place, WindowsSteps
<1>3. CASE Wait(p)
  BY <1>3, Pieces DEF Wait, Place, WindowsSteps
<1>4. CASE Check(p)
  BY <1>4, Pieces DEF Check, Put, Place, WindowsSteps
<1>5. CASE Fill(p)
  BY <1>5, Pieces DEF Fill, Put, Place, WindowsSteps
<1>6. CASE Release(p)
  <2>1. obj' = [obj EXCEPT ![p][cur[p]] = [@ EXCEPT !.state = "shared"]] /\ obj[p][cur[p]] \in Object
    BY <1>6, Pieces DEF Release
  <2>2. obj' \in [Processes -> [Objects -> Object]]
    BY <2>1, Pieces, Updates
  <2> QED BY <1>6, <2>2, Pieces DEF Release, Place
<1> QED BY <1>1, <1>2, <1>3, <1>4, <1>5, <1>6

LEMMA OtherTypes ==
  ASSUME SharedTypeOK, NEW p \in Processes,
         Start(p) \/ Construct(p) \/ Fail(p) \/ FallBack(p) \/ Close(p) \/ AtExit(p) \/ Exit(p) \/ Crash(p)
  PROVE  SharedTypeOK'
<1> USE DEF SharedTypeOK
<1>1. CASE Start(p)
  BY <1>1, Pieces DEF Start, Place
<1>2. CASE Construct(p)
  BY <1>2, Pieces DEF Construct, Place, UnixSteps, WindowsSteps
<1>3. CASE Fail(p)
  BY <1>3, Pieces DEF Fail, Place
<1>4. CASE FallBack(p)
  <2>1. [Free EXCEPT !.state = "local"] \in Object
    BY DEF Free, Object
  <2> QED BY <1>4, <2>1, Pieces DEF FallBack, Place
<1>5. CASE Close(p)
  <2>1. obj' \in [Processes -> [Objects -> Object]]
    BY <1>5, Constants DEF Close
  <2> QED BY <1>5, <2>1, Pieces DEF Close, Place
<1>6. CASE AtExit(p)
  <2>2. obj' \in [Processes -> [Objects -> Object]]
    BY <1>6, Leaving
  <2> QED BY <1>6, <2>2, Pieces DEF AtExit, Place
<1>7. CASE Exit(p) \/ Crash(p)
  <2>1. Die(p) /\ (faults' = faults \/ Fault)
    BY <1>7 DEF Exit, Crash
  <2>2. obj' \in [Processes -> [Objects -> Object]]
    BY <2>1, Constants DEF Die
  <2> QED BY <2>1, <2>2, Pieces DEF Die, Place
<1> QED BY <1>1, <1>2, <1>3, <1>4, <1>5, <1>6, <1>7

LEMMA NextTypes == SharedTypeOK /\ [SharedNext]_sharedVars => SharedTypeOK'
<1> SUFFICES ASSUME SharedTypeOK, [SharedNext]_sharedVars PROVE SharedTypeOK'
  OBVIOUS
<1>1. CASE UNCHANGED sharedVars
  BY <1>1 DEF sharedVars, SharedTypeOK
<1> QED BY <1>1, UnixTypes, WindowsTypes, OtherTypes DEF SharedNext, Open

-----------------------------------------------------------------------------
(***************************************************************************)
(* The locks                                                               *)
(***************************************************************************)
LEMMA LockStep ==
  ASSUME SharedTypeOK, LockHeld, PlacesFit, [SharedNext]_sharedVars
  PROVE  LockHeld' /\ PlacesFit'
<1> USE DEF LockHeld, PlacesFit, Locked, Unix, UnixSteps, WindowsSteps, Goto
<1>1. /\ platform' = platform /\ at \in [Processes -> Place] /\ Nobody \notin Processes
  BY Constants DEF SharedTypeOK, SharedNext, Open, sharedVars, Start, Construct, Lock, Wait, Receive, Refused, HungUp, Create, Map,
     Initialise, Unlink, Bind, Listen, Unlock, OpenMapping, OpenMutex, Check, Fill, Release, FallBack,
     TimedOut, Fail, Crash, Close, AtExit, Exit, Die
<1>2. CASE UNCHANGED sharedVars
  BY <1>2 DEF sharedVars
<1>3. ASSUME NEW p \in Processes, UNCHANGED lock, NEW l \in {"idle", "closing", "exit", "destroy"}, at[p] \notin Locked, Goto(p, l)
      PROVE  LockHeld' /\ PlacesFit'
  BY <1>1, <1>3
<1>4. ASSUME NEW p \in Processes, Start(p) \/ Construct(p) \/ FallBack(p) \/ Close(p) \/ AtExit(p)
      PROVE  LockHeld' /\ PlacesFit'
  BY <1>1, <1>4 DEF Start, Construct, FallBack, Close, AtExit
<1>5. ASSUME NEW p \in Processes, Lock(p)
      PROVE  LockHeld' /\ PlacesFit'
  BY <1>1, <1>5 DEF Lock
<1>6. ASSUME NEW p \in Processes,
             \/ Receive(p) \/ Create(p) \/ Map(p) \/ Initialise(p) \/ Unlink(p) \/ Bind(p) \/ Listen(p)
      PROVE  LockHeld' /\ PlacesFit'
  BY <1>1, <1>6 DEF Receive, Create, Map, Initialise, Unlink, Bind, Listen
<1>7. ASSUME NEW p \in Processes, Refused(p) \/ HungUp(p) \/ TimedOut(p)
      PROVE  LockHeld' /\ PlacesFit'
  BY <1>1, <1>7 DEF Refused, HungUp, TimedOut
<1>8. ASSUME NEW p \in Processes, Unlock(p)
      PROVE  LockHeld' /\ PlacesFit'
  BY <1>1, <1>8 DEF Unlock
<1>9. ASSUME NEW p \in Processes, OpenMapping(p) \/ OpenMutex(p) \/ Check(p) \/ Fill(p)
      PROVE  LockHeld' /\ PlacesFit'
  BY <1>1, <1>9 DEF OpenMapping, OpenMutex, Check, Fill
<1>10. ASSUME NEW p \in Processes, Wait(p)
      PROVE  LockHeld' /\ PlacesFit'
  BY <1>1, <1>10 DEF Wait, CloseMutex, MutexHolders
<1>11. ASSUME NEW p \in Processes, Release(p)
      PROVE  LockHeld' /\ PlacesFit'
  BY <1>1, <1>11 DEF Release, CloseMutex, MutexHolders
<1>12. ASSUME NEW p \in Processes, Fail(p)
      PROVE  LockHeld' /\ PlacesFit'
  BY <1>1, <1>12 DEF Fail, CanFail
<1>13. ASSUME NEW p \in Processes, Crash(p) \/ Exit(p)
      PROVE  LockHeld' /\ PlacesFit'
  BY <1>1, <1>13 DEF Crash, Exit, Die, CloseMutex, MutexHolders
<1> QED BY <1>2, <1>4, <1>5, <1>6, <1>7, <1>8, <1>9, <1>10, <1>11, <1>12, <1>13 DEF SharedNext, Open

-----------------------------------------------------------------------------
(***************************************************************************)
(* The objects                                                             *)
(***************************************************************************)
\* An object gets its memory while it is constructed, and its user at the end.
LEMMA ConstructionStep ==
  ASSUME SharedTypeOK, PlacesFit, UnderConstruction, ReadsWhole, [SharedNext]_sharedVars
  PROVE  UnderConstruction'
<1> USE DEF UnderConstruction, PlacesFit, Opening, Having, Unix, UnixSteps, WindowsSteps, Goto, Mem, SetObj
<1>1. /\ at \in [Processes -> Place] /\ cur \in [Processes -> Objects]
      /\ obj \in [Processes -> [Objects -> Object]] /\ 1 \in Mems /\ 0 \notin Mems
  BY Constants DEF SharedTypeOK
<1>2. CASE UNCHANGED sharedVars
  BY <1>2 DEF sharedVars
<1>3. ASSUME NEW p \in Processes,
             \/ Start(p) \/ Lock(p) \/ Refused(p) \/ HungUp(p) \/ TimedOut(p) \/ Map(p) \/ Initialise(p)
             \/ Unlink(p) \/ Bind(p) \/ OpenMutex(p) \/ Wait(p) \/ Check(p) \/ Fill(p) \/ Fail(p)
      PROVE  UnderConstruction'
  BY <1>1, <1>3 DEF Start, Lock, Refused, HungUp, TimedOut, Map, Initialise, Unlink, Bind, OpenMutex, Wait,
     Check, Fill, Fail, CanFail
<1>4. ASSUME NEW p \in Processes, Construct(p) PROVE UnderConstruction'
  BY <1>1, <1>4 DEF Construct, Free
<1>5. ASSUME NEW p \in Processes, Create(p) \/ OpenMapping(p) \/ Listen(p) PROVE UnderConstruction'
  <2>1. CASE Create(p)
    BY <1>1, <2>1, FreeFields DEF Create
  <2>2. CASE OpenMapping(p)
    BY <1>1, <2>2, FreeFields DEF OpenMapping
  <2>3. CASE Listen(p)
    BY <1>1, <2>3 DEF Listen
  <2> QED BY <1>5, <2>1, <2>2, <2>3
<1>6. ASSUME NEW p \in Processes, Unlock(p) \/ Release(p) \/ FallBack(p) PROVE UnderConstruction'
  BY <1>1, <1>6 DEF Unlock, Release, FallBack
<1>7. ASSUME NEW p \in Processes, Close(p) \/ Crash(p) \/ Exit(p) PROVE UnderConstruction'
  BY <1>1, <1>7 DEF Close, Crash, Exit, Die
<1>8. ASSUME NEW p \in Processes, Receive(p) PROVE UnderConstruction'
  BY <1>1, <1>8 DEF Receive, Listens, ReadsWhole, Free, SharedTypeOK, Absent
<1>9. ASSUME NEW p \in Processes, AtExit(p) PROVE UnderConstruction'
  <2>1. /\ at[p] = "idle" /\ at' = [at EXCEPT ![p] = "exit"]
        /\ \A q \in Processes \ {p} : obj'[q] = obj[q]
        /\ UNCHANGED <<platform, cur>>
    BY <1>9, Leaving
  <2> QED BY <1>1, <2>1
<1> QED BY <1>2, <1>3, <1>4, <1>5, <1>6, <1>7, <1>8, <1>9 DEF SharedNext, Open

-----------------------------------------------------------------------------
(***************************************************************************)
(* What is in the memory                                                   *)
(***************************************************************************)
LEMMA ReadsStep ==
  ASSUME SharedTypeOK, Filled, [SharedNext]_sharedVars
  PROVE  ReadsWhole'
<1>0. \A p \in Processes : AtExit(p) => LeavesQuietly(p)
  BY Departure
<1> USE DEF Filled, LockHeld, Locked, PlacesFit, UnderConstruction, ReadsWhole, UnixFills, WindowsFills, Whole,
            Opening, Having, Unix, UnixSteps, WindowsSteps, Goto, Mem, SetObj
<1>1. /\ at \in [Processes -> Place] /\ cur \in [Processes -> Objects]
      /\ obj \in [Processes -> [Objects -> Object]] /\ 1 \in Mems /\ 0 \notin Mems
      /\ content \in [Mems -> {"empty", "half", "whole", "flagged"}]
      /\ \A p \in Processes, o \in Objects : obj[p][o].mem \in Mems \cup {0}
  BY Constants DEF SharedTypeOK, Object
<1>2. CASE UNCHANGED sharedVars
  BY <1>2 DEF sharedVars
<1>3. ASSUME NEW p \in Processes, Start(p) \/ Lock(p) \/ Refused(p) \/ HungUp(p) \/ TimedOut(p) \/ Map(p)
      PROVE  ReadsWhole'
  BY <1>1, <1>3 DEF Start, Lock, Refused, HungUp, TimedOut, Map
<1>4. ASSUME NEW p \in Processes, Unlink(p) \/ Bind(p) \/ OpenMutex(p) \/ Wait(p)
      PROVE  ReadsWhole'
  BY <1>1, <1>4 DEF Unlink, Bind, OpenMutex, Wait
<1>5. ASSUME NEW p \in Processes, Fail(p)
      PROVE  ReadsWhole'
  BY <1>1, <1>5 DEF Fail, CanFail
<1>6. ASSUME NEW p \in Processes, Construct(p)
      PROVE  ReadsWhole'
  BY <1>1, <1>6 DEF Construct, Free
<1>7. ASSUME NEW p \in Processes, Receive(p)
      PROVE  ReadsWhole'
  BY <1>1, <1>7, FreeFields DEF Receive, Listens, SharedTypeOK, Absent
<1>8. ASSUME NEW p \in Processes, Create(p)
      PROVE  ReadsWhole'
  BY <1>1, <1>8, Unused, FreeFields DEF Create
<1>9. ASSUME NEW p \in Processes, Initialise(p)
      PROVE  ReadsWhole'
  BY <1>1, <1>9 DEF Initialise, Put
<1>10. ASSUME NEW p \in Processes, Listen(p)
      PROVE  ReadsWhole'
  BY <1>1, <1>10 DEF Listen
<1>11. ASSUME NEW p \in Processes, Unlock(p)
      PROVE  ReadsWhole'
  BY <1>1, <1>11 DEF Unlock
<1>12. ASSUME NEW p \in Processes, OpenMapping(p)
      PROVE  ReadsWhole'
  BY <1>1, <1>12, Unused, FreeFields DEF OpenMapping
<1>13. ASSUME NEW p \in Processes, Check(p)
      PROVE  ReadsWhole'
  BY <1>1, <1>13 DEF Check, Put
<1>14. ASSUME NEW p \in Processes, Fill(p)
      PROVE  ReadsWhole'
  BY <1>1, <1>14 DEF Fill, Put
<1>15. ASSUME NEW p \in Processes, Release(p)
      PROVE  ReadsWhole'
  BY <1>1, <1>15 DEF Release
<1>16. ASSUME NEW p \in Processes, FallBack(p)
      PROVE  ReadsWhole'
  BY <1>1, <1>16 DEF FallBack, Free
<1>17. ASSUME NEW p \in Processes, Close(p)
      PROVE  ReadsWhole'
  BY <1>1, <1>17 DEF Close, Free
<1>18. ASSUME NEW p \in Processes, AtExit(p)
      PROVE  ReadsWhole'
  BY <1>0, <1>1, <1>18 DEF LeavesQuietly
<1>19. ASSUME NEW p \in Processes, Crash(p) \/ Exit(p)
      PROVE  ReadsWhole'
  <2>1. /\ at'[p] = "off" /\ \A q \in Processes \ {p} : at'[q] = at[q]
        /\ \A o \in Objects : obj'[p][o] = Free
        /\ \A q \in Processes \ {p} : obj'[q] = obj[q]
        /\ UNCHANGED <<platform, cur, content>>
    BY <1>19, Death
  <2>2. ASSUME NEW q \in Processes, NEW o \in Objects, (obj[q][o].state = "shared" \/ obj[q][o].listening)'
        PROVE  (obj[q][o].mem # 0 /\ Whole(obj[q][o].mem))'
    <3>1. q # p
      BY <2>1, <2>2, FreeFields
    <3> QED BY <2>1, <2>2, <3>1
  <2> QED BY <2>2
<1> QED BY <1>2, <1>3, <1>4, <1>5, <1>6, <1>7, <1>8, <1>9, <1>10, <1>11, <1>12, <1>13, <1>14, <1>15, <1>16, <1>17, <1>18, <1>19 DEF SharedNext, Open

LEMMA UnixFillsStep ==
  ASSUME SharedTypeOK, Filled, [SharedNext]_sharedVars
  PROVE  UnixFills'
<1>0. \A p \in Processes : AtExit(p) => LeavesQuietly(p)
  BY Departure
<1> USE DEF Filled, LockHeld, Locked, PlacesFit, UnderConstruction, ReadsWhole, UnixFills, WindowsFills, Whole,
            Opening, Having, Unix, UnixSteps, WindowsSteps, Goto, Mem, SetObj
<1>1. /\ at \in [Processes -> Place] /\ cur \in [Processes -> Objects]
      /\ obj \in [Processes -> [Objects -> Object]] /\ 1 \in Mems /\ 0 \notin Mems
      /\ content \in [Mems -> {"empty", "half", "whole", "flagged"}]
      /\ \A p \in Processes, o \in Objects : obj[p][o].mem \in Mems \cup {0}
  BY Constants DEF SharedTypeOK, Object
<1>2. CASE UNCHANGED sharedVars
  BY <1>2 DEF sharedVars
<1>3. ASSUME NEW p \in Processes, Start(p) \/ Lock(p) \/ Refused(p) \/ HungUp(p) \/ TimedOut(p) \/ Map(p)
      PROVE  UnixFills'
  BY <1>1, <1>3 DEF Start, Lock, Refused, HungUp, TimedOut, Map
<1>4. ASSUME NEW p \in Processes, Unlink(p) \/ Bind(p) \/ OpenMutex(p) \/ Wait(p)
      PROVE  UnixFills'
  BY <1>1, <1>4 DEF Unlink, Bind, OpenMutex, Wait
<1>5. ASSUME NEW p \in Processes, Fail(p)
      PROVE  UnixFills'
  BY <1>1, <1>5 DEF Fail, CanFail
<1>6. ASSUME NEW p \in Processes, Construct(p)
      PROVE  UnixFills'
  BY <1>1, <1>6 DEF Construct, Free
<1>7. ASSUME NEW p \in Processes, Receive(p)
      PROVE  UnixFills'
  BY <1>1, <1>7, FreeFields DEF Receive, Listens, SharedTypeOK, Absent
<1>8. ASSUME NEW p \in Processes, Create(p)
      PROVE  UnixFills'
  BY <1>1, <1>8, Unused, FreeFields DEF Create
<1>9. ASSUME NEW p \in Processes, Initialise(p)
      PROVE  UnixFills'
  BY <1>1, <1>9 DEF Initialise, Put
<1>10. ASSUME NEW p \in Processes, Listen(p)
      PROVE  UnixFills'
  BY <1>1, <1>10 DEF Listen
<1>11. ASSUME NEW p \in Processes, Unlock(p)
      PROVE  UnixFills'
  BY <1>1, <1>11 DEF Unlock
<1>12. ASSUME NEW p \in Processes, OpenMapping(p)
      PROVE  UnixFills'
  BY <1>1, <1>12, Unused, FreeFields DEF OpenMapping
<1>13. ASSUME NEW p \in Processes, Check(p)
      PROVE  UnixFills'
  BY <1>1, <1>13 DEF Check, Put
<1>14. ASSUME NEW p \in Processes, Fill(p)
      PROVE  UnixFills'
  BY <1>1, <1>14 DEF Fill, Put
<1>15. ASSUME NEW p \in Processes, Release(p)
      PROVE  UnixFills'
  BY <1>1, <1>15 DEF Release
<1>16. ASSUME NEW p \in Processes, FallBack(p)
      PROVE  UnixFills'
  BY <1>1, <1>16 DEF FallBack, Free
<1>17. ASSUME NEW p \in Processes, Close(p)
      PROVE  UnixFills'
  BY <1>1, <1>17 DEF Close, Free
<1>18. ASSUME NEW p \in Processes, AtExit(p)
      PROVE  UnixFills'
  <2>1. LeavesQuietly(p)
    BY <1>0, <1>18
  <2>2. \A q \in Processes : q # p => at'[q] = at[q] /\ obj'[q] = obj[q]
    BY <1>1, <2>1 DEF LeavesQuietly
  <2>3. at'[p] = "exit" /\ cur' = cur /\ content' = content /\ platform' = platform
    BY <1>1, <2>1 DEF LeavesQuietly
  <2>4. \A q \in Processes, o \in Objects : obj'[q][o].mem = obj[q][o].mem
    BY <2>1, <2>2 DEF LeavesQuietly
  <2> QED BY <1>1, <2>2, <2>3, <2>4
<1>19. ASSUME NEW p \in Processes, Crash(p) \/ Exit(p)
      PROVE  UnixFills'
  <2>1. /\ at'[p] = "off" /\ \A q \in Processes \ {p} : at'[q] = at[q]
        /\ \A o \in Objects : obj'[p][o] = Free
        /\ \A q \in Processes \ {p} : obj'[q] = obj[q]
        /\ UNCHANGED <<platform, cur, content>>
    BY <1>19, Death
  <2> QED BY <1>1, <2>1, FreeFields
<1> QED BY <1>2, <1>3, <1>4, <1>5, <1>6, <1>7, <1>8, <1>9, <1>10, <1>11, <1>12, <1>13, <1>14, <1>15, <1>16, <1>17, <1>18, <1>19 DEF SharedNext, Open

LEMMA WindowsFillsStep ==
  ASSUME SharedTypeOK, Filled, [SharedNext]_sharedVars
  PROVE  WindowsFills'
<1>0. \A p \in Processes : AtExit(p) => LeavesQuietly(p)
  BY Departure
<1> USE DEF Filled, LockHeld, Locked, PlacesFit, UnderConstruction, ReadsWhole, UnixFills, WindowsFills, Whole,
            Opening, Having, Unix, UnixSteps, WindowsSteps, Goto, Mem, SetObj
<1>1. /\ at \in [Processes -> Place] /\ cur \in [Processes -> Objects]
      /\ obj \in [Processes -> [Objects -> Object]] /\ 1 \in Mems /\ 0 \notin Mems
      /\ content \in [Mems -> {"empty", "half", "whole", "flagged"}]
      /\ \A p \in Processes, o \in Objects : obj[p][o].mem \in Mems \cup {0}
  BY Constants DEF SharedTypeOK, Object
<1>2. CASE UNCHANGED sharedVars
  BY <1>2 DEF sharedVars
<1>3. ASSUME NEW p \in Processes, Start(p) \/ Lock(p) \/ Refused(p) \/ HungUp(p) \/ TimedOut(p) \/ Map(p)
      PROVE  WindowsFills'
  BY <1>1, <1>3 DEF Start, Lock, Refused, HungUp, TimedOut, Map
<1>4. ASSUME NEW p \in Processes, Unlink(p) \/ Bind(p) \/ OpenMutex(p) \/ Wait(p)
      PROVE  WindowsFills'
  BY <1>1, <1>4 DEF Unlink, Bind, OpenMutex, Wait
<1>5. ASSUME NEW p \in Processes, Fail(p)
      PROVE  WindowsFills'
  BY <1>1, <1>5 DEF Fail, CanFail
<1>6. ASSUME NEW p \in Processes, Construct(p)
      PROVE  WindowsFills'
  BY <1>1, <1>6 DEF Construct, Free
<1>7. ASSUME NEW p \in Processes, Receive(p)
      PROVE  WindowsFills'
  BY <1>1, <1>7, FreeFields DEF Receive, Listens, SharedTypeOK, Absent
<1>8. ASSUME NEW p \in Processes, Create(p)
      PROVE  WindowsFills'
  BY <1>1, <1>8, Unused, FreeFields DEF Create
<1>9. ASSUME NEW p \in Processes, Initialise(p)
      PROVE  WindowsFills'
  BY <1>1, <1>9 DEF Initialise, Put
<1>10. ASSUME NEW p \in Processes, Listen(p)
      PROVE  WindowsFills'
  BY <1>1, <1>10 DEF Listen
<1>11. ASSUME NEW p \in Processes, Unlock(p)
      PROVE  WindowsFills'
  BY <1>1, <1>11 DEF Unlock
<1>12. ASSUME NEW p \in Processes, OpenMapping(p)
      PROVE  WindowsFills'
  BY <1>1, <1>12, Unused, FreeFields DEF OpenMapping
<1>13. ASSUME NEW p \in Processes, Check(p)
      PROVE  WindowsFills'
  BY <1>1, <1>13 DEF Check, Put
<1>14. ASSUME NEW p \in Processes, Fill(p)
      PROVE  WindowsFills'
  BY <1>1, <1>14 DEF Fill, Put
<1>15. ASSUME NEW p \in Processes, Release(p)
      PROVE  WindowsFills'
  BY <1>1, <1>15 DEF Release
<1>16. ASSUME NEW p \in Processes, FallBack(p)
      PROVE  WindowsFills'
  BY <1>1, <1>16 DEF FallBack, Free
<1>17. ASSUME NEW p \in Processes, Close(p)
      PROVE  WindowsFills'
  BY <1>1, <1>17 DEF Close, Free
<1>18. ASSUME NEW p \in Processes, AtExit(p)
      PROVE  WindowsFills'
  BY <1>0, <1>1, <1>18 DEF LeavesQuietly
<1>19. ASSUME NEW p \in Processes, Crash(p) \/ Exit(p)
      PROVE  WindowsFills'
  <2>1. /\ at'[p] = "off" /\ \A q \in Processes \ {p} : at'[q] = at[q]
        /\ \A o \in Objects : obj'[p][o] = Free
        /\ \A q \in Processes \ {p} : obj'[q] = obj[q]
        /\ UNCHANGED <<platform, cur, content>>
    BY <1>19, Death
  <2> QED BY <1>1, <2>1, FreeFields
<1> QED BY <1>2, <1>3, <1>4, <1>5, <1>6, <1>7, <1>8, <1>9, <1>10, <1>11, <1>12, <1>13, <1>14, <1>15, <1>16, <1>17, <1>18, <1>19 DEF SharedNext, Open

LEMMA FilledStep == SharedTypeOK /\ Filled /\ [SharedNext]_sharedVars => Filled'
BY LockStep, ConstructionStep, ReadsStep, UnixFillsStep, WindowsFillsStep DEF Filled

LEMMA FilledInit == SharedInit => SharedTypeOK /\ Filled
<1> SUFFICES ASSUME SharedInit PROVE SharedTypeOK /\ Filled
  OBVIOUS
<1>1. SharedTypeOK
  <2>1. /\ at \in [Processes -> Place] /\ cur \in [Processes -> Objects] /\ todo \in [Processes -> SUBSET Processes]
        /\ file \in [Processes -> Objects \cup {Absent}] /\ failed \in [Processes -> BOOLEAN]
    BY Constants DEF SharedInit, Place, Absent
  <2>2. obj \in [Processes -> [Objects -> Object]]
    BY Constants DEF SharedInit
  <2>3. content \in [Mems -> {"empty", "half", "whole", "flagged"}]
    BY DEF SharedInit
  <2>4. faults \in 0 .. MaxFaults
    BY SharedMemoryAssumption DEF SharedInit
  <2> QED BY <2>1, <2>2, <2>3, <2>4 DEF SharedInit, SharedTypeOK
<1>2. \A p \in Processes : at[p] = "off" /\ \A o \in Objects : obj[p][o] = Free
  BY DEF SharedInit
<1>3. LockHeld /\ PlacesFit
  BY <1>2 DEF LockHeld, Locked, PlacesFit, UnixSteps, WindowsSteps
<1>4. UnderConstruction
  BY <1>2 DEF UnderConstruction, Opening, UnixSteps, WindowsSteps, Having
<1>5. ReadsWhole /\ UnixFills /\ WindowsFills
  BY <1>2, FreeFields DEF ReadsWhole, UnixFills, WindowsFills
<1> QED BY <1>1, <1>3, <1>4, <1>5 DEF Filled

LEMMA FilledAlways == SharedSpec => [](SharedTypeOK /\ Filled)
<1>1. SharedInit => SharedTypeOK /\ Filled
  BY FilledInit
<1>2. (SharedTypeOK /\ Filled) /\ [SharedNext]_sharedVars => (SharedTypeOK /\ Filled)'
  BY NextTypes, FilledStep
<1> QED BY <1>1, <1>2, PTL DEF SharedSpec

-----------------------------------------------------------------------------
(***************************************************************************)
(* The promise                                                             *)
(***************************************************************************)
Has(p, o) == obj[p][o].state # "none"
Lost(p, o) == obj[p][o].state = "null"

\* With the invariant what is seen depends on the state of an object only.
View(p, o) == IF Lost(p, o) THEN "null" ELSE IF Has(p, o) THEN "whole" ELSE "none"
SeenRight == \A s \in SharedObjects : Seen(s) = View(s[1], s[2])

Seens == [s \in SharedObjects |-> Seen(s)]
Leavers == {s \in SharedObjects : at[s[1]] = "exit"}

LEMMA Pairs == \A s \in SharedObjects : s[1] \in Processes /\ s[2] \in Objects /\ s = <<s[1], s[2]>>
BY DEF SharedObjects

LEMMA SeenIs == SharedTypeOK /\ ReadsWhole => SeenRight
<1> SUFFICES ASSUME SharedTypeOK, ReadsWhole, NEW s \in SharedObjects
             PROVE  Seen(s) = View(s[1], s[2])
  BY DEF SeenRight
<1>1. s[1] \in Processes /\ s[2] \in Objects
  BY Pairs
<1>2. obj[s[1]][s[2]].state \in {"none", "shared", "local", "null"}
  BY <1>1 DEF SharedTypeOK, Object
<1> QED BY <1>1, <1>2 DEF Seen, View, Has, Lost, ReadsWhole, Whole

LEMMA SeenAfter == SharedTypeOK' /\ ReadsWhole' => SeenRight'
BY SeenIs, PTL

\* Steps of processes that neither leave nor end
LEMMA NobodyLeaves ==
  ASSUME \A p \in Processes : (at[p] = "exit")' <=> at[p] = "exit"
  PROVE  Leavers' = Leavers
BY Pairs DEF Leavers

LEMMA Unseen ==
  ASSUME SharedTypeOK, ReadsWhole, SharedTypeOK', ReadsWhole',
         \A p \in Processes : (at[p] = "exit")' <=> at[p] = "exit",
         \A p \in Processes, o \in Objects : obj'[p][o].state = obj[p][o].state
  PROVE  Seens' = Seens /\ Leavers' = Leavers
<1>1. \A p \in Processes, o \in Objects : View(p, o)' = View(p, o)
  BY DEF View, Has, Lost
<1>2. \A s \in SharedObjects : Seen(s)' = Seen(s)
  BY <1>1, Pairs, SeenIs, SeenAfter DEF SeenRight
<1> QED BY <1>2, NobodyLeaves DEF Seens

LEMMA Gets ==
  ASSUME SharedTypeOK, ReadsWhole, SharedTypeOK', ReadsWhole', NEW p \in Processes, NEW o \in Objects,
         \A q \in Processes : (at[q] = "exit")' <=> at[q] = "exit",
         at[p] # "exit", View(p, o) = "none", View(p, o)' = "whole",
         \A q \in Processes, i \in Objects : q # p \/ i # o => View(q, i)' = View(q, i)
  PROVE  Promise!Next
<1>1. <<p, o>> \in SharedObjects /\ <<p, o>> \notin Leavers
  BY DEF SharedObjects, Leavers
<1>2. Seen(<<p, o>>) = "none" /\ Seen(<<p, o>>)' = "whole"
  BY <1>1, SeenIs, SeenAfter DEF SeenRight
<1>3. \A s \in SharedObjects : s # <<p, o>> => Seen(s)' = Seen(s)
  BY Pairs, SeenIs, SeenAfter DEF SeenRight
<1>4. Leavers' = Leavers
  BY NobodyLeaves
<1>5. Promise!Get(<<p, o>>)
  BY <1>1, <1>2, <1>3, <1>4 DEF Promise!Get, Leavers
<1> QED BY <1>1, <1>5 DEF Promise!Next

LEMMA Drops ==
  ASSUME SharedTypeOK, ReadsWhole, SharedTypeOK', ReadsWhole', NEW S \in SUBSET SharedObjects,
         Leavers' = Leavers \ S,
         \A q \in Processes, i \in Objects : View(q, i)' = IF <<q, i>> \in S THEN "none" ELSE View(q, i)
  PROVE  Promise!Next
<1>1. \A s \in SharedObjects : Seen(s)' = IF s \in S THEN "none" ELSE Seen(s)
  BY Pairs, SeenIs, SeenAfter DEF SeenRight
<1>2. Promise!Drop(S)
  BY <1>1 DEF Promise!Drop, Leavers
<1> QED BY <1>2 DEF Promise!Next

LEMMA Leaves ==
  ASSUME SharedTypeOK, ReadsWhole, SharedTypeOK', ReadsWhole', NEW p \in Processes, AtExit(p)
  PROVE  Promise!Next
<1> DEFINE S == {p} \X Objects
<1>0. PICK L : L = {s \in S : Unix /\ obj[s[1]][s[2]].state = "shared"}
  OBVIOUS
<1>1. S \in SUBSET SharedObjects /\ L \in SUBSET S
  BY <1>0 DEF SharedObjects
<1>2. S \cap Leavers = {} /\ Leavers' = Leavers \cup S
  <2>1. at[p] = "idle" /\ at \in [Processes -> Place] /\ at' = [at EXCEPT ![p] = "exit"]
    BY Leaving DEF SharedTypeOK
  <2>2. \A s \in SharedObjects : s \in S <=> s[1] = p
    BY Pairs
  <2>3. \A s \in SharedObjects : at'[s[1]] = IF s \in S THEN "exit" ELSE at[s[1]]
    BY <2>1, <2>2, Pairs
  <2> QED BY <1>1, <2>1, <2>2, <2>3 DEF Leavers
<1>3. ASSUME NEW s \in SharedObjects
      PROVE  Seen(s)' = IF s \in L /\ Seen(s) = "whole" THEN "null" ELSE Seen(s)
  <2>1. s[1] \in Processes /\ s[2] \in Objects /\ (s \in S <=> s[1] = p)
    BY Pairs
  <2>2. Seen(s) = View(s[1], s[2]) /\ Seen(s)' = View(s[1], s[2])'
    BY SeenIs, SeenAfter DEF SeenRight
  <2>3. CASE s[1] = p
    BY <1>0, <2>1, <2>2, <2>3, Leaving DEF View, Has, Lost
  <2>4. CASE s[1] # p
    <3>1. obj'[s[1]] = obj[s[1]]
      BY <2>1, <2>4, Leaving
    <3>2. View(s[1], s[2])' = View(s[1], s[2])
      BY <3>1 DEF View, Has, Lost
    <3> QED BY <1>0, <2>1, <2>2, <2>4, <3>2
  <2> QED BY <2>3, <2>4
<1>4. Promise!Leave(S, L)
  BY <1>2, <1>3 DEF Promise!Leave, Leavers
<1> QED BY <1>1, <1>4 DEF Promise!Next

LEMMA PromiseStep ==
  ASSUME SharedTypeOK, Filled, [SharedNext]_sharedVars
  PROVE  Promise!Next \/ (Seens' = Seens /\ Leavers' = Leavers)
<1>1. SharedTypeOK' /\ Filled'
  BY NextTypes, FilledStep
<1>2. ReadsWhole /\ ReadsWhole' /\ UnderConstruction
  BY <1>1 DEF Filled
<1>3. /\ cur \in [Processes -> Objects] /\ obj \in [Processes -> [Objects -> Object]]
      /\ at \in [Processes -> Place]
  BY DEF SharedTypeOK
<1>4. CASE /\ \A p \in Processes : (at[p] = "exit")' <=> at[p] = "exit"
           /\ \A p \in Processes, o \in Objects : obj'[p][o].state = obj[p][o].state
  BY <1>1, <1>2, <1>4, Unseen
<1>5. ASSUME NEW p \in Processes,
             \/ Start(p) \/ Construct(p) \/ Lock(p) \/ Wait(p) \/ Refused(p) \/ HungUp(p) \/ TimedOut(p)
             \/ Map(p) \/ Initialise(p) \/ Unlink(p) \/ Bind(p) \/ OpenMutex(p) \/ Check(p) \/ Fill(p) \/ Fail(p)
             \/ Receive(p) \/ Create(p) \/ Listen(p) \/ OpenMapping(p)
             \/ Unlock(p) \/ Release(p) \/ FallBack(p) \/ Close(p)
      PROVE  at[p] # "exit" /\ \A q \in Processes : (at[q] = "exit")' <=> at[q] = "exit"
  <2>1. at[p] # "exit" /\ (at' = at \/ \E l \in Place \ {"exit"} : at' = [at EXCEPT ![p] = l])
    BY <1>5 DEF Start, Construct, Lock, Wait, Refused, HungUp, TimedOut, Map, Initialise, Unlink, Bind,
                OpenMutex, Check, Fill, Fail, CanFail, Receive, Create, Listen, OpenMapping, Unlock, Release,
                FallBack, Close, Goto, Place, UnixSteps, WindowsSteps
  <2> QED BY <1>3, <2>1
<1>6. ASSUME NEW p \in Processes,
             \/ Start(p) \/ Construct(p) \/ Lock(p) \/ Wait(p) \/ Refused(p) \/ HungUp(p) \/ TimedOut(p)
             \/ Map(p) \/ Initialise(p) \/ Unlink(p) \/ Bind(p) \/ OpenMutex(p) \/ Check(p) \/ Fill(p) \/ Fail(p)
      PROVE  \A q \in Processes, o \in Objects : obj'[q][o].state = obj[q][o].state
  <2>1. UNCHANGED obj
    BY <1>6 DEF Start, Construct, Lock, Wait, Refused, HungUp, TimedOut, Map, Initialise, Unlink, Bind,
                OpenMutex, Check, Fill, Fail
  <2> QED BY <2>1
<1>7. ASSUME NEW p \in Processes, Receive(p) \/ Create(p) \/ Listen(p) \/ OpenMapping(p)
      PROVE  \A q \in Processes, o \in Objects : obj'[q][o].state = obj[q][o].state
  <2>1. cur[p] \in Objects /\ obj[p][cur[p]].state = "none"
    BY <1>2, <1>3, <1>7
    DEF Receive, Create, Listen, OpenMapping, UnderConstruction, Opening, UnixSteps, WindowsSteps
  <2>2. PICK r : SetObj(p, r) /\ r.state = "none"
    <3>1. CASE Receive(p)
      BY <3>1, FreeFields DEF Receive
    <3>2. CASE Create(p)
      BY <3>2, FreeFields DEF Create
    <3>3. CASE Listen(p)
      BY <3>3 DEF Listen
    <3>4. CASE OpenMapping(p)
      BY <3>4, FreeFields DEF OpenMapping
    <3> QED BY <1>7, <3>1, <3>2, <3>3, <3>4
  <2>3. \A q \in Processes, o \in Objects :
          obj'[q][o].state = IF q = p /\ o = cur[p] THEN "none" ELSE obj[q][o].state
    BY <1>3, <2>1, <2>2 DEF SetObj
  <2> QED BY <2>1, <2>3
<1>8. ASSUME NEW p \in Processes, AtExit(p) PROVE Promise!Next
  BY <1>1, <1>2, <1>8, Leaves
<1>9. ASSUME NEW p \in Processes, Unlock(p) \/ Release(p) \/ FallBack(p) PROVE Promise!Next
  <2>1. /\ obj'[p][cur[p]].state \in {"shared", "local"} /\ obj[p][cur[p]].state = "none"
        /\ \A q \in Processes, o \in Objects : q # p \/ o # cur[p] => obj'[q][o] = obj[q][o]
    <3>1. obj[p][cur[p]] \in Object /\ cur[p] \in Objects
      BY <1>3
    <3>2. [obj[p][cur[p]] EXCEPT !.state = "shared"].state = "shared" /\ [Free EXCEPT !.state = "local"].state = "local"
      BY <3>1 DEF Object, Free
    <3>3. obj[p][cur[p]].state = "none"
      BY <1>2, <1>9 DEF Unlock, Release, FallBack, UnderConstruction, Opening, UnixSteps, WindowsSteps
    <3>4. \/ obj' = [obj EXCEPT ![p][cur[p]] = [@ EXCEPT !.state = "shared"]]
          \/ obj' = [obj EXCEPT ![p][cur[p]] = [Free EXCEPT !.state = "local"]]
      BY <1>9 DEF Unlock, Release, FallBack, SetObj
    <3>5. PICK r : obj' = [obj EXCEPT ![p][cur[p]] = r] /\ r.state \in {"shared", "local"}
      <4>1. CASE obj' = [obj EXCEPT ![p][cur[p]] = [@ EXCEPT !.state = "shared"]]
        <5>1. obj' = [obj EXCEPT ![p][cur[p]] = [obj[p][cur[p]] EXCEPT !.state = "shared"]]
          BY <1>3, <4>1
        <5> QED BY <3>2, <5>1
      <4>2. CASE obj' = [obj EXCEPT ![p][cur[p]] = [Free EXCEPT !.state = "local"]]
        BY <3>2, <4>2
      <4> QED BY <3>4, <4>1, <4>2
    <3> QED BY <1>3, <3>1, <3>3, <3>5
  <2>2. cur[p] \in Objects /\ View(p, cur[p]) = "none"
    BY <1>3, <2>1 DEF View, Has, Lost
  <2>3. View(p, cur[p])' = "whole"
    <3>1. cur' = cur
      BY <1>9 DEF Unlock, Release, FallBack
    <3> QED BY <2>1, <3>1 DEF View, Has, Lost
  <2>4. \A q \in Processes, i \in Objects : q # p \/ i # cur[p] => View(q, i)' = View(q, i)
    BY <2>1 DEF View, Has, Lost
  <2>5. PICK o \in Objects : /\ View(p, o) = "none" /\ View(p, o)' = "whole"
                             /\ \A q \in Processes, i \in Objects : q # p \/ i # o => View(q, i)' = View(q, i)
    <3>1. cur' = cur
      BY <1>9 DEF Unlock, Release, FallBack
    <3> QED BY <2>2, <2>3, <2>4, <3>1
  <2> QED BY <1>1, <1>2, <1>5, <1>9, <2>5, Gets
<1>10. ASSUME NEW p \in Processes, Close(p) PROVE Promise!Next
  <2>1. PICK o \in Objects : obj' = [obj EXCEPT ![p][o] = Free]
    BY <1>10 DEF Close
  <2>2. \A q \in Processes, i \in Objects : View(q, i)' = IF <<q, i>> \in {<<p, o>>} THEN "none" ELSE View(q, i)
    BY <1>3, <2>1, FreeFields DEF View, Has, Lost
  <2>3. {<<p, o>>} \in SUBSET SharedObjects
    BY DEF SharedObjects
  <2>4. Leavers' = Leavers \ {<<p, o>>}
    <3>1. at[p] # "exit" /\ Leavers' = Leavers
      BY <1>5, <1>10, NobodyLeaves
    <3> QED BY <3>1 DEF Leavers
  <2> QED BY <1>1, <1>2, <2>2, <2>3, <2>4, Drops
<1>11. ASSUME NEW p \in Processes, Crash(p) \/ Exit(p) PROVE Promise!Next
  <2>1. /\ \A o \in Objects : obj'[p][o] = Free
        /\ \A q \in Processes \ {p} : obj'[q] = obj[q]
        /\ at'[p] = "off" /\ \A q \in Processes \ {p} : at'[q] = at[q]
    BY <1>11, Death
  <2>2. \A q \in Processes, i \in Objects : View(q, i)' = IF <<q, i>> \in {p} \X Objects THEN "none" ELSE View(q, i)
    BY <2>1, FreeFields DEF View, Has, Lost
  <2>3. {p} \X Objects \in SUBSET SharedObjects
    BY DEF SharedObjects
  <2>4. Leavers' = Leavers \ ({p} \X Objects)
    BY <2>1, Pairs DEF Leavers, SharedObjects
  <2> QED BY <1>1, <1>2, <2>2, <2>3, <2>4, Drops
<1>12. CASE UNCHANGED sharedVars
  BY <1>4, <1>12 DEF sharedVars
<1> QED BY <1>4, <1>5, <1>6, <1>7, <1>8, <1>9, <1>10, <1>11, <1>12 DEF SharedNext, Open

\* Whoever dies in whatever state, an object that was constructed gives access to
\* the whole network until it is dropped or its engine calls exit(), on both platforms.
THEOREM PromiseKept == SharedSpec => KeepsPromise
<1>1. SharedInit => Promise!Init
  <2>1. ASSUME SharedInit, NEW s \in SharedObjects PROVE Seen(s) = "none" /\ at[s[1]] # "exit"
    BY <2>1, FreeFields DEF SharedInit, Seen, SharedObjects
  <2> QED BY <2>1 DEF Promise!Init
<1>2. (SharedTypeOK /\ Filled) /\ [SharedNext]_sharedVars => [Promise!Next]_(Promise!constantVars)
  BY PromiseStep DEF Promise!constantVars, Seens, Leavers
<1> QED BY <1>1, <1>2, FilledAlways, PTL DEF SharedSpec, KeepsPromise, Promise!Spec

-----------------------------------------------------------------------------
(***************************************************************************)
(* One memory                                                              *)
(***************************************************************************)
\* An object that gets its memory has neither a user nor a server yet.
LEMMA Fetched ==
  ASSUME NEW p \in Processes, Receive(p) \/ Create(p)
  PROVE  \E r : SetObj(p, r) /\ r.state = "none" /\ r.listening = FALSE
<1>1. CASE Receive(p)
  BY <1>1, FreeFields DEF Receive
<1>2. CASE Create(p)
  BY <1>2, FreeFields DEF Create
<1> QED BY <1>1, <1>2

\* Of the steps of the sockets only Bind and Unlink touch the file of the process itself.
LEMMA SocketsStep ==
  ASSUME SharedTypeOK, Filled, Unix, Sockets, [SharedNext]_sharedVars
  PROVE  Sockets'
<1> USE DEF Sockets, Goto, SetObj
<1>1. /\ at \in [Processes -> Place] /\ cur \in [Processes -> Objects] /\ file \in [Processes -> Objects \cup {Absent}]
      /\ obj \in [Processes -> [Objects -> Object]] /\ failed \in [Processes -> BOOLEAN]
  BY DEF SharedTypeOK
<1>2. \A p, q \in Processes : at[p] = "scan" /\ at[q] \in {"listen", "unlock"} => FALSE
  BY DEF Filled, LockHeld, Locked, UnixSteps
<1>3. \A p \in Processes : at[p] \notin WindowsSteps \ {"half"}
  BY DEF Filled, PlacesFit
<1>4. CASE UNCHANGED sharedVars
  BY <1>4 DEF sharedVars
<1>5. ASSUME NEW p \in Processes,
             Start(p) \/ Construct(p) \/ Lock(p) \/ HungUp(p) \/ TimedOut(p) \/ Map(p) \/ Initialise(p) \/ Unlink(p)
      PROVE  Sockets'
  BY <1>1, <1>5 DEF Start, Construct, Lock, HungUp, TimedOut, Map, Initialise, Unlink
<1>6. ASSUME NEW p \in Processes, Refused(p) PROVE Sockets'
  BY <1>1, <1>2, <1>6 DEF Refused
<1>7. ASSUME NEW p \in Processes, Receive(p) \/ Create(p) PROVE Sockets'
  BY <1>1, <1>7 DEF Receive, Create
<1>8. ASSUME NEW p \in Processes, Bind(p) \/ Listen(p) PROVE Sockets'
  BY <1>1, <1>8 DEF Bind, Listen
<1>9. ASSUME NEW p \in Processes, Unlock(p) \/ FallBack(p) PROVE Sockets'
  BY <1>1, <1>9 DEF Unlock, FallBack
<1>10. ASSUME NEW p \in Processes, Fail(p) PROVE Sockets'
  BY <1>1, <1>10 DEF Fail
<1>11. ASSUME NEW p \in Processes, Close(p) \/ AtExit(p) PROVE Sockets'
  BY <1>1, <1>11 DEF Close, AtExit
<1>12. ASSUME NEW p \in Processes, Crash(p) \/ Exit(p) PROVE Sockets'
  BY <1>1, <1>12 DEF Crash, Exit, Die
<1>13. ASSUME NEW p \in Processes, OpenMapping(p) \/ OpenMutex(p) \/ Wait(p) \/ Check(p) \/ Fill(p) \/ Release(p)
       PROVE  Sockets'
  BY <1>3, <1>13 DEF OpenMapping, OpenMutex, Wait, Check, Fill, Release, WindowsSteps, Unix
<1> QED BY <1>4, <1>5, <1>6, <1>7, <1>8, <1>9, <1>10, <1>11, <1>12, <1>13 DEF SharedNext, Open

LEMMA ServedStep ==
  ASSUME SharedTypeOK, Filled, Unix, Sockets, Served, [SharedNext]_sharedVars
  PROVE  Served'
<1> USE DEF Served, Counts, Listens, Goto, SetObj
<1>1. /\ at \in [Processes -> Place] /\ cur \in [Processes -> Objects] /\ file \in [Processes -> Objects \cup {Absent}]
      /\ obj \in [Processes -> [Objects -> Object]] /\ failed \in [Processes -> BOOLEAN] /\ Absent \notin Objects
  BY Constants DEF SharedTypeOK, Absent
<1>2. \A p \in Processes : at[p] \notin WindowsSteps \ {"half"}
  BY DEF Filled, PlacesFit
<1>3. \A p \in Processes :
        /\ at[p] = "off" => \A o \in Objects : obj[p][o] = Free
        /\ at[p] = "scan" => obj[p][cur[p]] = Free
  BY DEF Filled, UnderConstruction
<1>4. CASE UNCHANGED sharedVars
  BY <1>4 DEF sharedVars
<1>5. ASSUME NEW p \in Processes, Start(p) PROVE Served'
  BY <1>1, <1>3, <1>5, FreeFields DEF Start
<1>6. ASSUME NEW p \in Processes,
             Construct(p) \/ Lock(p) \/ HungUp(p) \/ TimedOut(p) \/ Map(p) \/ Initialise(p) \/ Unlink(p) \/ Bind(p)
      PROVE  Served'
  BY <1>1, <1>6 DEF Construct, Lock, HungUp, TimedOut, Map, Initialise, Unlink, Bind
<1>7. ASSUME NEW p \in Processes, Refused(p) PROVE Served'
  BY <1>1, <1>7 DEF Refused
<1>8. ASSUME NEW p \in Processes, Receive(p) \/ Create(p) PROVE Served'
  <2>1. PICK r : SetObj(p, r) /\ r.state = "none" /\ r.listening = FALSE
    BY <1>8, Fetched
  <2>2. at[p] = "scan" /\ \A q \in Processes \ {p} : at'[q] = at[q]
    BY <1>1, <1>8 DEF Receive, Create
  <2>3. UNCHANGED <<file, failed>>
    BY <1>8 DEF Receive, Create
  <2>4. \A q \in Processes : at'[q] # at[q] => at[q] = "scan" /\ at'[q] \in {"map", "init"}
    BY <1>1, <1>8 DEF Receive, Create
  <2>5. \A q \in Processes, o \in Objects :
          obj'[q][o] = IF q = p /\ o = cur[p] THEN r ELSE obj[q][o]
    BY <1>1, <2>1
  <2>6. SUFFICES ASSUME NEW q \in Processes, NEW o \in Objects, Counts(<<q, o>>)'
                 PROVE  Listens(q)' \/ at'[q] \in {"bind", "listen"}
    OBVIOUS
  <2>7. Counts(<<q, o>>)
    BY <2>1, <2>3, <2>4, <2>5, <2>6
  <2>8. CASE Listens(q)
    <3>1. ~(q = p /\ file[q] = cur[p])
      BY <1>3, <2>2, <2>8, FreeFields
    <3> QED BY <1>1, <2>3, <2>5, <2>8, <3>1
  <2>9. CASE at[q] \in {"bind", "listen"}
    BY <2>2, <2>4, <2>9
  <2> QED BY <2>7, <2>8, <2>9
<1>9. ASSUME NEW p \in Processes, Listen(p) PROVE Served'
  BY <1>1, <1>9 DEF Listen, Sockets
<1>10. ASSUME NEW p \in Processes, Unlock(p) PROVE Served'
  BY <1>1, <1>10 DEF Unlock, Sockets
<1>11. ASSUME NEW p \in Processes, Fail(p) \/ FallBack(p) PROVE Served'
  BY <1>1, <1>11 DEF Fail, FallBack, Sockets
<1>12. ASSUME NEW p \in Processes, Close(p) PROVE Served'
  BY <1>1, <1>12, FreeFields DEF Close
<1>13. ASSUME NEW p \in Processes, AtExit(p) PROVE Served'
  BY <1>1, <1>13 DEF AtExit
<1>14. ASSUME NEW p \in Processes, Crash(p) \/ Exit(p) PROVE Served'
  BY <1>1, <1>14, Death, FreeFields
<1>15. ASSUME NEW p \in Processes, OpenMapping(p) \/ OpenMutex(p) \/ Wait(p) \/ Check(p) \/ Fill(p) \/ Release(p)
       PROVE  Served'
  BY <1>2, <1>15 DEF OpenMapping, OpenMutex, Wait, Check, Fill, Release, WindowsSteps, Unix
<1> QED BY <1>4, <1>5, <1>6, <1>7, <1>8, <1>9, <1>10, <1>11, <1>12, <1>13, <1>14, <1>15 DEF SharedNext, Open

\* Nobody begins to listen while somebody asks.
LEMMA AsksStep ==
  ASSUME SharedTypeOK, Filled, Unix, Sockets, AsksAll, [SharedNext]_sharedVars, ~late'
  PROVE  AsksAll'
<1> USE DEF AsksAll, Listens, Goto, SetObj
<1>1. /\ at \in [Processes -> Place] /\ cur \in [Processes -> Objects] /\ file \in [Processes -> Objects \cup {Absent}]
      /\ obj \in [Processes -> [Objects -> Object]] /\ todo \in [Processes -> SUBSET Processes] /\ Absent \notin Objects
  BY Constants DEF SharedTypeOK, Absent
<1>2. \A p \in Processes : at[p] \notin WindowsSteps \ {"half"}
  BY DEF Filled, PlacesFit
<1>3. \A p \in Processes :
        /\ at[p] = "off" => \A o \in Objects : obj[p][o] = Free
        /\ at[p] = "bind" => obj[p][cur[p]].listening = FALSE
  BY <1>1 DEF Filled, UnderConstruction, Opening, UnixSteps, Object
<1>4. \A p, q \in Processes : at[p] = "scan" /\ at[q] = "listen" => FALSE
  BY DEF Filled, LockHeld, Locked, UnixSteps
<1>5. CASE UNCHANGED sharedVars
  BY <1>5 DEF sharedVars
<1>6. ASSUME NEW p \in Processes, Start(p) \/ Construct(p) \/ Map(p) \/ Initialise(p) \/ Unlink(p) \/ Fail(p) \/ FallBack(p)
      PROVE  AsksAll'
  BY <1>1, <1>6, FreeFields DEF Start, Construct, Map, Initialise, Unlink, Fail, FallBack
<1>7. ASSUME NEW p \in Processes, Lock(p) PROVE AsksAll'
  BY <1>1, <1>7 DEF Lock
<1>8. ASSUME NEW p \in Processes, HungUp(p) \/ Refused(p) PROVE AsksAll'
  BY <1>1, <1>8 DEF HungUp, Refused
<1>9. ASSUME NEW p \in Processes, Receive(p) \/ Create(p) PROVE AsksAll'
  <2>1. PICK r : SetObj(p, r) /\ r.state = "none" /\ r.listening = FALSE
    BY <1>9, Fetched
  <2> QED BY <1>1, <1>9, <2>1 DEF Receive, Create
<1>10. ASSUME NEW p \in Processes, Bind(p) PROVE AsksAll'
  BY <1>1, <1>3, <1>10 DEF Bind
<1>11. ASSUME NEW p \in Processes, Listen(p) PROVE AsksAll'
  BY <1>1, <1>4, <1>11 DEF Listen
<1>12. ASSUME NEW p \in Processes, Unlock(p) PROVE AsksAll'
  BY <1>1, <1>12 DEF Unlock
<1>13. ASSUME NEW p \in Processes, Close(p) PROVE AsksAll'
  BY <1>1, <1>13, FreeFields DEF Close
<1>14. ASSUME NEW p \in Processes, AtExit(p) PROVE AsksAll'
  <2>1. /\ at[p] = "idle" /\ at' = [at EXCEPT ![p] = "exit"] /\ todo' = todo
        /\ \A o \in Objects : obj'[p][o].listening = FALSE
        /\ \A q \in Processes \ {p} : obj'[q] = obj[q] /\ file'[q] = file[q]
    BY <1>14, Leaving
  <2>2. ~Listens(p)'
    BY <1>1, <1>14, <2>1 DEF AtExit
  <2> QED BY <1>1, <2>1, <2>2
<1>15. ASSUME NEW p \in Processes, Crash(p) \/ Exit(p) PROVE AsksAll'
  <2>1. \A q \in Processes \ {p} : todo'[q] = todo[q]
    BY <1>1, <1>15 DEF Crash, Exit, Die
  <2>2. ~Listens(p)'
    BY <1>1, <1>15, Death, FreeFields
  <2> QED BY <1>1, <1>15, <2>1, <2>2, Death
<1>16. ASSUME NEW p \in Processes, TimedOut(p) PROVE AsksAll'
  BY <1>16 DEF TimedOut
<1>17. ASSUME NEW p \in Processes, OpenMapping(p) \/ OpenMutex(p) \/ Wait(p) \/ Check(p) \/ Fill(p) \/ Release(p)
       PROVE  AsksAll'
  BY <1>2, <1>17 DEF OpenMapping, OpenMutex, Wait, Check, Fill, Release, WindowsSteps, Unix
<1> QED BY <1>5, <1>6, <1>7, <1>8, <1>9, <1>10, <1>11, <1>12, <1>13, <1>14, <1>15, <1>16, <1>17 DEF SharedNext, Open

LEMMA AgreeKept ==
  ASSUME Agree,
         \A p \in Processes, o \in Objects : Bears(p, o)' =>
           \E q \in Processes, i \in Objects : Bears(q, i) /\ obj'[p][o].mem = obj[q][i].mem
  PROVE  Agree'
BY DEF Agree

\* Who is given the memory of a listening socket shares it with whoever has it;
\* who was given none after all were asked is alone.
LEMMA AgreeStep ==
  ASSUME SharedTypeOK, Filled, Unix, Sockets, Served, AsksAll, Agree, [SharedNext]_sharedVars
  PROVE  Agree'
<1> USE DEF Goto, SetObj
<1>1. /\ at \in [Processes -> Place] /\ cur \in [Processes -> Objects] /\ file \in [Processes -> Objects \cup {Absent}]
      /\ obj \in [Processes -> [Objects -> Object]] /\ failed \in [Processes -> BOOLEAN] /\ Absent \notin Objects
  BY Constants DEF SharedTypeOK, Absent
<1>2. \A p \in Processes : at[p] \notin WindowsSteps \ {"half"}
  BY DEF Filled, PlacesFit
<1>3. \A p \in Processes :
        /\ at[p] = "off" => \A o \in Objects : obj[p][o] = Free
        /\ at[p] = "scan" => obj[p][cur[p]] = Free
        /\ at[p] = "bind" => obj[p][cur[p]].listening = FALSE
  BY <1>1 DEF Filled, UnderConstruction, Opening, UnixSteps, Object
<1>4. CASE \A p \in Processes, o \in Objects : Bears(p, o)' => Bears(p, o) /\ obj'[p][o].mem = obj[p][o].mem
  BY <1>4, AgreeKept
<1>5. CASE UNCHANGED sharedVars
  BY <1>4, <1>5 DEF sharedVars, Bears, Counts
<1>6. ASSUME NEW p \in Processes, Start(p)
      PROVE  \A q \in Processes, o \in Objects : Bears(q, o)' => Bears(q, o) /\ obj'[q][o].mem = obj[q][o].mem
  BY <1>1, <1>3, <1>6, FreeFields DEF Start, Bears, Counts, Having
<1>7. ASSUME NEW p \in Processes,
             Construct(p) \/ Lock(p) \/ HungUp(p) \/ TimedOut(p) \/ Map(p) \/ Initialise(p) \/ Unlink(p) \/ Fail(p) \/ Refused(p)
      PROVE  \A q \in Processes, o \in Objects : Bears(q, o)' => Bears(q, o) /\ obj'[q][o].mem = obj[q][o].mem
  BY <1>1, <1>7 DEF Construct, Lock, HungUp, TimedOut, Map, Initialise, Unlink, Fail, Refused, Bears, Counts, Having
<1>8. ASSUME NEW p \in Processes, Bind(p) \/ Listen(p) \/ Unlock(p)
      PROVE  \A q \in Processes, o \in Objects : Bears(q, o)' => Bears(q, o) /\ obj'[q][o].mem = obj[q][o].mem
  <2>1. at[p] \in Having
    BY <1>8 DEF Bind, Listen, Unlock, Having
  <2>2. \A o \in Objects : obj'[p][o].mem = obj[p][o].mem
    <3>1. CASE Bind(p)
      BY <3>1 DEF Bind
    <3>2. CASE Listen(p)
      BY <1>1, <3>2 DEF Listen, Mem
    <3>3. CASE Unlock(p)
      <4>1. obj' = [obj EXCEPT ![p][cur[p]] = [obj[p][cur[p]] EXCEPT !.state = "shared"]] /\ obj[p][cur[p]] \in Object
        BY <1>1, <3>3 DEF Unlock
      <4>2. [obj[p][cur[p]] EXCEPT !.state = "shared"].mem = obj[p][cur[p]].mem
        BY <4>1 DEF Object
      <4> QED BY <1>1, <4>1, <4>2
    <3> QED BY <1>8, <3>1, <3>2, <3>3
  <2>3. \A q \in Processes, o \in Objects : Bears(q, o)' => Bears(q, o)
    BY <1>1, <1>8, <2>1 DEF Bind, Listen, Unlock, Bears, Counts, Having
  <2>4. \A q \in Processes \ {p} : obj'[q] = obj[q]
    BY <1>1, <1>8 DEF Bind, Listen, Unlock
  <2> QED BY <2>2, <2>3, <2>4
<1>9. ASSUME NEW p \in Processes, FallBack(p) \/ Close(p) \/ AtExit(p)
      PROVE  \A q \in Processes, o \in Objects : Bears(q, o)' => Bears(q, o) /\ obj'[q][o].mem = obj[q][o].mem
  <2>1. CASE FallBack(p)
    BY <1>1, <2>1, FreeFields DEF FallBack, Bears, Counts, Having
  <2>2. CASE Close(p)
    BY <1>1, <2>2, FreeFields DEF Close, Bears, Counts, Having
  <2>3. CASE AtExit(p)
    <3>1. /\ at[p] = "idle" /\ at' = [at EXCEPT ![p] = "exit"] /\ cur' = cur /\ failed' = failed
          /\ \A o \in Objects : obj'[p][o].mem = obj[p][o].mem /\ obj'[p][o].listening = FALSE
          /\ \A q \in Processes \ {p} : obj'[q] = obj[q] /\ file'[q] = file[q]
      BY <2>3, Leaving
    <3> QED BY <1>1, <3>1 DEF Bears, Counts, Having
  <2> QED BY <1>9, <2>1, <2>2, <2>3
<1>10. ASSUME NEW p \in Processes, Crash(p) \/ Exit(p)
      PROVE  \A q \in Processes, o \in Objects : Bears(q, o)' => Bears(q, o) /\ obj'[q][o].mem = obj[q][o].mem
  BY <1>1, <1>10, Death, FreeFields DEF Bears, Counts, Having
<1>11. ASSUME NEW p \in Processes, Receive(p) \/ Create(p)
       PROVE  /\ \A q \in Processes, o \in Objects : q # p \/ o # cur[p] =>
                   (Bears(q, o)' => Bears(q, o)) /\ obj'[q][o] = obj[q][o]
              /\ cur' = cur
  <2>1. /\ cur' = cur /\ file' = file /\ failed' = failed
        /\ \A q \in Processes, o \in Objects : q # p \/ o # cur[p] => obj'[q][o] = obj[q][o]
        /\ at'[p] \notin {"closing", "exit"} /\ at[p] = "scan" /\ \A q \in Processes \ {p} : at'[q] = at[q]
    BY <1>1, <1>11 DEF Receive, Create
  <2>2. \A q \in Processes, o \in Objects : q # p \/ o # cur[p] => (Bears(q, o)' => Bears(q, o))
    BY <2>1 DEF Bears, Counts, Having
  <2> QED BY <2>1, <2>2
<1>12. ASSUME NEW p \in Processes, Receive(p) PROVE Agree'
  <2>1. PICK q \in todo[p] : Listens(q) /\ SetObj(p, [Free EXCEPT !.mem = obj[q][file[q]].mem])
    BY <1>12 DEF Receive
  <2>2. q \in Processes /\ file[q] \in Objects /\ Bears(q, file[q])
    BY <1>1, <2>1 DEF SharedTypeOK, Listens, Bears
  <2>3. obj'[p][cur[p]].mem = obj[q][file[q]].mem
    BY <1>1, <2>1, FreeFields
  <2>4. \A s \in Processes, o \in Objects : Bears(s, o)' =>
          \E t \in Processes, i \in Objects : Bears(t, i) /\ obj'[s][o].mem = obj[t][i].mem
    BY <1>11, <1>12, <2>2, <2>3
  <2> QED BY <2>4, AgreeKept
<1>13. ASSUME NEW p \in Processes, Create(p) PROVE Agree'
  <2>1. at[p] = "scan" /\ todo[p] = {}
    BY <1>13 DEF Create
  <2>2. \A q \in Processes : ~Listens(q)
    BY <2>1 DEF AsksAll
  <2>3. \A q \in Processes : at[q] \in Locked => q = p
    BY <2>1 DEF Filled, LockHeld, Locked, UnixSteps
  <2>4. \A q \in Processes : at[q] \notin Having
    BY <1>2, <2>1, <2>3 DEF Having, Locked, UnixSteps, WindowsSteps
  <2>5. \A q \in Processes, o \in Objects : ~Bears(q, o)
    BY <1>1, <2>2, <2>4 DEF Bears, Served, Listens, Having
  <2> QED BY <1>11, <1>13, <2>5 DEF Agree
<1>14. ASSUME NEW p \in Processes, OpenMapping(p) \/ OpenMutex(p) \/ Wait(p) \/ Check(p) \/ Fill(p) \/ Release(p)
       PROVE  Agree'
  BY <1>2, <1>14 DEF OpenMapping, OpenMutex, Wait, Check, Fill, Release, WindowsSteps, Unix
<1> QED BY <1>4, <1>5, <1>6, <1>7, <1>8, <1>9, <1>10, <1>12, <1>13, <1>14 DEF SharedNext, Open

LEMMA FoundStep ==
  ASSUME SharedTypeOK, Filled, Found, [SharedNext]_sharedVars
  PROVE  Found'
<1>1. platform' = platform
  BY DEF SharedNext, Open, sharedVars, Start, Construct, Lock, Wait, Receive, Refused, HungUp, Create, Map,
     Initialise, Unlink, Bind, Listen, Unlock, OpenMapping, OpenMutex, Check, Fill, Release, FallBack,
     TimedOut, Fail, Crash, Close, AtExit, Exit, Die
<1>2. late' = late \/ late' = TRUE
  BY DEF SharedNext, Open, sharedVars, Start, Construct, Lock, Wait, Receive, Refused, HungUp, Create, Map,
     Initialise, Unlink, Bind, Listen, Unlock, OpenMapping, OpenMutex, Check, Fill, Release, FallBack,
     TimedOut, Fail, Crash, Close, AtExit, Exit, Die
<1>3. CASE Unix
  BY <1>1, <1>2, <1>3, SocketsStep, ServedStep, AsksStep, AgreeStep DEF Found
<1>4. CASE ~Unix
  BY <1>1, <1>4 DEF Found, Unix
<1> QED BY <1>3, <1>4

\* One copy of the network for all engines: on Windows it is the mapping, on
\* Unix the one whose server heard the last engine that asked.
THEOREM MemoryIsOne == SharedSpec => []OneMemory
<1>1. SharedInit => Found
  BY FreeFields DEF SharedInit, Found, Served, Counts, Sockets, Agree, Bears, AsksAll, Listens, Having
<1>2. (SharedTypeOK /\ Filled /\ Found) /\ [SharedNext]_sharedVars => Found'
  BY FoundStep
<1>3. SharedTypeOK /\ Filled /\ Found => OneMemory
  <2> SUFFICES ASSUME SharedTypeOK, Filled, Found, ~late, NEW s \in SharedObjects, NEW t \in SharedObjects, Counts(s), Counts(t)
               PROVE  obj[s[1]][s[2]].mem = obj[t[1]][t[2]].mem
    BY DEF OneMemory
  <2>1. /\ s[1] \in Processes /\ s[2] \in Objects /\ s = <<s[1], s[2]>>
        /\ t[1] \in Processes /\ t[2] \in Objects /\ t = <<t[1], t[2]>>
    BY DEF SharedObjects
  <2>2. CASE Unix
    BY <2>1, <2>2 DEF Found, Agree, Bears
  <2>3. CASE ~Unix
    BY <2>1, <2>3 DEF Filled, WindowsFills, ReadsWhole, Counts
  <2> QED BY <2>2, <2>3
<1> QED BY <1>1, <1>2, <1>3, FilledAlways, PTL DEF SharedSpec
=============================================================================
