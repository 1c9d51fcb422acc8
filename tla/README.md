# A TLA+ development of xfish

xfish is a UCI engine for xiangqi (Chinese chess), a descendant of Stockfish and
Pikafish: `src/src/` holds the engine in C++, `src/tools/xfishtest/` a small
distributed tester in Python, `src/scripts/` and `src/tests/` the scripts that
drive the engine from outside. This directory holds specifications of its
concurrent and stateful parts, what TLC finds out about them on small instances,
and theorems about them that TLAPS checks for every instance.

Contents: [1 the system](#1-the-system) · [2 the modules](#2-the-modules) ·
[3 the runs](#3-the-runs) · [4 observations](#4-disagreements-and-observations) ·
[5 the proofs](#5-the-proofs) · [6 what is left out](#6-what-is-only-model-checked-and-what-is-left-out)

## 1 The system

One process, several threads. The **UCI thread** reads commands and carries each
out to its end before it reads the next. A **pool** holds one main search thread
and any number of helpers; they are parked on a condition variable until a
function is posted to them. All of them share, without a lock, the transposition
table, the flags `stop`, `ponder` and `stopOnPonderhit`, the histories of their
NUMA node and the copy of the evaluation network on it.

    GUI ── commands ──▶ UCIEngine::loop ──▶ Engine ──▶ ThreadPool ──▶ Thread (× n)
     ▲                        │ options        │            │            │ idle_loop
     └──── bestmove ──────────┼────────────────┼────────────┼─── Search::Worker
                              ▼                ▼            ▼            │
                          OptionsMap   network copies   TranspositionTable, histories
                                       (per NUMA node)  (shared by the workers)

The components, the state each keeps, its operations, what is hard about it and
what makes it correct:

| component | state | operations | hard behaviour | correct when |
|---|---|---|---|---|
| **Thread** (`thread.cpp`, `thread.h`) | `searching`, `exit`, `jobFunc`, mutex, condition variable, the native thread's place in `idle_loop()` | constructor, `run_custom_job`, `wait_for_search_finished`, destructor | one condition variable for two kinds of waiters, `notify_one()` after the unlock, spurious wake-ups | no wake-up is lost, no function is overwritten, every call returns |
| **ThreadPool, Engine, UCIEngine** (`thread.cpp`, `engine.cpp`, `uci.cpp`, the outer part of `search.cpp`) | the pool and its size, `states` and `setupStates`, the three flags, the limits and root moves of each worker | go, stop, ponderhit, position, ucinewgame, setoption, quit; the main search thread around the tree search | stop and ponderhit at any moment, resize and clear around a search, a UCI thread that blocks itself | one bestmove for each go and not before it is due; every thread searches the last go; shared data is written only while nobody searches |
| **Position: history** (`position.cpp`) | the chain of `StateInfo`, `rule60`, `check10`, `pliesFromNull`, the repetition filter | `do_move`, `undo_move`, null moves, `set`, `rule_judge`, `detect_chases` | counters that bound a walk over pointers, clamps, a filter kept in step by pairs of calls | `rule_judge()` says what the rules say of the game |
| **NUMA and the network** (`numa.h`, `engine.cpp`) | the configuration, the copies of the network, the node of each thread | NumaPolicy, Threads, EvalFile, export_net; `operator[]` from every thread | lazy copies made under double-checked locking, tokens of an old configuration, caches and nodes without processors | nobody reads a copy that is gone, missing or old; nodes are not empty and threads spread evenly |
| **TranspositionTable** (`tt.cpp`) | clusters of three entries of six fields, the generation | `probe`, `write`, `penalize`, `new_search`, `resize`, `clear` | fields written one by one by threads that race, depths decremented below zero, a generation that wraps | an entry that was not raced for is as it was saved; depths and ages stay true; clearing covers the table once |
| **Search::Worker: the tree** (`search.cpp`) | the calls that run, moves made, accumulators pushed, excluded moves, `nmpMinPly`, the arrays of the principal variation | `search()`, `qsearch()`, null moves and their verification, ProbCut, singular and reduced searches | some twenty ways out of a node, a stop between any two steps, pointers into frames | each way out restores what was changed; a value that was cut short is not used |
| **Iterative deepening** (`search.cpp`, `search.h`) | the root moves with their scores, flags and lines, the window, the last best move, `uciPvSent` | one iteration after another, lines, windows that fail, the report to the GUI | a stop between any two of the eight reads of `threads.stop` | losses and mates that were proved stay, those that were not are marked, the GUI has seen the final lines |
| **MovePicker** (`movepick.cpp`) | a stage, one array with four moving bounds | `next_move`, `select`, `skip_quiet_moves` | bad captures kept in the array that is being read | each move once, in the promised order |
| **Attacks, moves, chases** (`attacks.*`, `movegen.*`, `bitboard.*`, `position.cpp`) | a board, pins, check squares | `generate`, `legal`, `pseudo_legal`, `gives_check`, `see_ge`, `chased` | cannons and their hurdles, lame leapers, shortcuts that skip the full test | the same as the rules |
| **NNUE accumulators** (`nnue_accumulator.*`, `nnue/features`) | a stack with `computed` flags, the cache of refreshed accumulators, the changes each move made | `push`, `pop`, `reset`, `evaluate` | updates in both directions from whatever is computed, a cache older than the search | what is evaluated belongs to the position |
| **Shared memory** (`shm.h`, `shm_unix.h`) | a lock file, sockets, a descriptor passed between processes; on Windows a mapping and a mutex | `open`, the server thread, clean-up at exit | engines that crash at any step, calls that fail, servers that are late | one initialised copy for all engines |
| **TimeManagement, `check_time`** (`timeman.cpp`, `search.cpp`) | the bounds for a move, the budget of nodes as time, `callsCnt` | `init`, `elapsed`, `advance_nodes_time`, `check_time` | bounds and countdowns left over from the search before | the maximum time for a move fits the clock; a search stops soon after its limit |
| **The vote** (`ThreadPool::get_best_thread()`) | votes by move | three loops over the threads | proved mates against votes, bounds of aborted searches | a proved mate is played |
| **Values and histories** (`search.cpp`, `history.h`) | entries that threads share | mate scores to and from the table, corrections, updates | widths, rounding, updates that are not atomic | nothing overflows, nothing leaves its bounds or is mistaken for a mate |
| OptionsMap, UCI text (`ucioption.cpp`, `uci.cpp`) | current values | `setoption`, parsing | a value taken although the handler rejects it | not modelled but for the handlers |

`PROJECT.json` lists these and the remaining components, and under `hazards` each
place where the code would be hard to test, with the property that watches over it.

## 2 The modules

| module | models | composed with |
|---|---|---|
| `WorkerThread` | the class `Thread` | instantiated by `SearchPool` |
| `UciProtocol` | what the engine promises the GUI, abstractly | refined by `SearchPool` |
| `SearchPool` | UCI thread, pool, main search thread, helpers | instantiates both |
| `BestThread` | the vote on the thread whose move is played | – |
| `TreeSearch` | the control of `search()` and `qsearch()` | – |
| `Deepening` | `iterative_deepening()` over the root moves | – |
| `MovePicker` | the staged move picker | – |
| `PositionHistory` | the history of a `Position` and `rule_judge()` | – |
| `Attacks`, `Board`, `Chases` | attack tables; moves, checks, exchanges; chases: operators on boards | each extends the one before |
| `Features` | the features and threats the network sums, and the changes to them | extends `Board` |
| `Accumulators` | `do_move()` and the accumulators of a worker | extends `Features` and `Chases` |
| `NumaConfig` | nodes and the distribution of threads, as operators | extended by `NumaReplication` |
| `NumaReplication` | the copies of the network and their readers | – |
| `SharedConstant` | what a shared constant promises, abstractly | refined by `SharedMemory` |
| `SharedMemory` | the two backends, over processes that crash | instantiates `SharedConstant` |
| `TranspositionTable` | the hash table and the threads that probe, save, penalise and clear it | – |
| `TimeManagement` | time for a move, nodes as time, `check_time()` | extends `SearchValues` |
| `SearchValues`, `HistoryEntry` | the arithmetic of values; a history entry shared by threads | the second extends the first |
| `…Proofs` | theorems about the module of that name | extends it |
| `SearchValuesProofs` | theorems about `HistoryEntry`, `BestThread` and `TimeManagement` too | extends them |
| `SharedDataProofs` | theorems about `TranspositionTable` and `SharedMemory` | extends both |
| `MoveOrderProofs` | theorems about `Deepening` and `MovePicker` | extends both |
| `MC…` | values for the constants of the module of that name | extends it |

Definitions named "Mutant of …" stand next to the definition they spoil. They are
in no specification; each shows that one property would notice that mistake.

### WorkerThread

One action per critical section. `cv.wait()` is membership of the set `cv[t]`: a
process in it is asleep, one that was removed (by `notify_one()` or for no reason,
`SpuriousWake`) evaluates its predicate again. `own[t]` is the native thread's
place in `idle_loop()`, `call[p]` the call a client has in flight. The signal of
`run_custom_job()` is a step of its own (`Notify`) since the code sends it after
the unlock. A `Thread` has one condition variable, and signals one waiter. That is
enough only while at most one client has a call in flight on it and a thread does
not call itself: the *contract* `MayConstruct`, `MayCall`, `MayDestroy`. `Next` is
the class under every sequence of calls that keeps the contract; the actions
themselves do not test it, so that a user may break it.

### SearchPool and UciProtocol

Each command of the GUI is an action that goes as far as the first blocking call of
its handler. `ui.loc` is the next statement of the handler, `ui.at` the index of its
loop over the pool, `search` the same for `Worker::start_searching()` in the main
thread. Blocking calls are the steps of `WorkerThread`, instantiated with the pool's
own variables and with the UCI thread and the main thread as clients; that the pool
keeps the contract is the property `KeepsThreadContract == T!Spec`.

The tree search is left out: an iteration ends whenever it likes (`LeaveIterations`,
`AfterIteration`, `FailLow`, `MateFound`), and what it found shows only in the
decisions it leads to. Time is `late`: the clock may run out at any moment after the
search was started. `states` and `setupStates` are the two `std::deque<StateInfo>`
pointers; the lists are numbered, the number of a list that was freed may be used
again, and `worker[t].list` is the list a root state points into.

`UciProtocol` has four Boolean variables: a search was accepted (`thinking`), the GUI
has to release it (`held`), it has nothing to think about (`forced`), it ends by
itself (`bounded`). `SearchPool` computes them from its state (`Thinking`, `Held`,
`Forced`, `Bounded`) and implements `UciProtocol` (`KeepsProtocol == Uci!Spec`). The
class `forced` is there because the code does answer a held search when there is no
choice; see section 4.

### PositionHistory

`states` is the chain of `StateInfo` from the first state to `st`; `Back(k)` follows
`previous` k times. The board is a constant: which boards follow each other by a quiet
move or a capture, on which a side is in check, which pieces a side chases, and in
which slot of the filter a key falls. `DoMove` to `UndoNullMove` and `StartThinking`
(the copy that a search thread makes: `set()` from the FEN, the filter copied, the
state overwritten by the last of `setupStates`) change the chain and its counters as
the code does. `RuleJudge` is the code of `rule_judge()`, with `Repetition` as its
loop, a turn of which is `Look`, and `DetectChases` as the walk back of
`detect_chases()`, a ply of which is `Roll`. Beside it stand *the
rules themselves*, read off the chain without a counter, a filter or an incremental
flag: `QuietRun`, `Visits`, `PassedOver`, `Sentence`, `Inevitable`, `Ruling`. The
properties compare the two.

### NumaConfig and NumaReplication

`NumaConfig` has the pure functions of the class: nodes from the system, from L3
caches bundled by repeated scans (`Scan`, `Bundles`), from a user's list; whether
threads are bound; and the distribution of threads. A machine is what Linux tells of
it. Nodes count from 1.

In `NumaReplication` the UCI thread carries out a command as a list `todo` of steps
(`EvalFile`, `NumaPolicy`, `Threads`, `ExportNet`, `Go` give the lists), while each
thread, the UCI thread included, may be in the middle of `operator[]`: `Check`
without the lock, `Lock`, `Recheck`, `Build` the copy from the first instance,
`Assign` it, `Deref`, `Use`. `Empty` (`instances.clear()`) and an `Assign` over a copy
in use leave the readers with a reference to nothing (`live`). Waiting for threads is
a guard here: how it works is the subject of `SearchPool`.

### TranspositionTable

Each load and each store of a field is a step, since the fields are relaxed atomics
and there is no lock. `op[t]` is the access a thread is in the middle of: a probe
(`LookMatch`, `LookOn`, `IsOccupied`, `Read` field by field, `Replace`), a save in the
order of `TTEntry::save()` (`TestMove` to `LowerDepth`), or a penalty (a load and a
store). `stack[t]` holds the nodes a thread is in, each with the writer its probe
returned: a node writes after its children, when the entry may have been taken over by
another position, of the same thread or of another. When a node may write follows
`search()` and `qsearch()`: a static evaluation only after a miss, a penalty only after
a hit, a result at any later time or never.

The data: a position has the 16 bits of its key that an entry keeps and the number
that chooses the cluster; a value is the result it came from. The packed byte
`genBound8` is a number, with the arithmetic of the code. `eval16` goes with `value16`.
The loads of the replacement loop are one step that may choose any entry while another
thread writes into the cluster, which is more than the code can do. The two other
calls of `probe()` (`search.cpp:851`, `search.cpp:2032`) and `hashfull()` only read.

`born`, `searches`, `alone`, `whole`, `undisturbed` and `raced` are ghosts: in which
search an entry was saved, and which accesses to an entry overlapped. `clear()` zeroes
the shares of its threads in any order; memory fresh from `resize()` is `Junk` until
then.

### BestThread

The three loops of `get_best_thread()` over the threads, one step for each thread.
`line` is what each thread found; `Decisive`, `Shorter`, `Outvotes` are the conditions
of the last loop.

### TreeSearch

`stack` holds the calls that run, a frame each, with the place `at` where the call is:
its step of `search()` or `qsearch()`. A call pushes a frame, a return pops it and
leaves `ret` for the frame below. Values are left out: each comparison may come out
either way, as may each condition on depth, evaluation or history. Of a value remains
whether it can be trusted: it is `void` when the search that returned it was cut short
by a stop. `line` and `acc` are the moves made and the accumulators pushed since the
root, `excluded[p]` and `pv[p]` are fields of the Stack entry of a ply, `pv` naming the
frame whose array it points to; a frame that returns takes its array with it (`Forget`).
`misused` is a history: what void values were used for.

### Deepening

An action of `Deepening` ends where the code reads `threads.stop` again. A root move is
a record with the fields of `RootMove` that the sorts, the reports and the roll back
read; a line is the value that was searched and where. `Search` is `search<Root>()`:
any number of moves in any order, any values, cut off by a stop anywhere (`cut`);
`Pruned` is the root left by ProbCut before any move.
`EndLine` with `Guarded` and `Mistrusted` is what a stopped search may say of the lines
above and below it, `EndIteration` the roll back and the decision to go on.

### MovePicker

`moves` is the array, with `cur`, `endCur`, `endBadCaptures` and `endBadQuiets` as in
the code and counted from 1; an action is a case of the switch of `next_move()`.
`PartialInsertionSort` is the algorithm of the code, not "sorted": `Inserted` is its loop over
the moves, `PlaceFor` the inner one, which looks for the place of a move from the end. Scores,
exchanges and the move of the table are chosen in the initial state.

### Attacks, Board, Chases, Features, Accumulators

The board is the real one, 90 squares and seven kinds of pieces, and these modules are
the functions of the code on it. `Attacks`: what pieces attack, the tables of pairs of
squares; a bitboard is a set, and a table the function it holds. `Board`: pins, check
squares, generated moves, `legal()`, `pseudo_legal()`, `gives_check()`, `see_ge()`.
`Chases`: `chased()`, which `PositionHistory` has as a constant. `Features`: the indices
of features and threats as tuples of what they are computed from, and the threats that
`put_piece()`, `remove_piece()` and their like collect while a move is made.

`Accumulators` makes moves with the state that `do_move()` updates (keys as sets of what
was xored, material, checkers), the stack of accumulators with its flags, and the cache.
A sum of weights is kept as what it sums, a function from indices to multiplicities, so
a missed or doubled change shows. Beside the code stand the rules: who attacks a king,
which moves they allow, exchanges played out capture by capture, chases by trying each
reply. The properties compare them.

### SharedConstant and SharedMemory

`SharedConstant`: an object that was constructed gives access to the whole value until
it is dropped or its engine leaves; an engine that leaves (`leaving`) may lose the pointer
first. `SharedMemory` implements it on two platforms, the Unix backend of `shm_unix.h` and
Windows. The constructor uses the first only where it is not Linux (`shm.h:550-554`, macOS for
instance): engines on Linux have a copy each and share nothing. `at[p]` is where engine
`p` is inside `open()` (Unix) or `initialize()` (Windows); `obj` are its objects, with
the memory they map and whether their server listens; `file[p]` is the object that bound
the path of `p`'s socket (objects of one engine with the same name share it); `lock` is
the file lock or the mutex, `content` how far a memory is initialised. `Crash` ends an
engine anywhere, `Fail` fails a system call, `TimedOut` is a server that is alive and
late; `MaxFaults` bounds them together, `MaxObjects` the objects of an engine and `MaxMems`
the memories there are at a time. `AtExit` is `cleanup_at_exit()`: `ClosedAtExit` ends the
server and, as `reset()` does, leaves a "null" pointer to a memory that stays mapped; the
engine is at "exit", its threads may still search, until `Exit`. The system takes back the lock and the memory of
an engine that died; its socket file stays.

### TimeManagement, SearchValues, HistoryEntry

`TimeManagement` runs one search after another. `Start` is `init()`: `InitUntimed` its
early return, which leaves the bounds of an earlier search; `InitTimed` the rest, with
`IsOptimum` and `IsMaximum` for the formulas: logarithms and powers are left open, what
they may give is any whole number within the caps that the code puts on them. `Look` and
`CountDown` are the two outcomes of `check_time()`. `limits.fits` and `overdue` are
histories. `SearchValues` has the integer arithmetic of mate scores, corrections and
updates, with the division of C++; in `HistoryEntry` the update of an entry is two
steps, `Read` and `Store`, between which other threads come.

## 3 The runs

Passing runs, with all their properties:

| run | question | instance | states |
|---|---|---|---|
| `worker_thread` | is one condition variable with `notify_one()` enough? | two threads; two clients, one of which is the other thread, as the main search thread is a client of the helpers; spurious wake-ups | 5,599 |
| `search` | does the engine answer each go as it should, whatever the GUI sends and whenever? | two threads; a pondering search on the clock, an infinite one, one limited by depth or time and one for a mate; positions with none, one or more moves | 462,365 |
| `pool_life` | can the pool be resized, cleared and shut down around searches? | up to three threads, endless searches that the GUI stops; every command whose handler waits; spurious wake-ups | 72,555 |
| `position_history` | do the counters agree with the game, and the verdicts with the rules? | two pieces and a pawn; chains of up to 10 states; a limit of 1 check and of 6 plies | 81,239 |
| `numa_replication` | can a thread meet a copy that is gone, missing or old? | two machines (two NUMA nodes and a mask; L3 caches that bundle and one that does not), three threads, two networks, five policies, one of them rejected | 273,362 |
| `transposition_table` | what can threads without a lock do to an entry? | two threads, two positions in the last of three clusters of two entries, four results, two nested nodes, two searches, five probes and saves between clearings | 1,285,764 |
| `shared_memory` | do engines share one whole memory whoever dies, and do they all get one? | two engines with two objects of the same name each, both platforms, one crash, failed call or late server anywhere | 79,395 |
| `search_tree` | does every way out of a node restore what was changed, and is a stopped search ignored? | three plies, two moves at the first and the third, a stop anywhere | 1,047,272 |
| `move_picker` | is each move given once and in order? | three captures, three quiet moves, two and three scores, every exchange and move of the table, the four kinds of searches, three depths | 1,863,776 |
| `evaluation` | do incremental evaluation, moves, checks, exchanges and chases agree with the rules? | 772 positions, four of them searched with up to three moves in one or two searches, another position, two networks | 9,173 |
| `deepening` | what does a stop leave in the root moves, and what has the GUI seen? | three root moves; one, two and three lines, a helper; three values, two iterations, windows that fail on both sides | 1,828,060 |

What the properties say:

* `worker_thread`: `NoLostWakeup` (a thread asleep with a function posted has a signal
  still to come; no client sleeps on an idle thread), `PostedJobIsTaken`,
  `CallsReturn` (every call returns).
* `search`: `SameSearch` (every searching thread has the limits, the root moves and a
  live list of the last go), `VoteReadsFinishedHelpers`, `KeepsProtocol` (the
  refinement), `AnswersGui` (a search that nothing holds and that has a limit is
  answered).
* `pool_life`: `QuietWhenWritten` (jobs that write histories, table or root positions run
  only while nobody searches and no search is about to begin, and nobody does when the
  UI thread itself writes, past the wait of a handler: options, list of states, table,
  pool; `stop`, `ponderhit` and `position` do not wait), `CapturesLive` (the
  functions that capture the locals of `start_thinking()` have run before it goes on),
  `KeepsThreadContract` (the refinement), `HandlersReturn`.
* `position_history`: `WindowIsQuietRun` (the walk of `rule_judge()` covers the longest
  run of quiet moves, no more and no less), `FilterCountsVisits`, `ClockFollowsRule`
  (rule 60 with its limit on checks), `JudgedByTheRules`.
* `numa_replication`: `ConfigIsSound`, `Balanced` (no thread would be better off on
  another node), `HistoriesCleared` (the ranges that the workers of a node clear cover
  it once), `ReferencesLive` (nobody uses a copy that was freed, and the index of
  `operator[]` is in range, as its assertion says), `CopiesAgree` (every copy, and the
  refresh table of every searching worker, is of the network named last). No deadlock is
  the check that no command waits for ever.
* `transposition_table`: `DepthsWereSaved` (no entry claims a depth that was not saved,
  as one that wrapped around would), `OnlyRacesTear` (a hit is consistent unless a store
  disturbed it or the last writers of the entry overlapped), `AgesAreTrue`,
  `NothingSurvivesClear`.
* `shared_memory`: `KeepsPromise` (the refinement of `SharedConstant`: no reader ever
  sees a memory half initialised or initialised again, nor loses it before it drops it or
  its own engine calls `exit()`), `OneMemory` (the engines share
  one copy, but for those whose construction failed and after a server was late),
  `OpensReturn` (every construction ends, unless the Windows mutex was leaked).
* `search_tree`: `Balanced` (each frame finds as many moves made, accumulators pushed
  and moves excluded as belong to its ply; two null moves never follow one another),
  `LinesLive` (a PV node writes to an array that exists, and reads its own),
  `StoppedIsDiscarded` (a void value, handed on however often, reaches no root move, no
  variation and no entry that a node writes at its end; what ProbCut saves is left to
  `search_tree_stop`).
* `move_picker`: `GivesAllInOrder`: each move that was asked for once, none made up, the
  classes in their order and better scores first, down to the limit of the sort.
* `evaluation`: `AccumulatorsMatch`, `StateIsRecomputed` (what `do_move()` keeps is what
  `set_state()` computes), `LegalMovesAreRight`, `ChecksAreForeseen`,
  `ExchangesAreRight`, `ChasesAreRight`.
* `deepening`: `ShownIsFinal` (if `uciPvSent` says so, the lines that the GUI saw last
  are those of the root moves), `LinesAreSound` (exact scores come with the line that
  proves them, no unproved loss of the line that was cut short is left as exact, a mate
  once proved is kept), `LossesKeepTheirPlace` (lines proved lost are not overtaken by a
  line that was stopped).

A type invariant is part of the first invariant of most runs (`TypeOK` is a conjunct of
`QuietWhenWritten`, `FilterCountsVisits`, `ReferencesLive`, `Balanced`, `SharedTypeOK` of
`OneMemory`); those of `WorkerThread`, `TranspositionTable`, `Deepening` (`DeepeningTypes`)
and `MovePicker` (`PickerTypes`) are proved.

### Bounds

* `MaxThreads`, 2 or 3: the main thread and one helper show every order between two
  of them; a third makes the loops over the pool go round more than once and puts two
  threads on one node.
* `Roots`, cut at 2: the code only distinguishes none, one and more root moves.
* `Deque`, 0 to 3: the null pointer, the two lists in use and the new one that exists
  before the old is freed.
* `Commands` and `Limits` split the questions: in `search` the pool keeps its size and
  every kind of go is sent; in `pool_life` all searches are endless, the hardest kind
  to shut down.
* `Spurious` is FALSE in `search` only: spurious wake-ups of the same threads are
  covered by `pool_life`, by `worker_thread` and by the proof.
* `Polite`: a GUI that knows the protocol does not send a command whose handler waits
  while a search is held or endless; section 4 says what happens otherwise.
* `CheckLimit` is 10 and `Rule60` is 120 in the code, 1 and 6 in the run: the limits
  are only compared with, and with these every branch (the check that no longer
  counts, its answer, a third occurrence by checks, by a chase or by neither, rule 60
  with and without a legal move) is reached within the ten states of `MaxStates`.
  `Wrap` is 256 as in the code and never reached.
* `BundleSize` is 32 in the code and 2 in the run, where domains of 1, 1 and 2
  processors bundle, and do not.
* In `transposition_table`, one thread's save can meet a probe, a save or a penalty of
  the other, and with `MaxNesting` 2 a writer can come late to an entry that its own
  child or the other thread has taken over. `MCResults` takes each way through `save()`:
  a static evaluation, an exact score, a shallow bound, and a deep mate that the
  secondary ageing lowers. One of the positions has the key 0 of an empty entry, and
  both lie in the last cluster, which the last thread clears with the remainder (3
  clusters, 2 threads). With one bit the generation wraps around in the second of
  `MaxSearches` searches. With `MaxWork` 5 a node, its child, the saves of both
  and a later probe of the same entry fit between two clearings. The clusters
  have three entries and the generation five bits in the code; the proofs hold for any
  number.
* `ExportInSearch` is FALSE: `export_net` is only sent between searches; section 4 says
  what happens otherwise. The machines have few processors and the bundles two; the proofs
  hold for any.
* `shared_memory`: two engines, since what one does concerns another only through the
  file, the lock and the memory; two objects of one name, since they share a path. With
  one fault every step of `open()` is interrupted once, also while the other engine is
  anywhere; process numbers are used again. Four objects (`MaxObjects` 2) never need more
  than three memories at a time (`MaxMems` 3). The proofs hold for any numbers.
* `search_tree`: three plies hold a null move, its verification, a singular search
  inside a child and `qsearch()` below; a second move where what follows the first
  matters. `MAX_PLY` is 246 in the code and the proof holds for any.
* `move_picker`: with three captures and three quiet moves the array is written before,
  at and behind the place that is read. The scores lie on both sides of the limits of the
  sort at depths 1 and 5 and of a good quiet move.
* `evaluation`: positions with few pieces, chosen so that kings cross the middle file,
  attackers are taken, cannons stand hollow or behind hurdles, and knights, bishops and
  advisors are stopped or pinned; the four that are searched go to six squares.
* `deepening`: values and windows are small numbers around the threshold `Decisive`; a
  loss may be longer or shorter, a mate too; two iterations (`MaxPly` 3) so that there
  is a last score to go back to.

### Fairness

Only weak fairness, and only on the engine: the operating system runs every thread
that can run (`OwnerStep`, `ClientStep`, `FinishJob`, `UiStep`, `JobStep`); a search
notices `stop`, the end of its depth and the end of its time (`MainStep`); time passes
(`TimeRunsOut`). The GUI owes nothing: no command is ever assumed to come. A tree
search that is not told to stop need not end, and a condition variable need not wake up
without reason. `WF` on a mutex is enough because critical sections are single steps.

In `shared_memory` the system takes turns: a process inside `open()` goes on, one that
exits ends, and those that wait for the lock get it in turn (`SF` on `Lock` and `Wait`,
since it is taken and given back meanwhile). Crashes, failures and late servers are owed
by nobody.

The other runs have no liveness properties and no fairness. `CHECK_DEADLOCK FALSE` stands
where the system stops of itself: `position_history` (at `MaxStates` or without a move),
`transposition_table`, `evaluation` (when the bounds are used up), `move_picker` and
`deepening` (when done), `shared_memory` (an engine that fell back need not do anything).

## 4 Disagreements and observations

One run ends in a counterexample, `search_tree_stop` (`TableIsTrusted`): ProbCut saves
the value of the search of its capture as a lower bound (`search.cpp:988`) without asking
whether that search was stopped. A stopped search returns a draw or zero, so when `beta`
is low enough a made-up bound stays in the table. The comment at `search.cpp:1316` says
that after a stop the table is not updated.

What follows was met while modelling. Definitions that state the behaviour a comment
promises, and that the code does not keep, stay in the modules under the names given,
in no run.

* With a single legal move the main thread stops the search under time management even
  while it ponders (`search.cpp:559`, `PonderingGoesOn` of `SearchPool`); the comments
  at `search.cpp:569` and `search.cpp:948` say that it goes on until the GUI says
  otherwise.
* Without a legal move `go ponder` and `go infinite` are answered at once
  (`search.cpp:193`, `BestmoveAwaitsGui`), before the wait that the comment at
  `search.cpp:205` explains. Such a search is not charged to nodes as time either.
* `go` waits for the search before (`thread.cpp:288`, `GoReturns`), although `engine.h:65`
  and `thread.cpp:284` call it non-blocking. Sent during an endless search it blocks the
  only thread that could read `stop`; only an impolite GUI gets there (`Polite`).
* `export_net` replaces the copies of the network without waiting for the search
  (`engine.cpp:291`, with `ExportInSearch`): a searching thread indexes an empty vector or
  keeps a reference into a network that was freed.
* `ensure_present()` looks at a copy without the lock while another thread may be
  assigning it (`numa.h:1595`, `SurvivesRaces`). In the middle of an assignment the
  `std::variant` has no value, and `std::visit` throws in a function that is `noexcept`.
* A NumaPolicy that is rejected "keeping previous config" (`engine.cpp:79`) still becomes
  the value of the option, and the next change of `Threads` binds threads as if it had
  been accepted (`Accepted`, `Binds`).
* `remove_empty_numa_nodes()` renumbers the nodes but not `nodeByCpu` (`numa.h:983`).
* The error of `rootPos.set()` is ignored (`thread.cpp:329`).
* `close(AtExit)` does not unmap the memory, "as this may cause currently searching threads to
  segfault" (`shm_unix.h:304`), but goes on to `reset()` (`shm_unix.h:316`), which sets
  `data_ptr_` to null (`shm_unix.h:347`). A thread that searches while the program exits gets
  to the network through that pointer (`shm.h:418`) and so finds null (`ReadableAtExit`,
  `ClosedAtExit`). `SharedConstant` promises nothing to an engine that is leaving.
* The mutex of Windows that a dead thread abandoned is taken and its handle closed
  without a release (`shm.h:338`): engines wait for it until that one ends (`Leaked`).
* When stop is raised just after the lines of the first iteration were shown, the best
  line is taken for aborted and a loss marked as a bound that the GUI was told is exact
  (`ShownAsIs` of `Deepening`); when the first line is aborted with a loss and the last best
  move brought back, the move it replaces keeps its exact loss (`AbortedLossesAreBounds`).
* `TimeManagement::init()` returns before it sets the bounds when only the opponent has a
  clock (`timeman.cpp:58`), while `use_time_management()` asks for either clock: bounds
  of an earlier search, or never set, are compared with (`InitUntimed`).
* With `nodestime` a budget of less than a millisecond's worth gives a scaled clock of 0,
  whose logarithm times a negative `originalTimeAdjust` is an infinity that no `TimePoint`
  holds (`timeman.cpp:109`, `Undefined`). With `nodestime` a `movetime` counts nodes.
* `callsCnt` is not reset by `go` (`search.cpp:1931`); it costs at most 512 calls, see
  `StoppedInTime`. For limits of 2^41 nodes and more the conversion at `search.cpp:1935`
  overflows.
* `value_from_tt()` is not monotone: a mate far enough from the root falls below the score
  that a doubtful mate is downgraded to.

## 5 The proofs

### WorkerThreadProofs

`WorkerThreadProofs` proves, for any sets of threads, clients and functions
(`ThreadAssumption`: there is a thread and a function, and the empty function is none
of them):

* `TypeCorrect == Spec => []TypeOK`
* `WakeupsArrive == Spec => []NoLostWakeup`
* `JobsArrive == Spec => PostedJobIsTaken`

`NoLostWakeup` is not inductive. That a `notify_one()` reaches the right sleeper needs
to know that only one client can be asleep on a thread, that a thread out of
`idle_loop()` is not in its own wait set, and that `searching` is up while a thread is
busy. The inductive invariant is

    IInv == TypeOK /\ Exclusive /\ Sleepers /\ OwnerSleeps /\ BusySearching
            /\ JobPosted /\ CallsInOrder /\ NoLostWakeup

with `Exclusive`: two clients never have calls in flight on the same thread (the
contract, kept as an invariant); `Sleepers`: a client in a wait set is in a call that
waits there, and `searching` is up; `OwnerSleeps`: a thread in its own wait set is parked; `BusySearching`: a
thread out of its wait has `searching` up; `JobPosted`: a parked thread that is to wake
up finds a function; `CallsInOrder`: a call is on an existing thread other than
its caller, `run_custom_job()` has a function to post, and only a destructor joins. `InitIInv` and one lemma per action
give `NextIInv`; `Invariance` and the theorems follow by temporal logic. `JobsArrive` is
an action property: `IInv` excludes that `run_custom_job()` meets a function that was
not taken, because `searching` is up as long as there is one.

The theorem speaks of every user of the class that keeps the contract; that the engine
is one is `ContractKept`, below.

### SearchPoolProofs

For any number of threads, any set of limits that a `go` may carry, any sequence of
commands, and with or without spurious wake-ups (`PoolAssumption`):

* `TypeCorrect == Spec => []TypeOK`
* `ContractKept == Spec => KeepsThreadContract`, the refinement of `WorkerThread`, and from
  it `PoolLosesNoWakeup == Spec => []T!NoLostWakeup`
* `WrittenInQuiet == Spec => []QuietWhenWritten`: of the jobs that write, and of the UI thread
  past the wait of its handler. `stop`, `ponderhit` and `position`, which write without
  a wait, are not covered
* `CapturesOutliveJobs == Spec => []CapturesLive`
* `VoteAfterSearch == Spec => []VoteReadsFinishedHelpers`
* `AllSearchTheSame == Spec => []SameSearch`
* `ProtocolKept`: `Spec => KeepsProtocol`, the refinement of `UciProtocol`, if no limits of
  an endless search have a clock or a number of nodes (`EndlessIsBare`). The protocol says
  of `go infinite` that only the GUI ends it; the code would let the clock of a `go infinite
  wtime ...` end it, which no GUI sends and the limits of the runs do not have either.

None of these is inductive. Which thread may be busy with what follows from the statement
the UCI thread has come to, from how far its loop over the pool is, from the call it is in,
and from the same three of the main search thread. The invariant has three layers.
`Control` says what the loops and the waits have established: a thread is `Settled` when
one that is over, or has passed it, says that it is done, or it has not been given its job
yet; settled threads are idle (`SettledIsIdle`), and a job is only posted on a thread that is
not settled, and is the job the handler has come to (`PostedIsWork`). `Existence`, `UiCalls`
and `MainCalls` say which threads there are and which calls are in flight. That a wait that
returned means an idle thread, and that a job is taken, comes from the invariant of
`WorkerThreadProofs` (`TP!IInv`); each step of the pool is shown to be one that
`WorkerThread` allows, which is the refinement and keeps that invariant. `DataInv` says what
the workers hold: in the loop that copies the search each worker has its copy, has the job
posted that makes it, or is still to come (`Copied`), so that after the loop all hold the same
(`SearchIsOne`), with a list of states that the pool still owns (`Lists`). `StopIsJustified`
says why `stop` is up: the GUI said so, there is nothing to choose, or the search may end by
itself. The protocol needs it: a bestmove comes after `stop`, which comes for one of these.

### SharedDataProofs: the shared memory

For any number of engines, objects of an engine, memories, crashes, failed calls and late
answers, on both platforms:

* `PromiseKept == SharedSpec => KeepsPromise`, the refinement of `SharedConstant`: an object
  reads the whole network until it is dropped or its engine calls `exit()`, and after that
  the whole network or a null pointer
* `MemoryIsOne == SharedSpec => []OneMemory`

The inductive invariant is `NetworkInv == SharedTypeOK /\ Filled /\ Found`.

`Filled` is the half of the promise. A memory that somebody uses or serves is whole
(`ReadsWhole`); the one that is being filled is nobody else's on Unix (`UnixFills`), and on
Windows, where all map the one that has the name, the mutex is held from the first byte to the
flag (`WindowsFills`, `LockHeld`). A crash in between gives the lock back, and the memory is
filled again by the next one, who finds no flag: nobody had come to use it. An engine that
leaves takes the pointer from its own objects only (`Leaves`, `Departure`).

`Found` is the half of the one memory, and a chain through the sockets of Unix: an engine
whose memory counts is listening, or is just about to (`Served`); a newcomer under the file
lock asks every socket that listens (`AsksAll`); therefore it gets the memory that there is,
and makes one only when there is none that counts (`Agree`). The chain breaks where the code
can break it: a server that is alive and late (`late`), from which on nothing is claimed. That
objects of one engine share the path of their socket is why `Agree` speaks of every object
that bears a memory and not only of those in use.

### SharedDataProofs: the hash table

For any number of threads, entries of a cluster, clusters, bits of the generation,
results and nested nodes (the assumptions are that these numbers are not zero, and
what `save()` asserts of the depth):

* `ClearDividesTable`: each cluster is in the share of exactly one of the threads that
  clear the table, also when there are fewer clusters than threads
* `TypesAreKept == Spec => []TypeOK`
* `DepthsAreSaved == Spec => []DepthsWereSaved`
* `AgesStayTrue == Spec => []AgesAreTrue`
* `TableIsCleared == Spec => []NothingSurvivesClear`
* `OnlyRacesTearEntries == Spec => []OnlyRacesTear`

For all but the last the inductive invariant is

    IInv == TypeOK /\ InNode /\ FreshIsQuiet /\ OpSound /\ SharesLeft /\ GenerationCounts

Memory fresh from `resize()` holds any depth until it has been cleared: `SharesLeft`
says that what is in nobody's share any more holds sound entries, and zeroes until the
first search, and `FreshIsQuiet` that nobody is in a node before that; the division of
the table enters through `SharesCover`. `OpSound` carries what a thread has read before
to the store it does later: the depth that a penalty or the ageing lowers was a saved
one when it was loaded, whatever has happened to the entry in between. `GenerationCounts`
and `TrueAge` (a part of `SharesLeft`) relate the generation and the low bits of
`genBound8` to the number of the search; that differences of them are ages is arithmetic
of remainders (`ModMinus`), proved in the module, with a generation that does not spill
into the other bits (`PackGeneration`).

`OnlyRacesTear` is about a copy that is finished; a second invariant, `RaceInv`, says of an
access under way what it may rely on as long as no store of another thread has met it
(`WritersAlone`: nobody has met the writers of a slot that was not raced for).

* `WritersKnow`: of a writer that decides to replace the entry, `Knows` says which fields are
  already its own. The argument of `save()` is there: if the move was stored it is of this
  position, and if it was kept the key was already this position's.
* `ReadersKnow`: what a reader has copied is still in the entry, and no writer has begun
  to store since it began to read.
* `EntriesWhole`: an entry is raced for, consistent, or has a writer that `Owes` it the rest: one
  that has stored its move over another position's and will find that the keys differ
  (`testKey`), or one in the middle of storing all of it. This is why the second comparison of
  the keys in `save()` may not be dropped.

That the last field stored makes the entry consistent needs that `genBound8` gives back the bound
and the pv flag it was packed from (`PackGivesBack`).

### PositionHistoryProofs

For every board, every start, every relation of moves, checks and slots, and any limits
(`HistoryAssumption`; the chain is at most as long as a counter of the table can count):

* `TableCountsVisits == Spec => []FilterCountsVisits`
* `WindowReachesQuietRun == Spec => []WindowIsQuietRun`
* `ClockIsTheRules == Spec => []ClockFollowsRule`
* `JudgementIsTheRules == Spec => []JudgedByTheRules`

For the first two the inductive invariant is

    IInv == TypeOK /\ PlyCountsMoves /\ Counted /\ Runs

`Counted` is the table's half: that a counter neither wraps round nor goes below zero
follows from its being a number of states (`VisitsBound`, `VisitsPushed`, `VisitsPopped`).
`PlyCountsMoves` keeps `gamePly` a natural number when moves are taken back. The window is
about the current state only, and `undo_move()` brings back an earlier one: `Runs` says the
same of every state of the chain. The step that matters is `OnePlyCounted`: whether a quiet
move counts for the clock, gives a check within or beyond the limit, or answers one, the
window grows by one ply.

For the clock the invariant is `Clocks`: every state of the chain carries the clock that the
rule, read off the chain up to that state, asks for, so that taking moves back needs no argument.
It also says what `check10` is, which is not the number of checks: beyond the limit the answers
are counted there too. It is exact up to the limit, and beyond it exactly when the checks are
(`CheckCount`), and no more is needed for the clock (`CountersFollow`).

The verdict needs one more assumption, `LegalAssumption`: whoever has moved is not in check,
which `pos_is_ok()` asserts of every position. From it the invariant `Turns`: the sides
alternate along the chain, null moves included, and a key alone tells whether there is a
check. The first makes every repetition an even number of plies old (`RepeatsEven`), so that the
loop, which looks at every second state, misses none; the second makes the flag for the
opponent's checks, which includes the repeated state itself, say the same as the rule, which
does not (`Judging`). No other induction over the behaviour is needed: the rest is about one state, and
the two loops are recursive functions there. `IsWalked` says what `detect_chases()` knows after
some plies: it stops at a check, and otherwise only when neither side can still be chasing
anything, so that what it has not seen does not matter (`ChasesDetected`). `IsLooked` says the
same of the loop of `rule_judge()`: either it is open (`IsOpen`: no repetition so far, or one
that is not decisive, with the flags of both sides exact), or it has been left as the rules say
(`IsClosed`). It may be left at the first repetition because the table shows no second one:
that uses `Counted` (`RepeatsVisit`).

### TreeSearchProofs

For trees of any depth and width (`TreeAssumption`) and a stop at any moment:

* `StoppedIsAlwaysDiscarded == Spec => []StoppedIsDiscarded`
* `SearchIsBalanced == Spec => []Balanced`
* `LinesStayLive == Spec => []LinesLive`

The first does not say that nobody looks at a void value: null move, verification, ProbCut and
singular search compare it with a bound before anybody asks for the stop. A cutoff that comes
of it is void in turn, and what ProbCut saves of it, the entry of section 4, is excepted. `IInv`
is `StackSound`, `RetSound` and that `misused` holds at most this entry: a void value is
returned only once `stop` is raised, and stays a reason to return; the loop over the moves of
`search()` asks for the stop before it uses a value. That of `qsearch()` does not ask: the
invariant says that it is only given values of `qsearch()`, which never gives up.

The other two need to know of every call on the stack what the calls inside it may have
done, since it goes on when they return. `TreeInv` is `Calling /\ LineCounts /\ Flags`, and
`Calling` is `Shape /\ RetFits /\ LineFits /\ LinesKept`:

* `Shape`: a call that another runs inside is at a place where it waits (`Below`), the
  inner one is deeper, or of the same ply in a verification or a singular search; a singular
  search excludes a move and so starts none of its own at that ply; only a PV node has PV nodes
  inside it. That no verification runs inside another is in `Below` too.
* `LineFits`: the line is as long as the running call's ply says, and has at each ply the kind
  of move that the call there has made (`LineAt`); a call that a null move led to is of the
  kind that makes none, which keeps null moves apart.
* `LinesKept`: the arrays, with one case more than `LinesLive`, the singular search, after
  which the loop goes on with what `pv` held before.
* `LineCounts` and `Flags`: the accumulators, `excluded` and `nmpMinPly` as `Balanced` has them;
  that `nmpMinPly = 0` exactly while nothing is verified needs that a null move is not made at
  the root (`DeepPly`), or the ply kept there could be 0.

A step changes the stack in one of three ways (`BecomeShape`, `PushShape`, `ReturnShape`), and
the line and the arrays by what it makes or takes back; the lemmas `BecomeKeeps`, `PushKeeps` and
`ReturnKeeps` say for each that what the calls below rely on is left alone.

### MoveOrderProofs: iterative deepening

For any list of root moves that are different, any limits, values of the searches, windows and
growth of a window, and a stop between any two reads of `threads.stop` (`DeepeningAssumption`:
the numbers are natural, a window that has failed grows, and values are smaller than
`VALUE_INFINITE`):

* `DeepeningInvariant == DeepeningSpec => []DeepeningInv`
* `FinalLinesAreShown == DeepeningSpec => []ShownIsFinal`
* `ReportIsSound == DeepeningSpec => []LinesAreSound`
* `LossesAreNotOvertaken == DeepeningSpec => LossesKeepTheirPlace`

The first two properties speak of the end of the loop, so the inductive invariant has to say at
each place where the loop may be what they need later. `DeepeningInv` has these parts:

* `NoneIsMissing`: the list is a permutation of the root moves. A stable sort is one (`SortedIsSort`:
  the place of a move is the number of those that come before it, which is one to one and onto,
  `RankOnto`), and so is the roll back, which takes one move out and puts it in front (`Joined`,
  `MovedIs`).
* `LinesFit`, `LastFits`: a score stands with the line it was found with, and a kept one with its own.
  `AllFoundBefore` says in which iteration and which line each was found, hence which of them can
  be from the search that was cut.
* `FinishedAreExact`, `FinishedAreInOrder`: while nothing was stopped, the lines that are finished are
  no bounds and descend. A stop ends that; what is true then is `CutIsGuarded`: once the line that
  was cut has been judged, no exact loss among the lines to report is from it.
* `SentIsShown`: what was sent as final is what there is, from the line that was sent to the end of
  the loop, through every sort and roll back that comes after.
* `FirstIsScored`: there is a first line to fall back on after the first iteration. A root that
  ProbCut left before any move scored comes back above its window, and is searched again.

A search of the root searches any number of the moves in any order. `Searched` is a recursive
function over them, which exists and satisfies its equation by `Recursion`; that it changes only
the records of moves it has reached, and leaves the first one unscored only if it reached none,
is an induction over how many were (`RootSearchStep`, `RootSearchWhole`).

### MoveOrderProofs: the move picker

For any lists of captures and quiet moves that are all different, any scores not below `INT_MIN`,
any exchanges, depth and move of the table, and quiet moves that are skipped at any time
(`PickerAssumption`):

* `PickerInvariant == PickerSpec => []PickerInv`
* `MovesComeInOrder == PickerSpec => []GivesAllInOrder`

`GivesAllInOrder` is about the moves that were given. What makes it true is in the array, so the
invariant is about the places of it that are still to be read, `Left`: at each stage the moves that
were put back, the rest of the list, or both.

    PickerInv == PickerTypes /\ BoundsMeet /\ PlacesFit /\ LeftInOrder /\ LeftFollows
                 /\ NoneLost /\ TTFirst /\ GivenInOrder

`BoundsMeet` has the order of the four bounds: a move is put back at a place that has been read
(`endBadCaptures <= cur`, `endBadCaptures <= endBadQuiets <= cur`), which is why it overwrites nothing that is
left (`PutBack`). `PlacesFit` says what kind of move a place holds, and thereby its class.
`LeftInOrder`: what is left is sorted, as far as the sort promises it, each class in its part of the
array; putting back keeps the order since moves are read in it. `LeftFollows`: whatever is left may
come after whatever was given; the step that needs it is that a quiet move comes after good
captures only (`TTFirst`), the losing ones having been kept for later. `NoneLost`: what was asked for
was given, is left, or is a quiet move that is still to be generated, or was skipped. That
`PartialInsertionSort` permutes the moves, and sorts those of the limit and above, is an
induction over the moves it has read (`InsertSorts`, `PartialSort`).

### NumaReplicationProofs

For every set of machines, bundle size, networks and lists of processors and any number of
threads (`ReplicationAssumption`, `NetsAssumption`), if `~ExportInSearch`:

* `NodesAreSound == Spec => []ConfigIsSound`
* `ThreadsAreBalanced == Spec => []Balanced`
* `HistoriesAreCleared == Spec => []HistoriesCleared`
* `ReferencesStayLive == Spec => []ReferencesLive`
* `CopiesStayIdentical == Spec => []CopiesAgree`

The hypothesis is the one bound of the runs that stays, and it is needed: with an export in the
middle of a search the last two are false (section 4).

The first three rest on what the operators of `NumaConfig` compute. `Induction` over a set of
numbers comes from `NatLessThanWellFounded`, and `Recursion` from it: a recursive function with
values in a set exists, and so has the values its equation gives it. With them follow: `InOrder`
lists a finite set (`InOrderCounts`); one `Scan` over domains that are apart
yields bundles that are apart, together cover the same and outgrow the bundle size only as one
domain (`ScanBundles`), hence so do all scans (`BundlesBundle`) and what `FlattenSeq` makes of
them (`FlatIsDisjoint`); any configuration that can be set `Fits` the machine (`ConfigFits`),
which is all of `ConfigIsSound`. For `Distribute` the induction is over the threads
(`Distributed`): the node that is least filled with the next thread is the one that keeps
the inequality of `Balanced` (`SpreadOneMore`, by `LeastFilled`, arithmetic of products). For
the histories, elements counted by how many come before have the numbers from 0 on
(`RanksCount`).

The rest is about commands. A command is a list of steps, and the invariant has to say that
what is left of the list will repair what was done. `Label` describes the copies and the pool
(`full`, `moved`, `copied`, `empty`, `one`; `ready`, `busy`, `old`, `stale`, `making`,
`clearing`), `Ok(step, q, r)` which label a step takes to which and before which it may come, and
`Path(todo, q, r)` that the steps left go from a label `q` to one `r`. The inductive
invariant is

    Inv == Types /\ (\E q, r : StateFits(q) /\ Path(todo, q, r) /\ Rests(r))
           /\ WorkersFit /\ AccessFits /\ AccessNeeded

`StateFits(q)`: the state is what the label says. `Rests(r)`: the command ends with complete
copies and a pool that fits the configuration. That every command has a path is proved command by
command (`ThreadsLeads`, `NumaPolicyLeads`, `EvalFileLeads`, `ExportNetLeads`, `GoLeads`,
`FirstLeads`), and each step is shown to make the label true that it leads to. `AccessFits` is the
argument of the double-checked locking: whoever is between the second look and the assignment has
the mutex and an absent copy, therefore an assignment takes nothing from a reader. `AccessNeeded`
says who may be in `operator[]`: the UCI thread while it ensures a copy, and workers that are
not parked; with `Parked`, nobody is there when the copies are emptied (`NoAccess`). A copy is found
since a worker's token is a node of the configuration the copies were made for, unless the
label is `stale`, when all are parked (`TokensInRange`).

### SearchValuesProofs

* Mate scores: what the table keeps fits 16 bits and is no `VALUE_NONE`
  (`StoredValueIsValid`); it comes back as it was or as the downgraded score
  (`RoundTrip`); read at another ply it claims no mate beyond the 60-move rule
  (`ClaimsAreInTime`).
* Histories: an update stays within the bounds and no step of it overflows
  (`UpdateStaysInRange`, `UpdateFits`, from `D * D` fitting an int as the static assertion
  of `StatsEntry` has it); so it does when threads update an entry at once
  (`SharedEntryInBounds`: what a thread has read is in bounds too). Corrections fit and make
  no mate (`CorrectionIsSmall`, `CorrectedIsNoMate`).
* Time: `MoveAlwaysFits` (the maximum for a move is within the clock; the optimum is within the
  maximum, but with `Ponder`, which adds a quarter to it and may take it past both),
  `StoppedInTime` and `BudgetNeverRefilled`, under `Bounded` (node limits
  below 2^41) and, the last, for clocks that are not negative. `CountedDown` is the
  strengthening: the calls that came too late and those left to the next look are at most
  512 together.
* The vote: `ProvedMateIsPlayed`, `MostVotesArePlayed`, `VotesNeverCancel`, for any number of
  threads. The invariant says of the threads each loop has passed what the property says of
  all; it needs that to outvote is transitive.

## 6 What is only model-checked, and what is left out

Liveness under fairness (`CallsReturn`, `AnswersGui`, `HandlersReturn`, `OpensReturn`) is
out of the prover's reach, as is `ENABLED`. The library's induction theorems take an operator
as a parameter, which no prover here can instantiate; induction over a set of numbers gets
round that (`Induction` and `Recursion` of `NumaReplicationProofs`, `PositionHistoryProofs` and
`MoveOrderProofs`), where what the recursion yields can be said in a formula. The six invariants
of `Accumulators` are the other ones that are only model-checked: what a replayed exchange,
a chase or an accumulator sums over a board of 90 squares is the rules of the game themselves,
and exchanges are played out by recursive operators (`Exchange`, `Winning`), which the prover
cannot take. The other
way round, `TimeManagement` and `HistoryEntry`, whose clocks, counters and bonuses are unbounded,
and `BestThread` are proved about and in no run.

Not modelled, and why:

* The layers of the network, vector code and weights: numeric, over spaces no model
  checker enumerates. Reductions, margins and depths of the tree search: any comparison
  may come out either way instead. Which bonus a history gets.
* `bench` and `speedtest` send the commands that are modelled; `flip`, `d`, `eval` and
  the like only print.
* In `PositionHistory`: insufficient material, `pos_is_ok()` beyond what `LegalAssumption`
  takes from it, and the variant of the chase rule under `NO_ROOT_ROOT`. The board there is
  a constant.
* In `NumaReplication`: Windows, `NumaReplicated` and `LazyNumaReplicated` (not used by
  the engine), `get_discriminator()`, a network file that fails to load, a binding that
  ends the program because the listed processors do not exist.
* A data race on a plain flag is modelled by its outcomes where the build can tell them
  apart (`CheckDuringAssignment`). `stop`, `increaseDepth` and `ponder` are atomics;
  `stopOnPonderhit` is a plain bool, touched by the main search thread, and by
  `start_thinking()` only after it has waited for that thread.
* In `TranspositionTable`: `hashfull()` and prefetching, which change nothing; a failed
  allocation, which ends the program; the order of the threads over the NUMA nodes,
  which is a permutation of the shares; the memory order of different fields as seen by
  different processors (the steps are interleaved).
* In `BestThread`: the assertion that two proved results never differ in sign
  (`thread.cpp:376`), which would need the values of the tree search.
* In `Board`, `Chases` and `Features`: the fixed capacities of the lists of threats and
  indices (64 for threats, 32 for pieces); the lists are sets or sequences of any length.
* In `SharedMemory`: names and the length of paths, the contents of messages, two users.
* The server of xfishtest is not in the repository, so nothing says what it does with
  the reports and retries of the worker.
* Formatting, logging, parsing, tuning, platform code, third-party code.
