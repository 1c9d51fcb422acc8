------------------------------ MODULE TreeSearch ------------------------------
(***************************************************************************)
(* The control of the tree search of search.cpp: search() and qsearch()    *)
(* with the searches that they start at the next ply and, for a singular   *)
(* move or to verify a null move, at the same ply with the same Stack      *)
(* entry.  A frame of `stack' is a call that is still running.             *)
(*                                                                         *)
(* Values are left out: a comparison may come out either way, as may every *)
(* condition on depth, evaluation or history.  What remains of a value is  *)
(* whether it can be trusted: it is "void" if the search that gave it was  *)
(* cut short by a stop.                                                    *)
(***************************************************************************)
EXTENDS Integers, Sequences, FiniteSets

CONSTANTS
  MAX_PLY,    \* the deepest ply
  MaxMoves    \* MaxMoves[p]: a bound on the moves tried at a node of ply p

ASSUME TreeAssumption == MAX_PLY \in Nat \ {0} /\ MaxMoves \in [0 .. MAX_PLY -> Nat]

VARIABLES
  stack,     \* the calls of search() and qsearch() that are running
  ret,       \* the value just returned to the top of the stack: "none", "sound" or "void"
  line,      \* the moves made on the position since the root: "move" or "null"
  acc,       \* the accumulators pushed since the root
  excluded,  \* excluded[p]: a move is excluded in the Stack entry of ply p
  pv,        \* pv[p]: the frame whose array the Stack entry of ply p points to
  nmpMinPly,
  stop,
  misused    \* what void values were used for

vars == <<stack, ret, line, acc, excluded, pv, nmpMinPly, stop, misused>>

Plies == 0 .. MAX_PLY + 1
Null == 0
Dangling == -1

\* "cut" and "all" are the nodes without a window, by the flag cutNode.
Frames == [fn : {"search", "qsearch"}, node : {"root", "pv", "cut", "all"}, ply : 0 .. MAX_PLY,
           ex : BOOLEAN,      \* it searches with a move excluded
           at : {"enter", "probed", "peek", "prune", "null", "verify", "probcut", "probcut q",
                 "probcut search", "moves", "loop", "singular", "made", "reduced", "full", "pv", "child",
                 "end"},
           tt : BOOLEAN,      \* it has a move of the table
           mc : Nat,
           nullValue : {"none", "sound", "void"},
           sound : BOOLEAN]   \* no void value was taken for its best value

Call(fn, node, ply, ex) ==
  [fn |-> fn, node |-> node, ply |-> ply, ex |-> ex, at |-> "enter", tt |-> FALSE, mc |-> 0,
   nullValue |-> "none", sound |-> TRUE]

TypeOK ==
  /\ stack \in Seq(Frames) /\ ret \in {"none", "sound", "void"}
  /\ line \in Seq({"move", "null"}) /\ acc \in Nat
  /\ excluded \in [Plies -> BOOLEAN] /\ pv \in [Plies -> Int]
  /\ nmpMinPly \in 0 .. MAX_PLY + 1 /\ stop \in BOOLEAN
  /\ misused \subseteq {"root", "pv", "table", "probcut"}

Init ==
  /\ stack = <<>> /\ ret = "none" /\ line = <<>> /\ acc = 0
  /\ excluded = [p \in Plies |-> FALSE] /\ pv = [p \in Plies |-> Null]
  /\ nmpMinPly = 0 /\ stop = FALSE /\ misused = {}

-----------------------------------------------------------------------------
Top == stack[Len(stack)]
Is(fn, at) == stack # <<>> /\ Top.fn = fn /\ Top.at = at /\ ret = "none"
Back(at) == stack # <<>> /\ Top.at = at /\ ret # "none"   \* a call returned to the top

PvNode(f) == f.node \in {"root", "pv"}
CutNode(f) == f.node = "cut"

Become(f) == stack' = [stack EXCEPT ![Len(stack)] = f]
Goto(l) == Become([Top EXCEPT !.at = l])
Push(f, g) == stack' = Append([stack EXCEPT ![Len(stack)] = f], g)

\* The arrays of a frame that returns are gone.
Forget(owner) == [p \in Plies |-> IF owner[p] = Len(stack) THEN Dangling ELSE owner[p]]

Return(v) ==
  /\ stack' = SubSeq(stack, 1, Len(stack) - 1)
  /\ ret' = IF Len(stack) = 1 THEN "none" ELSE v
  /\ pv' = Forget(pv)

Made == line' = Append(line, "move") /\ acc' = acc + 1          \* Worker::do_move()
Unmade == line' = SubSeq(line, 1, Len(line) - 1) /\ acc' = acc - 1
Same == UNCHANGED <<line, acc>>
KeepFlags == UNCHANGED <<excluded, nmpMinPly, stop>>

-----------------------------------------------------------------------------
\* iterative_deepening() starts a search at the root.
Iterate ==
  /\ stack = <<>>
  /\ stack' = <<Call("search", "root", 0, FALSE)>>
  /\ stop' = FALSE
  /\ UNCHANGED <<ret, line, acc, excluded, pv, nmpMinPly, misused>>

\* check_time(), another thread or the GUI, at any time
Stop ==
  /\ stack # <<>> /\ ~stop /\ stop' = TRUE
  /\ UNCHANGED <<stack, ret, line, acc, excluded, pv, nmpMinPly, misused>>

\* No depth is left: the call of qsearch() takes the place of this one.
Dive ==
  /\ Is("search", "enter") /\ Top.node # "root"
  /\ Become([Top EXCEPT !.fn = "qsearch", !.node = IF PvNode(Top) THEN "pv" ELSE "all"])
  /\ UNCHANGED <<ret, pv, misused>> /\ Same /\ KeepFlags

\* Steps 2 and 3: the rules, the deepest ply, a stop, mate distance
Leave ==
  /\ stack # <<>> /\ Top.at = "enter" /\ ret = "none" /\ Top.node # "root"
  /\ \/ Return("sound")
     \/ Top.fn = "search" /\ stop /\ Top.ply < MAX_PLY /\ Return("void")
  /\ UNCHANGED misused /\ Same /\ KeepFlags

\* Steps 4 and 5: the table and the static evaluation.  qsearch() does not
\* look at the stop.
Probe ==
  /\ stack # <<>> /\ Top.at = "enter" /\ ret = "none" /\ Top.ply < MAX_PLY
  /\ Top.node = "root" \/ Top.fn = "qsearch" \/ ~stop
  /\ \E tt \in BOOLEAN :
       /\ Top.node = "root" => tt
       /\ Top.fn = "qsearch" \/ Top.ex => ~tt
       /\ Become([Top EXCEPT !.at = "probed", !.tt = tt])
  /\ UNCHANGED <<ret, pv, misused>> /\ Same /\ KeepFlags

\* A cutoff by the table
Cutoff ==
  /\ stack # <<>> /\ Top.at = "probed" /\ ret = "none" /\ ~PvNode(Top)
  /\ Top.fn = "search" => ~Top.ex
  /\ Return("sound")
  /\ UNCHANGED misused /\ Same /\ KeepFlags

\* Step 4 of qsearch(): the evaluation is good enough.
StandPat ==
  /\ Is("qsearch", "probed") /\ Return("sound")
  /\ UNCHANGED misused /\ Same /\ KeepFlags

\* Step 7
Futility ==
  /\ Is("search", "prune") /\ ~PvNode(Top) /\ Return("sound")
  /\ UNCHANGED misused /\ Same /\ KeepFlags

\* Mutant of Peek: the move is made as one that is searched.
PeekPushes ==
  /\ Is("search", "probed") /\ ~PvNode(Top) /\ ~Top.ex /\ Top.tt
  /\ Made
  /\ Goto("peek")
  /\ UNCHANGED <<ret, pv, misused>> /\ KeepFlags

\* At high depth, the move of the table is made to look at the next entry.
Peek ==
  /\ Is("search", "probed") /\ ~PvNode(Top) /\ ~Top.ex /\ Top.tt
  /\ line' = Append(line, "move") /\ acc' = acc
  /\ Goto("peek")
  /\ UNCHANGED <<ret, pv, misused>> /\ KeepFlags

PeekBack ==
  /\ Is("search", "peek")
  /\ line' = SubSeq(line, 1, Len(line) - 1) /\ acc' = acc
  /\ \/ Return("sound")
     \/ (Goto("prune") \/ Goto("moves")) /\ UNCHANGED <<ret, pv>>
  /\ UNCHANGED misused /\ KeepFlags

\* On to the pruning, or past it in check
Advance ==
  /\ \/ Is("search", "probed") /\ (Goto("prune") \/ Goto("moves"))
     \/ Is("search", "prune") /\ Goto("probcut")
     \/ Is("search", "probcut") /\ Become([Top EXCEPT !.at = "moves", !.mc = 0])
     \/ Is("search", "moves") /\ Become([Top EXCEPT !.at = "loop", !.mc = 0])
     \/ Is("qsearch", "probed") /\ Goto("loop")
  /\ UNCHANGED <<ret, pv, misused>> /\ Same /\ KeepFlags

\* Step 6
Razor ==
  /\ Is("search", "prune") /\ ~PvNode(Top)
  /\ Become([Call("qsearch", "all", Top.ply, FALSE) EXCEPT !.ex = Top.ex])
  /\ UNCHANGED <<ret, pv, misused>> /\ Same /\ KeepFlags

-----------------------------------------------------------------------------
(***************************************************************************)
(* Step 8: the null move and its verification                              *)
(***************************************************************************)
NullMove ==
  /\ Is("search", "prune") /\ CutNode(Top) /\ ~Top.ex /\ Top.ply >= nmpMinPly
  /\ line' = Append(line, "null") /\ acc' = acc
  /\ Push([Top EXCEPT !.at = "null"], Call("search", "all", Top.ply + 1, FALSE))
  /\ UNCHANGED <<ret, pv, misused>> /\ KeepFlags

NullBack ==
  /\ Back("null")
  /\ line' = SubSeq(line, 1, Len(line) - 1) /\ acc' = acc
  /\ \/ Goto("probcut") /\ ret' = "none" /\ UNCHANGED <<pv, nmpMinPly>>
     \/ Return(ret) /\ UNCHANGED nmpMinPly
     \/ /\ nmpMinPly = 0 /\ \E p \in Top.ply .. MAX_PLY + 1 : nmpMinPly' = p
        /\ Push([Top EXCEPT !.at = "verify", !.nullValue = ret],
                Call("search", "all", Top.ply, FALSE))
        /\ ret' = "none" /\ UNCHANGED pv
  /\ UNCHANGED <<excluded, stop, misused>>

\* The value of the null move is as good as the search that verified it.
Verified ==
  /\ Back("verify")
  /\ nmpMinPly' = 0
  /\ \/ Return(IF ret = "void" THEN ret ELSE Top.nullValue)
     \/ Goto("probcut") /\ ret' = "none" /\ UNCHANGED pv
  /\ Same /\ UNCHANGED <<excluded, stop, misused>>

-----------------------------------------------------------------------------
(***************************************************************************)
(* Step 10: captures that may prove a value well above beta                *)
(***************************************************************************)
ProbCut ==
  /\ Is("search", "probcut") /\ Top.mc < MaxMoves[Top.ply]
  /\ Made
  /\ Push([Top EXCEPT !.at = "probcut q", !.mc = @ + 1],
          Call("qsearch", "all", Top.ply + 1, FALSE))
  /\ UNCHANGED <<ret, pv, misused>> /\ KeepFlags

\* The capture held in qsearch(): search it.
ProbCutSearch ==
  /\ Back("probcut q")
  /\ Push([Top EXCEPT !.at = "probcut search"],
          Call("search", IF CutNode(Top) THEN "all" ELSE "cut", Top.ply + 1, FALSE))
  /\ ret' = "none"
  /\ Same /\ KeepFlags /\ UNCHANGED <<pv, misused>>

\* The value is saved and returned if it is high enough; nobody asks for the stop.
ProbCutBack ==
  /\ Back("probcut q") \/ Back("probcut search")
  /\ Unmade
  /\ \/ Goto("probcut") /\ ret' = "none" /\ UNCHANGED <<pv, misused>>
     \/ /\ misused' = misused \cup IF ret = "void" THEN {"probcut"} ELSE {}
        /\ Return(ret) \/ (Goto("probcut") /\ ret' = "none" /\ pv' = pv)
  /\ KeepFlags

\* Step 11
SmallProbCut ==
  /\ Is("search", "moves") /\ Return("sound")
  /\ UNCHANGED misused /\ Same /\ KeepFlags

-----------------------------------------------------------------------------
(***************************************************************************)
(* Steps 12 to 19: the moves                                               *)
(***************************************************************************)
Loops == stack # <<>> /\ Top.at = "loop" /\ ret = "none" /\ Top.mc < MaxMoves[Top.ply]

\* The line of the next ply is forgotten with each new move of a PV node.
NewLine == IF Top.fn = "search" /\ PvNode(Top) THEN [pv EXCEPT ![Top.ply + 1] = Null] ELSE pv

\* Step 13: not before a move was searched
Prune ==
  /\ Loops /\ Top.fn = "search" /\ Top.node # "root" /\ Top.mc > 0
  /\ Become([Top EXCEPT !.mc = @ + 1])
  /\ pv' = NewLine
  /\ UNCHANGED <<ret, misused>> /\ Same /\ KeepFlags

PruneCapture ==
  /\ Loops /\ Top.fn = "qsearch"
  /\ Become([Top EXCEPT !.mc = @ + 1])
  /\ UNCHANGED <<ret, pv, misused>> /\ Same /\ KeepFlags

\* Step 14: search the position without the move of the table.
Singular ==
  /\ Loops /\ Top.fn = "search" /\ Top.node # "root" /\ Top.mc = 0 /\ Top.tt /\ ~Top.ex
  /\ excluded' = [excluded EXCEPT ![Top.ply] = TRUE]
  /\ Push([Top EXCEPT !.at = "singular", !.mc = 1],
          Call("search", IF CutNode(Top) THEN "cut" ELSE "all", Top.ply, TRUE))
  /\ pv' = NewLine
  /\ UNCHANGED <<ret, nmpMinPly, stop, misused>> /\ Same

\* Multi-cut, or step 15 for the move of the table
SingularBack ==
  /\ Back("singular")
  /\ excluded' = [excluded EXCEPT ![Top.ply] = FALSE]
  /\ \/ Return(ret) /\ Same
     \/ Made /\ Goto("made") /\ ret' = "none" /\ pv' = pv
  /\ UNCHANGED <<nmpMinPly, stop, misused>>

\* Step 15
MakeMove ==
  /\ Loops
  /\ Made
  /\ Become([Top EXCEPT !.at = "made", !.mc = @ + 1])
  /\ pv' = NewLine
  /\ UNCHANGED <<ret, misused>> /\ KeepFlags

Child(fn, node, l) ==
  Push([Top EXCEPT !.at = l], Call(fn, node, Top.ply + 1, FALSE)) /\ ret' = "none"

\* Step 16: with reduced depth
Reduced ==
  /\ Is("search", "made") /\ Top.mc > 1
  /\ Child("search", "cut", "reduced")
  /\ UNCHANGED <<pv, misused>> /\ Same /\ KeepFlags

\* After a reduced search that failed high, or step 17
FullDepth ==
  /\ \/ Back("reduced")
     \/ Is("search", "made") /\ (~PvNode(Top) \/ Top.mc > 1)
  /\ Child("search", IF CutNode(Top) THEN "all" ELSE "cut", "full")
  /\ UNCHANGED <<pv, misused>> /\ Same /\ KeepFlags

\* Mutant of FullWindow: the PV of the child is left to what the entry held.
FullWindowOldLine ==
  /\ \/ Is("search", "made") /\ Top.mc = 1
     \/ Back("reduced")
     \/ Back("full")
  /\ PvNode(Top)
  /\ Child("search", "pv", "pv")
  /\ pv' = pv
  /\ UNCHANGED misused /\ Same /\ KeepFlags

\* The search with the whole window, which fills this frame's own array
FullWindow ==
  /\ \/ Is("search", "made") /\ Top.mc = 1
     \/ Back("reduced")
     \/ Back("full")
  /\ PvNode(Top)
  /\ Child("search", "pv", "pv")
  /\ pv' = [pv EXCEPT ![Top.ply + 1] = Len(stack)]
  /\ UNCHANGED misused /\ Same /\ KeepFlags

Quiesce ==
  /\ Is("qsearch", "made")
  /\ Child("qsearch", Top.node, "child")
  /\ pv' = IF PvNode(Top) THEN [pv EXCEPT ![Top.ply + 1] = Len(stack)] ELSE pv
  /\ UNCHANGED misused /\ Same /\ KeepFlags

\* What a value that counts is used for: a root move, the line of a PV node
Uses == CASE Top.node = "root" -> {"root"} [] Top.node = "pv" -> {"pv"} [] OTHER -> {}

\* Step 19 once the stop was not seen: on with the moves, or a cutoff
Judge(l) ==
  /\ Become([Top EXCEPT !.at = l, !.sound = @ /\ ret = "sound"])
  /\ misused' = misused \cup IF ret = "void" THEN Uses ELSE {}
  /\ ret' = "none" /\ pv' = pv

MoveBack == Back("reduced") \/ Back("full") \/ Back("pv")

\* Mutant of Unmake: the stop is not asked for before the value is used.
UnmakeTrusting ==
  /\ MoveBack /\ Unmade
  /\ (Judge("loop") \/ Judge("end"))
  /\ KeepFlags

Unmake ==
  /\ MoveBack /\ Unmade
  /\ IF stop THEN Return("void") /\ UNCHANGED misused
     ELSE Judge("loop") \/ Judge("end")
  /\ KeepFlags

\* Step 8 of qsearch(), which does not ask for the stop
UnmakeCapture ==
  /\ Back("child") /\ Unmade
  /\ (Judge("loop") \/ Judge("end"))
  /\ KeepFlags

Exhausted ==
  /\ stack # <<>> /\ Top.at = "loop" /\ ret = "none" /\ Goto("end")
  /\ UNCHANGED <<ret, pv, misused>> /\ Same /\ KeepFlags

\* Step 20, with the write to the table
End ==
  /\ Is("search", "end")
  /\ misused' = misused \cup IF Top.sound \/ Top.ex THEN {} ELSE {"table"}
  /\ Return("sound")
  /\ Same /\ KeepFlags

\* Step 9 of qsearch()
EndCaptures ==
  /\ Is("qsearch", "end")
  /\ misused' = misused \cup IF Top.sound THEN {} ELSE {"table"}
  /\ Return("sound")
  /\ Same /\ KeepFlags

-----------------------------------------------------------------------------
Step ==
  \/ Dive \/ Leave \/ Probe \/ Cutoff \/ StandPat \/ Futility \/ Peek \/ PeekBack \/ Advance \/ Razor
  \/ NullMove \/ NullBack \/ Verified
  \/ ProbCut \/ ProbCutSearch \/ ProbCutBack \/ SmallProbCut
  \/ Prune \/ PruneCapture \/ Singular \/ SingularBack \/ MakeMove \/ Reduced \/ FullDepth \/ FullWindow
  \/ Quiesce \/ Unmake \/ UnmakeCapture \/ Exhausted \/ End \/ EndCaptures

Next == Iterate \/ Stop \/ Step

Spec == Init /\ [][Next]_vars

-----------------------------------------------------------------------------
(***************************************************************************)
(* Properties                                                              *)
(***************************************************************************)
\* Two null moves never follow one another, and no verification runs inside
\* another one: what the asserts of step 8 say.
NullMovesApart ==
  /\ \A i \in 1 .. Len(line) - 1 : line[i] = "null" => line[i + 1] # "null"
  /\ \A i, j \in DOMAIN stack : stack[i].at = "verify" /\ stack[j].at = "verify" => i = j

\* Whichever way a search leaves a node, the position, the accumulators, the
\* excluded moves and nmpMinPly are as they were when it entered it: a frame
\* finds as many moves made as its ply says, one accumulator for each that is
\* searched and none for null moves, and an excluded move at its ply exactly
\* while a singular search of that ply runs; and null moves are kept apart.
Balanced ==
  /\ TypeOK /\ NullMovesApart
  /\ stack = <<>> => line = <<>> /\ nmpMinPly = 0
  /\ stack # <<>> =>
       LET down == IF Top.at \in {"peek", "made"} \/ (ret # "none" /\ Top.at \notin {"verify", "singular"})
                   THEN 1 ELSE 0
       IN Len(line) = Top.ply + down
  /\ acc = Cardinality({i \in DOMAIN line : line[i] = "move"})
           - (IF stack # <<>> /\ Top.at = "peek" THEN 1 ELSE 0)
  /\ \A p \in Plies : excluded[p] = (\E i \in DOMAIN stack : stack[i].ply = p /\ stack[i].at = "singular")
  /\ \A i \in DOMAIN stack : (stack[i].ex /\ stack[i].fn = "search") => stack[i - 1].at = "singular"

\* A PV node writes its line to the array of the PV node above it, which is
\* still running, and reads the line of the next ply from its own, or none.
LinesLive ==
  \A i \in DOMAIN stack :
    LET f == stack[i]
    IN /\ f.node = "pv" =>
            /\ pv[f.ply] \in 1 .. i - 1
            /\ stack[pv[f.ply]].ply = f.ply - 1 /\ PvNode(stack[pv[f.ply]])
       /\ f.fn = "search" /\ PvNode(f) /\ f.at \in {"made", "reduced", "full", "pv"} =>
            pv[f.ply + 1] \in {Null, i}
       /\ PvNode(f) /\ f.at = "pv" => pv[f.ply + 1] = i

\* The value of a search that was stopped, however often it is handed on,
\* changes neither a root move nor a principal variation, and no node saves at
\* its end what it made of one.  Null move, verification, ProbCut and singular
\* search compare such a value before anybody asks for the stop; a cutoff that
\* it gives counts as such a value.  What ProbCut saves is left to TableIsTrusted.
StoppedIsDiscarded == misused \cap {"root", "pv", "table"} = {}

\* What the comment of step 19 says of the value of a search that was
\* stopped: the transposition table is not updated with it.
TableIsTrusted == misused \cap {"table", "probcut"} = {}
=============================================================================
