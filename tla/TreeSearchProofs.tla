---------------------------- MODULE TreeSearchProofs ----------------------------
(***************************************************************************)
(* For trees of any depth and width, and a stop at any moment: the value of *)
(* a search that was cut short reaches no root move, no principal variation *)
(* and no table entry that a node writes at its end; every way out of a     *)
(* node leaves the position, the accumulators and the flags as they were;   *)
(* and no line is written to the array of a call that has returned.         *)
(*                                                                         *)
(* StoppedIsDiscarded is not inductive.  A void value is returned only      *)
(* when the stop is set (RetSound), and what a verification keeps of one    *)
(* likewise (FrameSound).  Null move, ProbCut and singular searches may     *)
(* look at one before anybody asks for the stop: what they return then is   *)
(* void, and what ProbCut saves is not claimed.  The loop over the moves    *)
(* of search() asks before it uses a value, that of qsearch() does not: it  *)
(* must only be given values of qsearch(), which never gives up             *)
(* (StackSound).                                                            *)
(*                                                                         *)
(* Balanced and LinesLive follow from TreeInv, in the second half: how the  *)
(* calls that run lie inside one another (Shape), and what each relies on   *)
(* when it goes on, of the line (LineFits) and of the arrays (LinesKept).   *)
(***************************************************************************)
EXTENDS TreeSearch, SequenceTheorems, FiniteSetTheorems, TLAPS

Labels == {"enter", "probed", "peek", "prune", "null", "verify", "probcut", "probcut q",
           "probcut search", "moves", "loop", "singular", "made", "reduced", "full", "pv", "child",
           "end"}
QuietLabels == {"enter", "probed", "loop", "made", "child", "end"}

\* Frames of any ply: how deep the plies are matters only to the balance.
Calls == [fn : {"search", "qsearch"}, node : {"root", "pv", "cut", "all"}, ply : Int, ex : BOOLEAN,
          at : Labels, tt : BOOLEAN, mc : Int, nullValue : {"none", "sound", "void"},
          sound : BOOLEAN]

FrameSound(f, stopped) ==
  /\ f.fn = "qsearch" => f.at \in QuietLabels
  /\ f.sound = TRUE
  /\ f.nullValue = "void" => stopped

StackSound(s, stopped) ==
  /\ s \in Seq(Calls)
  /\ \A i \in 1 .. Len(s) : FrameSound(s[i], stopped)
  /\ \A i \in 1 .. Len(s) - 1 : s[i].at = "child" => s[i + 1].fn = "qsearch"

RetSound(s, r, stopped) ==
  /\ r \in {"none", "sound", "void"}
  /\ r = "void" => stopped
  /\ s = <<>> => r = "none"
  /\ s # <<>> /\ s[Len(s)].at = "child" => r # "void"

IInv ==
  /\ StackSound(stack, stop)
  /\ RetSound(stack, ret, stop)
  /\ misused \subseteq {"probcut"}

\* What holds of the running call.
LEMMA TopFacts ==
  ASSUME StackSound(stack, stop), stack # <<>>
  PROVE  Len(stack) \in Nat \ {0} /\ Top \in Calls /\ FrameSound(Top, stop)
BY SMT DEF StackSound, Top

-----------------------------------------------------------------------------
(* The ways a stack changes.                                                *)

\* The running call goes on as f.
LEMMA BecomeSound ==
  ASSUME StackSound(stack, stop), stack # <<>>, NEW f \in Calls, FrameSound(f, stop),
         f.at # "child", Top.fn = "qsearch" => f.fn = "qsearch", Become(f)
  PROVE  StackSound(stack', stop) /\ stack' # <<>>
<1>1. Len(stack) \in Nat \ {0} /\ stack \in Seq(Calls)
  BY TopFacts DEF StackSound
<1>2. /\ stack' \in Seq(Calls) /\ Len(stack') = Len(stack)
      /\ stack'[Len(stack)] = f
      /\ \A i \in 1 .. Len(stack) - 1 : stack'[i] = stack[i]
  BY <1>1, SMT DEF Become
<1>3. \A i \in 1 .. Len(stack') : FrameSound(stack'[i], stop)
  <2> SUFFICES ASSUME NEW i \in 1 .. Len(stack)
               PROVE  FrameSound(stack'[i], stop)
    BY <1>2
  <2>1. CASE i = Len(stack)
    BY <2>1, <1>2
  <2>2. CASE i # Len(stack)
    <3>1. i \in 1 .. Len(stack) - 1
      BY <2>2, <1>1, SMT
    <3> QED
      BY <3>1, <1>2 DEF StackSound
  <2> QED
    BY <2>1, <2>2
<1>4. ASSUME NEW i \in 1 .. Len(stack') - 1, stack'[i].at = "child"
      PROVE  stack'[i + 1].fn = "qsearch"
  <2>1. i \in 1 .. Len(stack) - 1 /\ stack'[i] = stack[i]
    BY <1>1, <1>2, SMT
  <2>2. stack[i + 1].fn = "qsearch"
    BY <1>4, <2>1 DEF StackSound
  <2>3. CASE i + 1 = Len(stack)
    BY <2>2, <2>3, <1>2 DEF Top
  <2>4. CASE i + 1 # Len(stack)
    <3>1. i + 1 \in 1 .. Len(stack) - 1
      BY <2>1, <2>4, <1>1, SMT
    <3> QED
      BY <3>1, <2>2, <1>2
  <2> QED
    BY <2>3, <2>4
<1>5. stack' # <<>>
  BY <1>1, <1>2, SMT
<1> QED
  BY <1>2, <1>3, <1>4, <1>5 DEF StackSound

\* It goes on as f and waits for the call g.
LEMMA PushSound ==
  ASSUME StackSound(stack, stop), stack # <<>>, NEW f \in Calls, FrameSound(f, stop),
         NEW g \in Calls, FrameSound(g, stop), g.at # "child",
         f.at = "child" => g.fn = "qsearch", Top.fn = "qsearch" => f.fn = "qsearch", Push(f, g)
  PROVE  StackSound(stack', stop) /\ stack' # <<>>
<1> DEFINE n == Len(stack)
<1>1. n \in Nat \ {0} /\ stack \in Seq(Calls)
  BY TopFacts DEF StackSound
<1>2. /\ stack' \in Seq(Calls) /\ Len(stack') = n + 1
      /\ stack'[n + 1] = g /\ stack'[n] = f
      /\ \A i \in 1 .. n - 1 : stack'[i] = stack[i]
  BY <1>1, SMT DEF Push
<1> HIDE DEF n
<1>3. \A i \in 1 .. n : FrameSound(stack[i], stop)
  BY DEF StackSound, n
<1>4. \A i \in 1 .. n + 1 : FrameSound(stack'[i], stop)
  <2> SUFFICES ASSUME NEW i \in 1 .. n + 1
               PROVE  FrameSound(stack'[i], stop)
    OBVIOUS
  <2>1. i = n + 1 \/ i = n \/ i \in 1 .. n - 1
    BY <1>1, SMT
  <2>2. CASE i \in 1 .. n - 1
    <3>1. i \in 1 .. n
      BY <2>2, <1>1, SMT
    <3> QED
      BY <3>1, <2>2, <1>2, <1>3
  <2> QED
    BY <2>1, <2>2, <1>2
<1>5. ASSUME NEW i \in 1 .. (n + 1) - 1, stack'[i].at = "child"
      PROVE  stack'[i + 1].fn = "qsearch"
  <2>1. CASE i = n
    BY <1>2, <1>5, <2>1
  <2>2. CASE i # n
    <3>1. i \in 1 .. n - 1
      BY <2>2, <1>1, SMT
    <3>2. stack[i + 1].fn = "qsearch"
      BY <3>1, <1>2, <1>5 DEF StackSound, n
    <3>3. CASE i + 1 = n
      BY <3>2, <3>3, <1>2 DEF Top, n
    <3>4. CASE i + 1 # n
      <4>1. i + 1 \in 1 .. n - 1
        BY <3>1, <3>4, <1>1, SMT
      <4> QED
        BY <4>1, <3>2, <1>2
    <3> QED
      BY <3>3, <3>4
  <2> QED
    BY <2>1, <2>2
<1>6. stack' # <<>>
  BY <1>1, <1>2, SMT
<1> QED
  BY <1>2, <1>4, <1>5, <1>6 DEF StackSound

\* It returns v, which is void only for a call of search() and when the stop is set.
LEMMA ReturnSound ==
  ASSUME StackSound(stack, stop), stack # <<>>, NEW v \in {"none", "sound", "void"},
         v = "void" => stop /\ Top.fn = "search", Return(v)
  PROVE  StackSound(stack', stop) /\ RetSound(stack', ret', stop)
<1> DEFINE n == Len(stack)
<1>1. n \in Nat \ {0} /\ stack \in Seq(Calls)
  BY TopFacts DEF StackSound
<1>2. /\ stack' \in Seq(Calls) /\ Len(stack') = n - 1
      /\ \A i \in 1 .. n - 1 : stack'[i] = stack[i]
  <2>1. stack' = SubSeq(stack, 1, n - 1)
    BY DEF Return
  <2> HIDE DEF n
  <2>2. \A i \in 1 .. n - 1 : stack[i] \in Calls
    BY <1>1, SMT DEF n
  <2>3. /\ stack' \in Seq(Calls)
        /\ Len(stack') = IF 1 <= n - 1 THEN (n - 1) - 1 + 1 ELSE 0
        /\ \A i \in 1 .. (n - 1) - 1 + 1 : stack'[i] = stack[1 + i - 1]
    BY <1>1, <2>1, <2>2, SubSeqProperties, SMT
  <2> QED
    BY <1>1, <2>3, SMT
<1>3. StackSound(stack', stop)
  <2>1. \A i \in 1 .. n - 1 : FrameSound(stack'[i], stop)
    BY <1>1, <1>2, SMT DEF StackSound
  <2>2. ASSUME NEW i \in 1 .. (n - 1) - 1, stack'[i].at = "child"
        PROVE  stack'[i + 1].fn = "qsearch"
    <3>1. i \in 1 .. n - 1 /\ i + 1 \in 1 .. n - 1
      BY <1>1, SMT
    <3> QED
      BY <3>1, <2>2, <1>2 DEF StackSound
  <2> QED
    BY <1>2, <2>1, <2>2 DEF StackSound
<1>4. ret' = IF n = 1 THEN "none" ELSE v
  BY DEF Return
<1>5. stack' = <<>> => ret' = "none"
  BY <1>1, <1>2, <1>4, SMT
<1>6. ASSUME stack' # <<>>, stack'[Len(stack')].at = "child", ret' = "void"
      PROVE  FALSE
  <2>1. v = "void" /\ n # 1
    BY <1>4, <1>6
  <2>2. n - 1 \in 1 .. n - 1 /\ (n - 1) + 1 = n
    <3> HIDE DEF n
    <3> QED
      BY <1>1, <2>1, SMT
  <2>3. stack[n - 1].at = "child"
    BY <1>2, <1>6, <2>2
  <2>4. Top.fn = "qsearch"
    BY <2>2, <2>3 DEF StackSound, Top
  <2> QED
    BY <2>1, <2>4
<1> QED
  BY <1>3, <1>4, <1>5, <1>6 DEF RetSound

\* The calls that the model starts are sound, and so are the steps of a call.
LEMMA CallSound ==
  ASSUME NEW fn \in {"search", "qsearch"}, NEW node \in {"root", "pv", "cut", "all"}, NEW ply \in Int,
         NEW ex \in BOOLEAN
  PROVE  /\ Call(fn, node, ply, ex) \in Calls
         /\ FrameSound(Call(fn, node, ply, ex), stop)
         /\ Call(fn, node, ply, ex).fn = fn /\ Call(fn, node, ply, ex).at = "enter"
BY DEF Call, Calls, Labels, FrameSound, QuietLabels

LEMMA GotoSound ==
  ASSUME StackSound(stack, stop), stack # <<>>, NEW l \in Labels, l # "child",
         Top.fn = "qsearch" => l \in QuietLabels, Goto(l)
  PROVE  StackSound(stack', stop) /\ stack' # <<>>
<1> DEFINE f == [Top EXCEPT !.at = l]
<1>1. Top \in Calls /\ FrameSound(Top, stop)
  BY TopFacts
<1>2. f \in Calls /\ f.at = l /\ f.fn = Top.fn /\ FrameSound(f, stop)
  BY <1>1 DEF Calls, FrameSound
<1>3. Become(f)
  BY DEF Goto
<1> QED
  BY <1>2, <1>3, BecomeSound

-----------------------------------------------------------------------------
(* The steps: of the stack, which they change in one of the ways above, and  *)
(* of what is misused.                                                       *)

LEMMA InitInv == Init => IInv
<1> SUFFICES ASSUME Init
             PROVE  IInv
  OBVIOUS
<1>1. stack = <<>> /\ ret = "none" /\ misused = {}
  BY DEF Init
<1>2. StackSound(<<>>, stop)
  BY SMT DEF StackSound
<1> QED
  BY <1>1, <1>2 DEF IInv, RetSound

\* A call that goes on has no value returned to it.
LEMMA GoesOn ==
  ASSUME StackSound(stack', stop'), stack' # <<>>, ret' = "none"
  PROVE  StackSound(stack', stop') /\ RetSound(stack', ret', stop')
BY DEF RetSound

\* Before the moves.
LEMMA EarlySteps ==
  ASSUME IInv,
         Dive \/ Leave \/ Probe \/ Cutoff \/ StandPat \/ Futility \/ Peek \/ PeekBack \/ Advance \/ Razor
  PROVE  IInv'
<1> USE DEF IInv
<1>0. stack # <<>> /\ stop' = stop /\ misused' = misused
  BY DEF Dive, Leave, Probe, Cutoff, StandPat, Futility, Peek, PeekBack, Advance, Razor, Is, KeepFlags
<1>1. Top \in Calls /\ FrameSound(Top, stop)
  BY <1>0, TopFacts
<1>2. CASE Dive
  <2> DEFINE f == [Top EXCEPT !.fn = "qsearch", !.node = IF PvNode(Top) THEN "pv" ELSE "all"]
  <2>1. Top.at = "enter" /\ Become(f) /\ ret' = "none"
    BY <1>2 DEF Dive, Is
  <2>2. f \in Calls /\ f.at = "enter" /\ f.fn = "qsearch" /\ FrameSound(f, stop)
    BY <1>1, <2>1 DEF Calls, FrameSound, QuietLabels
  <2> HIDE DEF f
  <2> QED
    BY <1>0, <2>1, <2>2, BecomeSound, GoesOn
<1>3. CASE Leave
  <2>1. CASE Return("sound")
    BY <1>0, <2>1, ReturnSound
  <2>2. CASE Top.fn = "search" /\ stop /\ Return("void")
    BY <1>0, <2>2, ReturnSound
  <2> QED
    BY <1>3, <2>1, <2>2 DEF Leave
<1>4. CASE Probe
  <2>1. PICK tt \in BOOLEAN : Become([Top EXCEPT !.at = "probed", !.tt = tt])
    BY <1>4 DEF Probe
  <2> DEFINE f == [Top EXCEPT !.at = "probed", !.tt = tt]
  <2>2. f \in Calls /\ f.at = "probed" /\ f.fn = Top.fn /\ FrameSound(f, stop)
    BY <1>1 DEF Calls, FrameSound, QuietLabels, Labels
  <2>3. ret' = "none"
    BY <1>4 DEF Probe
  <2> HIDE DEF f
  <2>4. Become(f)
    BY <2>1 DEF f
  <2> QED
    BY <1>0, <2>2, <2>3, <2>4, BecomeSound, GoesOn
<1>5. CASE Cutoff \/ StandPat \/ Futility
  <2>1. Return("sound")
    BY <1>5 DEF Cutoff, StandPat, Futility
  <2> QED
    BY <1>0, <2>1, ReturnSound
<1>6. CASE Peek
  <2>1. Goto("peek") /\ ret' = "none" /\ Top.fn = "search"
    BY <1>6 DEF Peek, Is
  <2> QED
    BY <1>0, <2>1, GotoSound, GoesOn DEF Labels
<1>7. CASE PeekBack
  <2>1. CASE Return("sound")
    BY <1>0, <2>1, ReturnSound
  <2>2. CASE (Goto("prune") \/ Goto("moves")) /\ UNCHANGED <<ret, pv>>
    <3>1. ret' = "none" /\ Top.fn = "search"
      BY <1>7, <2>2 DEF PeekBack, Is
    <3> QED
      BY <1>0, <2>2, <3>1, GotoSound, GoesOn DEF Labels
  <2> QED
    BY <1>7, <2>1, <2>2 DEF PeekBack
<1>8. CASE Advance
  <2>1. ret' = "none"
    BY <1>8 DEF Advance, Is
  <2>2. CASE Top.fn = "search" /\ (Goto("prune") \/ Goto("moves") \/ Goto("probcut"))
    BY <1>0, <2>1, <2>2, GotoSound, GoesOn DEF Labels
  <2>3. CASE Top.fn = "qsearch" /\ Goto("loop")
    BY <1>0, <2>1, <2>3, GotoSound, GoesOn DEF Labels, QuietLabels
  <2>4. ASSUME NEW l \in {"moves", "loop"}, Top.fn = "search",
               Become([Top EXCEPT !.at = l, !.mc = 0])
        PROVE  IInv'
    <3> DEFINE f == [Top EXCEPT !.at = l, !.mc = 0]
    <3>0. 0 \in Int
      BY SMT
    <3>1. f \in Calls /\ f.at = l /\ f.at # "child" /\ f.fn = "search" /\ FrameSound(f, stop)
      BY <1>1, <2>4, <3>0 DEF Calls, FrameSound, Labels
    <3>2. Become(f)
      BY <2>4
    <3> HIDE DEF f
    <3> QED
      BY <1>0, <2>1, <2>4, <3>1, <3>2, BecomeSound, GoesOn
  <2> QED
    BY <1>8, <2>2, <2>3, <2>4 DEF Advance, Is
<1>9. CASE Razor
  <2> DEFINE f == [Call("qsearch", "all", Top.ply, FALSE) EXCEPT !.ex = Top.ex]
  <2>0. Top.ply \in Int /\ Top.ex \in BOOLEAN /\ 0 \in Int
    BY <1>1, SMT DEF Calls
  <2>1. f \in Calls /\ f.at = "enter" /\ f.fn = "qsearch" /\ FrameSound(f, stop)
    BY <2>0 DEF Calls, Call, FrameSound, Labels, QuietLabels
  <2>2. Become(f) /\ ret' = "none"
    BY <1>9 DEF Razor, Is
  <2> HIDE DEF f
  <2> QED
    BY <1>0, <2>1, <2>2, BecomeSound, GoesOn
<1> QED
  BY <1>2, <1>3, <1>4, <1>5, <1>6, <1>7, <1>8, <1>9

\* A call of search() at the next ply or this one.
LEMMA StartsSearch ==
  ASSUME IInv, stack # <<>>, stop' = stop, NEW f \in Calls, FrameSound(f, stop), f.at # "child",
         f.fn = Top.fn, NEW fn \in {"search", "qsearch"}, NEW node \in {"root", "pv", "cut", "all"},
         NEW ply \in Int, NEW ex \in BOOLEAN, Push(f, Call(fn, node, ply, ex)), ret' = "none"
  PROVE  StackSound(stack', stop') /\ RetSound(stack', ret', stop')
<1>1. /\ Call(fn, node, ply, ex) \in Calls
      /\ FrameSound(Call(fn, node, ply, ex), stop)
      /\ Call(fn, node, ply, ex).at # "child"
  BY CallSound
<1> QED
  BY <1>1, PushSound, GoesOn DEF IInv

\* Null moves, their verification and ProbCut.
LEMMA NullSteps ==
  ASSUME IInv, NullMove \/ NullBack \/ Verified \/ ProbCut \/ ProbCutSearch \/ ProbCutBack \/ SmallProbCut
  PROVE  IInv'
<1>0. stack # <<>> /\ stop' = stop /\ misused' \subseteq {"probcut"}
  BY DEF NullMove, NullBack, Verified, ProbCut, ProbCutSearch, ProbCutBack, SmallProbCut, Is, Back,
     KeepFlags, IInv
<1>1. Top \in Calls /\ FrameSound(Top, stop)
  BY <1>0, TopFacts DEF IInv
<1>2. Top.ply \in Int /\ Top.ply + 1 \in Int /\ Top.mc + 1 \in Int /\ Top.nullValue \in {"none", "sound", "void"}
  BY <1>1, SMT DEF Calls
<1>3. ret \in {"none", "sound", "void"} /\ (ret = "void" => stop)
  BY DEF IInv, RetSound
<1>4. CASE NullMove
  <2> DEFINE f == [Top EXCEPT !.at = "null"]
  <2>1. Push(f, Call("search", "all", Top.ply + 1, FALSE)) /\ ret' = "none" /\ Top.fn = "search"
    BY <1>4 DEF NullMove, Is
  <2>2. f \in Calls /\ f.at = "null" /\ f.fn = "search" /\ FrameSound(f, stop)
    BY <1>1, <2>1 DEF Calls, FrameSound, Labels
  <2> HIDE DEF f
  <2> QED
    BY <1>0, <1>2, <2>1, <2>2, StartsSearch DEF IInv
<1>5. CASE NullBack
  <2>1. Top.at = "null" /\ Top.fn = "search"
    BY <1>1, <1>5 DEF NullBack, Back, FrameSound, QuietLabels, Calls
  <2>2. CASE Goto("probcut") /\ ret' = "none"
    BY <1>0, <2>1, <2>2, GotoSound, GoesOn DEF IInv, Labels
  <2>3. CASE Return(ret)
    BY <1>0, <1>3, <2>1, <2>3, ReturnSound DEF IInv
  <2>4. CASE Push([Top EXCEPT !.at = "verify", !.nullValue = ret], Call("search", "all", Top.ply, FALSE))
             /\ ret' = "none"
    <3> DEFINE f == [Top EXCEPT !.at = "verify", !.nullValue = ret]
    <3>1. f \in Calls /\ f.at = "verify" /\ f.fn = "search" /\ FrameSound(f, stop)
      BY <1>1, <1>3, <2>1 DEF Calls, FrameSound, Labels
    <3>2. Push(f, Call("search", "all", Top.ply, FALSE)) /\ ret' = "none"
      BY <2>4
    <3> HIDE DEF f
    <3> QED
      BY <1>0, <1>2, <2>1, <3>1, <3>2, StartsSearch DEF IInv
  <2> QED
    BY <1>5, <2>2, <2>3, <2>4 DEF NullBack
<1>6. CASE Verified
  <2>1. Top.at = "verify" /\ Top.fn = "search"
    BY <1>1, <1>6 DEF Verified, Back, FrameSound, QuietLabels, Calls
  <2>2. CASE Goto("probcut") /\ ret' = "none"
    BY <1>0, <2>1, <2>2, GotoSound, GoesOn DEF IInv, Labels
  <2>3. CASE Return(IF ret = "void" THEN ret ELSE Top.nullValue)
    <3>1. Top.nullValue = "void" => stop
      BY <1>1 DEF FrameSound
    <3>2. CASE ret = "void"
      BY <1>0, <1>3, <2>1, <2>3, <3>2, ReturnSound DEF IInv
    <3>3. CASE ret # "void"
      BY <1>0, <1>2, <2>1, <2>3, <3>1, <3>3, ReturnSound DEF IInv
    <3> QED
      BY <3>2, <3>3
  <2> QED
    BY <1>6, <2>2, <2>3 DEF Verified
<1>7. CASE ProbCut
  <2> DEFINE f == [Top EXCEPT !.at = "probcut q", !.mc = @ + 1]
  <2>1. Push(f, Call("qsearch", "all", Top.ply + 1, FALSE)) /\ ret' = "none" /\ Top.fn = "search"
    BY <1>7 DEF ProbCut, Is
  <2>2. f \in Calls /\ f.at = "probcut q" /\ f.fn = "search" /\ FrameSound(f, stop)
    BY <1>1, <1>2, <2>1 DEF Calls, FrameSound, Labels
  <2> HIDE DEF f
  <2> QED
    BY <1>0, <1>2, <2>1, <2>2, StartsSearch DEF IInv
<1>8. CASE ProbCutSearch
  <2> DEFINE f == [Top EXCEPT !.at = "probcut search"]
             node == IF CutNode(Top) THEN "all" ELSE "cut"
  <2>1. Push(f, Call("search", node, Top.ply + 1, FALSE)) /\ ret' = "none" /\ Top.at = "probcut q"
    BY <1>8 DEF ProbCutSearch, Back
  <2>2. f \in Calls /\ f.at = "probcut search" /\ f.fn = Top.fn /\ f.fn = "search" /\ FrameSound(f, stop)
    BY <1>1, <2>1 DEF Calls, FrameSound, Labels, QuietLabels
  <2>3. node \in {"root", "pv", "cut", "all"}
    OBVIOUS
  <2> HIDE DEF f, node
  <2> QED
    BY <1>0, <1>2, <2>1, <2>2, <2>3, StartsSearch DEF IInv
<1>9. CASE ProbCutBack
  <2>1. Top.at \in {"probcut q", "probcut search"} /\ Top.fn = "search"
    BY <1>1, <1>9 DEF ProbCutBack, Back, FrameSound, QuietLabels, Calls
  <2>2. CASE Goto("probcut") /\ ret' = "none"
    BY <1>0, <2>1, <2>2, GotoSound, GoesOn DEF IInv, Labels
  <2>3. CASE Return(ret)
    BY <1>0, <1>3, <2>1, <2>3, ReturnSound DEF IInv
  <2> QED
    BY <1>9, <2>2, <2>3 DEF ProbCutBack
<1>10. CASE SmallProbCut
  <2>1. Return("sound")
    BY <1>10 DEF SmallProbCut
  <2> QED
    BY <1>0, <2>1, ReturnSound DEF IInv
<1> QED
  BY <1>4, <1>5, <1>6, <1>7, <1>8, <1>9, <1>10

\* Moves that are made or skipped, and the searches after them.
LEMMA MoveSteps ==
  ASSUME IInv,
         Prune \/ PruneCapture \/ Singular \/ SingularBack \/ MakeMove \/ Reduced \/ FullDepth
         \/ FullWindow \/ Quiesce
  PROVE  IInv'
<1>0. stack # <<>> /\ stop' = stop /\ misused' \subseteq {"probcut"}
  BY DEF Prune, PruneCapture, Singular, SingularBack, MakeMove, Reduced, FullDepth, FullWindow, Quiesce,
     Loops, Is, Back, KeepFlags, IInv
<1>1. Top \in Calls /\ FrameSound(Top, stop)
  BY <1>0, TopFacts DEF IInv
<1>2. /\ Top.ply \in Int /\ Top.ply + 1 \in Int /\ Top.mc + 1 \in Int
      /\ Top.node \in {"root", "pv", "cut", "all"} /\ Top.fn \in {"search", "qsearch"}
  BY <1>1, SMT DEF Calls
<1>3. ret \in {"none", "sound", "void"} /\ (ret = "void" => stop)
  BY DEF IInv, RetSound
<1>4. CASE Prune \/ PruneCapture
  <2> DEFINE f == [Top EXCEPT !.mc = @ + 1]
  <2>1. Become(f) /\ Top.at = "loop" /\ ret' = "none"
    BY <1>4 DEF Prune, PruneCapture, Loops
  <2>2. f \in Calls /\ f.at = "loop" /\ f.fn = Top.fn /\ FrameSound(f, stop)
    BY <1>1, <1>2, <2>1 DEF Calls, FrameSound
  <2> HIDE DEF f
  <2> QED
    BY <1>0, <2>1, <2>2, BecomeSound, GoesOn DEF IInv
<1>5. CASE MakeMove
  <2> DEFINE f == [Top EXCEPT !.at = "made", !.mc = @ + 1]
  <2>1. Become(f) /\ ret' = "none"
    BY <1>5 DEF MakeMove, Loops
  <2>2. f \in Calls /\ f.at = "made" /\ f.fn = Top.fn /\ FrameSound(f, stop)
    BY <1>1, <1>2 DEF Calls, FrameSound, Labels, QuietLabels
  <2> HIDE DEF f
  <2> QED
    BY <1>0, <2>1, <2>2, BecomeSound, GoesOn DEF IInv
<1>6. CASE Singular
  <2> DEFINE f == [Top EXCEPT !.at = "singular", !.mc = 1]
             node == IF CutNode(Top) THEN "cut" ELSE "all"
  <2>0. 1 \in Int
    BY SMT
  <2>1. Push(f, Call("search", node, Top.ply, TRUE)) /\ ret' = "none" /\ Top.fn = "search"
    BY <1>6 DEF Singular, Loops
  <2>2. f \in Calls /\ f.at = "singular" /\ f.fn = "search" /\ FrameSound(f, stop)
    BY <1>1, <2>0, <2>1 DEF Calls, FrameSound, Labels
  <2>3. node \in {"root", "pv", "cut", "all"}
    OBVIOUS
  <2> HIDE DEF f, node
  <2> QED
    BY <1>0, <1>2, <2>1, <2>2, <2>3, StartsSearch DEF IInv
<1>7. CASE SingularBack
  <2>1. Top.at = "singular" /\ Top.fn = "search"
    BY <1>1, <1>7 DEF SingularBack, Back, FrameSound, QuietLabels, Calls
  <2>2. CASE Return(ret)
    BY <1>0, <1>3, <2>1, <2>2, ReturnSound DEF IInv
  <2>3. CASE Goto("made") /\ ret' = "none"
    BY <1>0, <2>1, <2>3, GotoSound, GoesOn DEF IInv, Labels
  <2> QED
    BY <1>7, <2>2, <2>3 DEF SingularBack
<1>8. ASSUME NEW node \in {"root", "pv", "cut", "all"}, NEW l \in {"reduced", "full", "pv"},
             Child("search", node, l), Top.fn = "search"
      PROVE  IInv'
  <2> DEFINE f == [Top EXCEPT !.at = l]
  <2>1. Push(f, Call("search", node, Top.ply + 1, FALSE)) /\ ret' = "none"
    BY <1>8 DEF Child
  <2>2. f \in Calls /\ f.at # "child" /\ f.fn = "search" /\ FrameSound(f, stop)
    BY <1>1, <1>8 DEF Calls, FrameSound, Labels
  <2> HIDE DEF f
  <2> QED
    BY <1>0, <1>2, <1>8, <2>1, <2>2, StartsSearch DEF IInv
<1>9. CASE Reduced
  BY <1>8, <1>9 DEF Reduced, Is
<1>10. CASE FullDepth
  <2>1. Top.fn = "search"
    BY <1>1, <1>10 DEF FullDepth, Is, Back, FrameSound, QuietLabels, Calls
  <2> QED
    BY <1>8, <1>10, <2>1 DEF FullDepth
<1>11. CASE FullWindow
  <2>1. Top.fn = "search"
    BY <1>1, <1>11 DEF FullWindow, Is, Back, FrameSound, QuietLabels, Calls
  <2> QED
    BY <1>8, <1>11, <2>1 DEF FullWindow
<1>12. CASE Quiesce
  <2> DEFINE f == [Top EXCEPT !.at = "child"]
             g == Call("qsearch", Top.node, Top.ply + 1, FALSE)
  <2>1. Push(f, g) /\ ret' = "none" /\ Top.fn = "qsearch"
    BY <1>12 DEF Quiesce, Child, Is
  <2>2. f \in Calls /\ f.at = "child" /\ f.fn = "qsearch" /\ FrameSound(f, stop)
    BY <1>1, <2>1 DEF Calls, FrameSound, Labels, QuietLabels
  <2>3. 0 \in Int
    BY SMT
  <2>4. g \in Calls /\ FrameSound(g, stop) /\ g.fn = "qsearch" /\ g.at # "child"
    BY <1>2, <2>3 DEF Call, Calls, Labels, FrameSound, QuietLabels
  <2> HIDE DEF f, g
  <2> QED
    BY <1>0, <2>1, <2>2, <2>4, PushSound, GoesOn DEF IInv
<1> QED
  BY <1>4, <1>5, <1>6, <1>7, <1>9, <1>10, <1>11, <1>12

\* What is made of the value of a move.
LEMMA ValueSteps ==
  ASSUME IInv, Unmake \/ UnmakeCapture \/ Exhausted \/ End \/ EndCaptures
  PROVE  IInv'
<1>0. stack # <<>> /\ stop' = stop
  BY DEF Unmake, UnmakeCapture, Exhausted, End, EndCaptures, MoveBack, Is, Back, KeepFlags
<1>1. Top \in Calls /\ FrameSound(Top, stop) /\ Top.sound = TRUE
  BY <1>0, TopFacts DEF IInv, FrameSound
<1>2. ret \in {"none", "sound", "void"} /\ (ret = "void" => stop)
  BY DEF IInv, RetSound
<1>3. ASSUME NEW l \in {"loop", "end"}, Judge(l), ret = "sound"
      PROVE  IInv'
  <2> DEFINE f == [Top EXCEPT !.at = l, !.sound = @ /\ ret = "sound"]
  <2>1. Become(f) /\ ret' = "none" /\ misused' = misused
    BY <1>3 DEF Judge
  <2>2. f \in Calls /\ f.at # "child" /\ f.fn = Top.fn /\ FrameSound(f, stop)
    BY <1>1, <1>3 DEF Calls, FrameSound, Labels, QuietLabels
  <2> HIDE DEF f
  <2> QED
    BY <1>0, <2>1, <2>2, BecomeSound, GoesOn DEF IInv
<1>4. CASE Unmake
  <2>1. Top.fn = "search" /\ ret # "none"
    BY <1>1, <1>4 DEF Unmake, MoveBack, Back, FrameSound, QuietLabels, Calls
  <2>2. CASE stop
    BY <1>0, <1>4, <2>1, <2>2, ReturnSound DEF Unmake, IInv
  <2>3. CASE ~stop
    <3>1. ret = "sound"
      BY <1>2, <2>1, <2>3
    <3> QED
      BY <1>3, <1>4, <2>3, <3>1 DEF Unmake
  <2> QED
    BY <2>2, <2>3
<1>5. CASE UnmakeCapture
  <2>1. ret = "sound"
    BY <1>0, <1>2, <1>5 DEF UnmakeCapture, Back, IInv, RetSound, Top
  <2> QED
    BY <1>3, <1>5, <2>1 DEF UnmakeCapture
<1>6. CASE Exhausted
  <2>1. Goto("end") /\ ret' = "none" /\ misused' = misused
    BY <1>6 DEF Exhausted
  <2> QED
    BY <1>0, <2>1, GotoSound, GoesOn DEF IInv, Labels, QuietLabels
<1>7. CASE End \/ EndCaptures
  <2>1. Return("sound") /\ misused' = misused
    BY <1>1, <1>7 DEF End, EndCaptures
  <2> QED
    BY <1>0, <2>1, ReturnSound DEF IInv
<1> QED
  BY <1>4, <1>5, <1>6, <1>7

LEMMA NextInv == IInv /\ [Next]_vars => IInv'
<1> SUFFICES ASSUME IInv, [Next]_vars
             PROVE  IInv'
  OBVIOUS
<1>1. CASE Iterate
  <2> DEFINE g == Call("search", "root", 0, FALSE)
  <2>1. stack' = <<g>> /\ ret' = "none" /\ misused' = misused
    BY <1>1 DEF Iterate, IInv, RetSound
  <2>2. g \in Calls /\ FrameSound(g, stop') /\ g.at # "child"
    BY DEF Call, Calls, Labels, FrameSound, QuietLabels
  <2> HIDE DEF g
  <2>3. StackSound(stack', stop') /\ stack' # <<>>
    BY <2>1, <2>2, SMT DEF StackSound
  <2> QED
    BY <2>1, <2>3, GoesOn DEF IInv
<1>2. CASE Stop
  BY <1>2 DEF Stop, IInv, StackSound, FrameSound, RetSound
<1>3. CASE UNCHANGED vars
  BY <1>3 DEF vars, IInv
<1> QED
  BY <1>1, <1>2, <1>3, EarlySteps, NullSteps, MoveSteps, ValueSteps DEF Next, Step

\* For any tree and a stop at any moment, a value of a search that was cut short, however often it is
\* handed on, is used for no root move and no principal variation, and no node writes it to the table
\* at its end.  ProbCut's entry is not covered, see TableIsTrusted.
THEOREM StoppedIsAlwaysDiscarded == Spec => []StoppedIsDiscarded
<1>1. IInv => StoppedIsDiscarded
  BY DEF IInv, StoppedIsDiscarded
<1> QED
  BY <1>1, InitInv, NextInv, PTL DEF Spec

-----------------------------------------------------------------------------
(***************************************************************************)
(* The balance of moves, accumulators and flags, and the lines.            *)
(***************************************************************************)
\* Where a call waits for one that it started, and where a move is made on the position.
Waits == {"null", "verify", "probcut q", "probcut search", "singular", "reduced", "full", "pv", "child"}
Moved == {"peek", "probcut q", "probcut search", "made", "reduced", "full", "pv", "child"}

\* The searches that a call starts at its own ply, and the ply of the others
SamePly == {"verify", "singular"}
Down(f) == IF f.at \in SamePly THEN 0 ELSE 1

\* What holds of each call
Local(f) ==
  /\ f.at # "enter" => f.ply < MAX_PLY
  /\ f.at \in {"null", "verify", "singular"} => ~f.ex
  /\ f.at \in {"null", "verify"} => f.node = "cut"
  /\ f.at = "verify" => f.nullValue # "none"
  /\ f.fn = "qsearch" => f.at \in QuietLabels
  /\ f.node = "root" => f.fn = "search" /\ f.at \notin {"peek", "singular", "child"} /\ f.ply = 0 /\ ~f.ex

\* Of a call and one that runs inside it
Below(f, g) ==
  /\ f.at \in Waits
  /\ f.ply + Down(f) <= g.ply
  /\ f.at = "singular" /\ f.ply = g.ply => g.ex
  /\ PvNode(g) => PvNode(f) /\ f.at \in {"pv", "child"}
  /\ g.node # "root"
  /\ ~(f.at = "verify" /\ g.at = "verify")

\* Of a call and the one that it started
Starts(f, g) == g.ply = f.ply + Down(f) /\ (g.ex => f.at = "singular")

Shape ==
  /\ stack \in Seq(Frames)
  /\ \A i \in 1 .. Len(stack) : Local(stack[i]) /\ (i = 1 => stack[i].node = "root")
  /\ \A i, j \in 1 .. Len(stack) : i < j => Below(stack[i], stack[j])
  /\ \A i \in 1 .. Len(stack) - 1 : Starts(stack[i], stack[i + 1])

RetFits ==
  /\ ret \in {"none", "sound", "void"}
  /\ ret # "none" => stack # <<>> /\ Top.at \in Waits

DownNow == IF Top.at \in {"peek", "made"} \/ (ret # "none" /\ Top.at \notin SamePly) THEN 1 ELSE 0

\* The moves of a line that a call relies on: a null move is answered by no null move.
LineAt(f, l) ==
  /\ f.ply > 0 /\ l[f.ply] = "null" => f.node = "all"
  /\ f.at \in Moved => l[f.ply + 1] = "move"
  /\ f.at = "null" => l[f.ply + 1] = "null"

LineFits ==
  /\ stack = <<>> => Len(line) = 0
  /\ stack # <<>> => Len(line) = Top.ply + DownNow
  /\ \A i \in 1 .. Len(stack) : LineAt(stack[i], line)

Peeking == stack # <<>> /\ Top.at = "peek"
MovesOf(l) == Cardinality({i \in 1 .. Len(l) : l[i] = "move"})

LineCounts ==
  /\ line \in Seq({"move", "null"})
  /\ \A i \in 1 .. Len(line) - 1 : line[i] = "null" => line[i + 1] # "null"
  /\ acc = MovesOf(line) - (IF Peeking THEN 1 ELSE 0)
  /\ acc \in Nat

Flags ==
  /\ excluded \in [Plies -> BOOLEAN]
  /\ \A p \in Plies : excluded[p] <=> \E i \in 1 .. Len(stack) : stack[i].ply = p /\ stack[i].at = "singular"
  /\ nmpMinPly \in 0 .. MAX_PLY + 1
  /\ nmpMinPly = 0 <=> \A i \in 1 .. Len(stack) : stack[i].at # "verify"

\* The array that a call writes its line to, and the one it reads that of the next ply from
LineOf(i, s, owner) ==
  /\ s[i].node = "pv" =>
       /\ owner[s[i].ply] \in 1 .. i - 1
       /\ s[owner[s[i].ply]].ply = s[i].ply - 1 /\ PvNode(s[owner[s[i].ply]])
  /\ s[i].fn = "search" /\ PvNode(s[i]) /\ s[i].at \in {"singular", "made", "reduced", "full", "pv"} =>
       owner[s[i].ply + 1] \in {Null, i}
  /\ PvNode(s[i]) /\ s[i].at = "pv" => owner[s[i].ply + 1] = i

LinesKept ==
  /\ pv \in [Plies -> Int]
  /\ \A i \in 1 .. Len(stack) : LineOf(i, stack, pv)

Calling == Shape /\ RetFits /\ LineFits /\ LinesKept
TreeInv == Calling /\ LineCounts /\ Flags

-----------------------------------------------------------------------------
(* Frames                                                                   *)
LEMMA Fields ==
  ASSUME NEW f \in Frames
  PROVE  /\ f.ply \in 0 .. MAX_PLY /\ f.ex \in BOOLEAN /\ f.node \in {"root", "pv", "cut", "all"}
         /\ f.fn \in {"search", "qsearch"} /\ f.at \in Labels /\ f.mc \in Nat
         /\ f.nullValue \in {"none", "sound", "void"} /\ f.sound \in BOOLEAN
BY DEF Frames, Labels

\* g is the call f at another place.
Alike(f, g) ==
  g \in Frames /\ g.ply = f.ply /\ g.ex = f.ex /\ g.node = f.node /\ g.fn = f.fn

LEMMA Moving ==
  ASSUME NEW f \in Frames, NEW l \in Labels
  PROVE  LET g == [f EXCEPT !.at = l] IN Alike(f, g) /\ g.at = l
BY DEF Alike, Frames, Labels

LEMMA Probing ==
  ASSUME NEW f \in Frames, NEW l \in Labels, NEW b \in BOOLEAN
  PROVE  LET g == [f EXCEPT !.at = l, !.tt = b] IN Alike(f, g) /\ g.at = l
BY DEF Alike, Frames, Labels

LEMMA Counting ==
  ASSUME NEW f \in Frames, NEW l \in Labels, NEW c \in Nat
  PROVE  LET g == [f EXCEPT !.at = l, !.mc = c] IN Alike(f, g) /\ g.at = l
BY DEF Alike, Frames, Labels

LEMMA Skipping ==
  ASSUME NEW f \in Frames, NEW c \in Nat
  PROVE  LET g == [f EXCEPT !.mc = c] IN Alike(f, g) /\ g.at = f.at
BY DEF Alike, Frames

LEMMA Judging ==
  ASSUME NEW f \in Frames, NEW l \in Labels, NEW b \in BOOLEAN
  PROVE  LET g == [f EXCEPT !.at = l, !.sound = b] IN Alike(f, g) /\ g.at = l
BY DEF Alike, Frames, Labels

LEMMA Keeping ==
  ASSUME NEW f \in Frames, NEW l \in Labels, NEW v \in {"none", "sound", "void"}
  PROVE  LET g == [f EXCEPT !.at = l, !.nullValue = v] IN Alike(f, g) /\ g.at = l /\ g.nullValue = v
BY DEF Alike, Frames, Labels

LEMMA Called ==
  ASSUME NEW fn \in {"search", "qsearch"}, NEW node \in {"root", "pv", "cut", "all"},
         NEW ply \in 0 .. MAX_PLY, NEW ex \in BOOLEAN
  PROVE  LET g == Call(fn, node, ply, ex)
         IN g \in Frames /\ g.fn = fn /\ g.node = node /\ g.ply = ply /\ g.ex = ex /\ g.at = "enter"
BY DEF Call, Frames

-----------------------------------------------------------------------------
(* The stack after a step                                                   *)
LEMMA StackFacts ==
  ASSUME Shape, stack # <<>>
  PROVE  Len(stack) \in Nat \ {0} /\ stack \in Seq(Frames) /\ Top \in Frames /\ Local(Top)
BY DEF Shape, Top

LEMMA Becomes ==
  ASSUME Shape, stack # <<>>, NEW g \in Frames, Become(g)
  PROVE  /\ stack' \in Seq(Frames) /\ stack' # <<>> /\ Len(stack') = Len(stack)
         /\ Top' = g /\ stack'[Len(stack)] = g
         /\ \A i \in 1 .. Len(stack) - 1 : stack'[i] = stack[i]
<1>1. Len(stack) \in Nat \ {0} /\ stack \in Seq(Frames)
  BY StackFacts
<1>2. /\ stack' \in Seq(Frames) /\ Len(stack') = Len(stack)
      /\ stack'[Len(stack)] = g
      /\ \A i \in 1 .. Len(stack) - 1 : stack'[i] = stack[i]
  BY <1>1, SMT DEF Become
<1> QED BY <1>1, <1>2 DEF Top

LEMMA Pushes ==
  ASSUME Shape, stack # <<>>, NEW f \in Frames, NEW g \in Frames, Push(f, g)
  PROVE  /\ stack' \in Seq(Frames) /\ stack' # <<>> /\ Len(stack') = Len(stack) + 1
         /\ Top' = g /\ stack'[Len(stack) + 1] = g /\ stack'[Len(stack)] = f
         /\ \A i \in 1 .. Len(stack) - 1 : stack'[i] = stack[i]
<1>1. Len(stack) \in Nat \ {0} /\ stack \in Seq(Frames)
  BY StackFacts
<1>2. /\ stack' \in Seq(Frames) /\ Len(stack') = Len(stack) + 1
      /\ stack'[Len(stack) + 1] = g /\ stack'[Len(stack)] = f
      /\ \A i \in 1 .. Len(stack) - 1 : stack'[i] = stack[i]
  BY <1>1, SMT DEF Push
<1> QED BY <1>1, <1>2 DEF Top

LEMMA Returns ==
  ASSUME Shape, stack # <<>>, NEW v, Return(v)
  PROVE  /\ stack' \in Seq(Frames) /\ Len(stack') = Len(stack) - 1
         /\ \A i \in 1 .. Len(stack) - 1 : stack'[i] = stack[i]
         /\ Len(stack) > 1 => stack' # <<>> /\ Top' = stack[Len(stack) - 1]
         /\ Len(stack) = 1 => stack' = <<>>
<1> DEFINE n == Len(stack)
<1>1. n \in Nat \ {0} /\ stack \in Seq(Frames)
  BY StackFacts
<1>2. stack' = SubSeq(stack, 1, n - 1)
  BY DEF Return
<1>3. \A i \in 1 .. n - 1 : stack[i] \in Frames
  BY <1>1, SMT
<1> HIDE DEF n
<1>4. /\ stack' \in Seq(Frames)
      /\ Len(stack') = IF 1 <= n - 1 THEN (n - 1) - 1 + 1 ELSE 0
      /\ \A i \in 1 .. (n - 1) - 1 + 1 : stack'[i] = stack[1 + i - 1]
  BY <1>1, <1>2, <1>3, SubSeqProperties, SMT
<1>5. Len(stack') = n - 1 /\ \A i \in 1 .. n - 1 : stack'[i] = stack[i]
  BY <1>1, <1>4, SMT
<1>6. n > 1 => stack' # <<>> /\ stack'[Len(stack')] = stack[n - 1]
  BY <1>1, <1>5, SMT
<1>7. n = 1 => stack' = <<>>
  BY <1>4, <1>5
<1> QED BY <1>4, <1>5, <1>6, <1>7 DEF n, Top

\* What g keeps of the running call when it replaces it
Like(g) ==
  /\ g \in Frames /\ g.ply = Top.ply /\ g.ex = Top.ex
  /\ PvNode(g) <=> PvNode(Top)
  /\ g.node = "root" <=> Top.node = "root"
  /\ Top.node = "all" => g.node = "all"

LEMMA BecomeShape ==
  ASSUME Shape, stack # <<>>, NEW g, Like(g), Local(g), g.at \notin Waits, Become(g)
  PROVE  Shape'
<1> DEFINE n == Len(stack)
<1>1. /\ n \in Nat \ {0} /\ Local(Top) /\ Top = stack[n] /\ g \in Frames
  BY StackFacts DEF Top, Like
<1>2. /\ stack' \in Seq(Frames) /\ Len(stack') = n /\ stack'[n] = g
      /\ \A i \in 1 .. n - 1 : stack'[i] = stack[i]
  BY <1>1, Becomes
<1> HIDE DEF n
<1>3. \A i \in 1 .. n : Local(stack[i]) /\ (i = 1 => stack[i].node = "root")
  BY DEF Shape, n
<1>4. ASSUME NEW i \in 1 .. n PROVE Local(stack'[i]) /\ (i = 1 => stack'[i].node = "root")
  <2>1. CASE i = n
    BY <1>1, <1>2, <1>3, <2>1 DEF Like
  <2>2. CASE i # n
    <3>1. i \in 1 .. n - 1
      BY <1>1, <2>2
    <3> QED BY <1>2, <1>3, <3>1
  <2> QED BY <2>1, <2>2
<1>5. ASSUME NEW i \in 1 .. n, NEW j \in 1 .. n, i < j PROVE Below(stack'[i], stack'[j])
  <2>1. Below(stack[i], stack[j]) /\ i \in 1 .. n - 1 /\ stack'[i] = stack[i]
    BY <1>1, <1>2, <1>5 DEF Shape, n
  <2>2. CASE j = n
    BY <1>1, <1>2, <2>1, <2>2 DEF Below, Like, Waits
  <2>3. CASE j # n
    <3>1. j \in 1 .. n - 1
      BY <1>1, <2>3
    <3> QED BY <1>2, <2>1, <3>1
  <2> QED BY <2>2, <2>3
<1>6. ASSUME NEW i \in 1 .. n - 1 PROVE Starts(stack'[i], stack'[i + 1])
  <2>1. Starts(stack[i], stack[i + 1]) /\ stack'[i] = stack[i]
    BY <1>1, <1>2 DEF Shape, n
  <2>2. CASE i + 1 = n
    BY <1>1, <1>2, <2>1, <2>2 DEF Starts, Like
  <2>3. CASE i + 1 # n
    <3>1. i + 1 \in 1 .. n - 1
      BY <1>1, <2>3
    <3> QED BY <1>2, <2>1, <3>1
  <2> QED BY <2>2, <2>3
<1> QED BY <1>2, <1>4, <1>5, <1>6 DEF Shape

\* What a call may be that f starts
Startable(f, g) ==
  /\ g \in Frames /\ g.at = "enter" /\ g.node # "root" /\ Starts(f, g)
  /\ PvNode(g) => PvNode(f) /\ f.at \in {"pv", "child"}
  /\ f.at = "singular" => g.ex

LEMMA PushShape ==
  ASSUME Shape, stack # <<>>, NEW f, NEW g, Like(f), Local(f), f.at \in Waits, Startable(f, g), Local(g),
         f.at = "verify" => \A i \in 1 .. Len(stack) : stack[i].at # "verify", Push(f, g)
  PROVE  Shape'
<1> DEFINE n == Len(stack)
<1>1. /\ n \in Nat \ {0} /\ Local(Top) /\ Top = stack[n] /\ f \in Frames /\ g \in Frames
      /\ Top.ply \in Int /\ g.ply \in Int
  BY StackFacts, Fields DEF Top, Like, Startable
<1>2. /\ stack' \in Seq(Frames) /\ Len(stack') = n + 1 /\ stack'[n] = f /\ stack'[n + 1] = g
      /\ \A i \in 1 .. n - 1 : stack'[i] = stack[i]
  BY <1>1, Pushes
<1>3. \A i \in 1 .. n : Local(stack[i]) /\ (i = 1 => stack[i].node = "root") /\ stack[i].ply \in Int
  BY Fields DEF Shape, n
<1>4. f.at = "verify" => \A i \in 1 .. n : stack[i].at # "verify"
  OBVIOUS
<1>5. \A i, j \in 1 .. n : i < j => Below(stack[i], stack[j])
  BY DEF Shape
<1>6. \A i \in 1 .. n - 1 : Starts(stack[i], stack[i + 1])
  BY DEF Shape
<1> HIDE DEF n
<1>7. ASSUME NEW i \in 1 .. n + 1 PROVE Local(stack'[i]) /\ (i = 1 => stack'[i].node = "root")
  <2>1. CASE i = n + 1
    BY <1>1, <1>2, <2>1
  <2>2. CASE i = n
    BY <1>1, <1>2, <1>3, <2>2 DEF Like
  <2>3. CASE i # n /\ i # n + 1
    <3>1. i \in 1 .. n - 1 /\ i \in 1 .. n
      BY <1>1, <2>3
    <3> QED BY <1>2, <1>3, <3>1
  <2> QED BY <2>1, <2>2, <2>3
<1>8. ASSUME NEW i \in 1 .. n - 1 PROVE Below(stack[i], f) /\ Below(stack[i], g)
  <2>1. Below(stack[i], Top) /\ stack[i].ply \in Int
    BY <1>1, <1>3, <1>5
  <2>2. Below(stack[i], f)
    BY <1>1, <1>4, <2>1 DEF Below, Like
  <2>3. Down(stack[i]) \in {0, 1} /\ Down(f) \in {0, 1}
    BY DEF Down
  <2>4. stack[i].ply + Down(stack[i]) <= g.ply
    BY <1>1, <2>1, <2>3 DEF Below, Startable, Starts, Like
  <2>5. ASSUME stack[i].at = "singular", stack[i].ply = g.ply PROVE g.ex
    <3>1. stack[i].ply = Top.ply /\ f.at \in SamePly
      BY <1>1, <2>1, <2>5 DEF Below, Startable, Starts, Like, Down, SamePly
    <3>2. Top.ex /\ ~f.ex
      BY <2>1, <2>5, <3>1 DEF Below, Local, SamePly
    <3> QED BY <3>2 DEF Like
  <2>6. PvNode(g) => PvNode(stack[i]) /\ stack[i].at \in {"pv", "child"}
    BY <2>1 DEF Below, Startable, Like
  <2>7. stack[i].at \in Waits /\ g.node # "root" /\ g.at # "verify"
    BY <2>1 DEF Below, Startable
  <2> QED BY <2>2, <2>4, <2>5, <2>6, <2>7 DEF Below
<1>9. Below(f, g)
  <2>1. Down(f) \in {0, 1} /\ f.ply \in Int
    BY <1>1 DEF Down, Like
  <2> QED BY <1>1, <2>1 DEF Below, Startable, Starts
<1>10. ASSUME NEW i \in 1 .. n + 1, NEW j \in 1 .. n + 1, i < j PROVE Below(stack'[i], stack'[j])
  <2>1. CASE i = n
    BY <1>1, <1>2, <1>9, <1>10, <2>1
  <2>2. CASE i # n
    <3>1. i \in 1 .. n - 1 /\ stack'[i] = stack[i]
      BY <1>1, <1>2, <1>10, <2>2
    <3>2. CASE j = n + 1 \/ j = n
      BY <1>2, <1>8, <3>1, <3>2
    <3>3. CASE j # n + 1 /\ j # n
      <4>1. j \in 1 .. n - 1
        BY <1>1, <3>3
      <4> QED BY <1>1, <1>2, <1>5, <1>10, <3>1, <4>1
    <3> QED BY <3>2, <3>3
  <2> QED BY <2>1, <2>2
<1>11. ASSUME NEW i \in 1 .. (n + 1) - 1 PROVE Starts(stack'[i], stack'[i + 1])
  <2>1. CASE i = n
    BY <1>1, <1>2, <2>1 DEF Startable
  <2>2. CASE i = n - 1
    <3>1. i \in 1 .. n - 1 /\ i + 1 = n
      BY <1>1, <1>11, <2>2
    <3>2. Starts(stack[i], Top)
      BY <1>1, <1>6, <3>1
    <3> QED BY <1>2, <3>1, <3>2 DEF Starts, Like
  <2>3. CASE i # n /\ i # n - 1
    <3>1. i \in 1 .. n - 1 /\ i + 1 \in 1 .. n - 1
      BY <1>1, <2>3
    <3> QED BY <1>2, <1>6, <3>1
  <2> QED BY <2>1, <2>2, <2>3
<1> QED BY <1>2, <1>7, <1>10, <1>11 DEF Shape

LEMMA ReturnShape ==
  ASSUME Shape, stack # <<>>, NEW v, Return(v)
  PROVE  Shape'
<1> DEFINE n == Len(stack)
<1>1. n \in Nat \ {0}
  BY StackFacts
<1>2. /\ stack' \in Seq(Frames) /\ Len(stack') = n - 1
      /\ \A i \in 1 .. n - 1 : stack'[i] = stack[i]
  BY Returns
<1>3. /\ \A i \in 1 .. n : Local(stack[i]) /\ (i = 1 => stack[i].node = "root")
      /\ \A i, j \in 1 .. n : i < j => Below(stack[i], stack[j])
      /\ \A i \in 1 .. n - 1 : Starts(stack[i], stack[i + 1])
  BY DEF Shape
<1> HIDE DEF n
<1>4. \A i \in 1 .. n - 1 : i \in 1 .. n
  BY <1>1
<1>5. \A i \in 1 .. (n - 1) - 1 : i \in 1 .. n - 1 /\ i + 1 \in 1 .. n - 1
  BY <1>1
<1> QED BY <1>2, <1>3, <1>4, <1>5 DEF Shape

-----------------------------------------------------------------------------
(* The line and the arrays as the calls below the running one rely on them. *)
LEMMA PliesBelow ==
  ASSUME Shape, stack # <<>>, NEW i \in 1 .. Len(stack) - 1
  PROVE  /\ stack[i] \in Frames /\ stack[i].ply \in 0 .. MAX_PLY /\ Top.ply \in 0 .. MAX_PLY
         /\ Below(stack[i], Top) /\ stack[i].ply <= Top.ply
         /\ stack[i].at \notin SamePly => stack[i].ply + 1 <= Top.ply
<1>1. Len(stack) \in Nat \ {0} /\ stack \in Seq(Frames) /\ Top \in Frames
  BY StackFacts
<1>2. i \in 1 .. Len(stack) /\ Len(stack) \in 1 .. Len(stack) /\ i < Len(stack)
  BY <1>1
<1>3. Below(stack[i], Top) /\ stack[i] \in Frames
  BY <1>1, <1>2 DEF Shape, Top
<1>4. stack[i].ply \in 0 .. MAX_PLY /\ Top.ply \in 0 .. MAX_PLY
  BY <1>1, <1>3, Fields
<1> QED BY <1>3, <1>4 DEF Below, Down

LEMMA Lower ==
  ASSUME Shape, LineFits, stack # <<>>, NEW l, \A k \in 1 .. Top.ply : l[k] = line[k],
         NEW i \in 1 .. Len(stack) - 1
  PROVE  LineAt(stack[i], l)
<1> DEFINE f == stack[i]
<1>1. /\ f.ply \in Nat /\ Top.ply \in Nat /\ f.ply <= Top.ply
      /\ f.at \notin SamePly => f.ply + 1 <= Top.ply
      /\ f.at \in Waits
  BY PliesBelow DEF Below
<1>2. LineAt(f, line)
  <2>1. i \in 1 .. Len(stack)
    BY StackFacts
  <2> QED BY <2>1 DEF LineFits
<1> HIDE DEF f
<1>3. f.ply > 0 => l[f.ply] = line[f.ply]
  BY <1>1
<1>4. ASSUME f.at \in Moved \cup {"null"} PROVE l[f.ply + 1] = line[f.ply + 1]
  <2>1. f.at \notin SamePly
    BY <1>4 DEF Moved, SamePly
  <2>2. f.ply + 1 \in 1 .. Top.ply
    BY <1>1, <2>1
  <2> QED BY <2>2
<1>5. LineAt(f, l)
  BY <1>2, <1>3, <1>4 DEF LineAt
<1> QED BY <1>5 DEF f

LEMMA LowerLines ==
  ASSUME Shape, LinesKept, stack # <<>>, NEW s, NEW owner,
         \A k \in 1 .. Len(stack) - 1 : s[k] = stack[k],
         \A p \in Plies : owner[p] = pv[p] \/ pv[p] = Len(stack) \/ (PvNode(Top) /\ p = Top.ply + 1),
         NEW i \in 1 .. Len(stack) - 1
  PROVE  LineOf(i, s, owner)
<1> DEFINE f == stack[i]
           n == Len(stack)
<1>1. /\ f \in Frames /\ f.ply \in 0 .. MAX_PLY /\ Top.ply \in 0 .. MAX_PLY /\ f.ply <= Top.ply
      /\ f.at \notin SamePly => f.ply + 1 <= Top.ply
      /\ PvNode(Top) => f.at \notin SamePly
  BY PliesBelow DEF Below, SamePly
<1>2. n \in Nat \ {0} /\ i \in 1 .. n - 1 /\ i \in 1 .. n /\ MAX_PLY \in Nat
  BY StackFacts, TreeAssumption
<1>3. LineOf(i, stack, pv)
  BY <1>2 DEF LinesKept
<1>4. f.ply \in Plies /\ f.ply + 1 \in Plies
  BY <1>1, <1>2 DEF Plies
<1>5. s[i] = f
  BY <1>2
<1>6. ASSUME f.node = "pv"
      PROVE  /\ owner[f.ply] \in 1 .. i - 1
             /\ s[owner[f.ply]].ply = f.ply - 1 /\ PvNode(s[owner[f.ply]])
  <2>1. /\ pv[f.ply] \in 1 .. i - 1
        /\ stack[pv[f.ply]].ply = f.ply - 1 /\ PvNode(stack[pv[f.ply]])
    BY <1>3, <1>6 DEF LineOf
  <2> HIDE DEF n, f
  <2>2. pv[f.ply] # n /\ f.ply # Top.ply + 1 /\ pv[f.ply] \in 1 .. n - 1
    BY <1>1, <1>2, <2>1
  <2>3. owner[f.ply] = pv[f.ply]
    BY <1>4, <2>2 DEF n
  <2>4. s[pv[f.ply]] = stack[pv[f.ply]]
    BY <2>2 DEF n
  <2> QED BY <2>1, <2>3, <2>4
<1>7. ASSUME pv[f.ply + 1] \in {Null, i} PROVE owner[f.ply + 1] = pv[f.ply + 1]
  <2> HIDE DEF n, f
  <2>1. pv[f.ply + 1] # n
    BY <1>2, <1>7 DEF Null
  <2>2. PvNode(Top) => f.ply + 1 # Top.ply + 1
    BY <1>1
  <2> QED BY <1>4, <2>1, <2>2 DEF n
<1>8. f.fn = "search" /\ PvNode(f) /\ f.at \in {"singular", "made", "reduced", "full", "pv"} =>
        owner[f.ply + 1] \in {Null, i}
  BY <1>3, <1>7 DEF LineOf
<1>9. PvNode(f) /\ f.at = "pv" => owner[f.ply + 1] = i
  BY <1>3, <1>7 DEF LineOf
<1> HIDE DEF f
<1> QED BY <1>5, <1>6, <1>8, <1>9 DEF LineOf

-----------------------------------------------------------------------------
(* The three ways a call goes on keep what the calls rely on.               *)

\* Where the frame at i is to find the line of the next ply
Reads(g, owner, i) ==
  /\ g.fn = "search" /\ PvNode(g) /\ g.at \in {"singular", "made", "reduced", "full", "pv"} =>
       owner[g.ply + 1] \in {Null, i}
  /\ PvNode(g) /\ g.at = "pv" => owner[g.ply + 1] = i

\* The arrays change at most for the next ply, and only under a PV node.
OwnLine == /\ pv' \in [Plies -> Int]
           /\ \A p \in Plies : pv'[p] = pv[p] \/ (PvNode(Top) /\ p = Top.ply + 1)

\* The frame that stands for the running call after a step
LEMMA OwnFrame ==
  ASSUME Shape, LinesKept, stack # <<>>, OwnLine, NEW f, Like(f), Reads(f, pv', Len(stack)),
         NEW s, s[Len(stack)] = f, \A k \in 1 .. Len(stack) - 1 : s[k] = stack[k]
  PROVE  LineOf(Len(stack), s, pv')
<1> DEFINE n == Len(stack)
<1>1. n \in Nat \ {0} /\ n \in 1 .. n /\ Top = stack[n] /\ Top.ply \in 0 .. MAX_PLY
  BY StackFacts, Fields DEF Top
<1>2. LineOf(n, stack, pv)
  BY <1>1 DEF LinesKept
<1>3. f.ply = Top.ply /\ (f.node = "pv" => Top.node = "pv")
  BY DEF Like, PvNode
<1>4. Top.ply \in Plies /\ pv'[Top.ply] = pv[Top.ply]
  <2>1. Top.ply \in Plies /\ Top.ply # Top.ply + 1
    BY <1>1, TreeAssumption DEF Plies
  <2> QED BY <2>1 DEF OwnLine
<1>5. ASSUME f.node = "pv"
      PROVE  /\ pv'[f.ply] \in 1 .. n - 1
             /\ s[pv'[f.ply]].ply = f.ply - 1 /\ PvNode(s[pv'[f.ply]])
  <2>1. /\ pv[Top.ply] \in 1 .. n - 1
        /\ stack[pv[Top.ply]].ply = Top.ply - 1 /\ PvNode(stack[pv[Top.ply]])
    BY <1>1, <1>2, <1>3, <1>5 DEF LineOf
  <2> QED BY <1>3, <1>4, <2>1
<1>6. s[n] = f
  OBVIOUS
<1> HIDE DEF n
<1>7. LineOf(n, s, pv')
  BY <1>5, <1>6 DEF LineOf, Reads, n
<1> QED BY <1>7 DEF n

LEMMA BecomeKeeps ==
  ASSUME Calling, stack # <<>>, NEW g, Like(g), Local(g), g.at \notin Waits, Become(g), ret' = "none",
         \A i \in 1 .. Top.ply : line'[i] = line[i],
         Len(line') = Top.ply + (IF g.at \in {"peek", "made"} THEN 1 ELSE 0),
         g.at \in {"peek", "made"} => line'[Top.ply + 1] = "move",
         OwnLine, Reads(g, pv', Len(stack))
  PROVE  Calling'
<1> DEFINE n == Len(stack)
<1>1. /\ n \in Nat \ {0} /\ n \in 1 .. n /\ Top = stack[n] /\ g \in Frames /\ g.ply = Top.ply
  BY StackFacts DEF Top, Like, Calling
<1>2. /\ Len(stack') = n /\ stack'[n] = g /\ stack' # <<>> /\ Top' = g
      /\ \A i \in 1 .. n - 1 : stack'[i] = stack[i]
  BY <1>1, Becomes DEF Calling
<1>3. Shape'
  BY BecomeShape DEF Calling
<1>4. RetFits'
  BY DEF RetFits
<1>5. LineAt(g, line')
  <2>1. LineAt(Top, line)
    BY <1>1 DEF Calling, LineFits
  <2>2. g.at \in Moved \cup {"null"} => g.at \in {"peek", "made"}
    BY DEF Moved, Waits
  <2>3. Top.ply > 0 => line'[Top.ply] = line[Top.ply]
    BY <1>1, Fields
  <2> QED BY <1>1, <2>1, <2>2, <2>3 DEF LineAt, Like
<1>6. \A i \in 1 .. n - 1 : LineAt(stack[i], line')
  BY Lower DEF Calling
<1>7. \A i \in 1 .. n - 1 : LineOf(i, stack', pv')
  BY <1>2, LowerLines DEF Calling, OwnLine
<1>8. LineOf(n, stack', pv')
  BY <1>2, OwnFrame DEF Calling
<1> HIDE DEF n
<1>9. \A i \in 1 .. n : i = n \/ i \in 1 .. n - 1
  BY <1>1
<1>10. LineFits'
  <2>1. \A i \in 1 .. n : LineAt(stack'[i], line')
    BY <1>2, <1>5, <1>6, <1>9
  <2>2. DownNow' = IF g.at \in {"peek", "made"} THEN 1 ELSE 0
    BY <1>2 DEF DownNow
  <2> QED BY <1>1, <1>2, <2>1, <2>2 DEF LineFits
<1>11. LinesKept'
  BY <1>2, <1>7, <1>8, <1>9 DEF LinesKept, OwnLine
<1> QED BY <1>3, <1>4, <1>10, <1>11 DEF Calling

LEMMA PushKeeps ==
  ASSUME Calling, stack # <<>>, NEW f, NEW g, Like(f), Local(f), f.at \in Waits, Startable(f, g), Local(g),
         f.at = "verify" => \A i \in 1 .. Len(stack) : stack[i].at # "verify", Push(f, g), ret' = "none",
         \A i \in 1 .. Top.ply : line'[i] = line[i], Len(line') = g.ply,
         f.at \in Moved => line'[Top.ply + 1] = "move",
         f.at = "null" => line'[Top.ply + 1] = "null",
         g.ply > 0 /\ line'[g.ply] = "null" => g.node = "all",
         OwnLine, Reads(f, pv', Len(stack)), PvNode(g) => pv'[Top.ply + 1] = Len(stack)
  PROVE  Calling'
<1> DEFINE n == Len(stack)
<1>1. /\ n \in Nat \ {0} /\ n \in 1 .. n /\ Top = stack[n] /\ f \in Frames /\ f.ply = Top.ply /\ g \in Frames
      /\ Top.ply \in 0 .. MAX_PLY /\ g.ply \in 0 .. MAX_PLY
  BY StackFacts, Fields DEF Top, Like, Calling, Startable
<1>2. /\ Len(stack') = n + 1 /\ stack'[n] = f /\ stack'[n + 1] = g /\ stack' # <<>> /\ Top' = g
      /\ \A i \in 1 .. n - 1 : stack'[i] = stack[i]
  BY <1>1, Pushes DEF Calling
<1>3. Shape'
  BY PushShape DEF Calling
<1>4. RetFits'
  BY DEF RetFits
<1>5. LineAt(f, line')
  <2>1. LineAt(Top, line)
    BY <1>1 DEF Calling, LineFits
  <2>2. Top.ply > 0 => line'[Top.ply] = line[Top.ply]
    BY <1>1
  <2> QED BY <1>1, <2>1, <2>2 DEF LineAt, Like
<1>6. LineAt(g, line')
  BY DEF LineAt, Startable, Moved
<1>7. \A i \in 1 .. n - 1 : LineAt(stack[i], line')
  BY Lower DEF Calling
<1>8. \A i \in 1 .. n - 1 : LineOf(i, stack', pv')
  BY <1>2, LowerLines DEF Calling, OwnLine
<1>9. LineOf(n, stack', pv')
  BY <1>2, OwnFrame DEF Calling
<1> HIDE DEF n
<1>10. LineOf(n + 1, stack', pv')
  <2>1. g.at = "enter"
    BY DEF Startable
  <2>2. ASSUME g.node = "pv"
        PROVE  /\ pv'[g.ply] \in 1 .. (n + 1) - 1
               /\ stack'[pv'[g.ply]].ply = g.ply - 1 /\ PvNode(stack'[pv'[g.ply]])
    <3>1. PvNode(g) /\ PvNode(f) /\ f.at \in {"pv", "child"}
      BY <2>2 DEF PvNode, Startable
    <3>2. g.ply = Top.ply + 1
      BY <1>1, <3>1 DEF Startable, Starts, Down, SamePly
    <3>3. pv'[g.ply] = n
      BY <3>1, <3>2 DEF n
    <3>4. f.ply = g.ply - 1 /\ n \in 1 .. (n + 1) - 1
      BY <1>1, <3>2
    <3> QED BY <1>2, <3>1, <3>3, <3>4
  <2> QED BY <1>2, <2>1, <2>2 DEF LineOf
<1>11. \A i \in 1 .. n + 1 : i = n + 1 \/ i = n \/ i \in 1 .. n - 1
  BY <1>1
<1>12. LineFits'
  <2>1. \A i \in 1 .. n + 1 : LineAt(stack'[i], line')
    BY <1>2, <1>5, <1>6, <1>7, <1>11
  <2>2. DownNow' = 0
    BY <1>2 DEF DownNow, Startable
  <2> QED BY <1>1, <1>2, <2>1, <2>2 DEF LineFits
<1>13. LinesKept'
  BY <1>2, <1>8, <1>9, <1>10, <1>11 DEF LinesKept, OwnLine
<1> QED BY <1>3, <1>4, <1>12, <1>13 DEF Calling

LEMMA ReturnKeeps ==
  ASSUME Calling, stack # <<>>, NEW v \in {"sound", "void"}, Return(v),
         \A i \in 1 .. Top.ply : line'[i] = line[i], Len(line') = Top.ply
  PROVE  Calling'
<1> DEFINE n == Len(stack)
<1>1. /\ n \in Nat \ {0} /\ n \in 1 .. n /\ Top = stack[n] /\ Top.ply \in 0 .. MAX_PLY
  BY StackFacts, Fields DEF Top, Calling
<1>2. /\ Len(stack') = n - 1
      /\ \A i \in 1 .. n - 1 : stack'[i] = stack[i]
      /\ n > 1 => stack' # <<>> /\ Top' = stack[n - 1]
      /\ n = 1 => stack' = <<>>
  BY Returns DEF Calling
<1>3. Shape'
  BY ReturnShape DEF Calling
<1>4. ret' = IF n = 1 THEN "none" ELSE v
  BY DEF Return
<1>5. n > 1 => stack[n - 1].at \in Waits /\ Starts(stack[n - 1], Top)
  <2> SUFFICES ASSUME n > 1 PROVE stack[n - 1].at \in Waits /\ Starts(stack[n - 1], Top)
    OBVIOUS
  <2>1. n - 1 \in 1 .. Len(stack) - 1 /\ (n - 1) + 1 = n
    BY <1>1
  <2>2. Below(stack[n - 1], Top)
    BY <2>1, PliesBelow DEF Calling
  <2>3. Starts(stack[n - 1], stack[(n - 1) + 1])
    BY <2>1 DEF Calling, Shape
  <2> QED BY <1>1, <2>1, <2>2, <2>3 DEF Below
<1>6. \A i \in 1 .. n - 1 : LineAt(stack[i], line')
  BY Lower DEF Calling
<1>7. pv' = Forget(pv) /\ pv \in [Plies -> Int]
  BY DEF Return, Calling, LinesKept
<1>8. \A p \in Plies : pv'[p] = pv[p] \/ pv[p] = n
  BY <1>7 DEF Forget
<1>9. pv' \in [Plies -> Int]
  BY <1>7 DEF Forget, Dangling
<1>10. \A i \in 1 .. n - 1 : LineOf(i, stack', pv')
  BY <1>2, <1>8, LowerLines DEF Calling
<1>11. n = 1 => Top.ply = 0
  BY <1>1 DEF Calling, Shape, Local
<1> HIDE DEF n
<1>12. RetFits'
  <2>1. n = 1 \/ n > 1
    BY <1>1
  <2> QED BY <1>2, <1>4, <1>5, <2>1 DEF RetFits
<1>13. LineFits'
  <2>1. \A i \in 1 .. n - 1 : LineAt(stack'[i], line')
    BY <1>2, <1>6
  <2>2. ASSUME n > 1 PROVE Len(line') = Top'.ply + DownNow' /\ stack' # <<>>
    <3>1. ret' # "none" /\ Top' = stack[n - 1] /\ stack[n - 1].at \notin {"peek", "made"}
      BY <1>2, <1>4, <1>5, <2>2 DEF Waits
    <3>2. DownNow' = Down(stack[n - 1])
      BY <3>1 DEF DownNow, Down
    <3> QED BY <1>2, <1>5, <2>2, <3>1, <3>2 DEF Starts
  <2>3. CASE n > 1
    BY <1>2, <2>1, <2>2, <2>3 DEF LineFits
  <2>4. CASE n = 1
    BY <1>2, <1>11, <2>1, <2>4 DEF LineFits
  <2> QED BY <1>1, <2>3, <2>4
<1>14. LinesKept'
  BY <1>2, <1>9, <1>10 DEF LinesKept
<1> QED BY <1>3, <1>12, <1>13, <1>14 DEF Calling

-----------------------------------------------------------------------------
(* What a step makes of the line and of the array.                          *)
LEMMA Running ==
  ASSUME Calling, stack # <<>>
  PROVE  /\ Shape /\ Top \in Frames /\ Local(Top) /\ Top.ply \in 0 .. MAX_PLY /\ Len(line) = Top.ply + DownNow
         /\ PvNode(Top) \in BOOLEAN
BY StackFacts, Fields DEF Calling, LineFits, PvNode

LEMMA LineStays ==
  ASSUME Calling, stack # <<>>, DownNow = 0, UNCHANGED line
  PROVE  Len(line') = Top.ply /\ \A i \in 1 .. Top.ply : line'[i] = line[i]
BY Running

LEMMA LineGrows ==
  ASSUME Calling, stack # <<>>, DownNow = 0, line \in Seq({"move", "null"}), NEW x, line' = Append(line, x)
  PROVE  /\ Len(line') = Top.ply + 1 /\ line'[Top.ply + 1] = x
         /\ \A i \in 1 .. Top.ply : line'[i] = line[i]
<1>1. Len(line) = Top.ply
  BY Running
<1>2. Len(line') = Len(line) + 1 /\ line'[Len(line) + 1] = x /\ \A i \in 1 .. Len(line) : line'[i] = line[i]
  BY SMT
<1> QED BY <1>1, <1>2

LEMMA Front ==
  ASSUME NEW S, NEW l \in Seq(S), Len(l) > 0
  PROVE  LET m == SubSeq(l, 1, Len(l) - 1)
         IN m \in Seq(S) /\ Len(m) = Len(l) - 1 /\ \A i \in 1 .. Len(l) - 1 : m[i] = l[i]
<1> DEFINE n == Len(l)
           m == SubSeq(l, 1, n - 1)
<1>1. n \in Nat \ {0} /\ \A i \in 1 .. n - 1 : l[i] \in S
  BY SMT
<1> HIDE DEF n
<1>2. /\ m \in Seq(S)
      /\ Len(m) = IF 1 <= n - 1 THEN (n - 1) - 1 + 1 ELSE 0
      /\ \A i \in 1 .. (n - 1) - 1 + 1 : m[i] = l[1 + i - 1]
  BY <1>1, SubSeqProperties, SMT
<1> HIDE DEF m
<1>3. Len(m) = n - 1 /\ \A i \in 1 .. n - 1 : m[i] = l[i]
  BY <1>1, <1>2, SMT
<1> QED BY <1>2, <1>3 DEF m, n

LEMMA LineShrinks ==
  ASSUME Calling, stack # <<>>, DownNow = 1, line \in Seq({"move", "null"}),
         line' = SubSeq(line, 1, Len(line) - 1)
  PROVE  Len(line') = Top.ply /\ \A i \in 1 .. Top.ply : line'[i] = line[i]
<1>1. Len(line) = Top.ply + 1 /\ Top.ply \in Nat
  BY Running
<1>2. Len(line') = Len(line) - 1 /\ \A i \in 1 .. Len(line) - 1 : line'[i] = line[i]
  BY <1>1, Front
<1> QED BY <1>1, <1>2

LEMMA Owns ==
  ASSUME Calling, stack # <<>>
  PROVE  /\ UNCHANGED pv => OwnLine
         /\ pv' = NewLine => OwnLine /\ (Top.fn = "search" /\ PvNode(Top) => pv'[Top.ply + 1] = Null)
         /\ PvNode(Top) /\ pv' = [pv EXCEPT ![Top.ply + 1] = Len(stack)] =>
              OwnLine /\ pv'[Top.ply + 1] = Len(stack)
<1>1. pv \in [Plies -> Int] /\ Len(stack) \in Int
  BY StackFacts DEF Calling, LinesKept
<1>2. Top.ply + 1 \in Plies
  BY Running, TreeAssumption DEF Plies
<1>3. UNCHANGED pv => OwnLine
  BY <1>1 DEF OwnLine
<1>4. pv' = NewLine => OwnLine /\ (Top.fn = "search" /\ PvNode(Top) => pv'[Top.ply + 1] = Null)
  BY <1>1, <1>2 DEF OwnLine, NewLine, Null
<1>5. PvNode(Top) /\ pv' = [pv EXCEPT ![Top.ply + 1] = Len(stack)] =>
              OwnLine /\ pv'[Top.ply + 1] = Len(stack)
  BY <1>1, <1>2 DEF OwnLine
<1> QED BY <1>3, <1>4, <1>5

-----------------------------------------------------------------------------
(* The steps: the calls                                                     *)

\* Nothing was started, nothing is made on the position.
Still == stack # <<>> /\ ret = "none" /\ Top.at \notin {"peek", "made"}

LEMMA StillDown == Still => DownNow = 0
BY DEF Still, DownNow

\* The running call goes on without a move made.
LEMMA GoOn ==
  ASSUME Calling, Still, NEW g, Like(g), Local(g), g.at \notin Waits \cup {"peek", "made"},
         Become(g), ret' = "none", UNCHANGED line, UNCHANGED pv \/ pv' = NewLine
  PROVE  Calling'
<1>1. Reads(g, pv', Len(stack))
  BY DEF Reads, Waits
<1>2. Len(line') = Top.ply /\ \A i \in 1 .. Top.ply : line'[i] = line[i]
  BY StillDown, LineStays DEF Still
<1>3. Len(line') = Top.ply + (IF g.at \in {"peek", "made"} THEN 1 ELSE 0)
  BY <1>2, Running DEF Still
<1> QED BY <1>1, <1>2, <1>3, Owns, BecomeKeeps DEF Still

\* A frame at another place is like it.
LEMMA AlikeLike ==
  ASSUME NEW g, Alike(Top, g)
  PROVE  Like(g)
BY DEF Alike, Like, PvNode

LEMMA OnwardSteps ==
  ASSUME Calling, Dive \/ Probe \/ Advance \/ Razor \/ Prune \/ PruneCapture \/ Exhausted
  PROVE  Calling'
<1>1. Still /\ UNCHANGED line /\ ret' = "none" /\ (UNCHANGED pv \/ pv' = NewLine)
  BY DEF Dive, Probe, Advance, Razor, Prune, PruneCapture, Exhausted, Is, Loops, Still, Same
<1>2. Top \in Frames /\ Local(Top) /\ Top.ply \in 0 .. MAX_PLY
  BY <1>1, Running DEF Still
<1>3. CASE Dive
  <2> DEFINE g == [Top EXCEPT !.fn = "qsearch", !.node = IF PvNode(Top) THEN "pv" ELSE "all"]
  <2>1. Become(g) /\ Top.at = "enter" /\ Top.node # "root"
    BY <1>3 DEF Dive, Is
  <2>2. /\ g \in Frames /\ g.ply = Top.ply /\ g.ex = Top.ex /\ g.at = "enter"
        /\ g.node = IF PvNode(Top) THEN "pv" ELSE "all"
    BY <1>2, <2>1 DEF Frames
  <2> HIDE DEF g
  <2>3. Like(g)
    BY <2>1, <2>2 DEF Like, PvNode
  <2>4. Local(g) /\ g.at \notin Waits \cup {"peek", "made"}
    BY <2>1, <2>2 DEF Local, QuietLabels, Waits
  <2> QED BY <1>1, <2>1, <2>3, <2>4, GoOn
<1>4. CASE Probe
  <2>1. PICK tt \in BOOLEAN : Become([Top EXCEPT !.at = "probed", !.tt = tt])
    BY <1>4 DEF Probe
  <2> DEFINE g == [Top EXCEPT !.at = "probed", !.tt = tt]
  <2>2. Alike(Top, g) /\ g.at = "probed"
    <3>1. "probed" \in Labels
      BY DEF Labels
    <3> QED BY <1>2, <3>1, Probing
  <2>3. Top.ply < MAX_PLY /\ Become(g)
    BY <1>4, <2>1 DEF Probe
  <2> HIDE DEF g
  <2>4. Local(g) /\ g.at \notin Waits \cup {"peek", "made"}
    BY <1>2, <2>2, <2>3 DEF Local, Alike, QuietLabels, Waits
  <2> QED BY <1>1, <2>2, <2>3, <2>4, AlikeLike, GoOn
<1>5. ASSUME NEW l \in {"prune", "moves", "probcut", "loop", "end"}, NEW g, Alike(Top, g), g.at = l, Become(g),
             Top.at # "enter", Top.fn = "qsearch" => l \in {"loop", "end"}
      PROVE  Calling'
  <2>1. Local(g) /\ g.at \notin Waits \cup {"peek", "made"}
    BY <1>2, <1>5 DEF Local, Alike, QuietLabels, Waits
  <2> QED BY <1>1, <1>5, <2>1, AlikeLike, GoOn
<1>6. ASSUME NEW l \in {"prune", "moves", "probcut", "loop", "end"}, Goto(l),
             Top.at # "enter", Top.fn = "qsearch" => l \in {"loop", "end"}
      PROVE  Calling'
  <2> DEFINE g == [Top EXCEPT !.at = l]
  <2>1. Alike(Top, g) /\ g.at = l
    <3>1. l \in Labels
      BY DEF Labels
    <3> QED BY <1>2, <3>1, Moving
  <2>2. Become(g)
    BY <1>6 DEF Goto
  <2> HIDE DEF g
  <2> QED BY <1>5, <1>6, <2>1, <2>2
<1>7. ASSUME NEW l \in {"moves", "loop"}, NEW c \in Nat, Become([Top EXCEPT !.at = l, !.mc = c]),
             Top.at # "enter", Top.fn = "qsearch" => l = "loop"
      PROVE  Calling'
  <2> DEFINE g == [Top EXCEPT !.at = l, !.mc = c]
  <2>1. Alike(Top, g) /\ g.at = l
    <3>1. l \in Labels
      BY DEF Labels
    <3> QED BY <1>2, <3>1, Counting
  <2>2. Become(g)
    BY <1>7
  <2> HIDE DEF g
  <2> QED BY <1>5, <1>7, <2>1, <2>2
<1>8. CASE Advance
  <2>1. CASE Top.fn = "search" /\ Top.at # "enter" /\ (Goto("prune") \/ Goto("moves") \/ Goto("probcut"))
    BY <1>6, <2>1
  <2>2. CASE Top.fn = "qsearch" /\ Top.at # "enter" /\ Goto("loop")
    BY <1>6, <2>2
  <2>3. CASE /\ Top.fn = "search" /\ Top.at # "enter"
             /\ Become([Top EXCEPT !.at = "moves", !.mc = 0]) \/ Become([Top EXCEPT !.at = "loop", !.mc = 0])
    BY <1>7, <2>3
  <2> QED BY <1>8, <2>1, <2>2, <2>3 DEF Advance, Is
<1>9. CASE Razor
  <2> DEFINE c == Call("qsearch", "all", Top.ply, FALSE)
             g == [c EXCEPT !.ex = Top.ex]
  <2>1. Become(g) /\ ~PvNode(Top)
    BY <1>9 DEF Razor
  <2>2. c \in Frames /\ c.fn = "qsearch" /\ c.node = "all" /\ c.ply = Top.ply /\ c.at = "enter"
    BY <1>2, Called
  <2>3. Top.ex \in BOOLEAN
    BY <1>2, Fields
  <2> HIDE DEF c
  <2>4. g \in Frames /\ g.fn = "qsearch" /\ g.node = "all" /\ g.ply = Top.ply /\ g.at = "enter" /\ g.ex = Top.ex
    BY <2>2, <2>3 DEF Frames
  <2> HIDE DEF g
  <2>5. Like(g)
    BY <2>1, <2>4 DEF Like, PvNode
  <2>6. Local(g) /\ g.at \notin Waits \cup {"peek", "made"}
    BY <2>4 DEF Local, QuietLabels, Waits
  <2> QED BY <1>1, <2>1, <2>5, <2>6, GoOn
<1>10. CASE Prune \/ PruneCapture
  <2> DEFINE g == [Top EXCEPT !.mc = Top.mc + 1]
  <2>1. Become(g) /\ Top.at = "loop"
    BY <1>10 DEF Prune, PruneCapture, Loops
  <2>2. Top.mc + 1 \in Nat
    BY <1>2, Fields
  <2>3. Alike(Top, g) /\ g.at = "loop"
    BY <1>2, <2>1, <2>2, Skipping
  <2> HIDE DEF g
  <2> QED BY <1>5, <2>1, <2>3
<1>11. CASE Exhausted
  <2>1. Goto("end") /\ Top.at = "loop"
    BY <1>11 DEF Exhausted
  <2> QED BY <1>6, <2>1
<1> QED BY <1>3, <1>4, <1>8, <1>9, <1>10, <1>11

LEMMA LeavingSteps ==
  ASSUME Calling, Leave \/ Cutoff \/ StandPat \/ Futility \/ SmallProbCut \/ End \/ EndCaptures
  PROVE  Calling'
<1>1. Still /\ UNCHANGED line /\ (Return("sound") \/ Return("void"))
  BY DEF Leave, Cutoff, StandPat, Futility, SmallProbCut, End, EndCaptures, Is, Still, Same
<1> QED BY <1>1, StillDown, LineStays, ReturnKeeps DEF Still

\* What the running call reads, and what keeps a call in place another place
LEMMA ReadsNow ==
  ASSUME Calling, stack # <<>>
  PROVE  Reads(Top, pv, Len(stack))
<1>1. Len(stack) \in 1 .. Len(stack)
  BY StackFacts DEF Calling
<1> QED BY <1>1 DEF Calling, LinesKept, LineOf, Reads, Top

LEMMA LocalOn ==
  ASSUME Calling, stack # <<>>, NEW g, Alike(Top, g), Top.at # "enter", g.at \notin {"null", "verify", "singular"},
         Top.fn = "qsearch" => g.at \in QuietLabels, Top.node = "root" => g.at \notin {"peek", "child"}
  PROVE  Local(g)
BY Running DEF Local, Alike

LEMMA QuietNow ==
  ASSUME Calling, stack # <<>>, Top.at \notin QuietLabels
  PROVE  Top.fn = "search"
BY Running, Fields DEF Local

\* A value was returned.
LEMMA Returned ==
  ASSUME Calling, stack # <<>>, ret # "none"
  PROVE  /\ ret \in {"sound", "void"} /\ Top.at \in Waits
         /\ DownNow = IF Top.at \in SamePly THEN 0 ELSE 1
BY DEF Calling, RetFits, DownNow, Waits

\* The running call goes on with a move made, or with no move made any more.
LEMMA MakeOn ==
  ASSUME Calling, stack # <<>>, DownNow = 0, line \in Seq({"move", "null"}), NEW g, Like(g), Local(g),
         g.at \in {"peek", "made"}, Become(g), ret' = "none", line' = Append(line, "move"),
         UNCHANGED pv \/ pv' = NewLine, Reads(g, pv', Len(stack))
  PROVE  Calling'
<1>1. /\ Len(line') = Top.ply + 1 /\ line'[Top.ply + 1] = "move"
      /\ \A i \in 1 .. Top.ply : line'[i] = line[i]
  BY LineGrows
<1>2. Len(line') = Top.ply + (IF g.at \in {"peek", "made"} THEN 1 ELSE 0)
  BY <1>1
<1>3. g.at \notin Waits
  BY DEF Waits
<1>4. OwnLine
  BY Owns
<1> QED BY <1>1, <1>2, <1>3, <1>4, BecomeKeeps

LEMMA LandOn ==
  ASSUME Calling, stack # <<>>, NEW g, Like(g), Local(g), g.at \notin Waits \cup {"peek", "made"},
         Become(g), ret' = "none", UNCHANGED pv, Len(line') = Top.ply,
         \A i \in 1 .. Top.ply : line'[i] = line[i]
  PROVE  Calling'
<1>1. Reads(g, pv', Len(stack))
  BY DEF Reads, Waits
<1>2. Len(line') = Top.ply + (IF g.at \in {"peek", "made"} THEN 1 ELSE 0)
  BY Running
<1> QED BY <1>1, <1>2, Owns, BecomeKeeps

\* It lands at l.
LEMMA LandAt ==
  ASSUME Calling, stack # <<>>, Top.at # "enter", NEW l \in {"prune", "moves", "probcut", "loop", "end"},
         Top.fn = "qsearch" => l \in {"loop", "end"}, NEW g, Alike(Top, g), g.at = l,
         Become(g), ret' = "none", UNCHANGED pv, Len(line') = Top.ply,
         \A i \in 1 .. Top.ply : line'[i] = line[i]
  PROVE  Calling'
<1>1. Local(g)
  BY LocalOn DEF QuietLabels
<1>2. g.at \notin Waits \cup {"peek", "made"}
  BY DEF Waits
<1> QED BY <1>1, <1>2, AlikeLike, LandOn

LEMMA LandGoto ==
  ASSUME Calling, stack # <<>>, Top.at # "enter", NEW l \in {"prune", "moves", "probcut"}, Goto(l),
         Top.fn = "search", ret' = "none", UNCHANGED pv, Len(line') = Top.ply,
         \A i \in 1 .. Top.ply : line'[i] = line[i]
  PROVE  Calling'
<1> DEFINE g == [Top EXCEPT !.at = l]
<1>1. l \in Labels /\ Top \in Frames
  BY Running DEF Labels
<1>2. Alike(Top, g) /\ g.at = l
  BY <1>1, Moving
<1>3. Become(g)
  BY DEF Goto
<1> HIDE DEF g
<1> QED BY <1>2, <1>3, LandAt

LEMMA MadeSteps ==
  ASSUME Calling, line \in Seq({"move", "null"}), Peek \/ MakeMove
  PROVE  Calling'
<1>1. Still /\ DownNow = 0 /\ stack # <<>> /\ Top \in Frames /\ line' = Append(line, "move") /\ ret' = "none"
  BY StillDown, Running DEF Peek, MakeMove, Is, Loops, Still, Made
<1>2. CASE Peek
  <2> DEFINE g == [Top EXCEPT !.at = "peek"]
  <2>0. "peek" \in Labels
    BY DEF Labels
  <2>1. Alike(Top, g) /\ g.at = "peek"
    BY <1>1, <2>0, Moving
  <2>2. Become(g) /\ UNCHANGED pv /\ Top.at = "probed" /\ Top.fn = "search" /\ Top.node # "root"
    BY <1>2 DEF Peek, Goto, Is, PvNode
  <2> HIDE DEF g
  <2>3. Local(g)
    BY <1>1, <2>1, <2>2, LocalOn
  <2>4. Reads(g, pv', Len(stack))
    BY <2>1 DEF Reads
  <2> QED BY <1>1, <2>1, <2>2, <2>3, <2>4, AlikeLike, MakeOn
<1>3. CASE MakeMove
  <2> DEFINE g == [Top EXCEPT !.at = "made", !.mc = Top.mc + 1]
  <2>0. "made" \in Labels /\ Top.mc + 1 \in Nat
    <3>1. Top.mc \in Nat
      BY <1>1, Fields
    <3> QED BY <3>1 DEF Labels
  <2>1. Alike(Top, g) /\ g.at = "made"
    BY <1>1, <2>0, Counting
  <2>2. Become(g) /\ pv' = NewLine /\ Top.at = "loop"
    BY <1>3 DEF MakeMove, Loops
  <2> HIDE DEF g
  <2>3. Local(g)
    BY <1>1, <2>1, <2>2, LocalOn DEF QuietLabels
  <2>4. Top.fn = "search" /\ PvNode(Top) => pv'[Top.ply + 1] = Null
    BY <1>1, <2>2, Owns
  <2>5. Reads(g, pv', Len(stack))
    BY <2>1, <2>4 DEF Reads, Alike, PvNode
  <2> QED BY <1>1, <2>1, <2>2, <2>3, <2>5, AlikeLike, MakeOn
<1> QED BY <1>2, <1>3

\* A value comes back, and the running call returns too or goes on.
LEMMA BackSteps ==
  ASSUME Calling, line \in Seq({"move", "null"}), ~(NullBack /\ Len(stack') > Len(stack)),
         PeekBack \/ NullBack \/ Verified \/ ProbCutBack \/ Unmake \/ UnmakeCapture
  PROVE  Calling'
<1>1. stack # <<>>
  BY DEF PeekBack, NullBack, Verified, ProbCutBack, Unmake, UnmakeCapture, MoveBack, Is, Back
<1>2. Top \in Frames /\ Local(Top) /\ Top.ply \in 0 .. MAX_PLY
  BY <1>1, Running
<1>3. Len(line') = Top.ply /\ \A i \in 1 .. Top.ply : line'[i] = line[i]
  <2>1. CASE PeekBack
    <3>1. DownNow = 1
      BY <2>1 DEF PeekBack, Is, DownNow
    <3> QED BY <1>1, <2>1, <3>1, LineShrinks DEF PeekBack
  <2>2. CASE NullBack \/ ProbCutBack \/ Unmake \/ UnmakeCapture
    <3>1. DownNow = 1
      BY <1>1, <2>2, Returned DEF NullBack, ProbCutBack, Unmake, UnmakeCapture, MoveBack, Back, SamePly
    <3> QED BY <1>1, <2>2, <3>1, LineShrinks DEF NullBack, ProbCutBack, Unmake, UnmakeCapture, Unmade
  <2>3. CASE Verified
    <3>1. DownNow = 0
      BY <1>1, <2>3, Returned DEF Verified, Back, SamePly
    <3> QED BY <1>1, <2>3, <3>1, LineStays DEF Verified, Same
  <2> QED BY <2>1, <2>2, <2>3
<1>4. ASSUME NEW v \in {"sound", "void"}, Return(v) PROVE Calling'
  BY <1>1, <1>3, <1>4, ReturnKeeps
<1>5. ASSUME NEW l \in {"loop", "end"}, Judge(l), Top.at # "enter" PROVE Calling'
  <2> DEFINE b == Top.sound /\ ret = "sound"
             g == [Top EXCEPT !.at = l, !.sound = b]
  <2>1. Become(g) /\ ret' = "none" /\ UNCHANGED pv
    BY <1>5 DEF Judge
  <2>2. b \in BOOLEAN
    BY <1>2, Fields
  <2> HIDE DEF b
  <2>3. l \in Labels
    BY DEF Labels
  <2>4. Alike(Top, g) /\ g.at = l
    BY <1>2, <2>2, <2>3, Judging
  <2> HIDE DEF g
  <2> QED BY <1>1, <1>3, <1>5, <2>1, <2>4, LandAt
<1>6. CASE PeekBack
  <2>1. Top.fn = "search" /\ Top.at = "peek" /\ ret = "none"
    BY <1>6 DEF PeekBack, Is
  <2>2. CASE Return("sound")
    BY <1>4, <2>2
  <2>3. CASE (Goto("prune") \/ Goto("moves")) /\ UNCHANGED <<ret, pv>>
    BY <1>1, <1>3, <2>1, <2>3, LandGoto
  <2> QED BY <1>6, <2>2, <2>3 DEF PeekBack
<1>7. CASE NullBack
  <2>1. ret \in {"sound", "void"} /\ Top.at = "null" /\ Top.fn = "search"
    BY <1>1, <1>7, Returned, QuietNow DEF NullBack, Back, QuietLabels
  <2>2. CASE Goto("probcut") /\ ret' = "none" /\ UNCHANGED <<pv, nmpMinPly>>
    BY <1>1, <1>3, <2>1, <2>2, LandGoto
  <2>3. CASE Return(ret)
    BY <1>4, <2>1, <2>3
  <2>4. CASE Push([Top EXCEPT !.at = "verify", !.nullValue = ret], Call("search", "all", Top.ply, FALSE))
    <3> DEFINE f == [Top EXCEPT !.at = "verify", !.nullValue = ret]
               g == Call("search", "all", Top.ply, FALSE)
    <3>1. "verify" \in Labels /\ ret \in {"none", "sound", "void"}
      BY <2>1 DEF Labels
    <3>2. f \in Frames
      BY <1>2, <3>1, Keeping DEF Alike
    <3>3. g \in Frames
      BY <1>2, Called
    <3> HIDE DEF f, g
    <3>4. Len(stack') = Len(stack) + 1
      BY <1>1, <2>4, <3>2, <3>3, Pushes DEF f, g, Calling
    <3> QED BY <1>1, <1>7, <3>4, StackFacts DEF Calling
  <2> QED BY <1>7, <2>2, <2>3, <2>4 DEF NullBack
<1>8. CASE Verified
  <2>1. Top.at = "verify" /\ Top.fn = "search"
    BY <1>1, <1>8, QuietNow DEF Verified, Back, QuietLabels
  <2>2. Top.nullValue \in {"sound", "void"}
    BY <1>2, <2>1, Fields DEF Local
  <2>3. CASE Return(IF ret = "void" THEN ret ELSE Top.nullValue)
    <3>1. CASE ret = "void"
      BY <1>4, <2>3, <3>1
    <3>2. CASE ret # "void"
      BY <1>4, <2>2, <2>3, <3>2
    <3> QED
      BY <3>1, <3>2
  <2>4. CASE Goto("probcut") /\ ret' = "none" /\ UNCHANGED pv
    BY <1>1, <1>3, <2>1, <2>4, LandGoto
  <2> QED BY <1>8, <2>3, <2>4 DEF Verified
<1>9. CASE ProbCutBack
  <2>1. ret \in {"sound", "void"} /\ Top.at # "enter" /\ Top.fn = "search"
    BY <1>1, <1>9, Returned, QuietNow DEF ProbCutBack, Back, QuietLabels
  <2>2. CASE Goto("probcut") /\ ret' = "none" /\ UNCHANGED pv
    BY <1>1, <1>3, <2>1, <2>2, LandGoto
  <2>3. CASE Return(ret)
    BY <1>4, <2>1, <2>3
  <2> QED BY <1>9, <2>2, <2>3 DEF ProbCutBack
<1>10. CASE Unmake \/ UnmakeCapture
  <2>1. Top.at # "enter"
    BY <1>10 DEF Unmake, UnmakeCapture, MoveBack, Back
  <2>2. CASE Return("void")
    BY <1>4, <2>2
  <2>3. CASE Judge("loop") \/ Judge("end")
    BY <1>5, <2>1, <2>3
  <2> QED BY <1>10, <2>2, <2>3 DEF Unmake, UnmakeCapture
<1> QED BY <1>6, <1>7, <1>8, <1>9, <1>10

LEMMA SingularReturns ==
  ASSUME Calling, line \in Seq({"move", "null"}), SingularBack
  PROVE  Calling'
<1>1. stack # <<>> /\ Top.at = "singular" /\ ret # "none"
  BY DEF SingularBack, Back
<1>2. Top \in Frames /\ Top.fn = "search" /\ Top.node # "root" /\ ret \in {"sound", "void"} /\ DownNow = 0
  BY <1>1, Running, QuietNow, Returned DEF QuietLabels, Local, SamePly
<1>3. CASE Return(ret) /\ Same
  BY <1>1, <1>2, <1>3, LineStays, ReturnKeeps DEF Same
<1>4. CASE Made /\ Goto("made") /\ ret' = "none" /\ pv' = pv
  <2> DEFINE g == [Top EXCEPT !.at = "made"]
  <2>0. "made" \in Labels
    BY DEF Labels
  <2>1. Alike(Top, g) /\ g.at = "made"
    BY <1>2, <2>0, Moving
  <2>2. Become(g) /\ line' = Append(line, "move")
    BY <1>4 DEF Goto, Made
  <2> HIDE DEF g
  <2>3. Local(g)
    BY <1>1, <1>2, <2>1, LocalOn
  <2>4. Reads(g, pv', Len(stack))
    BY <1>1, <1>4, <2>1, ReadsNow DEF Reads, Alike, PvNode
  <2> QED BY <1>1, <1>2, <1>4, <2>1, <2>2, <2>3, <2>4, AlikeLike, MakeOn
<1> QED BY <1>3, <1>4 DEF SingularBack

\* A call at the next ply, or at this one
LEMMA StartOn ==
  ASSUME Calling, stack # <<>>, Top.at # "enter", NEW f, Alike(Top, f), Local(f), f.at \in Waits,
         NEW fn \in {"search", "qsearch"}, NEW node \in {"pv", "cut", "all"}, NEW ex \in BOOLEAN,
         NEW ply, ply = Top.ply + Down(f), Push(f, Call(fn, node, ply, ex)), ret' = "none",
         node = "pv" => PvNode(Top) /\ f.at \in {"pv", "child"},
         ex <=> f.at = "singular",
         f.at = "verify" => \A i \in 1 .. Len(stack) : stack[i].at # "verify",
         Len(line') = ply, \A i \in 1 .. Top.ply : line'[i] = line[i],
         f.at \in Moved => line'[Top.ply + 1] = "move",
         f.at = "null" => line'[Top.ply + 1] = "null",
         ply > 0 /\ line'[ply] = "null" => node = "all",
         OwnLine, Reads(f, pv', Len(stack)), node = "pv" => pv'[Top.ply + 1] = Len(stack)
  PROVE  Calling'
<1> DEFINE g == Call(fn, node, ply, ex)
<1>1. Top \in Frames /\ Local(Top) /\ Top.ply \in 0 .. MAX_PLY /\ f.ply = Top.ply
  BY Running DEF Alike
<1>2. ply \in 0 .. MAX_PLY
  BY <1>1, TreeAssumption DEF Local, Down
<1>3. g \in Frames /\ g.fn = fn /\ g.node = node /\ g.ply = ply /\ g.ex = ex /\ g.at = "enter"
  BY <1>2, Called
<1>4. Push(f, g)
  OBVIOUS
<1> HIDE DEF g
<1>5. PvNode(g) => PvNode(f) /\ f.at \in {"pv", "child"} /\ node = "pv"
  BY <1>3 DEF PvNode, Alike
<1>6. Starts(f, g)
  BY <1>1, <1>3 DEF Starts
<1>7. Startable(f, g)
  BY <1>3, <1>5, <1>6 DEF Startable
<1>8. Local(g)
  BY <1>3 DEF Local, QuietLabels
<1> QED BY <1>3, <1>4, <1>5, <1>7, <1>8, AlikeLike, PushKeeps

\* A call at the next ply once the move is made
LEMMA ChildOn ==
  ASSUME Calling, stack # <<>>, Top.at \in Moved \ {"peek"}, DownNow = 1, UNCHANGED line,
         NEW f, Alike(Top, f), Local(f), f.at \in Waits \cap Moved,
         NEW fn \in {"search", "qsearch"}, NEW node \in {"pv", "cut", "all"},
         Push(f, Call(fn, node, Top.ply + 1, FALSE)), ret' = "none",
         node = "pv" => PvNode(Top) /\ f.at \in {"pv", "child"} /\ pv'[Top.ply + 1] = Len(stack),
         OwnLine, Reads(f, pv', Len(stack))
  PROVE  Calling'
<1>1. Len(line') = Top.ply + 1 /\ \A i \in 1 .. Top.ply : line'[i] = line[i]
  BY Running
<1>2. line'[Top.ply + 1] = "move"
  <2>1. Len(stack) \in 1 .. Len(stack)
    BY StackFacts DEF Calling
  <2> QED BY <2>1 DEF Calling, LineFits, LineAt, Top
<1>3. Down(f) = 1 /\ f.at # "singular" /\ f.at # "null" /\ f.at # "verify" /\ Top.at # "enter"
  BY DEF Down, Moved, SamePly
<1> QED BY <1>1, <1>2, <1>3, StartOn

LEMMA StartSteps ==
  ASSUME Calling, line \in Seq({"move", "null"}), NullMove \/ ProbCut \/ Singular
  PROVE  Calling'
<1>1. Still /\ stack # <<>> /\ DownNow = 0 /\ ret' = "none" /\ Top.at # "enter"
  BY StillDown DEF NullMove, ProbCut, Singular, Is, Loops, Still
<1>2. Top \in Frames /\ Local(Top) /\ Top.ply \in 0 .. MAX_PLY /\ Len(line) = Top.ply
  BY <1>1, Running
<1>0. Top \in Frames
  BY <1>2
<1>3. LineAt(Top, line)
  <2>1. Len(stack) \in 1 .. Len(stack)
    BY <1>1, StackFacts DEF Calling
  <2> QED BY <2>1 DEF Calling, LineFits, Top
<1>4. CASE NullMove
  <2> DEFINE f == [Top EXCEPT !.at = "null"]
  <2>0. "null" \in Labels
    BY DEF Labels
  <2>1. Alike(Top, f) /\ f.at = "null"
    BY <1>2, <2>0, Moving
  <2>2. /\ Push(f, Call("search", "all", Top.ply + 1, FALSE)) /\ line' = Append(line, "null")
        /\ Top.at = "prune" /\ Top.fn = "search" /\ Top.node = "cut" /\ ~Top.ex /\ UNCHANGED pv
    BY <1>4 DEF NullMove, Is, CutNode
  <2> HIDE DEF f
  <2>3. Local(f)
    BY <1>2, <2>1, <2>2 DEF Local, Alike
  <2>4. Down(f) = 1 /\ f.at \in Waits /\ f.at \notin Moved /\ Reads(f, pv', Len(stack))
    BY <2>1 DEF Down, Waits, Moved, SamePly, Reads
  <2>5. /\ Len(line') = Top.ply + 1 /\ line'[Top.ply + 1] = "null"
        /\ \A i \in 1 .. Top.ply : line'[i] = line[i]
    BY <1>1, <2>2, LineGrows
  <2>6. OwnLine
    BY <1>1, <2>2, Owns
  <2> QED BY <1>1, <2>1, <2>2, <2>3, <2>4, <2>5, <2>6, StartOn
<1>5. CASE ProbCut
  <2> DEFINE f == [Top EXCEPT !.at = "probcut q", !.mc = Top.mc + 1]
  <2>0. "probcut q" \in Labels /\ Top.mc + 1 \in Nat
    <3>1. Top.mc \in Nat
      BY <1>2, Fields
    <3> QED BY <3>1 DEF Labels
  <2>1. Alike(Top, f) /\ f.at = "probcut q"
    BY <1>0, <2>0, Counting
  <2>2. /\ Push(f, Call("qsearch", "all", Top.ply + 1, FALSE)) /\ line' = Append(line, "move")
        /\ Top.at = "probcut" /\ Top.fn = "search" /\ UNCHANGED pv
    BY <1>5 DEF ProbCut, Is, Made
  <2> HIDE DEF f
  <2>3. Local(f)
    BY <1>1, <2>1, <2>2, LocalOn
  <2>4. Down(f) = 1 /\ f.at \in Waits /\ Reads(f, pv', Len(stack))
    BY <2>1 DEF Down, Waits, SamePly, Reads
  <2>5. /\ Len(line') = Top.ply + 1 /\ line'[Top.ply + 1] = "move"
        /\ \A i \in 1 .. Top.ply : line'[i] = line[i]
    BY <1>1, <2>2, LineGrows
  <2>6. OwnLine
    BY <1>1, <2>2, Owns
  <2> QED BY <1>1, <2>1, <2>2, <2>3, <2>4, <2>5, <2>6, StartOn
<1>6. CASE Singular
  <2> DEFINE f == [Top EXCEPT !.at = "singular", !.mc = 1]
             node == IF CutNode(Top) THEN "cut" ELSE "all"
  <2>0. "singular" \in Labels /\ 1 \in Nat
    BY DEF Labels
  <2>1. Alike(Top, f) /\ f.at = "singular"
    BY <1>0, <2>0, Counting
  <2>2. /\ Push(f, Call("search", node, Top.ply, TRUE)) /\ UNCHANGED line /\ pv' = NewLine
        /\ Top.at = "loop" /\ Top.fn = "search" /\ ~Top.ex /\ Top.node # "root"
    BY <1>6 DEF Singular, Loops, Same
  <2>3. node \in {"cut", "all"} /\ (Top.node = "all" => node = "all")
    BY DEF CutNode
  <2> HIDE DEF f, node
  <2>4. Local(f)
    BY <1>2, <2>1, <2>2 DEF Local, Alike
  <2>5. Down(f) = 0 /\ f.at \in Waits /\ f.at \notin Moved /\ Top.ply = Top.ply + Down(f)
    BY <1>2, <2>1 DEF Down, Waits, SamePly, Moved
  <2>6. Len(line') = Top.ply /\ \A i \in 1 .. Top.ply : line'[i] = line[i]
    BY <1>1, <2>2, LineStays
  <2>7. Top.ply > 0 /\ line'[Top.ply] = "null" => node = "all"
    BY <1>3, <2>2, <2>3 DEF LineAt
  <2>8. OwnLine /\ (PvNode(Top) => pv'[Top.ply + 1] = Null)
    BY <1>1, <2>2, Owns
  <2>9. Reads(f, pv', Len(stack))
    BY <2>1, <2>8 DEF Reads, Alike, PvNode
  <2> QED BY <1>1, <2>1, <2>2, <2>3, <2>4, <2>5, <2>6, <2>7, <2>8, <2>9, StartOn
<1> QED BY <1>4, <1>5, <1>6

LEMMA ChildSteps ==
  ASSUME Calling, ProbCutSearch \/ Reduced \/ FullDepth \/ FullWindow \/ Quiesce
  PROVE  Calling'
<1>1. /\ stack # <<>> /\ UNCHANGED line /\ ret' = "none" /\ Top.at \in Moved \ {"peek"} /\ Top.at # "enter"
      /\ Top.at \in {"reduced", "full", "probcut q"} => ret # "none"
  BY DEF ProbCutSearch, Reduced, FullDepth, FullWindow, Quiesce, Is, Back, Child, Same, Moved
<1>2. Top \in Frames /\ Local(Top)
  BY <1>1, Running
<1>3. DownNow = 1
  <2>1. CASE Top.at = "made"
    BY <2>1 DEF DownNow
  <2>2. CASE ret # "none" /\ Top.at # "made"
    BY <1>1, <2>2, Returned DEF Moved, SamePly
  <2>3. Top.at = "made" \/ ret # "none"
    BY <1>1 DEF ProbCutSearch, Reduced, FullDepth, FullWindow, Quiesce, Is, Back
  <2> QED BY <2>1, <2>2, <2>3
<1>4. ASSUME NEW l \in {"probcut search", "reduced", "full", "pv", "child"}, NEW fn \in {"search", "qsearch"},
             NEW node \in {"pv", "cut", "all"},
             Push([Top EXCEPT !.at = l], Call(fn, node, Top.ply + 1, FALSE)),
             l = "child" <=> Top.fn = "qsearch", Top.node = "root" => l # "child",
             node = "pv" => PvNode(Top) /\ l \in {"pv", "child"} /\ pv'[Top.ply + 1] = Len(stack),
             OwnLine, l = "pv" => pv'[Top.ply + 1] = Len(stack),
             l \in {"reduced", "full"} => UNCHANGED pv /\ Top.at \in {"made", "reduced", "full"}
      PROVE  Calling'
  <2> DEFINE f == [Top EXCEPT !.at = l]
  <2>0. l \in Labels
    BY DEF Labels
  <2>1. Alike(Top, f) /\ f.at = l
    BY <1>2, <2>0, Moving
  <2>2. Push(f, Call(fn, node, Top.ply + 1, FALSE))
    BY <1>4
  <2> HIDE DEF f
  <2>3. Local(f)
    BY <1>1, <1>4, <2>1, LocalOn DEF QuietLabels
  <2>4. f.at \in Waits \cap Moved
    BY <2>1 DEF Waits, Moved
  <2>5. Reads(f, pv', Len(stack))
    BY <1>1, <1>4, <2>1, ReadsNow DEF Reads, Alike, PvNode
  <2> QED BY <1>1, <1>3, <1>4, <2>1, <2>2, <2>3, <2>4, <2>5, ChildOn
<1>5. CASE ProbCutSearch
  <2>1. Top.fn = "search" /\ UNCHANGED pv
    BY <1>1, <1>5, QuietNow DEF ProbCutSearch, Back, QuietLabels
  <2>2. OwnLine
    BY <1>1, <2>1, Owns
  <2> QED BY <1>4, <1>5, <2>1, <2>2 DEF ProbCutSearch
<1>6. CASE Reduced
  <2>1. Top.fn = "search" /\ UNCHANGED pv /\ Top.at = "made"
    BY <1>6 DEF Reduced, Is
  <2>2. OwnLine
    BY <1>1, <2>1, Owns
  <2> QED BY <1>4, <1>6, <2>1, <2>2 DEF Reduced, Child
<1>7. CASE FullDepth
  <2>1. Top.fn = "search" /\ UNCHANGED pv /\ Top.at \in {"made", "reduced"}
    BY <1>1, <1>7, QuietNow DEF FullDepth, Is, Back, QuietLabels
  <2>2. OwnLine
    BY <1>1, <2>1, Owns
  <2>3. Push([Top EXCEPT !.at = "full"], Call("search", IF CutNode(Top) THEN "all" ELSE "cut", Top.ply + 1, FALSE))
    BY <1>7 DEF FullDepth, Child
  <2> QED BY <1>4, <2>1, <2>2, <2>3
<1>8. CASE FullWindow
  <2>1. Top.fn = "search" /\ PvNode(Top)
    BY <1>1, <1>8, QuietNow DEF FullWindow, Is, Back, QuietLabels
  <2>2. OwnLine /\ pv'[Top.ply + 1] = Len(stack)
    BY <1>1, <1>8, <2>1, Owns DEF FullWindow
  <2> QED BY <1>4, <1>8, <2>1, <2>2 DEF FullWindow, Child
<1>9. CASE Quiesce
  <2>1. Top.fn = "qsearch" /\ Top.node # "root" /\ Top.node \in {"pv", "cut", "all"}
    BY <1>2, <1>9, Fields DEF Quiesce, Is, Local
  <2>2. OwnLine /\ (PvNode(Top) => pv'[Top.ply + 1] = Len(stack))
    BY <1>1, <1>9, Owns DEF Quiesce
  <2>3. Push([Top EXCEPT !.at = "child"], Call("qsearch", Top.node, Top.ply + 1, FALSE))
    BY <1>9 DEF Quiesce, Child
  <2> QED BY <1>4, <2>1, <2>2, <2>3 DEF PvNode
<1> QED BY <1>5, <1>6, <1>7, <1>8, <1>9

\* The null move is verified: no verification runs yet.
LEMMA VerifySteps ==
  ASSUME Calling, Flags, line \in Seq({"move", "null"}), NullBack, Len(stack') > Len(stack)
  PROVE  Calling'
<1>1. stack # <<>> /\ Top.at = "null" /\ ret # "none"
  BY DEF NullBack, Back
<1>2. /\ Top \in Frames /\ Local(Top) /\ Top.fn = "search" /\ ret \in {"sound", "void"} /\ DownNow = 1
      /\ Top.ply \in 0 .. MAX_PLY
  BY <1>1, Running, QuietNow, Returned DEF QuietLabels, SamePly
<1>3. Len(stack) \in Nat \ {0}
  BY <1>1, StackFacts DEF Calling
<1>4. CASE Goto("probcut") /\ ret' = "none" /\ UNCHANGED <<pv, nmpMinPly>>
  <2> DEFINE g == [Top EXCEPT !.at = "probcut"]
  <2>1. "probcut" \in Labels
    BY DEF Labels
  <2>2. g \in Frames
    BY <1>2, <2>1, Moving DEF Alike
  <2>3. Become(g)
    BY <1>4 DEF Goto
  <2> HIDE DEF g
  <2>4. Len(stack') = Len(stack)
    BY <1>1, <2>2, <2>3, Becomes DEF Calling
  <2> QED BY <1>3, <2>4
<1>5. CASE Return(ret)
  <2>1. Len(stack') = Len(stack) - 1
    BY <1>1, <1>5, Returns DEF Calling
  <2> QED BY <1>3, <2>1
<1>6. CASE /\ nmpMinPly = 0 /\ ret' = "none" /\ UNCHANGED pv
           /\ Push([Top EXCEPT !.at = "verify", !.nullValue = ret], Call("search", "all", Top.ply, FALSE))
  <2> DEFINE f == [Top EXCEPT !.at = "verify", !.nullValue = ret]
  <2>1. "verify" \in Labels /\ ret \in {"none", "sound", "void"}
    BY <1>2 DEF Labels
  <2>2. Alike(Top, f) /\ f.at = "verify" /\ f.nullValue = ret
    <3>1. Top \in Frames
      BY <1>2
    <3> QED BY <1>2, <3>1 DEF Alike, Frames
  <2>3. Push(f, Call("search", "all", Top.ply, FALSE))
    BY <1>6
  <2> HIDE DEF f
  <2>4. Local(f)
    BY <1>1, <1>2, <2>2 DEF Local, Alike
  <2>5. Down(f) = 0 /\ f.at \in Waits /\ f.at \notin Moved /\ Reads(f, pv', Len(stack)) /\ Top.ply = Top.ply + Down(f)
    BY <1>2, <2>2 DEF Down, Waits, Moved, SamePly, Reads
  <2>6. Len(line') = Top.ply /\ \A i \in 1 .. Top.ply : line'[i] = line[i]
    BY <1>1, <1>2, LineShrinks DEF NullBack
  <2>7. OwnLine
    BY <1>1, <1>6, Owns
  <2>8. \A i \in 1 .. Len(stack) : stack[i].at # "verify"
    BY <1>6 DEF Flags
  <2> QED BY <1>1, <1>6, <2>2, <2>3, <2>4, <2>5, <2>6, <2>7, <2>8, StartOn
<1> QED BY <1>4, <1>5, <1>6 DEF NullBack

LEMMA RootSteps ==
  ASSUME Calling, Iterate
  PROVE  Calling'
<1> DEFINE g == Call("search", "root", 0, FALSE)
<1>1. stack = <<>> /\ stack' = <<g>> /\ UNCHANGED <<ret, line, pv>>
  BY DEF Iterate
<1>2. g \in Frames /\ g.fn = "search" /\ g.node = "root" /\ g.ply = 0 /\ ~g.ex /\ g.at = "enter"
  <2>1. 0 \in 0 .. MAX_PLY /\ FALSE \in BOOLEAN
    BY TreeAssumption
  <2> QED BY <2>1 DEF Call, Frames
<1> HIDE DEF g
<1>3. stack' \in Seq(Frames) /\ Len(stack') = 1 /\ stack'[1] = g /\ stack' # <<>>
  BY <1>1, <1>2
<1>4. Top' = g
  BY <1>3 DEF Top
<1>5. Local(g)
  BY <1>2 DEF Local
<1>6. Shape'
  BY <1>2, <1>3, <1>5 DEF Shape
<1>7. ret = "none" /\ Len(line) = 0
  BY <1>1 DEF Calling, RetFits, LineFits
<1>8. RetFits'
  BY <1>1, <1>7 DEF RetFits
<1>9. LineFits'
  <2>1. LineAt(g, line')
    BY <1>2 DEF LineAt, Moved
  <2>2. DownNow' = 0
    BY <1>1, <1>2, <1>4, <1>7 DEF DownNow
  <2> QED BY <1>1, <1>2, <1>3, <1>4, <1>7, <2>1, <2>2 DEF LineFits
<1>10. LinesKept'
  <2>1. LineOf(1, stack', pv')
    BY <1>2, <1>3 DEF LineOf
  <2> QED BY <1>1, <1>3, <2>1 DEF Calling, LinesKept
<1> QED BY <1>6, <1>8, <1>9, <1>10 DEF Calling

LEMMA SameCalls ==
  ASSUME Calling, UNCHANGED <<stack, ret, line, pv>>
  PROVE  Calling'
BY DEF Calling, Shape, RetFits, LineFits, LinesKept, DownNow, Top

LEMMA NextCalling ==
  ASSUME TreeInv, [Next]_vars
  PROVE  Calling'
<1>1. Calling /\ Flags /\ line \in Seq({"move", "null"})
  BY DEF TreeInv, LineCounts
<1>2. CASE UNCHANGED vars
  BY <1>1, <1>2, SameCalls DEF vars
<1>3. CASE Stop
  BY <1>1, <1>3, SameCalls DEF Stop
<1>4. CASE Dive \/ Probe \/ Advance \/ Razor \/ Prune \/ PruneCapture \/ Exhausted
  BY <1>1, <1>4, OnwardSteps
<1>5. CASE Leave \/ Cutoff \/ StandPat \/ Futility \/ SmallProbCut \/ End \/ EndCaptures
  BY <1>1, <1>5, LeavingSteps
<1>6. CASE Peek \/ MakeMove
  BY <1>1, <1>6, MadeSteps
<1>7. CASE PeekBack \/ NullBack \/ Verified \/ ProbCutBack \/ Unmake \/ UnmakeCapture
  BY <1>1, <1>7, BackSteps, VerifySteps
<1>8. CASE SingularBack
  BY <1>1, <1>8, SingularReturns
<1>9. CASE NullMove \/ ProbCut \/ Singular
  BY <1>1, <1>9, StartSteps
<1>10. CASE ProbCutSearch \/ Reduced \/ FullDepth \/ FullWindow \/ Quiesce
  BY <1>1, <1>10, ChildSteps
<1>11. CASE Iterate
  BY <1>1, <1>11, RootSteps
<1> QED BY <1>2, <1>3, <1>4, <1>5, <1>6, <1>7, <1>8, <1>9, <1>10, <1>11 DEF Next, Step

-----------------------------------------------------------------------------
(* How the frames change, for what is counted along them                    *)
Kept(s) == \A i \in 1 .. Len(stack) - 1 : s[i] = stack[i]

Became(l) ==
  /\ stack # <<>> /\ Len(stack') = Len(stack) /\ stack' # <<>> /\ Kept(stack')
  /\ stack'[Len(stack)].ply = Top.ply /\ stack'[Len(stack)].at = l

Pushed(l) ==
  /\ stack # <<>> /\ Len(stack') = Len(stack) + 1 /\ stack' # <<>> /\ Kept(stack')
  /\ stack'[Len(stack)].ply = Top.ply /\ stack'[Len(stack)].at = l
  /\ stack'[Len(stack) + 1].at = "enter"

Popped == stack # <<>> /\ stack' \in Seq(Frames) /\ Len(stack') = Len(stack) - 1 /\ Kept(stack')

LEMMA AlikeBecame ==
  ASSUME Calling, stack # <<>>, NEW g \in Frames, g.ply = Top.ply, Become(g)
  PROVE  Became(g.at)
BY Becomes DEF Became, Kept, Calling

LEMMA GotoBecame ==
  ASSUME Calling, stack # <<>>, NEW l \in Labels, Goto(l)
  PROVE  Became(l)
<1> DEFINE g == [Top EXCEPT !.at = l]
<1>1. Top \in Frames
  BY Running
<1>2. Alike(Top, g) /\ g.at = l
  BY <1>1, Moving
<1>3. Become(g)
  BY DEF Goto
<1> HIDE DEF g
<1> QED BY <1>2, <1>3, AlikeBecame DEF Alike

LEMMA AlikePushed ==
  ASSUME Calling, stack # <<>>, NEW f, Alike(Top, f), NEW ply \in 0 .. MAX_PLY, NEW ex \in BOOLEAN,
         NEW fn \in {"search", "qsearch"}, NEW node \in {"pv", "cut", "all"}, Push(f, Call(fn, node, ply, ex))
  PROVE  Pushed(f.at)
<1> DEFINE g == Call(fn, node, ply, ex)
<1>1. g \in Frames /\ g.at = "enter"
  BY Called
<1>2. Push(f, g) /\ f \in Frames /\ f.ply = Top.ply
  BY DEF Alike
<1> HIDE DEF g
<1> QED BY <1>1, <1>2, Pushes DEF Pushed, Kept, Calling

LEMMA ReturnPopped ==
  ASSUME Calling, stack # <<>>, NEW v, Return(v)
  PROVE  Popped
BY Returns DEF Popped, Kept, Calling

\* Neither a search of the same ply nor a look ahead is begun or ended.
Plain(l) == l \notin SamePly \cup {"peek"}

Plainly ==
  /\ Plain(Top.at)
  /\ \/ Popped
     \/ \E l \in Labels : Plain(l) /\ (Became(l) \/ Pushed(l))

LEMMA PlainGoto ==
  ASSUME Calling, stack # <<>>, Plain(Top.at), NEW l \in Labels, Plain(l), Goto(l)
  PROVE  Plainly
BY GotoBecame DEF Plainly

LEMMA PlainAlike ==
  ASSUME Calling, stack # <<>>, Plain(Top.at), NEW g, Alike(Top, g), Plain(g.at), Become(g)
  PROVE  Plainly
<1>1. g \in Frames /\ g.ply = Top.ply /\ g.at \in Labels
  BY Fields DEF Alike
<1> QED BY <1>1, AlikeBecame DEF Plainly

LEMMA PlainPush ==
  ASSUME Calling, stack # <<>>, Plain(Top.at), Top.at # "enter", NEW f, Alike(Top, f), Plain(f.at),
         NEW fn \in {"search", "qsearch"}, NEW node \in {"pv", "cut", "all"},
         Push(f, Call(fn, node, Top.ply + 1, FALSE))
  PROVE  Plainly
<1>1. Top.ply + 1 \in 0 .. MAX_PLY /\ FALSE \in BOOLEAN
  BY Running, TreeAssumption DEF Local
<1>2. f.at \in Labels
  BY Fields DEF Alike
<1>3. Pushed(f.at)
  BY <1>1, AlikePushed
<1> QED BY <1>2, <1>3 DEF Plainly

LEMMA PlainChild ==
  ASSUME Calling, stack # <<>>, Plain(Top.at), Top.at # "enter", NEW l \in Labels, Plain(l),
         NEW fn \in {"search", "qsearch"}, NEW node \in {"pv", "cut", "all"},
         Push([Top EXCEPT !.at = l], Call(fn, node, Top.ply + 1, FALSE))
  PROVE  Plainly
<1> DEFINE f == [Top EXCEPT !.at = l]
<1>1. Top \in Frames
  BY Running
<1>2. Alike(Top, f) /\ f.at = l
  BY <1>1, Moving
<1>3. Push(f, Call(fn, node, Top.ply + 1, FALSE))
  OBVIOUS
<1> HIDE DEF f
<1> QED BY <1>2, <1>3, PlainPush

LEMMA PlainReturn ==
  ASSUME Calling, stack # <<>>, Plain(Top.at), NEW v, Return(v)
  PROVE  Plainly
BY ReturnPopped DEF Plainly

\* Once a step is plain, so is what it leaves: nobody looks ahead.
LEMMA PeekingAfter ==
  ASSUME Calling
  PROVE  /\ \A l : Became(l) => (Peeking' <=> l = "peek")
         /\ \A l : Pushed(l) => ~Peeking'
         /\ Popped => ~Peeking'
<1>1. ASSUME NEW l, Became(l) PROVE Peeking' <=> l = "peek"
  BY <1>1 DEF Became, Peeking, Top
<1>2. ASSUME NEW l, Pushed(l) PROVE ~Peeking'
  BY <1>2 DEF Pushed, Peeking, Top
<1>3. ASSUME Popped, stack' # <<>> PROVE ~Peeking'
  <2>1. Len(stack) \in Nat \ {0} /\ Len(stack') = Len(stack) - 1
    BY <1>3, StackFacts DEF Popped, Calling
  <2>2. stack' \in Seq(Frames)
    BY <1>3 DEF Popped
  <2>3. Len(stack') # 0
    BY <1>3, <2>2, SMT
  <2>4. Len(stack') \in 1 .. Len(stack) - 1
    BY <2>1, <2>3
  <2>5. stack'[Len(stack')] = stack[Len(stack')]
    BY <1>3, <2>4 DEF Popped, Kept
  <2>6. stack[Len(stack')].at \in Waits
    BY <1>3, <2>4, PliesBelow DEF Popped, Below, Calling
  <2> QED BY <2>5, <2>6 DEF Peeking, Top, Waits
<1> QED BY <1>1, <1>2, <1>3 DEF Peeking

LEMMA PlainOnward ==
  ASSUME Calling, Dive \/ Probe \/ Advance \/ Razor \/ Prune \/ PruneCapture \/ Exhausted
  PROVE  Plainly
<1>1. stack # <<>> /\ Plain(Top.at)
  BY DEF Dive, Probe, Advance, Razor, Prune, PruneCapture, Exhausted, Is, Loops, Plain, SamePly
<1>2. Top \in Frames /\ Top.ply \in 0 .. MAX_PLY /\ Top.mc + 1 \in Nat /\ Top.ex \in BOOLEAN
  <2>1. Top \in Frames
    BY <1>1, Running
  <2>2. Top.mc \in Nat
    BY <2>1, Fields
  <2> QED BY <2>1, <2>2, Fields
<1>0. Top \in Frames
  BY <1>2
<1>3. ASSUME NEW l \in {"prune", "moves", "probcut", "loop", "end"}, Goto(l) PROVE Plainly
  <2>1. l \in Labels /\ Plain(l)
    BY DEF Labels, Plain, SamePly
  <2> QED BY <1>1, <1>3, <2>1, PlainGoto
<1>4. ASSUME NEW l \in {"moves", "loop"}, NEW c \in Nat, Become([Top EXCEPT !.at = l, !.mc = c]) PROVE Plainly
  <2> DEFINE g == [Top EXCEPT !.at = l, !.mc = c]
  <2>1. l \in Labels
    BY DEF Labels
  <2>2. Alike(Top, g) /\ g.at = l
    BY <1>0, <2>1, Counting
  <2>3. Become(g) /\ Plain(l)
    BY <1>4 DEF Plain, SamePly
  <2> HIDE DEF g
  <2> QED BY <1>1, <2>2, <2>3, PlainAlike
<1>5. CASE Dive
  <2> DEFINE g == [Top EXCEPT !.fn = "qsearch", !.node = IF PvNode(Top) THEN "pv" ELSE "all"]
  <2>1. Become(g) /\ Top.at = "enter"
    BY <1>5 DEF Dive, Is
  <2>2. g \in Frames /\ g.ply = Top.ply /\ g.at = "enter"
    BY <1>2, <2>1 DEF Frames
  <2> HIDE DEF g
  <2>3. Became("enter")
    BY <1>1, <2>1, <2>2, AlikeBecame
  <2>4. "enter" \in Labels /\ Plain("enter")
    BY DEF Labels, Plain, SamePly
  <2> QED BY <1>1, <2>3, <2>4 DEF Plainly
<1>6. CASE Probe
  <2>1. PICK tt \in BOOLEAN : Become([Top EXCEPT !.at = "probed", !.tt = tt])
    BY <1>6 DEF Probe
  <2> DEFINE g == [Top EXCEPT !.at = "probed", !.tt = tt]
  <2>2. "probed" \in Labels /\ Plain("probed")
    BY DEF Labels, Plain, SamePly
  <2>3. Alike(Top, g) /\ g.at = "probed"
    BY <1>0, <2>2, Probing
  <2>4. Become(g)
    BY <2>1
  <2> HIDE DEF g
  <2> QED BY <1>1, <2>2, <2>3, <2>4, PlainAlike
<1>7. CASE Advance
  BY <1>3, <1>4, <1>7 DEF Advance
<1>8. CASE Razor
  <2> DEFINE c == Call("qsearch", "all", Top.ply, FALSE)
             g == [c EXCEPT !.ex = Top.ex]
  <2>1. Become(g)
    BY <1>8 DEF Razor
  <2>2. c \in Frames /\ c.ply = Top.ply /\ c.at = "enter"
    BY <1>2, Called
  <2> HIDE DEF c
  <2>3. g \in Frames /\ g.ply = Top.ply /\ g.at = "enter"
    BY <1>2, <2>2 DEF Frames
  <2> HIDE DEF g
  <2>4. Became("enter")
    BY <1>1, <2>1, <2>3, AlikeBecame
  <2>5. "enter" \in Labels /\ Plain("enter")
    BY DEF Labels, Plain, SamePly
  <2> QED BY <1>1, <2>4, <2>5 DEF Plainly
<1>9. CASE Prune \/ PruneCapture
  <2> DEFINE g == [Top EXCEPT !.mc = Top.mc + 1]
  <2>1. Become(g)
    BY <1>9 DEF Prune, PruneCapture
  <2>2. Alike(Top, g) /\ g.at = Top.at
    BY <1>2, Skipping
  <2> HIDE DEF g
  <2> QED BY <1>1, <2>1, <2>2, PlainAlike
<1>10. CASE Exhausted
  BY <1>3, <1>10 DEF Exhausted
<1> QED BY <1>5, <1>6, <1>7, <1>8, <1>9, <1>10

LEMMA PlainLeaving ==
  ASSUME Calling, Leave \/ Cutoff \/ StandPat \/ Futility \/ SmallProbCut \/ End \/ EndCaptures
  PROVE  Plainly
<1>1. stack # <<>> /\ Plain(Top.at) /\ (Return("sound") \/ Return("void"))
  BY DEF Leave, Cutoff, StandPat, Futility, SmallProbCut, End, EndCaptures, Is, Plain, SamePly
<1> QED BY <1>1, PlainReturn

LEMMA PlainCalling ==
  ASSUME Calling, ProbCutSearch \/ Reduced \/ FullDepth \/ FullWindow \/ Quiesce \/ NullMove \/ ProbCut
  PROVE  Plainly
<1>1. stack # <<>> /\ Plain(Top.at) /\ Top.at # "enter"
  BY DEF ProbCutSearch, Reduced, FullDepth, FullWindow, Quiesce, NullMove, ProbCut, Is, Back, Plain, SamePly
<1>2. Top \in Frames /\ Local(Top)
  BY <1>1, Running
<1>0. Top \in Frames
  BY <1>2
<1>3. \A l \in {"null", "probcut q", "probcut search", "reduced", "full", "pv", "child"} : l \in Labels /\ Plain(l)
  BY DEF Labels, Plain, SamePly
<1>4. CASE ProbCutSearch
  <2>1. Push([Top EXCEPT !.at = "probcut search"],
             Call("search", IF CutNode(Top) THEN "all" ELSE "cut", Top.ply + 1, FALSE))
    BY <1>4 DEF ProbCutSearch
  <2> QED BY <1>1, <1>3, <2>1, PlainChild
<1>5. CASE Reduced
  <2>1. Push([Top EXCEPT !.at = "reduced"], Call("search", "cut", Top.ply + 1, FALSE))
    BY <1>5 DEF Reduced, Child
  <2> QED BY <1>1, <1>3, <2>1, PlainChild
<1>6. CASE FullDepth
  <2>1. Push([Top EXCEPT !.at = "full"], Call("search", IF CutNode(Top) THEN "all" ELSE "cut", Top.ply + 1, FALSE))
    BY <1>6 DEF FullDepth, Child
  <2> QED BY <1>1, <1>3, <2>1, PlainChild
<1>7. CASE FullWindow
  <2>1. Push([Top EXCEPT !.at = "pv"], Call("search", "pv", Top.ply + 1, FALSE))
    BY <1>7 DEF FullWindow, Child
  <2> QED BY <1>1, <1>3, <2>1, PlainChild
<1>8. CASE Quiesce
  <2>1. Push([Top EXCEPT !.at = "child"], Call("qsearch", Top.node, Top.ply + 1, FALSE))
    BY <1>8 DEF Quiesce, Child
  <2>2. Top.node \in {"pv", "cut", "all"}
    BY <1>2, <1>8, Fields DEF Quiesce, Is, Local
  <2> QED BY <1>1, <1>3, <2>1, <2>2, PlainChild
<1>9. CASE NullMove
  <2>1. Push([Top EXCEPT !.at = "null"], Call("search", "all", Top.ply + 1, FALSE))
    BY <1>9 DEF NullMove
  <2> QED BY <1>1, <1>3, <2>1, PlainChild
<1>10. CASE ProbCut
  <2> DEFINE f == [Top EXCEPT !.at = "probcut q", !.mc = Top.mc + 1]
  <2>1. Push(f, Call("qsearch", "all", Top.ply + 1, FALSE))
    BY <1>10 DEF ProbCut
  <2>2. Top.mc \in Nat
    BY <1>2, Fields
  <2>3. Top.mc + 1 \in Nat
    BY <2>2
  <2>5. "probcut q" \in Labels
    BY <1>3
  <2>4. Alike(Top, f) /\ f.at = "probcut q"
    BY <1>0, <2>3, <2>5, Counting
  <2> HIDE DEF f
  <2> QED BY <1>1, <1>3, <2>1, <2>4, PlainPush
<1> QED BY <1>4, <1>5, <1>6, <1>7, <1>8, <1>9, <1>10

LEMMA PlainBack ==
  ASSUME Calling, MakeMove \/ ProbCutBack \/ Unmake \/ UnmakeCapture
  PROVE  Plainly
<1>1. stack # <<>> /\ Plain(Top.at)
  BY DEF MakeMove, ProbCutBack, Unmake, UnmakeCapture, MoveBack, Loops, Back, Plain, SamePly
<1>2. Top \in Frames
  BY <1>1, Running
<1>3. \A l \in {"probcut", "loop", "end", "made"} : l \in Labels /\ Plain(l)
  BY DEF Labels, Plain, SamePly
<1>4. ASSUME NEW l \in {"loop", "end"}, Judge(l) PROVE Plainly
  <2> DEFINE b == Top.sound /\ ret = "sound"
             g == [Top EXCEPT !.at = l, !.sound = b]
  <2>1. Become(g)
    BY <1>4 DEF Judge
  <2>2. b \in BOOLEAN
    BY <1>2, Fields
  <2> HIDE DEF b
  <2>3. l \in Labels
    BY <1>3
  <2>4. Alike(Top, g) /\ g.at = l
    BY <1>2, <2>2, <2>3, Judging
  <2> HIDE DEF g
  <2> QED BY <1>1, <1>3, <2>1, <2>4, PlainAlike
<1>5. CASE MakeMove
  <2> DEFINE g == [Top EXCEPT !.at = "made", !.mc = Top.mc + 1]
  <2>1. Become(g)
    BY <1>5 DEF MakeMove
  <2>2. Top.mc \in Nat
    BY <1>2, Fields
  <2>3. Top.mc + 1 \in Nat /\ "made" \in Labels
    BY <1>3, <2>2
  <2>4. Alike(Top, g) /\ g.at = "made"
    BY <1>2, <2>3, Counting
  <2> HIDE DEF g
  <2> QED BY <1>1, <1>3, <2>1, <2>4, PlainAlike
<1>6. CASE ProbCutBack
  BY <1>1, <1>3, <1>6, PlainGoto, PlainReturn DEF ProbCutBack
<1>7. CASE Unmake \/ UnmakeCapture
  BY <1>1, <1>4, <1>7, PlainReturn DEF Unmake, UnmakeCapture
<1> QED BY <1>5, <1>6, <1>7

\* The null move is taken back, and it may be verified.
LEMMA NullBackIs ==
  ASSUME Calling, NullBack
  PROVE  \/ Plainly /\ UNCHANGED nmpMinPly
         \/ Pushed("verify") /\ nmpMinPly = 0 /\ nmpMinPly' \in Top.ply .. MAX_PLY + 1
<1>1. stack # <<>> /\ Plain(Top.at) /\ ret # "none"
  BY DEF NullBack, Back, Plain, SamePly
<1>2. Top \in Frames /\ Top.ply \in 0 .. MAX_PLY /\ ret \in {"none", "sound", "void"}
  BY <1>1, Running, Returned
<1>3. CASE Goto("probcut") /\ UNCHANGED nmpMinPly
  <2>1. "probcut" \in Labels /\ Plain("probcut")
    BY DEF Labels, Plain, SamePly
  <2> QED BY <1>1, <1>3, <2>1, PlainGoto
<1>4. CASE Return(ret) /\ UNCHANGED nmpMinPly
  BY <1>1, <1>4, PlainReturn
<1>5. CASE /\ nmpMinPly = 0 /\ \E p \in Top.ply .. MAX_PLY + 1 : nmpMinPly' = p
           /\ Push([Top EXCEPT !.at = "verify", !.nullValue = ret], Call("search", "all", Top.ply, FALSE))
  <2> DEFINE f == [Top EXCEPT !.at = "verify", !.nullValue = ret]
  <2>1. "verify" \in Labels /\ FALSE \in BOOLEAN
    BY DEF Labels
  <2>2. Alike(Top, f) /\ f.at = "verify"
    BY <1>2 DEF Alike, Frames
  <2>3. Push(f, Call("search", "all", Top.ply, FALSE))
    BY <1>5
  <2> HIDE DEF f
  <2> QED BY <1>1, <1>2, <1>5, <2>1, <2>2, <2>3, AlikePushed
<1> QED BY <1>3, <1>4, <1>5 DEF NullBack

LEMMA SamePlyIs ==
  ASSUME Calling
  PROVE  /\ Verified => Became("probcut") \/ Popped
         /\ Singular => Pushed("singular")
         /\ SingularBack => (Became("made") /\ Made) \/ (Popped /\ Same)
<1>1. \A l \in {"probcut", "made", "singular"} : l \in Labels
  BY DEF Labels
<1>2. Verified => Became("probcut") \/ Popped
  BY <1>1, GotoBecame, ReturnPopped DEF Verified, Back
<1>3. SingularBack => (Became("made") /\ Made) \/ (Popped /\ Same)
  BY <1>1, GotoBecame, ReturnPopped DEF SingularBack, Back
<1>4. ASSUME Singular PROVE Pushed("singular")
  <2> DEFINE f == [Top EXCEPT !.at = "singular", !.mc = 1]
             node == IF CutNode(Top) THEN "cut" ELSE "all"
  <2>1. stack # <<>> /\ Push(f, Call("search", node, Top.ply, TRUE))
    BY <1>4 DEF Singular, Loops
  <2>2. Top \in Frames /\ Top.ply \in 0 .. MAX_PLY
    BY <2>1, Running
  <2>0. Top \in Frames
    BY <2>2
  <2>3. 1 \in Nat /\ TRUE \in BOOLEAN /\ "singular" \in Labels
    BY <1>1
  <2>4. Alike(Top, f) /\ f.at = "singular"
    BY <2>0, <2>3, Counting
  <2>5. node \in {"pv", "cut", "all"}
    OBVIOUS
  <2> HIDE DEF f, node
  <2> QED BY <2>1, <2>2, <2>3, <2>4, <2>5, AlikePushed
<1> QED BY <1>2, <1>3, <1>4

LEMMA PeekIs ==
  ASSUME Calling
  PROVE  /\ Peek => Became("peek") /\ Plain(Top.at)
         /\ PeekBack => Top.at = "peek" /\ (Became("prune") \/ Became("moves") \/ Popped)
<1>1. \A l \in {"peek", "prune", "moves"} : l \in Labels
  BY DEF Labels
<1>2. Peek => Became("peek") /\ Plain(Top.at)
  BY <1>1, GotoBecame DEF Peek, Is, Plain, SamePly
<1>3. PeekBack => Top.at = "peek" /\ (Became("prune") \/ Became("moves") \/ Popped)
  BY <1>1, GotoBecame, ReturnPopped DEF PeekBack, Is
<1> QED BY <1>2, <1>3

-----------------------------------------------------------------------------
(* The steps: the line and the accumulators                                 *)
LEMMA MovesStep ==
  ASSUME NEW S, NEW l \in Seq(S), NEW m \in Seq(S), Len(m) = Len(l) + 1,
         \A i \in 1 .. Len(l) : m[i] = l[i]
  PROVE  /\ MovesOf(l) \in Nat
         /\ MovesOf(m) = MovesOf(l) + (IF m[Len(m)] = "move" THEN 1 ELSE 0)
<1> DEFINE n == Len(l)
           A == {i \in 1 .. n : l[i] = "move"}
           B == {i \in 1 .. n + 1 : m[i] = "move"}
<1>1. n \in Nat /\ Len(m) = n + 1 /\ MovesOf(l) = Cardinality(A) /\ MovesOf(m) = Cardinality(B)
  BY DEF MovesOf
<1> HIDE DEF n
<1>2. IsFiniteSet(1 .. n)
  BY <1>1, FS_Interval
<1>3. A \subseteq 1 .. n
  OBVIOUS
<1>4. IsFiniteSet(A) /\ Cardinality(A) \in Nat
  BY <1>2, <1>3, FS_Subset, FS_CardinalityType
<1>5. \A i \in 1 .. n : m[i] = l[i]
  BY DEF n
<1>6. CASE m[n + 1] = "move"
  <2>1. B = A \cup {n + 1} /\ n + 1 \notin A
    BY <1>1, <1>5, <1>6
  <2> QED BY <1>1, <1>4, <1>6, <2>1, FS_AddElement
<1>7. CASE m[n + 1] # "move"
  <2>1. B = A
    BY <1>1, <1>5, <1>7
  <2> HIDE DEF A, B
  <2>2. Cardinality(B) = Cardinality(A) /\ Cardinality(A) + 0 = Cardinality(A)
    BY <1>4, <2>1
  <2> QED BY <1>1, <1>4, <1>7, <2>2
<1> QED BY <1>6, <1>7

Apart(l) == \A i \in 1 .. Len(l) - 1 : l[i] = "null" => l[i + 1] # "null"

LEMMA Grows ==
  ASSUME LineCounts, NEW x \in {"move", "null"}, line' = Append(line, x),
         x = "null" /\ Len(line) > 0 => line[Len(line)] # "null"
  PROVE  /\ line' \in Seq({"move", "null"}) /\ Apart(line')
         /\ MovesOf(line) \in Nat
         /\ MovesOf(line') = MovesOf(line) + (IF x = "move" THEN 1 ELSE 0)
<1> DEFINE n == Len(line)
<1>1. line \in Seq({"move", "null"}) /\ n \in Nat /\ \A i \in 1 .. n - 1 : line[i] = "null" => line[i + 1] # "null"
  BY DEF LineCounts
<1>2. /\ line' \in Seq({"move", "null"}) /\ Len(line') = n + 1 /\ line'[n + 1] = x
      /\ \A i \in 1 .. n : line'[i] = line[i]
  BY <1>1, SMT
<1> HIDE DEF n
<1>3. ASSUME NEW i \in 1 .. (n + 1) - 1, line'[i] = "null" PROVE line'[i + 1] # "null"
  <2>1. CASE i = n
    BY <1>1, <1>2, <1>3, <2>1 DEF n
  <2>2. CASE i # n
    <3>1. i \in 1 .. n - 1 /\ i + 1 \in 1 .. n /\ i \in 1 .. n
      BY <1>1, <2>2
    <3> QED BY <1>1, <1>2, <1>3, <3>1
  <2> QED BY <2>1, <2>2
<1>4. Apart(line')
  BY <1>2, <1>3 DEF Apart
<1>5. /\ MovesOf(line) \in Nat
      /\ MovesOf(line') = MovesOf(line) + (IF line'[Len(line')] = "move" THEN 1 ELSE 0)
  BY <1>1, <1>2, MovesStep DEF n
<1> QED BY <1>2, <1>4, <1>5

LEMMA Shrinks ==
  ASSUME LineCounts, Len(line) > 0, line' = SubSeq(line, 1, Len(line) - 1)
  PROVE  /\ line' \in Seq({"move", "null"}) /\ Apart(line')
         /\ MovesOf(line') \in Nat
         /\ MovesOf(line) = MovesOf(line') + (IF line[Len(line)] = "move" THEN 1 ELSE 0)
<1> DEFINE n == Len(line)
<1>1. line \in Seq({"move", "null"}) /\ n \in Nat \ {0} /\ \A i \in 1 .. n - 1 : line[i] = "null" => line[i + 1] # "null"
  BY DEF LineCounts
<1>2. /\ line' \in Seq({"move", "null"}) /\ Len(line') = n - 1
      /\ \A i \in 1 .. n - 1 : line'[i] = line[i]
  BY <1>1, Front
<1>3. n = Len(line') + 1
  BY <1>1, <1>2
<1>4. /\ MovesOf(line') \in Nat
      /\ MovesOf(line) = MovesOf(line') + (IF line[n] = "move" THEN 1 ELSE 0)
  BY <1>1, <1>2, <1>3, MovesStep
<1> HIDE DEF n
<1>5. \A i \in 1 .. (n - 1) - 1 : i \in 1 .. n - 1 /\ i + 1 \in 1 .. n - 1
  BY <1>1
<1>6. Apart(line')
  BY <1>1, <1>2, <1>5 DEF Apart
<1> QED BY <1>2, <1>4, <1>6 DEF n

\* What is last on the line, when a move of this call is
LEMMA LastOn ==
  ASSUME Calling, stack # <<>>
  PROVE  /\ DownNow = 1 => Len(line) > 0
         /\ DownNow = 1 /\ Top.at \in Moved => line[Len(line)] = "move"
         /\ DownNow = 1 /\ Top.at = "null" => line[Len(line)] = "null"
         /\ DownNow = 0 /\ Top.node # "all" /\ Len(line) > 0 => line[Len(line)] # "null"
<1>1. Len(stack) \in 1 .. Len(stack) /\ Len(line) = Top.ply + DownNow /\ Top.ply \in Nat
  BY StackFacts, Running DEF Calling
<1>2. LineAt(Top, line)
  BY <1>1 DEF Calling, LineFits, Top
<1> QED BY <1>1, <1>2 DEF LineAt

\* A plain step, and what it makes of the line
LEMMA PlainPeeks ==
  ASSUME Calling, Plainly
  PROVE  ~Peeking /\ ~Peeking'
BY PeekingAfter DEF Plainly, Plain, Peeking

LEMMA CountsSame ==
  ASSUME LineCounts, UNCHANGED <<line, acc>>, Peeking' <=> Peeking
  PROVE  LineCounts'
BY DEF LineCounts, MovesOf

LEMMA CountsMade ==
  ASSUME LineCounts, Made, ~Peeking, ~Peeking'
  PROVE  LineCounts'
<1>1. /\ line' \in Seq({"move", "null"}) /\ Apart(line') /\ MovesOf(line) \in Nat
      /\ MovesOf(line') = MovesOf(line) + 1
  BY Grows DEF Made
<1>2. acc' = MovesOf(line')
  BY <1>1 DEF LineCounts, Made
<1>3. acc' \in Nat
  BY <1>1, <1>2
<1> QED BY <1>1, <1>2, <1>3 DEF LineCounts, Apart

LEMMA CountsUnmade ==
  ASSUME LineCounts, Unmade, Len(line) > 0, line[Len(line)] = "move", ~Peeking, ~Peeking'
  PROVE  LineCounts'
<1>1. /\ line' \in Seq({"move", "null"}) /\ Apart(line') /\ MovesOf(line') \in Nat
      /\ MovesOf(line) = MovesOf(line') + 1
  BY Shrinks DEF Unmade
<1>2. acc' = MovesOf(line')
  BY <1>1 DEF LineCounts, Unmade
<1> QED BY <1>1, <1>2 DEF LineCounts, Apart

\* The steps that leave the line as it is, and those that lengthen or shorten it
LEMMA SameCounts ==
  ASSUME Calling, LineCounts,
         \/ Dive \/ Probe \/ Advance \/ Razor \/ Prune \/ PruneCapture \/ Exhausted
         \/ Leave \/ Cutoff \/ StandPat \/ Futility \/ SmallProbCut \/ End \/ EndCaptures
         \/ ProbCutSearch \/ Reduced \/ FullDepth \/ FullWindow \/ Quiesce
         \/ Verified \/ Singular \/ Iterate \/ Stop \/ UNCHANGED vars
  PROVE  LineCounts'
<1>1. UNCHANGED <<line, acc>>
  BY DEF Dive, Probe, Advance, Razor, Prune, PruneCapture, Exhausted, Leave, Cutoff, StandPat, Futility,
         SmallProbCut, End, EndCaptures, ProbCutSearch, Reduced, FullDepth, FullWindow, Quiesce, Verified,
         Singular, Iterate, Stop, Same, vars
<1>2. CASE Dive \/ Probe \/ Advance \/ Razor \/ Prune \/ PruneCapture \/ Exhausted
  BY <1>1, <1>2, PlainOnward, PlainPeeks, CountsSame
<1>3. CASE Leave \/ Cutoff \/ StandPat \/ Futility \/ SmallProbCut \/ End \/ EndCaptures
  BY <1>1, <1>3, PlainLeaving, PlainPeeks, CountsSame
<1>4. CASE ProbCutSearch \/ Reduced \/ FullDepth \/ FullWindow \/ Quiesce
  BY <1>1, <1>4, PlainCalling, PlainPeeks, CountsSame
<1>5. CASE Verified
  <2>1. ~Peeking
    BY <1>5 DEF Verified, Back, Peeking
  <2>2. ~Peeking'
    BY <1>5, SamePlyIs, PeekingAfter
  <2> QED BY <1>1, <2>1, <2>2, CountsSame
<1>6. CASE Singular
  <2>1. ~Peeking
    BY <1>6 DEF Singular, Loops, Peeking
  <2>2. ~Peeking'
    BY <1>6, SamePlyIs, PeekingAfter
  <2> QED BY <1>1, <2>1, <2>2, CountsSame
<1>7. CASE Iterate
  <2>1. stack = <<>> /\ stack' = <<Call("search", "root", 0, FALSE)>>
    BY <1>7 DEF Iterate
  <2>2. ~Peeking /\ ~Peeking'
    BY <2>1 DEF Peeking, Top, Call
  <2> QED BY <1>1, <2>2, CountsSame
<1>8. CASE Stop \/ UNCHANGED vars
  <2>1. UNCHANGED stack
    BY <1>8 DEF Stop, vars
  <2>2. Peeking' <=> Peeking
    BY <2>1 DEF Peeking, Top
  <2> QED BY <1>1, <2>2, CountsSame
<1> QED BY <1>2, <1>3, <1>4, <1>5, <1>6, <1>7, <1>8

LEMMA MadeCounts ==
  ASSUME Calling, LineCounts,
         MakeMove \/ ProbCut \/ ProbCutBack \/ Unmake \/ UnmakeCapture \/ SingularBack
  PROVE  LineCounts'
<1>1. CASE MakeMove \/ ProbCut
  BY <1>1, PlainBack, PlainCalling, PlainPeeks, CountsMade DEF MakeMove, ProbCut
<1>2. CASE ProbCutBack \/ Unmake \/ UnmakeCapture
  <2>1. stack # <<>> /\ ret # "none" /\ Top.at \in Moved /\ Unmade
    BY <1>2 DEF ProbCutBack, Unmake, UnmakeCapture, MoveBack, Back, Moved
  <2>2. DownNow = 1
    BY <2>1, Returned DEF Moved, SamePly
  <2>3. Len(line) > 0 /\ line[Len(line)] = "move"
    BY <2>1, <2>2, LastOn
  <2> QED BY <1>2, <2>1, <2>3, PlainBack, PlainPeeks, CountsUnmade
<1>3. CASE SingularBack
  <2>1. ~Peeking
    BY <1>3 DEF SingularBack, Back, Peeking
  <2>2. ~Peeking' /\ (Made \/ Same)
    BY <1>3, SamePlyIs, PeekingAfter
  <2> QED BY <2>1, <2>2, CountsMade, CountsSame DEF Same
<1> QED BY <1>1, <1>2, <1>3

LEMMA NullCounts ==
  ASSUME Calling, LineCounts, NullMove \/ NullBack
  PROVE  LineCounts'
<1>1. CASE NullMove
  <2>1. Still /\ stack # <<>> /\ Top.node = "cut" /\ line' = Append(line, "null") /\ acc' = acc
    BY <1>1 DEF NullMove, Is, Still, CutNode
  <2>2. Len(line) > 0 => line[Len(line)] # "null"
    BY <2>1, StillDown, LastOn
  <2>3. /\ line' \in Seq({"move", "null"}) /\ Apart(line') /\ MovesOf(line) \in Nat
        /\ MovesOf(line') = MovesOf(line) + 0
    BY <2>1, <2>2, Grows
  <2>4. ~Peeking /\ ~Peeking'
    BY <1>1, PlainCalling, PlainPeeks
  <2>5. acc' = MovesOf(line')
    BY <2>1, <2>3, <2>4 DEF LineCounts
  <2> QED BY <2>3, <2>4, <2>5 DEF LineCounts, Apart
<1>2. CASE NullBack
  <2>1. stack # <<>> /\ ret # "none" /\ Top.at = "null" /\ line' = SubSeq(line, 1, Len(line) - 1) /\ acc' = acc
    BY <1>2 DEF NullBack, Back
  <2>2. DownNow = 1
    BY <2>1, Returned DEF SamePly
  <2>3. Len(line) > 0 /\ line[Len(line)] = "null"
    BY <2>1, <2>2, LastOn
  <2>4. /\ line' \in Seq({"move", "null"}) /\ Apart(line') /\ MovesOf(line') \in Nat
        /\ MovesOf(line) = MovesOf(line') + 0
    BY <2>1, <2>3, Shrinks
  <2>5. ~Peeking /\ ~Peeking'
    BY <1>2, <2>1, NullBackIs, PlainPeeks, PeekingAfter DEF Peeking
  <2>6. acc' = MovesOf(line')
    BY <2>1, <2>4, <2>5 DEF LineCounts
  <2> QED BY <2>4, <2>5, <2>6 DEF LineCounts, Apart
<1> QED BY <1>1, <1>2

\* The look ahead pushes no accumulator.
LEMMA PeekCounts ==
  ASSUME Calling, LineCounts, Peek \/ PeekBack
  PROVE  LineCounts'
<1>1. CASE Peek
  <2>1. line' = Append(line, "move") /\ acc' = acc
    BY <1>1 DEF Peek
  <2>2. /\ line' \in Seq({"move", "null"}) /\ Apart(line') /\ MovesOf(line) \in Nat
        /\ MovesOf(line') = MovesOf(line) + 1
    BY <2>1, Grows
  <2>3. ~Peeking /\ Peeking'
    BY <1>1, PeekIs, PeekingAfter DEF Plain, Peeking
  <2>4. acc' = MovesOf(line') - 1 /\ acc' \in Nat
    BY <2>1, <2>2, <2>3 DEF LineCounts
  <2> QED BY <2>2, <2>3, <2>4 DEF LineCounts, Apart
<1>2. CASE PeekBack
  <2>1. stack # <<>> /\ Top.at = "peek" /\ line' = SubSeq(line, 1, Len(line) - 1) /\ acc' = acc
    BY <1>2 DEF PeekBack, Is
  <2>2. DownNow = 1
    BY <2>1 DEF DownNow
  <2>3. Len(line) > 0 /\ line[Len(line)] = "move"
    BY <2>1, <2>2, LastOn DEF Moved
  <2>4. /\ line' \in Seq({"move", "null"}) /\ Apart(line') /\ MovesOf(line') \in Nat
        /\ MovesOf(line) = MovesOf(line') + 1
    BY <2>1, <2>3, Shrinks
  <2>5. Peeking /\ ~Peeking'
    BY <1>2, <2>1, PeekIs, PeekingAfter DEF Peeking
  <2>6. acc' = MovesOf(line')
    BY <2>1, <2>4, <2>5 DEF LineCounts
  <2> QED BY <2>4, <2>5, <2>6 DEF LineCounts, Apart
<1> QED BY <1>1, <1>2

LEMMA NextCounts ==
  ASSUME Calling, LineCounts, [Next]_vars
  PROVE  LineCounts'
BY SameCounts, MadeCounts, NullCounts, PeekCounts DEF Next, Step

-----------------------------------------------------------------------------
(* The steps: the excluded moves and nmpMinPly                              *)

\* A call of ply p is at place l; and one below the running call.
Marked(s, p, l) == \E i \in 1 .. Len(s) : s[i].ply = p /\ s[i].at = l
Below0(p, l) == \E i \in 1 .. Len(stack) - 1 : stack[i].ply = p /\ stack[i].at = l

FlagsOf(s, e, m) ==
  /\ \A p \in Plies : e[p] <=> Marked(s, p, "singular")
  /\ m = 0 <=> \A p : ~Marked(s, p, "verify")

LEMMA FlagsAre ==
  Flags <=> FlagsOf(stack, excluded, nmpMinPly) /\ excluded \in [Plies -> BOOLEAN] /\ nmpMinPly \in 0 .. MAX_PLY + 1
<1>1. (\A i \in 1 .. Len(stack) : stack[i].at # "verify") <=> \A p : ~Marked(stack, p, "verify")
  BY DEF Marked
<1> QED BY <1>1 DEF Flags, FlagsOf, Marked

LEMMA Marks ==
  ASSUME Calling, stack # <<>>
  PROVE  /\ \A p, m : Marked(stack, p, m) <=> Below0(p, m) \/ (p = Top.ply /\ m = Top.at)
         /\ \A l : Became(l) =>
              \A p, m : Marked(stack', p, m) <=> Below0(p, m) \/ (p = Top.ply /\ m = l)
         /\ \A l : Pushed(l) =>
              \A p, m : m # "enter" => (Marked(stack', p, m) <=> Below0(p, m) \/ (p = Top.ply /\ m = l))
         /\ Popped => \A p, m : Marked(stack', p, m) <=> Below0(p, m)
<1> DEFINE n == Len(stack)
<1>1. n \in Nat \ {0} /\ Top = stack[n]
  BY StackFacts DEF Calling, Top
<1>2. n \in 1 .. n /\ \A i \in 1 .. n - 1 : i \in 1 .. n
  BY <1>1
<1>3. \A i \in 1 .. n : i = n \/ i \in 1 .. n - 1
  BY <1>1
<1>4. \A p, m : Marked(stack, p, m) <=> Below0(p, m) \/ (p = Top.ply /\ m = Top.at)
  BY <1>1, <1>2, <1>3 DEF Marked, Below0
<1>5. ASSUME NEW l, Became(l), NEW p, NEW m
      PROVE  Marked(stack', p, m) <=> Below0(p, m) \/ (p = Top.ply /\ m = l)
  <2>1. /\ Len(stack') = n /\ stack'[n].ply = Top.ply /\ stack'[n].at = l
        /\ \A i \in 1 .. n - 1 : stack'[i] = stack[i]
    BY <1>5 DEF Became, Kept
  <2> QED BY <1>2, <1>3, <2>1 DEF Marked, Below0
<1>6. ASSUME NEW l, Pushed(l), NEW p, NEW m, m # "enter"
      PROVE  Marked(stack', p, m) <=> Below0(p, m) \/ (p = Top.ply /\ m = l)
  <2>1. /\ Len(stack') = n + 1 /\ stack'[n].ply = Top.ply /\ stack'[n].at = l /\ stack'[n + 1].at = "enter"
        /\ \A i \in 1 .. n - 1 : stack'[i] = stack[i]
    BY <1>6 DEF Pushed, Kept
  <2>2. /\ \A i \in 1 .. n + 1 : i = n + 1 \/ i = n \/ i \in 1 .. n - 1
        /\ n \in 1 .. n + 1 /\ \A i \in 1 .. n - 1 : i \in 1 .. n + 1
    BY <1>1
  <2> QED BY <1>6, <2>1, <2>2 DEF Marked, Below0
<1>7. ASSUME Popped, NEW p, NEW m
      PROVE  Marked(stack', p, m) <=> Below0(p, m)
  BY <1>7 DEF Popped, Kept, Marked, Below0
<1> QED BY <1>4, <1>5, <1>6, <1>7

LEMMA FlagsMade ==
  ASSUME excluded' \in [Plies -> BOOLEAN], nmpMinPly' \in 0 .. MAX_PLY + 1,
         FlagsOf(stack', excluded', nmpMinPly')
  PROVE  Flags'
<1>1. (\A i \in 1 .. Len(stack') : stack'[i].at # "verify") <=> \A p : ~Marked(stack', p, "verify")
  BY DEF Marked
<1> QED BY <1>1 DEF Flags, FlagsOf, Marked

LEMMA FlagsPlain ==
  ASSUME Calling, Flags, Plainly, UNCHANGED <<excluded, nmpMinPly>>
  PROVE  Flags'
<1>1. stack # <<>>
  BY DEF Plainly, Popped, Became, Pushed
<1>2. ASSUME NEW p, NEW m \in {"singular", "verify"} PROVE Marked(stack', p, m) <=> Marked(stack, p, m)
  BY <1>1, Marks DEF Plainly, Plain, SamePly
<1>3. FlagsOf(stack, excluded, nmpMinPly)
  BY FlagsAre
<1>4. FlagsOf(stack', excluded', nmpMinPly')
  BY <1>2, <1>3 DEF FlagsOf
<1> QED BY <1>4, FlagsAre, FlagsMade

\* A search at the same ply is asked for by no call below it.
LEMMA OneMark ==
  ASSUME Calling, stack # <<>>
  PROVE  /\ Top.at = "singular" => ~Below0(Top.ply, "singular")
         /\ Top.at = "verify" => \A p : ~Below0(p, "verify")
<1>1. Local(Top)
  BY Running
<1>2. \A i \in 1 .. Len(stack) - 1 : Below(stack[i], Top)
  BY PliesBelow DEF Calling
<1> QED BY <1>1, <1>2 DEF Below0, Below, Local

\* Every call but that of the root has a ply of its own.
LEMMA DeepPly ==
  ASSUME Calling, stack # <<>>, Top.node # "root"
  PROVE  Top.ply > 0
<1>1. Len(stack) \in Nat \ {0}
  BY StackFacts DEF Calling
<1>2. Local(stack[1]) /\ stack[1].node = "root"
  BY <1>1 DEF Calling, Shape
<1>3. 1 \in 1 .. Len(stack) - 1
  BY <1>1, <1>2 DEF Top
<1>4. stack[1].at \notin SamePly /\ stack[1].ply = 0
  BY <1>2 DEF Local, SamePly
<1> QED BY <1>3, <1>4, PliesBelow DEF Calling

LEMMA FlagsSingular ==
  ASSUME Calling, Flags, Singular \/ SingularBack
  PROVE  Flags'
<1>1. stack # <<>> /\ Top.ply \in 0 .. MAX_PLY /\ UNCHANGED nmpMinPly
  BY Running DEF Singular, SingularBack, Loops, Back
<1>2. Top.ply \in Plies /\ FlagsOf(stack, excluded, nmpMinPly) /\ excluded \in [Plies -> BOOLEAN]
  BY <1>1, FlagsAre, TreeAssumption DEF Plies
<1>3. CASE Singular
  <2>1. Top.at = "loop" /\ Pushed("singular") /\ excluded' = [excluded EXCEPT ![Top.ply] = TRUE]
    BY <1>3, SamePlyIs DEF Singular, Loops
  <2>2. \A p, m : m \in {"singular", "verify"} =>
          (Marked(stack', p, m) <=> Marked(stack, p, m) \/ (p = Top.ply /\ m = "singular"))
    BY <1>1, <2>1, Marks
  <2>3. excluded' \in [Plies -> BOOLEAN] /\ \A p \in Plies : excluded'[p] <=> excluded[p] \/ p = Top.ply
    BY <1>2, <2>1
  <2>4. FlagsOf(stack', excluded', nmpMinPly')
    BY <1>1, <1>2, <2>2, <2>3 DEF FlagsOf
  <2> QED BY <1>1, <2>3, <2>4, FlagsMade DEF Flags
<1>4. CASE SingularBack
  <2>1. Top.at = "singular" /\ (Became("made") \/ Popped) /\ excluded' = [excluded EXCEPT ![Top.ply] = FALSE]
    BY <1>4, SamePlyIs DEF SingularBack, Back
  <2>2. ~Below0(Top.ply, "singular")
    BY <1>1, <2>1, OneMark
  <2>3. \A p, m : m \in {"singular", "verify"} => (Marked(stack', p, m) <=> Below0(p, m))
    BY <1>1, <2>1, Marks
  <2>4. \A p, m : m \in {"singular", "verify"} =>
          (Marked(stack, p, m) <=> Below0(p, m) \/ (p = Top.ply /\ m = "singular"))
    BY <1>1, <2>1, Marks
  <2>5. excluded' \in [Plies -> BOOLEAN] /\ \A p \in Plies : excluded'[p] <=> excluded[p] /\ p # Top.ply
    BY <1>2, <2>1
  <2>6. FlagsOf(stack', excluded', nmpMinPly')
    BY <1>1, <1>2, <2>2, <2>3, <2>4, <2>5 DEF FlagsOf
  <2> QED BY <1>1, <2>5, <2>6, FlagsMade DEF Flags
<1> QED BY <1>3, <1>4

LEMMA FlagsVerify ==
  ASSUME Calling, Flags, NullBack \/ Verified
  PROVE  Flags'
<1>1. stack # <<>> /\ UNCHANGED excluded /\ excluded \in [Plies -> BOOLEAN]
  BY DEF NullBack, Verified, Back, Flags
<1>2. FlagsOf(stack, excluded, nmpMinPly) /\ nmpMinPly \in 0 .. MAX_PLY + 1
  BY FlagsAre
<1>3. ASSUME Pushed("verify"), Top.at = "null", nmpMinPly = 0, nmpMinPly' \in Top.ply .. MAX_PLY + 1
      PROVE  Flags'
  <2>1. Top.node # "root" /\ Top.ply \in 0 .. MAX_PLY
    BY <1>1, <1>3, Running DEF Local
  <2>2. nmpMinPly' \in 0 .. MAX_PLY + 1 /\ nmpMinPly' # 0
    BY <1>1, <1>3, <2>1, DeepPly, TreeAssumption
  <2>3. \A p, m : m \in {"singular", "verify"} =>
          (Marked(stack', p, m) <=> Marked(stack, p, m) \/ (p = Top.ply /\ m = "verify"))
    BY <1>1, <1>3, Marks
  <2>4. FlagsOf(stack', excluded', nmpMinPly')
    BY <1>1, <1>2, <2>2, <2>3 DEF FlagsOf
  <2> QED BY <1>1, <2>2, <2>4, FlagsMade
<1>4. CASE NullBack
  <2>1. CASE Plainly /\ UNCHANGED nmpMinPly
    BY <1>1, <2>1, FlagsPlain
  <2>2. CASE Pushed("verify") /\ nmpMinPly = 0 /\ nmpMinPly' \in Top.ply .. MAX_PLY + 1
    BY <1>3, <1>4, <2>2 DEF NullBack, Back
  <2> QED BY <1>4, <2>1, <2>2, NullBackIs
<1>5. CASE Verified
  <2>1. Top.at = "verify" /\ (Became("probcut") \/ Popped) /\ nmpMinPly' = 0
    BY <1>5, SamePlyIs DEF Verified, Back
  <2>2. \A p : ~Below0(p, "verify")
    BY <1>1, <2>1, OneMark
  <2>3. \A p, m : m \in {"singular", "verify"} => (Marked(stack', p, m) <=> Below0(p, m))
    BY <1>1, <2>1, Marks
  <2>4. \A p : Marked(stack, p, "singular") <=> Below0(p, "singular")
    BY <1>1, <2>1, Marks
  <2>5. FlagsOf(stack', excluded', nmpMinPly')
    BY <1>1, <1>2, <2>1, <2>2, <2>3, <2>4 DEF FlagsOf
  <2>6. nmpMinPly' \in 0 .. MAX_PLY + 1
    BY <2>1, TreeAssumption
  <2> QED BY <1>1, <2>5, <2>6, FlagsMade
<1> QED BY <1>4, <1>5

LEMMA FlagsElse ==
  ASSUME Calling, Flags, Peek \/ PeekBack \/ Iterate \/ Stop \/ UNCHANGED vars
  PROVE  Flags'
<1>1. UNCHANGED <<excluded, nmpMinPly>>
  BY DEF Peek, PeekBack, Iterate, Stop, KeepFlags, vars
<1>2. FlagsOf(stack, excluded, nmpMinPly) /\ excluded \in [Plies -> BOOLEAN] /\ nmpMinPly \in 0 .. MAX_PLY + 1
  BY FlagsAre
<1>3. ASSUME NEW p, NEW m \in {"singular", "verify"} PROVE Marked(stack', p, m) <=> Marked(stack, p, m)
  <2>1. CASE Peek
    <3>1. Became("peek") /\ stack # <<>> /\ Top.at \notin {"singular", "verify"}
      BY <2>1, PeekIs DEF Plain, SamePly, Became
    <3> QED BY <3>1, Marks
  <2>2. CASE PeekBack
    <3>1. Top.at = "peek" /\ stack # <<>> /\ (Became("prune") \/ Became("moves") \/ Popped)
      BY <2>2, PeekIs DEF PeekBack, Is
    <3> QED BY <3>1, Marks
  <2>3. CASE Iterate
    <3>1. stack = <<>> /\ stack' = <<Call("search", "root", 0, FALSE)>>
      BY <2>3 DEF Iterate
    <3>2. Len(stack) = 0 /\ Len(stack') = 1 /\ stack'[1].at = "enter"
      BY <3>1 DEF Call
    <3> QED BY <3>2 DEF Marked
  <2>4. CASE Stop \/ UNCHANGED vars
    BY <2>4 DEF Stop, vars
  <2> QED BY <2>1, <2>2, <2>3, <2>4
<1>4. FlagsOf(stack', excluded', nmpMinPly')
  BY <1>1, <1>2, <1>3 DEF FlagsOf
<1> QED BY <1>1, <1>2, <1>4, FlagsMade

LEMMA NextFlags ==
  ASSUME Calling, Flags, [Next]_vars
  PROVE  Flags'
<1>1. CASE Dive \/ Probe \/ Advance \/ Razor \/ Prune \/ PruneCapture \/ Exhausted
  BY <1>1, PlainOnward, FlagsPlain
     DEF Dive, Probe, Advance, Razor, Prune, PruneCapture, Exhausted, KeepFlags
<1>2. CASE Leave \/ Cutoff \/ StandPat \/ Futility \/ SmallProbCut \/ End \/ EndCaptures
  BY <1>2, PlainLeaving, FlagsPlain
     DEF Leave, Cutoff, StandPat, Futility, SmallProbCut, End, EndCaptures, KeepFlags
<1>3. CASE ProbCutSearch \/ Reduced \/ FullDepth \/ FullWindow \/ Quiesce \/ NullMove \/ ProbCut
  BY <1>3, PlainCalling, FlagsPlain
     DEF ProbCutSearch, Reduced, FullDepth, FullWindow, Quiesce, NullMove, ProbCut, KeepFlags
<1>4. CASE MakeMove \/ ProbCutBack \/ Unmake \/ UnmakeCapture
  BY <1>4, PlainBack, FlagsPlain DEF MakeMove, ProbCutBack, Unmake, UnmakeCapture, KeepFlags
<1> QED BY <1>1, <1>2, <1>3, <1>4, FlagsSingular, FlagsVerify, FlagsElse DEF Next, Step

-----------------------------------------------------------------------------
LEMMA InitTree == Init => TreeInv
<1> SUFFICES ASSUME Init PROVE TreeInv
  OBVIOUS
<1>1. stack = <<>> /\ ret = "none" /\ line = <<>> /\ acc = 0 /\ nmpMinPly = 0
      /\ excluded = [p \in Plies |-> FALSE] /\ pv = [p \in Plies |-> Null]
  BY DEF Init
<1>2. stack \in Seq(Frames) /\ Len(stack) = 0 /\ line \in Seq({"move", "null"}) /\ Len(line) = 0
  BY <1>1
<1>3. Shape
  BY <1>2 DEF Shape
<1>4. RetFits /\ LineFits /\ LinesKept
  BY <1>1, <1>2 DEF RetFits, LineFits, LinesKept, Null
<1>5. MovesOf(line) = 0
  <2>1. {i \in 1 .. Len(line) : line[i] = "move"} = {}
    BY <1>2
  <2> QED BY <2>1, FS_EmptySet DEF MovesOf
<1>6. LineCounts
  BY <1>1, <1>2, <1>5 DEF LineCounts, Peeking
<1>7. Flags
  BY <1>1, <1>2, TreeAssumption DEF Flags
<1> QED BY <1>3, <1>4, <1>6, <1>7 DEF TreeInv, Calling

LEMMA NextTree == TreeInv /\ [Next]_vars => TreeInv'
BY NextCalling, NextCounts, NextFlags DEF TreeInv

-----------------------------------------------------------------------------
(* What the invariant says of a search.                                     *)
LEMMA StopIsFlag == stop \in BOOLEAN /\ [Next]_vars => stop' \in BOOLEAN
<1>1. Iterate \/ Stop => stop' \in BOOLEAN
  BY DEF Iterate, Stop
<1>2. Step => stop' = stop
  BY DEF Step, Dive, Leave, Probe, Cutoff, StandPat, Futility, Peek, PeekBack, Advance, Razor, NullMove,
         NullBack, Verified, ProbCut, ProbCutSearch, ProbCutBack, SmallProbCut, Prune, PruneCapture, Singular,
         SingularBack, MakeMove, Reduced, FullDepth, FullWindow, Quiesce, Unmake, UnmakeCapture, Exhausted,
         End, EndCaptures, KeepFlags
<1> QED BY <1>1, <1>2 DEF Next, vars

LEMMA TreeApart ==
  ASSUME TreeInv
  PROVE  NullMovesApart
<1>1. \A i \in 1 .. Len(line) - 1 : line[i] = "null" => line[i + 1] # "null"
  BY DEF TreeInv, LineCounts
<1>2. ASSUME NEW i \in DOMAIN stack, NEW j \in DOMAIN stack, stack[i].at = "verify", stack[j].at = "verify"
      PROVE  i = j
  <2>1. stack \in Seq(Frames)
    BY DEF TreeInv, Calling, Shape
  <2>2. i \in 1 .. Len(stack) /\ j \in 1 .. Len(stack) /\ Len(stack) \in Nat
    BY <2>1
  <2>3. ~(i < j) /\ ~(j < i)
    BY <1>2, <2>2 DEF TreeInv, Calling, Shape, Below
  <2> QED BY <2>2, <2>3
<1> QED BY <1>1, <1>2 DEF NullMovesApart

LEMMA TreeSingular ==
  ASSUME TreeInv
  PROVE  /\ \A p \in Plies : excluded[p] = (\E i \in DOMAIN stack : stack[i].ply = p /\ stack[i].at = "singular")
         /\ \A i \in DOMAIN stack : (stack[i].ex /\ stack[i].fn = "search") => stack[i - 1].at = "singular"
<1>1. stack \in Seq(Frames) /\ DOMAIN stack = 1 .. Len(stack) /\ Len(stack) \in Nat
  BY DEF TreeInv, Calling, Shape
<1>2. ASSUME NEW p \in Plies
      PROVE  excluded[p] = (\E i \in DOMAIN stack : stack[i].ply = p /\ stack[i].at = "singular")
  <2>1. excluded[p] \in BOOLEAN
    BY DEF TreeInv, Flags
  <2>2. excluded[p] <=> \E i \in DOMAIN stack : stack[i].ply = p /\ stack[i].at = "singular"
    BY <1>1 DEF TreeInv, Flags
  <2> QED BY <2>1, <2>2
<1>3. ASSUME NEW i \in DOMAIN stack, stack[i].ex PROVE stack[i - 1].at = "singular"
  <2>1. i # 1
    BY <1>1, <1>3 DEF TreeInv, Calling, Shape, Local
  <2>2. i - 1 \in 1 .. Len(stack) - 1 /\ (i - 1) + 1 = i
    BY <1>1, <2>1
  <2>3. Starts(stack[i - 1], stack[(i - 1) + 1])
    BY <2>2 DEF TreeInv, Calling, Shape
  <2> QED BY <1>3, <2>2, <2>3 DEF Starts
<1> QED BY <1>2, <1>3

LEMMA TreeTyped ==
  ASSUME TreeInv, misused \subseteq {"probcut"}, stop \in BOOLEAN
  PROVE  TypeOK
BY DEF TreeInv, Calling, Shape, RetFits, LinesKept, LineCounts, Flags, TypeOK

LEMMA TreeBalanced ==
  ASSUME TreeInv, misused \subseteq {"probcut"}, stop \in BOOLEAN
  PROVE  Balanced
<1>1. stack = <<>> => line = <<>> /\ nmpMinPly = 0
  <2>1. stack = <<>> => Len(stack) = 0 /\ Len(line) = 0
    BY DEF TreeInv, Calling, LineFits
  <2>2. line \in Seq({"move", "null"})
    BY DEF TreeInv, LineCounts
  <2> QED BY <2>1, <2>2 DEF TreeInv, Flags
<1>2. stack # <<>> => Len(line) = Top.ply + DownNow
  BY DEF TreeInv, Calling, LineFits
<1>3. acc = Cardinality({i \in DOMAIN line : line[i] = "move"})
            - (IF stack # <<>> /\ Top.at = "peek" THEN 1 ELSE 0)
  <2>1. DOMAIN line = 1 .. Len(line)
    BY DEF TreeInv, LineCounts
  <2> QED BY <2>1 DEF TreeInv, LineCounts, MovesOf, Peeking
<1> QED BY <1>1, <1>2, <1>3, TreeTyped, TreeApart, TreeSingular DEF Balanced, DownNow, SamePly

LEMMA TreeLines ==
  ASSUME TreeInv
  PROVE  LinesLive
<1>1. DOMAIN stack = 1 .. Len(stack)
  BY DEF TreeInv, Calling, Shape
<1>2. \A i \in 1 .. Len(stack) : LineOf(i, stack, pv)
  BY DEF TreeInv, Calling, LinesKept
<1> QED BY <1>1, <1>2 DEF LinesLive, LineOf

\* For any tree and a stop at any moment, a search leaves the position, the accumulators, the
\* excluded moves and nmpMinPly as it found them, whichever way it returns: search() and qsearch()
\* never find them out of step with the calls that are running, and no null move follows another.
THEOREM SearchIsBalanced == Spec => []Balanced
<1>1. Init => IInv /\ TreeInv /\ stop \in BOOLEAN
  BY InitInv, InitTree DEF Init
<1>2. (IInv /\ TreeInv /\ stop \in BOOLEAN) /\ [Next]_vars => (IInv /\ TreeInv /\ stop \in BOOLEAN)'
  BY NextInv, NextTree, StopIsFlag
<1>3. IInv /\ TreeInv /\ stop \in BOOLEAN => Balanced
  BY TreeBalanced DEF IInv
<1> QED BY <1>1, <1>2, <1>3, PTL DEF Spec

\* For any tree, a PV node writes its line to the array of a PV node of the ply above that still
\* runs, and what it reads of the next ply is its own array or none: update_pv() follows no pointer
\* to the frame of a call that has returned.
THEOREM LinesStayLive == Spec => []LinesLive
BY InitTree, NextTree, TreeLines, PTL DEF Spec
=============================================================================
