------------------------------ MODULE MosProofs ------------------------------
(***************************************************************************)
(* Proofs about the command interpreter (Shell), for every set of aliases, *)
(* files, programs and lines and every limit of the depth, and about the   *)
(* line editor (Editor), for every text, every size of the buffers and     *)
(* every length of the history.                                            *)
(***************************************************************************)
EXTENDS Shell, Editor, FiniteSetTheorems, WellFoundedInduction, SequenceTheorems, TLAPS

-----------------------------------------------------------------------------
(* The interpreter (Shell).                                                *)

Counted == {"alias", "script"}

\* A line that a program gave, straight or through aliases, is executed as OSCLI does.
Safely(line) == line.from = "oscli" => line.in_mos = FALSE

\* A line in execution, or one that waits for its alias.
LineOk(c) == c = Nothing \/ ({"do", "line", "in_mos", "from"} \subseteq DOMAIN c /\ c.do = "line" /\ Safely(c))

FrameOk(f) ==
  /\ f.kind \in {"alias", "script", "try", "program"}
  /\ f.kind \in Counted => {"kind", "in_mos", "from"} \subseteq DOMAIN f /\ Safely(f)
  /\ f.kind = "alias" => "then" \in DOMAIN f /\ LineOk(f.then)
  /\ f.kind = "program" /\ f.from = "oscli" => f.where = "moslet"

CallsIn(s) == {i \in DOMAIN s : s[i].kind \in Counted}

\* What is permitted from position n of a stack on: the policy of the next program.
ProgramsFrom(s, n) == {i \in DOMAIN s : s[i].kind = "program" /\ i >= n}
PolicyOf(s, S) == IF S = {} THEN "CORE" ELSE s[CHOOSE i \in S : \A j \in S : i <= j].policy
PolicyFrom(s, n) == PolicyOf(s, ProgramsFrom(s, n))

StackInv == stack \in Seq(Range(stack)) /\ \A i \in DOMAIN stack : FrameOk(stack[i])
CountInv == depth = Cardinality(Frames(Counted)) /\ depth \in Nat /\ depth <= DepthLimit + 1
PolicyInv ==
  /\ policy = PolicyFrom(stack, 1)
  /\ \A i \in DOMAIN stack : stack[i].kind = "program" => stack[i].was = PolicyFrom(stack, i + 1)
LineInv == LineOk(current)

ShellInv == StackInv /\ CountInv /\ PolicyInv /\ LineInv

-----------------------------------------------------------------------------
\* t is s with a frame more, in front.
Deeper(s, t) ==
  /\ s \in Seq(Range(s)) /\ t \in Seq(Range(t))
  /\ Len(t) = Len(s) + 1
  /\ \A i \in 1 .. Len(s) : t[i + 1] = s[i]

\* A nonempty set of natural numbers has a least element.
LEMMA LeastOf == ASSUME NEW S \in SUBSET Nat, S # {} PROVE \E x \in S : \A y \in S : x <= y
<1> DEFINE R == {ss \in Nat \X Nat : ss[1] < ss[2]}
<1>1. IsWellFoundedOn(R, Nat)
    BY NatLessThanWellFounded DEF OpToRel
<1> HIDE DEF R
<1>2. PICK x \in S : \A y \in S : ~ (<<y, x>> \in R)
    BY <1>1, WFMin
<1>3. ASSUME NEW y \in S PROVE x <= y
  <2>1. x \in Nat /\ y \in Nat /\ ~ (<<y, x>> \in R)
      BY <1>2
  <2> QED BY <2>1 DEF R
<1> QED BY <1>2, <1>3

\* There is only one least element.
LEMMA TheLeast ==
  ASSUME NEW S \in SUBSET Nat, NEW m \in S, \A j \in S : m <= j
  PROVE  (CHOOSE i \in S : \A j \in S : i <= j) = m
<1>1. \A i \in S : (\A j \in S : i <= j) => i = m
    OBVIOUS
<1> QED BY <1>1

\* A push leaves a deeper stack.
LEMMA PushIsDeeper ==
  ASSUME NEW s, s \in Seq(Range(s)), NEW f
  PROVE  Deeper(s, <<f>> \o s) /\ (<<f>> \o s)[1] = f
<1> DEFINE S == Range(s) \cup {f}
<1>1. s \in Seq(S)
    BY SeqMonotonic
<1>2. <<f>> \in Seq(S) /\ Len(<<f>>) = 1 /\ <<f>>[1] = f
    OBVIOUS
<1> HIDE DEF S
<1>3. /\ <<f>> \o s \in Seq(S)
      /\ Len(<<f>> \o s) = 1 + Len(s)
      /\ \A i \in 1 .. 1 + Len(s) : (<<f>> \o s)[i] = IF i <= 1 THEN <<f>>[i] ELSE s[i - 1]
    BY <1>1, <1>2, ConcatProperties
<1>4. <<f>> \o s \in Seq(Range(<<f>> \o s))
    BY <1>3, SeqOfRange
<1>5. Len(s) \in Nat
    BY <1>1, LenProperties
<1>6. ASSUME NEW i \in 1 .. Len(s) PROVE (<<f>> \o s)[i + 1] = s[i]
  <2>1. i + 1 \in 1 .. 1 + Len(s) /\ ~(i + 1 <= 1) /\ i + 1 - 1 = i
      BY <1>5
  <2> QED BY <2>1, <1>3
<1>7. (<<f>> \o s)[1] = f
    BY <1>2, <1>3, <1>5
<1> QED BY <1>3, <1>4, <1>5, <1>6, <1>7 DEF Deeper

\* A stack is deeper than what remains of it without its top.
LEMMA PopIsDeeper ==
  ASSUME NEW s, s \in Seq(Range(s)), s # << >>
  PROVE  Deeper(Tail(s), s) /\ Head(s) = s[1] /\ 1 \in DOMAIN s
<1>1. /\ Tail(s) \in Seq(Range(s)) /\ Len(Tail(s)) = Len(s) - 1
      /\ \A i \in 1 .. Len(Tail(s)) : Tail(s)[i] = s[i + 1]
    BY HeadTailProperties
<1>2. Tail(s) \in Seq(Range(Tail(s)))
    BY <1>1, SeqOfRange
<1>3. Len(s) \in Nat \ {0} /\ DOMAIN s = 1 .. Len(s)
    BY EmptySeq, LenProperties
<1>4. Head(s) = s[1]
    BY <1>3
<1> QED BY <1>1, <1>2, <1>3, <1>4 DEF Deeper

\* The domains of a stack and a deeper one.
LEMMA DeeperDomains ==
  ASSUME NEW s, NEW t, Deeper(s, t)
  PROVE  Len(s) \in Nat /\ DOMAIN s = 1 .. Len(s) /\ DOMAIN t = 1 .. Len(s) + 1
BY LenProperties DEF Deeper

\* The calls counted in a deeper stack: those below, and its top.
LEMMA DeeperCount ==
  ASSUME NEW s, NEW t, Deeper(s, t)
  PROVE  /\ Cardinality(CallsIn(s)) \in Nat
         /\ t[1].kind \in Counted => Cardinality(CallsIn(t)) = Cardinality(CallsIn(s)) + 1
         /\ ~(t[1].kind \in Counted) => Cardinality(CallsIn(t)) = Cardinality(CallsIn(s))
<1> USE DEF CallsIn
<1> DEFINE S == CallsIn(s)
           T == CallsIn(t)
           U == {i \in T : i # 1}
           f == [i \in S |-> i + 1]
<1>1. Len(s) \in Nat /\ DOMAIN s = 1 .. Len(s) /\ DOMAIN t = 1 .. Len(s) + 1
    BY DeeperDomains
<1>2. IsFiniteSet(S) /\ IsFiniteSet(U)
  <2>1. IsFiniteSet(1 .. Len(s)) /\ IsFiniteSet(1 .. Len(s) + 1)
      BY <1>1, FS_Interval
  <2>2. S \in SUBSET (1 .. Len(s)) /\ U \in SUBSET (1 .. Len(s) + 1)
      BY <1>1
  <2> QED BY <2>1, <2>2, FS_Subset
<1>3. f \in Bijection(S, U)
  <2>1. ASSUME NEW i \in S PROVE i + 1 \in U
      BY <1>1 DEF Deeper
  <2>2. \A i, j \in S : f[i] = f[j] => i = j
      BY <1>1
  <2>3. ASSUME NEW j \in U PROVE \E i \in S : f[i] = j
    <3>1. j - 1 \in S
        BY <1>1 DEF Deeper
    <3> QED BY <3>1, <1>1
  <2> QED BY <2>1, <2>2, <2>3 DEF Bijection, Injection, Surjection, IsInjective
<1>4. Cardinality(U) = Cardinality(S) /\ Cardinality(S) \in Nat
    BY <1>2, <1>3, FS_Bijection, FS_CardinalityType DEF ExistsBijection
<1>5. ASSUME t[1].kind \in Counted PROVE Cardinality(T) = Cardinality(S) + 1
  <2>1. T = U \cup {1} /\ 1 \notin U
      BY <1>1, <1>5
  <2>2. Cardinality(U \cup {1}) = Cardinality(U) + 1
      BY <2>1, <1>2, FS_AddElement
  <2> QED BY <2>1, <2>2, <1>4
<1>6. ASSUME ~(t[1].kind \in Counted) PROVE Cardinality(T) = Cardinality(S)
  <2>1. T = U
      BY <1>1, <1>6
  <2> QED BY <2>1, <1>4
<1> QED BY <1>4, <1>5, <1>6

\* What is permitted from a position on is what is permitted one deeper in a deeper stack.
LEMMA DeeperPolicy ==
  ASSUME NEW s, NEW t, Deeper(s, t), NEW n \in Nat, n >= 1
  PROVE  PolicyFrom(t, n + 1) = PolicyFrom(s, n)
<1> DEFINE S == ProgramsFrom(s, n)
           T == ProgramsFrom(t, n + 1)
<1>1. Len(s) \in Nat /\ DOMAIN s = 1 .. Len(s) /\ DOMAIN t = 1 .. Len(s) + 1
    BY DeeperDomains
<1>2. S \in SUBSET Nat /\ T \in SUBSET Nat
    BY <1>1 DEF ProgramsFrom
<1>3. \A i \in S : i + 1 \in T /\ t[i + 1] = s[i]
    BY <1>1 DEF ProgramsFrom, Deeper
<1>4. \A j \in T : j - 1 \in S
    BY <1>1 DEF ProgramsFrom, Deeper
<1> HIDE DEF S, T
<1>5. CASE S = {}
  <2>1. T = {}
      BY <1>4, <1>5
  <2> QED BY <2>1, <1>5 DEF PolicyFrom, PolicyOf, S, T
<1>6. CASE S # {}
  <2>1. PICK m \in S : \A j \in S : m <= j
      BY <1>2, <1>6, LeastOf
  <2>2. m \in Nat /\ m + 1 \in T /\ t[m + 1] = s[m]
      BY <1>2, <1>3
  <2>3. \A j \in T : m + 1 <= j
      BY <1>2, <1>4, <2>1
  <2>4. (CHOOSE i \in S : \A j \in S : i <= j) = m
      BY <1>2, <2>1, TheLeast
  <2>5. (CHOOSE i \in T : \A j \in T : i <= j) = m + 1
      BY <1>2, <2>2, <2>3, TheLeast
  <2>6. PolicyFrom(s, n) = s[m].policy
      BY <1>6, <2>4 DEF PolicyFrom, PolicyOf, S
  <2>7. PolicyFrom(t, n + 1) = t[m + 1].policy
      BY <2>2, <2>5 DEF PolicyFrom, PolicyOf, T
  <2> QED BY <2>2, <2>6, <2>7
<1> QED BY <1>5, <1>6

\* What is permitted on the whole: the policy of the top, if it is a program, or what is
\* permitted below it.
LEMMA TopPolicy ==
  ASSUME NEW s, NEW t, Deeper(s, t)
  PROVE  PolicyFrom(t, 1) = IF t[1].kind = "program" THEN t[1].policy ELSE PolicyFrom(s, 1)
<1>1. Len(s) \in Nat /\ DOMAIN s = 1 .. Len(s) /\ DOMAIN t = 1 .. Len(s) + 1
    BY DeeperDomains
<1>2. CASE t[1].kind = "program"
  <2>1. 1 \in ProgramsFrom(t, 1) /\ ProgramsFrom(t, 1) \subseteq Nat /\ \A j \in ProgramsFrom(t, 1) : 1 <= j
      BY <1>1, <1>2 DEF ProgramsFrom
  <2>2. (CHOOSE i \in ProgramsFrom(t, 1) : \A j \in ProgramsFrom(t, 1) : i <= j) = 1
      BY <2>1, TheLeast
  <2> QED BY <2>1, <2>2, <1>2 DEF PolicyFrom, PolicyOf
<1>3. CASE t[1].kind # "program"
  <2>1. ProgramsFrom(t, 1) = ProgramsFrom(t, 1 + 1)
      BY <1>1, <1>3 DEF ProgramsFrom
  <2>2. PolicyFrom(t, 1) = PolicyFrom(t, 1 + 1)
      BY <2>1 DEF PolicyFrom
  <2> QED BY <2>2, <1>3, DeeperPolicy
<1> QED BY <1>2, <1>3

-----------------------------------------------------------------------------
(* The steps of the stack.                                                 *)

\* A call that begins: the frame f comes on top.
LEMMA Begins ==
  ASSUME ShellInv, ShellAssumption, NEW f, Push(f), FrameOk(f),
         depth' = IF f.kind \in Counted THEN depth + 1 ELSE depth, depth <= DepthLimit,
         policy' = IF f.kind = "program" THEN f.policy ELSE policy,
         f.kind = "program" => f.was = policy
  PROVE  StackInv' /\ CountInv' /\ PolicyInv'
<1>1. Deeper(stack, stack') /\ stack'[1] = f
    BY PushIsDeeper DEF Push, ShellInv, StackInv
<1>2. /\ Len(stack) \in Nat /\ DOMAIN stack = 1 .. Len(stack) /\ DOMAIN stack' = 1 .. Len(stack) + 1
    BY <1>1, DeeperDomains
<1>3. ASSUME NEW i \in DOMAIN stack' PROVE i = 1 \/ (i - 1 \in DOMAIN stack /\ stack'[i] = stack[i - 1])
    BY <1>1, <1>2 DEF Deeper
<1>4. StackInv'
  <2>1. stack' \in Seq(Range(stack'))
      BY <1>1 DEF Deeper
  <2>2. ASSUME NEW i \in DOMAIN stack' PROVE FrameOk(stack'[i])
      BY <1>1, <1>3 DEF ShellInv, StackInv
  <2> QED BY <2>1, <2>2 DEF StackInv
<1>5. CountInv'
  <2>1. Frames(Counted) = CallsIn(stack) /\ Frames(Counted)' = CallsIn(stack')
      BY DEF Frames, CallsIn
  <2>2. Cardinality(CallsIn(stack')) = depth' /\ depth' \in Nat /\ depth' <= DepthLimit + 1
      BY <1>1, <2>1, DeeperCount DEF CountInv, ShellInv, ShellAssumption
  <2> QED BY <2>1, <2>2 DEF CountInv
<1>6. PolicyInv'
  <2>1. policy' = PolicyFrom(stack', 1)
      BY <1>1, TopPolicy DEF ShellInv, PolicyInv
  <2>2. ASSUME NEW i \in DOMAIN stack', stack'[i].kind = "program" PROVE stack'[i].was = PolicyFrom(stack', i + 1)
    <3>1. CASE i = 1
      <4>1. PolicyFrom(stack', 1 + 1) = PolicyFrom(stack, 1)
          BY <1>1, DeeperPolicy
      <4> QED BY <1>1, <2>2, <3>1, <4>1 DEF ShellInv, PolicyInv
    <3>2. CASE i # 1
      <4>1. i - 1 \in DOMAIN stack /\ stack'[i] = stack[i - 1] /\ i \in Nat /\ i >= 1
          BY <1>2, <1>3, <3>2
      <4>2. stack[i - 1].was = PolicyFrom(stack, (i - 1) + 1)
          BY <2>2, <4>1 DEF ShellInv, PolicyInv
      <4>3. PolicyFrom(stack', i + 1) = PolicyFrom(stack, i)
          BY <1>1, <4>1, DeeperPolicy
      <4> QED BY <4>1, <4>2, <4>3
    <3> QED BY <3>1, <3>2
  <2> QED BY <2>1, <2>2 DEF PolicyInv
<1> QED BY <1>4, <1>5, <1>6

\* A call that ends: the frame on top goes.
LEMMA Ends ==
  ASSUME ShellInv, ShellAssumption, stack # << >>, stack' = Tail(stack),
         depth' = IF Head(stack).kind \in Counted THEN depth - 1 ELSE depth,
         policy' = IF Head(stack).kind = "program" THEN Head(stack).was ELSE policy
  PROVE  StackInv' /\ CountInv' /\ PolicyInv' /\ FrameOk(Head(stack))
<1>1. Deeper(stack', stack) /\ Head(stack) = stack[1] /\ 1 \in DOMAIN stack
    BY PopIsDeeper DEF ShellInv, StackInv
<1>2. /\ Len(stack') \in Nat /\ DOMAIN stack' = 1 .. Len(stack') /\ DOMAIN stack = 1 .. Len(stack') + 1
    BY <1>1, DeeperDomains
<1>3. ASSUME NEW i \in DOMAIN stack' PROVE i + 1 \in DOMAIN stack /\ stack'[i] = stack[i + 1]
    BY <1>1, <1>2 DEF Deeper
<1>4. StackInv'
  <2>1. stack' \in Seq(Range(stack'))
      BY <1>1 DEF Deeper
  <2>2. ASSUME NEW i \in DOMAIN stack' PROVE FrameOk(stack'[i])
      BY <1>3 DEF ShellInv, StackInv
  <2> QED BY <2>1, <2>2 DEF StackInv
<1>5. CountInv'
  <2>1. Frames(Counted) = CallsIn(stack) /\ Frames(Counted)' = CallsIn(stack')
      BY DEF Frames, CallsIn
  <2>2. Cardinality(CallsIn(stack')) = depth' /\ depth' \in Nat /\ depth' <= DepthLimit + 1
      BY <1>1, <2>1, DeeperCount DEF CountInv, ShellInv, ShellAssumption
  <2> QED BY <2>1, <2>2 DEF CountInv
<1>6. PolicyInv'
  <2>1. PolicyFrom(stack, 1 + 1) = PolicyFrom(stack', 1)
      BY <1>1, DeeperPolicy
  <2>2. policy' = PolicyFrom(stack', 1)
      BY <1>1, <2>1, TopPolicy DEF ShellInv, PolicyInv
  <2>3. ASSUME NEW i \in DOMAIN stack', stack'[i].kind = "program" PROVE stack'[i].was = PolicyFrom(stack', i + 1)
    <3>1. stack[i + 1].was = PolicyFrom(stack, (i + 1) + 1)
        BY <1>3, <2>3 DEF ShellInv, PolicyInv
    <3>2. PolicyFrom(stack, (i + 1) + 1) = PolicyFrom(stack', i + 1)
        BY <1>1, <1>2, DeeperPolicy
    <3> QED BY <1>3, <3>1, <3>2
  <2> QED BY <2>2, <2>3 DEF PolicyInv
<1> QED BY <1>1, <1>4, <1>5, <1>6 DEF ShellInv, StackInv

\* A call that stays: the frame on top changes, but not its kind.
LEMMA Stays ==
  ASSUME ShellInv, ShellAssumption, stack # << >>, NEW f, stack' = <<f>> \o Tail(stack),
         FrameOk(f), f.kind = Head(stack).kind, f.kind # "program",
         UNCHANGED <<depth, policy>>
  PROVE  StackInv' /\ CountInv' /\ PolicyInv'
<1>1. Deeper(Tail(stack), stack) /\ Head(stack) = stack[1] /\ 1 \in DOMAIN stack
    BY PopIsDeeper DEF ShellInv, StackInv
<1>2. Deeper(Tail(stack), stack') /\ stack'[1] = f
  <2>1. Tail(stack) \in Seq(Range(Tail(stack)))
      BY <1>1 DEF Deeper
  <2> QED BY <2>1, PushIsDeeper
<1>3. /\ Len(Tail(stack)) \in Nat
      /\ DOMAIN stack = 1 .. Len(Tail(stack)) + 1 /\ DOMAIN stack' = 1 .. Len(Tail(stack)) + 1
    BY <1>1, <1>2, DeeperDomains
<1>4. ASSUME NEW i \in DOMAIN stack' PROVE i \in DOMAIN stack /\ (i = 1 \/ stack'[i] = stack[i])
  <2>1. i = 1 \/ i - 1 \in 1 .. Len(Tail(stack))
      BY <1>3
  <2>2. CASE i - 1 \in 1 .. Len(Tail(stack))
    <3>1. stack[(i - 1) + 1] = Tail(stack)[i - 1] /\ stack'[(i - 1) + 1] = Tail(stack)[i - 1]
        BY <1>1, <1>2, <2>2 DEF Deeper
    <3> QED BY <3>1, <1>3
  <2> QED BY <1>3, <2>1, <2>2
<1>5. StackInv'
  <2>1. stack' \in Seq(Range(stack'))
      BY <1>2 DEF Deeper
  <2>2. ASSUME NEW i \in DOMAIN stack' PROVE FrameOk(stack'[i])
      BY <1>2, <1>4 DEF ShellInv, StackInv
  <2> QED BY <2>1, <2>2 DEF StackInv
<1>6. CountInv'
  <2>1. Frames(Counted) = CallsIn(stack) /\ Frames(Counted)' = CallsIn(stack')
      BY DEF Frames, CallsIn
  <2>2. stack'[1].kind \in Counted <=> stack[1].kind \in Counted
      BY <1>1, <1>2
  <2>3. Cardinality(CallsIn(stack')) = Cardinality(CallsIn(stack))
      BY <1>1, <1>2, <2>2, DeeperCount
  <2> QED BY <2>1, <2>3 DEF CountInv, ShellInv
<1>7. PolicyInv'
  <2>1. policy' = PolicyFrom(stack', 1)
    <3>1. PolicyFrom(stack', 1) = PolicyFrom(Tail(stack), 1)
        BY <1>2, TopPolicy
    <3>2. PolicyFrom(stack, 1) = PolicyFrom(Tail(stack), 1)
        BY <1>1, TopPolicy
    <3> QED BY <3>1, <3>2 DEF ShellInv, PolicyInv
  <2>2. ASSUME NEW i \in DOMAIN stack', stack'[i].kind = "program" PROVE stack'[i].was = PolicyFrom(stack', i + 1)
    <3>1. i # 1 /\ i \in DOMAIN stack /\ stack'[i] = stack[i]
        BY <1>2, <1>4, <2>2
    <3>2. stack[i].was = PolicyFrom(stack, i + 1)
        BY <2>2, <3>1 DEF ShellInv, PolicyInv
    <3>3. i \in Nat /\ i >= 1
        BY <1>3
    <3>4. PolicyFrom(stack, i + 1) = PolicyFrom(Tail(stack), i) /\ PolicyFrom(stack', i + 1) = PolicyFrom(Tail(stack), i)
        BY <1>1, <1>2, <3>3, DeeperPolicy
    <3> QED BY <3>1, <3>2, <3>4
  <2> QED BY <2>1, <2>2 DEF PolicyInv
<1> QED BY <1>5, <1>6, <1>7

\* Nothing of the stack changes.
LEMMA Idles ==
  ASSUME ShellInv, UNCHANGED <<stack, depth, policy>>
  PROVE  StackInv' /\ CountInv' /\ PolicyInv'
<1>1. StackInv'
    BY DEF ShellInv, StackInv
<1>2. CountInv'
    BY DEF ShellInv, CountInv, Frames
<1>3. PolicyInv'
    BY DEF ShellInv, PolicyInv
<1> QED BY <1>1, <1>2, <1>3

-----------------------------------------------------------------------------
(* The actions.                                                            *)

\* A line that is executed as if typed, or none.
LEMMA TypedLine == \A line : LineOk([do |-> "line", line |-> line, in_mos |-> TRUE, from |-> "typed"])
BY DEF LineOk, Safely

\* The line in execution, and what is kept of it for the time after its alias.
LEMMA CurrentLine ==
  ASSUME ShellInv, current.do = "line"
  PROVE  Safely(current) /\ LineOk([current EXCEPT !.line.plain = TRUE])
<1>1. current # Nothing
    BY DEF Nothing
<1>2. {"do", "line", "in_mos", "from"} \subseteq DOMAIN current /\ Safely(current)
    BY <1>1 DEF ShellInv, LineInv, LineOk
<1> QED BY <1>2 DEF LineOk, Safely

\* A program that starts is a frame the invariant allows, unless one of OSCLI is no moslet.
LEMMA ProgramFrame ==
  ASSUME ShellInv, NEW where, NEW from, from = "oscli" => where = "moslet", depth <= DepthLimit,
         ShellAssumption, mos_runBin(where, from), UNCHANGED depth
  PROVE  StackInv' /\ CountInv' /\ PolicyInv' /\ LineInv'
<1>1. PICK p \in Policies :
        LET new == IF where = "moslet" THEN "MOSLET" ELSE p
        IN /\ Push([kind |-> "program", where |-> where, was |-> policy, policy |-> new, from |-> from])
           /\ policy' = new
    BY DEF mos_runBin
<1> DEFINE f == [kind |-> "program", where |-> where, was |-> policy,
                 policy |-> IF where = "moslet" THEN "MOSLET" ELSE p, from |-> from]
<1>2. FrameOk(f) /\ f.kind = "program" /\ f.was = policy /\ Push(f) /\ policy' = f.policy /\ ~(f.kind \in Counted)
    BY <1>1 DEF FrameOk, Counted
<1> HIDE DEF f
<1>3. StackInv' /\ CountInv' /\ PolicyInv'
    BY <1>2, Begins
<1>4. LineInv'
    BY DEF mos_runBin, Returns, LineInv, LineOk
<1> QED BY <1>3, <1>4

\* An alias or a file that begins.
LEMMA CallBegins ==
  ASSUME ShellInv, ShellAssumption, NEW f, Push(f), FrameOk(f), f.kind \in Counted, depth' = depth + 1,
         depth <= DepthLimit, UNCHANGED policy
  PROVE  StackInv' /\ CountInv' /\ PolicyInv'
<1>1. f.kind # "program"
    BY DEF Counted
<1> QED BY <1>1, Begins

\* The frame of a script is one the invariant allows.
LEMMA ScriptOk == \A name : FrameOk(ScriptFrame(name)) /\ ScriptFrame(name).kind = "script"
BY DEF FrameOk, ScriptFrame, Counted, Safely

\* So is the frame of an alias, when what it keeps for later is.
LEMMA AliasOk ==
  ASSUME NEW name, NEW in_mos, NEW from, NEW then, from = "oscli" => in_mos = FALSE, LineOk(then)
  PROVE  FrameOk(AliasFrame(name, in_mos, from, then)) /\ AliasFrame(name, in_mos, from, then).kind = "alias"
BY DEF FrameOk, AliasFrame, Counted, Safely

\* OBEY and EXEC.
LEMMA ReadsKeeps ==
  ASSUME ShellInv, ShellAssumption, NEW name, Reads(name), depth <= DepthLimit
  PROVE  ShellInv'
<1>1. LineInv'
    BY DEF Reads, Returns, LineInv, LineOk
<1>2. CASE Push(ScriptFrame(name)) /\ depth' = depth + 1
  <2>1. StackInv' /\ CountInv' /\ PolicyInv'
      BY <1>2, ScriptOk, CallBegins DEF Reads, Counted
  <2> QED BY <1>1, <2>1 DEF ShellInv
<1>3. CASE UNCHANGED <<stack, depth>>
  <2>1. StackInv' /\ CountInv' /\ PolicyInv'
      BY <1>3, Idles DEF Reads
  <2> QED BY <1>1, <2>1 DEF ShellInv
<1> QED BY <1>2, <1>3 DEF Reads

\* The invariant is preserved by every step.
LEMMA ShellStep == ShellAssumption /\ ShellInv /\ [ShellNext]_shellVars => ShellInv'
<1> SUFFICES ASSUME ShellAssumption, ShellInv, [ShellNext]_shellVars PROVE ShellInv'
    OBVIOUS
<1> USE DEF Executing
<1>l. ASSUME current.do = "line" PROVE Safely(current) /\ LineOk([current EXCEPT !.line.plain = TRUE])
    BY <1>l, CurrentLine
<1>d. ASSUME ~TooDeep PROVE depth <= DepthLimit
    BY <1>d DEF TooDeep, ShellInv, CountInv, ShellAssumption
<1>i. ASSUME UNCHANGED <<stack, depth, policy>>, LineInv' PROVE ShellInv'
    BY <1>i, Idles DEF ShellInv
<1>r. ASSUME NEW r, Returns(r) PROVE LineInv'
    BY <1>r DEF Returns, LineInv, LineOk
<1>t. ASSUME NEW line, Executes(line, TRUE, "typed") PROVE LineInv'
    BY <1>t, TypedLine DEF Executes, LineInv
<1>1. CASE mos_exec_TooDeep
    BY <1>1, <1>i, <1>r DEF mos_exec_TooDeep
<1>2. CASE mos_execAlias
  <2> DEFINE then == [current EXCEPT !.line.plain = TRUE]
             f == AliasFrame(current.line.name, current.in_mos, current.from, then)
  <2>1. FrameOk(f) /\ f.kind = "alias"
    <3>1. current.do = "line"
        BY <1>2 DEF mos_execAlias
    <3>2. (current.from = "oscli" => current.in_mos = FALSE) /\ LineOk(then)
        BY <3>1, <1>l DEF Safely
    <3> HIDE DEF then
    <3> QED BY <3>2, AliasOk
  <2>2. Push(f) /\ depth' = depth + 1 /\ depth <= DepthLimit /\ UNCHANGED policy
      BY <1>2, <1>d DEF mos_execAlias
  <2>3. LineInv'
      BY <1>2, <1>r DEF mos_execAlias
  <2> HIDE DEF f
  <2>4. StackInv' /\ CountInv' /\ PolicyInv'
      BY <2>1, <2>2, CallBegins DEF Counted
  <2> QED BY <2>3, <2>4 DEF ShellInv
<1>3. CASE BuiltIn
    BY <1>3, <1>i, <1>r DEF BuiltIn
<1>4. CASE mos_cmdIF
  <2>1. PICK line : IF line = Nothing THEN Returns("OK") ELSE Executes(line, TRUE, "typed")
      BY <1>4 DEF mos_cmdIF
  <2>2. LineInv'
      BY <2>1, <1>r, <1>t
  <2> QED BY <1>4, <2>2, <1>i DEF mos_cmdIF
<1>5. CASE mos_cmdDO
    BY <1>5, <1>i, <1>t DEF mos_cmdDO
<1>6. CASE mos_cmdTRY
  <2> DEFINE f == [kind |-> "try", rest |-> << >>]
  <2>1. FrameOk(f) /\ f.kind = "try" /\ ~(f.kind \in Counted)
      BY DEF FrameOk, Counted
  <2>2. Push(f) /\ depth' = depth /\ policy' = policy /\ depth <= DepthLimit
      BY <1>6, <1>d DEF mos_cmdTRY
  <2> HIDE DEF f
  <2>3. StackInv' /\ CountInv' /\ PolicyInv'
      BY <2>1, <2>2, Begins
  <2>4. LineInv'
      BY <1>6, <1>t DEF mos_cmdTRY
  <2> QED BY <2>3, <2>4 DEF ShellInv
<1>7. CASE mos_cmdOBEY
    BY <1>7, <1>d, ReadsKeeps DEF mos_cmdOBEY
<1>8. CASE mos_EXEC
    BY <1>8, <1>d, ReadsKeeps DEF mos_EXEC
<1>9. CASE mos_runOrLoadFile
  <2> DEFINE token == current.line.type
             f == AliasFrame(token, TRUE, "typed", Nothing)
  <2>1. LineInv'
      BY <1>9, <1>r DEF mos_runOrLoadFile
  <2>2. CASE Aliased(token)
    <3>1. FrameOk(f) /\ f.kind = "alias"
        BY AliasOk DEF LineOk
    <3>2. Push(f) /\ depth' = depth + 1 /\ depth <= DepthLimit /\ UNCHANGED policy
        BY <1>9, <2>2, <1>d DEF mos_runOrLoadFile
    <3> HIDE DEF f
    <3>3. StackInv' /\ CountInv' /\ PolicyInv'
        BY <3>1, <3>2, CallBegins DEF Counted
    <3> QED BY <2>1, <3>3 DEF ShellInv
  <2>3. CASE ~Aliased(token)
      BY <1>9, <2>3, <2>1, <1>i DEF mos_runOrLoadFile
  <2> QED BY <2>2, <2>3
<1>10. CASE mos_runBinFile
  <2> DEFINE name == current.line.name
  <2>1. UNCHANGED depth /\ depth <= DepthLimit
      BY <1>10, <1>d DEF mos_runBinFile
  <2>2. CASE name \in Path(current.in_mos) /\ mos_runBin(Programs[name].where, current.from)
    <3>1. current.from = "oscli" => Programs[name].where = "moslet"
        BY <1>10, <2>2, <1>l DEF mos_runBinFile, Safely, Path
    <3>2. StackInv' /\ CountInv' /\ PolicyInv' /\ LineInv'
        BY <2>1, <2>2, <3>1, ProgramFrame
    <3> QED BY <3>2 DEF ShellInv
  <2>3. CASE UNCHANGED <<stack, policy>> /\ \E r : Returns(r)
      BY <2>1, <2>3, <1>i, <1>r
  <2> QED BY <1>10, <2>2, <2>3 DEF mos_runBinFile
<1>11. CASE mos_cmdRUN
  <2>1. UNCHANGED depth /\ depth <= DepthLimit
      BY <1>11, <1>d DEF mos_cmdRUN
  <2>2. CASE mos_runBin(current.line.where, "asked")
    <3>1. StackInv' /\ CountInv' /\ PolicyInv' /\ LineInv'
        BY <2>1, <2>2, ProgramFrame
    <3> QED BY <3>1 DEF ShellInv
  <2>3. CASE UNCHANGED <<stack, policy>> /\ Returns("error")
      BY <2>1, <2>3, <1>i, <1>r
  <2> QED BY <1>11, <2>2, <2>3 DEF mos_cmdRUN
<1>12. CASE NextLine
  <2> DEFINE f == [Head(stack) EXCEPT !.rest = Tail(@)]
  <2>1. stack # << >> /\ Head(stack).kind \in Counted /\ stack' = <<f>> \o Tail(stack) /\ UNCHANGED <<depth, policy>>
      BY <1>12 DEF NextLine, InFrame, Counted
  <2>2. FrameOk(Head(stack))
      BY <2>1, PopIsDeeper DEF ShellInv, StackInv
  <2>3. FrameOk(f) /\ f.kind = Head(stack).kind /\ f.kind # "program"
      BY <2>1, <2>2 DEF FrameOk, Counted, Safely
  <2>4. LineInv'
    <3>1. Executes(Head(Head(stack).rest), Head(stack).in_mos, Head(stack).from)
        BY <1>12 DEF NextLine
    <3> QED BY <2>1, <2>2, <3>1 DEF Executes, LineInv, LineOk, FrameOk, Safely
  <2> HIDE DEF f
  <2>5. StackInv' /\ CountInv' /\ PolicyInv'
      BY <2>1, <2>3, Stays
  <2> QED BY <2>4, <2>5 DEF ShellInv
<1>13. CASE TryEnds
  <2>1. stack # << >> /\ stack' = Tail(stack) /\ Head(stack).kind = "try" /\ UNCHANGED <<depth, policy>>
      BY <1>13 DEF TryEnds, Top
  <2>2. StackInv' /\ CountInv' /\ PolicyInv'
      BY <2>1, Ends DEF Counted
  <2>3. LineInv'
      BY <1>13, <1>r DEF TryEnds
  <2> QED BY <2>2, <2>3 DEF ShellInv
<1>14. CASE FrameEnds
  <2>1. /\ stack # << >> /\ stack' = Tail(stack) /\ Head(stack).kind \in Counted
        /\ depth' = depth - 1 /\ UNCHANGED policy
      BY <1>14 DEF FrameEnds, InFrame, Counted, LeaveDepth
  <2>2. Head(stack).kind # "program"
      BY <2>1 DEF Counted
  <2>3. StackInv' /\ CountInv' /\ PolicyInv' /\ FrameOk(Head(stack))
      BY <2>1, <2>2, Ends
  <2>4. CASE Head(stack).kind = "alias" /\ current' = Head(stack).then
      BY <2>3, <2>4 DEF FrameOk, LineInv, ShellInv
  <2>5. CASE Returns(ret)
      BY <2>3, <2>5, <1>r DEF ShellInv
  <2> QED BY <1>14, <2>4, <2>5 DEF FrameEnds
<1>15. CASE mos_OSCLI
  <2>1. LineInv'
      BY <1>15 DEF mos_OSCLI, Executes, LineInv, LineOk, Safely
  <2> QED BY <1>15, <2>1, <1>i DEF mos_OSCLI
<1>16. CASE ProgramReturns
  <2>1. /\ stack # << >> /\ stack' = Tail(stack) /\ Head(stack).kind = "program"
        /\ policy' = Head(stack).was /\ UNCHANGED depth
      BY <1>16 DEF ProgramReturns, Top
  <2>2. StackInv' /\ CountInv' /\ PolicyInv'
      BY <2>1, Ends DEF Counted
  <2>3. LineInv'
      BY <1>16, <1>r DEF ProgramReturns
  <2> QED BY <2>2, <2>3 DEF ShellInv
<1>17. CASE BootNext
  <2>1. LineInv'
      BY <1>17, <1>t DEF BootNext, ShellInv, LineInv
  <2> QED BY <1>17, <2>1, <1>i DEF BootNext
<1>18. CASE Typed
    BY <1>18, <1>i, <1>t DEF Typed
<1>19. CASE UNCHANGED shellVars
    BY <1>19, <1>i DEF shellVars, ShellInv, LineInv
<1> QED
    BY <1>1, <1>2, <1>3, <1>4, <1>5, <1>6, <1>7, <1>8, <1>9, <1>10, <1>11, <1>12, <1>13, <1>14, <1>15,
       <1>16, <1>17, <1>18, <1>19 DEF ShellNext

\* It holds when the machine starts.
LEMMA ShellStarts == ShellAssumption /\ ShellInit => ShellInv
<1> SUFFICES ASSUME ShellAssumption, ShellInit PROVE ShellInv
    OBVIOUS
<1>1. stack = << >> /\ DOMAIN stack = {} /\ stack \in Seq(Range(stack))
  <2>1. stack = << >>
      BY DEF ShellInit
  <2>2. << >> \in Seq({}) /\ DOMAIN << >> = {}
      OBVIOUS
  <2> QED BY <2>1, <2>2, SeqOfRange
<1>2. StackInv
    BY <1>1 DEF StackInv
<1>3. CountInv
  <2>1. Frames(Counted) = {}
      BY <1>1 DEF Frames
  <2> QED BY <2>1, FS_EmptySet DEF CountInv, ShellInit, ShellAssumption
<1>4. PolicyInv
  <2>1. ProgramsFrom(stack, 1) = {}
      BY <1>1 DEF ProgramsFrom
  <2> QED BY <1>1, <2>1 DEF PolicyInv, PolicyFrom, PolicyOf, ShellInit
<1>5. LineInv
    BY TypedLine DEF ShellInit, LineInv
<1> QED BY <1>2, <1>3, <1>4, <1>5 DEF ShellInv

\* What the invariant says of the stack is what the property claims.
LEMMA ShellClaims == ShellInv => InterpreterIsSound
<1> SUFFICES ASSUME ShellInv PROVE InterpreterIsSound
    OBVIOUS
<1>1. FramesMatch
  <2>1. ProgramsFrom(stack, 1) = Live
    <3>1. DOMAIN stack = 1 .. Len(stack)
        BY LenProperties DEF ShellInv, StackInv
    <3> QED BY <3>1 DEF ProgramsFrom, Live
  <2>2. policy = PolicyOf(stack, Live)
      BY <2>1 DEF ShellInv, PolicyInv, PolicyFrom
  <2>3. policy = IF Live = {} THEN "CORE" ELSE stack[CHOOSE i \in Live : \A j \in Live : i <= j].policy
      BY <2>2 DEF PolicyOf
  <2> QED BY <2>3 DEF ShellInv, CountInv, FramesMatch, Counted
<1>2. OscliLoadsMoslets
    BY DEF ShellInv, StackInv, FrameOk, OscliLoadsMoslets
<1> QED BY <1>1, <1>2 DEF InterpreterIsSound

\* The inductive invariant of the interpreter.
THEOREM InterpreterInvariant == ShellAssumption => (ShellSpec => []ShellInv)
<1> SUFFICES ASSUME ShellAssumption PROVE ShellSpec => []ShellInv
    OBVIOUS
<1>1. ShellInit => ShellInv
    BY ShellStarts
<1>2. ShellInv /\ [ShellNext]_shellVars => ShellInv'
    BY ShellStep
<1> QED BY <1>1, <1>2, PTL DEF ShellSpec

\* Whatever the aliases, the files, the programs and the lines are: the depth counts exactly
\* the aliases and files in progress, one beyond the limit at most; the policy is that of the
\* innermost program in progress, Core if there is none; and a command that a program gave
\* loads no program but a moslet (mos_exec and mos_runBin in mos.c).
THEOREM InterpreterSafety == ShellAssumption => (ShellSpec => []InterpreterIsSound)
<1> SUFFICES ASSUME ShellAssumption PROVE ShellSpec => []InterpreterIsSound
    OBVIOUS
<1>1. ShellSpec => []ShellInv
    BY InterpreterInvariant
<1>2. ShellInv => InterpreterIsSound
    BY ShellClaims
<1> QED BY <1>1, <1>2, PTL

-----------------------------------------------------------------------------
(* The line editor (Editor).                                               *)

\* A set of numbers with 0 and the next of each has all of them.
LEMMA AllNumbers ==
  ASSUME NEW T, 0 \in T, \A i \in Nat : i \in T => i + 1 \in T
  PROVE  Nat \subseteq T
<1> SUFFICES ASSUME Nat \ T # {} PROVE FALSE
    OBVIOUS
<1>1. PICK x \in Nat \ T : \A y \in Nat \ T : x <= y
    BY LeastOf
<1>2. x # 0
    OBVIOUS
<1>3. x - 1 \in Nat /\ x - 1 \in T
    BY <1>1, <1>2
<1> QED BY <1>3

-----------------------------------------------------------------------------
(* The lines without repetitions.                                          *)

\* The function by which Kept is defined, up to the line n.
New(e, i) == IF i \in Different(e) THEN <<e[i]>> ELSE << >>
With(s, e, i) == s \o New(e, i)
IsKept(f, e, n) == f = [i \in 0 .. n |-> IF i = 0 THEN << >> ELSE With(f[i - 1], e, i)]

\* Kept is the last value of the function that its definition chooses.
LEMMA KeptIs == \A e : Kept(e) = (CHOOSE f : IsKept(f, e, Len(e)))[Len(e)]
BY DEF Kept, IsKept, New, With

\* What it is to be this function.
LEMMA KeptForm ==
  ASSUME NEW f, NEW e, NEW n \in Nat, IsKept(f, e, n)
  PROVE  f[0] = << >> /\ \A i \in 1 .. n : f[i] = With(f[i - 1], e, i)
BY DEF IsKept

\* There is such a function.
LEMMA KeptExists == ASSUME NEW e, NEW n \in Nat PROVE \E f : IsKept(f, e, n)
<1> DEFINE T == {m \in Nat : \E f : IsKept(f, e, m)}
<1>1. 0 \in T
  <2>1. IsKept([i \in 0 .. 0 |-> << >>], e, 0)
      BY DEF IsKept
  <2> QED BY <2>1
<1>2. ASSUME NEW m \in Nat, m \in T PROVE m + 1 \in T
  <2>1. PICK f : IsKept(f, e, m)
      BY <1>2
  <2>2. f[0] = << >> /\ \A i \in 1 .. m : f[i] = With(f[i - 1], e, i)
      BY <2>1, KeptForm
  <2> DEFINE g == [i \in 0 .. m + 1 |-> IF i = m + 1 THEN With(f[m], e, m + 1) ELSE f[i]]
  <2>3. ASSUME NEW i \in 0 .. m + 1 PROVE g[i] = IF i = 0 THEN << >> ELSE With(g[i - 1], e, i)
    <3>1. CASE i = 0
        BY <2>2, <3>1
    <3>2. CASE i = m + 1
      <4>1. g[i - 1] = f[m] /\ i # 0
          BY <3>2
      <4> QED BY <3>2, <4>1
    <3>3. CASE i \in 1 .. m
      <4>1. g[i - 1] = f[i - 1] /\ i # 0 /\ g[i] = f[i]
          BY <3>3
      <4> QED BY <2>2, <3>3, <4>1
    <3> QED BY <3>1, <3>2, <3>3
  <2>4. g = [i \in 0 .. m + 1 |-> g[i]]
      OBVIOUS
  <2> HIDE DEF g
  <2>5. [i \in 0 .. m + 1 |-> g[i]] = [i \in 0 .. m + 1 |-> IF i = 0 THEN << >> ELSE With(g[i - 1], e, i)]
      BY <2>3
  <2>6. IsKept(g, e, m + 1)
      BY <2>4, <2>5 DEF IsKept
  <2> QED BY <2>6
<1> HIDE DEF T
<1>3. n \in T
    BY <1>1, <1>2, AllNumbers
<1> QED BY <1>3 DEF T

\* So the chosen one is this function.
LEMMA KeptChosen == ASSUME NEW e, NEW n \in Nat PROVE IsKept((CHOOSE f : IsKept(f, e, n)), e, n)
BY KeptExists

\* And only one, on lists that begin alike.
LEMMA KeptUnique ==
  ASSUME NEW d, NEW e, NEW m \in Nat, NEW n \in Nat, m <= n, NEW f, IsKept(f, d, m), NEW g, IsKept(g, e, n),
         \A i \in 1 .. m : New(d, i) = New(e, i)
  PROVE  f[m] = g[m]
<1> DEFINE T == {i \in Nat : i <= m => f[i] = g[i]}
<1>1. f[0] = << >> /\ \A i \in 1 .. m : f[i] = With(f[i - 1], d, i)
    BY KeptForm
<1>2. g[0] = << >> /\ \A i \in 1 .. n : g[i] = With(g[i - 1], e, i)
    BY KeptForm
<1>3. 0 \in T
    BY <1>1, <1>2
<1>4. ASSUME NEW i \in Nat, i \in T PROVE i + 1 \in T
  <2> SUFFICES ASSUME i + 1 <= m PROVE f[i + 1] = g[i + 1]
      OBVIOUS
  <2>1. f[i] = g[i]
      BY <1>4
  <2>2. i + 1 \in 1 .. m /\ i + 1 \in 1 .. n /\ (i + 1) - 1 = i
      OBVIOUS
  <2>3. f[i + 1] = With(f[i], d, i + 1) /\ g[i + 1] = With(g[i], e, i + 1)
      BY <1>1, <1>2, <2>2
  <2>4. With(f[i], d, i + 1) = With(f[i], e, i + 1)
      BY <2>2 DEF With
  <2> QED BY <2>1, <2>3, <2>4
<1> HIDE DEF T
<1>5. Nat \subseteq T
    BY <1>3, <1>4, AllNumbers
<1> QED BY <1>5 DEF T

\* Nothing is kept of no lines.
LEMMA KeptNothing == Kept(<< >>) = << >>
<1>1. Len(<< >>) = 0
    OBVIOUS
<1>2. IsKept((CHOOSE f : IsKept(f, << >>, 0)), << >>, 0)
    BY KeptChosen
<1>3. (CHOOSE f : IsKept(f, << >>, 0))[0] = << >>
    BY <1>2, KeptForm
<1> QED BY <1>1, <1>3, KeptIs

\* Of one line more, that line is kept unless it is the last one again.
LEMMA KeptAppend ==
  ASSUME NEW S, NEW e \in Seq(S), NEW line \in S
  PROVE  Kept(Append(e, line)) =
           Kept(e) \o (IF e # << >> /\ e[Len(e)] = line THEN << >> ELSE <<line>>)
<1> DEFINE d == Append(e, line)
           n == Len(e)
           f == CHOOSE f : IsKept(f, e, n)
           g == CHOOSE g : IsKept(g, d, n + 1)
<1>1. /\ n \in Nat /\ Len(d) = n + 1 /\ DOMAIN e = 1 .. n /\ DOMAIN d = 1 .. n + 1
      /\ \A i \in 1 .. n : d[i] = e[i]
      /\ d[n + 1] = line
  <2>1. d \in Seq(S) /\ Len(d) = n + 1 /\ (\A i \in 1 .. n : d[i] = e[i]) /\ d[n + 1] = line
      BY AppendProperties
  <2> QED BY <2>1, LenProperties
<1>2. (n = 0) <=> (e = << >>)
    BY <1>1, EmptySeq
<1> HIDE DEF d
<1>3. ASSUME NEW i \in 1 .. n PROVE New(e, i) = New(d, i)
  <2>1. i \in 1 .. n + 1 /\ (i # 1 => i - 1 \in 1 .. n) /\ d[i] = e[i]
      BY <1>1
  <2>2. i \in Different(e) <=> i \in Different(d)
      BY <1>1, <2>1 DEF Different
  <2> QED BY <2>1, <2>2 DEF New
<1>4. IsKept(f, e, n) /\ IsKept(g, d, n + 1)
    BY <1>1, KeptChosen
<1>5. Kept(e) = f[n] /\ Kept(d) = g[n + 1]
    BY <1>1, KeptIs
<1> HIDE DEF f, g
<1>6. f[n] = g[n]
    BY <1>1, <1>3, <1>4, KeptUnique
<1>7. g[n + 1] = g[n] \o New(d, n + 1)
  <2>1. n + 1 \in 1 .. n + 1 /\ (n + 1) - 1 = n
      BY <1>1
  <2>2. g[n + 1] = With(g[(n + 1) - 1], d, n + 1)
      BY <1>1, <1>4, <2>1, KeptForm
  <2> QED BY <2>1, <2>2 DEF With
<1>8. New(d, n + 1) = IF e # << >> /\ e[n] = line THEN << >> ELSE <<line>>
  <2>1. n + 1 \in Different(d) <=> (n = 0 \/ line # d[n])
      BY <1>1 DEF Different
  <2>2. n # 0 => d[n] = e[n]
      BY <1>1
  <2> QED BY <1>1, <1>2, <2>1, <2>2 DEF New
<1> QED BY <1>5, <1>6, <1>7, <1>8 DEF d

-----------------------------------------------------------------------------
(* Pieces of lines.                                                        *)

\* The beginning of a sequence.
LEMMA BeforeFacts ==
  ASSUME NEW S, NEW s \in Seq(S), NEW n \in 0 .. Len(s)
  PROVE  Before(s, n) \in Seq(S) /\ Len(Before(s, n)) = n /\ \A i \in 1 .. n : Before(s, n)[i] = s[i]
<1>1. Len(s) \in Nat /\ \A i \in 1 .. Len(s) : s[i] \in S
    BY ElementOfSeq, LenProperties
<1>2. /\ SubSeq(s, 1, n) \in Seq(S) /\ Len(SubSeq(s, 1, n)) = IF 1 <= n THEN n - 1 + 1 ELSE 0
      /\ \A i \in 1 .. n - 1 + 1 : SubSeq(s, 1, n)[i] = s[1 + i - 1]
  <2>1. \A i \in 1 .. n : s[i] \in S
      BY <1>1
  <2> QED BY <1>1, <2>1, SubSeqProperties
<1>3. Len(SubSeq(s, 1, n)) = n
    BY <1>1, <1>2
<1>4. \A i \in 1 .. n : SubSeq(s, 1, n)[i] = s[i]
    BY <1>1, <1>2
<1> QED BY <1>2, <1>3, <1>4 DEF Before

\* The end of a sequence.
LEMMA AfterFacts ==
  ASSUME NEW S, NEW s \in Seq(S), NEW n \in 0 .. Len(s)
  PROVE  /\ After(s, n) \in Seq(S) /\ Len(After(s, n)) = Len(s) - n
         /\ \A i \in 1 .. Len(s) - n : After(s, n)[i] = s[n + i]
<1>1. Len(s) \in Nat /\ \A i \in 1 .. Len(s) : s[i] \in S
    BY ElementOfSeq, LenProperties
<1> DEFINE t == SubSeq(s, n + 1, Len(s))
<1>2. /\ t \in Seq(S) /\ Len(t) = IF n + 1 <= Len(s) THEN Len(s) - (n + 1) + 1 ELSE 0
      /\ \A i \in 1 .. Len(s) - (n + 1) + 1 : t[i] = s[n + 1 + i - 1]
  <2>1. \A i \in n + 1 .. Len(s) : s[i] \in S
      BY <1>1
  <2> QED BY <1>1, <2>1, SubSeqProperties
<1> HIDE DEF t
<1>3. Len(t) = Len(s) - n
    BY <1>1, <1>2
<1>4. \A i \in 1 .. Len(s) - n : t[i] = s[n + i]
    BY <1>1, <1>2
<1> QED BY <1>2, <1>3, <1>4 DEF After, t

\* Two pieces, one behind the other.
LEMMA JoinFacts ==
  ASSUME NEW S, NEW s \in Seq(S), NEW t \in Seq(S)
  PROVE  /\ s \o t \in Seq(S) /\ Len(s \o t) = Len(s) + Len(t) /\ Len(s) \in Nat /\ Len(t) \in Nat
         /\ \A i \in 1 .. Len(s) : (s \o t)[i] = s[i]
         /\ \A i \in 1 .. Len(t) : (s \o t)[Len(s) + i] = t[i]
<1>1. Len(s) \in Nat /\ Len(t) \in Nat
    BY LenProperties
<1>2. /\ s \o t \in Seq(S) /\ Len(s \o t) = Len(s) + Len(t)
      /\ \A i \in 1 .. Len(s) + Len(t) : (s \o t)[i] = IF i <= Len(s) THEN s[i] ELSE t[i - Len(s)]
    BY ConcatProperties
<1>3. ASSUME NEW i \in 1 .. Len(t) PROVE (s \o t)[Len(s) + i] = t[i]
  <2>1. Len(s) + i \in 1 .. Len(s) + Len(t) /\ ~(Len(s) + i <= Len(s)) /\ (Len(s) + i) - Len(s) = i
      BY <1>1
  <2> QED BY <1>2, <2>1
<1>4. ASSUME NEW i \in 1 .. Len(s) PROVE (s \o t)[i] = s[i]
    BY <1>1, <1>2
<1> QED BY <1>1, <1>2, <1>3, <1>4

\* A text of spaces.
LEMMA SpacesFacts ==
  ASSUME NEW n \in Nat
  PROVE  Spaces(n) \in Seq(Characters) /\ Len(Spaces(n)) = n /\ \A i \in 1 .. n : Spaces(n)[i] = Space
<1>1. Spaces(n) \in [1 .. n -> Characters] /\ DOMAIN Spaces(n) = 1 .. n
    BY DEF Spaces, Characters
<1>2. Spaces(n) \in Seq(Characters)
    BY <1>1, SeqDef
<1>3. Len(Spaces(n)) = n
    BY <1>1, <1>2
<1> QED BY <1>2, <1>3 DEF Spaces

\* A text of one character.
LEMMA OneFacts == ASSUME NEW S, NEW c \in S PROVE <<c>> \in Seq(S) /\ Len(<<c>>) = 1 /\ <<c>>[1] = c
OBVIOUS

-----------------------------------------------------------------------------
(* The screen.                                                             *)

IsLine(line) == line \in Seq(Characters)
IsScreen(s) == s \in [text : [1 .. Width -> Characters], cursor : Int]

\* One line behind another is a line.
LEMMA JoinLines ==
  ASSUME NEW s, IsLine(s), NEW t, IsLine(t)
  PROVE  /\ IsLine(s \o t) /\ Len(s \o t) = Len(s) + Len(t) /\ Len(s) \in Nat /\ Len(t) \in Nat
         /\ \A i \in 1 .. Len(s) : (s \o t)[i] = s[i]
         /\ \A i \in 1 .. Len(t) : (s \o t)[Len(s) + i] = t[i]
BY JoinFacts DEF IsLine

\* It does not matter which two of three lines are joined first.
LEMMA JoinThree ==
  ASSUME NEW s, IsLine(s), NEW t, IsLine(t), NEW u, IsLine(u)
  PROVE  s \o (t \o u) = (s \o t) \o u
<1>1. s \in Seq(Characters) /\ t \in Seq(Characters) /\ u \in Seq(Characters)
    BY DEF IsLine
<1> QED BY <1>1, ConcatAssociative

\* Lines of the same characters are the same.
LEMMA SameLine ==
  ASSUME NEW s, IsLine(s), NEW t, IsLine(t), Len(s) = Len(t), \A i \in 1 .. Len(s) : s[i] = t[i]
  PROVE  s = t
BY SeqEqual DEF IsLine

\* What stands at position i of a screen that shows a line.
Shown(line, i) == IF i <= Len(line) THEN line[i] ELSE Space
Shows(s, line) == IsScreen(s) /\ \A i \in 1 .. Width : s.text[i] = Shown(line, i)
\* The cursor is at place p of the line shown.
Drawn(s, line, p) == Shows(s, line) /\ s.cursor = p

\* A text that is written where the cursor is.
LEMMA WrittenFacts ==
  ASSUME NEW s, IsScreen(s), s.cursor \in Nat, NEW u, IsLine(u)
  PROVE  /\ IsScreen(Written(s, u)) /\ Written(s, u).cursor = s.cursor + Len(u) /\ Len(u) \in Nat
         /\ \A i \in 1 .. Width : i <= s.cursor \/ i > s.cursor + Len(u) => Written(s, u).text[i] = s.text[i]
         /\ \A i \in 1 .. Len(u) : s.cursor + i <= Width => Written(s, u).text[s.cursor + i] = u[i]
<1>1. Len(u) \in Nat /\ \A i \in 1 .. Len(u) : u[i] \in Characters
    BY LenProperties, ElementOfSeq DEF IsLine
<1>2. DOMAIN s.text = 1 .. Width /\ s.cursor \in Int /\ s.text \in [1 .. Width -> Characters]
    BY DEF IsScreen
<1> DEFINE w == [i \in 1 .. Width |-> IF i \in s.cursor + 1 .. s.cursor + Len(u) THEN u[i - s.cursor] ELSE s.text[i]]
<1>3. Written(s, u) = [text |-> w, cursor |-> s.cursor + Len(u)]
    BY <1>2 DEF Written
<1>4. w \in [1 .. Width -> Characters]
  <2> SUFFICES ASSUME NEW i \in 1 .. Width
               PROVE  (IF i \in s.cursor + 1 .. s.cursor + Len(u) THEN u[i - s.cursor] ELSE s.text[i]) \in Characters
      OBVIOUS
  <2>1. CASE i \in s.cursor + 1 .. s.cursor + Len(u)
    <3>1. i - s.cursor \in 1 .. Len(u)
        BY <1>1, <1>2, <2>1
    <3> QED BY <1>1, <2>1, <3>1
  <2>2. CASE ~(i \in s.cursor + 1 .. s.cursor + Len(u))
      BY <1>2, <2>2
  <2> QED BY <2>1, <2>2
<1>5. \A i \in 1 .. Width : i <= s.cursor \/ i > s.cursor + Len(u) => w[i] = s.text[i]
    BY <1>1, <1>2
<1>6. ASSUME NEW i \in 1 .. Len(u), s.cursor + i <= Width PROVE w[s.cursor + i] = u[i]
  <2>1. s.cursor + i \in 1 .. Width /\ s.cursor + i \in s.cursor + 1 .. s.cursor + Len(u) /\ (s.cursor + i) - s.cursor = i
      BY <1>1, <1>2, <1>6
  <2> QED BY <2>1
<1> HIDE DEF w
<1> QED BY <1>1, <1>2, <1>3, <1>4, <1>5, <1>6 DEF IsScreen

\* The cursor moves, and the text stays.
LEMMA MovedFacts ==
  ASSUME NEW s, IsScreen(s), NEW by \in Int
  PROVE  IsScreen(Moved(s, by)) /\ Moved(s, by).text = s.text /\ Moved(s, by).cursor = s.cursor + by
BY DEF IsScreen, Moved

\* A screen that shows a line is made to show another, which begins like it up to the
\* cursor, by writing the rest of it over what is left of the first.
LEMMA Redrawn ==
  ASSUME NEW s, NEW line, NEW r, NEW u, EditorAssumption, Shows(s, line), IsLine(line), IsLine(r), IsLine(u),
         s.cursor \in Nat, s.cursor <= Len(line), s.cursor <= Len(r), Len(r) <= Width,
         \A i \in 1 .. s.cursor : r[i] = line[i],
         \A i \in 1 .. Len(u) : u[i] = Shown(r, s.cursor + i),
         s.cursor + Len(u) >= Len(r), s.cursor + Len(u) >= Len(line)
  PROVE  Shows(Written(s, u), r)
<1>1. Len(u) \in Nat /\ Len(line) \in Nat /\ Len(r) \in Nat /\ Width \in Nat
    BY LenProperties DEF IsLine, EditorAssumption
<1>2. /\ IsScreen(Written(s, u))
      /\ \A i \in 1 .. Width : i <= s.cursor \/ i > s.cursor + Len(u) => Written(s, u).text[i] = s.text[i]
      /\ \A i \in 1 .. Len(u) : s.cursor + i <= Width => Written(s, u).text[s.cursor + i] = u[i]
    BY WrittenFacts DEF Shows
<1>3. ASSUME NEW i \in 1 .. Width PROVE Written(s, u).text[i] = Shown(r, i)
  <2>1. CASE i <= s.cursor
    <3>1. Written(s, u).text[i] = s.text[i] /\ s.text[i] = Shown(line, i) /\ r[i] = line[i]
        BY <1>2, <2>1 DEF Shows
    <3>2. Shown(line, i) = line[i] /\ Shown(r, i) = r[i]
        BY <1>1, <2>1 DEF Shown
    <3> QED BY <3>1, <3>2
  <2>2. CASE i > s.cursor /\ i <= s.cursor + Len(u)
    <3>1. i - s.cursor \in 1 .. Len(u) /\ s.cursor + (i - s.cursor) = i
        BY <1>1, <2>2
    <3> QED BY <1>2, <3>1
  <2>3. CASE i > s.cursor + Len(u)
    <3>1. Written(s, u).text[i] = s.text[i] /\ s.text[i] = Shown(line, i)
        BY <1>2, <2>3 DEF Shows
    <3>2. Shown(line, i) = Space /\ Shown(r, i) = Space
        BY <1>1, <2>3 DEF Shown
    <3> QED BY <3>1, <3>2
  <2> QED BY <1>1, <2>1, <2>2, <2>3
<1> QED BY <1>2, <1>3 DEF Shows

\* The cursor does not change what is shown.
LEMMA MovedShows ==
  ASSUME NEW s, NEW line, NEW p \in Int, Drawn(s, line, p), NEW by \in Int
  PROVE  Drawn(Moved(s, by), line, p + by)
BY MovedFacts DEF Shows, Drawn

-----------------------------------------------------------------------------
(* The invariant.                                                          *)

\* Behind a quote that was typed the end of the quote is not counted.
Fits(text) == Len(text) <= limit \/ (Len(text) = limit + 1 /\ Has(text, Quote))
TextInv ==
  /\ IsLine(buffer) /\ insert \in 0 .. Len(buffer) /\ Len(buffer) <= Width
  /\ limit \in Limits \cup {-1} /\ (limit # -1 => Fits(buffer)) /\ torn \in BOOLEAN

\* Of a torn line nothing is known.
ShownInv == ~torn => Drawn(screen, buffer, insert)

\* The lines kept are lines, and the last of them is the last that was entered.
IsText(list) == list \in Seq(Seq(Characters))
KeptInv ==
  /\ IsText(entered) /\ IsText(Kept(entered))
  /\ entered = << >> => Kept(entered) = << >>
  /\ entered # << >> => Kept(entered) # << >> /\ Kept(entered)[Len(Kept(entered))] = entered[Len(entered)]
AtMost(list) == IF Len(list) > HistoryDepth THEN HistoryDepth ELSE Len(list)
HistoryInv ==
  /\ IsText(history) /\ at \in 0 .. Len(history)
  /\ history = Suffix(Kept(entered), AtMost(Kept(entered)))

EditInv == TextInv /\ ShownInv /\ KeptInv /\ HistoryInv

-----------------------------------------------------------------------------
(* What the keys write.                                                    *)

\* The end of a line is written anew, and is not shorter than it was.
LEMMA Retyped ==
  ASSUME EditorAssumption, NEW s, NEW line, IsLine(line), NEW k \in 0 .. Len(line), NEW u, IsLine(u),
         Drawn(s, line, k), k + Len(u) >= Len(line), k + Len(u) <= Width
  PROVE  Drawn(Written(s, u), Before(line, k) \o u, k + Len(u))
<1>0. Shows(s, line) /\ s.cursor = k
    BY DEF Drawn
<1> DEFINE b == Before(line, k)
           r == b \o u
<1>1. IsLine(b) /\ Len(b) = k /\ \A i \in 1 .. k : b[i] = line[i]
    BY BeforeFacts DEF IsLine
<1> HIDE DEF b
<1>2. /\ IsLine(r) /\ Len(r) = k + Len(u) /\ Len(u) \in Nat
      /\ \A i \in 1 .. k : r[i] = b[i]
      /\ \A i \in 1 .. Len(u) : r[k + i] = u[i]
  <2>1. b \in Seq(Characters) /\ u \in Seq(Characters)
      BY <1>1 DEF IsLine
  <2>2. /\ b \o u \in Seq(Characters) /\ Len(b \o u) = Len(b) + Len(u) /\ Len(u) \in Nat
        /\ \A i \in 1 .. Len(b) : (b \o u)[i] = b[i]
        /\ \A i \in 1 .. Len(u) : (b \o u)[Len(b) + i] = u[i]
      BY <2>1, JoinFacts
  <2> QED BY <1>1, <2>2 DEF IsLine
<1> HIDE DEF r
<1>3. \A i \in 1 .. Len(u) : u[i] = Shown(r, s.cursor + i)
    BY <1>0, <1>2 DEF Shown
<1>4. Len(line) \in Nat
    BY LenProperties DEF IsLine
<1>5. Shows(Written(s, u), r)
  <2>1. s.cursor \in Nat /\ s.cursor <= Len(line) /\ s.cursor <= Len(r) /\ Len(r) <= Width
      BY <1>0, <1>2, <1>4
  <2>2. s.cursor + Len(u) >= Len(r) /\ s.cursor + Len(u) >= Len(line)
      BY <1>0, <1>2, <1>4
  <2>3. \A i \in 1 .. s.cursor : r[i] = line[i]
      BY <1>0, <1>1, <1>2
  <2> QED BY <1>0, <1>2, <1>3, <2>1, <2>2, <2>3, Redrawn
<1>6. Written(s, u).cursor = k + Len(u)
    BY <1>0, <1>4, WrittenFacts DEF Shows
<1> QED BY <1>5, <1>6 DEF r, b, Drawn

\* An empty line.
LEMMA EmptyLine == IsLine(<< >>) /\ Len(<< >>) = 0
BY DEF IsLine

\* A line on an empty screen.
LEMMA WrittenLine ==
  ASSUME EditorAssumption, NEW s, Drawn(s, << >>, 0), NEW u, IsLine(u), Len(u) <= Width
  PROVE  Drawn(Written(s, u), u, Len(u))
<1>1. Len(u) \in Nat
    BY LenProperties DEF IsLine
<1>2. Before(<< >>, 0) = << >>
    BY SubSeqEmpty DEF Before
<1>3. << >> \o u = u
    BY ConcatEmptySeq DEF IsLine
<1>4. 0 \in 0 .. Len(<< >>) /\ 0 + Len(u) >= Len(<< >>) /\ 0 + Len(u) <= Width
    BY <1>1, EmptyLine
<1>5. Drawn(Written(s, u), Before(<< >>, 0) \o u, 0 + Len(u))
    BY <1>4, EmptyLine, Retyped
<1>6. Before(<< >>, 0) \o u = u
    BY <1>2, <1>3
<1>7. 0 + Len(u) = Len(u)
    BY <1>1
<1> QED BY <1>5, <1>6, <1>7

\* The empty screen shows the empty line.
LEMMA BlankShows == EditorAssumption => Drawn(Blank, << >>, 0)
<1> SUFFICES ASSUME EditorAssumption PROVE Drawn(Blank, << >>, 0)
    OBVIOUS
<1>1. Width \in Nat
    BY DEF EditorAssumption
<1>2. Spaces(Width) \in [1 .. Width -> Characters] /\ \A i \in 1 .. Width : Spaces(Width)[i] = Space
    BY DEF Spaces, Characters
<1>3. \A i \in 1 .. Width : Shown(<< >>, i) = Space
    BY EmptyLine DEF Shown
<1> QED BY <1>1, <1>2, <1>3 DEF Blank, Shows, IsScreen, Drawn

\* removeEditLine leaves nothing of the line.
LEMMA RemovedShows ==
  ASSUME EditorAssumption, EditInv, Drawn(screen, buffer, insert)
  PROVE  Drawn(removeEditLine(screen), << >>, 0)
<1> DEFINE n == Len(buffer)
           s == AtStart(screen)
           w == Written(s, Spaces(n))
<1>1. IsLine(buffer) /\ n \in Nat /\ insert \in 0 .. n /\ n <= Width /\ Width \in Nat
    BY LenProperties DEF EditInv, TextInv, IsLine, EditorAssumption
<1>2. Shows(s, buffer) /\ s.cursor = 0
  <2>1. insert \in Int /\ -insert \in Int /\ insert + (-insert) = 0
      BY <1>1
  <2>2. Drawn(s, buffer, insert + (-insert))
      BY <2>1, MovedShows DEF AtStart
  <2> QED BY <2>1, <2>2 DEF Drawn
<1>3. IsLine(Spaces(n)) /\ Len(Spaces(n)) = n /\ \A i \in 1 .. n : Spaces(n)[i] = Space
    BY <1>1, SpacesFacts DEF IsLine
<1> HIDE DEF s
<1>4. \A i \in 1 .. Len(Spaces(n)) : Spaces(n)[i] = Shown(<< >>, s.cursor + i)
    BY <1>1, <1>2, <1>3, EmptyLine DEF Shown
<1>5. \A i \in 1 .. s.cursor : << >>[i] = buffer[i]
    BY <1>2
<1>6. Shows(w, << >>)
  <2>1. s.cursor \in Nat /\ s.cursor <= Len(buffer) /\ s.cursor <= Len(<< >>) /\ Len(<< >>) <= Width
      BY <1>1, <1>2, EmptyLine
  <2>2. s.cursor + Len(Spaces(n)) >= Len(<< >>) /\ s.cursor + Len(Spaces(n)) >= Len(buffer)
      BY <1>1, <1>2, <1>3, EmptyLine
  <2> QED BY <1>1, <1>2, <1>3, <1>4, <1>5, <2>1, <2>2, EmptyLine, Redrawn
<1>7. w.cursor = n
    BY <1>1, <1>2, <1>3, WrittenFacts DEF Shows
<1> HIDE DEF w
<1>8. Drawn(Moved(w, -n), << >>, 0)
  <2>1. n \in Int /\ -n \in Int /\ n + (-n) = 0 /\ Drawn(w, << >>, n)
      BY <1>1, <1>6, <1>7 DEF Drawn
  <2>2. Drawn(Moved(w, -n), << >>, n + (-n))
      BY <2>1, MovedShows
  <2> QED BY <2>1, <2>2
<1> QED BY <1>8 DEF removeEditLine, w, s

\* Another line in the place of this one.
LEMMA ReplacedShows ==
  ASSUME EditorAssumption, EditInv, Drawn(screen, buffer, insert), NEW text, IsLine(text), Len(text) <= Width
  PROVE  Drawn(Written(removeEditLine(screen), text), text, Len(text))
BY RemovedShows, WrittenLine

-----------------------------------------------------------------------------
(* The keys.                                                               *)

\* A key that changes the line, whatever it tears.
LEMMA LineKeeps ==
  ASSUME EditorAssumption, EditInv, Editing, NEW text, NEW p, buffer' = text, insert' = p,
         UNCHANGED <<history, limit, entered>>, at' \in 0 .. Len(history), torn' \in BOOLEAN,
         IsLine(text), p \in 0 .. Len(text), Fits(text), ~torn' => Drawn(screen', text, p)
  PROVE  EditInv'
<1>1. limit \in 0 .. Width - 1 /\ limit \in Limits /\ Width \in Nat /\ Len(text) \in Nat /\ Len(text) <= limit + 1
    BY LenProperties DEF EditInv, TextInv, Editing, EditorAssumption, IsLine, Fits
<1>2. TextInv'
    BY <1>1 DEF TextInv, IsLine, Fits
<1>3. ShownInv'
    BY DEF ShownInv
<1>4. KeptInv'
    BY DEF KeptInv, EditInv
<1>5. HistoryInv'
    BY DEF HistoryInv, EditInv
<1> QED BY <1>2, <1>3, <1>4, <1>5 DEF EditInv

\* A key that changes the line and draws it again.
LEMMA BecomesKeeps ==
  ASSUME EditorAssumption, EditInv, Editing, NEW text, NEW p, NEW s, Becomes(text, p, s),
         IsLine(text), p \in 0 .. Len(text), Fits(text), Drawn(screen, buffer, insert) => Drawn(s, text, p),
         at' \in 0 .. Len(history)
  PROVE  EditInv'
<1>1. /\ buffer' = text /\ insert' = p /\ screen' = s /\ torn' = torn
      /\ UNCHANGED <<history, limit, entered>>
    BY DEF Becomes
<1>2. torn \in BOOLEAN /\ (~torn => Drawn(screen, buffer, insert))
    BY DEF EditInv, TextInv, ShownInv
<1>3. torn' \in BOOLEAN /\ (~torn' => Drawn(screen', text, p))
    BY <1>1, <1>2
<1> QED BY <1>1, <1>3, LineKeeps

\* What is known of the line while it is edited.
LEMMA EditFacts ==
  ASSUME EditorAssumption, EditInv, Editing
  PROVE  /\ IsLine(buffer) /\ Len(buffer) \in Nat /\ insert \in 0 .. Len(buffer) /\ Fits(buffer)
         /\ limit \in Nat /\ limit + 1 <= Width /\ Width \in Nat /\ Len(buffer) <= limit + 1
         /\ at \in 0 .. Len(history) /\ Len(history) \in Nat
<1>1. /\ IsLine(buffer) /\ insert \in 0 .. Len(buffer) /\ Fits(buffer) /\ limit \in 0 .. Width - 1
      /\ Width \in Nat /\ IsText(history) /\ at \in 0 .. Len(history)
    BY DEF EditInv, TextInv, HistoryInv, Editing, EditorAssumption
<1>2. Len(buffer) \in Nat /\ Len(history) \in Nat
    BY <1>1, LenProperties DEF IsLine, IsText
<1>3. Len(buffer) <= limit + 1
    BY <1>1, <1>2 DEF Fits
<1> QED BY <1>1, <1>2, <1>3

\* A character typed into the line (insertCharacter) redraws the rest of it behind it.
LEMMA insertCharacterKeeps == ASSUME EditorAssumption, EditInv, insertCharacter PROVE EditInv'
<1> DEFINE rest == After(buffer, insert)
           b == Before(buffer, insert)
<1>1. PICK c \in Keys :
        /\ Len(buffer) < limit
        /\ Becomes(b \o <<c>> \o rest, insert + 1, Moved(Written(screen, <<c>> \o rest), -Len(rest)))
    BY DEF insertCharacter
<1>2. Editing /\ UNCHANGED at
    BY DEF insertCharacter
<1>3. c \in Characters
    BY DEF Characters
<1> DEFINE u == <<c>> \o rest
           r == b \o u
           w == Written(screen, u)
<1>e. /\ IsLine(buffer) /\ Len(buffer) \in Nat /\ insert \in 0 .. Len(buffer) /\ limit <= Width
      /\ limit \in Nat /\ Width \in Nat /\ at \in 0 .. Len(history)
    BY <1>2, EditFacts
<1>4. IsLine(rest) /\ Len(rest) = Len(buffer) - insert
    BY <1>e, AfterFacts DEF IsLine
<1>5. IsLine(b) /\ Len(b) = insert
    BY <1>e, BeforeFacts DEF IsLine
<1>6. IsLine(<<c>>) /\ Len(<<c>>) = 1
    BY <1>3, OneFacts DEF IsLine
<1> HIDE DEF rest
<1>7. IsLine(u) /\ Len(u) = 1 + Len(rest)
  <2> HIDE DEF u
  <2>1. IsLine(<<c>> \o rest) /\ Len(<<c>> \o rest) = Len(<<c>>) + Len(rest)
      BY <1>4, <1>6, JoinLines
  <2>2. u = <<c>> \o rest
      BY DEF u
  <2> QED BY <1>6, <2>1, <2>2
<1>8. r = b \o <<c>> \o rest
  <2>1. IsLine(b) /\ IsLine(<<c>>) /\ IsLine(rest)
      BY <1>4, <1>5, <1>6
  <2>2. b \o (<<c>> \o rest) = (b \o <<c>>) \o rest
    <3> HIDE DEF u, w, b
    <3> QED BY <2>1, JoinThree, SMTT(30)
  <2> QED BY <2>2
<1>9. IsLine(r) /\ Len(r) = Len(buffer) + 1
  <2> HIDE DEF u, b
  <2>1. IsLine(r) /\ Len(r) = Len(b) + Len(u)
      BY <1>5, <1>7, JoinLines
  <2> QED BY <1>4, <1>5, <1>7, <1>e, <2>1
<1>10. ASSUME Drawn(screen, buffer, insert) PROVE Drawn(Moved(w, -Len(rest)), r, insert + 1)
  <2>1. insert + Len(u) = Len(buffer) + 1 /\ insert + Len(u) >= Len(buffer) /\ insert + Len(u) <= Width
      BY <1>1, <1>4, <1>7, <1>e
  <2> HIDE DEF u
  <2>2. Drawn(w, r, insert + Len(u))
      BY <1>7, <1>10, <1>e, <2>1, Retyped
  <2>3. insert + Len(u) \in Int /\ -Len(rest) \in Int /\ insert + Len(u) + (-Len(rest)) = insert + 1
      BY <1>4, <1>7, <1>e
  <2> HIDE DEF w, r
  <2>4. Drawn(Moved(w, -Len(rest)), r, insert + Len(u) + (-Len(rest)))
      BY <2>2, <2>3, MovedShows
  <2> QED BY <2>3, <2>4
<1> HIDE DEF r, u, w
<1>11. Becomes(r, insert + 1, Moved(w, -Len(rest)))
    BY <1>1, <1>8 DEF w, u
<1>12. insert + 1 \in 0 .. Len(r) /\ Fits(r)
    BY <1>1, <1>9, <1>e DEF Fits
<1> QED BY <1>2, <1>9, <1>10, <1>11, <1>12, <1>e, BecomesKeeps

\* A character deleted (deleteCharacter) redraws the rest and wipes the last place.
LEMMA deleteCharacterKeeps == ASSUME EditorAssumption, EditInv, deleteCharacter PROVE EditInv'
<1> DEFINE a == After(buffer, insert)
           u == a \o <<Space>>
           b == Before(buffer, insert - 1)
           r == b \o a
           s == Moved(screen, -1)
           w == Written(s, u)
<1>1. Editing /\ insert > 0 /\ UNCHANGED at /\ Becomes(r, insert - 1, Moved(w, -Len(u)))
    BY DEF deleteCharacter
<1>e. /\ IsLine(buffer) /\ Len(buffer) \in Nat /\ insert \in 0 .. Len(buffer) /\ limit <= Width
      /\ limit \in Nat /\ Width \in Nat /\ at \in 0 .. Len(history) /\ Len(buffer) <= limit + 1
    BY <1>1, EditFacts
<1>2. IsLine(a) /\ Len(a) = Len(buffer) - insert
    BY <1>e, AfterFacts DEF IsLine
<1>3. IsLine(b) /\ Len(b) = insert - 1 /\ \A i \in 1 .. insert - 1 : b[i] = buffer[i]
  <2>1. insert - 1 \in 0 .. Len(buffer)
      BY <1>1, <1>e
  <2> QED BY <1>e, <2>1, BeforeFacts DEF IsLine
<1> HIDE DEF a, b
<1>4. /\ IsLine(u) /\ Len(u) = Len(a) + 1 /\ \A i \in 1 .. Len(a) : u[i] = a[i]
      /\ u[Len(a) + 1] = Space
  <2>1. Space \in Characters
      BY DEF Characters
  <2>2. <<Space>> \in Seq(Characters) /\ Len(<<Space>>) = 1 /\ <<Space>>[1] = Space
      BY <2>1, OneFacts
  <2> HIDE DEF u
  <2>3. /\ u \in Seq(Characters) /\ Len(u) = Len(a) + Len(<<Space>>)
        /\ \A i \in 1 .. Len(a) : u[i] = a[i]
        /\ \A i \in 1 .. Len(<<Space>>) : u[Len(a) + i] = <<Space>>[i]
      BY <1>2, <2>2, JoinFacts DEF IsLine, u
  <2> QED BY <2>2, <2>3 DEF IsLine
<1>5. /\ IsLine(r) /\ Len(r) = Len(buffer) - 1
      /\ \A i \in 1 .. insert - 1 : r[i] = buffer[i]
      /\ \A i \in 1 .. Len(a) : r[insert - 1 + i] = a[i]
  <2>0. b \in Seq(Characters) /\ a \in Seq(Characters)
      BY <1>2, <1>3 DEF IsLine
  <2> HIDE DEF r
  <2>1. /\ r \in Seq(Characters) /\ Len(r) = Len(b) + Len(a)
        /\ \A i \in 1 .. Len(b) : r[i] = b[i]
        /\ \A i \in 1 .. Len(a) : r[Len(b) + i] = a[i]
      BY <2>0, JoinFacts DEF r
  <2> QED BY <1>2, <1>3, <1>e, <2>1 DEF IsLine
<1> HIDE DEF u, r
<1>6. ASSUME Drawn(screen, buffer, insert) PROVE Drawn(Moved(w, -Len(u)), r, insert - 1)
  <2>1. Shows(s, buffer) /\ s.cursor = insert - 1
    <3>1. insert \in Int /\ -1 \in Int /\ insert + (-1) = insert - 1
        BY <1>e
    <3>2. Drawn(s, buffer, insert + (-1))
        BY <1>6, <3>1, MovedShows
    <3> QED BY <3>1, <3>2 DEF Drawn
  <2> HIDE DEF s
  <2>2. ASSUME NEW i \in 1 .. Len(u) PROVE u[i] = Shown(r, s.cursor + i)
    <3>1. CASE i <= Len(a)
      <4>1. i \in 1 .. Len(a) /\ s.cursor + i <= Len(r) /\ s.cursor + i = insert - 1 + i
          BY <1>2, <1>4, <1>5, <1>e, <2>1, <3>1
      <4> QED BY <1>4, <1>5, <4>1 DEF Shown
    <3>2. CASE i = Len(a) + 1
      <4>1. ~(s.cursor + i <= Len(r))
          BY <1>2, <1>5, <1>e, <2>1, <3>2
      <4> QED BY <1>4, <3>2, <4>1 DEF Shown
    <3> QED BY <1>2, <1>4, <1>e, <3>1, <3>2
  <2>3. /\ s.cursor \in Nat /\ s.cursor <= Len(buffer) /\ s.cursor <= Len(r) /\ Len(r) <= Width
        /\ s.cursor + Len(u) >= Len(r) /\ s.cursor + Len(u) >= Len(buffer) /\ s.cursor + Len(u) = Len(buffer)
    <3>1. insert >= 1 /\ insert <= Len(buffer) /\ Len(buffer) <= limit + 1 /\ Len(r) = Len(buffer) - 1
        BY <1>1, <1>5, <1>e
    <3> QED BY <1>2, <1>4, <1>e, <2>1, <3>1
  <2>4. \A i \in 1 .. s.cursor : r[i] = buffer[i]
      BY <1>5, <2>1
  <2>5. Shows(w, r)
      BY <1>4, <1>5, <1>e, <2>1, <2>2, <2>3, <2>4, Redrawn
  <2>6. w.cursor = Len(buffer)
      BY <1>4, <2>1, <2>3, WrittenFacts DEF Shows
  <2> HIDE DEF w
  <2>7. Drawn(w, r, Len(buffer)) /\ Len(buffer) \in Int /\ -Len(u) \in Int /\ Len(buffer) + (-Len(u)) = insert - 1
      BY <1>2, <1>4, <1>e, <2>5, <2>6 DEF Drawn
  <2>8. Drawn(Moved(w, -Len(u)), r, Len(buffer) + (-Len(u)))
      BY <2>7, MovedShows
  <2> QED BY <2>7, <2>8
<1> HIDE DEF s, w
<1>7. insert - 1 \in 0 .. Len(r) /\ Fits(r)
    BY <1>1, <1>5, <1>e DEF Fits
<1>8. Becomes(r, insert - 1, Moved(w, -Len(u)))
    BY <1>1
<1> QED BY <1>1, <1>5, <1>6, <1>7, <1>8, <1>e, BecomesKeeps

\* Keys that move the cursor.
LEMMA GoesKeeps ==
  ASSUME EditorAssumption, EditInv, Editing, NEW p \in 0 .. Len(buffer), Goes(p)
  PROVE  EditInv'
<1>e. /\ IsLine(buffer) /\ Len(buffer) \in Nat /\ insert \in 0 .. Len(buffer) /\ Fits(buffer)
      /\ at \in 0 .. Len(history)
    BY EditFacts
<1>1. ASSUME Drawn(screen, buffer, insert) PROVE Drawn(Moved(screen, p - insert), buffer, p)
  <2>1. insert \in Int /\ p - insert \in Int /\ insert + (p - insert) = p
      BY <1>e
  <2>2. Drawn(Moved(screen, p - insert), buffer, insert + (p - insert))
      BY <1>1, <2>1, MovedShows
  <2> QED BY <2>1, <2>2
<1>2. Becomes(buffer, p, Moved(screen, p - insert)) /\ UNCHANGED at
    BY DEF Goes
<1> QED BY <1>e, <1>1, <1>2, BecomesKeeps

\* The keys that move the cursor leave the line, and the screen moves with them.
LEMMA CursorKeeps ==
  ASSUME EditorAssumption, EditInv, Left \/ Right \/ Home \/ End \/ Up \/ Down
  PROVE  EditInv'
<1>1. Editing
    BY DEF Left, Right, Home, End, Up, Down
<1>e. Len(buffer) \in Nat /\ insert \in 0 .. Len(buffer) /\ Columns \in Nat
    BY <1>1, EditFacts DEF EditorAssumption
<1>2. \E p \in 0 .. Len(buffer) : Goes(p)
  <2>1. CASE Left
      BY <1>e, <2>1 DEF Left
  <2>2. CASE Right
      BY <1>e, <2>2 DEF Right
  <2>3. CASE Home
      BY <1>e, <2>3 DEF Home
  <2>4. CASE End
      BY <1>e, <2>4 DEF End
  <2>5. CASE Up
      BY <1>e, <2>5 DEF Up
  <2>6. CASE Down
      BY <1>e, <2>6 DEF Down
  <2> QED BY <2>1, <2>2, <2>3, <2>4, <2>5, <2>6
<1> QED BY <1>1, <1>2, GoesKeeps

-----------------------------------------------------------------------------
(* The history and what is entered.                                        *)

\* The history has the length it may have, and ends with what was kept last.
LEMMA HistoryFacts ==
  ASSUME EditorAssumption, EditInv
  PROVE  LET K == Kept(entered)
             n == AtMost(K)
         IN /\ Len(K) \in Nat /\ n \in 0 .. Len(K) /\ n <= HistoryDepth
            /\ Len(history) = n
            /\ \A i \in 1 .. n : history[i] = K[Len(K) - n + i]
            /\ (n < HistoryDepth => n = Len(K))
<1> DEFINE K == Kept(entered)
           n == AtMost(K)
<1>1. K \in Seq(Seq(Characters)) /\ history = Suffix(K, n)
    BY DEF EditInv, KeptInv, HistoryInv, IsText
<1> HIDE DEF K
<1>2. Len(K) \in Nat
    BY <1>1, LenProperties
<1>3. n \in 0 .. Len(K) /\ n <= HistoryDepth /\ (n < HistoryDepth => n = Len(K))
    BY <1>2 DEF AtMost, EditorAssumption
<1> HIDE DEF n
<1>4. Len(K) - n \in 0 .. Len(K)
    BY <1>2, <1>3
<1>5. history = After(K, Len(K) - n)
    BY <1>1 DEF Suffix
<1>6. Len(history) = Len(K) - (Len(K) - n) /\ \A i \in 1 .. Len(K) - (Len(K) - n) : history[i] = K[Len(K) - n + i]
    BY <1>1, <1>4, <1>5, AfterFacts
<1>7. Len(K) - (Len(K) - n) = n
    BY <1>2, <1>3
<1>8. Len(history) = n /\ \A i \in 1 .. n : history[i] = K[Len(K) - n + i]
    BY <1>6, <1>7
<1> QED BY <1>2, <1>3, <1>8 DEF K, n

\* The history is a suffix if its elements are.
LEMMA IsSuffix ==
  ASSUME NEW S, NEW K \in Seq(S), NEW n \in 0 .. Len(K), NEW h \in Seq(S), Len(h) = n,
         \A i \in 1 .. n : h[i] = K[Len(K) - n + i]
  PROVE  h = Suffix(K, n)
<1>1. Len(K) \in Nat
    BY LenProperties
<1>2. Len(K) - n \in 0 .. Len(K) /\ Len(K) - (Len(K) - n) = n
    BY <1>1
<1> DEFINE a == After(K, Len(K) - n)
<1>3. /\ a \in Seq(S) /\ Len(a) = Len(K) - (Len(K) - n)
      /\ \A i \in 1 .. Len(K) - (Len(K) - n) : a[i] = K[Len(K) - n + i]
    BY <1>2, AfterFacts
<1> HIDE DEF a
<1>4. h = a
    BY <1>2, <1>3, SeqEqual
<1> QED BY <1>4 DEF a, Suffix

\* editHistoryPush.
LEMMA PushedKeeps ==
  ASSUME EditorAssumption, EditInv, NEW line, IsLine(line), history' = Pushed(line), entered' = Entered(line)
  PROVE  /\ KeptInv' /\ IsText(history') /\ Len(history') >= Len(history)
         /\ history' = Suffix(Kept(entered)', AtMost(Kept(entered)'))
<1> DEFINE K == Kept(entered)
           L == Kept(entered')
           n == AtMost(K)
           S == Seq(Characters)
<1>1. /\ entered \in Seq(S) /\ K \in Seq(S) /\ history \in Seq(S) /\ line \in S
      /\ (entered = << >> => K = << >>)
      /\ (entered # << >> => K # << >> /\ K[Len(K)] = entered[Len(entered)])
      /\ history = Suffix(K, n)
    BY DEF EditInv, KeptInv, HistoryInv, IsText, IsLine
<1>2. /\ Len(K) \in Nat /\ n \in 0 .. Len(K) /\ n <= HistoryDepth /\ Len(history) = n
      /\ \A i \in 1 .. n : history[i] = K[Len(K) - n + i]
      /\ (n < HistoryDepth => n = Len(K))
    BY HistoryFacts
<1>3. HistoryDepth \in Nat /\ HistoryDepth >= 1
    BY DEF EditorAssumption
<1>4. CASE line = << >>
  <2>1. history' = history /\ entered' = entered
      BY <1>4 DEF Pushed, Entered
  <2> QED BY <2>1, <1>2 DEF EditInv, KeptInv, HistoryInv
<1>5. CASE line # << >>
  <2>1. entered' = Append(entered, line)
      BY <1>5 DEF Entered
  <2>2. L = K \o (IF entered # << >> /\ entered[Len(entered)] = line THEN << >> ELSE <<line>>)
    <3>1. entered \in Seq(S) /\ line \in S
        BY <1>1
    <3> HIDE DEF S
    <3>2. Kept(Append(entered, line)) =
            Kept(entered) \o (IF entered # << >> /\ entered[Len(entered)] = line THEN << >> ELSE <<line>>)
        BY <3>1, KeptAppend
    <3> QED BY <2>1, <3>2
  <2>3. /\ entered' \in Seq(S) /\ entered' # << >> /\ Len(entered') = Len(entered) + 1
        /\ entered'[Len(entered) + 1] = line
    <3>1. entered \in Seq(S) /\ line \in S
        BY <1>1
    <3> HIDE DEF S, K, L, n
    <3>2. /\ Append(entered, line) \in Seq(S) /\ Append(entered, line) # << >>
          /\ Len(Append(entered, line)) = Len(entered) + 1
          /\ Append(entered, line)[Len(entered) + 1] = line
        BY <3>1, AppendProperties
    <3> QED BY <2>1, <3>2
  <2>4. (history # << >> <=> entered # << >>) /\ (history # << >> => history[Len(history)] = entered[Len(entered)])
    <3>1. history # << >> <=> Len(history) # 0
        BY <1>1, EmptySeq
    <3>2. K # << >> <=> Len(K) # 0
        BY <1>1, EmptySeq
    <3>3. Len(history) # 0 <=> Len(K) # 0
        BY <1>2, <1>3
    <3>4. ASSUME Len(history) # 0 PROVE history[Len(history)] = K[Len(K)]
      <4>1. n \in 1 .. n /\ Len(K) - n + n = Len(K)
          BY <1>2, <3>4
      <4> QED BY <1>2, <4>1
    <3> QED BY <1>1, <3>1, <3>2, <3>3, <3>4
  <2>5. CASE entered # << >> /\ entered[Len(entered)] = line
    <3>1. L = K
        BY <1>1, <2>2, <2>5, ConcatEmptySeq
    <3>2. history' = history
        BY <1>5, <2>4, <2>5 DEF Pushed
    <3>3. KeptInv'
        BY <1>1, <2>3, <2>5, <3>1 DEF KeptInv, IsText
    <3> QED BY <1>1, <1>2, <3>1, <3>2, <3>3 DEF IsText
  <2>6. CASE ~(entered # << >> /\ entered[Len(entered)] = line)
    <3> DEFINE h == IF Len(history) = HistoryDepth THEN Append(Tail(history), line) ELSE Append(history, line)
               m == AtMost(L)
    <3>1. L = K \o <<line>>
        BY <2>2, <2>6
    <3>2. <<line>> \in Seq(S) /\ Len(<<line>>) = 1 /\ <<line>>[1] = line
        BY <1>1, OneFacts
    <3> HIDE DEF K, L
    <3>3. /\ L \in Seq(S) /\ Len(L) = Len(K) + 1
          /\ \A i \in 1 .. Len(K) : L[i] = K[i]
          /\ L[Len(K) + 1] = line
      <4>1. /\ L \in Seq(S) /\ Len(L) = Len(K) + Len(<<line>>)
            /\ \A i \in 1 .. Len(K) : L[i] = K[i]
            /\ \A i \in 1 .. Len(<<line>>) : L[Len(K) + i] = <<line>>[i]
          BY <1>1, <3>1, <3>2, JoinFacts
      <4> QED BY <3>2, <4>1
    <3>4. history' = h
        BY <1>5, <2>4, <2>6 DEF Pushed
    <3>5. L # << >> /\ L[Len(L)] = line
        BY <1>2, <3>3, EmptySeq
    <3>6. KeptInv'
        BY <2>3, <3>3, <3>5 DEF KeptInv, IsText, L
    <3>7. m \in 0 .. Len(L) /\ m = IF Len(K) + 1 > HistoryDepth THEN HistoryDepth ELSE Len(K) + 1
        BY <1>2, <1>3, <3>3 DEF AtMost
    <3> HIDE DEF m, n
    <3>8. CASE n = HistoryDepth
      <4>1. /\ Tail(history) \in Seq(S) /\ Len(Tail(history)) = n - 1
            /\ \A i \in 1 .. n - 1 : Tail(history)[i] = history[i + 1]
        <5>1. history # << >>
            BY <1>2, <1>3, <3>8, EmptySeq
        <5> QED BY <1>1, <1>2, <5>1, HeadTailProperties
      <4>2. h = Append(Tail(history), line)
          BY <1>2, <3>8
      <4>3. /\ h \in Seq(S) /\ Len(h) = n - 1 + 1
            /\ \A i \in 1 .. n - 1 : h[i] = Tail(history)[i]
            /\ h[n - 1 + 1] = line
          BY <1>1, <4>1, <4>2, AppendProperties
      <4>4. m = n
          BY <1>2, <1>3, <3>7, <3>8
      <4> HIDE DEF h
      <4>5. ASSUME NEW i \in 1 .. m PROVE h[i] = L[Len(L) - m + i]
        <5>1. CASE i = m
          <6>1. h[i] = line /\ Len(L) - m + i = Len(K) + 1
              BY <1>2, <1>3, <3>3, <3>8, <4>3, <4>4, <5>1
          <6> QED BY <3>3, <6>1
        <5>2. CASE i \in 1 .. n - 1
          <6>1. h[i] = history[i + 1]
              BY <4>1, <4>3, <5>2
          <6>2. i + 1 \in 1 .. n
              BY <1>2, <5>2
          <6>3. history[i + 1] = K[Len(K) - n + (i + 1)]
              BY <1>2, <6>2
          <6>4. Len(K) - n + (i + 1) = Len(L) - m + i /\ Len(L) - m + i \in 1 .. Len(K)
              BY <1>2, <3>3, <4>4, <5>2
          <6> QED BY <3>3, <6>1, <6>3, <6>4
        <5> QED BY <1>2, <4>4, <5>1, <5>2
      <4>6. Len(h) = m /\ m >= Len(history)
          BY <1>2, <1>3, <4>3, <4>4
      <4>7. h = Suffix(L, m)
        <5>1. L \in Seq(S) /\ h \in Seq(S) /\ m \in 0 .. Len(L) /\ Len(h) = m
            BY <3>3, <3>7, <4>3, <4>6
        <5>2. \A i \in 1 .. m : h[i] = L[Len(L) - m + i]
            BY <4>5
        <5> HIDE DEF S
        <5> QED BY <5>1, <5>2, IsSuffix
      <4> QED BY <3>4, <3>6, <4>3, <4>6, <4>7 DEF IsText, L, m
    <3>9. CASE n # HistoryDepth
      <4>1. n = Len(K) /\ n < HistoryDepth /\ m = n + 1
          BY <1>2, <1>3, <3>7, <3>9
      <4>2. h = Append(history, line)
          BY <1>2, <3>9
      <4>3. /\ h \in Seq(S) /\ Len(h) = n + 1
            /\ \A i \in 1 .. n : h[i] = history[i]
            /\ h[n + 1] = line
        <5> HIDE DEF h
        <5>1. /\ h \in Seq(S) /\ Len(h) = Len(history) + 1
              /\ \A i \in 1 .. Len(history) : h[i] = history[i]
              /\ h[Len(history) + 1] = line
            BY <1>1, <4>2, AppendProperties
        <5> QED BY <1>2, <5>1
      <4> HIDE DEF h
      <4>4. ASSUME NEW i \in 1 .. m PROVE h[i] = L[Len(L) - m + i]
        <5>1. Len(L) - m + i = i
            BY <1>2, <3>3, <4>1
        <5>2. CASE i = n + 1
            BY <3>3, <4>1, <4>3, <5>1, <5>2
        <5>3. CASE i \in 1 .. n
          <6>1. h[i] = K[Len(K) - n + i] /\ Len(K) - n + i = i
              BY <1>2, <4>1, <4>3, <5>3
          <6> QED BY <3>3, <4>1, <5>1, <5>3, <6>1
        <5> QED BY <1>2, <4>1, <5>2, <5>3
      <4>5. Len(h) = m /\ m >= Len(history)
          BY <1>2, <4>1, <4>3
      <4>6. h = Suffix(L, m)
        <5>1. L \in Seq(S) /\ h \in Seq(S) /\ m \in 0 .. Len(L) /\ Len(h) = m
            BY <3>3, <3>7, <4>3, <4>5
        <5>2. \A i \in 1 .. m : h[i] = L[Len(L) - m + i]
            BY <4>4
        <5> HIDE DEF S
        <5> QED BY <5>1, <5>2, IsSuffix
      <4> QED BY <3>4, <3>6, <4>3, <4>5, <4>6 DEF IsText, L, m
    <3> QED BY <3>8, <3>9
  <2> QED BY <2>5, <2>6
<1> QED BY <1>4, <1>5

\* Leaving with the line entered or not.
LEMMA LeavingKeeps ==
  ASSUME EditorAssumption, EditInv, Leaving,
         \/ UNCHANGED <<history, entered>>
         \/ \E line : IsLine(line) /\ history' = Pushed(line) /\ entered' = Entered(line)
  PROVE  EditInv'
<1>1. TextInv'
  <2>1. limit' = -1 /\ buffer' = << >> /\ insert' = 0 /\ torn' = FALSE /\ Width \in Nat
      BY DEF Leaving, EditorAssumption
  <2>2. limit' \in Limits \cup {-1} /\ ~(limit' # -1) /\ torn' \in BOOLEAN
      BY <2>1
  <2>3. IsLine(buffer') /\ insert' \in 0 .. Len(buffer') /\ Len(buffer') <= Width
      BY <2>1, EmptyLine
  <2>4. IsLine(buffer)'
      BY <2>3 DEF IsLine
  <2> QED BY <2>2, <2>3, <2>4 DEF TextInv
<1>2. ShownInv'
    BY BlankShows DEF Leaving, ShownInv
<1>3. KeptInv' /\ HistoryInv'
  <2>0. at' = at /\ at \in 0 .. Len(history)
      BY DEF Leaving, EditInv, HistoryInv
  <2>1. CASE UNCHANGED <<history, entered>>
      BY <2>0, <2>1 DEF EditInv, KeptInv, HistoryInv
  <2>2. CASE \E line : IsLine(line) /\ history' = Pushed(line) /\ entered' = Entered(line)
    <3>1. /\ KeptInv' /\ IsText(history') /\ Len(history') >= Len(history)
          /\ history' = Suffix(Kept(entered)', AtMost(Kept(entered)'))
        BY <2>2, PushedKeeps
    <3>2. Len(history) \in Nat /\ Len(history') \in Nat
        BY <3>1, LenProperties DEF EditInv, HistoryInv, IsText
    <3> QED BY <2>0, <3>1, <3>2 DEF HistoryInv
  <2> QED BY <2>1, <2>2
<1> QED BY <1>1, <1>2, <1>3 DEF EditInv

\* Enter enters the line in the history; Escape does not.
LEMMA EndsKeeps == ASSUME EditorAssumption, EditInv, Enter \/ Escape PROVE EditInv'
<1>1. IsLine(buffer) /\ Leaving
    BY DEF EditInv, TextInv, Enter, Escape
<1>2. \/ UNCHANGED <<history, entered>>
      \/ \E line : IsLine(line) /\ history' = Pushed(line) /\ entered' = Entered(line)
    BY <1>1 DEF Enter, Escape
<1> QED BY <1>1, <1>2, LeavingKeeps

\* A text cut to what the buffer holds.
LEMMA CutFacts ==
  ASSUME NEW text, IsLine(text), NEW n \in Nat
  PROVE  LET m == IF Len(text) > n THEN n ELSE Len(text)
         IN IsLine(Before(text, m)) /\ Len(Before(text, m)) = m /\ m \in Nat /\ m <= n
<1>1. Len(text) \in Nat
    BY LenProperties DEF IsLine
<1> DEFINE m == IF Len(text) > n THEN n ELSE Len(text)
<1>2. m \in 0 .. Len(text) /\ m <= n
    BY <1>1
<1> HIDE DEF m
<1>3. IsLine(Before(text, m)) /\ Len(Before(text, m)) = m
    BY <1>2, BeforeFacts DEF IsLine
<1> QED BY <1>2, <1>3 DEF m

\* A line of the history, cut to what the buffer holds, replaces the line (editHistorySet).
LEMMA editHistorySetKeeps ==
  ASSUME EditorAssumption, EditInv, Editing, NEW index \in 0 .. Len(history), index < Len(history), editHistorySet(index)
  PROVE  EditInv'
<1> DEFINE line == history[index + 1]
           m == IF Len(line) > limit THEN limit ELSE Len(line)
           text == Before(line, m)
<1>e. limit \in Nat /\ limit <= Width /\ Len(history) \in Nat
  <2>1. limit \in Nat /\ limit + 1 <= Width /\ Width \in Nat /\ Len(history) \in Nat
      BY EditFacts
  <2> QED BY <2>1
<1>1. IsLine(line)
  <2>1. history \in Seq(Seq(Characters)) /\ index + 1 \in 1 .. Len(history)
      BY <1>e DEF EditInv, HistoryInv, IsText
  <2> QED BY <2>1, ElementOfSeq DEF IsLine
<1>2. Becomes(text, Len(text), Written(removeEditLine(screen), text)) /\ at' = index
    BY DEF editHistorySet
<1> HIDE DEF line
<1>3. IsLine(text) /\ Len(text) = m /\ m \in Nat /\ m <= limit
    BY <1>1, <1>e, CutFacts
<1> HIDE DEF text, m
<1>4. Len(text) <= Width /\ Fits(text) /\ Len(text) \in 0 .. Len(text)
    BY <1>3, <1>e DEF EditorAssumption, Fits
<1>5. Drawn(screen, buffer, insert) => Drawn(Written(removeEditLine(screen), text), text, Len(text))
    BY <1>3, <1>4, ReplacedShows
<1> QED BY <1>2, <1>3, <1>4, <1>5, BecomesKeeps

\* The keys that walk in the history.
LEMMA HistoryKeysKeep == ASSUME EditorAssumption, EditInv, editHistoryUp \/ editHistoryDown PROVE EditInv'
<1>1. Editing
    BY DEF editHistoryUp, editHistoryDown
<1>e. /\ limit \in Nat /\ Len(history) \in Nat /\ at \in 0 .. Len(history)
      /\ (history = << >> <=> Len(history) = 0)
    BY <1>1, EditFacts, EmptySeq DEF EditInv, HistoryInv, IsText
<1>2. CASE editHistoryUp
  <2>1. PICK index : index = (IF at > 0 THEN at - 1 ELSE 0) /\ editHistorySet(index)
      BY <1>2 DEF editHistoryUp
  <2>2. index \in 0 .. Len(history) /\ index < Len(history)
      BY <1>2, <1>e, <2>1 DEF editHistoryUp
  <2> QED BY <1>1, <2>1, <2>2, editHistorySetKeeps
<1>3. CASE editHistoryDown
  <2>1. CASE at = Len(history) - 1
    <3>1. Becomes(<< >>, 0, removeEditLine(screen)) /\ at' = Len(history)
        BY <1>3, <2>1 DEF editHistoryDown
    <3>2. IsLine(<< >>) /\ 0 \in 0 .. Len(<< >>) /\ Fits(<< >>) /\ Len(history) \in 0 .. Len(history)
        BY <1>e, EmptyLine DEF Fits
    <3> QED BY <1>1, <3>1, <3>2, RemovedShows, BecomesKeeps
  <2>2. CASE at # Len(history) - 1
    <3>1. editHistorySet(at + 1) /\ at + 1 \in 0 .. Len(history) /\ at + 1 < Len(history)
        BY <1>3, <1>e, <2>2 DEF editHistoryDown
    <3> QED BY <1>1, <3>1, editHistorySetKeeps
  <2> QED BY <2>1, <2>2
<1> QED BY <1>2, <1>3

\* A hotkey replaces the line by its text, and may enter it (handleHotkey).
LEMMA handleHotkeyKeeps == ASSUME EditorAssumption, EditInv, handleHotkey PROVE EditInv'
<1>1. Editing
    BY DEF handleHotkey
<1>e. limit \in Nat /\ limit + 1 <= Width /\ Width \in Nat /\ at \in 0 .. Len(history)
    BY <1>1, EditFacts
<1>2. PICK key \in Hotkeys :
        LET n == IF Len(key.text) > limit THEN limit ELSE Len(key.text)
            text == Before(key.text, n)
        IN IF key.return /\ n < limit
           THEN history' = Pushed(text) /\ entered' = Entered(text) /\ Leaving
           ELSE Becomes(text, n, Written(removeEditLine(screen), text)) /\ UNCHANGED at
    BY DEF handleHotkey
<1> DEFINE n == IF Len(key.text) > limit THEN limit ELSE Len(key.text)
           text == Before(key.text, n)
<1>3. IsLine(key.text)
    BY DEF EditorAssumption, IsLine
<1>4. IsLine(text) /\ Len(text) = n /\ n \in Nat /\ n <= limit
    BY <1>3, <1>e, CutFacts
<1>5. \/ history' = Pushed(text) /\ entered' = Entered(text) /\ Leaving
      \/ Becomes(text, n, Written(removeEditLine(screen), text)) /\ UNCHANGED at
    BY <1>2
<1> HIDE DEF text, n
<1>6. CASE history' = Pushed(text) /\ entered' = Entered(text) /\ Leaving
    BY <1>4, <1>6, LeavingKeeps
<1>7. CASE Becomes(text, n, Written(removeEditLine(screen), text)) /\ UNCHANGED at
  <2>1. Len(text) <= Width /\ Fits(text) /\ n \in 0 .. Len(text)
      BY <1>4, <1>e DEF Fits
  <2>2. Drawn(screen, buffer, insert) => Drawn(Written(removeEditLine(screen), text), text, n)
      BY <1>4, <2>1, ReplacedShows
  <2> QED BY <1>1, <1>4, <1>7, <1>e, <2>1, <2>2, BecomesKeeps
<1> QED BY <1>5, <1>6, <1>7

\* A call of the editor writes the line given at the prompt (editline).
LEMMA editlineKeeps == ASSUME EditorAssumption, EditInv, editline PROVE EditInv'
<1>1. PICK given \in {<< >>} \cup {line \in Givens : Len(line) <= limit'} :
        buffer' = given /\ insert' = Len(given) /\ screen' = Written(Blank, given)
    BY DEF editline
<1>2. limit' \in Limits /\ at' = Len(history) /\ UNCHANGED <<history, torn, entered>>
    BY DEF editline
<1>3. limit' \in Nat /\ limit' <= Width /\ Width \in Nat
    BY <1>2 DEF EditorAssumption
<1>4. IsLine(given) /\ Len(given) \in Nat /\ Len(given) <= limit'
  <2>1. CASE given = << >>
      BY <1>3, <2>1, EmptyLine
  <2>2. CASE given # << >>
      BY <2>2, LenProperties DEF IsLine, EditorAssumption
  <2> QED BY <2>1, <2>2
<1>5. Drawn(Written(Blank, given), given, Len(given))
  <2>1. Len(given) <= Width
      BY <1>3, <1>4
  <2> QED BY <1>4, <2>1, BlankShows, WrittenLine
<1>6. TextInv'
  <2>1. torn' \in BOOLEAN
      BY <1>2 DEF EditInv, TextInv
  <2>2. Fits(buffer)'
      BY <1>1, <1>4 DEF Fits
  <2> QED BY <1>1, <1>2, <1>3, <1>4, <2>1, <2>2 DEF TextInv
<1>7. ShownInv'
    BY <1>1, <1>5 DEF ShownInv
<1>8. Len(history) \in Nat
    BY LenProperties DEF EditInv, HistoryInv, IsText
<1>9. KeptInv' /\ HistoryInv'
    BY <1>2, <1>8 DEF EditInv, KeptInv, HistoryInv
<1> QED BY <1>6, <1>7, <1>9 DEF EditInv

-----------------------------------------------------------------------------
(* Tab completion.                                                         *)

\* The leaf as it is inserted.
LEMMA TermLine ==
  ASSUME EditorAssumption, NEW leaf \in Leaves, NEW quoted \in BOOLEAN, NEW n
  PROVE  LET term == Wrapped(leaf.name, leaf.added, quoted, n)
         IN /\ IsLine(leaf.name) /\ Len(leaf.name) \in Nat /\ IsLine(term)
            /\ Len(term) = Len(leaf.name) + (IF Led(n) THEN 2 ELSE IF quoted THEN 3 ELSE 1)
            /\ ~quoted => \A i \in 1 .. Len(leaf.name) : term[i] = leaf.name[i]
            /\ Led(n) => Has(term, Quote)
<1> DEFINE a == leaf.name
           b == IF quoted /\ ~Led(n) THEN <<Quote>> ELSE << >>
           c == IF quoted \/ Led(n) THEN <<Quote, leaf.added>> ELSE <<leaf.added>>
           term == (b \o a) \o c
<1>1. leaf.name \in Seq(Characters) /\ leaf.added \in Characters /\ Quote \in Characters
    BY DEF EditorAssumption, Characters
<1>2. IsLine(a) /\ Len(a) \in Nat
    BY <1>1, LenProperties DEF IsLine
<1>3. IsLine(b) /\ Len(b) = (IF quoted /\ ~Led(n) THEN 1 ELSE 0) /\ (~quoted => b = << >>)
  <2>1. CASE quoted /\ ~Led(n)
    <3>1. b = <<Quote>>
        BY <2>1
    <3>2. IsLine(<<Quote>>) /\ Len(<<Quote>>) = 1
        BY <1>1, OneFacts DEF IsLine
    <3> QED BY <2>1, <3>1, <3>2
  <2>2. CASE ~(quoted /\ ~Led(n))
      BY <2>2, EmptyLine
  <2> QED BY <2>1, <2>2
<1>4. IsLine(c) /\ Len(c) = (IF quoted \/ Led(n) THEN 2 ELSE 1) /\ (Led(n) => c[1] = Quote)
  <2>1. CASE quoted \/ Led(n)
    <3>1. c = <<Quote, leaf.added>>
        BY <2>1
    <3>2. IsLine(<<Quote, leaf.added>>) /\ Len(<<Quote, leaf.added>>) = 2 /\ <<Quote, leaf.added>>[1] = Quote
        BY <1>1 DEF IsLine
    <3> QED BY <2>1, <3>1, <3>2
  <2>2. CASE ~(quoted \/ Led(n))
    <3>1. c = <<leaf.added>>
        BY <2>2
    <3>2. IsLine(<<leaf.added>>) /\ Len(<<leaf.added>>) = 1
        BY <1>1, OneFacts DEF IsLine
    <3> QED BY <2>2, <3>1, <3>2
  <2> QED BY <2>1, <2>2
<1>5. term = Wrapped(leaf.name, leaf.added, quoted, n)
    BY DEF Wrapped
<1>6. ~quoted => b \o a = a
    BY <1>2, <1>3, ConcatEmptySeq DEF IsLine
<1> HIDE DEF a, b, c
<1> DEFINE d == b \o a
<1>7. IsLine(d) /\ Len(d) = Len(b) + Len(a)
    BY <1>2, <1>3, JoinLines
<1> HIDE DEF d
<1>8. /\ IsLine(d \o c) /\ Len(d \o c) = Len(d) + Len(c)
      /\ \A i \in 1 .. Len(d) : (d \o c)[i] = d[i]
      /\ \A i \in 1 .. Len(c) : (d \o c)[Len(d) + i] = c[i]
  <2>1. IsLine(c) /\ IsLine(d)
      BY <1>4, <1>7
  <2> QED BY <2>1, JoinLines
<1>9. term = d \o c
    BY DEF d
<1> HIDE DEF term
<1>10. IsLine(term) /\ Len(term) = Len(a) + (IF Led(n) THEN 2 ELSE IF quoted THEN 3 ELSE 1)
  <2>1. Len(term) = Len(b) + Len(a) + Len(c)
      BY <1>7, <1>8, <1>9
  <2>2. Len(b) + Len(c) = (IF Led(n) THEN 2 ELSE IF quoted THEN 3 ELSE 1) /\ Len(b) \in Nat /\ Len(c) \in Nat
    <3>1. CASE Led(n)
        BY <1>3, <1>4, <3>1
    <3>2. CASE ~Led(n) /\ quoted
        BY <1>3, <1>4, <3>2
    <3>3. CASE ~Led(n) /\ ~quoted
        BY <1>3, <1>4, <3>3
    <3> QED BY <3>1, <3>2, <3>3
  <2>3. Len(term) = Len(a) + (Len(b) + Len(c))
      BY <1>2, <2>1, <2>2
  <2> QED BY <1>8, <1>9, <2>2, <2>3
<1>11. ~quoted => \A i \in 1 .. Len(a) : term[i] = a[i]
    BY <1>6, <1>8, <1>9 DEF d
<1>12. ASSUME Led(n) PROVE Has(term, Quote)
  <2>1. 1 \in 1 .. Len(c) /\ c[1] = Quote /\ Len(d) \in Nat /\ Len(c) \in Nat
      BY <1>2, <1>3, <1>4, <1>7, <1>12
  <2>2. term[Len(d) + 1] = Quote /\ Len(d) + 1 \in 1 .. Len(term)
      BY <1>8, <1>9, <2>1
  <2>3. DOMAIN term = 1 .. Len(term)
      BY <1>10, LenProperties DEF IsLine
  <2> QED BY <2>2, <2>3 DEF Has
<1> QED BY <1>2, <1>5, <1>10, <1>11, <1>12 DEF a

\* The line in which term stands for the n characters before the position, with tail
\* behind it, and the two ways in which it gets to the screen.
Inserted(n, term, tail) == Before(buffer, insert - n) \o term \o tail
Quotes(n, term) ==
  /\ Fits(Inserted(n, term, After(buffer, insert)))
  /\ Becomes(Inserted(n, term, After(buffer, insert)), insert - n + Len(term),
             Moved(Written(Moved(screen, -n), term \o After(buffer, insert)), -Len(After(buffer, insert))))
Completes(n, term) ==
  /\ Fits(Inserted(n, term, After(buffer, insert)))
  /\ Becomes(Inserted(n, term, After(buffer, insert)), insert - n + Len(term),
             Moved(Written(screen, After(term, n) \o After(buffer, insert)), -Len(After(buffer, insert))))

\* The line with the term in it is as long as its pieces, and has what the term has.
LEMMA InsertedLine ==
  ASSUME EditorAssumption, EditInv, Editing, NEW n \in 0 .. insert, NEW term, IsLine(term), NEW tail, IsLine(tail)
  PROVE  /\ IsLine(Inserted(n, term, tail)) /\ Len(term) \in Nat /\ Len(tail) \in Nat
         /\ Len(Inserted(n, term, tail)) = insert - n + Len(term) + Len(tail)
         /\ Has(term, Quote) => Has(Inserted(n, term, tail), Quote)
<1> DEFINE b == Before(buffer, insert - n)
           d == b \o term
           r == d \o tail
<1>1. IsLine(b) /\ Len(b) = insert - n /\ insert - n \in Nat
  <2>1. insert - n \in 0 .. Len(buffer) /\ buffer \in Seq(Characters)
      BY EditFacts DEF IsLine
  <2> QED BY <2>1, BeforeFacts DEF IsLine
<1> HIDE DEF b
<1>2. /\ IsLine(d) /\ Len(d) = Len(b) + Len(term) /\ Len(term) \in Nat
      /\ \A i \in 1 .. Len(term) : d[Len(b) + i] = term[i]
  <2>1. IsLine(b) /\ IsLine(term)
      BY <1>1
  <2> QED BY <2>1, JoinLines
<1> HIDE DEF d
<1>3. /\ IsLine(r) /\ Len(r) = Len(d) + Len(tail) /\ Len(tail) \in Nat
      /\ \A i \in 1 .. Len(d) : r[i] = d[i]
    BY <1>2, JoinLines
<1>4. r = Inserted(n, term, tail)
    BY DEF Inserted, b, d
<1> HIDE DEF r
<1>5. Len(r) = insert - n + Len(term) + Len(tail)
    BY <1>1, <1>2, <1>3
<1>6. ASSUME Has(term, Quote) PROVE Has(r, Quote)
  <2>1. PICK i \in 1 .. Len(term) : term[i] = Quote
    <3>1. DOMAIN term = 1 .. Len(term)
        BY LenProperties DEF IsLine
    <3> QED BY <1>6, <3>1 DEF Has
  <2>2. Len(b) + i \in 1 .. Len(d) /\ Len(b) + i \in 1 .. Len(r)
      BY <1>1, <1>2, <1>3
  <2>3. r[Len(b) + i] = Quote
      BY <1>2, <1>3, <2>1, <2>2
  <2>4. DOMAIN r = 1 .. Len(r)
      BY <1>3, LenProperties DEF IsLine
  <2> QED BY <2>2, <2>3, <2>4 DEF Has
<1> QED BY <1>2, <1>3, <1>4, <1>5, <1>6

\* A quoted leaf takes the place of what was typed of it.
LEMMA QuotedKeeps ==
  ASSUME EditorAssumption, EditInv, Editing, UNCHANGED at, NEW n \in 0 .. insert, NEW term, IsLine(term), Len(term) >= n,
         Quotes(n, term)
  PROVE  EditInv'
<1> DEFINE rest == After(buffer, insert)
           start == insert - n
           b == Before(buffer, start)
           u == term \o rest
           r == b \o u
           s == Moved(screen, -n)
           w == Written(s, u)
<1>e. /\ IsLine(buffer) /\ Len(buffer) \in Nat /\ insert \in 0 .. Len(buffer) /\ limit + 1 <= Width
      /\ limit \in Nat /\ Width \in Nat /\ at \in 0 .. Len(history)
    BY EditFacts
<1>1. IsLine(rest) /\ Len(rest) = Len(buffer) - insert
    BY <1>e, AfterFacts DEF IsLine
<1>2. start \in 0 .. Len(buffer) /\ n \in Nat /\ Len(term) \in Nat
    BY <1>e, LenProperties DEF IsLine
<1>3. IsLine(b)
    BY <1>e, <1>2, BeforeFacts DEF IsLine
<1>4. Fits(r) /\ Becomes(r, start + Len(term), Moved(w, -Len(rest))) /\ IsLine(r) /\ Len(r) = start + Len(term) + Len(rest)
  <2>1. r = b \o term \o rest
    <3>1. IsLine(b) /\ IsLine(term) /\ IsLine(rest)
        BY <1>1, <1>3
    <3> HIDE DEF b, rest
    <3>2. b \o (term \o rest) = (b \o term) \o rest
        BY <3>1, JoinThree
    <3> QED BY <3>2
  <2>2. Inserted(n, term, rest) = b \o term \o rest
      BY DEF Inserted
  <2>3. IsLine(Inserted(n, term, rest)) /\ Len(Inserted(n, term, rest)) = start + Len(term) + Len(rest)
    <3> HIDE DEF rest
    <3> QED BY <1>1, InsertedLine
  <2>4. /\ Fits(Inserted(n, term, rest))
        /\ Becomes(Inserted(n, term, rest), start + Len(term), Moved(w, -Len(rest)))
      BY DEF Quotes
  <2> HIDE DEF r, w, b, rest, start
  <2> QED BY <2>1, <2>2, <2>3, <2>4
<1> HIDE DEF rest, b
<1>5. IsLine(u) /\ Len(u) = Len(term) + Len(rest)
    BY <1>1, JoinFacts DEF IsLine
<1>6. ASSUME Drawn(screen, buffer, insert) PROVE Drawn(Moved(w, -Len(rest)), r, start + Len(term))
  <2>1. Drawn(s, buffer, start)
    <3>1. insert \in Int /\ -n \in Int /\ insert + (-n) = start
        BY <1>2, <1>e
    <3>2. Drawn(s, buffer, insert + (-n))
        BY <1>6, <3>1, MovedShows
    <3> QED BY <3>1, <3>2
  <2> HIDE DEF s, u, r
  <2>2. start + Len(u) >= Len(buffer) /\ start + Len(u) <= Width
    <3>1. Len(r) <= limit + 1
        BY <1>1, <1>2, <1>4, <1>e DEF Fits
    <3> QED BY <1>1, <1>2, <1>4, <1>5, <1>e, <3>1
  <2> HIDE DEF start
  <2>3. Drawn(w, r, start + Len(u))
      BY <1>2, <1>5, <1>e, <2>1, <2>2, Retyped DEF r, b
  <2>4. start + Len(u) \in Int /\ -Len(rest) \in Int /\ start + Len(u) + (-Len(rest)) = start + Len(term)
      BY <1>1, <1>2, <1>5, <1>e
  <2> HIDE DEF w
  <2>5. Drawn(Moved(w, -Len(rest)), r, start + Len(u) + (-Len(rest)))
      BY <2>3, <2>4, MovedShows
  <2> QED BY <2>4, <2>5
<1> HIDE DEF u, r, w, s
<1>7. start + Len(term) \in 0 .. Len(r)
    BY <1>1, <1>2, <1>4, <1>e
<1> HIDE DEF start
<1> QED BY <1>4, <1>6, <1>7, <1>e, BecomesKeeps

\* What is missing of a leaf is inserted behind what was typed of it.
LEMMA CompletedKeeps ==
  ASSUME EditorAssumption, EditInv, Editing, UNCHANGED at, NEW n \in 0 .. insert, NEW term, IsLine(term), Len(term) >= n,
         \A i \in 1 .. n : term[i] = buffer[insert - n + i],
         Completes(n, term)
  PROVE  EditInv'
<1> DEFINE rest == After(buffer, insert)
           start == insert - n
           b == Before(buffer, start)
           c == Before(term, n)
           d == After(term, n)
           u == d \o rest
           k == Before(buffer, insert)
           r == k \o u
           w == Written(screen, u)
<1>e. /\ IsLine(buffer) /\ Len(buffer) \in Nat /\ insert \in 0 .. Len(buffer) /\ limit + 1 <= Width
      /\ limit \in Nat /\ Width \in Nat /\ at \in 0 .. Len(history)
    BY EditFacts
<1>1. IsLine(rest) /\ Len(rest) = Len(buffer) - insert
    BY <1>e, AfterFacts DEF IsLine
<1>2. start \in 0 .. Len(buffer) /\ n \in Nat /\ Len(term) \in Nat /\ n \in 0 .. Len(term)
    BY <1>e, LenProperties DEF IsLine
<1>3. IsLine(b) /\ Len(b) = start /\ \A i \in 1 .. start : b[i] = buffer[i]
    BY <1>e, <1>2, BeforeFacts DEF IsLine
<1>4. IsLine(c) /\ Len(c) = n /\ \A i \in 1 .. n : c[i] = term[i]
    BY <1>2, BeforeFacts DEF IsLine
<1>5. IsLine(d) /\ Len(d) = Len(term) - n /\ \A i \in 1 .. Len(term) - n : d[i] = term[n + i]
    BY <1>2, AfterFacts DEF IsLine
<1>6. IsLine(k) /\ Len(k) = insert /\ \A i \in 1 .. insert : k[i] = buffer[i]
    BY <1>e, BeforeFacts DEF IsLine
<1> HIDE DEF rest, b, c, d, k
<1>7. term = c \o d
  <2>1. /\ IsLine(c \o d) /\ Len(c \o d) = Len(c) + Len(d)
        /\ \A i \in 1 .. Len(c) : (c \o d)[i] = c[i]
        /\ \A i \in 1 .. Len(d) : (c \o d)[Len(c) + i] = d[i]
    <3>1. IsLine(c) /\ IsLine(d)
        BY <1>4, <1>5
    <3> QED BY <3>1, JoinLines
  <2>2. ASSUME NEW i \in 1 .. Len(term) PROVE term[i] = (c \o d)[i]
    <3>1. CASE i <= n
      <4>1. i \in 1 .. n
          BY <1>2, <3>1
      <4> QED BY <1>4, <2>1, <4>1
    <3>2. CASE i > n
      <4>1. i - n \in 1 .. Len(d) /\ i - n \in 1 .. Len(term) - n /\ n + (i - n) = i
          BY <1>2, <1>5, <3>2
      <4>2. d[i - n] = term[i]
          BY <1>5, <4>1
      <4>3. (c \o d)[n + (i - n)] = d[i - n]
          BY <1>4, <2>1, <4>1, Zenon
      <4>4. (c \o d)[i] = d[i - n]
          BY <4>1, <4>3
      <4> QED BY <4>2, <4>4
    <3>3. i <= n \/ i > n
        BY <1>2
    <3> QED BY <3>1, <3>2, <3>3
  <2>3. Len(c \o d) = Len(term)
      BY <1>2, <1>4, <1>5, <2>1
  <2> QED BY <2>1, <2>2, <2>3, SameLine
<1>8. k = b \o c
  <2>1. /\ IsLine(b \o c) /\ Len(b \o c) = Len(b) + Len(c)
        /\ \A i \in 1 .. Len(b) : (b \o c)[i] = b[i]
        /\ \A i \in 1 .. Len(c) : (b \o c)[Len(b) + i] = c[i]
    <3>1. IsLine(b) /\ IsLine(c)
        BY <1>3, <1>4
    <3> QED BY <3>1, JoinLines
  <2>2. ASSUME NEW i \in 1 .. Len(k) PROVE k[i] = (b \o c)[i]
    <3>1. CASE i <= start
      <4>1. i \in 1 .. start /\ i \in 1 .. insert
          BY <1>2, <1>6, <1>e, <3>1
      <4> QED BY <1>3, <1>6, <2>1, <4>1
    <3>2. CASE i > start
      <4>1. i - start \in 1 .. n /\ start + (i - start) = i /\ insert - n + (i - start) = i /\ i \in 1 .. insert
          BY <1>2, <1>6, <1>e, <3>2
      <4>2. (b \o c)[i] = c[i - start] /\ c[i - start] = term[i - start]
          BY <1>3, <1>4, <2>1, <4>1
      <4>3. term[i - start] = buffer[i]
          BY <4>1
      <4> QED BY <1>6, <4>1, <4>2, <4>3
    <3>3. i <= start \/ i > start
        BY <1>2, <1>6, <1>e
    <3> QED BY <3>1, <3>2, <3>3
  <2>3. Len(b \o c) = Len(k)
      BY <1>2, <1>3, <1>4, <1>6, <1>e, <2>1
  <2> QED BY <1>6, <2>1, <2>2, <2>3, SameLine
<1>9. IsLine(u) /\ Len(u) = Len(d) + Len(rest)
    BY <1>1, <1>5, JoinLines
<1>10. r = b \o term \o rest
  <2>1. b \o (c \o d) = (b \o c) \o d
    <3>1. IsLine(b) /\ IsLine(c) /\ IsLine(d)
        BY <1>3, <1>4, <1>5
    <3> HIDE DEF u, r, w, start
    <3> QED BY <3>1, JoinThree, SMTT(30)
  <2>2. k \o (d \o rest) = (k \o d) \o rest
    <3>1. IsLine(k) /\ IsLine(d) /\ IsLine(rest)
        BY <1>1, <1>5, <1>6
    <3> HIDE DEF u, r, w, start
    <3> QED BY <3>1, JoinThree, SMTT(30)
  <2>3. r = (k \o d) \o rest
      BY <2>2
  <2>4. k \o d = b \o term
      BY <1>7, <1>8, <2>1
  <2> QED BY <2>3, <2>4
<1>11. Fits(r) /\ Becomes(r, start + Len(term), Moved(w, -Len(rest)))
    BY <1>10 DEF Completes, Inserted, rest, b, d
<1>12. Len(r) = insert + Len(u) /\ IsLine(r)
  <2> HIDE DEF u
  <2> QED BY <1>6, <1>9, JoinLines
<1>13. ASSUME Drawn(screen, buffer, insert) PROVE Drawn(Moved(w, -Len(rest)), r, start + Len(term))
  <2> HIDE DEF u, r
  <2>1. insert + Len(u) >= Len(buffer) /\ insert + Len(u) <= Width
    <3>1. Len(u) = Len(term) - n + Len(rest) /\ Len(u) \in Nat /\ Len(r) \in Nat
        BY <1>1, <1>2, <1>5, <1>9, <1>12, <1>e
    <3>2. Len(r) <= limit + 1
        BY <1>11, <1>e, <3>1 DEF Fits
    <3> QED BY <1>1, <1>2, <1>12, <1>e, <3>1, <3>2
  <2>2. Drawn(w, r, insert + Len(u))
      BY <1>9, <1>13, <1>e, <2>1, Retyped DEF r, k
  <2>3. insert + Len(u) \in Int /\ -Len(rest) \in Int /\ insert + Len(u) + (-Len(rest)) = start + Len(term)
      BY <1>1, <1>2, <1>5, <1>9, <1>e
  <2> HIDE DEF w, start
  <2>4. Drawn(Moved(w, -Len(rest)), r, insert + Len(u) + (-Len(rest)))
      BY <2>2, <2>3, MovedShows
  <2> QED BY <2>3, <2>4
<1> HIDE DEF u, r, w
<1>14. start + Len(term) \in 0 .. Len(r)
    BY <1>1, <1>2, <1>5, <1>9, <1>12, <1>e
<1> QED BY <1>11, <1>12, <1>13, <1>14, <1>e, BecomesKeeps

\* What may stand behind a completed term: the rest of the line, or that and a byte before it.
LEMMA TailLine ==
  ASSUME EditorAssumption, EditInv, Editing, NEW p \in Nat, NEW quoted, NEW n,
         NEW tail \in Tails(After(buffer, insert), p, quoted, n)
  PROVE  /\ IsLine(tail) /\ Len(tail) \in Nat
         /\ \/ tail = After(buffer, insert)
            \/ quoted /\ Led(n) /\ Len(tail) <= Len(buffer) - insert + 1
<1> DEFINE rest == After(buffer, insert)
<1>e. buffer \in Seq(Characters) /\ Len(buffer) \in Nat /\ insert \in 0 .. Len(buffer)
    BY EditFacts DEF IsLine
<1>1. IsLine(rest) /\ Len(rest) = Len(buffer) - insert
    BY <1>e, AfterFacts DEF IsLine
<1>2. tail \in Tails(rest, p, quoted, n)
    OBVIOUS
<1> HIDE DEF rest
<1>3. CASE ~(quoted /\ Led(n))
  <2>1. tail = rest
      BY <1>2, <1>3 DEF Tails
  <2> QED BY <1>1, <1>e, <2>1 DEF rest
<1>4. CASE quoted /\ Led(n)
  <2>1. \/ tail = << >>
        \/ \E c \in Characters : tail = <<c>> \o rest
    <3>1. CASE p < Len(buffer)
      <4>1. p + 1 \in 1 .. Len(buffer)
          BY <1>e, <3>1
      <4>2. buffer[p + 1] \in Characters
          BY <1>e, <4>1, ElementOfSeq
      <4>3. tail = <<buffer[p + 1]>> \o rest
          BY <1>2, <1>4, <3>1 DEF Tails
      <4> QED BY <4>2, <4>3
    <3>2. CASE ~(p < Len(buffer))
        BY <1>2, <1>4, <3>2 DEF Tails
    <3> QED BY <3>1, <3>2
  <2>2. CASE tail = << >>
      BY <1>4, <1>e, <2>2, EmptyLine
  <2>3. CASE \E c \in Characters : tail = <<c>> \o rest
    <3>1. PICK c \in Characters : tail = <<c>> \o rest
        BY <2>3
    <3>2. IsLine(<<c>>) /\ Len(<<c>>) = 1
        BY OneFacts DEF IsLine
    <3>3. IsLine(tail) /\ Len(tail) = Len(<<c>>) + Len(rest)
        BY <1>1, <3>1, <3>2, JoinLines
    <3> QED BY <1>1, <1>4, <1>e, <3>2, <3>3
  <2> QED BY <2>1, <2>2, <2>3
<1> QED BY <1>3, <1>4

\* What of a leaf was typed stands in the line.
LEMMA TypedStands ==
  ASSUME EditorAssumption, EditInv, Editing, NEW n \in 0 .. insert, NEW name, IsLine(name), n <= Len(name),
         Before(name, n) = TypedPart(n), NEW i \in 1 .. n
  PROVE  name[i] = buffer[insert - n + i]
<1>e. IsLine(buffer) /\ Len(buffer) \in Nat /\ insert \in 0 .. Len(buffer)
    BY EditFacts
<1>1. n \in 0 .. Len(name)
    BY <1>e, LenProperties DEF IsLine
<1>2. Before(name, n)[i] = name[i]
    BY <1>1, BeforeFacts DEF IsLine
<1>3. TypedPart(n)[i] = buffer[insert - n + i]
  <2>1. /\ insert - n + 1 \in Int /\ insert \in Int /\ i \in 1 .. insert - (insert - n + 1) + 1
        /\ insert - n + 1 + i - 1 = insert - n + i
      BY <1>e
  <2>2. \A j \in insert - n + 1 .. insert : buffer[j] \in Characters
    <3>1. \A j \in 1 .. Len(buffer) : buffer[j] \in Characters
        BY <1>e, ElementOfSeq DEF IsLine
    <3> QED BY <1>e, <3>1
  <2>3. SubSeq(buffer, insert - n + 1, insert)[i] = buffer[insert - n + 1 + i - 1]
      BY <2>1, <2>2, SubSeqProperties
  <2> QED BY <2>1, <2>3 DEF TypedPart
<1> QED BY <1>2, <1>3

\* Tab completes a leaf, with quotes where they are due.
LEMMA TabKeeps == ASSUME EditorAssumption, EditInv, Tab PROVE EditInv'
<1>1. Editing /\ UNCHANGED at
    BY DEF Tab
<1>2. PICK n \in 0 .. insert, leaf \in Leaves :
        n <= Len(leaf.name) /\ Before(leaf.name, n) = TypedPart(n) /\ insertString(leaf.name, leaf.added, n)
    BY DEF Tab
<1>e. /\ IsLine(buffer) /\ Len(buffer) \in Nat /\ insert \in 0 .. Len(buffer) /\ limit \in Nat
      /\ at \in 0 .. Len(history) /\ torn \in BOOLEAN
    BY <1>1, EditFacts DEF EditInv, TextInv
<1> DEFINE quoted == Has(leaf.name, Space)
           rest == After(buffer, insert)
           term == Wrapped(leaf.name, leaf.added, quoted, n)
           p == insert - n + Len(term)
<1>3. quoted \in BOOLEAN /\ n \in 0 .. insert /\ n <= Len(leaf.name)
    BY <1>2 DEF Has
<1>4. CASE UNCHANGED <<buffer, insert, screen, history, limit, torn, entered, calls>>
    BY <1>1, <1>4 DEF EditInv, TextInv, ShownInv, KeptInv, HistoryInv, Fits
<1>5. CASE ~UNCHANGED <<buffer, insert, screen, history, limit, torn, entered, calls>>
  <2>1. ~(Len(buffer) + Len(leaf.name) - n + 1 + (IF quoted THEN 2 ELSE 0) > limit)
      BY <1>2, <1>5 DEF insertString
  <2>2. PICK tail \in Tails(rest, p, quoted, n) :
          /\ buffer' = Before(buffer, insert - n) \o term \o tail
          /\ insert' = p
          /\ screen' = Moved(IF quoted THEN Written(Moved(screen, -n), term \o tail)
                             ELSE Written(screen, After(term, n) \o tail), -Len(rest))
          /\ torn' = (torn \/ tail # rest)
          /\ UNCHANGED <<history, limit, entered, calls>>
      BY <1>2, <2>1 DEF insertString
  <2>3. /\ IsLine(leaf.name) /\ Len(leaf.name) \in Nat /\ IsLine(term)
        /\ Len(term) = Len(leaf.name) + (IF Led(n) THEN 2 ELSE IF quoted THEN 3 ELSE 1)
        /\ ~quoted => \A i \in 1 .. Len(leaf.name) : term[i] = leaf.name[i]
        /\ Led(n) => Has(term, Quote)
    <3> HIDE DEF quoted
    <3> QED BY <1>3, TermLine
  <2>4. \A i \in 1 .. n : leaf.name[i] = buffer[insert - n + i]
      BY <1>1, <1>2, <2>3, TypedStands
  <2>r. IsLine(rest) /\ Len(rest) = Len(buffer) - insert
      BY <1>e, AfterFacts DEF IsLine
  <2> HIDE DEF quoted, term
  <2>5. p \in Nat /\ Len(term) \in Nat /\ Len(term) >= n /\ n \in Nat
    <3> DEFINE L == Len(leaf.name)
               T == Len(term)
    <3>1. \E k \in 1 .. 3 : T = L + k
      <4>1. CASE Led(n)
          BY <2>3, <4>1
      <4>2. CASE ~Led(n) /\ quoted
          BY <2>3, <4>2
      <4>3. CASE ~Led(n) /\ ~quoted
          BY <2>3, <4>3
      <4> QED BY <4>1, <4>2, <4>3
    <3>2. L \in Nat /\ n \in Nat /\ n <= insert /\ n <= L /\ insert \in Nat
        BY <1>3, <1>e, <2>3
    <3> HIDE DEF L, T
    <3>3. T \in Nat /\ T >= n
        BY <3>1, <3>2
    <3>4. insert - n + T \in Nat
        BY <3>2, <3>3
    <3> QED BY <3>2, <3>3, <3>4 DEF T
  <2>6. /\ IsLine(tail) /\ Len(tail) \in Nat
        /\ tail = rest \/ (quoted /\ Led(n) /\ Len(tail) <= Len(buffer) - insert + 1)
    <3> HIDE DEF p
    <3> QED BY <1>1, <2>2, <2>5, TailLine
  <2> HIDE DEF rest
  <2> DEFINE r == Inserted(n, term, tail)
  <2>7. IsLine(r) /\ Len(r) = p + Len(tail) /\ (Led(n) => Has(r, Quote))
    <3>1. Editing /\ IsLine(term) /\ IsLine(tail) /\ (Led(n) => Has(term, Quote))
        BY <1>1, <2>3, <2>6
    <3> HIDE DEF r
    <3>2. /\ IsLine(Inserted(n, term, tail)) /\ Len(Inserted(n, term, tail)) = insert - n + Len(term) + Len(tail)
          /\ Has(term, Quote) => Has(Inserted(n, term, tail), Quote)
        BY <3>1, InsertedLine
    <3>3. r = Inserted(n, term, tail)
        BY DEF r
    <3> QED BY <3>1, <3>2, <3>3
  <2>8. buffer' = r
      BY <2>2 DEF Inserted
  <2> HIDE DEF r
  <2>9. Fits(r)
    <3> DEFINE B == Len(buffer)
               L == Len(leaf.name)
               T == Len(term)
               R == Len(r)
               k == IF Led(n) THEN 2 ELSE IF quoted THEN 3 ELSE 1
               e == IF quoted THEN 2 ELSE 0
    <3>1. T = L + k /\ ~(B + L - n + 1 + e > limit)
        BY <2>1, <2>3
    <3>2. k \in 1 .. 3 /\ e \in 0 .. 2
        OBVIOUS
    <3>3. k - 1 - e <= 0 \/ (Led(n) /\ k - 1 - e = 1)
      <4>1. CASE Led(n)
          BY <4>1
      <4>2. CASE ~Led(n)
          BY <4>2
      <4> QED BY <4>1, <4>2
    <3>4. quoted /\ Led(n) => k - 1 - e = -1
        OBVIOUS
    <3>5. B \in Nat /\ L \in Nat /\ T \in Nat /\ n \in Nat /\ limit \in Nat
        BY <1>e, <2>3, <2>5
    <3> HIDE DEF k, e, B, L, T, R
    <3>6. B - n + T <= limit + (k - 1 - e) /\ B - n + T \in Int /\ k - 1 - e \in Int
        BY <3>1, <3>2, <3>5
    <3>7. CASE tail = rest
      <4>1. R = B - n + T /\ R \in Nat
          BY <1>e, <2>5, <2>6, <2>7, <2>r, <3>7 DEF B, T, R
      <4>2. R <= limit \/ (Led(n) /\ R <= limit + 1)
          BY <3>3, <3>5, <3>6, <4>1
      <4>3. R = limit + 1 \/ R <= limit \/ ~(R <= limit + 1)
          BY <3>5, <4>1
      <4> QED BY <2>7, <4>2, <4>3 DEF Fits, R
    <3>8. CASE tail # rest
      <4>1. quoted /\ Led(n) /\ Len(tail) <= B - insert + 1
          BY <2>6, <3>8 DEF B
      <4>2. k - 1 - e = -1
          BY <3>4, <4>1
      <4>3. /\ R = insert - n + T + Len(tail) /\ Len(tail) \in Nat /\ insert \in Nat
          BY <1>e, <2>6, <2>7 DEF R, T
      <4>4. B - n + T <= limit - 1
          BY <3>5, <3>6, <4>2
      <4>5. R <= limit
          BY <3>5, <4>1, <4>3, <4>4
      <4> QED BY <4>5 DEF Fits, R
    <3> QED BY <3>7, <3>8
  <2>10. CASE tail = rest
    <3>1. torn' = torn
        BY <1>e, <2>2, <2>10
    <3>2. CASE quoted
      <4>1. screen' = Moved(Written(Moved(screen, -n), term \o rest), -Len(rest))
          BY <2>2, <2>10, <3>2
      <4>2. Quotes(n, term)
          BY <2>2, <2>8, <2>9, <2>10, <3>1, <4>1 DEF Quotes, Becomes, rest, r
      <4> QED BY <1>1, <2>3, <2>5, <4>2, QuotedKeeps
    <3>3. CASE ~quoted
      <4>1. screen' = Moved(Written(screen, After(term, n) \o rest), -Len(rest))
          BY <2>2, <2>10, <3>3
      <4>2. Completes(n, term)
          BY <2>2, <2>8, <2>9, <2>10, <3>1, <4>1 DEF Completes, Becomes, rest, r
      <4>3. \A i \in 1 .. n : term[i] = buffer[insert - n + i]
        <5>1. ASSUME NEW i \in 1 .. n PROVE i \in 1 .. Len(leaf.name)
            BY <1>3, <1>e, <2>3
        <5>2. \A i \in 1 .. Len(leaf.name) : term[i] = leaf.name[i]
            BY <2>3, <3>3
        <5> QED BY <2>4, <5>1, <5>2
      <4> QED BY <1>1, <2>3, <2>5, <4>2, <4>3, CompletedKeeps
    <3> QED BY <3>2, <3>3
  <2>11. CASE tail # rest
    <3>1. torn' = TRUE /\ insert' = p /\ UNCHANGED <<history, limit, entered>>
        BY <2>2, <2>11
    <3>2. p \in 0 .. Len(r) /\ at' \in 0 .. Len(history)
        BY <1>1, <1>e, <2>5, <2>6, <2>7
    <3> HIDE DEF p
    <3> QED BY <1>1, <2>7, <2>8, <2>9, <3>1, <3>2, LineKeeps
  <2> QED BY <2>10, <2>11
<1> QED BY <1>4, <1>5

-----------------------------------------------------------------------------
\* The invariant of the editor is preserved by every step.
LEMMA EditStep == EditorAssumption /\ EditInv /\ [EditorNext]_editorVars => EditInv'
<1> SUFFICES ASSUME EditorAssumption, EditInv, [EditorNext]_editorVars PROVE EditInv'
    OBVIOUS
<1>1. CASE insertCharacter
    BY <1>1, insertCharacterKeeps
<1>2. CASE deleteCharacter
    BY <1>2, deleteCharacterKeeps
<1>3. CASE Left \/ Right \/ Home \/ End \/ Up \/ Down
    BY <1>3, CursorKeeps
<1>4. CASE editHistoryUp \/ editHistoryDown
    BY <1>4, HistoryKeysKeep
<1>5. CASE Tab
    BY <1>5, TabKeeps
<1>6. CASE Enter \/ Escape
    BY <1>6, EndsKeeps
<1>7. CASE handleHotkey
    BY <1>7, handleHotkeyKeeps
<1>8. CASE editline
    BY <1>8, editlineKeeps
<1>9. CASE UNCHANGED editorVars
    BY <1>9 DEF editorVars, EditInv, TextInv, ShownInv, KeptInv, HistoryInv, Fits
<1> QED BY <1>1, <1>2, <1>3, <1>4, <1>5, <1>6, <1>7, <1>8, <1>9 DEF EditorNext

\* It holds before the first line.
LEMMA EditStarts == EditorAssumption /\ EditorInit => EditInv
<1> SUFFICES ASSUME EditorAssumption, EditorInit PROVE EditInv
    OBVIOUS
<1>1. TextInv
  <2>1. buffer = << >> /\ insert = 0 /\ limit = -1 /\ torn = FALSE /\ Width \in Nat
      BY DEF EditorInit, EditorAssumption
  <2>2. limit \in Limits \cup {-1} /\ ~(limit # -1) /\ torn \in BOOLEAN
      BY <2>1
  <2>3. IsLine(buffer) /\ insert \in 0 .. Len(buffer) /\ Len(buffer) <= Width
      BY <2>1, EmptyLine
  <2> QED BY <2>2, <2>3 DEF TextInv
<1>2. ShownInv
    BY BlankShows DEF EditorInit, ShownInv
<1>3. KeptInv
  <2>1. entered = << >> /\ Kept(entered) = << >>
      BY KeptNothing DEF EditorInit
  <2>2. << >> \in Seq(Seq(Characters))
      BY EmptySeq
  <2> QED BY <2>1, <2>2 DEF KeptInv, IsText
<1>4. HistoryInv
  <2>1. history = << >> /\ at = 0 /\ Kept(entered) = << >> /\ << >> \in Seq(Seq(Characters)) /\ Len(<< >>) = 0
      BY KeptNothing DEF EditorInit
  <2>2. AtMost(<< >>) = 0
      BY <2>1 DEF AtMost, EditorAssumption
  <2>3. << >> = Suffix(<< >>, 0)
    <3>1. 0 - 0 = 0 /\ 1 > 0
        OBVIOUS
    <3>2. SubSeq(<< >>, 0 + 1, 0) = << >>
        BY SubSeqEmpty
    <3> QED BY <2>1, <3>1, <3>2 DEF Suffix, After
  <2> QED BY <2>1, <2>2, <2>3 DEF HistoryInv, IsText
<1> QED BY <1>1, <1>2, <1>3, <1>4 DEF EditInv

\* What the invariant says is what the property claims.
LEMMA EditClaims == EditorAssumption /\ EditInv => LinesAreKept
<1> SUFFICES ASSUME EditorAssumption, EditInv PROVE LinesAreKept
    OBVIOUS
<1>1. ScreenShowsLine
  <2> DEFINE n == Len(buffer)
             r == buffer \o Spaces(Width - n)
  <2>1. IsLine(buffer) /\ n \in Nat /\ n <= Width /\ Width \in Nat /\ Width - n \in Nat
      BY LenProperties DEF EditInv, TextInv, IsLine, EditorAssumption
  <2>2. /\ IsLine(Spaces(Width - n)) /\ Len(Spaces(Width - n)) = Width - n
        /\ \A i \in 1 .. Width - n : Spaces(Width - n)[i] = Space
      BY <2>1, SpacesFacts DEF IsLine
  <2>3. /\ IsLine(r) /\ Len(r) = n + (Width - n)
        /\ \A i \in 1 .. n : r[i] = buffer[i]
        /\ \A i \in 1 .. Width - n : r[n + i] = Spaces(Width - n)[i]
    <3>1. IsLine(buffer) /\ IsLine(Spaces(Width - n)) /\ Len(Spaces(Width - n)) = Width - n
        BY <2>1, <2>2
    <3> DEFINE z == Spaces(Width - n)
    <3> HIDE DEF z
    <3>2. /\ IsLine(buffer \o z) /\ Len(buffer \o z) = n + Len(z)
          /\ \A i \in 1 .. n : (buffer \o z)[i] = buffer[i]
          /\ \A i \in 1 .. Len(z) : (buffer \o z)[n + i] = z[i]
        BY <3>1, JoinLines DEF z
    <3> QED BY <3>1, <3>2 DEF z
  <2> HIDE DEF r
  <2>4. ASSUME ~torn, NEW i \in 1 .. Width PROVE screen.text[i] = r[i]
    <3>1. screen.text[i] = Shown(buffer, i)
        BY <2>4 DEF EditInv, ShownInv, Shows, Drawn
    <3>2. CASE i <= n
      <4>1. i \in 1 .. n
          BY <2>1, <3>2
      <4> QED BY <2>3, <3>1, <4>1 DEF Shown
    <3>3. CASE i > n
      <4>1. i - n \in 1 .. Width - n /\ n + (i - n) = i /\ ~(i <= n)
          BY <2>1, <3>3
      <4>2. r[i] = Space
          BY <2>2, <2>3, <4>1
      <4> QED BY <3>1, <4>1, <4>2 DEF Shown
    <3>4. i <= n \/ i > n
        BY <2>1
    <3> QED BY <3>2, <3>3, <3>4
  <2>5. DOMAIN r = 1 .. Width /\ r = [i \in 1 .. Width |-> r[i]]
    <3>1. r \in [1 .. Len(r) -> Characters] /\ Len(r) = Width
        BY <2>1, <2>3, LenProperties DEF IsLine
    <3> QED BY <3>1
  <2>6. ~torn => screen.text \in [1 .. Width -> Characters] /\ screen.cursor = insert
      BY DEF EditInv, ShownInv, Shows, IsScreen, Drawn
  <2>7. ~torn => screen.text = r
      BY <2>4, <2>5, <2>6
  <2>8. insert \in 0 .. n /\ (limit # -1 => n <= limit \/ (n = limit + 1 /\ Has(buffer, Quote)))
      BY DEF EditInv, TextInv, Fits
  <2> QED BY <2>6, <2>7, <2>8 DEF ScreenShowsLine, r
<1>2. HistoryIsTheLastLines
  <2>1. Len(history) = AtMost(Kept(entered)) /\ AtMost(Kept(entered)) <= HistoryDepth
      BY HistoryFacts
  <2>2. history = Suffix(Kept(entered), AtMost(Kept(entered))) /\ at \in 0 .. Len(history)
      BY DEF EditInv, HistoryInv
  <2> QED BY <2>1, <2>2 DEF HistoryIsTheLastLines, AtMost
<1> QED BY <1>1, <1>2 DEF LinesAreKept

\* The inductive invariant of the line editor.
THEOREM EditorInvariant == EditorAssumption => (EditorSpec => []EditInv)
<1> SUFFICES ASSUME EditorAssumption PROVE EditorSpec => []EditInv
    OBVIOUS
<1>1. EditorInit => EditInv
    BY EditStarts
<1>2. EditInv /\ [EditorNext]_editorVars => EditInv'
    BY EditStep
<1> QED BY <1>1, <1>2, PTL DEF EditorSpec

\* Whatever is typed, completed, recalled or given, in a buffer of any size: the screen
\* shows the line with the cursor at the insert position, unless a completion behind a
\* typed quote has torn the line; the line fits in the buffer, but for the end of a quote
\* after it; and the history holds the last lines that were entered and differ from the
\* one before (mos_editor.c).
THEOREM EditorSafety == EditorAssumption => (EditorSpec => []LinesAreKept)
<1> SUFFICES ASSUME EditorAssumption PROVE EditorSpec => []LinesAreKept
    OBVIOUS
<1>1. EditorSpec => []EditInv
    BY EditorInvariant
<1>2. EditInv => LinesAreKept
    BY EditClaims
<1> QED BY <1>1, <1>2, PTL

=============================================================================
