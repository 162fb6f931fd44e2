-------------------------- MODULE BackpatchProofs --------------------------
(***************************************************************************)
(* Proofs about jump lists: every jump is patched once, and stays in its   *)
(* function.                                                               *)
(***************************************************************************)
EXTENDS Backpatch, FiniteSetTheorems, SequenceTheorems, WellFoundedInduction, NaturalsInduction, TLAPS

-----------------------------------------------------------------------------
(* The inductive invariant. *)

Places ==
  [none : {0}] \cup [temp : Nat] \cup [var : {"x"}] \cup [const : {"true", "false"}] \cup [func : Nat]

JumpOps == {"jump"} \cup Range(IfOps)

QuadSet ==
  [op : JumpOps \cup {"assign", "param", "call", "getretval", "funcstart", "funcend", "ret"},
   arg1 : Places, arg2 : Places, result : Places, label : Nat, patches : Nat]

LoopSet == [breaklist : Seq(Nat), contlist : Seq(Nat)]

\* A sequence of things of no particular type.
IsSeq(s) == s \in Seq(Range(s))

IsBool(e) == e.type = "boolexpr_e" /\ e.truelist \in Seq(Nat) /\ e.falselist \in Seq(Nat)
IsExpr(e) == IsBool(e) \/ (e.type = "var_e" /\ e.place \in Places)

LoopRules == {"while", "whilebody", "forinit", "forcond", "forstep", "forbody"}

Kinds == ExprRules \cup StmtRules \cup {"expr", "stmt"}

\* What an item has for the rules that find it on the stack.
ItemOK(item) ==
  LET k == item.kind
  IN  /\ k \in Kinds
      /\ k = "expr" => IsExpr(item.e)
      /\ k \in Comparisons => IsExpr(item.left)
      /\ k \in {"and", "or"} => IsBool(item.left)
      /\ k \in {"then", "else", "whilebody", "forstep", "forbody"} => IsBool(item.cond)
      /\ k \in ListRules =>
           /\ {"kind", "args"} \subseteq DOMAIN item /\ item = [f \in DOMAIN item |-> item[f]]
           /\ IsSeq(item.args) /\ \A i \in DOMAIN item.args : IsExpr(item.args[i])
      /\ k = "forstep" => {"cond", "test", "step"} \subseteq DOMAIN item
      /\ k \in StmtLists => {"kind", "stmts"} \subseteq DOMAIN item /\ item = [f \in DOMAIN item |-> item[f]]
      /\ k = "funcbody" => "start" \in DOMAIN item /\ item.start \in Nat
      /\ k = "else" => item.end \in Nat
      /\ k = "forbody" => item.back \in Nat

\* The places that an item has for jumps to go to.
LabelsOf(item) ==
  CASE item.kind \in {"and", "or", "then"} -> {item.label}
    [] item.kind = "else" -> {item.label, item.end + 1}
    [] item.kind = "while" -> {item.start}
    [] item.kind = "whilebody" -> {item.start, item.label}
    [] item.kind = "forcond" -> {item.test}
    [] item.kind = "forstep" -> {item.test, item.step}
    [] item.kind = "forbody" -> {item.test, item.step, item.back + 1}
    [] OTHER -> {}

\* What the invariant needs to know of an item: whether it is a function, a
\* loop or neither, the jumps that wait there, and the places.
View(item) ==
  [class  |-> IF item.kind = "funcbody" THEN "func" ELSE IF item.kind \in LoopRules THEN "loop" ELSE "plain",
   held   |-> HeldBy(item),
   labels |-> LabelsOf(item),
   start  |-> IF item.kind = "funcbody" THEN item.start ELSE 0]

ViewSet == [class : {"func", "loop", "plain"}, held : Seq(Nat), labels : SUBSET Nat, start : Nat]

Views(s) == [i \in DOMAIN s |-> View(s[i])]

\* The functions that are open at item i, how many they are, and how many
\* loops are open in the last of them.
Opened(vs, i) == {vs[x].start : x \in {y \in 1..i : vs[y].class = "func"}}
FuncsTo(vs, i) == Cardinality({y \in 1..i : vs[y].class = "func"})
LoopsTo(vs, i) ==
  Cardinality({y \in 1..i : vs[y].class = "loop" /\ \A z \in y + 1..i : vs[z].class # "func"})

\* The functions around each place, those that are not finished included.
HomesOf(done, open) ==
  [n \in Nat |-> {done[i].start : i \in {j \in DOMAIN done : done[j].start < n /\ n <= done[j].end}}
                   \cup {s \in open : s < n}]

Home == HomesOf(bodies, Opened(Views(stack), Len(stack)))

JumpsOf(code) == {n \in 0..Len(code) - 1 : code[n + 1].op \in JumpOps}

\* The jumps of the quads: those in A wait for a target, the others have one,
\* in the same function.
Code(code, A, h) ==
  /\ code \in Seq(QuadSet)
  /\ A \subseteq JumpsOf(code)
  /\ \A n \in JumpsOf(code) :
       IF n \in A THEN code[n + 1].patches = 0 /\ code[n + 1].label = 0
       ELSE /\ code[n + 1].patches = 1 /\ code[n + 1].label <= Len(code)
            /\ h[code[n + 1].label] = h[n]

\* Everything that an item or a loop knows is in the function it is in, and
\* there are as many loops as items for them, in each function.
Nested(vs, loops, saved, h, len) ==
  /\ FuncsTo(vs, Len(vs)) = Len(saved) /\ LoopsTo(vs, Len(vs)) = Len(loops)
  /\ \A i \in DOMAIN vs : vs[i].class = "func" =>
       /\ Len(saved[FuncsTo(vs, i)]) = LoopsTo(vs, i - 1)
       /\ \A n \in Range(HeldByLoops(saved[FuncsTo(vs, i)])) : h[n] = Opened(vs, i - 1)
       /\ vs[i].start < len
       /\ \A j \in DOMAIN vs : i < j /\ vs[j].class = "func" => vs[i].start < vs[j].start
  /\ \A n \in Range(HeldByLoops(loops)) : h[n] = Opened(vs, Len(vs))
  /\ \A i \in DOMAIN vs : \A n \in Range(vs[i].held) \cup vs[i].labels :
       n <= len /\ h[n] = Opened(vs, i)

StackOK ==
  /\ IsSeq(stack) /\ stack # <<>> /\ stack[1].kind = "program"
  /\ \A i \in DOMAIN stack : ItemOK(stack[i]) /\ View(stack[i]) \in ViewSet /\ (i # 1 => stack[i].kind # "program")
  /\ loop_stack \in Seq(LoopSet) /\ savedLoops \in Seq(Seq(LoopSet))

BodiesApart ==
  /\ IsSeq(bodies)
  /\ \A i \in DOMAIN bodies :
       /\ bodies[i].start \in Nat /\ bodies[i].end \in Nat
       /\ bodies[i].end < Len(quads) /\ bodies[i].start < bodies[i].end
       /\ bodies[i].start \notin Opened(Views(stack), Len(stack))
       /\ \A j \in DOMAIN bodies : bodies[i].start = bodies[j].start => i = j

IInv ==
  /\ StackOK /\ BodiesApart
  /\ IsInjective(Held) /\ Code(quads, Range(Held), Home)
  /\ Nested(Views(stack), loop_stack, savedLoops, Home, Len(quads))

-----------------------------------------------------------------------------
(* Sequences. *)

\* A nonempty set of natural numbers has a least element.
LEMMA LeastOfSet ==
  ASSUME NEW T, T \subseteq Nat, T # {}
  PROVE  \E x \in T : \A y \in T : x <= y
<1> DEFINE R == OpToRel(<, Nat)
<1>1. IsWellFoundedOn(R, Nat)
  BY NatLessThanWellFounded
<1>2. \A x, y \in Nat : x < y => <<x, y>> \in R
  BY DEF OpToRel
<1> HIDE DEF R
<1>3. PICK x \in T : \A y \in T : ~ (<<y, x>> \in R)
  BY <1>1, WFMin
<1>4. \A y \in T : ~ (y < x)
  BY <1>2, <1>3
<1> QED BY <1>3, <1>4

\* Sequences of no particular type.
LEMMA Emptied == IsSeq(<<>>) /\ Range(<<>>) = {} /\ IsInjective(<<>>) /\ <<>> \in Seq(Nat)
BY DEF IsSeq, Range, IsInjective

OneMore(s, x, t) ==
  /\ IsSeq(t) /\ Len(t) = Len(s) + 1 /\ Len(s) \in Nat
  /\ DOMAIN t = 1..Len(s) + 1 /\ DOMAIN s = 1..Len(s)
  /\ \A i \in 1..Len(s) : t[i] = s[i]
  /\ t[Len(s) + 1] = x

LEMMA AppendTo ==
  ASSUME NEW s, IsSeq(s), NEW x, NEW t, t = Append(s, x)
  PROVE  OneMore(s, x, t)
<1>1. PICK S : S = Range(s) \cup {x}
  OBVIOUS
<1>2. s \in Seq(S) /\ x \in S
  BY <1>1 DEF IsSeq
<1>3. /\ t \in Seq(S) /\ Len(t) = Len(s) + 1 /\ Len(s) \in Nat
      /\ DOMAIN t = 1..Len(s) + 1 /\ DOMAIN s = 1..Len(s)
      /\ \A i \in 1..Len(s) : t[i] = s[i]
      /\ t[Len(s) + 1] = x
  BY <1>2
<1>4. t \in Seq(Range(t))
  <2>1. \A i \in 1..Len(t) : t[i] \in Range(t)
    BY <1>3 DEF Range
  <2> QED BY <1>3, <2>1
<1> QED BY <1>3, <1>4 DEF IsSeq, OneMore

\* The first n elements.
Prefix(s, n, t) ==
  /\ IsSeq(t) /\ Len(t) = n /\ Len(s) \in Nat
  /\ DOMAIN t = 1..n /\ DOMAIN s = 1..Len(s)
  /\ \A i \in 1..n : t[i] = s[i] /\ i \in DOMAIN s

LEMMA Shortened ==
  ASSUME NEW s, IsSeq(s), NEW n \in 0..Len(s), NEW t, t = SubSeq(s, 1, n)
  PROVE  Prefix(s, n, t)
<1>1. s \in Seq(Range(s)) /\ Len(s) \in Nat /\ DOMAIN s = 1..Len(s)
  BY DEF IsSeq
<1>2. /\ t \in Seq(Range(s)) /\ Len(t) = n
      /\ DOMAIN t = 1..n
      /\ \A i \in 1..n : t[i] = s[i] /\ i \in DOMAIN s
  BY <1>1
<1>3. t \in Seq(Range(t))
  <2>1. \A i \in 1..Len(t) : t[i] \in Range(t)
    BY <1>2 DEF Range
  <2> QED BY <1>2, <2>1
<1> QED BY <1>1, <1>2, <1>3 DEF IsSeq, Prefix

\* Two sequences with the same elements are the same.
LEMMA SameElements ==
  ASSUME NEW s, IsSeq(s), NEW t, IsSeq(t), Len(s) = Len(t), \A i \in 1..Len(s) : s[i] = t[i]
  PROVE  s = t
<1>1. PICK S : S = Range(s) \cup Range(t)
  OBVIOUS
<1>2. s \in Seq(S) /\ t \in Seq(S)
  BY <1>1 DEF IsSeq
<1> QED BY <1>2

LEMMA Typed ==
  ASSUME NEW S, NEW s \in Seq(S)
  PROVE  IsSeq(s)
BY DEF IsSeq, Range

\* What is in two lists of jumps that are put together.
LEMMA Joined ==
  ASSUME NEW a \in Seq(Nat), NEW b \in Seq(Nat)
  PROVE  /\ a \o b \in Seq(Nat)
         /\ Range(a \o b) = Range(a) \cup Range(b)
         /\ IsInjective(a \o b) <=> IsInjective(a) /\ IsInjective(b) /\ Range(a) \cap Range(b) = {}
<1>1. PICK c : c = a \o b
  OBVIOUS
<1>2. /\ c \in Seq(Nat) /\ Len(a) \in Nat /\ Len(b) \in Nat
      /\ DOMAIN a = 1..Len(a) /\ DOMAIN b = 1..Len(b) /\ DOMAIN c = 1..Len(a) + Len(b)
      /\ \A i \in 1..Len(a) + Len(b) : c[i] = IF i <= Len(a) THEN a[i] ELSE b[i - Len(a)]
  BY <1>1
<1>3. \A i \in DOMAIN a : i \in DOMAIN c /\ c[i] = a[i]
  BY <1>2
<1>4. \A i \in DOMAIN b : i + Len(a) \in DOMAIN c /\ c[i + Len(a)] = b[i]
  <2>1. ASSUME NEW i \in DOMAIN b
        PROVE  i + Len(a) \in 1..Len(a) + Len(b) /\ ~ (i + Len(a) <= Len(a)) /\ (i + Len(a)) - Len(a) = i
    BY <1>2
  <2> QED BY <1>2, <2>1
<1>5. \A i \in DOMAIN c : (i \in DOMAIN a /\ c[i] = a[i]) \/ \E j \in DOMAIN b : i = j + Len(a) /\ c[i] = b[j]
  <2>1. ASSUME NEW i \in DOMAIN c, ~ (i <= Len(a))
        PROVE  i - Len(a) \in DOMAIN b /\ i = (i - Len(a)) + Len(a) /\ c[i] = b[i - Len(a)]
    BY <1>2, <2>1
  <2> QED BY <1>2, <2>1
<1>6. Range(c) = Range(a) \cup Range(b)
  BY <1>3, <1>4, <1>5 DEF Range
<1>7. ASSUME IsInjective(c)
      PROVE  IsInjective(a) /\ IsInjective(b) /\ Range(a) \cap Range(b) = {}
  <2>1. IsInjective(a)
    BY <1>3, <1>7 DEF IsInjective
  <2>2. IsInjective(b)
    <3>1. ASSUME NEW i \in DOMAIN b, NEW j \in DOMAIN b, b[i] = b[j]
          PROVE  i = j
      <4>1. i + Len(a) = j + Len(a)
        BY <1>4, <1>7, <3>1 DEF IsInjective
      <4> QED BY <1>2, <4>1
    <3> QED BY <3>1 DEF IsInjective
  <2>3. \A i \in DOMAIN a, j \in DOMAIN b : a[i] # b[j]
    <3>1. ASSUME NEW i \in DOMAIN a, NEW j \in DOMAIN b, a[i] = b[j]
          PROVE  FALSE
      <4>1. i = j + Len(a)
        BY <1>3, <1>4, <1>7, <3>1 DEF IsInjective
      <4> QED BY <1>2, <4>1
    <3> QED BY <3>1
  <2> QED BY <2>1, <2>2, <2>3 DEF Range
<1>8. ASSUME IsInjective(a), IsInjective(b), Range(a) \cap Range(b) = {}
      PROVE  IsInjective(c)
  <2>1. \A i \in DOMAIN a, j \in DOMAIN b : a[i] # b[j]
    BY <1>8 DEF Range
  <2>2. ASSUME NEW i \in DOMAIN c, NEW j \in DOMAIN c, c[i] = c[j]
        PROVE  i = j
    <3>1. CASE i \in DOMAIN a /\ c[i] = a[i] /\ j \in DOMAIN a /\ c[j] = a[j]
      BY <1>8, <2>2, <3>1 DEF IsInjective
    <3>2. CASE /\ \E k \in DOMAIN b : i = k + Len(a) /\ c[i] = b[k]
               /\ \E k \in DOMAIN b : j = k + Len(a) /\ c[j] = b[k]
      BY <1>8, <2>2, <3>2 DEF IsInjective
    <3> QED BY <1>5, <2>1, <2>2, <3>1, <3>2
  <2> QED BY <2>2 DEF IsInjective
<1> QED BY <1>1, <1>2, <1>6, <1>7, <1>8

\* The sequences that FlattenSeq goes through.
Flat(f, m, seqs) == f = [i \in 1..m |-> IF i = 1 THEN seqs[i] ELSE f[i - 1] \o seqs[i]]

LEMMA FlattenUnfolds ==
  ASSUME NEW seqs, Len(seqs) # 0
  PROVE  FlattenSeq(seqs) = (CHOOSE f : Flat(f, Len(seqs), seqs))[Len(seqs)]
BY DEF FlattenSeq, Flat

LEMMA FlatExists ==
  ASSUME NEW seqs, NEW n \in Nat
  PROVE  \E f : Flat(f, n, seqs)
<1> DEFINE T == {m \in Nat : ~ \E f : Flat(f, m, seqs)}
<1> SUFFICES ASSUME T # {}
             PROVE  FALSE
  OBVIOUS
<1>1. T \subseteq Nat /\ \A m \in Nat : m \in T <=> ~ \E f : Flat(f, m, seqs)
  OBVIOUS
<1> HIDE DEF T
<1>2. PICK m \in T : \A y \in T : m <= y
  BY <1>1, LeastOfSet
<1>3. m \in Nat /\ ~ \E f : Flat(f, m, seqs)
  BY <1>1
<1>4. CASE m = 0
  <2>1. Flat([i \in 1..0 |-> seqs[i]], 0, seqs)
    BY DEF Flat
  <2> QED BY <1>3, <1>4, <2>1
<1>5. CASE m # 0
  <2>1. PICK k \in Nat : m = k + 1
    <3>1. m - 1 \in Nat /\ m = (m - 1) + 1
      BY <1>3, <1>5
    <3> QED BY <3>1
  <2>2. PICK f : Flat(f, k, seqs)
    <3>1. ~ (m <= k)
      BY <2>1
    <3> QED BY <1>1, <1>2, <3>1
  <2>3. PICK g : g = [i \in 1..k + 1 |-> IF i = 1 THEN seqs[i] ELSE f[i - 1] \o seqs[i]]
    OBVIOUS
  <2>4. ASSUME NEW i \in 1..k
        PROVE  g[i] = f[i]
    <3>1. i \in 1..k + 1
      BY <2>1
    <3> QED BY <2>2, <2>3, <2>4, <3>1 DEF Flat
  <2>5. ASSUME NEW i \in 1..k + 1
        PROVE  g[i] = IF i = 1 THEN seqs[i] ELSE g[i - 1] \o seqs[i]
    <3>1. i # 1 => i - 1 \in 1..k
      BY <2>1
    <3> QED BY <2>3, <2>4, <3>1
  <2>6. g = [i \in 1..k + 1 |-> g[i]]
    BY <2>3
  <2>7. Flat(g, k + 1, seqs)
    BY <2>5, <2>6 DEF Flat
  <2> QED BY <1>3, <2>1, <2>7
<1> QED BY <1>4, <1>5

LEMMA FlattenEmpty ==
  ASSUME NEW seqs, Len(seqs) = 0
  PROVE  FlattenSeq(seqs) = seqs
BY DEF FlattenSeq

LEMMA FlattenNothing ==
  ASSUME NEW seqs \in Seq(Seq(Nat)), Len(seqs) = 0
  PROVE  FlattenSeq(seqs) = <<>>
<1>1. seqs = <<>>
  OBVIOUS
<1> QED BY <1>1, FlattenEmpty

\* The sequences of Flat grow one by one.
LEMMA FlattenIs ==
  ASSUME NEW n \in Nat \ {0}, NEW seqs \in Seq(Seq(Nat)), Len(seqs) = n
  PROVE  \E f : /\ FlattenSeq(seqs) = f[n]
                /\ f[1] = seqs[1]
                /\ \A i \in 1..n : f[i] \in Seq(Nat) /\ (i # 1 => f[i] = f[i - 1] \o seqs[i])
<1>1. PICK f : f = (CHOOSE f1 : Flat(f1, n, seqs))
  OBVIOUS
<1>2. Flat(f, n, seqs)
  BY <1>1, FlatExists
<1>3. FlattenSeq(seqs) = f[n]
  BY <1>1, FlattenUnfolds
<1>4. f[1] = seqs[1] /\ \A i \in 1..n : i # 1 => f[i] = f[i - 1] \o seqs[i]
  <2>1. \A i \in 1..n : f[i] = IF i = 1 THEN seqs[i] ELSE f[i - 1] \o seqs[i]
    BY <1>2 DEF Flat
  <2>2. 1 \in 1..n
    OBVIOUS
  <2> QED BY <2>1, <2>2
<1> DEFINE T == {m \in 1..n : f[m] \notin Seq(Nat)}
<1>5. T = {}
  <2> SUFFICES ASSUME T # {}
               PROVE  FALSE
    OBVIOUS
  <2>1. T \subseteq Nat /\ T \subseteq 1..n /\ \A m \in 1..n : m \in T <=> f[m] \notin Seq(Nat)
    OBVIOUS
  <2> HIDE DEF T
  <2>2. PICK m \in T : \A y \in T : m <= y
    BY <2>1, LeastOfSet
  <2>3. m \in 1..n /\ f[m] \notin Seq(Nat)
    BY <2>1
  <2>4. m # 1
    BY <1>4, <2>3
  <2>5. m - 1 \in 1..n /\ ~ (m <= m - 1)
    BY <2>3, <2>4
  <2>6. f[m - 1] \in Seq(Nat)
    BY <2>1, <2>2, <2>5
  <2>7. seqs[m] \in Seq(Nat)
    BY <2>3
  <2>8. f[m - 1] \o seqs[m] \in Seq(Nat)
    BY <2>6, <2>7
  <2> QED BY <1>4, <2>3, <2>4, <2>8
<1> QED BY <1>3, <1>4, <1>5

LEMMA FlattenTyped ==
  ASSUME NEW seqs \in Seq(Seq(Nat))
  PROVE  FlattenSeq(seqs) \in Seq(Nat)
<1>1. CASE Len(seqs) = 0
  <2>1. seqs \in Seq(Nat)
    BY <1>1
  <2> QED BY <1>1, <2>1, FlattenEmpty
<1>2. CASE Len(seqs) # 0
  <2>1. PICK n \in Nat \ {0} : n = Len(seqs)
    BY <1>2
  <2>2. n \in 1..n
    OBVIOUS
  <2>3. PICK f : /\ FlattenSeq(seqs) = f[n]
                 /\ f[1] = seqs[1]
                 /\ \A i \in 1..n : f[i] \in Seq(Nat) /\ (i # 1 => f[i] = f[i - 1] \o seqs[i])
    <3>1. n \in Nat \ {0} /\ Len(seqs) = n
      BY <2>1
    <3> QED BY <3>1, FlattenIs
  <2> QED BY <2>2, <2>3
<1> QED BY <1>1, <1>2

\* One more list.
LEMMA FlattenOneMore ==
  ASSUME NEW seqs \in Seq(Seq(Nat)), NEW s \in Seq(Nat)
  PROVE  FlattenSeq(Append(seqs, s)) = FlattenSeq(seqs) \o s
<1>1. PICK n \in Nat : n = Len(seqs)
  OBVIOUS
<1>2. PICK more : more = Append(seqs, s)
  OBVIOUS
<1>3. /\ more \in Seq(Seq(Nat)) /\ Len(more) = n + 1 /\ more[n + 1] = s
      /\ \A i \in 1..n : more[i] = seqs[i]
  BY <1>1, <1>2
<1>4. PICK g : Flat(g, n + 1, more) /\ FlattenSeq(more) = g[n + 1]
  <2>1. PICK g : g = (CHOOSE f1 : Flat(f1, n + 1, more))
    OBVIOUS
  <2>2. Flat(g, n + 1, more)
    BY <2>1, FlatExists, n + 1 \in Nat
  <2>3. FlattenSeq(more) = g[n + 1]
    BY <1>3, <2>1, FlattenUnfolds
  <2> QED BY <2>2, <2>3
<1>5. CASE n = 0
  <2>1. g[1] = s
    BY <1>3, <1>4, <1>5 DEF Flat
  <2>2. FlattenSeq(seqs) = <<>>
    BY <1>1, <1>5, FlattenNothing
  <2>3. <<>> \o s = s
    OBVIOUS
  <2> QED BY <1>2, <1>4, <1>5, <2>1, <2>2, <2>3
<1>6. CASE n # 0
  <2>1. PICK f : Flat(f, n, seqs) /\ FlattenSeq(seqs) = f[n]
    <3>1. PICK f : f = (CHOOSE f1 : Flat(f1, n, seqs))
      OBVIOUS
    <3>2. Flat(f, n, seqs)
      BY <3>1, FlatExists
    <3>3. FlattenSeq(seqs) = f[n]
      BY <1>1, <1>6, <3>1, FlattenUnfolds
    <3> QED BY <3>2, <3>3
  <2> DEFINE T == {m \in 1..n : f[m] # g[m]}
  <2>2. T = {}
    <3> SUFFICES ASSUME T # {}
                 PROVE  FALSE
      OBVIOUS
    <3>1. T \subseteq Nat /\ T \subseteq 1..n /\ \A m \in 1..n : m \in T <=> f[m] # g[m]
      OBVIOUS
    <3> HIDE DEF T
    <3>2. PICK m \in T : \A y \in T : m <= y
      BY <3>1, LeastOfSet
    <3>3. m \in 1..n /\ m \in 1..n + 1 /\ f[m] # g[m]
      BY <3>1
    <3>4. f[m] = IF m = 1 THEN seqs[m] ELSE f[m - 1] \o seqs[m]
      BY <2>1, <3>3 DEF Flat
    <3>5. g[m] = IF m = 1 THEN seqs[m] ELSE g[m - 1] \o seqs[m]
      BY <1>3, <1>4, <3>3 DEF Flat
    <3>6. m # 1 => m - 1 \in 1..n /\ ~ (m <= m - 1)
      BY <3>3
    <3> QED BY <3>1, <3>2, <3>3, <3>4, <3>5, <3>6
  <2>3. f[n] = g[n]
    <3>1. n \in 1..n
      BY <1>6
    <3> QED BY <2>2, <3>1
  <2>4. g[n + 1] = g[n] \o s
    <3>1. n + 1 \in 1..n + 1 /\ n + 1 # 1 /\ (n + 1) - 1 = n
      BY <1>6
    <3> QED BY <1>3, <1>4, <3>1 DEF Flat
  <2> QED BY <1>2, <1>4, <2>1, <2>3, <2>4
<1> QED BY <1>5, <1>6

\* What is in all the lists together, and that they share nothing.
LEMMA FlattenParts ==
  ASSUME NEW seqs \in Seq(Seq(Nat)), IsInjective(FlattenSeq(seqs))
  PROVE  /\ Range(FlattenSeq(seqs)) = UNION {Range(seqs[i]) : i \in DOMAIN seqs}
         /\ \A i \in DOMAIN seqs : IsInjective(seqs[i])
         /\ \A i, j \in DOMAIN seqs : i # j => Range(seqs[i]) \cap Range(seqs[j]) = {}
<1>1. PICK n \in Nat : n = Len(seqs) /\ DOMAIN seqs = 1..n
  OBVIOUS
<1>2. CASE n = 0
  <2>1. FlattenSeq(seqs) = <<>> /\ DOMAIN seqs = {}
    <3>1. Len(seqs) = 0 /\ DOMAIN seqs = {}
      BY <1>1, <1>2
    <3> QED BY <3>1, FlattenNothing
  <2> QED BY <2>1, Emptied
<1>3. CASE n # 0
  <2>1. PICK f : /\ FlattenSeq(seqs) = f[n]
                 /\ f[1] = seqs[1]
                 /\ \A i \in 1..n : f[i] \in Seq(Nat) /\ (i # 1 => f[i] = f[i - 1] \o seqs[i])
    <3>1. n \in Nat \ {0}
      BY <1>3
    <3> QED BY <1>1, <3>1, FlattenIs
  <2>2. PICK U : U = [m \in 1..n |-> UNION {Range(seqs[i]) : i \in 1..m}]
    OBVIOUS
  <2> DEFINE Apart(m) == /\ Range(f[m]) = U[m]
                         /\ IsInjective(f[m]) =>
                              /\ \A i \in 1..m : IsInjective(seqs[i])
                              /\ \A i, j \in 1..m : i # j => Range(seqs[i]) \cap Range(seqs[j]) = {}
  <2>6. \A m : Apart(m) <=>
              /\ Range(f[m]) = U[m]
              /\ IsInjective(f[m]) =>
                   /\ \A i \in 1..m : IsInjective(seqs[i])
                   /\ \A i, j \in 1..m : i # j => Range(seqs[i]) \cap Range(seqs[j]) = {}
    OBVIOUS
  <2> HIDE DEF Apart
  <2> DEFINE T == {m \in 1..n : ~ Apart(m)}
  <2>3. T = {}
    <3> SUFFICES ASSUME T # {}
                 PROVE  FALSE
      OBVIOUS
    <3>1. T \subseteq Nat /\ T \subseteq 1..n /\ \A m \in 1..n : m \in T <=> ~ Apart(m)
      OBVIOUS
    <3> HIDE DEF T
    <3>2. PICK m \in T : \A y \in T : m <= y
      BY <3>1, LeastOfSet
    <3>3. m \in 1..n /\ ~ Apart(m)
      BY <3>1
    <3>4. CASE m = 1
      <4>1. U[1] = Range(seqs[1])
        BY <2>2, <3>3, <3>4
      <4>2. \A i \in 1..1 : i = 1
        OBVIOUS
      <4> QED BY <2>1, <2>6, <3>3, <3>4, <4>1, <4>2
    <3>5. CASE m # 1
      <4>1. PICK k \in 1..n : m = k + 1 /\ k = m - 1
        <5>1. m - 1 \in 1..n /\ m = (m - 1) + 1
          BY <3>3, <3>5
        <5> QED BY <5>1
      <4>2. Apart(k)
        <5>1. ~ (m <= k)
          BY <4>1
        <5> QED BY <3>1, <3>2, <5>1
      <4>3. f[m] = f[k] \o seqs[m] /\ f[k] \in Seq(Nat) /\ seqs[m] \in Seq(Nat)
        <5>1. f[m] = f[m - 1] \o seqs[m]
          BY <2>1, <3>3, <3>5
        <5>2. seqs[m] \in Seq(Nat)
          BY <1>1, <3>3
        <5>3. f[k] \in Seq(Nat)
          BY <2>1
        <5> QED BY <4>1, <5>1, <5>2, <5>3
      <4>4. /\ Range(f[m]) = Range(f[k]) \cup Range(seqs[m])
            /\ IsInjective(f[m]) <=>
                 IsInjective(f[k]) /\ IsInjective(seqs[m]) /\ Range(f[k]) \cap Range(seqs[m]) = {}
        BY <4>3, Joined
      <4>5. 1..m = 1..k \cup {m}
        BY <4>1
      <4>6. U[m] = U[k] \cup Range(seqs[m])
        BY <2>2, <3>3, <4>5
      <4>7. \A i \in 1..k : Range(seqs[i]) \subseteq U[k]
        BY <2>2
      <4>8. ASSUME IsInjective(f[m])
            PROVE  /\ \A i \in 1..m : IsInjective(seqs[i])
                   /\ \A i, j \in 1..m : i # j => Range(seqs[i]) \cap Range(seqs[j]) = {}
        <5>1. \A i \in 1..k : Range(seqs[i]) \cap Range(seqs[m]) = {}
          <6>1. Range(f[k]) = U[k] /\ Range(f[k]) \cap Range(seqs[m]) = {}
            BY <2>6, <4>2, <4>4, <4>8
          <6> QED BY <4>7, <6>1
        <5> QED BY <2>6, <4>2, <4>4, <4>5, <4>8, <5>1
      <4> QED BY <2>6, <3>3, <4>2, <4>4, <4>6, <4>8
    <3> QED BY <3>4, <3>5
  <2>4. Apart(n)
    <3>1. n \in 1..n
      BY <1>3
    <3> QED BY <2>3, <3>1
  <2>5. U[n] = UNION {Range(seqs[i]) : i \in DOMAIN seqs}
    BY <1>1, <1>3, <2>2
  <2> QED BY <1>1, <2>1, <2>4, <2>5, <2>6
<1> QED BY <1>2, <1>3

-----------------------------------------------------------------------------
(* The jumps that wait. *)

\* A function applied to the elements of a sequence, one more than before.
LEMMA MapOneMore ==
  ASSUME NEW n \in Nat, NEW a, a = [i \in 1..n |-> a[i]], NEW b, b = [i \in 1..n + 1 |-> b[i]],
         \A i \in 1..n : a[i] \in Seq(Nat) /\ b[i] = a[i], b[n + 1] \in Seq(Nat)
  PROVE  a \in Seq(Seq(Nat)) /\ b = Append(a, b[n + 1])
<1>0. PICK T : T = Seq(Nat)
  OBVIOUS
<1>7. PICK t : t = b[n + 1] /\ t \in T
  BY <1>0
<1>1. a \in [1..n -> T]
  BY <1>0
<1>2. a \in Seq(T) /\ Len(a) = n
  BY <1>1, SeqDef
<1>3. PICK c : c = Append(a, t)
  OBVIOUS
<1>4. /\ c \in Seq(T) /\ Len(c) = n + 1 /\ c[n + 1] = t /\ DOMAIN c = 1..n + 1
      /\ \A i \in 1..n : c[i] = a[i]
  BY <1>2, <1>3, <1>7
<1>5. \A i \in 1..n + 1 : b[i] = c[i]
  <2>1. \A i \in 1..n + 1 : i \in 1..n \/ i = n + 1
    OBVIOUS
  <2> QED BY <1>0, <1>4, <1>7, <2>1
<1>6. c = [i \in 1..n + 1 |-> c[i]]
  BY <1>4
<1> QED BY <1>0, <1>2, <1>3, <1>5, <1>6, <1>7

HeldIn(vs) == FlattenSeq([i \in DOMAIN vs |-> vs[i].held])
HeldBySaved(saved) == FlattenSeq([i \in DOMAIN saved |-> HeldByLoops(saved[i])])

LEMMA HeldInParts == Held = HeldIn(Views(stack)) \o HeldByLoops(loop_stack) \o HeldBySaved(savedLoops)
<1>1. [i \in DOMAIN Views(stack) |-> Views(stack)[i].held] = [i \in DOMAIN stack |-> HeldBy(stack[i])]
  BY DEF Views, View
<1> QED BY <1>1 DEF Held, HeldIn, HeldBySaved

LEMMA HeldInOneMore ==
  ASSUME NEW vs \in Seq(ViewSet), NEW v \in ViewSet
  PROVE  HeldIn(vs) \in Seq(Nat) /\ HeldIn(Append(vs, v)) = HeldIn(vs) \o v.held
<1>1. PICK a : a = [i \in DOMAIN vs |-> vs[i].held]
  OBVIOUS
<1>2. PICK ws : ws = Append(vs, v)
  OBVIOUS
<1>3. PICK b : b = [i \in DOMAIN ws |-> ws[i].held]
  OBVIOUS
<1>4. PICK n \in Nat : /\ DOMAIN vs = 1..n /\ DOMAIN ws = 1..n + 1 /\ ws[n + 1] = v
                       /\ \A i \in 1..n : ws[i] = vs[i] /\ vs[i] \in ViewSet
  <2>1. Len(vs) \in Nat
    OBVIOUS
  <2> QED BY <1>2, <2>1
<1>5. \A x \in ViewSet : x.held \in Seq(Nat)
  BY DEF ViewSet
<1>6. \A i \in 1..n : a[i] \in Seq(Nat) /\ b[i] = a[i]
  BY <1>1, <1>3, <1>4, <1>5
<1>7. b[n + 1] = v.held /\ v.held \in Seq(Nat)
  BY <1>3, <1>4, <1>5
<1>8. a \in Seq(Seq(Nat)) /\ b = Append(a, v.held)
  <2>1. a = [i \in 1..n |-> a[i]] /\ b = [i \in 1..n + 1 |-> b[i]]
    BY <1>1, <1>3, <1>4
  <2>2. b[n + 1] \in Seq(Nat)
    BY <1>7
  <2>3. a \in Seq(Seq(Nat)) /\ b = Append(a, b[n + 1])
    BY <1>6, <2>1, <2>2, MapOneMore
  <2> QED BY <1>7, <2>3
<1>9. HeldIn(vs) = FlattenSeq(a) /\ HeldIn(ws) = FlattenSeq(b)
  BY <1>1, <1>3 DEF HeldIn
<1> QED BY <1>2, <1>7, <1>8, <1>9, FlattenOneMore, FlattenTyped

ListsOfLoop(l) == l.breaklist \o l.contlist

LEMMA HeldByLoopsOneMore ==
  ASSUME NEW ls \in Seq(LoopSet), NEW l \in LoopSet
  PROVE  /\ HeldByLoops(ls) \in Seq(Nat) /\ ListsOfLoop(l) \in Seq(Nat)
         /\ HeldByLoops(Append(ls, l)) = HeldByLoops(ls) \o ListsOfLoop(l)
<1>1. PICK a : a = [i \in DOMAIN ls |-> ListsOfLoop(ls[i])]
  OBVIOUS
<1>2. \A k \in LoopSet : ListsOfLoop(k) \in Seq(Nat)
  BY DEF LoopSet, ListsOfLoop
<1>3. PICK ks : ks = Append(ls, l)
  OBVIOUS
<1>4. PICK b : b = [i \in DOMAIN ks |-> ListsOfLoop(ks[i])]
  OBVIOUS
<1>5. PICK n \in Nat : /\ DOMAIN ls = 1..n /\ DOMAIN ks = 1..n + 1 /\ ks[n + 1] = l
                       /\ \A i \in 1..n : ks[i] = ls[i] /\ ls[i] \in LoopSet
  <2>1. Len(ls) \in Nat
    OBVIOUS
  <2> QED BY <1>3, <2>1
<1>6. \A i \in 1..n : a[i] \in Seq(Nat) /\ b[i] = a[i]
  BY <1>1, <1>2, <1>4, <1>5
<1>7. b[n + 1] = ListsOfLoop(l) /\ ListsOfLoop(l) \in Seq(Nat)
  BY <1>2, <1>4, <1>5
<1>8. a \in Seq(Seq(Nat)) /\ b = Append(a, ListsOfLoop(l))
  <2>1. a = [i \in 1..n |-> a[i]] /\ b = [i \in 1..n + 1 |-> b[i]]
    BY <1>1, <1>4, <1>5
  <2>2. b[n + 1] \in Seq(Nat)
    BY <1>7
  <2>3. a \in Seq(Seq(Nat)) /\ b = Append(a, b[n + 1])
    BY <1>6, <2>1, <2>2, MapOneMore
  <2> QED BY <1>7, <2>3
<1>9. HeldByLoops(ls) = FlattenSeq(a) /\ HeldByLoops(ks) = FlattenSeq(b)
  BY <1>1, <1>4 DEF HeldByLoops, ListsOfLoop
<1> QED BY <1>3, <1>7, <1>8, <1>9, FlattenOneMore, FlattenTyped

LEMMA HeldByNoLoops == HeldByLoops(<<>>) = <<>>
<1>1. PICK a : a = [i \in DOMAIN <<>> |-> ListsOfLoop(<<>>[i])]
  OBVIOUS
<1>2. a = <<>>
  BY <1>1
<1>3. HeldByLoops(<<>>) = FlattenSeq(a)
  BY <1>1 DEF HeldByLoops, ListsOfLoop
<1>4. FlattenSeq(<<>>) = <<>>
  BY DEF FlattenSeq
<1> QED BY <1>2, <1>3, <1>4

LEMMA HeldBySavedOneMore ==
  ASSUME NEW ss \in Seq(Seq(LoopSet)), NEW ls \in Seq(LoopSet)
  PROVE  /\ HeldBySaved(ss) \in Seq(Nat)
         /\ HeldBySaved(Append(ss, ls)) = HeldBySaved(ss) \o HeldByLoops(ls)
<1>1. PICK a : a = [i \in DOMAIN ss |-> HeldByLoops(ss[i])]
  OBVIOUS
<1>2. \A k \in Seq(LoopSet) : HeldByLoops(k) \in Seq(Nat)
  <2>1. PICK l : l = [breaklist |-> <<>>, contlist |-> <<>>]
    OBVIOUS
  <2>2. l \in LoopSet
    <3>1. <<>> \in Seq(Nat)
      OBVIOUS
    <3> QED BY <2>1, <3>1 DEF LoopSet
  <2> QED BY <2>2, HeldByLoopsOneMore
<1>3. PICK ts : ts = Append(ss, ls)
  OBVIOUS
<1>4. PICK b : b = [i \in DOMAIN ts |-> HeldByLoops(ts[i])]
  OBVIOUS
<1>5. PICK n \in Nat : /\ DOMAIN ss = 1..n /\ DOMAIN ts = 1..n + 1 /\ ts[n + 1] = ls
                       /\ \A i \in 1..n : ts[i] = ss[i] /\ ss[i] \in Seq(LoopSet)
  <2>1. PICK S : S = Seq(LoopSet)
    OBVIOUS
  <2>2. ss \in Seq(S) /\ ls \in S /\ Len(ss) \in Nat
    BY <2>1
  <2> QED BY SMTT(30), <1>3, <2>1, <2>2
<1>6. \A i \in 1..n : a[i] \in Seq(Nat) /\ b[i] = a[i]
  BY <1>1, <1>2, <1>4, <1>5
<1>7. b[n + 1] = HeldByLoops(ls) /\ HeldByLoops(ls) \in Seq(Nat)
  BY <1>2, <1>4, <1>5
<1>8. a \in Seq(Seq(Nat)) /\ b = Append(a, HeldByLoops(ls))
  <2>1. a = [i \in 1..n |-> a[i]] /\ b = [i \in 1..n + 1 |-> b[i]]
    BY <1>1, <1>4, <1>5
  <2>2. b[n + 1] \in Seq(Nat)
    BY <1>7
  <2>3. a \in Seq(Seq(Nat)) /\ b = Append(a, b[n + 1])
    BY <1>6, <2>1, <2>2, MapOneMore
  <2> QED BY <1>7, <2>3
<1>9. HeldBySaved(ss) = FlattenSeq(a) /\ HeldBySaved(ts) = FlattenSeq(b)
  BY <1>1, <1>4 DEF HeldBySaved
<1> QED BY <1>3, <1>7, <1>8, <1>9, FlattenOneMore, FlattenTyped

-----------------------------------------------------------------------------
(* Functions and loops around the items of a stack. *)

LEMMA CountOne ==
  ASSUME NEW S, IsFiniteSet(S), NEW x, x \notin S
  PROVE  Cardinality(S \cup {x}) = Cardinality(S) + 1 /\ Cardinality(S) \in Nat
BY FS_AddElement, FS_CardinalityType

\* What a new item does to the counts.
Pushed(vs, v, ws, n) ==
  /\ n \in Nat /\ ws \in Seq(ViewSet) /\ Len(ws) = n + 1 /\ ws[n + 1] = v
  /\ DOMAIN ws = 1..n + 1 /\ DOMAIN vs = 1..n
  /\ \A i \in 1..n : ws[i] = vs[i]
  /\ \A i \in 0..n : /\ Opened(ws, i) = Opened(vs, i)
                     /\ FuncsTo(ws, i) = FuncsTo(vs, i)
                     /\ LoopsTo(ws, i) = LoopsTo(vs, i)
  /\ v.class = "func" => /\ Opened(ws, n + 1) = Opened(vs, n) \cup {v.start}
                         /\ FuncsTo(ws, n + 1) = FuncsTo(vs, n) + 1 /\ LoopsTo(ws, n + 1) = 0
  /\ v.class # "func" => /\ Opened(ws, n + 1) = Opened(vs, n)
                         /\ FuncsTo(ws, n + 1) = FuncsTo(vs, n)
  /\ v.class = "loop" => LoopsTo(ws, n + 1) = LoopsTo(vs, n) + 1
  /\ v.class = "plain" => LoopsTo(ws, n + 1) = LoopsTo(vs, n)
  /\ \A i \in 0..n : FuncsTo(vs, i) \in Nat /\ LoopsTo(vs, i) \in Nat

LEMMA OneItemMore ==
  ASSUME NEW vs \in Seq(ViewSet), NEW v \in ViewSet, NEW ws, ws = Append(vs, v), NEW n, n = Len(vs)
  PROVE  Pushed(vs, v, ws, n)
<1>1. /\ n \in Nat /\ ws \in Seq(ViewSet) /\ Len(ws) = n + 1 /\ ws[n + 1] = v
      /\ DOMAIN ws = 1..n + 1 /\ DOMAIN vs = 1..n
      /\ \A i \in 1..n : ws[i] = vs[i]
  OBVIOUS
<1>2. PICK F : F = [i \in 0..n + 1 |-> {y \in 1..i : ws[y].class = "func"}]
  OBVIOUS
<1>3. PICK L : L = [i \in 0..n + 1 |-> {y \in 1..i : ws[y].class = "loop" /\ \A z \in y + 1..i : ws[z].class # "func"}]
  OBVIOUS
<1>4. ASSUME NEW i \in 0..n
      PROVE  /\ F[i] = {y \in 1..i : vs[y].class = "func"}
             /\ L[i] = {y \in 1..i : vs[y].class = "loop" /\ \A z \in y + 1..i : vs[z].class # "func"}
             /\ IsFiniteSet(F[i]) /\ IsFiniteSet(L[i])
  <2>1. i \in 0..n + 1 /\ 1..i \subseteq 1..n /\ \A y \in 1..i : y + 1..i \subseteq 1..n
    BY <1>1
  <2>2. F[i] \subseteq 1..i /\ L[i] \subseteq 1..i
    BY <1>2, <1>3, <2>1
  <2>3. IsFiniteSet(1..i)
    BY <2>1, FS_Interval
  <2>4. IsFiniteSet(F[i]) /\ IsFiniteSet(L[i])
    BY <2>2, <2>3, FS_Subset
  <2>5. \A y \in 1..i : ws[y] = vs[y]
    BY <1>1, <2>1
  <2>6. F[i] = {y \in 1..i : vs[y].class = "func"}
    BY <1>2, <2>1, <2>5
  <2>7. L[i] = {y \in 1..i : vs[y].class = "loop" /\ \A z \in y + 1..i : vs[z].class # "func"}
    <3>1. \A y \in 1..i : (\A z \in y + 1..i : ws[z].class # "func") <=> (\A z \in y + 1..i : vs[z].class # "func")
      BY <1>1, <2>1
    <3> QED BY <1>3, <2>1, <2>5, <3>1
  <2> QED BY <2>4, <2>6, <2>7
<1>5. ASSUME NEW i \in 0..n
      PROVE  /\ Opened(ws, i) = Opened(vs, i)
             /\ FuncsTo(ws, i) = FuncsTo(vs, i) /\ FuncsTo(vs, i) = Cardinality(F[i]) /\ FuncsTo(vs, i) \in Nat
             /\ LoopsTo(ws, i) = LoopsTo(vs, i) /\ LoopsTo(vs, i) = Cardinality(L[i]) /\ LoopsTo(vs, i) \in Nat
  <2>1. i \in 0..n + 1
    BY <1>1
  <2>2. FuncsTo(ws, i) = Cardinality(F[i]) /\ LoopsTo(ws, i) = Cardinality(L[i])
    BY <1>2, <1>3, <2>1 DEF FuncsTo, LoopsTo
  <2>3. FuncsTo(vs, i) = Cardinality(F[i]) /\ LoopsTo(vs, i) = Cardinality(L[i])
    BY <1>4 DEF FuncsTo, LoopsTo
  <2>4. Cardinality(F[i]) \in Nat /\ Cardinality(L[i]) \in Nat
    BY <1>4, FS_CardinalityType
  <2>5. Opened(ws, i) = {ws[x].start : x \in F[i]} /\ Opened(vs, i) = {vs[x].start : x \in F[i]}
    BY <1>2, <1>4, <2>1 DEF Opened
  <2>6. \A x \in F[i] : ws[x] = vs[x]
    BY <1>1, <1>4
  <2>7. Opened(ws, i) = Opened(vs, i)
    <3>1. {ws[x].start : x \in F[i]} = {vs[x].start : x \in F[i]}
      BY <2>6
    <3> QED BY <2>5, <3>1
  <2> QED BY <2>2, <2>3, <2>4, <2>7
<1>6. /\ n + 1 \in 0..n + 1 /\ n \in 0..n /\ 1..n + 1 = 1..n \cup {n + 1} /\ n + 1 \notin 1..n
      /\ \A y \in 1..n : y + 1..n + 1 = (y + 1..n) \cup {n + 1}
      /\ (n + 1) + 1..n + 1 = {}
  BY <1>1
<1>7. FuncsTo(ws, n + 1) = Cardinality(F[n + 1]) /\ LoopsTo(ws, n + 1) = Cardinality(L[n + 1])
  BY <1>2, <1>3, <1>6 DEF FuncsTo, LoopsTo
<1>8. /\ Opened(ws, n + 1) = {ws[x].start : x \in F[n + 1]}
      /\ Opened(vs, n) = {ws[x].start : x \in F[n]}
  <2>1. Opened(ws, n) = {ws[x].start : x \in F[n]}
    BY <1>2, <1>6, n \in 0..n + 1 DEF Opened
  <2> QED BY <1>2, <1>5, <1>6, <2>1 DEF Opened
<1>9. /\ F[n] = {y \in 1..n : ws[y].class = "func"}
      /\ F[n + 1] = {y \in 1..n + 1 : ws[y].class = "func"}
      /\ L[n] = {y \in 1..n : ws[y].class = "loop" /\ \A z \in y + 1..n : ws[z].class # "func"}
      /\ L[n + 1] = {y \in 1..n + 1 : ws[y].class = "loop" /\ \A z \in y + 1..n + 1 : ws[z].class # "func"}
  BY <1>2, <1>3, <1>6, n \in 0..n + 1
<1>10. CASE v.class = "func"
  <2>1. F[n + 1] = F[n] \cup {n + 1} /\ n + 1 \notin F[n]
    BY <1>1, <1>6, <1>9, <1>10
  <2>2. L[n + 1] = {}
    <3>1. \A y \in 1..n : n + 1 \in y + 1..n + 1
      BY <1>6
    <3>2. \A y \in 1..n : y \notin L[n + 1]
      BY <1>1, <1>9, <1>10, <3>1
    <3>3. n + 1 \notin L[n + 1]
      BY <1>1, <1>9, <1>10
    <3> QED BY <1>6, <1>9, <3>2, <3>3
  <2>3. Cardinality(F[n + 1]) = Cardinality(F[n]) + 1
    BY SMTT(30), <1>4, <1>6, <2>1, CountOne
  <2>4. Opened(ws, n + 1) = Opened(vs, n) \cup {v.start}
    <3>1. {ws[x].start : x \in F[n] \cup {n + 1}} = {ws[x].start : x \in F[n]} \cup {ws[n + 1].start}
      OBVIOUS
    <3> QED BY <1>1, <1>8, <2>1, <3>1
  <2>5. Cardinality(L[n + 1]) = 0
    BY <2>2, FS_EmptySet
  <2> QED BY <1>1, <1>5, <1>6, <1>7, <1>10, <2>3, <2>4, <2>5 DEF Pushed
<1>11. CASE v.class # "func"
  <2>1. F[n + 1] = F[n]
    BY <1>1, <1>6, <1>9, <1>11
  <2>2. Opened(ws, n + 1) = Opened(vs, n) /\ FuncsTo(ws, n + 1) = FuncsTo(vs, n)
    BY <1>5, <1>6, <1>7, <1>8, <2>1
  <2>3. \A y \in 1..n : (\A z \in y + 1..n + 1 : ws[z].class # "func") <=> (\A z \in y + 1..n : ws[z].class # "func")
    BY <1>1, <1>6, <1>11
  <2>4. \A y \in 1..n : y \in L[n + 1] <=> y \in L[n]
    BY <1>6, <1>9, <2>3
  <2>5. n + 1 \in L[n + 1] <=> v.class = "loop"
    BY <1>1, <1>6, <1>9
  <2>6. L[n] \subseteq 1..n /\ L[n + 1] \subseteq 1..n \cup {n + 1}
    BY <1>6, <1>9
  <2>7. ASSUME v.class = "loop"
        PROVE  LoopsTo(ws, n + 1) = LoopsTo(vs, n) + 1
    <3>1. L[n + 1] = L[n] \cup {n + 1} /\ n + 1 \notin L[n]
      BY <1>6, <2>4, <2>5, <2>6, <2>7
    <3>2. IsFiniteSet(L[n]) /\ LoopsTo(vs, n) = Cardinality(L[n])
      BY <1>4, <1>5, <1>6
    <3>3. Cardinality(L[n] \cup {n + 1}) = Cardinality(L[n]) + 1
      BY <3>1, <3>2, CountOne
    <3> QED BY <1>7, <3>1, <3>2, <3>3
  <2>8. ASSUME v.class = "plain"
        PROVE  LoopsTo(ws, n + 1) = LoopsTo(vs, n)
    <3>1. L[n + 1] = L[n]
      BY <2>4, <2>5, <2>6, <2>8
    <3> QED BY <1>5, <1>6, <1>7, <3>1
  <2> QED BY <1>1, <1>5, <1>11, <2>2, <2>7, <2>8 DEF Pushed
<1> QED BY <1>1, <1>5, <1>10, <1>11 DEF Pushed

LEMMA FuncsGrow ==
  ASSUME NEW vs \in Seq(ViewSet), NEW j \in 0..Len(vs), NEW i \in 1..j, vs[i].class = "func"
  PROVE  FuncsTo(vs, i) \in 1..FuncsTo(vs, j) /\ FuncsTo(vs, j) \in Nat
<1>1. PICK F : F = [k \in {i, j} |-> {y \in 1..k : vs[y].class = "func"}]
  OBVIOUS
<1>2. F[i] \subseteq F[j] /\ i \in F[i] /\ F[j] \subseteq 1..j
  BY <1>1
<1>3. IsFiniteSet(F[j])
  <2>1. IsFiniteSet(1..j)
    BY FS_Interval
  <2> QED BY <1>2, <2>1, FS_Subset
<1>4. IsFiniteSet(F[i]) /\ Cardinality(F[i]) <= Cardinality(F[j]) /\ Cardinality(F[i]) \in Nat /\ Cardinality(F[j]) \in Nat
  BY <1>2, <1>3, FS_Subset, FS_CardinalityType
<1>5. Cardinality(F[i]) # 0
  BY <1>2, <1>4, FS_EmptySet
<1>6. FuncsTo(vs, i) = Cardinality(F[i]) /\ FuncsTo(vs, j) = Cardinality(F[j])
  BY <1>1 DEF FuncsTo
<1> QED BY <1>4, <1>5, <1>6

\* What an item may know, in a function that has the places where h is home.
Knows(v, h, len, home) == \A n \in Range(v.held) \cup v.labels : n <= len /\ h[n] = home

LEMMA NestedPush ==
  ASSUME NEW vs \in Seq(ViewSet), NEW v \in ViewSet, v.class = "plain",
         NEW loops, NEW saved, NEW h, NEW len, Nested(vs, loops, saved, h, len),
         Knows(v, h, len, Opened(vs, Len(vs)))
  PROVE  Nested(Append(vs, v), loops, saved, h, len)
<1>1. PICK ws : ws = Append(vs, v)
  OBVIOUS
<1>2. PICK n : n = Len(vs)
  OBVIOUS
<1>3. /\ n \in Nat /\ Len(ws) = n + 1 /\ ws[n + 1] = v
      /\ DOMAIN ws = 1..n + 1 /\ DOMAIN vs = 1..n
      /\ \A i \in 1..n : ws[i] = vs[i]
      /\ \A i \in 0..n : /\ Opened(ws, i) = Opened(vs, i)
                         /\ FuncsTo(ws, i) = FuncsTo(vs, i)
                         /\ LoopsTo(ws, i) = LoopsTo(vs, i)
      /\ Opened(ws, n + 1) = Opened(vs, n) /\ FuncsTo(ws, n + 1) = FuncsTo(vs, n)
      /\ LoopsTo(ws, n + 1) = LoopsTo(vs, n)
  <2>1. Pushed(vs, v, ws, n)
    BY <1>1, <1>2, OneItemMore
  <2> QED BY <2>1 DEF Pushed
<1>4. \A i \in DOMAIN ws : i = n + 1 \/ (i \in DOMAIN vs /\ i \in 0..n /\ i - 1 \in 0..n)
  BY <1>3
<1>5. FuncsTo(ws, Len(ws)) = Len(saved) /\ LoopsTo(ws, Len(ws)) = Len(loops) /\ Opened(ws, Len(ws)) = Opened(vs, Len(vs))
  BY <1>2, <1>3 DEF Nested
<1>6. ASSUME NEW i \in DOMAIN ws, ws[i].class = "func"
      PROVE  /\ Len(saved[FuncsTo(ws, i)]) = LoopsTo(ws, i - 1)
             /\ \A m \in Range(HeldByLoops(saved[FuncsTo(ws, i)])) : h[m] = Opened(ws, i - 1)
             /\ ws[i].start < len
             /\ \A j \in DOMAIN ws : i < j /\ ws[j].class = "func" => ws[i].start < ws[j].start
  <2>1. i \in DOMAIN vs /\ i \in 0..n /\ i - 1 \in 0..n /\ ws[i] = vs[i]
    BY <1>3, <1>4, <1>6
  <2>2. \A j \in DOMAIN ws : ws[j].class = "func" => j \in DOMAIN vs /\ ws[j] = vs[j]
    BY <1>3, <1>4
  <2> QED BY <1>3, <1>6, <2>1, <2>2 DEF Nested
<1>7. \A m \in Range(HeldByLoops(loops)) : h[m] = Opened(ws, Len(ws))
  BY <1>5 DEF Nested
<1>8. ASSUME NEW i \in DOMAIN ws, NEW m \in Range(ws[i].held) \cup ws[i].labels
      PROVE  m <= len /\ h[m] = Opened(ws, i)
  <2>1. CASE i = n + 1
    BY <1>2, <1>3, <1>8, <2>1 DEF Knows
  <2>2. CASE i \in DOMAIN vs /\ i \in 0..n
    BY <1>3, <1>8, <2>2 DEF Nested
  <2> QED BY <1>4, <2>1, <2>2
<1> QED BY <1>1, <1>5, <1>6, <1>7, <1>8 DEF Nested

LEMMA NestedPop ==
  ASSUME NEW vs \in Seq(ViewSet), NEW v \in ViewSet, v.class = "plain",
         NEW loops, NEW saved, NEW h, NEW len, Nested(Append(vs, v), loops, saved, h, len)
  PROVE  Nested(vs, loops, saved, h, len) /\ Knows(v, h, len, Opened(vs, Len(vs)))
<1>1. PICK ws : ws = Append(vs, v)
  OBVIOUS
<1>2. PICK n : n = Len(vs)
  OBVIOUS
<1>3. /\ n \in Nat /\ Len(ws) = n + 1 /\ ws[n + 1] = v
      /\ DOMAIN ws = 1..n + 1 /\ DOMAIN vs = 1..n
      /\ \A i \in 1..n : ws[i] = vs[i]
      /\ \A i \in 0..n : /\ Opened(ws, i) = Opened(vs, i)
                         /\ FuncsTo(ws, i) = FuncsTo(vs, i)
                         /\ LoopsTo(ws, i) = LoopsTo(vs, i)
      /\ Opened(ws, n + 1) = Opened(vs, n) /\ FuncsTo(ws, n + 1) = FuncsTo(vs, n)
      /\ LoopsTo(ws, n + 1) = LoopsTo(vs, n)
  <2>1. Pushed(vs, v, ws, n)
    BY <1>1, <1>2, OneItemMore
  <2> QED BY <2>1 DEF Pushed
<1>4. Nested(ws, loops, saved, h, len)
  BY <1>1
<1>5. \A i \in DOMAIN vs : i \in DOMAIN ws /\ i \in 0..n /\ i - 1 \in 0..n /\ ws[i] = vs[i]
  BY <1>3
<1>6. FuncsTo(vs, Len(vs)) = Len(saved) /\ LoopsTo(vs, Len(vs)) = Len(loops) /\ Opened(ws, Len(ws)) = Opened(vs, Len(vs))
  BY <1>2, <1>3, <1>4 DEF Nested
<1>7. ASSUME NEW i \in DOMAIN vs, vs[i].class = "func"
      PROVE  /\ Len(saved[FuncsTo(vs, i)]) = LoopsTo(vs, i - 1)
             /\ \A m \in Range(HeldByLoops(saved[FuncsTo(vs, i)])) : h[m] = Opened(vs, i - 1)
             /\ vs[i].start < len
             /\ \A j \in DOMAIN vs : i < j /\ vs[j].class = "func" => vs[i].start < vs[j].start
  BY <1>3, <1>4, <1>5, <1>7 DEF Nested
<1>8. \A m \in Range(HeldByLoops(loops)) : h[m] = Opened(vs, Len(vs))
  BY <1>4, <1>6 DEF Nested
<1>9. ASSUME NEW i \in DOMAIN vs, NEW m \in Range(vs[i].held) \cup vs[i].labels
      PROVE  m <= len /\ h[m] = Opened(vs, i)
  BY <1>3, <1>4, <1>5, <1>9 DEF Nested
<1>10. Nested(vs, loops, saved, h, len)
  BY <1>6, <1>7, <1>8, <1>9 DEF Nested
<1>11. Knows(v, h, len, Opened(vs, Len(vs)))
  <2>1. n + 1 \in DOMAIN ws
    BY <1>3
  <2> QED BY <1>2, <1>3, <1>4, <2>1 DEF Nested, Knows
<1> QED BY <1>10, <1>11

LEMMA NestedPushLoop ==
  ASSUME NEW vs \in Seq(ViewSet), NEW v \in ViewSet, v.class = "loop",
         NEW loops \in Seq(LoopSet), NEW l \in LoopSet, NEW saved, NEW h, NEW len,
         Nested(vs, loops, saved, h, len),
         Knows(v, h, len, Opened(vs, Len(vs))),
         \A m \in Range(ListsOfLoop(l)) : h[m] = Opened(vs, Len(vs))
  PROVE  Nested(Append(vs, v), Append(loops, l), saved, h, len)
<1>1. PICK ws : ws = Append(vs, v)
  OBVIOUS
<1>2. PICK n : n = Len(vs)
  OBVIOUS
<1>3. /\ n \in Nat /\ Len(ws) = n + 1 /\ ws[n + 1] = v
      /\ DOMAIN ws = 1..n + 1 /\ DOMAIN vs = 1..n
      /\ \A i \in 1..n : ws[i] = vs[i]
      /\ \A i \in 0..n : /\ Opened(ws, i) = Opened(vs, i)
                         /\ FuncsTo(ws, i) = FuncsTo(vs, i)
                         /\ LoopsTo(ws, i) = LoopsTo(vs, i)
      /\ Opened(ws, n + 1) = Opened(vs, n) /\ FuncsTo(ws, n + 1) = FuncsTo(vs, n)
      /\ LoopsTo(ws, n + 1) = LoopsTo(vs, n) + 1
  <2>1. Pushed(vs, v, ws, n)
    BY <1>1, <1>2, OneItemMore
  <2> QED BY <2>1 DEF Pushed
<1>4. \A i \in DOMAIN ws : i = n + 1 \/ (i \in DOMAIN vs /\ i \in 0..n /\ i - 1 \in 0..n)
  BY <1>3
<1>5. /\ FuncsTo(ws, Len(ws)) = Len(saved) /\ LoopsTo(ws, Len(ws)) = Len(Append(loops, l))
      /\ Opened(ws, Len(ws)) = Opened(vs, Len(vs))
  BY <1>2, <1>3 DEF Nested
<1>6. ASSUME NEW i \in DOMAIN ws, ws[i].class = "func"
      PROVE  /\ Len(saved[FuncsTo(ws, i)]) = LoopsTo(ws, i - 1)
             /\ \A m \in Range(HeldByLoops(saved[FuncsTo(ws, i)])) : h[m] = Opened(ws, i - 1)
             /\ ws[i].start < len
             /\ \A j \in DOMAIN ws : i < j /\ ws[j].class = "func" => ws[i].start < ws[j].start
  <2>1. i \in DOMAIN vs /\ i \in 0..n /\ i - 1 \in 0..n /\ ws[i] = vs[i]
    BY <1>3, <1>4, <1>6
  <2>2. \A j \in DOMAIN ws : ws[j].class = "func" => j \in DOMAIN vs /\ ws[j] = vs[j]
    BY <1>3, <1>4
  <2> QED BY <1>3, <1>6, <2>1, <2>2 DEF Nested
<1>7. \A m \in Range(HeldByLoops(Append(loops, l))) : h[m] = Opened(ws, Len(ws))
  <2>1. Range(HeldByLoops(Append(loops, l))) = Range(HeldByLoops(loops)) \cup Range(ListsOfLoop(l))
    BY HeldByLoopsOneMore, Joined
  <2> QED BY <1>5, <2>1 DEF Nested
<1>8. ASSUME NEW i \in DOMAIN ws, NEW m \in Range(ws[i].held) \cup ws[i].labels
      PROVE  m <= len /\ h[m] = Opened(ws, i)
  <2>1. CASE i = n + 1
    BY <1>2, <1>3, <1>8, <2>1 DEF Knows
  <2>2. CASE i \in DOMAIN vs /\ i \in 0..n
    BY <1>3, <1>8, <2>2 DEF Nested
  <2> QED BY <1>4, <2>1, <2>2
<1> QED BY <1>1, <1>5, <1>6, <1>7, <1>8 DEF Nested

LEMMA NestedPopLoop ==
  ASSUME NEW vs \in Seq(ViewSet), NEW v \in ViewSet, v.class = "loop",
         NEW loops \in Seq(LoopSet), NEW saved, NEW h, NEW len, Nested(Append(vs, v), loops, saved, h, len)
  PROVE  \E ks \in Seq(LoopSet), l \in LoopSet :
           /\ loops = Append(ks, l) /\ ks = Front(loops) /\ l = Last(loops)
           /\ Nested(vs, ks, saved, h, len) /\ Knows(v, h, len, Opened(vs, Len(vs)))
           /\ \A m \in Range(ListsOfLoop(l)) : h[m] = Opened(vs, Len(vs))
<1>1. PICK ws : ws = Append(vs, v)
  OBVIOUS
<1>2. PICK n : n = Len(vs)
  OBVIOUS
<1>3. /\ n \in Nat /\ Len(ws) = n + 1 /\ ws[n + 1] = v
      /\ DOMAIN ws = 1..n + 1 /\ DOMAIN vs = 1..n
      /\ \A i \in 1..n : ws[i] = vs[i]
      /\ \A i \in 0..n : /\ Opened(ws, i) = Opened(vs, i)
                         /\ FuncsTo(ws, i) = FuncsTo(vs, i)
                         /\ LoopsTo(ws, i) = LoopsTo(vs, i)
                         /\ LoopsTo(vs, i) \in Nat
      /\ Opened(ws, n + 1) = Opened(vs, n) /\ FuncsTo(ws, n + 1) = FuncsTo(vs, n)
      /\ LoopsTo(ws, n + 1) = LoopsTo(vs, n) + 1
  <2>1. Pushed(vs, v, ws, n)
    BY <1>1, <1>2, OneItemMore
  <2> QED BY <2>1 DEF Pushed
<1>4. Nested(ws, loops, saved, h, len)
  BY <1>1
<1>5. \A i \in DOMAIN vs : i \in DOMAIN ws /\ i \in 0..n /\ i - 1 \in 0..n /\ ws[i] = vs[i]
  BY <1>3
<1>6. Len(loops) = LoopsTo(vs, n) + 1 /\ LoopsTo(vs, n) \in Nat /\ n \in 0..n
  BY <1>3, <1>4 DEF Nested
<1>7. PICK ks, l : ks = Front(loops) /\ l = Last(loops)
  OBVIOUS
<1>8. ks \in Seq(LoopSet) /\ l \in LoopSet /\ loops = Append(ks, l) /\ Len(ks) = LoopsTo(vs, n)
  BY <1>6, <1>7 DEF Front, Last
<1>9. Range(HeldByLoops(loops)) = Range(HeldByLoops(ks)) \cup Range(ListsOfLoop(l))
  <2>1. HeldByLoops(loops) = HeldByLoops(ks) \o ListsOfLoop(l) /\ HeldByLoops(ks) \in Seq(Nat) /\ ListsOfLoop(l) \in Seq(Nat)
    BY <1>8, HeldByLoopsOneMore
  <2> QED BY <2>1, Joined
<1>10. FuncsTo(vs, Len(vs)) = Len(saved) /\ LoopsTo(vs, Len(vs)) = Len(ks) /\ Opened(ws, Len(ws)) = Opened(vs, Len(vs))
  BY <1>2, <1>3, <1>4, <1>8 DEF Nested
<1>11. ASSUME NEW i \in DOMAIN vs, vs[i].class = "func"
      PROVE  /\ Len(saved[FuncsTo(vs, i)]) = LoopsTo(vs, i - 1)
             /\ \A m \in Range(HeldByLoops(saved[FuncsTo(vs, i)])) : h[m] = Opened(vs, i - 1)
             /\ vs[i].start < len
             /\ \A j \in DOMAIN vs : i < j /\ vs[j].class = "func" => vs[i].start < vs[j].start
  BY SMTT(30), <1>3, <1>4, <1>5, <1>11 DEF Nested
<1>12. \A m \in Range(HeldByLoops(loops)) : h[m] = Opened(vs, Len(vs))
  BY <1>4, <1>10 DEF Nested
<1>13. ASSUME NEW i \in DOMAIN vs, NEW m \in Range(vs[i].held) \cup vs[i].labels
      PROVE  m <= len /\ h[m] = Opened(vs, i)
  BY <1>3, <1>4, <1>5, <1>13 DEF Nested
<1>14. Nested(vs, ks, saved, h, len)
  BY <1>9, <1>10, <1>11, <1>12, <1>13 DEF Nested
<1>15. Knows(v, h, len, Opened(vs, Len(vs)))
  <2>1. n + 1 \in DOMAIN ws
    BY <1>3
  <2> QED BY <1>2, <1>3, <1>4, <2>1 DEF Nested, Knows
<1>16. \A m \in Range(ListsOfLoop(l)) : h[m] = Opened(vs, Len(vs))
  BY <1>9, <1>12
<1> QED BY <1>7, <1>8, <1>14, <1>15, <1>16

-----------------------------------------------------------------------------
(* Emitting and patching.  H are the jumps that the action at work holds,  *)
(* R those that wait elsewhere.                                            *)

Working(code, H, R, h, here) ==
  /\ Code(code, H \cup R, h) /\ H \cap R = {}
  /\ \A n \in H : h[n] = here
  /\ \A n \in Nat : Len(code) <= n => h[n] = here

LEMMA JumpOpsAre ==
  /\ Comparisons = {"eq", "noteq", "less", "lesseq", "greater", "greatereq"}
  /\ \A k \in Comparisons : IfOps[k] \in JumpOps
  /\ JumpOps = {"jump", "if_eq", "if_noteq", "if_less", "if_lesseq", "if_greater", "if_greatereq"}
<1>1. Comparisons = {"eq", "noteq", "less", "lesseq", "greater", "greatereq"}
  BY DEF Comparisons, IfOps
<1>2. Range(IfOps) = {IfOps[k] : k \in Comparisons}
  BY DEF Range, Comparisons
<1>3. /\ IfOps["eq"] = "if_eq" /\ IfOps["noteq"] = "if_noteq" /\ IfOps["less"] = "if_less"
      /\ IfOps["lesseq"] = "if_lesseq" /\ IfOps["greater"] = "if_greater" /\ IfOps["greatereq"] = "if_greatereq"
  BY DEF IfOps
<1>4. Range(IfOps) = {"if_eq", "if_noteq", "if_less", "if_lesseq", "if_greater", "if_greatereq"}
  BY <1>1, <1>2, <1>3
<1>5. \A k \in Comparisons : IfOps[k] \in Range(IfOps)
  BY <1>2
<1> QED BY <1>1, <1>4, <1>5 DEF JumpOps

\* One quad more.
OneQuadMore(code, q, c) ==
  /\ c \in Seq(QuadSet) /\ Len(c) = Len(code) + 1 /\ Len(code) \in Nat
  /\ c[Len(code) + 1] = q
  /\ JumpsOf(code) \subseteq 0..Len(code) - 1
  /\ \A n \in 0..Len(code) - 1 : c[n + 1] = code[n + 1]
  /\ JumpsOf(c) = IF q.op \in JumpOps THEN JumpsOf(code) \cup {Len(code)} ELSE JumpsOf(code)

LEMMA QuadMore ==
  ASSUME NEW code \in Seq(QuadSet), NEW q \in QuadSet, NEW c, c = Append(code, q)
  PROVE  OneQuadMore(code, q, c)
<1>1. /\ c \in Seq(QuadSet) /\ Len(c) = Len(code) + 1 /\ Len(code) \in Nat
      /\ c[Len(code) + 1] = q
      /\ \A i \in 1..Len(code) : c[i] = code[i]
  OBVIOUS
<1>2. \A n \in 0..Len(code) - 1 : c[n + 1] = code[n + 1]
  <2>1. \A n \in 0..Len(code) - 1 : n + 1 \in 1..Len(code)
    BY <1>1
  <2> QED BY <1>1, <2>1
<1>3. 0..Len(c) - 1 = (0..Len(code) - 1) \cup {Len(code)}
  BY <1>1
<1>4. JumpsOf(c) = IF q.op \in JumpOps THEN JumpsOf(code) \cup {Len(code)} ELSE JumpsOf(code)
  BY <1>1, <1>2, <1>3 DEF JumpsOf
<1> QED BY <1>1, <1>2, <1>4 DEF JumpsOf, OneQuadMore

LEMMA CodeMore ==
  ASSUME NEW code, NEW A, NEW h, Code(code, A, h), NEW q \in QuadSet, q.op \notin JumpOps
  PROVE  /\ Code(Append(code, q), A, h)
         /\ Len(Append(code, q)) = Len(code) + 1 /\ Len(code) \in Nat
<1>1. PICK c : c = Append(code, q)
  OBVIOUS
<1>2. code \in Seq(QuadSet)
  BY DEF Code
<1>3. /\ c \in Seq(QuadSet) /\ Len(c) = Len(code) + 1 /\ Len(code) \in Nat
      /\ JumpsOf(code) \subseteq 0..Len(code) - 1
      /\ \A n \in 0..Len(code) - 1 : c[n + 1] = code[n + 1]
      /\ JumpsOf(c) = JumpsOf(code)
  <2>1. OneQuadMore(code, q, c)
    BY <1>1, <1>2, QuadMore
  <2> QED BY <2>1 DEF OneQuadMore
<1>4. \A n \in JumpsOf(code) : code[n + 1].label <= Len(code) => code[n + 1].label <= Len(c)
  <2>1. \A n \in JumpsOf(code) : code[n + 1].label \in Nat
    <3>1. \A n \in JumpsOf(code) : code[n + 1] \in QuadSet
      BY <1>2, <1>3
    <3> QED BY <3>1 DEF QuadSet
  <2> QED BY <1>3, <2>1
<1>5. Code(c, A, h)
  <2>1. \A n \in JumpsOf(c) : c[n + 1] = code[n + 1]
    BY <1>3
  <2> QED BY <1>3, <1>4, <2>1 DEF Code
<1> QED BY <1>1, <1>3, <1>5

LEMMA Emitted ==
  ASSUME NEW code, NEW H, NEW R, NEW h, NEW here, Working(code, H, R, h, here),
         NEW q \in QuadSet, q.op \notin JumpOps
  PROVE  /\ Working(Append(code, q), H, R, h, here)
         /\ Len(Append(code, q)) = Len(code) + 1 /\ Len(code) \in Nat
<1>1. Code(code, H \cup R, h)
  BY DEF Working
<1>2. PICK c : c = Append(code, q)
  OBVIOUS
<1>3. Code(c, H \cup R, h) /\ Len(c) = Len(code) + 1 /\ Len(code) \in Nat
  BY <1>1, <1>2, CodeMore
<1> QED BY <1>2, <1>3 DEF Working

LEMMA JumpEmitted ==
  ASSUME NEW code, NEW H, NEW R, NEW h, NEW here, Working(code, H, R, h, here),
         NEW q \in QuadSet, q.op \in JumpOps, q.label = 0, q.patches = 0
  PROVE  /\ Working(Append(code, q), H \cup {Len(code)}, R, h, here)
         /\ Len(Append(code, q)) = Len(code) + 1 /\ Len(code) \in Nat
         /\ Len(code) \notin H \cup R
<1>1. PICK c : c = Append(code, q)
  OBVIOUS
<1>2. code \in Seq(QuadSet)
  BY DEF Working, Code
<1>3. /\ c \in Seq(QuadSet) /\ Len(c) = Len(code) + 1 /\ Len(code) \in Nat
      /\ c[Len(code) + 1] = q
      /\ JumpsOf(code) \subseteq 0..Len(code) - 1
      /\ \A n \in 0..Len(code) - 1 : c[n + 1] = code[n + 1]
      /\ JumpsOf(c) = JumpsOf(code) \cup {Len(code)}
  <2>1. OneQuadMore(code, q, c)
    BY <1>1, <1>2, QuadMore
  <2> QED BY <2>1 DEF OneQuadMore
<1>4. \A n \in JumpsOf(code) : code[n + 1].label <= Len(code) => code[n + 1].label <= Len(c)
  <2>1. \A n \in JumpsOf(code) : code[n + 1].label \in Nat
    <3>1. \A n \in JumpsOf(code) : code[n + 1] \in QuadSet
      BY <1>2, <1>3
    <3> QED BY <3>1 DEF QuadSet
  <2> QED BY <1>3, <2>1
<1>5. H \cup R \subseteq JumpsOf(code) /\ Len(code) \notin JumpsOf(code)
  BY <1>3 DEF Working, Code
<1>6. Code(c, (H \cup {Len(code)}) \cup R, h)
  <2>1. \A n \in JumpsOf(code) : c[n + 1] = code[n + 1] /\ (n \in (H \cup {Len(code)}) \cup R <=> n \in H \cup R)
    BY <1>3, <1>5
  <2>2. (H \cup {Len(code)}) \cup R \subseteq JumpsOf(c)
    BY <1>3, <1>5
  <2> QED BY <1>3, <1>4, <2>1, <2>2 DEF Working, Code
<1>7. h[Len(code)] = here
  BY <1>3 DEF Working
<1> QED BY <1>1, <1>3, <1>5, <1>6, <1>7 DEF Working

LEMMA JumpToEmitted ==
  ASSUME NEW code, NEW H, NEW R, NEW h, NEW here, Working(code, H, R, h, here),
         NEW label \in Nat, label <= Len(code), h[label] = here
  PROVE  /\ Working(Append(code, JumpTo(label)), H, R, h, here)
         /\ Len(Append(code, JumpTo(label))) = Len(code) + 1 /\ Len(code) \in Nat
<1>1. PICK q : q = JumpTo(label)
  OBVIOUS
<1>2. q \in QuadSet /\ q.op = "jump" /\ q.label = label /\ q.patches = 1
  <2>1. NoArg \in Places
    BY DEF NoArg, Places
  <2> QED BY <1>1, <2>1, JumpOpsAre DEF JumpTo, OpenJump, Quad, QuadSet
<1>3. PICK c : c = Append(code, q)
  OBVIOUS
<1>4. code \in Seq(QuadSet) /\ q.op \in JumpOps
  BY <1>2, JumpOpsAre DEF Working, Code
<1>5. /\ c \in Seq(QuadSet) /\ Len(c) = Len(code) + 1 /\ Len(code) \in Nat
      /\ c[Len(code) + 1] = q
      /\ JumpsOf(code) \subseteq 0..Len(code) - 1
      /\ \A n \in 0..Len(code) - 1 : c[n + 1] = code[n + 1]
      /\ JumpsOf(c) = JumpsOf(code) \cup {Len(code)}
  <2>1. OneQuadMore(code, q, c)
    BY <1>2, <1>3, <1>4, QuadMore
  <2> QED BY <1>2, <1>4, <2>1 DEF OneQuadMore
<1>6. \A n \in JumpsOf(code) : code[n + 1].label <= Len(code) => code[n + 1].label <= Len(c)
  <2>1. \A n \in JumpsOf(code) : code[n + 1].label \in Nat
    <3>1. \A n \in JumpsOf(code) : code[n + 1] \in QuadSet
      BY <1>4, <1>5
    <3> QED BY <3>1 DEF QuadSet
  <2> QED BY <1>5, <2>1
<1>7. H \cup R \subseteq JumpsOf(code) /\ Len(code) \notin JumpsOf(code)
  BY <1>5 DEF Working, Code
<1>8. h[Len(code)] = here /\ label <= Len(c)
  BY <1>5 DEF Working
<1>9. Code(c, H \cup R, h)
  <2>1. \A n \in JumpsOf(code) : c[n + 1] = code[n + 1]
    BY <1>5
  <2>2. H \cup R \subseteq JumpsOf(c) /\ Len(code) \notin H \cup R
    BY <1>5, <1>7
  <2> QED BY <1>2, <1>5, <1>6, <1>8, <2>1, <2>2 DEF Working, Code
<1> QED BY <1>1, <1>3, <1>5, <1>9 DEF Working

LEMMA Patched ==
  ASSUME NEW code, NEW H, NEW R, NEW h, NEW here, Working(code, H, R, h, here),
         NEW list, Range(list) \subseteq H,
         NEW label \in Nat, label <= Len(code), h[label] = here
  PROVE  /\ Working(PatchList(code, list, label), H \ Range(list), R, h, here)
         /\ Len(PatchList(code, list, label)) = Len(code) /\ Len(code) \in Nat
<1>1. PICK c : c = PatchList(code, list, label)
  OBVIOUS
<1>2. code \in Seq(QuadSet) /\ Len(code) \in Nat /\ DOMAIN code = 1..Len(code) /\ \A n \in DOMAIN code : code[n] \in QuadSet
  BY DEF Working, Code
<1>3. c = [n \in 1..Len(code) |->
             IF n - 1 \in Range(list) THEN [code[n] EXCEPT !.label = label, !.patches = @ + 1] ELSE code[n]]
  BY <1>1, <1>2 DEF PatchList
<1>4. ASSUME NEW n \in 1..Len(code)
      PROVE  /\ c[n] \in QuadSet /\ c[n].op = code[n].op
             /\ n - 1 \in Range(list) => c[n].label = label /\ c[n].patches = code[n].patches + 1
             /\ n - 1 \notin Range(list) => c[n] = code[n]
  <2>1. PICK q : q = code[n]
    OBVIOUS
  <2>2. PICK r : r = [q EXCEPT !.label = label, !.patches = @ + 1]
    OBVIOUS
  <2>3. q \in QuadSet
    BY <1>2, <2>1
  <2>4. r \in QuadSet /\ r.op = q.op /\ r.label = label /\ r.patches = q.patches + 1
    <3>1. PICK p : p = q.patches + 1
      OBVIOUS
    <3>2. p \in Nat
      BY <2>3, <3>1 DEF QuadSet
    <3>3. r = [q EXCEPT !.label = label, !.patches = p]
      BY <2>2, <3>1
    <3>4. r \in QuadSet /\ r.op = q.op /\ r.label = label /\ r.patches = p
      BY <2>3, <3>2, <3>3 DEF QuadSet
    <3> QED BY <3>1, <3>4
  <2>5. c[n] = IF n - 1 \in Range(list) THEN r ELSE q
    BY <1>3, <2>1, <2>2
  <2> QED BY <2>1, <2>3, <2>4, <2>5
<1>5. c \in Seq(QuadSet) /\ Len(c) = Len(code) /\ DOMAIN c = 1..Len(code)
  <2>1. c \in [1..Len(code) -> QuadSet]
    BY <1>3, <1>4
  <2> QED BY <1>2, <2>1, SeqDef
<1>6. JumpsOf(c) = JumpsOf(code)
  <2>1. \A n \in 0..Len(code) - 1 : n + 1 \in 1..Len(code)
    BY <1>2
  <2> QED BY <1>4, <1>5, <2>1 DEF JumpsOf
<1>7. Code(c, (H \ Range(list)) \cup R, h)
  <2>1. H \cup R \subseteq JumpsOf(code) /\ H \cap R = {} /\ \A n \in H : h[n] = here
    BY DEF Working, Code
  <2>2. (H \ Range(list)) \cup R \subseteq JumpsOf(c)
    BY <1>6, <2>1
  <2>3. ASSUME NEW n \in JumpsOf(c)
        PROVE  IF n \in (H \ Range(list)) \cup R THEN c[n + 1].patches = 0 /\ c[n + 1].label = 0
               ELSE /\ c[n + 1].patches = 1 /\ c[n + 1].label <= Len(c)
                    /\ h[c[n + 1].label] = h[n]
    <3>1. n + 1 \in 1..Len(code) /\ (n + 1) - 1 = n /\ n \in JumpsOf(code)
      <4>1. n \in JumpsOf(code) /\ n \in 0..Len(code) - 1
        BY <1>6 DEF JumpsOf
      <4> QED BY <1>2, <4>1
    <3>2. IF n \in H \cup R THEN code[n + 1].patches = 0 /\ code[n + 1].label = 0
          ELSE /\ code[n + 1].patches = 1 /\ code[n + 1].label <= Len(code)
               /\ h[code[n + 1].label] = h[n]
      BY <3>1 DEF Working, Code
    <3>3. CASE n \in Range(list)
      <4>1. n \in H /\ n \notin (H \ Range(list)) \cup R
        BY <2>1, <3>3
      <4>2. c[n + 1].label = label /\ c[n + 1].patches = 0 + 1
        BY <1>4, <3>1, <3>2, <3>3, <4>1
      <4> QED BY <1>5, <2>1, <4>1, <4>2
    <3>4. CASE n \notin Range(list)
      <4>1. c[n + 1] = code[n + 1]
        BY <1>4, <3>1, <3>4
      <4> QED BY <1>5, <3>2, <3>4, <4>1
    <3> QED BY <3>3, <3>4
  <2> QED BY <1>5, <2>2, <2>3 DEF Code
<1> QED BY <1>1, <1>2, <1>5, <1>7 DEF Working

-----------------------------------------------------------------------------
(* Values and conditions. *)

LEMMA PlacesAre ==
  /\ NoArg \in Places /\ Var \in Places /\ Const("true") \in Places /\ Const("false") \in Places
  /\ \A n \in Nat : Temp(n) \in Places /\ Func(n) \in Places
<1>1. NoArg \in Places /\ Var \in Places
  BY DEF NoArg, Var, Places
<1>2. Const("true") \in Places /\ Const("false") \in Places
  BY DEF Const, Places
<1>3. ASSUME NEW n \in Nat
      PROVE  Temp(n) \in Places /\ Func(n) \in Places
  BY DEF Temp, Func, Places
<1> QED BY <1>1, <1>2, <1>3

LEMMA QuadIs ==
  ASSUME NEW op \in JumpOps \cup {"assign", "param", "call", "getretval", "funcstart", "funcend", "ret"},
         NEW arg1 \in Places, NEW arg2 \in Places, NEW result \in Places
  PROVE  /\ Quad(op, arg1, arg2, result, 0) \in QuadSet
         /\ Quad(op, arg1, arg2, result, 0).op = op
         /\ Quad(op, arg1, arg2, result, 0).label = 0
         /\ Quad(op, arg1, arg2, result, 0).patches = 0
BY DEF Quad, QuadSet

LEMMA OpenJumpIs ==
  OpenJump \in QuadSet /\ OpenJump.op \in JumpOps /\ OpenJump.label = 0 /\ OpenJump.patches = 0
<1>1. "jump" \in JumpOps
  BY JumpOpsAre
<1> QED BY <1>1, PlacesAre, QuadIs DEF OpenJump

LEMMA TwoMore ==
  ASSUME NEW code \in Seq(QuadSet), NEW p \in QuadSet, NEW q \in QuadSet
  PROVE  code \o <<p, q>> = Append(Append(code, p), q)
OBVIOUS

LEMMA OneOrTwo ==
  ASSUME NEW m \in Nat, NEW n \in Nat, m # n
  PROVE  /\ <<m>> \in Seq(Nat) /\ Range(<<m>>) = {m} /\ IsInjective(<<m>>)
         /\ <<m>> \o <<n>> \in Seq(Nat) /\ Range(<<m>> \o <<n>>) = {m, n} /\ IsInjective(<<m>> \o <<n>>)
<1>1. <<m>> \in Seq(Nat) /\ Range(<<m>>) = {m} /\ IsInjective(<<m>>)
  BY DEF Range, IsInjective
<1>2. <<n>> \in Seq(Nat) /\ Range(<<n>>) = {n} /\ IsInjective(<<n>>)
  BY DEF Range, IsInjective
<1>3. Range(<<m>>) \cap Range(<<n>>) = {} /\ {m} \cup {n} = {m, n}
  BY <1>1, <1>2
<1>4. /\ <<m>> \o <<n>> \in Seq(Nat) /\ Range(<<m>> \o <<n>>) = Range(<<m>>) \cup Range(<<n>>)
      /\ IsInjective(<<m>> \o <<n>>) <=> IsInjective(<<m>>) /\ IsInjective(<<n>>) /\ Range(<<m>>) \cap Range(<<n>>) = {}
  BY <1>1, <1>2, Joined
<1> QED BY <1>1, <1>2, <1>3, <1>4

\* An expression whose jumps are among those that the action holds.
Given(e, H) == IsExpr(e) /\ IsInjective(ListsOf(e)) /\ Range(ListsOf(e)) \subseteq H

LEMMA ListsAre ==
  ASSUME NEW e, IsExpr(e)
  PROVE  /\ ListsOf(e) \in Seq(Nat)
         /\ e.type = "boolexpr_e" => IsBool(e) /\ ListsOf(e) = e.truelist \o e.falselist
         /\ e.type # "boolexpr_e" => e.type = "var_e" /\ e.place \in Places /\ ListsOf(e) = <<>>
<1>1. CASE e.type = "boolexpr_e"
  <2>1. IsBool(e)
    BY <1>1 DEF IsExpr
  <2>2. e.truelist \o e.falselist \in Seq(Nat)
    BY <2>1 DEF IsBool
  <2> QED BY <1>1, <2>1, <2>2 DEF ListsOf
<1>2. CASE e.type # "boolexpr_e"
  <2>1. e.type = "var_e" /\ e.place \in Places
    BY <1>2 DEF IsExpr, IsBool
  <2> QED BY <1>2, <2>1, Emptied DEF ListsOf
<1> QED BY <1>1, <1>2

\* The code and the expression r that e becomes.
Became(code, H, e, r, R, h, here) ==
  /\ IsExpr(r.e) /\ IsInjective(ListsOf(r.e))
  /\ (H \ Range(ListsOf(e))) \cap Range(ListsOf(r.e)) = {}
  /\ Working(r.code, (H \ Range(ListsOf(e))) \cup Range(ListsOf(r.e)), R, h, here)
  /\ Len(code) \in Nat /\ Len(r.code) \in Nat /\ Len(code) <= Len(r.code)

LEMMA StaysSame ==
  ASSUME NEW code, NEW H, NEW R, NEW h, NEW here, Working(code, H, R, h, here), NEW e, Given(e, H),
         NEW r, r.code = code, r.e = e
  PROVE  Became(code, H, e, r, R, h, here)
<1>1. (H \ Range(ListsOf(e))) \cup Range(ListsOf(e)) = H
  BY DEF Given
<1>2. Len(code) \in Nat /\ Len(code) <= Len(code)
  BY DEF Working, Code
<1>3. Working(r.code, (H \ Range(ListsOf(e))) \cup Range(ListsOf(r.e)), R, h, here)
  BY <1>1
<1>4. (H \ Range(ListsOf(e))) \cap Range(ListsOf(r.e)) = {}
  OBVIOUS
<1>5. IsExpr(r.e) /\ IsInjective(ListsOf(r.e))
  BY DEF Given
<1> QED BY <1>2, <1>3, <1>4, <1>5 DEF Became

LEMMA BoolMade ==
  ASSUME NEW code, NEW H, NEW R, NEW h, NEW here, Working(code, H, R, h, here), NEW e, Given(e, H),
         NEW r, r = IfBoolExpr(code, e)
  PROVE  Became(code, H, e, r, R, h, here) /\ IsBool(r.e)
<1>1. CASE e.type = "boolexpr_e"
  <2>1. r = [code |-> code, e |-> e]
    BY <1>1 DEF IfBoolExpr
  <2>2. r.code = code /\ r.e = e
    BY <2>1
  <2>3. Became(code, H, e, r, R, h, here)
    BY <2>2, StaysSame
  <2> QED BY <1>1, <2>2, <2>3, ListsAre DEF Given
<1>2. CASE e.type # "boolexpr_e"
  <2>1. e.place \in Places /\ ListsOf(e) = <<>>
    BY <1>2, ListsAre DEF Given
  <2>2. PICK n : n = Len(code)
    OBVIOUS
  <2>3. PICK q : q = Quad("if_eq", e.place, Const("true"), NoArg, 0)
    OBVIOUS
  <2>4. q \in QuadSet /\ q.op \in JumpOps /\ q.label = 0 /\ q.patches = 0
    <3>1. "if_eq" \in JumpOps
      BY JumpOpsAre
    <3>2. q \in QuadSet /\ q.op = "if_eq" /\ q.label = 0 /\ q.patches = 0
      <4>1. Const("true") \in Places /\ NoArg \in Places /\ e.place \in Places
        BY <2>1, PlacesAre
      <4>2. "if_eq" \in JumpOps \cup {"assign", "param", "call", "getretval", "funcstart", "funcend", "ret"}
        BY <3>1
      <4> QED BY <2>3, <4>1, <4>2, QuadIs
    <3> QED BY <3>1, <3>2
  <2>5. PICK c1 : c1 = Append(code, q)
    OBVIOUS
  <2>6. /\ Working(c1, H \cup {n}, R, h, here) /\ Len(c1) = n + 1 /\ n \in Nat /\ n \notin H \cup R
    BY <2>2, <2>4, <2>5, JumpEmitted
  <2>7. PICK c2 : c2 = Append(c1, OpenJump)
    OBVIOUS
  <2>8. /\ Working(c2, (H \cup {n}) \cup {n + 1}, R, h, here) /\ Len(c2) = n + 2
        /\ n + 1 \notin (H \cup {n}) \cup R
    <3>1. /\ Working(c2, (H \cup {n}) \cup {Len(c1)}, R, h, here) /\ Len(c2) = Len(c1) + 1
          /\ Len(c1) \notin (H \cup {n}) \cup R
      BY <2>6, <2>7, OpenJumpIs, JumpEmitted
    <3> QED BY <2>6, <3>1
  <2>9. r.code = c2 /\ r.e = BoolExpr(<<n>>, <<n + 1>>, e.tree)
    <3>1. code \in Seq(QuadSet)
      BY DEF Working, Code
    <3>2. code \o <<q, OpenJump>> = c2
      BY <2>4, <2>5, <2>7, <3>1, OpenJumpIs, TwoMore
    <3>3. r = [code |-> code \o <<q, OpenJump>>, e |-> BoolExpr(<<n>>, <<n + 1>>, e.tree)]
      BY <1>2, <2>2, <2>3 DEF IfBoolExpr
    <3> QED BY <3>2, <3>3
  <2>10. /\ r.e.type = "boolexpr_e" /\ r.e.truelist = <<n>> /\ r.e.falselist = <<n + 1>>
    BY <2>9 DEF BoolExpr
  <2>11. /\ <<n>> \in Seq(Nat) /\ <<n + 1>> \in Seq(Nat)
         /\ Range(<<n>> \o <<n + 1>>) = {n, n + 1} /\ IsInjective(<<n>> \o <<n + 1>>)
    <3>1. n \in Nat /\ n + 1 \in Nat /\ n # n + 1
      BY <2>6
    <3> QED BY <3>1, OneOrTwo
  <2>12. IsBool(r.e) /\ IsExpr(r.e) /\ ListsOf(r.e) = <<n>> \o <<n + 1>>
    BY <2>10, <2>11 DEF IsBool, IsExpr, ListsOf
  <2>13. H \ Range(ListsOf(e)) = H
    BY <2>1, Emptied
  <2>14. (H \cup {n}) \cup {n + 1} = H \cup {n, n + 1} /\ H \cap {n, n + 1} = {}
    BY <2>6, <2>8
  <2>15. Working(r.code, H \cup Range(ListsOf(r.e)), R, h, here)
    BY <2>8, <2>9, <2>11, <2>12, <2>14
  <2>16. Working(r.code, (H \ Range(ListsOf(e))) \cup Range(ListsOf(r.e)), R, h, here)
    BY <2>13, <2>15
  <2>17. (H \ Range(ListsOf(e))) \cap Range(ListsOf(r.e)) = {}
    BY <2>11, <2>12, <2>13, <2>14
  <2>18. Len(code) \in Nat /\ Len(r.code) \in Nat /\ Len(code) <= Len(r.code)
    BY <2>2, <2>6, <2>8, <2>9
  <2>19. IsInjective(ListsOf(r.e))
    BY <2>11, <2>12
  <2> QED BY <2>12, <2>16, <2>17, <2>18, <2>19 DEF Became
<1> QED BY <1>1, <1>2

LEMMA ValueMade ==
  ASSUME NEW code, NEW H, NEW R, NEW h, NEW here, Working(code, H, R, h, here), NEW e, Given(e, H),
         NEW r, r = ConvertToValue(code, e)
  PROVE  Became(code, H, e, r, R, h, here) /\ r.e.type = "var_e" /\ r.e.place \in Places /\ ListsOf(r.e) = <<>>
<1>1. CASE e.type # "boolexpr_e"
  <2>1. r = [code |-> code, e |-> e]
    BY <1>1 DEF ConvertToValue
  <2>2. r.code = code /\ r.e = e
    BY <2>1
  <2>3. Became(code, H, e, r, R, h, here)
    BY <2>2, StaysSame
  <2> QED BY <1>1, <2>2, <2>3, ListsAre DEF Given
<1>2. CASE e.type = "boolexpr_e"
  <2>1. PICK t, f : t = e.truelist /\ f = e.falselist
    OBVIOUS
  <2>2. t \in Seq(Nat) /\ f \in Seq(Nat) /\ ListsOf(e) = t \o f
    BY <1>2, <2>1, ListsAre DEF Given, IsBool
  <2>3. Range(t) \subseteq H /\ Range(f) \subseteq H /\ Range(t) \cap Range(f) = {} /\ Range(ListsOf(e)) = Range(t) \cup Range(f)
    BY <2>2, Joined DEF Given
  <2>4. PICK n : n = Len(code)
    OBVIOUS
  <2>5. n \in Nat /\ \A m \in Nat : n <= m => h[m] = here
    BY <2>4 DEF Working, Code
  <2>6. PICK p, q : p = Quad("assign", Const("true"), NoArg, Temp(n), 0) /\ q = Quad("assign", Const("false"), NoArg, Temp(n), 0)
    OBVIOUS
  <2>7. p \in QuadSet /\ q \in QuadSet /\ p.op \notin JumpOps /\ q.op \notin JumpOps
    <3>1. p \in QuadSet /\ q \in QuadSet /\ p.op = "assign" /\ q.op = "assign"
      BY ZenonT(40), <2>5, <2>6, PlacesAre, QuadIs
    <3> QED BY <3>1, JumpOpsAre
  <2>8. PICK c1 : c1 = PatchList(code, t, n)
    OBVIOUS
  <2>9. Working(c1, H \ Range(t), R, h, here) /\ Len(c1) = n
    <3>1. h[n] = here /\ n <= Len(code)
      BY <2>4, <2>5
    <3> QED BY <2>3, <2>4, <2>5, <2>8, <3>1, Patched
  <2>10. PICK c2 : c2 = Append(c1, p)
    OBVIOUS
  <2>11. Working(c2, H \ Range(t), R, h, here) /\ Len(c2) = n + 1
    BY <2>7, <2>9, <2>10, Emitted
  <2>12. PICK c3 : c3 = Append(c2, OpenJump)
    OBVIOUS
  <2>13. Working(c3, (H \ Range(t)) \cup {n + 1}, R, h, here) /\ Len(c3) = n + 2
    <3>1. Working(c3, (H \ Range(t)) \cup {Len(c2)}, R, h, here) /\ Len(c3) = Len(c2) + 1
      BY <2>11, <2>12, OpenJumpIs, JumpEmitted
    <3> QED BY <2>5, <2>11, <3>1
  <2>14. PICK c4 : c4 = PatchList(c3, f, n + 2)
    OBVIOUS
  <2>15. Working(c4, ((H \ Range(t)) \cup {n + 1}) \ Range(f), R, h, here) /\ Len(c4) = n + 2
    <3>1. h[n + 2] = here /\ n + 2 <= Len(c3) /\ n + 2 \in Nat
      BY <2>5, <2>13
    <3>2. Range(f) \subseteq (H \ Range(t)) \cup {n + 1}
      BY <2>3
    <3> QED BY <2>13, <2>14, <3>1, <3>2, Patched
  <2>16. PICK c5 : c5 = Append(c4, q)
    OBVIOUS
  <2>17. Working(c5, ((H \ Range(t)) \cup {n + 1}) \ Range(f), R, h, here) /\ Len(c5) = n + 3
    <3>1. Working(c5, ((H \ Range(t)) \cup {n + 1}) \ Range(f), R, h, here) /\ Len(c5) = Len(c4) + 1
      BY <2>7, <2>15, <2>16, Emitted
    <3> QED BY <2>5, <2>15, <3>1
  <2>18. n + 1 \notin H
    <3>1. H \subseteq JumpsOf(code)
      BY DEF Working, Code
    <3>2. n + 1 \notin JumpsOf(code)
      BY <2>4, <2>5 DEF JumpsOf
    <3> QED BY <3>1, <3>2
  <2>19. PICK c6 : c6 = PatchList(c5, <<n + 1>>, n + 3)
    OBVIOUS
  <2>20. Working(c6, (((H \ Range(t)) \cup {n + 1}) \ Range(f)) \ {n + 1}, R, h, here) /\ Len(c6) = n + 3
    <3>1. h[n + 3] = here /\ n + 3 <= Len(c5) /\ n + 3 \in Nat
      BY <2>5, <2>17
    <3>2. Range(<<n + 1>>) = {n + 1}
      BY DEF Range
    <3>3. {n + 1} \subseteq ((H \ Range(t)) \cup {n + 1}) \ Range(f)
      BY <2>3, <2>18
    <3>4. Working(c6, (((H \ Range(t)) \cup {n + 1}) \ Range(f)) \ Range(<<n + 1>>), R, h, here) /\ Len(c6) = Len(c5)
      <4>1. PICK G, l : G = ((H \ Range(t)) \cup {n + 1}) \ Range(f) /\ l = <<n + 1>>
        OBVIOUS
      <4>2. Range(l) \subseteq G /\ c6 = PatchList(c5, l, n + 3) /\ Working(c5, G, R, h, here)
        BY <2>17, <2>19, <3>2, <3>3, <4>1
      <4>3. Working(c6, G \ Range(l), R, h, here) /\ Len(c6) = Len(c5)
        BY <3>1, <4>2, Patched
      <4> QED BY <4>1, <4>3
    <3> QED BY <2>17, <3>2, <3>4
  <2>21. (((H \ Range(t)) \cup {n + 1}) \ Range(f)) \ {n + 1} = (H \ Range(ListsOf(e))) \cup {}
    BY <2>3, <2>18
  <2>22. r = [code |-> c6, e |-> Value(Temp(n), e.tree)]
    <3>1. c1 \in Seq(QuadSet)
      BY <2>9 DEF Working, Code
    <3>2. c1 \o <<p, OpenJump>> = c3
      BY <2>7, <2>10, <2>12, <3>1, OpenJumpIs, TwoMore
    <3>3. r = LET whenTrue == PatchList(code, t, n) \o <<p, OpenJump>>
                  whenFalse == Append(PatchList(whenTrue, f, n + 2), q)
              IN  [code |-> PatchList(whenFalse, <<n + 1>>, n + 3), e |-> Value(Temp(n), e.tree)]
      BY <1>2, <2>1, <2>4, <2>6 DEF ConvertToValue
    <3> QED BY <2>8, <2>14, <2>16, <2>19, <3>2, <3>3
  <2>23. r.code = c6 /\ r.e.type = "var_e" /\ r.e.place \in Places
    BY <2>5, <2>22, PlacesAre DEF Value
  <2>24. IsExpr(r.e) /\ ListsOf(r.e) = <<>> /\ IsInjective(ListsOf(r.e)) /\ Range(ListsOf(r.e)) = {}
    BY <2>23, Emptied DEF IsExpr, ListsOf
  <2>25. Working(r.code, (H \ Range(ListsOf(e))) \cup Range(ListsOf(r.e)), R, h, here)
    BY <2>20, <2>21, <2>23, <2>24
  <2>26. Len(code) \in Nat /\ Len(r.code) \in Nat /\ Len(code) <= Len(r.code)
    BY <2>4, <2>5, <2>20, <2>23
  <2> QED BY <2>23, <2>24, <2>25, <2>26 DEF Became
<1> QED BY <1>1, <1>2

LEMMA ConditionMade ==
  ASSUME NEW code, NEW H, NEW R, NEW h, NEW here, Working(code, H, R, h, here), NEW e, Given(e, H),
         NEW r, r = Condition(code, e)
  PROVE  Became(code, H, e, r, R, h, here) /\ IsBool(r.e)
<1>1. PICK v : v = ConvertToValue(code, e)
  OBVIOUS
<1>2. Became(code, H, e, v, R, h, here) /\ ListsOf(v.e) = <<>>
  BY <1>1, ValueMade
<1>3. PICK G : G = H \ Range(ListsOf(e))
  OBVIOUS
<1>4. Range(ListsOf(v.e)) = {} /\ Working(v.code, G, R, h, here) /\ Given(v.e, G)
  <2>1. Range(ListsOf(v.e)) = {} /\ G \cup {} = G
    BY <1>2, Emptied
  <2>2. Working(v.code, G \cup Range(ListsOf(v.e)), R, h, here)
    BY <1>2, <1>3 DEF Became
  <2> QED BY <1>2, <2>1, <2>2 DEF Became, Given
<1>5. r = IfBoolExpr(v.code, v.e)
  BY <1>1 DEF Condition
<1>6. Became(v.code, G, v.e, r, R, h, here) /\ IsBool(r.e)
  BY <1>4, <1>5, BoolMade
<1>7. G \ Range(ListsOf(v.e)) = G
  BY <1>4
<1>8. Len(code) \in Nat /\ Len(r.code) \in Nat /\ Len(code) <= Len(r.code)
  BY <1>2, <1>6 DEF Became
<1> QED BY <1>3, <1>6, <1>7, <1>8 DEF Became

-----------------------------------------------------------------------------
(* Lists of expressions. *)

ArgsHeld(args) == FlattenSeq([i \in DOMAIN args |-> ListsOf(args[i])])

Exprs(args) == IsSeq(args) /\ \A i \in DOMAIN args : IsExpr(args[i])

LEMMA ListsOfArgs ==
  ASSUME NEW args, Exprs(args)
  PROVE  /\ [i \in DOMAIN args |-> ListsOf(args[i])] \in Seq(Seq(Nat)) /\ ArgsHeld(args) \in Seq(Nat)
         /\ Len(args) \in Nat /\ DOMAIN args = 1..Len(args)
<1>1. PICK n, S : n = Len(args) /\ S = Seq(Nat)
  OBVIOUS
<1>2. n \in Nat /\ DOMAIN args = 1..n
  BY <1>1 DEF Exprs, IsSeq
<1>3. PICK a : a = [i \in DOMAIN args |-> ListsOf(args[i])]
  OBVIOUS
<1>4. a \in [1..n -> S]
  <2>1. \A i \in DOMAIN args : ListsOf(args[i]) \in S
    BY <1>1, ListsAre DEF Exprs
  <2> QED BY <1>2, <1>3, <2>1
<1>5. a \in Seq(S)
  BY <1>2, <1>4, SeqDef
<1> QED BY <1>1, <1>2, <1>3, <1>5, FlattenTyped DEF ArgsHeld

LEMMA NoArgs == Exprs(<<>>) /\ ArgsHeld(<<>>) = <<>>
<1>1. [i \in DOMAIN <<>> |-> ListsOf(<<>>[i])] = <<>>
  OBVIOUS
<1>2. FlattenSeq(<<>>) = <<>>
  BY DEF FlattenSeq
<1> QED BY <1>1, <1>2, Emptied DEF ArgsHeld, Exprs

LEMMA ArgsMore ==
  ASSUME NEW args, Exprs(args), NEW e, IsExpr(e)
  PROVE  Exprs(Append(args, e)) /\ ArgsHeld(Append(args, e)) = ArgsHeld(args) \o ListsOf(e)
<1>1. PICK more, n : more = Append(args, e) /\ n = Len(args)
  OBVIOUS
<1>2. /\ IsSeq(more) /\ n \in Nat /\ DOMAIN more = 1..n + 1 /\ DOMAIN args = 1..n
      /\ \A i \in 1..n : more[i] = args[i]
      /\ more[n + 1] = e
  <2>1. IsSeq(args)
    BY DEF Exprs
  <2>2. /\ IsSeq(more) /\ Len(args) \in Nat /\ DOMAIN more = 1..Len(args) + 1 /\ DOMAIN args = 1..Len(args)
        /\ \A i \in 1..Len(args) : more[i] = args[i]
        /\ more[Len(args) + 1] = e
    <3>1. OneMore(args, e, more)
      BY <1>1, <2>1, AppendTo
    <3> QED BY <3>1 DEF OneMore
  <2> QED BY <1>1, <2>2
<1>3. PICK a : a = [i \in DOMAIN args |-> ListsOf(args[i])]
  OBVIOUS
<1>4. PICK b : b = [i \in DOMAIN more |-> ListsOf(more[i])]
  OBVIOUS
<1>5. \A i \in 1..n : a[i] \in Seq(Nat) /\ b[i] = a[i]
  <2>1. \A i \in 1..n : ListsOf(args[i]) \in Seq(Nat)
    BY <1>2, ListsAre DEF Exprs
  <2>2. \A i \in 1..n : a[i] = ListsOf(args[i]) /\ b[i] = ListsOf(args[i])
    BY <1>2, <1>3, <1>4
  <2> QED BY <2>1, <2>2
<1>6. b[n + 1] = ListsOf(e) /\ ListsOf(e) \in Seq(Nat)
  <2>1. ListsOf(e) \in Seq(Nat)
    BY ListsAre
  <2> QED BY <1>2, <1>4, <2>1
<1>7. a \in Seq(Seq(Nat)) /\ b = Append(a, b[n + 1])
  <2>1. a = [i \in 1..n |-> a[i]] /\ b = [i \in 1..n + 1 |-> b[i]]
    BY <1>2, <1>3, <1>4
  <2>2. b[n + 1] \in Seq(Nat)
    BY <1>6
  <2> QED BY <1>2, <1>5, <2>1, <2>2, MapOneMore
<1>8. FlattenSeq(Append(a, ListsOf(e))) = FlattenSeq(a) \o ListsOf(e)
  BY <1>6, <1>7, FlattenOneMore
<1>9. Exprs(more)
  BY <1>2 DEF Exprs
<1> QED BY <1>1, <1>3, <1>4, <1>6, <1>7, <1>8, <1>9 DEF ArgsHeld

LEMMA ArgsParts ==
  ASSUME NEW args, Exprs(args), IsInjective(ArgsHeld(args))
  PROVE  /\ Range(ArgsHeld(args)) = UNION {Range(ListsOf(args[i])) : i \in DOMAIN args}
         /\ \A i \in DOMAIN args : IsInjective(ListsOf(args[i]))
         /\ \A i, j \in DOMAIN args : i # j => Range(ListsOf(args[i])) \cap Range(ListsOf(args[j])) = {}
<1>1. PICK a : a = [i \in DOMAIN args |-> ListsOf(args[i])]
  OBVIOUS
<1>2. a \in Seq(Seq(Nat)) /\ DOMAIN a = DOMAIN args /\ \A i \in DOMAIN args : a[i] = ListsOf(args[i])
  BY <1>1, ListsOfArgs
<1>3. FlattenSeq(a) = ArgsHeld(args)
  BY <1>1 DEF ArgsHeld
<1>4. /\ Range(FlattenSeq(a)) = UNION {Range(a[i]) : i \in DOMAIN a}
      /\ \A i \in DOMAIN a : IsInjective(a[i])
      /\ \A i, j \in DOMAIN a : i # j => Range(a[i]) \cap Range(a[j]) = {}
  BY <1>2, <1>3, FlattenParts
<1>5. {Range(a[i]) : i \in DOMAIN a} = {Range(ListsOf(args[i])) : i \in DOMAIN args}
  BY <1>2
<1> QED BY <1>2, <1>3, <1>4, <1>5

OneFinal(e, done) ==
  LET f == ConvertToValue(done.code, e) IN [code |-> f.code, exprs |-> <<f.e>> \o done.exprs]

\* The sets that the fold of FinalizeList goes through, from the last expression on.
IsFinal(f, lo, n, code, exprs) ==
  f = [s \in SUBSET (lo..n) |->
         IF s = {} THEN [code |-> code, exprs |-> <<>>] ELSE OneFinal(exprs[Min(s)], f[s \ {Min(s)}])]

LEMMA FinalUnfolds ==
  ASSUME NEW code, NEW exprs, NEW n \in Nat, DOMAIN exprs = 1..n
  PROVE  FinalizeList(code, exprs) = (CHOOSE f : IsFinal(f, 1, n, code, exprs))[1..n]
BY DEF FinalizeList, FoldRight, MapThenFoldSet, IsFinal, OneFinal

LEMMA LeastIs ==
  ASSUME NEW lo \in Nat, NEW n \in Nat, NEW s, s \subseteq lo..n, lo \in s
  PROVE  Min(s) = lo
<1>1. \A x \in s : x \in Nat /\ lo <= x
  OBVIOUS
<1>2. PICK m : m = Min(s)
  OBVIOUS
<1>3. m \in s /\ \A y \in s : m <= y
  BY <1>1, <1>2, Zenon DEF Min
<1>4. m <= lo /\ lo <= m /\ m \in Nat
  BY <1>1, <1>3
<1> QED BY <1>2, <1>4

LEMMA FinalExists ==
  ASSUME NEW code, NEW exprs, NEW n \in Nat
  PROVE  \E f : IsFinal(f, 1, n, code, exprs)
<1> DEFINE T == {k \in 0..n : ~ \E f : IsFinal(f, n + 1 - k, n, code, exprs)}
<1>1. T \subseteq Nat /\ \A k \in 0..n : k \in T <=> ~ \E f : IsFinal(f, n + 1 - k, n, code, exprs)
  OBVIOUS
<1>2. T \subseteq 0..n
  OBVIOUS
<1> HIDE DEF T
<1>3. T = {}
  <2> SUFFICES ASSUME T # {}
               PROVE  FALSE
    OBVIOUS
  <2>1. PICK m \in T : \A y \in T : m <= y
    BY <1>1, LeastOfSet
  <2>2. m \in 0..n /\ ~ \E f : IsFinal(f, n + 1 - m, n, code, exprs)
    BY <1>1, <1>2
  <2>3. CASE m = 0
    <3>1. PICK f : f = [s \in SUBSET (n + 1 - m..n) |-> [code |-> code, exprs |-> <<>>]]
      OBVIOUS
    <3>2. n + 1 - m..n = {}
      BY <2>3
    <3>3. \A s \in SUBSET (n + 1 - m..n) : s = {}
      BY <3>2
    <3>4. IsFinal(f, n + 1 - m, n, code, exprs)
      BY <3>1, <3>3 DEF IsFinal
    <3> QED BY <2>2, <3>4
  <2>4. CASE m # 0
    <3>1. PICK k \in 0..n : m = k + 1
      <4>1. m - 1 \in 0..n /\ m = (m - 1) + 1
        BY <2>2, <2>4
      <4> QED BY <4>1
    <3>2. PICK l : l = n + 1 - m
      OBVIOUS
    <3>3. l \in Nat /\ n + 1 - k = l + 1 /\ l..n = {l} \cup (l + 1..n) /\ l \notin l + 1..n
      BY <2>2, <3>1, <3>2
    <3>4. PICK f : IsFinal(f, l + 1, n, code, exprs)
      <4>1. ~ (m <= k)
        BY <3>1
      <4> QED BY <1>1, <2>1, <3>3, <4>1
    <3>5. PICK g : g = [s \in SUBSET (l..n) |-> IF l \in s THEN OneFinal(exprs[l], f[s \ {l}]) ELSE f[s]]
      OBVIOUS
    <3>6. /\ l + 1..n \subseteq l..n /\ \A s \in SUBSET (l..n) : l \notin s => s \in SUBSET (l + 1..n)
      BY <3>3
    <3>7. \A s \in SUBSET (l + 1..n) : g[s] = f[s]
      BY <3>3, <3>5, <3>6
    <3>8. ASSUME NEW s \in SUBSET (l..n), s # {}
          PROVE  g[s] = OneFinal(exprs[Min(s)], g[s \ {Min(s)}])
      <4>1. CASE l \in s
        <5>1. Min(s) = l
          BY <3>3, <4>1, LeastIs
        <5>2. s \ {l} \in SUBSET (l + 1..n)
          BY <3>6, <3>3
        <5> QED BY <3>5, <3>7, <4>1, <5>1, <5>2
      <4>2. CASE l \notin s
        <5>1. s \in SUBSET (l + 1..n) /\ s \ {Min(s)} \in SUBSET (l + 1..n)
          BY <3>6, <4>2
        <5>2. f[s] = OneFinal(exprs[Min(s)], f[s \ {Min(s)}])
          BY <3>4, <3>8, <5>1 DEF IsFinal
        <5> QED BY <3>7, <5>1, <5>2
      <4> QED BY <4>1, <4>2
    <3>9. g[{}] = [code |-> code, exprs |-> <<>>]
      <4>1. {} \in SUBSET (l + 1..n)
        OBVIOUS
      <4>2. f[{}] = [code |-> code, exprs |-> <<>>]
        BY <3>4, <4>1 DEF IsFinal
      <4> QED BY <3>7, <4>1, <4>2
    <3>10. g = [s \in SUBSET (l..n) |-> g[s]]
      BY <3>5
    <3>11. IsFinal(g, l, n, code, exprs)
      BY <3>8, <3>9, <3>10 DEF IsFinal
    <3> QED BY <2>2, <3>2, <3>11
  <2> QED BY <2>3, <2>4
<1>4. n \in 0..n /\ n + 1 - n = 1
  OBVIOUS
<1> QED BY <1>1, <1>3, <1>4


\* An expression in front of the others.
OneInFront(s, x, t) ==
  /\ IsSeq(t) /\ Len(t) = Len(s) + 1 /\ Len(s) \in Nat /\ DOMAIN s = 1..Len(s)
  /\ \A i \in DOMAIN t : t[i] = x \/ \E j \in DOMAIN s : t[i] = s[j]

LEMMA InFront ==
  ASSUME NEW s, IsSeq(s), NEW x, NEW t, t = <<x>> \o s
  PROVE  OneInFront(s, x, t)
<1>1. PICK S : S = Range(s) \cup {x}
  OBVIOUS
<1>2. s \in Seq(S) /\ x \in S /\ <<x>> \in Seq(S)
  BY <1>1 DEF IsSeq
<1>3. /\ t \in Seq(S) /\ Len(t) = Len(s) + 1 /\ Len(s) \in Nat /\ DOMAIN s = 1..Len(s)
      /\ \A i \in 1..Len(s) + 1 : t[i] = IF i <= 1 THEN <<x>>[i] ELSE s[i - 1]
  BY <1>2
<1>4. \A i \in DOMAIN t : t[i] = x \/ \E j \in DOMAIN s : t[i] = s[j]
  <2>1. ASSUME NEW i \in 1..Len(s) + 1, ~ (i <= 1)
        PROVE  i - 1 \in 1..Len(s)
    BY <1>3, <2>1
  <2>2. \A i \in 1..Len(s) + 1 : i <= 1 => i = 1
    BY <1>3
  <2> QED BY <1>3, <2>1, <2>2
<1>5. IsSeq(t)
  BY <1>3, Typed
<1> QED BY <1>3, <1>4, <1>5 DEF OneInFront

\* The last expressions of a list are finished: those that have the jumps G.
Sofar(code, H, d, G, n, R, h, here) ==
  /\ Working(d.code, H \ G, R, h, here)
  /\ Len(code) \in Nat /\ Len(d.code) \in Nat /\ Len(code) <= Len(d.code)
  /\ IsSeq(d.exprs) /\ Len(d.exprs) = n /\ \A i \in DOMAIN d.exprs : d.exprs[i].place \in Places

LEMMA OneMoreFinal ==
  ASSUME NEW code, NEW H, NEW R, NEW h, NEW here, NEW d, NEW G, NEW n \in Nat,
         Sofar(code, H, d, G, n, R, h, here), NEW e, Given(e, H \ G)
  PROVE  Sofar(code, H, OneFinal(e, d), G \cup Range(ListsOf(e)), n + 1, R, h, here)
<1>1. PICK f : f = ConvertToValue(d.code, e)
  OBVIOUS
<1>2. PICK r, t : r = OneFinal(e, d) /\ t = <<f.e>> \o d.exprs
  OBVIOUS
<1>3. r.code = f.code /\ r.exprs = t
  BY <1>1, <1>2 DEF OneFinal
<1>4. Working(d.code, H \ G, R, h, here)
  BY DEF Sofar
<1>5. Became(d.code, H \ G, e, f, R, h, here) /\ f.e.place \in Places /\ ListsOf(f.e) = <<>>
  BY <1>1, <1>4, ValueMade
<1>6. Working(r.code, H \ (G \cup Range(ListsOf(e))), R, h, here)
  <2>1. ((H \ G) \ Range(ListsOf(e))) \cup Range(ListsOf(f.e)) = H \ (G \cup Range(ListsOf(e)))
    BY <1>5, Emptied
  <2>2. Working(f.code, ((H \ G) \ Range(ListsOf(e))) \cup Range(ListsOf(f.e)), R, h, here)
    BY <1>5 DEF Became
  <2> QED BY <1>3, <2>1, <2>2
<1>7. /\ IsSeq(t) /\ Len(t) = n + 1
      /\ \A i \in DOMAIN t : t[i] = f.e \/ \E j \in DOMAIN d.exprs : t[i] = d.exprs[j]
  <2>1. IsSeq(d.exprs) /\ Len(d.exprs) = n
    BY DEF Sofar
  <2>2. OneInFront(d.exprs, f.e, t)
    BY <1>2, <2>1, InFront
  <2> QED BY <2>1, <2>2 DEF OneInFront
<1>8. \A i \in DOMAIN t : t[i].place \in Places
  BY <1>5, <1>7 DEF Sofar
<1>9. Len(code) \in Nat /\ Len(r.code) \in Nat /\ Len(code) <= Len(r.code)
  BY <1>3, <1>5 DEF Became, Sofar
<1> QED BY <1>2, <1>3, <1>6, <1>7, <1>8, <1>9 DEF Sofar

LEMMA ListFinished ==
  ASSUME NEW code, NEW H, NEW R, NEW h, NEW here, Working(code, H, R, h, here),
         NEW exprs, Exprs(exprs), IsInjective(ArgsHeld(exprs)), Range(ArgsHeld(exprs)) \subseteq H,
         NEW d, d = FinalizeList(code, exprs)
  PROVE  Sofar(code, H, d, Range(ArgsHeld(exprs)), Len(exprs), R, h, here)
<1>1. PICK n : n = Len(exprs)
  OBVIOUS
<1>2. n \in Nat /\ DOMAIN exprs = 1..n
  BY <1>1, ListsOfArgs
<1>3. PICK f : f = (CHOOSE f1 : IsFinal(f1, 1, n, code, exprs))
  OBVIOUS
<1>4. IsFinal(f, 1, n, code, exprs) /\ d = f[1..n]
  BY <1>2, <1>3, FinalExists, FinalUnfolds
<1>5. /\ Range(ArgsHeld(exprs)) = UNION {Range(ListsOf(exprs[i])) : i \in 1..n}
      /\ \A i \in 1..n : IsExpr(exprs[i]) /\ IsInjective(ListsOf(exprs[i]))
      /\ \A i, j \in 1..n : i # j => Range(ListsOf(exprs[i])) \cap Range(ListsOf(exprs[j])) = {}
  BY <1>2, ArgsParts DEF Exprs
<1>6. PICK U : U = [k \in 0..n |-> UNION {Range(ListsOf(exprs[i])) : i \in n + 1 - k..n}]
  OBVIOUS
<1> DEFINE T == {k \in 0..n : ~ Sofar(code, H, f[n + 1 - k..n], U[k], k, R, h, here)}
<1>7. T \subseteq Nat /\ T \subseteq 0..n /\ \A k \in 0..n : k \in T <=> ~ Sofar(code, H, f[n + 1 - k..n], U[k], k, R, h, here)
  OBVIOUS
<1> HIDE DEF T
<1>8. T = {}
  <2> SUFFICES ASSUME T # {}
               PROVE  FALSE
    OBVIOUS
  <2>1. PICK m \in T : \A y \in T : m <= y
    BY <1>7, LeastOfSet
  <2>2. m \in 0..n /\ ~ Sofar(code, H, f[n + 1 - m..n], U[m], m, R, h, here)
    BY <1>7
  <2>3. CASE m = 0
    <3>1. n + 1 - m..n = {} /\ {} \in SUBSET (1..n)
      BY <1>2, <2>3
    <3>2. U[m] = {}
      BY <1>6, <2>2, <3>1
    <3>3. PICK none : none = f[{}]
      OBVIOUS
    <3>4. none.code = code /\ none.exprs = <<>>
      BY <1>4, <3>1, <3>3 DEF IsFinal
    <3>5. Working(none.code, H \ {}, R, h, here) /\ Len(code) \in Nat
      <4>1. H \ {} = H
        OBVIOUS
      <4> QED BY <3>4, <4>1 DEF Working, Code
    <3>6. Sofar(code, H, none, {}, 0, R, h, here)
      BY <3>4, <3>5, Emptied DEF Sofar
    <3> QED BY <2>2, <2>3, <3>1, <3>2, <3>3, <3>6
  <2>4. CASE m # 0
    <3>1. PICK k \in 0..n : m = k + 1
      <4>1. m - 1 \in 0..n /\ m = (m - 1) + 1
        BY <1>2, <2>2, <2>4
      <4> QED BY <4>1
    <3>2. PICK l : l = n + 1 - m
      OBVIOUS
    <3>3. /\ l \in 1..n /\ n + 1 - k = l + 1 /\ l..n = {l} \cup (l + 1..n) /\ l \notin l + 1..n
          /\ l..n \in SUBSET (1..n) /\ l \in l..n /\ (l..n) \ {l} = l + 1..n /\ l + 1..n \subseteq 1..n
      <4>1. l \in 1..n /\ n + 1 - k = l + 1
        BY <1>2, <2>2, <3>1, <3>2, <2>4
      <4>2. l..n = {l} \cup (l + 1..n) /\ l \notin l + 1..n
        BY <1>2, <4>1
      <4>3. l..n \in SUBSET (1..n) /\ l \in l..n /\ l + 1..n \subseteq 1..n
        BY <1>2, <4>1
      <4> QED BY <4>1, <4>2, <4>3
    <3>4. Sofar(code, H, f[l + 1..n], U[k], k, R, h, here)
      <4>1. ~ (m <= k)
        BY <3>1
      <4> QED BY <1>7, <2>1, <3>3, <4>1
    <3>5. U[m] = U[k] \cup Range(ListsOf(exprs[l]))
      <4>1. U[m] = UNION {Range(ListsOf(exprs[i])) : i \in l..n}
        BY <1>6, <2>2, <3>2
      <4>2. U[k] = UNION {Range(ListsOf(exprs[i])) : i \in l + 1..n}
        BY <1>6, <3>3
      <4> QED BY <3>3, <4>1, <4>2
    <3>6. Given(exprs[l], H \ U[k])
      <4>1. Range(ListsOf(exprs[l])) \subseteq H
        BY <1>5, <3>3
      <4>2. Range(ListsOf(exprs[l])) \cap U[k] = {}
        <5>1. \A i \in l + 1..n : Range(ListsOf(exprs[l])) \cap Range(ListsOf(exprs[i])) = {}
          BY <1>5, <3>3
        <5>2. U[k] = UNION {Range(ListsOf(exprs[i])) : i \in l + 1..n}
          BY <1>6, <3>3
        <5> QED BY <5>1, <5>2
      <4> QED BY <1>5, <3>3, <4>1, <4>2 DEF Given
    <3>7. f[l..n] = OneFinal(exprs[l], f[l + 1..n])
      <4>1. Min(l..n) = l
        BY <1>2, <3>3, LeastIs
      <4> QED BY <1>4, <3>3, <4>1 DEF IsFinal
    <3>8. Sofar(code, H, f[l..n], U[m], k + 1, R, h, here)
      BY <3>4, <3>5, <3>6, <3>7, OneMoreFinal
    <3> QED BY <2>2, <3>1, <3>2, <3>8
  <2> QED BY <2>3, <2>4
<1>9. n \in 0..n /\ n + 1 - n = 1
  BY <1>2
<1>10. U[n] = Range(ArgsHeld(exprs))
  BY <1>5, <1>6, <1>9
<1> QED BY <1>1, <1>4, <1>7, <1>8, <1>9, <1>10

LEMMA ManyEmitted ==
  ASSUME NEW code, NEW H, NEW R, NEW h, NEW here, Working(code, H, R, h, here),
         NEW qs \in Seq(QuadSet), \A i \in DOMAIN qs : qs[i].op \notin JumpOps
  PROVE  /\ Working(code \o qs, H, R, h, here)
         /\ Len(code \o qs) = Len(code) + Len(qs) /\ Len(code) \in Nat /\ Len(qs) \in Nat
<1>1. PICK c : c = code \o qs
  OBVIOUS
<1>2. code \in Seq(QuadSet)
  BY DEF Working, Code
<1>3. /\ c \in Seq(QuadSet) /\ Len(c) = Len(code) + Len(qs) /\ Len(code) \in Nat /\ Len(qs) \in Nat
      /\ DOMAIN qs = 1..Len(qs)
      /\ \A i \in 1..Len(code) + Len(qs) : c[i] = IF i <= Len(code) THEN code[i] ELSE qs[i - Len(code)]
  BY <1>1, <1>2
<1>4. \A n \in 0..Len(code) - 1 : c[n + 1] = code[n + 1] /\ n \in 0..Len(c) - 1
  <2>1. \A n \in 0..Len(code) - 1 : n + 1 \in 1..Len(code) + Len(qs) /\ n + 1 <= Len(code) /\ n \in 0..Len(c) - 1
    BY <1>3
  <2> QED BY <1>3, <2>1
<1>5. ASSUME NEW n \in 0..Len(c) - 1, n \notin 0..Len(code) - 1
      PROVE  c[n + 1].op \notin JumpOps
  <2>1. n + 1 \in 1..Len(code) + Len(qs) /\ ~ (n + 1 <= Len(code)) /\ (n + 1) - Len(code) \in DOMAIN qs
    BY <1>3, <1>5
  <2> QED BY <1>3, <2>1
<1>6. JumpsOf(c) = JumpsOf(code) /\ JumpsOf(code) \subseteq 0..Len(code) - 1
  BY <1>4, <1>5 DEF JumpsOf
<1>7. \A n \in JumpsOf(code) : code[n + 1].label <= Len(code) => code[n + 1].label <= Len(c)
  <2>1. \A n \in JumpsOf(code) : code[n + 1].label \in Nat
    <3>1. \A n \in JumpsOf(code) : n + 1 \in 1..Len(code)
      BY <1>3, <1>6
    <3>2. \A n \in JumpsOf(code) : code[n + 1] \in QuadSet
      BY <1>2, <3>1
    <3> QED BY <3>2 DEF QuadSet
  <2> QED BY <1>3, <2>1
<1>8. Code(c, H \cup R, h)
  <2>1. \A n \in JumpsOf(c) : c[n + 1] = code[n + 1]
    BY <1>4, <1>6
  <2>2. H \cup R \subseteq JumpsOf(c)
    BY <1>6 DEF Working, Code
  <2>3. \A n \in JumpsOf(code) :
          IF n \in H \cup R THEN code[n + 1].patches = 0 /\ code[n + 1].label = 0
          ELSE /\ code[n + 1].patches = 1 /\ code[n + 1].label <= Len(code)
               /\ h[code[n + 1].label] = h[n]
    BY DEF Working, Code
  <2>4. \A n \in JumpsOf(c) :
          IF n \in H \cup R THEN c[n + 1].patches = 0 /\ c[n + 1].label = 0
          ELSE /\ c[n + 1].patches = 1 /\ c[n + 1].label <= Len(c)
               /\ h[c[n + 1].label] = h[n]
    BY <1>6, <1>7, <2>1, <2>3
  <2> QED BY <1>3, <2>2, <2>4 DEF Code
<1>9. \A n \in Nat : Len(c) <= n => Len(code) <= n
  BY <1>3
<1> QED BY <1>1, <1>3, <1>8, <1>9 DEF Working

LEMMA CallEmitted ==
  ASSUME NEW code, NEW H, NEW R, NEW h, NEW here, Working(code, H, R, h, here), NEW callee \in Nat,
         NEW exprs, IsSeq(exprs), \A i \in DOMAIN exprs : exprs[i].place \in Places
  PROVE  /\ Working(EmitCall(code, callee, exprs), H, R, h, here)
         /\ Len(code) \in Nat /\ Len(EmitCall(code, callee, exprs)) \in Nat
         /\ Len(code) <= Len(EmitCall(code, callee, exprs))
<1>1. PICK n : n = Len(exprs) /\ n \in Nat /\ DOMAIN exprs = 1..n
  BY DEF IsSeq
<1>2. PICK ps : ps = [i \in DOMAIN exprs |-> Quad("param", Reverse(exprs)[i].place, NoArg, NoArg, 0)]
  OBVIOUS
<1>3. \A i \in 1..n : Reverse(exprs)[i].place \in Places
  <2>1. ASSUME NEW i \in 1..n
        PROVE  Reverse(exprs)[i] = exprs[n - i + 1] /\ n - i + 1 \in 1..n
    BY <1>1 DEF Reverse
  <2> QED BY <1>1, <2>1
<1>4. \A i \in 1..n : ps[i] \in QuadSet /\ ps[i].op = "param"
  <2>1. ASSUME NEW i \in 1..n
        PROVE  ps[i] \in QuadSet /\ ps[i].op = "param"
    <3>1. PICK p \in Places : p = Reverse(exprs)[i].place
      BY <1>3
    <3>2. ps[i] = Quad("param", p, NoArg, NoArg, 0)
      BY <1>1, <1>2, <3>1
    <3>3. "param" \in JumpOps \cup {"assign", "param", "call", "getretval", "funcstart", "funcend", "ret"} /\ NoArg \in Places
      BY PlacesAre
    <3>4. PICK r : r = Quad("param", p, NoArg, NoArg, 0)
      OBVIOUS
    <3>5. r \in QuadSet /\ r.op = "param"
      BY <3>3, <3>4, QuadIs
    <3> QED BY <3>2, <3>4, <3>5
  <2> QED BY <2>1
<1>5. ps \in Seq(QuadSet) /\ DOMAIN ps = 1..n /\ Len(ps) = n
  <2>1. ps \in [1..n -> QuadSet]
    BY <1>1, <1>2, <1>4
  <2> QED BY <1>1, <2>1, SeqDef
<1>6. PICK c1 : c1 = code \o ps
  OBVIOUS
<1>7. Working(c1, H, R, h, here) /\ Len(c1) = Len(code) + n /\ Len(code) \in Nat
  <2>1. \A i \in DOMAIN ps : ps[i].op \notin JumpOps
    BY <1>4, <1>5, JumpOpsAre
  <2> QED BY <1>5, <1>6, <2>1, ManyEmitted
<1>8. PICK q1, q2 : /\ q1 = Quad("call", Func(callee), NoArg, NoArg, 0)
                    /\ q2 = Quad("getretval", NoArg, NoArg, Temp(Len(code) + n + 1), 0)
  OBVIOUS
<1>9. q1 \in QuadSet /\ q2 \in QuadSet /\ q1.op \notin JumpOps /\ q2.op \notin JumpOps
  <2>1. Func(callee) \in Places /\ Temp(Len(code) + n + 1) \in Places
    <3>1. Len(code) + n + 1 \in Nat
      BY <1>1, <1>7
    <3> QED BY <3>1, PlacesAre
  <2>2. q1 \in QuadSet /\ q2 \in QuadSet /\ q1.op = "call" /\ q2.op = "getretval"
    <3>1. /\ "call" \in JumpOps \cup {"assign", "param", "call", "getretval", "funcstart", "funcend", "ret"}
          /\ "getretval" \in JumpOps \cup {"assign", "param", "call", "getretval", "funcstart", "funcend", "ret"}
          /\ NoArg \in Places
      BY PlacesAre
    <3>2. q1 \in QuadSet /\ q1.op = "call"
      BY ZenonT(40), <1>8, <2>1, <3>1, QuadIs
    <3>3. q2 \in QuadSet /\ q2.op = "getretval"
      BY <1>8, <2>1, <3>1, QuadIs
    <3> QED BY <3>2, <3>3
  <2> QED BY <2>2, JumpOpsAre
<1>10. PICK c2 : c2 = Append(Append(c1, q1), q2)
  OBVIOUS
<1>11. Working(c2, H, R, h, here) /\ Len(c2) = Len(code) + n + 2
  <2>1. Working(Append(c1, q1), H, R, h, here) /\ Len(Append(c1, q1)) = Len(c1) + 1
    BY <1>7, <1>9, Emitted
  <2>2. Working(c2, H, R, h, here) /\ Len(c2) = Len(Append(c1, q1)) + 1
    BY <1>9, <1>10, <2>1, Emitted
  <2> QED BY <1>1, <1>7, <2>1, <2>2
<1>12. c2 = EmitCall(code, callee, exprs)
  <2>1. EmitCall(code, callee, exprs) = c1 \o <<q1, q2>>
    BY <1>1, <1>2, <1>6, <1>8 DEF EmitCall
  <2>2. c1 \in Seq(QuadSet)
    BY <1>7 DEF Working, Code
  <2> QED BY <1>9, <1>10, <2>1, <2>2, TwoMore
<1> QED BY <1>1, <1>7, <1>11, <1>12

LEMMA LoopIsPatched ==
  ASSUME NEW code, NEW H, NEW R, NEW h, NEW here, Working(code, H, R, h, here),
         NEW loop \in LoopSet, IsInjective(ListsOfLoop(loop)), Range(ListsOfLoop(loop)) \subseteq H,
         NEW cond, IsBool(cond), Given(cond, H), Range(ListsOf(cond)) \cap Range(ListsOfLoop(loop)) = {},
         NEW body \in Nat, body <= Len(code), h[body] = here,
         NEW cont \in Nat, cont <= Len(code), h[cont] = here
  PROVE  /\ Working(LoopPatched(code, loop, cond, body, cont),
                    (H \ Range(ListsOf(cond))) \ Range(ListsOfLoop(loop)), R, h, here)
         /\ Len(LoopPatched(code, loop, cond, body, cont)) = Len(code) /\ Len(code) \in Nat
<1>1. PICK t, f, b, c : t = cond.truelist /\ f = cond.falselist /\ b = loop.breaklist /\ c = loop.contlist
  OBVIOUS
<1>2. /\ t \in Seq(Nat) /\ f \in Seq(Nat) /\ b \in Seq(Nat) /\ c \in Seq(Nat)
      /\ ListsOf(cond) = t \o f /\ ListsOfLoop(loop) = b \o c
  BY <1>1 DEF IsBool, LoopSet, ListsOf, ListsOfLoop
<1>3. /\ Range(ListsOf(cond)) = Range(t) \cup Range(f) /\ Range(t) \cap Range(f) = {}
      /\ Range(ListsOfLoop(loop)) = Range(b) \cup Range(c) /\ Range(b) \cap Range(c) = {}
  BY <1>2, Joined DEF Given
<1>4. Range(t) \cup Range(f) \subseteq H
  BY <1>3 DEF Given
<1>5. PICK n : n = Len(code)
  OBVIOUS
<1>6. n \in Nat /\ h[n] = here /\ n <= n
  BY <1>5 DEF Working, Code
<1>7. PICK c1 : c1 = PatchList(code, t, body)
  OBVIOUS
<1>8. Working(c1, H \ Range(t), R, h, here) /\ Len(c1) = n
  BY <1>4, <1>5, <1>7, Patched
<1>9. PICK c2 : c2 = PatchList(c1, f, n)
  OBVIOUS
<1>10. Working(c2, (H \ Range(t)) \ Range(f), R, h, here) /\ Len(c2) = n
  <2>1. PICK G : G = H \ Range(t)
    OBVIOUS
  <2>2. Range(f) \subseteq G /\ n <= Len(c1) /\ Working(c1, G, R, h, here)
    BY <1>3, <1>4, <1>6, <1>8, <2>1
  <2>3. Working(c2, G \ Range(f), R, h, here) /\ Len(c2) = Len(c1)
    BY <1>6, <1>9, <2>2, Patched
  <2> QED BY <1>8, <2>1, <2>3
<1>11. PICK c3 : c3 = PatchList(c2, b, n)
  OBVIOUS
<1>12. Working(c3, ((H \ Range(t)) \ Range(f)) \ Range(b), R, h, here) /\ Len(c3) = n
  <2>1. PICK G : G = (H \ Range(t)) \ Range(f)
    OBVIOUS
  <2>2. Range(b) \subseteq G /\ n <= Len(c2) /\ Working(c2, G, R, h, here)
    BY <1>3, <1>6, <1>10, <2>1
  <2>3. Working(c3, G \ Range(b), R, h, here) /\ Len(c3) = Len(c2)
    BY <1>6, <1>11, <2>2, Patched
  <2> QED BY <1>10, <2>1, <2>3
<1>13. PICK c4 : c4 = PatchList(c3, c, cont)
  OBVIOUS
<1>14. Working(c4, (((H \ Range(t)) \ Range(f)) \ Range(b)) \ Range(c), R, h, here) /\ Len(c4) = n
  <2>1. PICK G : G = ((H \ Range(t)) \ Range(f)) \ Range(b)
    OBVIOUS
  <2>2. Range(c) \subseteq G /\ cont <= Len(c3) /\ Working(c3, G, R, h, here)
    BY <1>3, <1>5, <1>12, <2>1
  <2>3. Working(c4, G \ Range(c), R, h, here) /\ Len(c4) = Len(c3)
    BY SMTT(30), <1>13, <2>2, Patched
  <2> QED BY <1>12, <2>1, <2>3
<1>15. (((H \ Range(t)) \ Range(f)) \ Range(b)) \ Range(c) = (H \ Range(ListsOf(cond))) \ Range(ListsOfLoop(loop))
  BY <1>3
<1>16. LoopPatched(code, loop, cond, body, cont) = c4
  BY <1>1, <1>5, <1>7, <1>9, <1>11, <1>13 DEF LoopPatched
<1> QED BY <1>5, <1>6, <1>14, <1>15, <1>16

-----------------------------------------------------------------------------
(* The stack, the loops and the functions that are finished. *)

HeldOf(vs, loops, saved) == HeldIn(vs) \o HeldByLoops(loops) \o HeldBySaved(saved)

Types(vs, loops, saved) == vs \in Seq(ViewSet) /\ loops \in Seq(LoopSet) /\ saved \in Seq(Seq(LoopSet))

LEMMA HeldTyped ==
  ASSUME NEW vs, NEW loops, NEW saved, Types(vs, loops, saved)
  PROVE  HeldIn(vs) \in Seq(Nat) /\ HeldByLoops(loops) \in Seq(Nat) /\ HeldBySaved(saved) \in Seq(Nat)
<1>1. PICK v : v = [class |-> "plain", held |-> <<>>, labels |-> {}, start |-> 0]
  OBVIOUS
<1>2. v \in ViewSet
  <2>1. <<>> \in Seq(Nat)
    OBVIOUS
  <2> QED BY <1>1, <2>1 DEF ViewSet
<1>3. HeldIn(vs) \in Seq(Nat)
  BY <1>2, HeldInOneMore DEF Types
<1>4. PICK l : l = [breaklist |-> <<>>, contlist |-> <<>>]
  OBVIOUS
<1>5. l \in LoopSet
  <2>1. <<>> \in Seq(Nat)
    OBVIOUS
  <2> QED BY <1>4, <2>1 DEF LoopSet
<1>6. HeldByLoops(loops) \in Seq(Nat)
  BY <1>5, HeldByLoopsOneMore DEF Types
<1>7. HeldBySaved(saved) \in Seq(Nat)
  BY HeldBySavedOneMore DEF Types
<1> QED BY <1>3, <1>6, <1>7

\* All that is held, where it is held.
Shared(H, vs, loops, saved) ==
  /\ Range(H) = Range(HeldIn(vs)) \cup Range(HeldByLoops(loops)) \cup Range(HeldBySaved(saved))
  /\ IsInjective(H) <=>
       /\ IsInjective(HeldIn(vs)) /\ IsInjective(HeldByLoops(loops)) /\ IsInjective(HeldBySaved(saved))
       /\ Range(HeldIn(vs)) \cap Range(HeldByLoops(loops)) = {}
       /\ Range(HeldIn(vs)) \cap Range(HeldBySaved(saved)) = {}
       /\ Range(HeldByLoops(loops)) \cap Range(HeldBySaved(saved)) = {}

LEMMA HeldSplits ==
  ASSUME NEW vs, NEW loops, NEW saved, Types(vs, loops, saved)
  PROVE  Shared(HeldOf(vs, loops, saved), vs, loops, saved) /\ HeldOf(vs, loops, saved) \in Seq(Nat)
<1>1. PICK a, b, c : a = HeldIn(vs) /\ b = HeldByLoops(loops) /\ c = HeldBySaved(saved)
  OBVIOUS
<1>2. a \in Seq(Nat) /\ b \in Seq(Nat) /\ c \in Seq(Nat)
  BY <1>1, HeldTyped
<1>3. /\ a \o b \in Seq(Nat) /\ Range(a \o b) = Range(a) \cup Range(b)
      /\ IsInjective(a \o b) <=> IsInjective(a) /\ IsInjective(b) /\ Range(a) \cap Range(b) = {}
  BY <1>2, Joined
<1>4. PICK d : d = a \o b
  OBVIOUS
<1>5. /\ d \o c \in Seq(Nat) /\ Range(d \o c) = Range(d) \cup Range(c)
      /\ IsInjective(d \o c) <=> IsInjective(d) /\ IsInjective(c) /\ Range(d) \cap Range(c) = {}
  BY <1>2, <1>3, <1>4, Joined
<1>6. HeldOf(vs, loops, saved) = d \o c
  BY <1>1, <1>4 DEF HeldOf
<1> QED BY <1>1, <1>3, <1>4, <1>5, <1>6 DEF Shared

\* The functions that are finished.
Apart(done, open, len) ==
  /\ IsSeq(done)
  /\ \A i \in DOMAIN done :
       /\ done[i].start \in Nat /\ done[i].end \in Nat
       /\ done[i].end < len /\ done[i].start < done[i].end
       /\ done[i].start \notin open
       /\ \A j \in DOMAIN done : done[i].start = done[j].start => i = j

\* Where the action works: R are the jumps that wait on the stack and in the
\* loops, here the functions around.
Context(vs, loops, saved, done, R, h, here, len) ==
  /\ Types(vs, loops, saved) /\ len \in Nat
  /\ here = Opened(vs, Len(vs)) /\ h = HomesOf(done, here)
  /\ R = Range(HeldOf(vs, loops, saved)) /\ IsInjective(HeldOf(vs, loops, saved))
  /\ Nested(vs, loops, saved, h, len)
  /\ Apart(done, here, len)

Sound(code, vs, loops, saved, done) ==
  \E R, h, here : /\ Context(vs, loops, saved, done, R, h, here, Len(code))
                  /\ Working(code, {}, R, h, here)

LEMMA NestedLonger ==
  ASSUME NEW vs \in Seq(ViewSet), NEW loops, NEW saved, NEW h, NEW len \in Nat, Nested(vs, loops, saved, h, len),
         NEW more \in Nat, len <= more
  PROVE  Nested(vs, loops, saved, h, more)
<1>1. \A i \in DOMAIN vs : vs[i] \in ViewSet
  OBVIOUS
<1>2. \A i \in DOMAIN vs : /\ vs[i].start \in Nat
                           /\ \A n \in Range(vs[i].held) \cup vs[i].labels : n \in Nat
  <2>1. ASSUME NEW v \in ViewSet
        PROVE  v.start \in Nat /\ \A n \in Range(v.held) \cup v.labels : n \in Nat
    <3>1. v.start \in Nat /\ v.held \in Seq(Nat) /\ v.labels \in SUBSET Nat
      BY DEF ViewSet
    <3>2. \A n \in Range(v.held) : n \in Nat
      BY <3>1 DEF Range
    <3> QED BY <3>1, <3>2
  <2> QED BY <1>1, <2>1
<1>3. ASSUME NEW i \in DOMAIN vs, NEW n \in Range(vs[i].held) \cup vs[i].labels
      PROVE  n <= more /\ h[n] = Opened(vs, i)
  <2>1. n \in Nat /\ n <= len /\ h[n] = Opened(vs, i)
    BY <1>2, <1>3 DEF Nested
  <2> QED BY <2>1
<1>4. \A i \in DOMAIN vs : vs[i].class = "func" => vs[i].start < more
  BY <1>2 DEF Nested
<1> QED BY <1>3, <1>4 DEF Nested

LEMMA ContextLonger ==
  ASSUME NEW vs, NEW loops, NEW saved, NEW done, NEW R, NEW h, NEW here, NEW len,
         Context(vs, loops, saved, done, R, h, here, len), NEW more \in Nat, len <= more
  PROVE  Context(vs, loops, saved, done, R, h, here, more)
<1>1. Nested(vs, loops, saved, h, more)
  <2>1. vs \in Seq(ViewSet) /\ len \in Nat /\ Nested(vs, loops, saved, h, len)
    BY DEF Context, Types
  <2> QED BY <2>1, NestedLonger
<1>2. Apart(done, here, more)
  <2>1. Apart(done, here, len) /\ len \in Nat
    BY DEF Context
  <2>2. \A i \in DOMAIN done : done[i].end \in Nat /\ done[i].end < len => done[i].end < more
    BY <2>1
  <2> QED BY <2>1, <2>2 DEF Apart
<1> QED BY <1>1, <1>2 DEF Context

\* Everything that is here is known to be before len.
LEMMA HomesAhead ==
  ASSUME NEW done, NEW here, NEW len \in Nat, Apart(done, here, len), \A s \in here : s \in Nat /\ s < len
  PROVE  \A n \in Nat : len <= n => HomesOf(done, here)[n] = here
<1> SUFFICES ASSUME NEW n \in Nat, len <= n
             PROVE  HomesOf(done, here)[n] = here
  OBVIOUS
<1>1. HomesOf(done, here)[n] =
        {done[i].start : i \in {j \in DOMAIN done : done[j].start < n /\ n <= done[j].end}} \cup {s \in here : s < n}
  BY DEF HomesOf
<1>2. {j \in DOMAIN done : done[j].start < n /\ n <= done[j].end} = {}
  <2>1. \A j \in DOMAIN done : ~ (n <= done[j].end)
    BY DEF Apart
  <2> QED BY <2>1
<1>3. {s \in here : s < n} = here
  <2>1. \A s \in here : s < n
    OBVIOUS
  <2> QED BY <2>1
<1>4. {done[i].start : i \in {}} = {}
  OBVIOUS
<1> QED BY <1>1, <1>2, <1>3, <1>4

LEMMA OpenedBefore ==
  ASSUME NEW vs \in Seq(ViewSet), NEW loops, NEW saved, NEW h, NEW len, Nested(vs, loops, saved, h, len)
  PROVE  \A s \in Opened(vs, Len(vs)) : s \in Nat /\ s < len
<1>1. DOMAIN vs = 1..Len(vs) /\ \A i \in DOMAIN vs : vs[i] \in ViewSet
  OBVIOUS
<1>2. \A i \in DOMAIN vs : vs[i].start \in Nat
  BY <1>1 DEF ViewSet
<1>3. \A i \in 1..Len(vs) : vs[i].class = "func" => vs[i].start < len
  BY <1>1 DEF Nested
<1> QED BY <1>1, <1>2, <1>3 DEF Opened

\* Taking an item from the stack that is not a function or a loop.
LEMMA TakePlain ==
  ASSUME NEW vs, NEW v \in ViewSet, v.class = "plain", vs \in Seq(ViewSet),
         NEW loops, NEW saved, NEW done, NEW R, NEW h, NEW here, NEW code,
         Context(Append(vs, v), loops, saved, done, R, h, here, Len(code)),
         NEW H, Working(code, H, R, h, here)
  PROVE  \E S : /\ Context(vs, loops, saved, done, S, h, here, Len(code))
                /\ Working(code, H \cup Range(v.held), S, h, here)
                /\ IsInjective(v.held) /\ H \cap Range(v.held) = {}
                /\ Knows(v, h, Len(code), here)
<1>1. PICK ws : ws = Append(vs, v)
  OBVIOUS
<1>2. Types(ws, loops, saved) /\ Types(vs, loops, saved) /\ Len(code) \in Nat
  BY <1>1 DEF Context, Types
<1>3. here = Opened(vs, Len(vs))
  <2>1. PICK n : n = Len(vs)
    OBVIOUS
  <2>2. Pushed(vs, v, ws, n)
    BY <1>1, <2>1, OneItemMore
  <2>3. Opened(ws, n + 1) = Opened(vs, n) /\ Len(ws) = n + 1
    BY <2>2 DEF Pushed
  <2> QED BY <1>1, <2>1, <2>3 DEF Context
<1>4. Nested(vs, loops, saved, h, Len(code)) /\ Knows(v, h, Len(code), here)
  <2>1. Nested(Append(vs, v), loops, saved, h, Len(code))
    BY DEF Context
  <2> QED BY <1>3, <2>1, NestedPop
<1>5. Shared(HeldOf(ws, loops, saved), ws, loops, saved) /\ Shared(HeldOf(vs, loops, saved), vs, loops, saved)
  BY <1>2, HeldSplits
<1>6. v.held \in Seq(Nat) /\ HeldIn(vs) \in Seq(Nat) /\ HeldIn(ws) = HeldIn(vs) \o v.held
  <2>1. v.held \in Seq(Nat)
    BY DEF ViewSet
  <2> QED BY <1>1, <2>1, HeldInOneMore
<1>7. /\ Range(HeldIn(ws)) = Range(HeldIn(vs)) \cup Range(v.held)
      /\ IsInjective(HeldIn(ws)) <=> IsInjective(HeldIn(vs)) /\ IsInjective(v.held) /\ Range(HeldIn(vs)) \cap Range(v.held) = {}
  BY <1>6, Joined
<1>8. PICK S : S = Range(HeldOf(vs, loops, saved))
  OBVIOUS
<1>9. IsInjective(HeldOf(ws, loops, saved)) /\ R = Range(HeldOf(ws, loops, saved))
  BY <1>1 DEF Context
<1>10. IsInjective(HeldOf(vs, loops, saved)) /\ IsInjective(v.held) /\ R = S \cup Range(v.held) /\ S \cap Range(v.held) = {}
  BY <1>5, <1>7, <1>8, <1>9 DEF Shared
<1>11. Context(vs, loops, saved, done, S, h, here, Len(code))
  BY <1>2, <1>3, <1>4, <1>8, <1>10 DEF Context
<1>12. H \cap Range(v.held) = {}
  BY <1>10 DEF Working
<1>13. Working(code, H \cup Range(v.held), S, h, here)
  <2>1. (H \cup Range(v.held)) \cup S = H \cup R
    BY <1>10
  <2>2. (H \cup Range(v.held)) \cap S = {}
    BY <1>10 DEF Working
  <2>3. \A n \in Range(v.held) : h[n] = here
    BY <1>4 DEF Knows
  <2> QED BY <2>1, <2>2, <2>3 DEF Working
<1> QED BY <1>4, <1>10, <1>11, <1>12, <1>13

\* And putting one there.
LEMMA PutPlain ==
  ASSUME NEW vs, NEW v \in ViewSet, v.class = "plain",
         NEW loops, NEW saved, NEW done, NEW R, NEW h, NEW here, NEW code,
         Context(vs, loops, saved, done, R, h, here, Len(code)),
         NEW H, Working(code, H, R, h, here),
         IsInjective(v.held), Range(v.held) = H, Knows(v, h, Len(code), here)
  PROVE  Sound(code, Append(vs, v), loops, saved, done)
<1>1. PICK ws : ws = Append(vs, v)
  OBVIOUS
<1>2. Types(ws, loops, saved) /\ Types(vs, loops, saved) /\ Len(code) \in Nat /\ vs \in Seq(ViewSet)
  BY <1>1 DEF Context, Types
<1>3. here = Opened(ws, Len(ws)) /\ here = Opened(vs, Len(vs))
  <2>1. PICK n : n = Len(vs)
    OBVIOUS
  <2>2. Pushed(vs, v, ws, n)
    BY <1>1, <1>2, <2>1, OneItemMore
  <2>3. Opened(ws, n + 1) = Opened(vs, n) /\ Len(ws) = n + 1
    BY <2>2 DEF Pushed
  <2> QED BY <1>1, <2>1, <2>3 DEF Context
<1>4. Nested(ws, loops, saved, h, Len(code))
  <2>1. Nested(vs, loops, saved, h, Len(code)) /\ Knows(v, h, Len(code), Opened(vs, Len(vs)))
    BY <1>3 DEF Context
  <2> QED BY <1>1, <1>2, <2>1, NestedPush
<1>5. Shared(HeldOf(ws, loops, saved), ws, loops, saved) /\ Shared(HeldOf(vs, loops, saved), vs, loops, saved)
  BY <1>2, HeldSplits
<1>6. v.held \in Seq(Nat) /\ HeldIn(vs) \in Seq(Nat) /\ HeldIn(ws) = HeldIn(vs) \o v.held
  <2>1. v.held \in Seq(Nat)
    BY DEF ViewSet
  <2> QED BY <1>1, <1>2, <2>1, HeldInOneMore
<1>7. /\ Range(HeldIn(ws)) = Range(HeldIn(vs)) \cup Range(v.held)
      /\ IsInjective(HeldIn(ws)) <=> IsInjective(HeldIn(vs)) /\ IsInjective(v.held) /\ Range(HeldIn(vs)) \cap Range(v.held) = {}
  BY <1>6, Joined
<1>8. PICK S : S = Range(HeldOf(ws, loops, saved))
  OBVIOUS
<1>9. IsInjective(HeldOf(vs, loops, saved)) /\ R = Range(HeldOf(vs, loops, saved)) /\ H \cap R = {}
  BY DEF Context, Working
<1>10. IsInjective(HeldOf(ws, loops, saved)) /\ S = R \cup H
  BY <1>5, <1>7, <1>8, <1>9 DEF Shared
<1>11. Context(ws, loops, saved, done, S, h, here, Len(code))
  BY <1>2, <1>3, <1>4, <1>8, <1>10 DEF Context
<1>12. Working(code, {}, S, h, here)
  <2>1. {} \cup S = H \cup R
    BY <1>10
  <2> QED BY <2>1 DEF Working
<1> QED BY <1>1, <1>11, <1>12 DEF Sound

\* The same for a loop, which is on the stack and in the list of loops.
LEMMA TakeLoop ==
  ASSUME NEW vs, NEW v \in ViewSet, v.class = "loop", vs \in Seq(ViewSet),
         NEW loops, NEW saved, NEW done, NEW R, NEW h, NEW here, NEW code,
         Context(Append(vs, v), loops, saved, done, R, h, here, Len(code)),
         NEW H, Working(code, H, R, h, here)
  PROVE  \E S, ks, l :
           /\ loops = Append(ks, l) /\ ks = Front(loops) /\ l = Last(loops)
           /\ ks \in Seq(LoopSet) /\ l \in LoopSet
           /\ Context(vs, ks, saved, done, S, h, here, Len(code))
           /\ Working(code, (H \cup Range(v.held)) \cup Range(ListsOfLoop(l)), S, h, here)
           /\ IsInjective(v.held) /\ IsInjective(ListsOfLoop(l))
           /\ H \cap Range(v.held) = {} /\ (H \cup Range(v.held)) \cap Range(ListsOfLoop(l)) = {}
           /\ Knows(v, h, Len(code), here)
<1>1. PICK ws : ws = Append(vs, v)
  OBVIOUS
<1>2. Types(ws, loops, saved) /\ Len(code) \in Nat
  BY <1>1 DEF Context
<1>3. here = Opened(vs, Len(vs))
  <2>1. PICK n : n = Len(vs)
    OBVIOUS
  <2>2. Pushed(vs, v, ws, n)
    BY <1>1, <2>1, OneItemMore
  <2>3. Opened(ws, n + 1) = Opened(vs, n) /\ Len(ws) = n + 1
    BY <2>2 DEF Pushed
  <2> QED BY <1>1, <2>1, <2>3 DEF Context
<1>4. PICK ks \in Seq(LoopSet), l \in LoopSet :
           /\ loops = Append(ks, l) /\ ks = Front(loops) /\ l = Last(loops)
           /\ Nested(vs, ks, saved, h, Len(code)) /\ Knows(v, h, Len(code), here)
           /\ \A m \in Range(ListsOfLoop(l)) : h[m] = here
  <2>1. Nested(Append(vs, v), loops, saved, h, Len(code)) /\ loops \in Seq(LoopSet)
    BY DEF Context, Types
  <2>2. \E ks1 \in Seq(LoopSet), l1 \in LoopSet :
           /\ loops = Append(ks1, l1) /\ ks1 = Front(loops) /\ l1 = Last(loops)
           /\ Nested(vs, ks1, saved, h, Len(code)) /\ Knows(v, h, Len(code), Opened(vs, Len(vs)))
           /\ \A m \in Range(ListsOfLoop(l1)) : h[m] = Opened(vs, Len(vs))
    BY <2>1, NestedPopLoop
  <2> QED BY <1>3, <2>2
<1>5. Types(vs, ks, saved)
  BY <1>2, <1>4 DEF Types
<1>6. Shared(HeldOf(ws, loops, saved), ws, loops, saved) /\ Shared(HeldOf(vs, ks, saved), vs, ks, saved)
  BY <1>2, <1>5, HeldSplits
<1>7. v.held \in Seq(Nat) /\ HeldIn(vs) \in Seq(Nat) /\ HeldIn(ws) = HeldIn(vs) \o v.held
  <2>1. v.held \in Seq(Nat)
    BY DEF ViewSet
  <2> QED BY <1>1, <2>1, HeldInOneMore
<1>8. /\ Range(HeldIn(ws)) = Range(HeldIn(vs)) \cup Range(v.held)
      /\ IsInjective(HeldIn(ws)) <=> IsInjective(HeldIn(vs)) /\ IsInjective(v.held) /\ Range(HeldIn(vs)) \cap Range(v.held) = {}
  BY <1>7, Joined
<1>9. PICK list : list = ListsOfLoop(l)
  OBVIOUS
<1>10. list \in Seq(Nat) /\ HeldByLoops(ks) \in Seq(Nat) /\ HeldByLoops(loops) = HeldByLoops(ks) \o list
  BY <1>4, <1>9, HeldByLoopsOneMore
<1>11. /\ Range(HeldByLoops(loops)) = Range(HeldByLoops(ks)) \cup Range(list)
       /\ IsInjective(HeldByLoops(loops)) <=>
            IsInjective(HeldByLoops(ks)) /\ IsInjective(list) /\ Range(HeldByLoops(ks)) \cap Range(list) = {}
  BY <1>10, Joined
<1>12. PICK S : S = Range(HeldOf(vs, ks, saved))
  OBVIOUS
<1>13. IsInjective(HeldOf(ws, loops, saved)) /\ R = Range(HeldOf(ws, loops, saved))
  BY <1>1 DEF Context
<1>14. /\ IsInjective(HeldOf(vs, ks, saved)) /\ IsInjective(v.held) /\ IsInjective(list)
       /\ R = S \cup Range(v.held) \cup Range(list)
       /\ S \cap Range(v.held) = {} /\ S \cap Range(list) = {} /\ Range(v.held) \cap Range(list) = {}
  BY <1>6, <1>8, <1>11, <1>12, <1>13 DEF Shared
<1>15. Context(vs, ks, saved, done, S, h, here, Len(code))
  BY <1>2, <1>3, <1>4, <1>5, <1>12, <1>14 DEF Context
<1>16. H \cap Range(v.held) = {} /\ (H \cup Range(v.held)) \cap Range(list) = {}
  BY <1>14 DEF Working
<1>17. Working(code, (H \cup Range(v.held)) \cup Range(list), S, h, here)
  <2>1. ((H \cup Range(v.held)) \cup Range(list)) \cup S = H \cup R
    BY <1>14
  <2>2. ((H \cup Range(v.held)) \cup Range(list)) \cap S = {}
    BY <1>14 DEF Working
  <2>3. \A n \in Range(v.held) \cup Range(list) : h[n] = here
    BY <1>4, <1>9 DEF Knows
  <2> QED BY <2>1, <2>2, <2>3 DEF Working
<1> QED BY <1>4, <1>9, <1>14, <1>15, <1>16, <1>17

LEMMA PutLoop ==
  ASSUME NEW vs, NEW v \in ViewSet, v.class = "loop", NEW l \in LoopSet,
         NEW loops, NEW saved, NEW done, NEW R, NEW h, NEW here, NEW code,
         Context(vs, loops, saved, done, R, h, here, Len(code)),
         NEW H, Working(code, H, R, h, here),
         IsInjective(v.held), IsInjective(ListsOfLoop(l)), Range(v.held) \cap Range(ListsOfLoop(l)) = {},
         H = Range(v.held) \cup Range(ListsOfLoop(l)), Knows(v, h, Len(code), here)
  PROVE  Sound(code, Append(vs, v), Append(loops, l), saved, done)
<1>1. PICK ws, ks, list : ws = Append(vs, v) /\ ks = Append(loops, l) /\ list = ListsOfLoop(l)
  OBVIOUS
<1>2. /\ Types(ws, ks, saved) /\ Types(vs, loops, saved) /\ Len(code) \in Nat
      /\ vs \in Seq(ViewSet) /\ loops \in Seq(LoopSet)
  BY <1>1 DEF Context, Types
<1>3. here = Opened(ws, Len(ws)) /\ here = Opened(vs, Len(vs))
  <2>1. PICK n : n = Len(vs)
    OBVIOUS
  <2>2. Pushed(vs, v, ws, n)
    BY <1>1, <1>2, <2>1, OneItemMore
  <2>3. Opened(ws, n + 1) = Opened(vs, n) /\ Len(ws) = n + 1
    BY <2>2 DEF Pushed
  <2> QED BY <1>1, <2>1, <2>3 DEF Context
<1>4. \A n \in H : h[n] = here
  BY DEF Working
<1>5. Nested(ws, ks, saved, h, Len(code))
  <2>1. Nested(vs, loops, saved, h, Len(code)) /\ Knows(v, h, Len(code), Opened(vs, Len(vs)))
    BY <1>3 DEF Context
  <2>2. \A m \in Range(ListsOfLoop(l)) : h[m] = Opened(vs, Len(vs))
    BY <1>3, <1>4
  <2> QED BY <1>1, <1>2, <2>1, <2>2, NestedPushLoop
<1>6. Shared(HeldOf(ws, ks, saved), ws, ks, saved) /\ Shared(HeldOf(vs, loops, saved), vs, loops, saved)
  BY <1>2, HeldSplits
<1>7. v.held \in Seq(Nat) /\ HeldIn(vs) \in Seq(Nat) /\ HeldIn(ws) = HeldIn(vs) \o v.held
  <2>1. v.held \in Seq(Nat)
    BY DEF ViewSet
  <2> QED BY <1>1, <1>2, <2>1, HeldInOneMore
<1>8. /\ Range(HeldIn(ws)) = Range(HeldIn(vs)) \cup Range(v.held)
      /\ IsInjective(HeldIn(ws)) <=> IsInjective(HeldIn(vs)) /\ IsInjective(v.held) /\ Range(HeldIn(vs)) \cap Range(v.held) = {}
  BY <1>7, Joined
<1>9. list \in Seq(Nat) /\ HeldByLoops(loops) \in Seq(Nat) /\ HeldByLoops(ks) = HeldByLoops(loops) \o list
  BY <1>1, <1>2, HeldByLoopsOneMore
<1>10. /\ Range(HeldByLoops(ks)) = Range(HeldByLoops(loops)) \cup Range(list)
       /\ IsInjective(HeldByLoops(ks)) <=>
            IsInjective(HeldByLoops(loops)) /\ IsInjective(list) /\ Range(HeldByLoops(loops)) \cap Range(list) = {}
  BY <1>9, Joined
<1>11. PICK S : S = Range(HeldOf(ws, ks, saved))
  OBVIOUS
<1>12. IsInjective(HeldOf(vs, loops, saved)) /\ R = Range(HeldOf(vs, loops, saved)) /\ H \cap R = {}
  BY DEF Context, Working
<1>13. IsInjective(HeldOf(ws, ks, saved)) /\ S = R \cup H
  BY <1>1, <1>6, <1>8, <1>10, <1>11, <1>12 DEF Shared
<1>14. Context(ws, ks, saved, done, S, h, here, Len(code))
  BY <1>2, <1>3, <1>5, <1>11, <1>13 DEF Context
<1>15. Working(code, {}, S, h, here)
  <2>1. {} \cup S = H \cup R
    BY <1>13
  <2> QED BY <2>1 DEF Working
<1> QED BY <1>1, <1>14, <1>15 DEF Sound

\* A loop gets more jumps, while the stack stays as it is.
LEMMA ChangeLoop ==
  ASSUME NEW vs, NEW ks \in Seq(LoopSet), NEW l \in LoopSet, NEW new \in LoopSet, NEW saved, NEW done,
         NEW R, NEW h, NEW here, NEW code,
         Context(vs, Append(ks, l), saved, done, R, h, here, Len(code)),
         NEW H, Working(code, H, R, h, here),
         IsInjective(ListsOfLoop(l)) => IsInjective(ListsOfLoop(new)),
         Range(ListsOfLoop(new)) = Range(ListsOfLoop(l)) \cup H
  PROVE  Sound(code, vs, Append(ks, new), saved, done)
<1>1. PICK old, loops, a, b : /\ old = Append(ks, l) /\ loops = Append(ks, new)
                              /\ a = ListsOfLoop(l) /\ b = ListsOfLoop(new)
  OBVIOUS
<1>2. Types(vs, old, saved) /\ Types(vs, loops, saved) /\ Len(code) \in Nat
  BY <1>1 DEF Context, Types
<1>3. /\ a \in Seq(Nat) /\ b \in Seq(Nat) /\ HeldByLoops(ks) \in Seq(Nat)
      /\ HeldByLoops(old) = HeldByLoops(ks) \o a /\ HeldByLoops(loops) = HeldByLoops(ks) \o b
  BY <1>1, HeldByLoopsOneMore
<1>4. /\ Range(HeldByLoops(old)) = Range(HeldByLoops(ks)) \cup Range(a)
      /\ IsInjective(HeldByLoops(old)) <=> IsInjective(HeldByLoops(ks)) /\ IsInjective(a) /\ Range(HeldByLoops(ks)) \cap Range(a) = {}
  BY <1>3, Joined
<1>5. /\ Range(HeldByLoops(loops)) = Range(HeldByLoops(ks)) \cup Range(b)
      /\ IsInjective(HeldByLoops(loops)) <=> IsInjective(HeldByLoops(ks)) /\ IsInjective(b) /\ Range(HeldByLoops(ks)) \cap Range(b) = {}
  BY <1>3, Joined
<1>6. Shared(HeldOf(vs, old, saved), vs, old, saved) /\ Shared(HeldOf(vs, loops, saved), vs, loops, saved)
  BY <1>2, HeldSplits
<1>7. PICK S : S = Range(HeldOf(vs, loops, saved))
  OBVIOUS
<1>8. IsInjective(HeldOf(vs, old, saved)) /\ R = Range(HeldOf(vs, old, saved)) /\ H \cap R = {}
  BY <1>1 DEF Context, Working
<1>9. IsInjective(HeldOf(vs, loops, saved)) /\ S = R \cup H
  BY <1>1, <1>4, <1>5, <1>6, <1>7, <1>8 DEF Shared
<1>10. Nested(vs, loops, saved, h, Len(code))
  <2>1. Nested(vs, old, saved, h, Len(code)) /\ here = Opened(vs, Len(vs))
    BY <1>1 DEF Context
  <2>2. \A m \in Range(HeldByLoops(loops)) : h[m] = here
    <3>1. \A m \in Range(HeldByLoops(old)) : h[m] = here
      BY <2>1 DEF Nested
    <3>2. \A m \in H : h[m] = here
      BY DEF Working
    <3> QED BY <1>1, <1>4, <1>5, <3>1, <3>2
  <2>3. Len(loops) = Len(old)
    BY <1>1
  <2> QED BY <2>1, <2>2, <2>3 DEF Nested
<1>11. Context(vs, loops, saved, done, S, h, here, Len(code))
  BY <1>2, <1>7, <1>9, <1>10 DEF Context
<1>12. Working(code, {}, S, h, here)
  <2>1. {} \cup S = H \cup R
    BY <1>9
  <2> QED BY <2>1 DEF Working
<1> QED BY <1>1, <1>11, <1>12 DEF Sound

-----------------------------------------------------------------------------
(* Functions that begin and end: the homes of the places ahead change, not *)
(* those of the quads there are.                                           *)

\* Everything that is held is before len.
Behind(loops, saved, len) ==
  /\ \A n \in Range(HeldByLoops(loops)) : n \in 0..len
  /\ \A i \in DOMAIN saved : \A n \in Range(HeldByLoops(saved[i])) : n \in 0..len

LEMMA NestedHomes ==
  ASSUME NEW vs \in Seq(ViewSet), NEW loops, NEW saved, NEW h, NEW len \in Nat, Nested(vs, loops, saved, h, len),
         Len(saved) \in Nat, DOMAIN saved = 1..Len(saved), Behind(loops, saved, len),
         NEW g, \A n \in 0..len : g[n] = h[n]
  PROVE  Nested(vs, loops, saved, g, len)
<1>1. DOMAIN vs = 1..Len(vs) /\ Len(vs) \in Nat
  OBVIOUS
<1>2. ASSUME NEW i \in DOMAIN vs, NEW n \in Range(vs[i].held) \cup vs[i].labels
      PROVE  n <= len /\ g[n] = Opened(vs, i)
  <2>1. n <= len /\ h[n] = Opened(vs, i)
    BY <1>2 DEF Nested
  <2>2. n \in Nat
    <3>1. PICK v \in ViewSet : v = vs[i]
      OBVIOUS
    <3>2. v.held \in Seq(Nat) /\ v.labels \in SUBSET Nat
      BY DEF ViewSet
    <3> QED BY <1>2, <3>1, <3>2 DEF Range
  <2> QED BY <2>1, <2>2
<1>3. ASSUME NEW i \in DOMAIN vs, vs[i].class = "func", NEW n \in Range(HeldByLoops(saved[FuncsTo(vs, i)]))
      PROVE  g[n] = Opened(vs, i - 1)
  <2>1. FuncsTo(vs, i) \in 1..FuncsTo(vs, Len(vs))
    <3>1. Len(vs) \in 0..Len(vs) /\ i \in 1..Len(vs)
      BY <1>1
    <3> QED BY <1>3, <3>1, FuncsGrow
  <2>2. FuncsTo(vs, i) \in DOMAIN saved
    BY <2>1 DEF Nested
  <2>3. n \in 0..len
    BY <1>3, <2>2 DEF Behind
  <2>4. h[n] = Opened(vs, i - 1)
    BY <1>3 DEF Nested
  <2> QED BY <2>3, <2>4
<1>4. \A n \in Range(HeldByLoops(loops)) : g[n] = Opened(vs, Len(vs))
  BY DEF Nested, Behind
<1> QED BY <1>2, <1>3, <1>4 DEF Nested

LEMMA NestedPushFunc ==
  ASSUME NEW vs \in Seq(ViewSet), NEW v \in ViewSet, v.class = "func", v.held = <<>>, v.labels = {},
         NEW loops, NEW saved \in Seq(Seq(LoopSet)), loops \in Seq(LoopSet), NEW h, NEW len \in Nat,
         Nested(vs, loops, saved, h, len),
         v.start < len, \A s \in Opened(vs, Len(vs)) : s < v.start
  PROVE  Nested(Append(vs, v), <<>>, Append(saved, loops), h, len)
<1>1. PICK ws, ss, n : ws = Append(vs, v) /\ ss = Append(saved, loops) /\ n = Len(vs)
  OBVIOUS
<1>2. /\ n \in Nat /\ Len(ws) = n + 1 /\ ws[n + 1] = v
      /\ DOMAIN ws = 1..n + 1 /\ DOMAIN vs = 1..n
      /\ \A i \in 1..n : ws[i] = vs[i]
      /\ \A i \in 0..n : /\ Opened(ws, i) = Opened(vs, i)
                         /\ FuncsTo(ws, i) = FuncsTo(vs, i)
                         /\ LoopsTo(ws, i) = LoopsTo(vs, i)
                         /\ FuncsTo(vs, i) \in Nat
      /\ FuncsTo(ws, n + 1) = FuncsTo(vs, n) + 1 /\ LoopsTo(ws, n + 1) = 0
  <2>1. Pushed(vs, v, ws, n)
    BY <1>1, OneItemMore
  <2> QED BY <2>1 DEF Pushed
<1>3. Len(ss) = Len(saved) + 1 /\ Len(saved) \in Nat /\ ss[Len(saved) + 1] = loops /\ \A i \in 1..Len(saved) : ss[i] = saved[i]
  <2>1. PICK S : S = Seq(LoopSet)
    OBVIOUS
  <2>2. saved \in Seq(S) /\ loops \in S
    BY <2>1
  <2> QED BY <1>1, <2>2
<1>4. FuncsTo(vs, n) = Len(saved) /\ LoopsTo(vs, n) = Len(loops)
  BY <1>1 DEF Nested
<1>5. \A i \in DOMAIN ws : i = n + 1 \/ (i \in DOMAIN vs /\ i \in 0..n /\ i - 1 \in 0..n)
  <2>1. n \in Nat /\ DOMAIN ws = 1..n + 1 /\ DOMAIN vs = 1..n
    BY <1>2
  <2>2. \A i \in 1..n + 1 : i = n + 1 \/ (i \in 1..n /\ i \in 0..n /\ i - 1 \in 0..n)
    BY <2>1
  <2> QED BY <2>1, <2>2
<1>6. \A i \in DOMAIN vs : vs[i].class = "func" => vs[i].start < v.start
  BY <1>1, <1>2 DEF Opened
<1>7. ASSUME NEW i \in DOMAIN ws, ws[i].class = "func"
      PROVE  /\ Len(ss[FuncsTo(ws, i)]) = LoopsTo(ws, i - 1)
             /\ \A m \in Range(HeldByLoops(ss[FuncsTo(ws, i)])) : h[m] = Opened(ws, i - 1)
             /\ ws[i].start < len
             /\ \A j \in DOMAIN ws : i < j /\ ws[j].class = "func" => ws[i].start < ws[j].start
  <2>1. CASE i = n + 1
    <3>1. FuncsTo(ws, i) = Len(saved) + 1 /\ i - 1 = n /\ n \in 0..n
      BY <1>2, <1>4, <2>1
    <3>2. ss[FuncsTo(ws, i)] = loops /\ LoopsTo(ws, i - 1) = Len(loops) /\ Opened(ws, i - 1) = Opened(vs, Len(vs))
      BY <1>1, <1>2, <1>3, <1>4, <3>1
    <3>3. \A m \in Range(HeldByLoops(loops)) : h[m] = Opened(vs, Len(vs))
      BY DEF Nested
    <3>4. \A j \in DOMAIN ws : ~ (i < j)
      BY <1>2, <2>1
    <3> QED BY <1>2, <2>1, <3>2, <3>3, <3>4
  <2>2. CASE i \in DOMAIN vs /\ i \in 0..n /\ i - 1 \in 0..n
    <3>1. ws[i] = vs[i] /\ FuncsTo(ws, i) = FuncsTo(vs, i) /\ LoopsTo(ws, i - 1) = LoopsTo(vs, i - 1)
          /\ Opened(ws, i - 1) = Opened(vs, i - 1)
      BY <1>2, <2>2
    <3>2. FuncsTo(vs, i) \in 1..Len(saved)
      <4>1. n \in 0..Len(vs) /\ i \in 1..n /\ vs[i].class = "func"
        BY <1>1, <1>2, <1>7, <2>2, <3>1
      <4> QED BY <1>4, <4>1, FuncsGrow
    <3>3. ss[FuncsTo(ws, i)] = saved[FuncsTo(vs, i)]
      BY <1>3, <3>1, <3>2
    <3>4. \A j \in DOMAIN ws : i < j /\ ws[j].class = "func" => ws[i].start < ws[j].start
      <4>1. ASSUME NEW j \in DOMAIN ws, i < j, ws[j].class = "func"
            PROVE  ws[i].start < ws[j].start
        <5>1. CASE j = n + 1
          BY <1>2, <1>6, <1>7, <2>2, <3>1, <5>1
        <5>2. CASE j \in DOMAIN vs
          BY <1>2, <1>7, <2>2, <3>1, <4>1, <5>2 DEF Nested
        <5> QED BY <1>5, <5>1, <5>2
      <4> QED BY <4>1
    <3> QED BY <1>7, <2>2, <3>1, <3>3, <3>4 DEF Nested
  <2> QED BY <1>5, <2>1, <2>2
<1>8. \A m \in Range(HeldByLoops(<<>>)) : h[m] = Opened(ws, Len(ws))
  BY HeldByNoLoops, Emptied
<1>9. ASSUME NEW i \in DOMAIN ws, NEW m \in Range(ws[i].held) \cup ws[i].labels
      PROVE  m <= len /\ h[m] = Opened(ws, i)
  <2>1. CASE i = n + 1
    BY <1>2, <1>9, <2>1, Emptied
  <2>2. CASE i \in DOMAIN vs /\ i \in 0..n
    BY <1>2, <1>9, <2>2 DEF Nested
  <2> QED BY <1>5, <2>1, <2>2
<1>10. FuncsTo(ws, Len(ws)) = Len(ss) /\ LoopsTo(ws, Len(ws)) = Len(<<>>)
  BY <1>2, <1>3, <1>4
<1> QED BY <1>1, <1>7, <1>8, <1>9, <1>10 DEF Nested

LEMMA NestedPopFunc ==
  ASSUME NEW vs \in Seq(ViewSet), NEW v \in ViewSet, v.class = "func",
         NEW loops \in Seq(LoopSet), NEW saved \in Seq(Seq(LoopSet)), NEW h, NEW len,
         Nested(Append(vs, v), loops, saved, h, len)
  PROVE  /\ loops = <<>> /\ v.start < len /\ \A s \in Opened(vs, Len(vs)) : s < v.start
         /\ \E ss \in Seq(Seq(LoopSet)), ls \in Seq(LoopSet) :
              /\ saved = Append(ss, ls) /\ ss = Front(saved) /\ ls = Last(saved)
              /\ Nested(vs, ls, ss, h, len)
<1>1. PICK ws, n : ws = Append(vs, v) /\ n = Len(vs)
  OBVIOUS
<1>2. /\ n \in Nat /\ Len(ws) = n + 1 /\ ws[n + 1] = v
      /\ DOMAIN ws = 1..n + 1 /\ DOMAIN vs = 1..n
      /\ \A i \in 1..n : ws[i] = vs[i]
      /\ \A i \in 0..n : /\ Opened(ws, i) = Opened(vs, i)
                         /\ FuncsTo(ws, i) = FuncsTo(vs, i)
                         /\ LoopsTo(ws, i) = LoopsTo(vs, i)
                         /\ FuncsTo(vs, i) \in Nat
      /\ FuncsTo(ws, n + 1) = FuncsTo(vs, n) + 1 /\ LoopsTo(ws, n + 1) = 0
  <2>1. Pushed(vs, v, ws, n)
    BY <1>1, OneItemMore
  <2> QED BY <2>1 DEF Pushed
<1>3. Nested(ws, loops, saved, h, len)
  BY <1>1
<1>4. Len(loops) = 0 /\ Len(saved) = FuncsTo(vs, n) + 1 /\ n + 1 \in DOMAIN ws /\ n \in 0..n /\ FuncsTo(vs, n) \in Nat
  BY <1>2, <1>3 DEF Nested
<1>5. loops = <<>>
  BY <1>4
<1>6. PICK ss, ls : ss = Front(saved) /\ ls = Last(saved)
  OBVIOUS
<1>7. /\ ss \in Seq(Seq(LoopSet)) /\ ls \in Seq(LoopSet) /\ saved = Append(ss, ls) /\ Len(ss) = FuncsTo(vs, n)
      /\ saved[Len(saved)] = ls /\ \A i \in 1..FuncsTo(vs, n) : saved[i] = ss[i]
  <2>1. PICK S : S = Seq(LoopSet)
    OBVIOUS
  <2>2. saved \in Seq(S)
    BY <2>1
  <2> QED BY <1>4, <1>6, <2>1, <2>2 DEF Front, Last
<1>8. /\ Len(ls) = LoopsTo(vs, n) /\ v.start < len
      /\ \A m \in Range(HeldByLoops(ls)) : h[m] = Opened(vs, n)
  <2>1. FuncsTo(ws, n + 1) = Len(saved) /\ (n + 1) - 1 = n
    BY <1>2, <1>4
  <2>2. /\ Len(saved[FuncsTo(ws, n + 1)]) = LoopsTo(ws, (n + 1) - 1)
        /\ \A m \in Range(HeldByLoops(saved[FuncsTo(ws, n + 1)])) : h[m] = Opened(ws, (n + 1) - 1)
        /\ ws[n + 1].start < len
    BY <1>2, <1>3, <1>4 DEF Nested
  <2> QED BY <1>2, <1>4, <1>7, <2>1, <2>2
<1>9. \A i \in DOMAIN vs : i \in DOMAIN ws /\ i \in 0..n /\ i - 1 \in 0..n /\ ws[i] = vs[i] /\ i < n + 1
  BY <1>2
<1>10. \A s \in Opened(vs, Len(vs)) : s < v.start
  <2>1. \A i \in DOMAIN vs : vs[i].class = "func" => vs[i].start < v.start
    <3>1. ASSUME NEW i \in DOMAIN vs, vs[i].class = "func"
          PROVE  vs[i].start < v.start
      <4>1. i \in DOMAIN ws /\ n + 1 \in DOMAIN ws /\ i < n + 1 /\ ws[i] = vs[i] /\ ws[n + 1] = v
        BY <1>2, <1>4, <1>9
      <4>2. \A j \in DOMAIN ws : i < j /\ ws[j].class = "func" => ws[i].start < ws[j].start
        BY <1>3, <3>1, <4>1 DEF Nested
      <4> QED BY <4>1, <4>2
    <3> QED BY <3>1
  <2> QED BY <1>1, <1>2, <2>1 DEF Opened
<1>11. ASSUME NEW i \in DOMAIN vs, vs[i].class = "func"
       PROVE  /\ Len(ss[FuncsTo(vs, i)]) = LoopsTo(vs, i - 1)
              /\ \A m \in Range(HeldByLoops(ss[FuncsTo(vs, i)])) : h[m] = Opened(vs, i - 1)
              /\ vs[i].start < len
              /\ \A j \in DOMAIN vs : i < j /\ vs[j].class = "func" => vs[i].start < vs[j].start
  <2>1. FuncsTo(vs, i) \in 1..FuncsTo(vs, n)
    <3>1. n \in 0..Len(vs) /\ i \in 1..n
      BY <1>1, <1>2
    <3> QED BY <1>11, <3>1, FuncsGrow
  <2>2. ss[FuncsTo(vs, i)] = saved[FuncsTo(ws, i)]
    BY <1>2, <1>7, <1>9, <2>1
  <2>3. /\ Len(saved[FuncsTo(ws, i)]) = LoopsTo(ws, i - 1)
        /\ \A m \in Range(HeldByLoops(saved[FuncsTo(ws, i)])) : h[m] = Opened(ws, i - 1)
        /\ ws[i].start < len
        /\ \A j \in DOMAIN ws : i < j /\ ws[j].class = "func" => ws[i].start < ws[j].start
    BY <1>3, <1>9, <1>11 DEF Nested
  <2> QED BY <1>2, <1>9, <2>2, <2>3
<1>12. ASSUME NEW i \in DOMAIN vs, NEW m \in Range(vs[i].held) \cup vs[i].labels
       PROVE  m <= len /\ h[m] = Opened(vs, i)
  BY <1>2, <1>3, <1>9, <1>12 DEF Nested
<1>13. Nested(vs, ls, ss, h, len)
  BY <1>1, <1>7, <1>8, <1>11, <1>12 DEF Nested
<1> QED BY <1>5, <1>6, <1>7, <1>8, <1>10, <1>13

LEMMA CodeHomes ==
  ASSUME NEW code, NEW A, NEW h, Code(code, A, h), NEW g, \A n \in 0..Len(code) : g[n] = h[n]
  PROVE  Code(code, A, g)
<1>1. \A n \in JumpsOf(code) : n \in 0..Len(code) /\ code[n + 1].label \in Nat
  <2>1. code \in Seq(QuadSet)
    BY DEF Code
  <2>2. \A n \in JumpsOf(code) : n \in 0..Len(code) /\ n + 1 \in 1..Len(code)
    BY <2>1 DEF JumpsOf
  <2>3. \A n \in JumpsOf(code) : code[n + 1] \in QuadSet
    BY <2>1, <2>2
  <2> QED BY <2>2, <2>3 DEF QuadSet
<1>2. Len(code) \in Nat
  BY DEF Code
<1>3. \A n \in JumpsOf(code) : code[n + 1].label <= Len(code) => code[n + 1].label \in 0..Len(code)
  BY <1>1, <1>2
<1> QED BY <1>1, <1>3 DEF Code

\* What is held is held of quads there are.
LEMMA HeldBehind ==
  ASSUME NEW vs, NEW loops, NEW saved, NEW done, NEW R, NEW h, NEW here, NEW code,
         Context(vs, loops, saved, done, R, h, here, Len(code)), NEW H, Working(code, H, R, h, here)
  PROVE  Behind(loops, saved, Len(code))
<1>1. Len(code) \in Nat /\ R \subseteq 0..Len(code)
  <2>1. R \subseteq JumpsOf(code) /\ code \in Seq(QuadSet)
    BY DEF Working, Code
  <2>2. 0..Len(code) - 1 \subseteq 0..Len(code)
    BY <2>1
  <2> QED BY <2>1, <2>2 DEF JumpsOf
<1>2. Types(vs, loops, saved)
  BY DEF Context
<1>3. Shared(HeldOf(vs, loops, saved), vs, loops, saved)
  BY <1>2, HeldSplits
<1>4. IsInjective(HeldOf(vs, loops, saved)) /\ R = Range(HeldOf(vs, loops, saved))
  BY DEF Context
<1>5. Range(HeldByLoops(loops)) \subseteq R /\ Range(HeldBySaved(saved)) \subseteq R /\ IsInjective(HeldBySaved(saved))
  BY <1>3, <1>4 DEF Shared
<1>6. PICK a : a = [i \in DOMAIN saved |-> HeldByLoops(saved[i])]
  OBVIOUS
<1>7. a \in Seq(Seq(Nat))
  <2>1. PICK S, L : S = Seq(Nat) /\ L = Seq(LoopSet)
    OBVIOUS
  <2>2. saved \in Seq(L)
    BY <1>2, <2>1 DEF Types
  <2>3. PICK m \in Nat : DOMAIN saved = 1..m
    BY <2>2
  <2>4. \A ls \in L : HeldByLoops(ls) \in S
    <3>1. ASSUME NEW ls \in L
          PROVE  HeldByLoops(ls) \in S
      <4>1. Types(vs, ls, saved)
        BY <1>2, <2>1 DEF Types
      <4> QED BY <2>1, <4>1, HeldTyped
    <3> QED BY <3>1
  <2>5. \A i \in 1..m : saved[i] \in L
    BY <2>2, <2>3
  <2>6. a \in [1..m -> S]
    BY <1>6, <2>3, <2>4, <2>5
  <2>7. a \in Seq(S)
    BY <2>6, SeqDef
  <2> QED BY <2>1, <2>7
<1>8. FlattenSeq(a) = HeldBySaved(saved)
  BY <1>6 DEF HeldBySaved
<1>9. Range(HeldBySaved(saved)) = UNION {Range(a[i]) : i \in DOMAIN a}
  BY <1>5, <1>7, <1>8, FlattenParts
<1>10. \A i \in DOMAIN saved : Range(HeldByLoops(saved[i])) \subseteq R
  BY <1>5, <1>6, <1>9
<1> QED BY <1>1, <1>5, <1>10 DEF Behind

\* A function begins: it is open from here on, and the loops around it wait.
LEMMA OpenFunction ==
  ASSUME NEW vs, NEW v \in ViewSet, v.class = "func", v.held = <<>>, v.labels = {},
         NEW loops, NEW saved, NEW done, NEW R, NEW h, NEW here, NEW code,
         Context(vs, loops, saved, done, R, h, here, Len(code)), Working(code, {}, R, h, here),
         v.start = Len(code), NEW q \in QuadSet, q.op \notin JumpOps
  PROVE  Sound(Append(code, q), Append(vs, v), <<>>, Append(saved, loops), done)
<1>1. PICK ws, ss, n, len, c : /\ ws = Append(vs, v) /\ ss = Append(saved, loops) /\ n = Len(vs)
                               /\ len = Len(code) /\ c = Append(code, q)
  OBVIOUS
<1>2. Types(vs, loops, saved) /\ vs \in Seq(ViewSet) /\ loops \in Seq(LoopSet) /\ saved \in Seq(Seq(LoopSet)) /\ len \in Nat
  BY <1>1 DEF Context, Types
<1>3. PICK there : there = here \cup {len}
  OBVIOUS
<1>4. PICK g : g = HomesOf(done, there)
  OBVIOUS
<1>5. \A s \in here : s \in Nat /\ s < len
  <2>1. Nested(vs, loops, saved, h, len) /\ here = Opened(vs, Len(vs))
    BY <1>1 DEF Context
  <2> QED BY <1>2, <2>1, OpenedBefore
<1>6. \A m \in 0..len : g[m] = h[m]
  <2>1. ASSUME NEW m \in 0..len
        PROVE  g[m] = h[m]
    <3>1. {s \in there : s < m} = {s \in here : s < m}
      <4>1. ~ (len < m)
        BY <1>2
      <4> QED BY <1>3, <4>1
    <3>2. m \in Nat
      BY <1>2
    <3>3. h = HomesOf(done, here)
      BY DEF Context
    <3> QED BY <1>4, <3>1, <3>2, <3>3 DEF HomesOf
  <2> QED BY <2>1
<1>7. Nested(ws, <<>>, ss, g, len + 1)
  <2>1. Nested(vs, loops, saved, h, len) /\ here = Opened(vs, Len(vs))
    BY <1>1 DEF Context
  <2>2. Behind(loops, saved, len)
    BY <1>1, HeldBehind
  <2>3. Len(saved) \in Nat /\ DOMAIN saved = 1..Len(saved)
    <3>1. PICK L : L = Seq(LoopSet)
      OBVIOUS
    <3>2. saved \in Seq(L)
      BY <1>2, <3>1
    <3> QED BY <3>2
  <2>4. Nested(vs, loops, saved, g, len)
    BY <1>2, <1>6, <2>1, <2>2, <2>3, NestedHomes
  <2>5. len + 1 \in Nat /\ len <= len + 1 /\ v.start < len + 1
    BY <1>1, <1>2
  <2>6. Nested(vs, loops, saved, g, len + 1)
    BY <1>2, <2>4, <2>5, NestedLonger
  <2>7. \A s \in Opened(vs, Len(vs)) : s < v.start
    BY <1>1, <1>5, <2>1
  <2> QED BY <1>1, <1>2, <2>5, <2>6, <2>7, NestedPushFunc
<1>8. there = Opened(ws, Len(ws))
  <2>1. Pushed(vs, v, ws, n)
    BY <1>1, <1>2, OneItemMore
  <2>2. Opened(ws, n + 1) = Opened(vs, n) \cup {v.start} /\ Len(ws) = n + 1
    BY <2>1 DEF Pushed
  <2> QED BY <1>1, <1>3, <2>2 DEF Context
<1>9. Types(ws, <<>>, ss)
  <2>1. ws \in Seq(ViewSet) /\ <<>> \in Seq(LoopSet)
    BY <1>1, <1>2
  <2>2. ss \in Seq(Seq(LoopSet))
    <3>1. PICK L : L = Seq(LoopSet)
      OBVIOUS
    <3>2. ss \in Seq(L)
      BY <1>1, <1>2, <3>1
    <3> QED BY <3>1, <3>2
  <2> QED BY <2>1, <2>2 DEF Types
<1>10. IsInjective(HeldOf(ws, <<>>, ss)) /\ R = Range(HeldOf(ws, <<>>, ss))
  <2>1. Shared(HeldOf(vs, loops, saved), vs, loops, saved) /\ Shared(HeldOf(ws, <<>>, ss), ws, <<>>, ss)
    BY <1>2, <1>9, HeldSplits
  <2>2. HeldIn(ws) = HeldIn(vs) \o v.held /\ HeldIn(vs) \in Seq(Nat)
    BY <1>1, <1>2, HeldInOneMore
  <2>3. HeldIn(ws) = HeldIn(vs)
    BY <2>2
  <2>4. HeldBySaved(saved) \in Seq(Nat) /\ HeldBySaved(ss) = HeldBySaved(saved) \o HeldByLoops(loops)
    BY <1>1, <1>2, HeldBySavedOneMore
  <2>5. HeldByLoops(loops) \in Seq(Nat)
    BY <1>2, HeldTyped
  <2>6. /\ Range(HeldBySaved(ss)) = Range(HeldBySaved(saved)) \cup Range(HeldByLoops(loops))
        /\ IsInjective(HeldBySaved(ss)) <=>
             IsInjective(HeldBySaved(saved)) /\ IsInjective(HeldByLoops(loops))
               /\ Range(HeldBySaved(saved)) \cap Range(HeldByLoops(loops)) = {}
    BY <2>4, <2>5, Joined
  <2>7. Range(HeldByLoops(<<>>)) = {} /\ IsInjective(HeldByLoops(<<>>))
    BY HeldByNoLoops, Emptied
  <2>8. IsInjective(HeldOf(vs, loops, saved)) /\ R = Range(HeldOf(vs, loops, saved))
    BY DEF Context
  <2> QED BY <2>1, <2>3, <2>6, <2>7, <2>8 DEF Shared
<1>11. Apart(done, there, len + 1)
  <2>1. Apart(done, here, len)
    BY <1>1 DEF Context
  <2>2. \A i \in DOMAIN done : done[i].end < len + 1 /\ done[i].start # len
    BY <1>2, <2>1 DEF Apart
  <2> QED BY <1>3, <2>1, <2>2 DEF Apart
<1>12. Code(c, R, g) /\ Len(c) = len + 1
  <2>1. Code(code, R, h)
    <3>1. {} \cup R = R
      OBVIOUS
    <3> QED BY <3>1 DEF Working
  <2>2. Code(code, R, g)
    BY <1>1, <1>6, <2>1, CodeHomes
  <2> QED BY <1>1, <2>2, CodeMore
<1>13. \A m \in Nat : len + 1 <= m => g[m] = there
  <2>1. \A s \in there : s \in Nat /\ s < len + 1
    BY <1>2, <1>3, <1>5
  <2>2. len + 1 \in Nat
    BY <1>2
  <2> QED BY <1>4, <1>11, <2>1, <2>2, HomesAhead
<1>14. Context(ws, <<>>, ss, done, R, g, there, Len(c))
  <2>1. len + 1 \in Nat
    BY <1>2
  <2> QED BY <1>4, <1>7, <1>8, <1>9, <1>10, <1>11, <1>12, <2>1 DEF Context
<1>15. Working(c, {}, R, g, there)
  <2>1. {} \cup R = R
    OBVIOUS
  <2> QED BY <1>12, <1>13, <2>1 DEF Working
<1> QED BY <1>1, <1>14, <1>15 DEF Sound

\* A function ends: it is one of those that are finished, and the loops around it are back.
LEMMA CloseFunction ==
  ASSUME NEW vs \in Seq(ViewSet), NEW v \in ViewSet, v.class = "func", v.held = <<>>,
         NEW loops, NEW saved, NEW done, NEW R, NEW h, NEW there, NEW code,
         Context(Append(vs, v), loops, saved, done, R, h, there, Len(code)), Working(code, {}, R, h, there),
         NEW q \in QuadSet, q.op \notin JumpOps, NEW d, d.start = v.start, d.end = Len(code)
  PROVE  Sound(Append(code, q), vs, Last(saved), Front(saved), Append(done, d))
<1>1. PICK ws, n, len, c, more : /\ ws = Append(vs, v) /\ n = Len(vs) /\ len = Len(code)
                                 /\ c = Append(code, q) /\ more = Append(done, d)
  OBVIOUS
<1>2. Types(ws, loops, saved) /\ loops \in Seq(LoopSet) /\ saved \in Seq(Seq(LoopSet)) /\ len \in Nat
  BY <1>1 DEF Context, Types
<1>3. Nested(Append(vs, v), loops, saved, h, len)
  BY <1>1 DEF Context
<1>4. /\ loops = <<>> /\ v.start < len /\ \A s \in Opened(vs, Len(vs)) : s < v.start
      /\ \E ss1 \in Seq(Seq(LoopSet)), ls1 \in Seq(LoopSet) :
           /\ saved = Append(ss1, ls1) /\ ss1 = Front(saved) /\ ls1 = Last(saved)
           /\ Nested(vs, ls1, ss1, h, len)
  BY SMTT(30), <1>2, <1>3, NestedPopFunc
<1>5. PICK ss \in Seq(Seq(LoopSet)), ls \in Seq(LoopSet) :
           /\ saved = Append(ss, ls) /\ ss = Front(saved) /\ ls = Last(saved)
           /\ Nested(vs, ls, ss, h, len)
  BY <1>4
<1>6. PICK here : here = Opened(vs, Len(vs))
  OBVIOUS
<1>7. there = here \cup {v.start} /\ v.start \notin here /\ v.start \in Nat
  <2>1. Pushed(vs, v, ws, n)
    BY <1>1, OneItemMore
  <2>2. Opened(ws, n + 1) = Opened(vs, n) \cup {v.start} /\ Len(ws) = n + 1
    BY <2>1 DEF Pushed
  <2>3. v.start \in Nat
    BY DEF ViewSet
  <2>4. \A s \in here : s < v.start
    BY <1>4, <1>6
  <2>5. v.start \notin here
    BY <2>3, <2>4
  <2> QED BY <1>1, <1>6, <2>2, <2>3, <2>5 DEF Context
<1>8. PICK g : g = HomesOf(more, here)
  OBVIOUS
<1>9. Apart(done, there, len)
  BY <1>1 DEF Context
<1>10. /\ IsSeq(more) /\ Len(done) \in Nat /\ DOMAIN more = 1..Len(done) + 1 /\ DOMAIN done = 1..Len(done)
       /\ \A i \in 1..Len(done) : more[i] = done[i]
       /\ more[Len(done) + 1] = d
  <2>1. IsSeq(done)
    BY <1>9 DEF Apart
  <2>2. OneMore(done, d, more)
    BY <1>1, <2>1, AppendTo
  <2> QED BY <2>2 DEF OneMore
<1>11. \A i \in DOMAIN more : i \in DOMAIN done \/ i = Len(done) + 1
  BY <1>10
<1>12. \A i \in DOMAIN done : i \in DOMAIN more /\ more[i] = done[i] /\ i # Len(done) + 1
  BY <1>10
<1>13. Len(done) + 1 \in DOMAIN more
  BY <1>10
<1>14. Apart(more, here, len + 1)
  <2>1. ASSUME NEW i \in DOMAIN more
        PROVE  /\ more[i].start \in Nat /\ more[i].end \in Nat
               /\ more[i].end < len + 1 /\ more[i].start < more[i].end
               /\ more[i].start \notin here
    <3>1. CASE i \in DOMAIN done
      <4>1. /\ done[i].start \in Nat /\ done[i].end \in Nat
            /\ done[i].end < len /\ done[i].start < done[i].end
            /\ done[i].start \notin there
        BY <1>9, <3>1 DEF Apart
      <4> QED BY <1>2, <1>7, <1>12, <3>1, <4>1
    <3>2. CASE i = Len(done) + 1
      BY SMTT(30), <1>1, <1>2, <1>4, <1>7, <1>10, <3>2
    <3> QED BY <1>11, <3>1, <3>2
  <2>2. ASSUME NEW i \in DOMAIN more, NEW j \in DOMAIN more, more[i].start = more[j].start
        PROVE  i = j
    <3>1. \A k \in DOMAIN done : done[k].start # v.start
      BY <1>7, <1>9 DEF Apart
    <3>2. CASE i \in DOMAIN done /\ j \in DOMAIN done
      BY <1>9, <1>12, <2>2, <3>2 DEF Apart
    <3>3. CASE i = Len(done) + 1
      BY <1>10, <1>11, <1>12, <2>2, <3>1, <3>3
    <3>4. CASE j = Len(done) + 1
      BY <1>10, <1>11, <1>12, <2>2, <3>1, <3>4
    <3> QED BY <1>11, <3>2, <3>3, <3>4
  <2> QED BY <1>10, <2>1, <2>2 DEF Apart
<1>15. ASSUME NEW m \in 0..len
       PROVE  g[m] = h[m]
  <2>1. m \in Nat /\ m <= len
    BY <1>2
  <2>2. PICK A, B : /\ A = {j \in DOMAIN done : done[j].start < m /\ m <= done[j].end}
                    /\ B = {j \in DOMAIN more : more[j].start < m /\ m <= more[j].end}
    OBVIOUS
  <2>3. g[m] = {more[i].start : i \in B} \cup {s \in here : s < m}
    BY <1>8, <2>1, <2>2 DEF HomesOf
  <2>4. h[m] = {done[i].start : i \in A} \cup {s \in there : s < m}
    <3>1. h = HomesOf(done, there)
      BY DEF Context
    <3> QED BY <2>1, <2>2, <3>1 DEF HomesOf
  <2>5. \A i \in DOMAIN done : i \in A <=> i \in B
    BY <1>12, <2>2
  <2>6. Len(done) + 1 \in B <=> v.start < m
    BY <1>1, <1>10, <1>13, <2>1, <2>2
  <2>7. \A i \in A : i \in B /\ more[i].start = done[i].start
    BY <1>12, <2>2, <2>5
  <2>8. \A i \in B : (i \in A /\ more[i].start = done[i].start) \/ (i = Len(done) + 1 /\ more[i].start = v.start /\ v.start < m)
    BY <1>10, <1>11, <1>12, <2>2, <2>5, <2>6
  <2>9. {s \in there : s < m} = IF v.start < m THEN {s \in here : s < m} \cup {v.start} ELSE {s \in here : s < m}
    BY <1>7
  <2>10. {more[i].start : i \in B} = IF v.start < m THEN {done[i].start : i \in A} \cup {v.start} ELSE {done[i].start : i \in A}
    <3>1. CASE v.start < m
      <4>1. Len(done) + 1 \in B /\ more[Len(done) + 1].start = v.start
        BY <1>10, <2>6, <3>1
      <4> QED BY <2>7, <2>8, <3>1, <4>1
    <3>2. CASE ~ (v.start < m)
      BY <2>7, <2>8, <3>2
    <3> QED BY <3>1, <3>2
  <2> QED BY <2>3, <2>4, <2>9, <2>10
<1>16. Behind(ls, ss, len)
  <2>1. Behind(loops, saved, len)
    BY <1>1, HeldBehind
  <2>2. /\ Len(ss) + 1 \in DOMAIN saved /\ saved[Len(ss) + 1] = ls
        /\ \A i \in DOMAIN ss : i \in DOMAIN saved /\ saved[i] = ss[i]
    <3>1. PICK L : L = Seq(LoopSet)
      OBVIOUS
    <3>2. ss \in Seq(L) /\ ls \in L
      BY <3>1
    <3> QED BY <1>5, <3>2
  <2> QED BY <2>1, <2>2 DEF Behind
<1>17. Nested(vs, ls, ss, g, len + 1)
  <2>1. Len(ss) \in Nat /\ DOMAIN ss = 1..Len(ss)
    <3>1. PICK L : L = Seq(LoopSet)
      OBVIOUS
    <3>2. ss \in Seq(L)
      BY <3>1
    <3> QED BY <3>2
  <2>2. Nested(vs, ls, ss, g, len)
    BY <1>2, <1>5, <1>15, <1>16, <2>1, NestedHomes
  <2>3. len + 1 \in Nat /\ len <= len + 1
    BY <1>2
  <2> QED BY <1>2, <2>2, <2>3, NestedLonger
<1>18. Types(vs, ls, ss)
  BY <1>5 DEF Types
<1>19. IsInjective(HeldOf(vs, ls, ss)) /\ R = Range(HeldOf(vs, ls, ss))
  <2>1. Shared(HeldOf(ws, loops, saved), ws, loops, saved) /\ Shared(HeldOf(vs, ls, ss), vs, ls, ss)
    BY <1>2, <1>18, HeldSplits
  <2>2. HeldIn(ws) = HeldIn(vs) \o v.held /\ HeldIn(vs) \in Seq(Nat)
    BY <1>1, HeldInOneMore
  <2>3. HeldIn(ws) = HeldIn(vs)
    BY <2>2
  <2>4. HeldBySaved(ss) \in Seq(Nat) /\ HeldBySaved(saved) = HeldBySaved(ss) \o HeldByLoops(ls)
    BY <1>5, HeldBySavedOneMore
  <2>5. HeldByLoops(ls) \in Seq(Nat)
    BY <1>18, HeldTyped
  <2>6. /\ Range(HeldBySaved(saved)) = Range(HeldBySaved(ss)) \cup Range(HeldByLoops(ls))
        /\ IsInjective(HeldBySaved(saved)) <=>
             IsInjective(HeldBySaved(ss)) /\ IsInjective(HeldByLoops(ls))
               /\ Range(HeldBySaved(ss)) \cap Range(HeldByLoops(ls)) = {}
    BY <2>4, <2>5, Joined
  <2>7. Range(HeldByLoops(loops)) = {} /\ IsInjective(HeldByLoops(loops))
    BY <1>4, HeldByNoLoops, Emptied
  <2>8. IsInjective(HeldOf(ws, loops, saved)) /\ R = Range(HeldOf(ws, loops, saved))
    BY <1>1 DEF Context
  <2> QED BY <2>1, <2>3, <2>6, <2>7, <2>8 DEF Shared
<1>20. Code(c, R, g) /\ Len(c) = len + 1
  <2>1. Code(code, R, h)
    <3>1. {} \cup R = R
      OBVIOUS
    <3> QED BY <3>1 DEF Working
  <2>2. Code(code, R, g)
    BY <1>1, <1>15, <2>1, CodeHomes
  <2> QED BY <1>1, <2>2, CodeMore
<1>21. \A m \in Nat : len + 1 <= m => g[m] = here
  <2>1. len + 1 \in Nat
    BY <1>2
  <2>2. \A s \in here : s \in Nat /\ s < len + 1
    BY <1>6, <1>17, OpenedBefore
  <2> QED BY <1>8, <1>14, <2>1, <2>2, HomesAhead
<1>22. Context(vs, ls, ss, more, R, g, here, Len(c))
  <2>1. len + 1 \in Nat
    BY <1>2
  <2> QED BY <1>6, <1>8, <1>14, <1>17, <1>18, <1>19, <1>20, <2>1 DEF Context
<1>23. Working(c, {}, R, g, here)
  <2>1. {} \cup R = R
    OBVIOUS
  <2> QED BY <1>20, <1>21, <2>1 DEF Working
<1> QED BY <1>1, <1>5, <1>22, <1>23 DEF Sound

-----------------------------------------------------------------------------
(* The items of the semantic stack. *)

StackPart(s) ==
  /\ IsSeq(s) /\ s # <<>> /\ s[1].kind = "program"
  /\ \A i \in DOMAIN s : ItemOK(s[i]) /\ View(s[i]) \in ViewSet /\ (i # 1 => s[i].kind # "program")

LEMMA ViewsTyped ==
  ASSUME NEW s, IsSeq(s), \A i \in DOMAIN s : View(s[i]) \in ViewSet
  PROVE  /\ Views(s) \in Seq(ViewSet) /\ Len(Views(s)) = Len(s) /\ Len(s) \in Nat /\ DOMAIN s = 1..Len(s)
         /\ \A i \in 1..Len(s) : Views(s)[i] = View(s[i])
<1>1. PICK n : n = Len(s) /\ n \in Nat /\ DOMAIN s = 1..n
  BY DEF IsSeq
<1>2. PICK a : a = Views(s)
  OBVIOUS
<1>3. a = [i \in 1..n |-> View(s[i])]
  BY <1>1, <1>2 DEF Views
<1>4. a \in [1..n -> ViewSet]
  BY <1>1, <1>3
<1>5. a \in Seq(ViewSet) /\ Len(a) = n
  BY <1>1, <1>4, SeqDef
<1> QED BY <1>1, <1>2, <1>3, <1>5

\* An item on top of the others.
Topped(b, x, s) ==
  /\ StackPart(s) /\ StackPart(b) /\ ItemOK(x) /\ View(x) \in ViewSet
  /\ Views(b) \in Seq(ViewSet) /\ Views(s) = Append(Views(b), View(x))

LEMMA PutTop ==
  ASSUME NEW b, StackPart(b), NEW x, ItemOK(x), View(x) \in ViewSet, x.kind # "program",
         NEW s, s = Append(b, x)
  PROVE  Topped(b, x, s)
<1>1. /\ IsSeq(s) /\ Len(s) = Len(b) + 1 /\ Len(b) \in Nat
      /\ DOMAIN s = 1..Len(b) + 1 /\ DOMAIN b = 1..Len(b)
      /\ \A i \in 1..Len(b) : s[i] = b[i]
      /\ s[Len(b) + 1] = x
  <2>1. IsSeq(b)
    BY DEF StackPart
  <2>2. OneMore(b, x, s)
    BY <2>1, AppendTo
  <2> QED BY <2>2 DEF OneMore
<1>2. Len(b) # 0
  <2>1. IsSeq(b) /\ b # <<>>
    BY DEF StackPart
  <2> QED BY <2>1 DEF IsSeq
<1>3. \A i \in DOMAIN s : i \in 1..Len(b) \/ i = Len(b) + 1
  BY <1>1
<1>4. 1 \in 1..Len(b)
  BY <1>1, <1>2
<1>5. ASSUME NEW i \in DOMAIN s
      PROVE  ItemOK(s[i]) /\ View(s[i]) \in ViewSet /\ (i # 1 => s[i].kind # "program")
  <2>1. CASE i \in 1..Len(b)
    BY <1>1, <2>1 DEF StackPart
  <2>2. CASE i = Len(b) + 1
    BY <1>1, <2>2
  <2> QED BY <1>3, <2>1, <2>2
<1>6. StackPart(s)
  <2>1. s # <<>>
    BY <1>1
  <2>2. s[1].kind = "program"
    BY <1>1, <1>4 DEF StackPart
  <2> QED BY <1>1, <1>5, <2>1, <2>2 DEF StackPart
<1>7. /\ Views(b) \in Seq(ViewSet) /\ Len(Views(b)) = Len(b)
      /\ \A i \in 1..Len(b) : Views(b)[i] = View(b[i])
  <2>1. IsSeq(b) /\ \A i \in DOMAIN b : View(b[i]) \in ViewSet
    BY DEF StackPart
  <2> QED BY <2>1, ViewsTyped
<1>8. /\ Views(s) \in Seq(ViewSet) /\ Len(Views(s)) = Len(s)
      /\ \A i \in 1..Len(s) : Views(s)[i] = View(s[i])
  <2>1. IsSeq(s) /\ \A i \in DOMAIN s : View(s[i]) \in ViewSet
    BY <1>1, <1>5
  <2> QED BY <2>1, ViewsTyped
<1>9. PICK a, vs, v : vs = Views(b) /\ v = View(x) /\ a = Append(vs, v)
  OBVIOUS
<1>10. a \in Seq(ViewSet) /\ Len(a) = Len(b) + 1 /\ a[Len(b) + 1] = v /\ \A i \in 1..Len(b) : a[i] = vs[i]
  BY <1>7, <1>9
<1>11. PICK w : w = Views(s)
  OBVIOUS
<1>12. \A i \in 1..Len(b) + 1 : w[i] = a[i]
  <2>1. \A i \in 1..Len(b) : w[i] = a[i]
    BY <1>1, <1>7, <1>8, <1>9, <1>10, <1>11
  <2>2. w[Len(b) + 1] = a[Len(b) + 1]
    BY <1>1, <1>8, <1>9, <1>10, <1>11
  <2> QED BY <1>1, <1>3, <2>1, <2>2
<1>13. w = a
  BY <1>1, <1>8, <1>10, <1>11, <1>12
<1> QED BY <1>6, <1>7, <1>9, <1>11, <1>13 DEF Topped

Lowered(s, n, b) == n \in Nat /\ n >= 2 /\ Len(b) = n - 1 /\ \A i \in 1..n - 1 : b[i] = s[i]

LEMMA TakeTop ==
  ASSUME NEW s, StackPart(s), NEW n, n = Len(s), s[n].kind # "program",
         NEW b, b = SubSeq(s, 1, n - 1)
  PROVE  Topped(b, s[n], s) /\ Lowered(s, n, b)
<1>1. IsSeq(s) /\ s # <<>> /\ s[1].kind = "program"
  BY DEF StackPart
<1>2. n \in Nat /\ DOMAIN s = 1..n /\ n # 0 /\ n # 1
  BY <1>1 DEF IsSeq
<1>3. n - 1 \in 0..n /\ n - 1 # 0 /\ n >= 2 /\ n \in 1..n
  BY <1>2
<1>4. /\ IsSeq(b) /\ Len(b) = n - 1 /\ DOMAIN b = 1..n - 1
      /\ \A i \in 1..n - 1 : b[i] = s[i] /\ i \in DOMAIN s
  <2>1. Prefix(s, n - 1, b)
    BY <1>1, <1>3, Shortened
  <2> QED BY <2>1 DEF Prefix
<1>5. StackPart(b)
  <2>1. b # <<>>
    BY <1>3, <1>4
  <2>2. 1 \in 1..n - 1
    BY <1>2, <1>3
  <2>3. \A i \in DOMAIN b : ItemOK(b[i]) /\ View(b[i]) \in ViewSet /\ (i # 1 => b[i].kind # "program")
    BY <1>4 DEF StackPart
  <2> QED BY <1>1, <1>4, <2>1, <2>2, <2>3 DEF StackPart
<1>6. PICK x : x = s[n]
  OBVIOUS
<1>7. ItemOK(x) /\ View(x) \in ViewSet /\ x.kind # "program"
  BY <1>2, <1>3, <1>6 DEF StackPart
<1>8. s = Append(b, x)
  <2>1. PICK t : t = Append(b, x)
    OBVIOUS
  <2>2. /\ IsSeq(t) /\ Len(t) = n /\ \A i \in 1..n - 1 : t[i] = b[i]
        /\ t[n] = x
    <3>1. OneMore(b, x, t)
      BY <1>4, <2>1, AppendTo
    <3>2. (n - 1) + 1 = n
      BY <1>2
    <3> QED BY <1>4, <3>1, <3>2 DEF OneMore
  <2>3. \A i \in 1..n : i \in 1..n - 1 \/ i = n
    BY <1>2
  <2>4. \A i \in 1..n : t[i] = s[i]
    BY <1>4, <1>6, <2>2, <2>3
  <2>5. s = t
    BY <1>1, <1>2, <2>2, <2>4, SameElements
  <2> QED BY <2>1, <2>5
<1>9. Topped(b, x, s)
  BY <1>5, <1>7, <1>8, PutTop
<1> QED BY <1>2, <1>3, <1>4, <1>6, <1>9 DEF Lowered

PlainView(held, labels) == [class |-> "plain", held |-> held, labels |-> labels, start |-> 0]
LoopView(held, labels)  == [class |-> "loop", held |-> held, labels |-> labels, start |-> 0]

LEMMA ViewsAre ==
  ASSUME NEW x
  PROVE  /\ x.kind = "expr" => View(x) = PlainView(ListsOf(x.e), {})
         /\ x.kind \in Comparisons => View(x) = PlainView(ListsOf(x.left), {})
         /\ x.kind \in {"and", "or"} => View(x) = PlainView(ListsOf(x.left), {x.label})
         /\ x.kind \in {"not", "assign", "exprstmt", "if", "return", "stmt", "block"} => View(x) = PlainView(<<>>, {})
         /\ x.kind = "call" => View(x) = PlainView(ArgsHeld(x.args), {})
         /\ x.kind = "then" => View(x) = PlainView(ListsOf(x.cond), {x.label})
         /\ x.kind = "else" => View(x) = PlainView(Append(ListsOf(x.cond), x.end), {x.label, x.end + 1})
         /\ x.kind = "while" => View(x) = LoopView(<<>>, {x.start})
         /\ x.kind = "whilebody" => View(x) = LoopView(ListsOf(x.cond), {x.start, x.label})
         /\ x.kind = "forinit" => View(x) = LoopView(ArgsHeld(x.args), {})
         /\ x.kind = "forcond" => View(x) = LoopView(<<>>, {x.test})
         /\ x.kind = "forstep" => View(x) = LoopView(ListsOf(x.cond) \o ArgsHeld(x.args), {x.test, x.step})
         /\ x.kind = "forbody" => View(x) = LoopView(Append(ListsOf(x.cond), x.back), {x.test, x.step, x.back + 1})
         /\ x.kind = "funcbody" => View(x) = [class |-> "func", held |-> <<>>, labels |-> {}, start |-> x.start]
BY JumpOpsAre, Zenon DEF View, HeldBy, LabelsOf, LoopRules, ListRules, PlainView, LoopView, ArgsHeld

-----------------------------------------------------------------------------
(* Items, the code and the loops together. *)

\* The stack b, with the jumps H in the hand of the action.
Ground(b, code, H, loops, saved, done, R, h, here) ==
  /\ StackPart(b) /\ Context(Views(b), loops, saved, done, R, h, here, Len(code))
  /\ Working(code, H, R, h, here)

Good(code, s, loops, saved, done) == StackPart(s) /\ Sound(code, Views(s), loops, saved, done)

LEMMA GoodGround ==
  ASSUME NEW code, NEW s, NEW loops, NEW saved, NEW done
  PROVE  Good(code, s, loops, saved, done) <=>
           \E R, h, here : Ground(s, code, {}, loops, saved, done, R, h, here)
BY DEF Good, Ground, Sound

\* The code that an action works on grows.
LEMMA Further ==
  ASSUME NEW b, NEW code, NEW H, NEW loops, NEW saved, NEW done, NEW R, NEW h, NEW here,
         Ground(b, code, H, loops, saved, done, R, h, here),
         NEW c, NEW G, Working(c, G, R, h, here), Len(code) <= Len(c)
  PROVE  Ground(b, c, G, loops, saved, done, R, h, here)
<1>1. Len(c) \in Nat
  BY DEF Working, Code
<1>2. PICK vs, m, n : vs = Views(b) /\ m = Len(code) /\ n = Len(c)
  OBVIOUS
<1>3. Context(vs, loops, saved, done, R, h, here, m) /\ n \in Nat /\ m <= n
  BY <1>1, <1>2 DEF Ground
<1>4. Context(vs, loops, saved, done, R, h, here, n)
  BY <1>3, ContextLonger
<1> QED BY <1>2, <1>4 DEF Ground

\* What an item gives to the action that takes it.
Gives(x, H, code, h, here) ==
  /\ ItemOK(x) /\ View(x) \in ViewSet /\ IsInjective(View(x).held) /\ H \cap Range(View(x).held) = {}
  /\ Knows(View(x), h, Len(code), here)

LEMMA TakeItem ==
  ASSUME NEW s, NEW code, NEW H, NEW loops, NEW saved, NEW done, NEW R, NEW h, NEW here,
         Ground(s, code, H, loops, saved, done, R, h, here),
         NEW n, n = Len(s), NEW x, x = s[n], x.kind # "program", View(x).class = "plain",
         NEW b, b = SubSeq(s, 1, n - 1)
  PROVE  /\ \E S : Ground(b, code, H \cup Range(View(x).held), loops, saved, done, S, h, here)
         /\ Gives(x, H, code, h, here)
         /\ Lowered(s, n, b)
<1>1. StackPart(s) /\ Context(Views(s), loops, saved, done, R, h, here, Len(code)) /\ Working(code, H, R, h, here)
  BY DEF Ground
<1>2. Topped(b, x, s) /\ Lowered(s, n, b)
  <2>1. StackPart(s) /\ s[n].kind # "program"
    BY <1>1
  <2>2. Topped(b, s[n], s) /\ Lowered(s, n, b)
    BY <2>1, TakeTop
  <2> QED BY <2>2
<1>3. PICK vs, v : vs = Views(b) /\ v = View(x)
  OBVIOUS
<1>4. /\ StackPart(b) /\ ItemOK(x) /\ v \in ViewSet /\ v.class = "plain" /\ vs \in Seq(ViewSet)
      /\ Context(Append(vs, v), loops, saved, done, R, h, here, Len(code))
  BY <1>1, <1>2, <1>3 DEF Topped
<1>5. \E S : /\ Context(vs, loops, saved, done, S, h, here, Len(code))
             /\ Working(code, H \cup Range(v.held), S, h, here)
             /\ IsInjective(v.held) /\ H \cap Range(v.held) = {}
             /\ Knows(v, h, Len(code), here)
  BY <1>1, <1>4, TakePlain
<1>6. PICK S : /\ Context(vs, loops, saved, done, S, h, here, Len(code))
               /\ Working(code, H \cup Range(v.held), S, h, here)
               /\ IsInjective(v.held) /\ H \cap Range(v.held) = {}
               /\ Knows(v, h, Len(code), here)
  BY <1>5
<1>7. Ground(b, code, H \cup Range(View(x).held), loops, saved, done, S, h, here)
  BY <1>3, <1>4, <1>6 DEF Ground
<1>8. Gives(x, H, code, h, here)
  BY <1>3, <1>4, <1>6 DEF Gives
<1> QED BY <1>2, <1>7, <1>8

GivesLoop(loops, H) ==
  /\ loops = Append(Front(loops), Last(loops)) /\ Last(loops) \in LoopSet
  /\ IsInjective(ListsOfLoop(Last(loops))) /\ H \cap Range(ListsOfLoop(Last(loops))) = {}

LEMMA TakeLoopItem ==
  ASSUME NEW s, NEW code, NEW H, NEW loops, NEW saved, NEW done, NEW R, NEW h, NEW here,
         Ground(s, code, H, loops, saved, done, R, h, here),
         NEW n, n = Len(s), NEW x, x = s[n], x.kind # "program", View(x).class = "loop",
         NEW b, b = SubSeq(s, 1, n - 1)
  PROVE  /\ \E S : Ground(b, code, (H \cup Range(View(x).held)) \cup Range(ListsOfLoop(Last(loops))),
                         Front(loops), saved, done, S, h, here)
         /\ GivesLoop(loops, H \cup Range(View(x).held))
         /\ Gives(x, H, code, h, here) /\ Lowered(s, n, b)
<1>1. StackPart(s) /\ Context(Views(s), loops, saved, done, R, h, here, Len(code)) /\ Working(code, H, R, h, here)
  BY DEF Ground
<1>2. Topped(b, x, s) /\ Lowered(s, n, b)
  <2>1. StackPart(s) /\ s[n].kind # "program"
    BY <1>1
  <2>2. Topped(b, s[n], s) /\ Lowered(s, n, b)
    BY <2>1, TakeTop
  <2> QED BY <2>2
<1>3. PICK vs, v : vs = Views(b) /\ v = View(x)
  OBVIOUS
<1>4. /\ StackPart(b) /\ ItemOK(x) /\ v \in ViewSet /\ v.class = "loop" /\ vs \in Seq(ViewSet)
      /\ Context(Append(vs, v), loops, saved, done, R, h, here, Len(code))
  BY <1>1, <1>2, <1>3 DEF Topped
<1>5. \E S, ks, l :
           /\ loops = Append(ks, l) /\ ks = Front(loops) /\ l = Last(loops)
           /\ ks \in Seq(LoopSet) /\ l \in LoopSet
           /\ Context(vs, ks, saved, done, S, h, here, Len(code))
           /\ Working(code, (H \cup Range(v.held)) \cup Range(ListsOfLoop(l)), S, h, here)
           /\ IsInjective(v.held) /\ IsInjective(ListsOfLoop(l))
           /\ H \cap Range(v.held) = {} /\ (H \cup Range(v.held)) \cap Range(ListsOfLoop(l)) = {}
           /\ Knows(v, h, Len(code), here)
  BY <1>1, <1>4, TakeLoop
<1>6. PICK S, ks, l :
           /\ loops = Append(ks, l) /\ ks = Front(loops) /\ l = Last(loops)
           /\ ks \in Seq(LoopSet) /\ l \in LoopSet
           /\ Context(vs, ks, saved, done, S, h, here, Len(code))
           /\ Working(code, (H \cup Range(v.held)) \cup Range(ListsOfLoop(l)), S, h, here)
           /\ IsInjective(v.held) /\ IsInjective(ListsOfLoop(l))
           /\ H \cap Range(v.held) = {} /\ (H \cup Range(v.held)) \cap Range(ListsOfLoop(l)) = {}
           /\ Knows(v, h, Len(code), here)
  BY <1>5
<1>7. Ground(b, code, (H \cup Range(View(x).held)) \cup Range(ListsOfLoop(Last(loops))),
             Front(loops), saved, done, S, h, here)
  BY <1>3, <1>4, <1>6 DEF Ground
<1>8. Gives(x, H, code, h, here)
  BY <1>3, <1>4, <1>6 DEF Gives
<1>9. GivesLoop(loops, H \cup Range(View(x).held))
  BY <1>3, <1>6 DEF GivesLoop
<1> QED BY <1>2, <1>7, <1>8, <1>9

\* What is needed of an item that is put on the stack.
Fits(x, held, labels, code, h, here) ==
  /\ ItemOK(x) /\ x.kind # "program"
  /\ held \in Seq(Nat) /\ IsInjective(held)
  /\ \A l \in labels : l \in Nat /\ l <= Len(code) /\ h[l] = here

LEMMA FitsKnows ==
  ASSUME NEW code, NEW H, NEW R, NEW h, NEW here, Working(code, H, R, h, here),
         NEW held \in Seq(Nat), Range(held) \subseteq H,
         NEW labels, \A l \in labels : l \in Nat /\ l <= Len(code) /\ h[l] = here,
         NEW v, v = PlainView(held, labels) \/ v = LoopView(held, labels)
  PROVE  v \in ViewSet /\ Knows(v, h, Len(code), here)
<1>1. v.held = held /\ v.labels = labels /\ v \in ViewSet
  BY DEF PlainView, LoopView, ViewSet
<1>2. \A n \in H : h[n] = here /\ n <= Len(code)
  <2>1. \A n \in H : h[n] = here /\ n \in JumpsOf(code)
    BY DEF Working, Code
  <2>2. Len(code) \in Nat
    BY DEF Working, Code
  <2>3. \A n \in JumpsOf(code) : n <= Len(code)
    BY <2>2 DEF JumpsOf
  <2> QED BY <2>1, <2>3
<1> QED BY <1>1, <1>2 DEF Knows

LEMMA PutItem ==
  ASSUME NEW b, NEW code, NEW H, NEW loops, NEW saved, NEW done, NEW R, NEW h, NEW here,
         Ground(b, code, H, loops, saved, done, R, h, here),
         NEW x, NEW held, NEW labels, View(x) = PlainView(held, labels),
         Fits(x, held, labels, code, h, here), Range(held) = H,
         NEW s, s = Append(b, x)
  PROVE  Good(code, s, loops, saved, done)
<1>1. PICK vs, v : vs = Views(b) /\ v = View(x)
  OBVIOUS
<1>2. StackPart(b) /\ Context(vs, loops, saved, done, R, h, here, Len(code)) /\ Working(code, H, R, h, here)
  BY <1>1 DEF Ground
<1>3. v \in ViewSet /\ Knows(v, h, Len(code), here)
  BY <1>1, <1>2, FitsKnows DEF Fits
<1>4. v.class = "plain" /\ v.held = held
  BY <1>1 DEF PlainView
<1>5. Sound(code, Append(vs, v), loops, saved, done)
  BY <1>2, <1>3, <1>4, PutPlain DEF Fits
<1>6. Topped(b, x, s)
  <2>1. ItemOK(x) /\ x.kind # "program" /\ View(x) \in ViewSet
    BY <1>1, <1>3 DEF Fits
  <2> QED BY <1>2, <2>1, PutTop
<1> QED BY <1>1, <1>5, <1>6 DEF Topped, Good

LEMMA PutLoopItem ==
  ASSUME NEW b, NEW code, NEW H, NEW loops, NEW saved, NEW done, NEW R, NEW h, NEW here,
         Ground(b, code, H, loops, saved, done, R, h, here),
         NEW x, NEW held, NEW labels, View(x) = LoopView(held, labels),
         Fits(x, held, labels, code, h, here),
         NEW l \in LoopSet, IsInjective(ListsOfLoop(l)), Range(held) \cap Range(ListsOfLoop(l)) = {},
         H = Range(held) \cup Range(ListsOfLoop(l)),
         NEW s, s = Append(b, x)
  PROVE  Good(code, s, Append(loops, l), saved, done)
<1>1. PICK vs, v : vs = Views(b) /\ v = View(x)
  OBVIOUS
<1>2. StackPart(b) /\ Context(vs, loops, saved, done, R, h, here, Len(code)) /\ Working(code, H, R, h, here)
  BY <1>1 DEF Ground
<1>3. v \in ViewSet /\ Knows(v, h, Len(code), here)
  BY <1>1, <1>2, FitsKnows DEF Fits
<1>4. v.class = "loop" /\ v.held = held
  BY <1>1 DEF LoopView
<1>5. Sound(code, Append(vs, v), Append(loops, l), saved, done)
  BY <1>2, <1>3, <1>4, PutLoop DEF Fits
<1>6. Topped(b, x, s)
  <2>1. ItemOK(x) /\ x.kind # "program" /\ View(x) \in ViewSet
    BY <1>1, <1>3 DEF Fits
  <2> QED BY <1>2, <2>1, PutTop
<1> QED BY <1>1, <1>5, <1>6 DEF Topped, Good

\* An expression that was parsed.
LEMMA PutExpr ==
  ASSUME NEW b, NEW code, NEW H, NEW loops, NEW saved, NEW done, NEW R, NEW h, NEW here,
         Ground(b, code, H, loops, saved, done, R, h, here),
         NEW e, IsExpr(e), IsInjective(ListsOf(e)), Range(ListsOf(e)) = H,
         NEW s, s = Append(b, [kind |-> "expr", e |-> e])
  PROVE  Good(code, s, loops, saved, done)
<1>1. PICK x : x = [kind |-> "expr", e |-> e]
  OBVIOUS
<1>2. x.kind = "expr" /\ x.e = e
  BY <1>1
<1>3. View(x) = PlainView(ListsOf(e), {})
  BY <1>2, ViewsAre
<1>4. ItemOK(x)
  BY <1>2, JumpOpsAre DEF ItemOK, Kinds, ListRules, StmtLists
<1>5. Fits(x, ListsOf(e), {}, code, h, here)
  BY <1>2, <1>4, ListsAre DEF Fits
<1> QED BY <1>1, <1>3, <1>5, PutItem

LEMMA ShorterStill ==
  ASSUME NEW s, IsSeq(s), NEW n, n = Len(s), n - 2 \in Nat
  PROVE  SubSeq(SubSeq(s, 1, n - 1), 1, (n - 1) - 1) = SubSeq(s, 1, n - 2)
<1>1. n \in Nat /\ n - 1 \in 0..n /\ n - 2 \in 0..n /\ n - 2 \in 0..n - 1 /\ (n - 1) - 1 = n - 2
  BY DEF IsSeq
<1>2. PICK c, b, d : c = SubSeq(s, 1, n - 1) /\ b = SubSeq(s, 1, n - 2) /\ d = SubSeq(c, 1, n - 2)
  OBVIOUS
<1>3. Prefix(s, n - 1, c) /\ Prefix(s, n - 2, b)
  BY <1>1, <1>2, Shortened
<1>4. Prefix(c, n - 2, d)
  <2>1. IsSeq(c) /\ n - 2 \in 0..Len(c)
    BY <1>1, <1>3 DEF Prefix
  <2> QED BY <1>2, <2>1, Shortened
<1>5. \A i \in 1..n - 2 : i \in 1..n - 1
  BY <1>1
<1>6. IsSeq(b) /\ IsSeq(d) /\ Len(b) = n - 2 /\ Len(d) = n - 2 /\ \A i \in 1..Len(d) : d[i] = b[i]
  BY <1>3, <1>4, <1>5 DEF Prefix
<1>7. d = b
  BY <1>6, SameElements
<1> QED BY <1>1, <1>2, <1>7

\* A rule x and what was parsed for it, y, leave the stack.
Taken(b, x, y, code, loops, saved, done, R, h, here) ==
  /\ Ground(b, code, Range(View(y).held) \cup Range(View(x).held), loops, saved, done, R, h, here)
  /\ Gives(x, Range(View(y).held), code, h, here)
  /\ ItemOK(y) /\ IsInjective(View(y).held)

LEMMA TakeTopmost ==
  ASSUME NEW s, NEW code, NEW loops, NEW saved, NEW done, Good(code, s, loops, saved, done),
         NEW n, n = Len(s), NEW y, y = s[n], y.kind # "program", View(y).class = "plain",
         NEW c, c = SubSeq(s, 1, n - 1)
  PROVE  \E R, h, here :
           /\ Ground(c, code, Range(View(y).held), loops, saved, done, R, h, here)
           /\ Gives(y, {}, code, h, here) /\ Lowered(s, n, c)
<1>1. PICK H : H = {}
  OBVIOUS
<1>2. PICK R, h, here : Ground(s, code, H, loops, saved, done, R, h, here)
  BY <1>1, GoodGround
<1>3. /\ \E S : Ground(c, code, H \cup Range(View(y).held), loops, saved, done, S, h, here)
      /\ Gives(y, H, code, h, here)
      /\ Lowered(s, n, c)
  <2>1. n = Len(s) /\ y = s[n] /\ c = SubSeq(s, 1, n - 1) /\ y.kind # "program" /\ View(y).class = "plain"
    OBVIOUS
  <2> QED BY <1>2, <2>1, TakeItem
<1>4. H \cup Range(View(y).held) = Range(View(y).held)
  BY <1>1
<1> QED BY <1>1, <1>3, <1>4

LEMMA TakeRule ==
  ASSUME NEW s, NEW code, NEW loops, NEW saved, NEW done, Good(code, s, loops, saved, done),
         NEW n, n = Len(s), NEW y, y = s[n], y.kind # "program", View(y).class = "plain",
         NEW x, x = s[n - 1], x.kind # "program", View(x).class = "plain",
         NEW b, b = SubSeq(s, 1, n - 2)
  PROVE  \E R, h, here : Taken(b, x, y, code, loops, saved, done, R, h, here)
<1>1. PICK c, H : c = SubSeq(s, 1, n - 1) /\ H = Range(View(y).held)
  OBVIOUS
<1>2. PICK R, h, here : /\ Ground(c, code, H, loops, saved, done, R, h, here)
                        /\ Gives(y, {}, code, h, here) /\ Lowered(s, n, c)
  BY <1>1, TakeTopmost
<1>3. n \in Nat /\ n >= 2 /\ n - 2 \in Nat /\ n - 1 = Len(c) /\ x = c[n - 1]
  <2>1. n \in Nat /\ n >= 2 /\ Len(c) = n - 1 /\ \A i \in 1..n - 1 : c[i] = s[i]
    BY <1>2 DEF Lowered
  <2>2. n - 1 \in 1..n - 1 /\ n - 2 \in Nat
    BY <2>1
  <2> QED BY <2>1, <2>2
<1>4. PICK m : m = n - 1
  OBVIOUS
<1>5. b = SubSeq(c, 1, m - 1)
  <2>1. IsSeq(s)
    BY DEF Good, StackPart
  <2>2. SubSeq(SubSeq(s, 1, n - 1), 1, (n - 1) - 1) = SubSeq(s, 1, n - 2)
    BY <1>3, <2>1, ShorterStill
  <2> QED BY <1>1, <1>4, <2>2
<1>6. m = Len(c) /\ x = c[m]
  BY <1>3, <1>4
<1>7. /\ \E S : Ground(b, code, H \cup Range(View(x).held), loops, saved, done, S, h, here)
      /\ Gives(x, H, code, h, here)
      /\ Lowered(c, m, b)
  BY <1>2, <1>5, <1>6, TakeItem
<1>8. ItemOK(y) /\ IsInjective(View(y).held)
  BY <1>2 DEF Gives
<1> QED BY <1>1, <1>7, <1>8 DEF Taken

\* The same for the rule of a loop.
TakenLoop(b, x, y, code, loops, saved, done, R, h, here) ==
  /\ Ground(b, code, (Range(View(y).held) \cup Range(View(x).held)) \cup Range(ListsOfLoop(Last(loops))),
            Front(loops), saved, done, R, h, here)
  /\ Gives(x, Range(View(y).held), code, h, here)
  /\ ItemOK(y) /\ IsInjective(View(y).held)
  /\ GivesLoop(loops, Range(View(y).held) \cup Range(View(x).held))

LEMMA TakeLoopRule ==
  ASSUME NEW s, NEW code, NEW loops, NEW saved, NEW done, Good(code, s, loops, saved, done),
         NEW n, n = Len(s), NEW y, y = s[n], y.kind # "program", View(y).class = "plain",
         NEW x, x = s[n - 1], x.kind # "program", View(x).class = "loop",
         NEW b, b = SubSeq(s, 1, n - 2)
  PROVE  \E R, h, here : TakenLoop(b, x, y, code, loops, saved, done, R, h, here)
<1>1. PICK c, H : c = SubSeq(s, 1, n - 1) /\ H = Range(View(y).held)
  OBVIOUS
<1>2. PICK R, h, here : /\ Ground(c, code, H, loops, saved, done, R, h, here)
                        /\ Gives(y, {}, code, h, here) /\ Lowered(s, n, c)
  BY <1>1, TakeTopmost
<1>3. n \in Nat /\ n >= 2 /\ n - 2 \in Nat /\ n - 1 = Len(c) /\ x = c[n - 1]
  <2>1. n \in Nat /\ n >= 2 /\ Len(c) = n - 1 /\ \A i \in 1..n - 1 : c[i] = s[i]
    BY <1>2 DEF Lowered
  <2>2. n - 1 \in 1..n - 1 /\ n - 2 \in Nat
    BY <2>1
  <2> QED BY <2>1, <2>2
<1>4. PICK m : m = n - 1
  OBVIOUS
<1>5. b = SubSeq(c, 1, m - 1)
  <2>1. IsSeq(s)
    BY DEF Good, StackPart
  <2>2. SubSeq(SubSeq(s, 1, n - 1), 1, (n - 1) - 1) = SubSeq(s, 1, n - 2)
    BY <1>3, <2>1, ShorterStill
  <2> QED BY <1>1, <1>4, <2>2
<1>6. m = Len(c) /\ x = c[m]
  BY <1>3, <1>4
<1>7. /\ \E S : Ground(b, code, (H \cup Range(View(x).held)) \cup Range(ListsOfLoop(Last(loops))),
                      Front(loops), saved, done, S, h, here)
      /\ GivesLoop(loops, H \cup Range(View(x).held))
      /\ Gives(x, H, code, h, here)
      /\ Lowered(c, m, b)
  BY ZenonT(40), <1>2, <1>5, <1>6, TakeLoopItem
<1>8. ItemOK(y) /\ IsInjective(View(y).held)
  BY <1>2 DEF Gives
<1> QED BY <1>1, <1>7, <1>8 DEF TakenLoop

\* A statement that ends is noted by the list it is in, or waits for its rule.
LEMMA StmtNoted ==
  ASSUME NEW b, NEW code, NEW loops, NEW saved, NEW done, Good(code, b, loops, saved, done),
         Last(b).kind \in StmtLists, NEW tree,
         NEW s, s = Front(b) \o <<[Last(b) EXCEPT !.stmts = Append(@, tree)]>>
  PROVE  Good(code, s, loops, saved, done)
<1>1. StackPart(b) /\ Sound(code, Views(b), loops, saved, done)
  BY DEF Good
<1>2. PICK n, x, f : n = Len(b) /\ x = b[n] /\ f = SubSeq(b, 1, n - 1)
  OBVIOUS
<1>3. n \in Nat /\ n # 0 /\ DOMAIN b = 1..n /\ n - 1 \in 0..n /\ n \in 1..n /\ IsSeq(b)
  BY <1>1, <1>2 DEF StackPart, IsSeq
<1>4. x.kind \in StmtLists /\ Last(b) = x /\ Front(b) = f
  BY <1>2 DEF Last, Front
<1>5. PICK y : y = [x EXCEPT !.stmts = Append(@, tree)]
  OBVIOUS
<1>6. ItemOK(x) /\ View(x) \in ViewSet
  BY <1>1, <1>2, <1>3 DEF StackPart
<1>7. {"kind", "stmts"} \subseteq DOMAIN x /\ x = [g \in DOMAIN x |-> x[g]]
  BY <1>4, <1>6 DEF ItemOK
<1>8. /\ DOMAIN y = DOMAIN x /\ y = [g \in DOMAIN y |-> y[g]]
      /\ \A g \in DOMAIN x : g # "stmts" => y[g] = x[g]
  BY <1>5, <1>7
<1>9. y.kind = x.kind /\ (x.kind = "funcbody" => y.start = x.start /\ "start" \in DOMAIN x)
  <2>1. y.kind = x.kind
    BY <1>7, <1>8
  <2>2. x.kind = "funcbody" => "start" \in DOMAIN x
    BY <1>6 DEF ItemOK
  <2> QED BY <1>8, <2>1, <2>2
<1>10. x.kind \in {"program", "block", "funcbody"}
  BY <1>4 DEF StmtLists
<1>11. ItemOK(y)
  <2>1. x.kind = "funcbody" => x.start \in Nat
    BY <1>6 DEF ItemOK
  <2> QED BY <1>7, <1>8, <1>9, <1>10, <2>1, JumpOpsAre DEF ItemOK, Kinds, StmtRules, ListRules, StmtLists
<1>12. View(y) = View(x)
  BY <1>9, <1>10, JumpOpsAre DEF View, HeldBy, LabelsOf, LoopRules, ListRules
<1>13. /\ IsSeq(s) /\ Len(s) = n /\ DOMAIN s = 1..n
       /\ \A i \in 1..n - 1 : s[i] = b[i]
       /\ s[n] = y
  <2>1. Prefix(b, n - 1, f)
    BY <1>2, <1>3, Shortened
  <2>2. IsSeq(f) /\ Len(f) = n - 1 /\ \A i \in 1..n - 1 : f[i] = b[i]
    BY <2>1 DEF Prefix
  <2>3. PICK S : S = Range(f) \cup {y}
    OBVIOUS
  <2>4. f \in Seq(S) /\ <<y>> \in Seq(S)
    BY <2>2, <2>3 DEF IsSeq
  <2>5. f \o <<y>> = Append(f, y)
    BY <2>4
  <2>6. s = Append(f, y)
    BY <1>4, <1>5, <2>5
  <2>7. OneMore(f, y, s)
    BY <2>2, <2>6, AppendTo
  <2>8. (n - 1) + 1 = n
    BY <1>3
  <2> QED BY <1>3, <2>2, <2>7, <2>8 DEF OneMore
<1>14. \A i \in 1..n : i \in 1..n - 1 \/ i = n
  BY <1>3
<1>15. \A i \in 1..n : View(s[i]) = View(b[i]) /\ ItemOK(s[i]) /\ s[i].kind = b[i].kind
  <2>1. \A i \in 1..n : ItemOK(b[i])
    BY <1>1, <1>3 DEF StackPart
  <2>2. \A i \in 1..n - 1 : i \in 1..n
    BY <1>3
  <2> QED BY <1>2, <1>9, <1>11, <1>12, <1>13, <1>14, <2>1, <2>2
<1>16. Views(s) = Views(b)
  BY <1>3, <1>13, <1>15 DEF Views
<1>17. StackPart(s)
  <2>1. 1 \in 1..n
    BY <1>3
  <2>2. b[1].kind = "program" /\ \A i \in DOMAIN b : View(b[i]) \in ViewSet /\ (i # 1 => b[i].kind # "program")
    BY <1>1 DEF StackPart
  <2>3. s[1].kind = "program" /\ s # <<>>
    BY <1>3, <1>13, <1>15, <2>1, <2>2
  <2> QED BY <1>3, <1>13, <1>15, <2>2, <2>3 DEF StackPart
<1> QED BY <1>1, <1>16, <1>17 DEF Good

LEMMA StmtEnded ==
  ASSUME NEW b, NEW code, NEW loops, NEW saved, NEW done, Good(code, b, loops, saved, done), NEW tree,
         NEW s, s = IF Last(b).kind \in StmtLists
                    THEN Front(b) \o <<[Last(b) EXCEPT !.stmts = Append(@, tree)]>>
                    ELSE Append(b, [kind |-> "stmt", tree |-> tree])
  PROVE  Good(code, s, loops, saved, done)
<1>1. CASE Last(b).kind \in StmtLists
  BY <1>1, StmtNoted
<1>2. CASE Last(b).kind \notin StmtLists
  <2>1. PICK x : x = [kind |-> "stmt", tree |-> tree]
    OBVIOUS
  <2>2. x.kind = "stmt" /\ s = Append(b, x)
    BY <1>2, <2>1
  <2>3. PICK R, h, here : Ground(b, code, {}, loops, saved, done, R, h, here)
    BY GoodGround
  <2>4. View(x) = PlainView(<<>>, {})
    BY <2>2, ViewsAre
  <2>5. ItemOK(x)
    BY <2>2, JumpOpsAre DEF ItemOK, Kinds, ListRules, StmtLists
  <2>6. Fits(x, <<>>, {}, code, h, here) /\ Range(<<>>) = {}
    BY <2>2, <2>5, Emptied DEF Fits
  <2> QED BY <2>2, <2>3, <2>4, <2>6, PutItem
<1> QED BY <1>1, <1>2

\* What Good says of the variables is the invariant.
LEMMA GoodIsInvariant ==
  ASSUME Good(quads, stack, loop_stack, savedLoops, bodies)
  PROVE  IInv
<1>1. StackPart(stack) /\ Sound(quads, Views(stack), loop_stack, savedLoops, bodies)
  BY DEF Good
<1>2. PICK vs : vs = Views(stack)
  OBVIOUS
<1>3. PICK R, h, here : /\ Context(vs, loop_stack, savedLoops, bodies, R, h, here, Len(quads))
                        /\ Working(quads, {}, R, h, here)
  BY <1>1, <1>2 DEF Sound
<1>4. Len(vs) = Len(stack)
  <2>1. IsSeq(stack) /\ \A i \in DOMAIN stack : View(stack[i]) \in ViewSet
    BY <1>1 DEF StackPart
  <2> QED BY <1>2, <2>1, ViewsTyped
<1>5. here = Opened(Views(stack), Len(stack)) /\ h = Home
  BY <1>2, <1>3, <1>4 DEF Context, Home
<1>6. HeldOf(vs, loop_stack, savedLoops) = Held
  BY <1>2, HeldInParts DEF HeldOf
<1>7. R = Range(Held) /\ IsInjective(Held)
  BY <1>3, <1>6 DEF Context
<1>8. Code(quads, Range(Held), Home)
  <2>1. {} \cup R = R
    OBVIOUS
  <2> QED BY <1>3, <1>5, <1>7, <2>1 DEF Working
<1>9. StackOK
  BY <1>1, <1>3 DEF StackPart, StackOK, Context, Types
<1>10. BodiesApart
  BY <1>3, <1>5 DEF Context, Apart, BodiesApart
<1>11. Nested(Views(stack), loop_stack, savedLoops, Home, Len(quads))
  BY <1>2, <1>3, <1>5 DEF Context
<1> QED BY <1>7, <1>8, <1>9, <1>10, <1>11 DEF IInv

-----------------------------------------------------------------------------
(* The steps of an action, over the stack b.                               *)

LEMMA ValueIn ==
  ASSUME NEW b, NEW code, NEW loops, NEW saved, NEW done, NEW R, NEW h, NEW here, NEW e, NEW G,
         Ground(b, code, Range(ListsOf(e)) \cup G, loops, saved, done, R, h, here),
         IsExpr(e), IsInjective(ListsOf(e)), Range(ListsOf(e)) \cap G = {},
         NEW r, r = ConvertToValue(code, e)
  PROVE  Ground(b, r.code, G, loops, saved, done, R, h, here) /\ IsExpr(r.e) /\ r.e.place \in Places
<1>1. PICK E : E = Range(ListsOf(e))
  OBVIOUS
<1>2. Working(code, E \cup G, R, h, here) /\ Given(e, E \cup G)
  BY <1>1 DEF Ground, Given
<1>3. Became(code, E \cup G, e, r, R, h, here) /\ r.e.place \in Places /\ ListsOf(r.e) = <<>>
  BY <1>2, ValueMade
<1>4. Range(ListsOf(r.e)) = {}
  BY <1>3, Emptied
<1>5. ((E \cup G) \ E) \cup {} = G
  BY <1>1
<1>6. Working(r.code, G, R, h, here) /\ Len(code) <= Len(r.code) /\ IsExpr(r.e)
  BY <1>1, <1>3, <1>4, <1>5 DEF Became
<1> QED BY <1>3, <1>6, Further

\* A condition e whose jumps the action holds, beside G.
Holds(b, code, e, G, loops, saved, done, R, h, here) ==
  /\ Ground(b, code, Range(ListsOf(e)) \cup G, loops, saved, done, R, h, here)
  /\ IsBool(e) /\ IsInjective(ListsOf(e)) /\ Range(ListsOf(e)) \cap G = {}

LEMMA BecameHolds ==
  ASSUME NEW b, NEW code, NEW loops, NEW saved, NEW done, NEW R, NEW h, NEW here, NEW e, NEW G,
         Ground(b, code, Range(ListsOf(e)) \cup G, loops, saved, done, R, h, here),
         Range(ListsOf(e)) \cap G = {},
         NEW r, Became(code, Range(ListsOf(e)) \cup G, e, r, R, h, here), IsBool(r.e)
  PROVE  Holds(b, r.code, r.e, G, loops, saved, done, R, h, here) /\ Len(code) <= Len(r.code)
<1>1. PICK E, F : E = Range(ListsOf(e)) /\ F = Range(ListsOf(r.e))
  OBVIOUS
<1>2. (E \cup G) \ E = G
  BY <1>1
<1>3. Working(r.code, G \cup F, R, h, here) /\ G \cap F = {} /\ IsInjective(ListsOf(r.e)) /\ Len(code) <= Len(r.code)
  BY <1>1, <1>2 DEF Became
<1>4. G \cup F = F \cup G
  OBVIOUS
<1>5. Ground(b, r.code, F \cup G, loops, saved, done, R, h, here)
  BY <1>3, <1>4, Further
<1> QED BY <1>1, <1>3, <1>5 DEF Holds

LEMMA BoolIn ==
  ASSUME NEW b, NEW code, NEW loops, NEW saved, NEW done, NEW R, NEW h, NEW here, NEW e, NEW G,
         Ground(b, code, Range(ListsOf(e)) \cup G, loops, saved, done, R, h, here),
         IsExpr(e), IsInjective(ListsOf(e)), Range(ListsOf(e)) \cap G = {},
         NEW r, r = IfBoolExpr(code, e)
  PROVE  Holds(b, r.code, r.e, G, loops, saved, done, R, h, here) /\ Len(code) <= Len(r.code)
<1>1. PICK H : H = Range(ListsOf(e)) \cup G
  OBVIOUS
<1>2. Working(code, H, R, h, here) /\ Given(e, H)
  BY <1>1 DEF Ground, Given
<1>3. Became(code, H, e, r, R, h, here) /\ IsBool(r.e)
  BY <1>2, BoolMade
<1> QED BY <1>1, <1>3, BecameHolds

LEMMA ConditionIn ==
  ASSUME NEW b, NEW code, NEW loops, NEW saved, NEW done, NEW R, NEW h, NEW here, NEW e, NEW G,
         Ground(b, code, Range(ListsOf(e)) \cup G, loops, saved, done, R, h, here),
         IsExpr(e), IsInjective(ListsOf(e)), Range(ListsOf(e)) \cap G = {},
         NEW r, r = Condition(code, e)
  PROVE  Holds(b, r.code, r.e, G, loops, saved, done, R, h, here) /\ Len(code) <= Len(r.code)
<1>1. PICK H : H = Range(ListsOf(e)) \cup G
  OBVIOUS
<1>2. Working(code, H, R, h, here) /\ Given(e, H)
  BY <1>1 DEF Ground, Given
<1>3. Became(code, H, e, r, R, h, here) /\ IsBool(r.e)
  BY <1>2, ConditionMade
<1> QED BY <1>1, <1>3, BecameHolds

LEMMA EmittedIn ==
  ASSUME NEW b, NEW code, NEW loops, NEW saved, NEW done, NEW R, NEW h, NEW here, NEW G,
         Ground(b, code, G, loops, saved, done, R, h, here),
         NEW q \in QuadSet, q.op \notin JumpOps
  PROVE  /\ Ground(b, Append(code, q), G, loops, saved, done, R, h, here)
         /\ Len(Append(code, q)) = Len(code) + 1 /\ Len(code) \in Nat
<1>1. Working(code, G, R, h, here)
  BY DEF Ground
<1>2. PICK c : c = Append(code, q)
  OBVIOUS
<1>3. Working(c, G, R, h, here) /\ Len(c) = Len(code) + 1 /\ Len(code) \in Nat
  BY <1>1, <1>2, Emitted
<1>4. Len(code) <= Len(c)
  BY <1>3
<1> QED BY <1>2, <1>3, <1>4, Further

LEMMA JumpEmittedIn ==
  ASSUME NEW b, NEW code, NEW loops, NEW saved, NEW done, NEW R, NEW h, NEW here, NEW G,
         Ground(b, code, G, loops, saved, done, R, h, here),
         NEW q \in QuadSet, q.op \in JumpOps, q.label = 0, q.patches = 0
  PROVE  /\ Ground(b, Append(code, q), G \cup {Len(code)}, loops, saved, done, R, h, here)
         /\ Len(Append(code, q)) = Len(code) + 1 /\ Len(code) \in Nat /\ Len(code) \notin G
<1>1. Working(code, G, R, h, here)
  BY DEF Ground
<1>2. PICK c, n : c = Append(code, q) /\ n = Len(code)
  OBVIOUS
<1>3. Working(c, G \cup {n}, R, h, here) /\ Len(c) = n + 1 /\ n \in Nat /\ n \notin G \cup R
  BY <1>1, <1>2, JumpEmitted
<1>4. Len(code) <= Len(c)
  BY <1>2, <1>3
<1>5. Ground(b, c, G \cup {n}, loops, saved, done, R, h, here)
  BY <1>3, <1>4, Further
<1> QED BY <1>2, <1>3, <1>5

\* The two quads of a comparison.
LEMMA BranchIn ==
  ASSUME NEW b, NEW code, NEW loops, NEW saved, NEW done, NEW R, NEW h, NEW here,
         Ground(b, code, {}, loops, saved, done, R, h, here),
         NEW q \in QuadSet, q.op \in JumpOps, q.label = 0, q.patches = 0,
         NEW n, n = Len(code), NEW tree, NEW e, e = BoolExpr(<<n>>, <<n + 1>>, tree)
  PROVE  /\ Ground(b, code \o <<q, OpenJump>>, Range(ListsOf(e)), loops, saved, done, R, h, here)
         /\ IsExpr(e) /\ IsInjective(ListsOf(e))
<1>1. PICK c, d, H : c = Append(code, q) /\ d = Append(c, OpenJump) /\ H = {}
  OBVIOUS
<1>2. Ground(b, c, H \cup {n}, loops, saved, done, R, h, here) /\ Len(c) = n + 1 /\ n \in Nat
  BY <1>1, JumpEmittedIn
<1>3. PICK G, m : G = H \cup {n} /\ m = Len(c)
  OBVIOUS
<1>4. Ground(b, d, G \cup {m}, loops, saved, done, R, h, here)
  BY <1>1, <1>2, <1>3, OpenJumpIs, JumpEmittedIn
<1>5. code \o <<q, OpenJump>> = d
  <2>1. code \in Seq(QuadSet)
    BY DEF Ground, Working, Code
  <2> QED BY <1>1, <2>1, OpenJumpIs, TwoMore
<1>6. m \in Nat /\ m = n + 1 /\ m # n
  BY <1>2, <1>3
<1>7. /\ <<n>> \in Seq(Nat) /\ <<m>> \in Seq(Nat)
      /\ Range(<<n>> \o <<m>>) = {n, m} /\ IsInjective(<<n>> \o <<m>>)
  BY <1>2, <1>6, OneOrTwo
<1>8. e.type = "boolexpr_e" /\ e.truelist = <<n>> /\ e.falselist = <<m>>
  BY <1>6 DEF BoolExpr
<1>9. ListsOf(e) = <<n>> \o <<m>>
  BY <1>8 DEF ListsOf
<1>10. IsExpr(e)
  BY <1>7, <1>8 DEF IsExpr, IsBool
<1>11. G \cup {m} = {n, m}
  BY <1>1, <1>3
<1> QED BY <1>4, <1>5, <1>7, <1>9, <1>10, <1>11

LEMMA PatchedIn ==
  ASSUME NEW b, NEW code, NEW loops, NEW saved, NEW done, NEW R, NEW h, NEW here, NEW G,
         Ground(b, code, G, loops, saved, done, R, h, here),
         NEW list, Range(list) \subseteq G, NEW label \in Nat, label <= Len(code), h[label] = here
  PROVE  /\ Ground(b, PatchList(code, list, label), G \ Range(list), loops, saved, done, R, h, here)
         /\ Len(PatchList(code, list, label)) = Len(code) /\ Len(code) \in Nat
<1>1. Working(code, G, R, h, here)
  BY DEF Ground
<1>2. PICK c, F : c = PatchList(code, list, label) /\ F = G \ Range(list)
  OBVIOUS
<1>3. Working(c, F, R, h, here) /\ Len(c) = Len(code) /\ Len(code) \in Nat
  BY <1>1, <1>2, Patched
<1>4. Len(code) <= Len(c)
  BY <1>3
<1>5. Ground(b, c, F, loops, saved, done, R, h, here)
  BY <1>3, <1>4, Further
<1> QED BY <1>2, <1>3, <1>5

\* The next quad is in the function that the action is in.
LEMMA NextIsHere ==
  ASSUME NEW b, NEW code, NEW loops, NEW saved, NEW done, NEW R, NEW h, NEW here, NEW G,
         Ground(b, code, G, loops, saved, done, R, h, here)
  PROVE  Len(code) \in Nat /\ Len(code) <= Len(code) /\ h[Len(code)] = here
<1>1. Len(code) \in Nat /\ \A n \in Nat : Len(code) <= n => h[n] = here
  BY DEF Ground, Working, Code
<1>2. Len(code) <= Len(code)
  BY <1>1
<1> QED BY <1>1, <1>2

-----------------------------------------------------------------------------
(* The actions.  Each keeps what the stack, the loops and the quads know   *)
(* of each other.                                                          *)

Now == Good(quads, stack, loop_stack, savedLoops, bodies)

\* The rules that a statement or an expression is a part of.
PlainRules == Comparisons \cup {"and", "or", "not", "assign", "call", "exprstmt", "if", "return", "then", "else"}

LEMMA PlainRuleView ==
  ASSUME NEW x, x.kind \in PlainRules
  PROVE  View(x).class = "plain" /\ x.kind # "program"
BY JumpOpsAre DEF View, PlainRules, LoopRules

\* An expression was parsed for the rule x.
Operand(b, x, e, code, loops, saved, done, R, h, here) ==
  /\ Ground(b, code, Range(ListsOf(e)) \cup Range(View(x).held), loops, saved, done, R, h, here)
  /\ Gives(x, Range(ListsOf(e)), code, h, here)
  /\ IsExpr(e) /\ IsInjective(ListsOf(e))

LEMMA ExprItem ==
  ASSUME NEW y, y.kind = "expr"
  PROVE  /\ View(y).held = ListsOf(y.e) /\ View(y).class = "plain" /\ y.kind # "program"
         /\ ItemOK(y) => IsExpr(y.e)
<1>1. View(y) = PlainView(ListsOf(y.e), {})
  BY ViewsAre
<1>2. ItemOK(y) => IsExpr(y.e)
  BY DEF ItemOK
<1> QED BY <1>1, <1>2 DEF PlainView

LEMMA ExprTaken ==
  ASSUME Now, Kind("expr")
  PROVE  /\ \E R, h, here :
              Ground(Rest(1), quads, Range(ListsOf(Expr)), loop_stack, savedLoops, bodies, R, h, here)
         /\ IsExpr(Expr) /\ IsInjective(ListsOf(Expr))
<1>1. PICK n, y, c : n = Len(stack) /\ y = stack[n] /\ c = SubSeq(stack, 1, n - 1)
  OBVIOUS
<1>2. Top = y /\ Rest(1) = c
  BY <1>1 DEF Top, Last, Rest
<1>3. y.kind = "expr" /\ Expr = y.e
  BY <1>2 DEF Kind, Expr
<1>4. View(y).held = ListsOf(y.e) /\ View(y).class = "plain" /\ y.kind # "program" /\ (ItemOK(y) => IsExpr(y.e))
  BY <1>3, ExprItem
<1>5. \E R, h, here :
        /\ Ground(c, quads, Range(View(y).held), loop_stack, savedLoops, bodies, R, h, here)
        /\ Gives(y, {}, quads, h, here) /\ Lowered(stack, n, c)
  BY <1>1, <1>4, TakeTopmost DEF Now
<1> QED BY <1>2, <1>3, <1>4, <1>5 DEF Gives

LEMMA OperandTaken ==
  ASSUME Now, NEW k \in PlainRules, Parsed(k)
  PROVE  \E R, h, here : Operand(Rest(2), Rule, Expr, quads, loop_stack, savedLoops, bodies, R, h, here)
<1>1. PICK n, y, x, b : n = Len(stack) /\ y = stack[n] /\ x = stack[n - 1] /\ b = SubSeq(stack, 1, n - 2)
  OBVIOUS
<1>2. Top = y /\ Rest(2) = b /\ Rule = x
  BY <1>1 DEF Top, Last, Rest, Rule
<1>3. y.kind = "expr" /\ Expr = y.e /\ x.kind = k
  BY <1>1, <1>2 DEF Kind, Expr, Parsed
<1>4. View(y).held = ListsOf(y.e) /\ View(y).class = "plain" /\ y.kind # "program" /\ (ItemOK(y) => IsExpr(y.e))
  BY <1>3, ExprItem
<1>5. View(x).class = "plain" /\ x.kind # "program"
  BY <1>3, PlainRuleView
<1>6. \E R, h, here : Taken(b, x, y, quads, loop_stack, savedLoops, bodies, R, h, here)
  BY ZenonT(40), <1>1, <1>4, <1>5, TakeRule DEF Now
<1> QED BY <1>2, <1>3, <1>4, <1>6 DEF Taken, Operand

LEMMA StmtTaken ==
  ASSUME Now, NEW k \in PlainRules, Stmt(k)
  PROVE  \E R, h, here :
           /\ Ground(Rest(2), quads, Range(View(Rule).held), loop_stack, savedLoops, bodies, R, h, here)
           /\ Gives(Rule, {}, quads, h, here)
<1>1. PICK n, y, x, b : n = Len(stack) /\ y = stack[n] /\ x = stack[n - 1] /\ b = SubSeq(stack, 1, n - 2)
  OBVIOUS
<1>2. Top = y /\ Rest(2) = b /\ Rule = x
  BY <1>1 DEF Top, Last, Rest, Rule
<1>3. y.kind = "stmt" /\ x.kind = k
  BY <1>1, <1>2 DEF Kind, Stmt
<1>4. View(y).held = <<>> /\ View(y).class = "plain" /\ y.kind # "program"
  <2>1. View(y) = PlainView(<<>>, {})
    BY <1>3, ViewsAre
  <2> QED BY <1>3, <2>1 DEF PlainView
<1>5. View(x).class = "plain" /\ x.kind # "program"
  BY <1>3, PlainRuleView
<1>6. \E R, h, here : Taken(b, x, y, quads, loop_stack, savedLoops, bodies, R, h, here)
  BY ZenonT(40), <1>1, <1>4, <1>5, TakeRule DEF Now
<1>7. Range(View(y).held) = {} /\ {} \cup Range(View(x).held) = Range(View(x).held)
  BY <1>4, Emptied
<1> QED BY <1>2, <1>6, <1>7 DEF Taken

\* A rule begins that holds nothing and knows no place.
LEMMA ItemBegun ==
  ASSUME Now, NEW x, ItemOK(x), x.kind # "program", View(x) = PlainView(<<>>, {})
  PROVE  Good(quads, Append(stack, x), loop_stack, savedLoops, bodies)
<1>1. PICK R, h, here : Ground(stack, quads, {}, loop_stack, savedLoops, bodies, R, h, here)
  BY GoodGround DEF Now
<1>2. Fits(x, <<>>, {}, quads, h, here) /\ Range(<<>>) = {}
  BY Emptied DEF Fits
<1> QED BY <1>1, <1>2, PutItem

LEMMA BareItem ==
  ASSUME NEW k, k \in {"not", "assign", "exprstmt", "if", "return"}
  PROVE  /\ ItemOK([kind |-> k]) /\ [kind |-> k].kind # "program"
         /\ View([kind |-> k]) = PlainView(<<>>, {})
<1>1. PICK x : x = [kind |-> k]
  OBVIOUS
<1>2. x.kind = k
  BY <1>1
<1>3. View(x) = PlainView(<<>>, {})
  BY <1>2, ViewsAre
<1>4. ItemOK(x)
  BY <1>2, JumpOpsAre DEF ItemOK, Kinds, ExprRules, StmtRules, ListRules, StmtLists
<1> QED BY <1>1, <1>2, <1>3, <1>4

LEMMA CallItem ==
  ASSUME NEW x, x = [kind |-> "call", args |-> <<>>]
  PROVE  ItemOK(x) /\ x.kind # "program" /\ View(x) = PlainView(<<>>, {})
<1>1. x.kind = "call" /\ x.args = <<>>
  OBVIOUS
<1>2. View(x) = PlainView(<<>>, {})
  BY <1>1, ViewsAre, NoArgs
<1>3. ItemOK(x)
  <2>1. {"kind", "args"} \subseteq DOMAIN x /\ x = [f \in DOMAIN x |-> x[f]]
    OBVIOUS
  <2>2. IsSeq(x.args) /\ \A i \in DOMAIN x.args : IsExpr(x.args[i])
    BY <1>1, NoArgs DEF Exprs
  <2> QED BY <1>1, <2>1, <2>2, JumpOpsAre DEF ItemOK, Kinds, ExprRules, StmtRules, ListRules, StmtLists
<1> QED BY <1>1, <1>2, <1>3

LEMMA KeptByBeginPrefix ==
  ASSUME Now, NEW k \in {"not", "assign", "call"}, BeginPrefix(k)
  PROVE  Now'
<1>1. PICK x : x = IF k = "call" THEN [kind |-> k, args |-> <<>>] ELSE [kind |-> k]
  OBVIOUS
<1>2. ItemOK(x) /\ x.kind # "program" /\ View(x) = PlainView(<<>>, {})
  <2>1. CASE k = "call"
    BY <1>1, <2>1, CallItem
  <2>2. CASE k # "call"
    <3>1. k \in {"not", "assign", "exprstmt", "if", "return"} /\ x = [kind |-> k]
      BY <1>1, <2>2
    <3> QED BY <3>1, BareItem
  <2> QED BY <2>1, <2>2
<1>3. Good(quads, Append(stack, x), loop_stack, savedLoops, bodies)
  BY <1>2, ItemBegun
<1> QED BY <1>1, <1>3 DEF BeginPrefix, SameLoops, Now

LEMMA KeptByBeginExprStmt ==
  ASSUME Now, BeginExprStmt
  PROVE  Now'
<1>1. Good(quads, Append(stack, [kind |-> "exprstmt"]), loop_stack, savedLoops, bodies)
  BY BareItem, ItemBegun
<1> QED BY <1>1 DEF BeginExprStmt, SameLoops, Now

LEMMA KeptByBeginIf ==
  ASSUME Now, BeginIf
  PROVE  Now'
<1>1. Good(quads, Append(stack, [kind |-> "if"]), loop_stack, savedLoops, bodies)
  BY BareItem, ItemBegun
<1> QED BY <1>1 DEF BeginIf, SameLoops, Now

LEMMA KeptByBeginReturn ==
  ASSUME Now, BeginReturn
  PROVE  Now'
<1>1. Good(quads, Append(stack, [kind |-> "return"]), loop_stack, savedLoops, bodies)
  BY BareItem, ItemBegun
<1> QED BY <1>1 DEF BeginReturn, SameLoops, Now

LEMMA KeptByBeginBlock ==
  ASSUME Now, BeginBlock
  PROVE  Now'
<1>1. PICK x : x = [kind |-> "block", stmts |-> <<>>]
  OBVIOUS
<1>2. x.kind = "block" /\ {"kind", "stmts"} \subseteq DOMAIN x /\ x = [f \in DOMAIN x |-> x[f]]
  BY <1>1
<1>3. View(x) = PlainView(<<>>, {})
  BY <1>2, ViewsAre
<1>4. ItemOK(x)
  BY <1>2, JumpOpsAre DEF ItemOK, Kinds, ExprRules, StmtRules, ListRules, StmtLists
<1>5. Good(quads, Append(stack, x), loop_stack, savedLoops, bodies)
  BY <1>2, <1>3, <1>4, ItemBegun
<1> QED BY <1>1, <1>5 DEF BeginBlock, SameLoops, Now

LEMMA KeptByEndBlock ==
  ASSUME Now, EndBlock
  PROVE  Now'
<1>1. PICK n, y, c, tree : /\ n = Len(stack) /\ y = stack[n] /\ c = SubSeq(stack, 1, n - 1)
                           /\ tree = [op |-> "block", stmts |-> Top.stmts]
  OBVIOUS
<1>2. Top = y /\ Rest(1) = c
  BY <1>1 DEF Top, Last, Rest
<1>3. y.kind = "block"
  BY <1>2 DEF EndBlock, Kind
<1>4. View(y) = PlainView(<<>>, {})
  BY <1>3, ViewsAre
<1>5. View(y).class = "plain" /\ y.kind # "program" /\ View(y).held = <<>>
  BY <1>3, <1>4 DEF PlainView
<1>6. \E R, h, here :
        /\ Ground(c, quads, Range(View(y).held), loop_stack, savedLoops, bodies, R, h, here)
        /\ Gives(y, {}, quads, h, here) /\ Lowered(stack, n, c)
  BY <1>1, <1>5, TakeTopmost DEF Now
<1>7. Good(quads, c, loop_stack, savedLoops, bodies)
  BY <1>5, <1>6, Emptied, GoodGround
<1>8. Good(quads, stack', loop_stack, savedLoops, bodies)
  BY <1>1, <1>2, <1>7, StmtEnded DEF EndBlock, EndStmt
<1> QED BY <1>8 DEF EndBlock, SameLoops, Now

LEMMA KeptByComparisonLeft ==
  ASSUME Now, NEW k \in Comparisons, ComparisonLeft(k)
  PROVE  Now'
<1>1. Kind("expr")
  BY DEF ComparisonLeft
<1>2. PICK R, h, here : Ground(Rest(1), quads, Range(ListsOf(Expr)), loop_stack, savedLoops, bodies, R, h, here)
  BY <1>1, ExprTaken
<1>3. IsExpr(Expr) /\ IsInjective(ListsOf(Expr))
  BY <1>1, ExprTaken
<1>4. PICK e, x : e = Expr /\ x = [kind |-> k, left |-> e]
  OBVIOUS
<1>5. x.kind = k /\ x.left = e
  BY <1>4
<1>6. View(x) = PlainView(ListsOf(e), {})
  BY <1>5, ViewsAre
<1>7. ItemOK(x) /\ x.kind # "program"
  BY <1>3, <1>4, <1>5, JumpOpsAre DEF ItemOK, Kinds, ExprRules, ListRules, StmtLists
<1>8. Fits(x, ListsOf(e), {}, quads, h, here)
  BY <1>3, <1>4, <1>7, ListsAre DEF Fits
<1>9. Good(quads, Append(Rest(1), x), loop_stack, savedLoops, bodies)
  BY <1>2, <1>4, <1>6, <1>8, PutItem
<1> QED BY <1>4, <1>9 DEF ComparisonLeft, SameLoops, Now

LEMMA KeptByAndOrLeft ==
  ASSUME Now, NEW k \in {"and", "or"}, AndOrLeft(k)
  PROVE  Now'
<1>1. Kind("expr")
  BY DEF AndOrLeft
<1>2. PICK b, e, G : b = Rest(1) /\ e = Expr /\ G = {}
  OBVIOUS
<1>3. PICK R, h, here : Ground(b, quads, Range(ListsOf(e)), loop_stack, savedLoops, bodies, R, h, here)
  BY <1>1, <1>2, ExprTaken
<1>4. IsExpr(e) /\ IsInjective(ListsOf(e)) /\ Range(ListsOf(e)) \cup G = Range(ListsOf(e)) /\ Range(ListsOf(e)) \cap G = {}
  BY <1>1, <1>2, ExprTaken
<1>5. PICK l : l = IfBoolExpr(quads, e)
  OBVIOUS
<1>6. Holds(b, l.code, l.e, G, loop_stack, savedLoops, bodies, R, h, here)
  BY <1>3, <1>4, <1>5, BoolIn
<1>7. /\ Ground(b, l.code, Range(ListsOf(l.e)), loop_stack, savedLoops, bodies, R, h, here)
      /\ IsBool(l.e) /\ IsInjective(ListsOf(l.e)) /\ IsExpr(l.e)
  <2>1. Range(ListsOf(l.e)) \cup G = Range(ListsOf(l.e))
    BY <1>2
  <2> QED BY <1>6, <2>1 DEF Holds, IsExpr
<1>8. PICK m, x : m = Len(l.code) /\ x = [kind |-> k, left |-> l.e, label |-> m]
  OBVIOUS
<1>9. x.kind = k /\ x.left = l.e /\ x.label = m
  BY <1>8
<1>10. View(x) = PlainView(ListsOf(l.e), {m})
  BY <1>9, ViewsAre
<1>11. ItemOK(x) /\ x.kind # "program"
  BY <1>7, <1>9, JumpOpsAre DEF ItemOK, Kinds, ExprRules, ListRules, StmtLists
<1>12. m \in Nat /\ m <= Len(l.code) /\ h[m] = here
  BY <1>7, <1>8, NextIsHere
<1>13. Fits(x, ListsOf(l.e), {m}, l.code, h, here)
  BY <1>7, <1>11, <1>12, ListsAre DEF Fits
<1>14. Good(l.code, Append(b, x), loop_stack, savedLoops, bodies)
  BY <1>7, <1>10, <1>13, PutItem
<1> QED BY <1>2, <1>5, <1>8, <1>14 DEF AndOrLeft, SameLoops, Now

LEMMA KeptByComparison ==
  ASSUME Now, NEW k \in Comparisons, Comparison(k)
  PROVE  Now'
<1>1. k \in PlainRules /\ Parsed(k)
  BY DEF Comparison, PlainRules
<1>2. PICK b, x, e : b = Rest(2) /\ x = Rule /\ e = Expr
  OBVIOUS
<1>3. PICK R, h, here : Operand(b, x, e, quads, loop_stack, savedLoops, bodies, R, h, here)
  BY <1>1, <1>2, OperandTaken
<1>4. x.kind = k
  BY <1>1, <1>2 DEF Parsed, Rule
<1>5. View(x).held = ListsOf(x.left) /\ IsExpr(x.left)
  <2>1. View(x) = PlainView(ListsOf(x.left), {})
    BY <1>4, ViewsAre
  <2>2. ItemOK(x)
    BY <1>3 DEF Operand, Gives
  <2>3. IsExpr(x.left)
    BY <1>4, <2>2 DEF ItemOK
  <2> QED BY <2>1, <2>3 DEF PlainView
<1>6. PICK f, E, F : f = x.left /\ E = Range(ListsOf(e)) /\ F = Range(ListsOf(f))
  OBVIOUS
<1>7. /\ Ground(b, quads, F \cup E, loop_stack, savedLoops, bodies, R, h, here)
      /\ IsInjective(ListsOf(f)) /\ F \cap E = {} /\ IsExpr(e) /\ IsInjective(ListsOf(e)) /\ IsExpr(f)
  <2>1. E \cup F = F \cup E /\ E \cap F = F \cap E
    OBVIOUS
  <2> QED BY <1>3, <1>5, <1>6, <2>1 DEF Operand, Gives
<1>8. PICK l : l = ConvertToValue(quads, f)
  OBVIOUS
<1>9. Ground(b, l.code, E, loop_stack, savedLoops, bodies, R, h, here) /\ l.e.place \in Places
  BY <1>6, <1>7, <1>8, ValueIn
<1>10. PICK r, G : r = ConvertToValue(l.code, e) /\ G = {}
  OBVIOUS
<1>11. Range(ListsOf(e)) \cup G = E /\ Range(ListsOf(e)) \cap G = {}
  BY <1>6, <1>10
<1>12. Ground(b, r.code, G, loop_stack, savedLoops, bodies, R, h, here) /\ r.e.place \in Places
  <2>1. Ground(b, l.code, Range(ListsOf(e)) \cup G, loop_stack, savedLoops, bodies, R, h, here)
    BY <1>9, <1>11
  <2>2. PICK middle : middle = l.code
    OBVIOUS
  <2>3. Ground(b, middle, Range(ListsOf(e)) \cup G, loop_stack, savedLoops, bodies, R, h, here)
    BY <2>1, <2>2
  <2>4. IsExpr(e) /\ IsInjective(ListsOf(e)) /\ Range(ListsOf(e)) \cap G = {}
    BY <1>7, <1>11
  <2>5. r = ConvertToValue(middle, e)
    BY <1>10, <2>2
  <2> QED BY <2>3, <2>4, <2>5, ValueIn
<1>13. PICK op, q : op = IfOps[k] /\ q = Quad(op, l.e.place, r.e.place, NoArg, 0)
  OBVIOUS
<1>14. q \in QuadSet /\ q.op \in JumpOps /\ q.label = 0 /\ q.patches = 0
  <2>1. op \in JumpOps
    BY <1>13, JumpOpsAre
  <2>2. op \in JumpOps \cup {"assign", "param", "call", "getretval", "funcstart", "funcend", "ret"} /\ NoArg \in Places
    BY <2>1, PlacesAre
  <2> QED BY <1>9, <1>12, <1>13, <2>1, <2>2, QuadIs
<1>15. PICK n, tree, c : /\ n = Len(r.code) /\ tree = [op |-> k, left |-> l.e.tree, right |-> r.e.tree]
                         /\ c = BoolExpr(<<n>>, <<n + 1>>, tree)
  OBVIOUS
<1>16. PICK code : code = r.code \o <<q, OpenJump>>
  OBVIOUS
<1>17. /\ Ground(b, code, Range(ListsOf(c)), loop_stack, savedLoops, bodies, R, h, here)
       /\ IsExpr(c) /\ IsInjective(ListsOf(c))
  <2>1. Ground(b, r.code, {}, loop_stack, savedLoops, bodies, R, h, here)
    BY <1>10, <1>12
  <2>2. n = Len(r.code) /\ c = BoolExpr(<<n>>, <<n + 1>>, tree)
    BY <1>15
  <2> QED BY <1>14, <1>16, <2>1, <2>2, BranchIn
<1>18. PICK s : s = Append(b, [kind |-> "expr", e |-> c])
  OBVIOUS
<1>19. Good(code, s, loop_stack, savedLoops, bodies)
  BY <1>17, <1>18, PutExpr
<1>20. quads' = code /\ stack' = s
  BY <1>2, <1>6, <1>8, <1>10, <1>13, <1>15, <1>16, <1>18 DEF Comparison, PushExpr
<1> QED BY <1>19, <1>20 DEF Comparison, SameLoops, Now

LEMMA KeptByNot ==
  ASSUME Now, Not
  PROVE  Now'
<1>1. "not" \in PlainRules /\ Parsed("not")
  BY DEF Not, PlainRules
<1>2. PICK b, x, e, G : b = Rest(2) /\ x = Rule /\ e = Expr /\ G = {}
  OBVIOUS
<1>3. PICK R, h, here : Operand(b, x, e, quads, loop_stack, savedLoops, bodies, R, h, here)
  BY <1>1, <1>2, OperandTaken
<1>4. x.kind = "not"
  BY <1>1, <1>2 DEF Parsed, Rule
<1>5. Range(View(x).held) = {}
  <2>1. View(x) = PlainView(<<>>, {})
    BY <1>4, ViewsAre
  <2> QED BY <2>1, Emptied DEF PlainView
<1>6. /\ Ground(b, quads, Range(ListsOf(e)) \cup G, loop_stack, savedLoops, bodies, R, h, here)
      /\ IsExpr(e) /\ IsInjective(ListsOf(e)) /\ Range(ListsOf(e)) \cap G = {}
  BY <1>2, <1>3, <1>5 DEF Operand
<1>7. PICK r, tree, c : /\ r = IfBoolExpr(quads, e) /\ tree = [op |-> "not", left |-> r.e.tree]
                        /\ c = BoolExpr(r.e.falselist, r.e.truelist, tree)
  OBVIOUS
<1>8. Holds(b, r.code, r.e, G, loop_stack, savedLoops, bodies, R, h, here)
  BY <1>6, <1>7, BoolIn
<1>9. PICK t, f : t = r.e.truelist /\ f = r.e.falselist
  OBVIOUS
<1>10. /\ t \in Seq(Nat) /\ f \in Seq(Nat) /\ ListsOf(r.e) = t \o f
       /\ IsExpr(c) /\ ListsOf(c) = f \o t
  BY <1>7, <1>8, <1>9 DEF Holds, IsBool, IsExpr, ListsOf, BoolExpr
<1>11. /\ Range(t \o f) = Range(t) \cup Range(f) /\ Range(f \o t) = Range(f) \cup Range(t)
       /\ IsInjective(t \o f) <=> IsInjective(t) /\ IsInjective(f) /\ Range(t) \cap Range(f) = {}
       /\ IsInjective(f \o t) <=> IsInjective(f) /\ IsInjective(t) /\ Range(f) \cap Range(t) = {}
  BY <1>10, Joined
<1>12. Range(ListsOf(c)) = Range(ListsOf(r.e)) \cup G /\ IsInjective(ListsOf(c))
  <2>1. IsInjective(ListsOf(r.e))
    BY <1>8 DEF Holds
  <2> QED BY <1>2, <1>10, <1>11, <2>1
<1>13. Ground(b, r.code, Range(ListsOf(c)), loop_stack, savedLoops, bodies, R, h, here)
  BY <1>8, <1>12 DEF Holds
<1>14. PICK s : s = Append(b, [kind |-> "expr", e |-> c])
  OBVIOUS
<1>15. Good(r.code, s, loop_stack, savedLoops, bodies)
  BY <1>10, <1>12, <1>13, <1>14, PutExpr
<1>16. quads' = r.code /\ stack' = s
  BY <1>2, <1>7, <1>14 DEF Not, PushExpr
<1> QED BY <1>15, <1>16 DEF Not, SameLoops, Now

LEMMA KeptByAssign ==
  ASSUME Now, Assign
  PROVE  Now'
<1>1. "assign" \in PlainRules /\ Parsed("assign")
  BY DEF Assign, PlainRules
<1>2. PICK b, x, e, G : b = Rest(2) /\ x = Rule /\ e = Expr /\ G = {}
  OBVIOUS
<1>3. PICK R, h, here : Operand(b, x, e, quads, loop_stack, savedLoops, bodies, R, h, here)
  BY <1>1, <1>2, OperandTaken
<1>4. x.kind = "assign"
  BY <1>1, <1>2 DEF Parsed, Rule
<1>5. Range(View(x).held) = {}
  <2>1. View(x) = PlainView(<<>>, {})
    BY <1>4, ViewsAre
  <2> QED BY <2>1, Emptied DEF PlainView
<1>6. /\ Ground(b, quads, Range(ListsOf(e)) \cup G, loop_stack, savedLoops, bodies, R, h, here)
      /\ IsExpr(e) /\ IsInjective(ListsOf(e)) /\ Range(ListsOf(e)) \cap G = {}
  BY <1>2, <1>3, <1>5 DEF Operand
<1>7. PICK r : r = ConvertToValue(quads, e)
  OBVIOUS
<1>8. Ground(b, r.code, G, loop_stack, savedLoops, bodies, R, h, here) /\ r.e.place \in Places
  BY <1>6, <1>7, ValueIn
<1>9. PICK n : n = Len(r.code) + 1
  OBVIOUS
<1>10. n \in Nat
  BY <1>8, <1>9, NextIsHere
<1>11. PICK p, q : p = Quad("assign", r.e.place, NoArg, Var, 0) /\ q = Quad("assign", Var, NoArg, Temp(n), 0)
  OBVIOUS
<1>12. p \in QuadSet /\ q \in QuadSet /\ p.op \notin JumpOps /\ q.op \notin JumpOps
  <2>1. /\ "assign" \in JumpOps \cup {"assign", "param", "call", "getretval", "funcstart", "funcend", "ret"}
        /\ "assign" \notin JumpOps
    BY JumpOpsAre
  <2>2. NoArg \in Places /\ Var \in Places /\ Temp(n) \in Places
    BY <1>10, PlacesAre
  <2>3. p \in QuadSet /\ p.op = "assign"
    BY <1>8, <1>11, <2>1, <2>2, QuadIs
  <2>4. q \in QuadSet /\ q.op = "assign"
    BY <1>11, <2>1, <2>2, QuadIs
  <2> QED BY <2>1, <2>3, <2>4
<1>13. PICK c, d : c = Append(r.code, p) /\ d = Append(c, q)
  OBVIOUS
<1>14. Ground(b, c, G, loop_stack, savedLoops, bodies, R, h, here)
  BY <1>8, <1>12, <1>13, EmittedIn
<1>15. Ground(b, d, G, loop_stack, savedLoops, bodies, R, h, here)
  BY <1>12, <1>13, <1>14, EmittedIn
<1>16. r.code \o <<p, q>> = d
  <2>1. r.code \in Seq(QuadSet)
    BY <1>8 DEF Ground, Working, Code
  <2> QED BY <1>12, <1>13, <2>1, TwoMore
<1>17. PICK v : v = Value(Temp(n), [op |-> "assign", left |-> r.e.tree])
  OBVIOUS
<1>18. IsExpr(v) /\ ListsOf(v) = <<>>
  <2>1. v.type = "var_e" /\ v.place = Temp(n)
    BY <1>17 DEF Value
  <2> QED BY <1>10, <2>1, PlacesAre DEF IsExpr, ListsOf
<1>19. PICK s : s = Append(b, [kind |-> "expr", e |-> v])
  OBVIOUS
<1>20. Good(d, s, loop_stack, savedLoops, bodies)
  BY <1>2, <1>15, <1>18, <1>19, Emptied, PutExpr
<1>21. quads' = d /\ stack' = s
  BY <1>2, <1>7, <1>9, <1>11, <1>16, <1>17, <1>19 DEF Assign, PushExpr
<1> QED BY <1>20, <1>21 DEF Assign, SameLoops, Now

LEMMA KnownLabels ==
  ASSUME NEW x, NEW H, NEW code, NEW h, NEW here, Gives(x, H, code, h, here)
  PROVE  \A l \in View(x).labels : l \in Nat /\ l <= Len(code) /\ h[l] = here
BY DEF Gives, Knows, ViewSet

\* The right operand of AND or OR: the jumps in p lead to it, those in k stay open.
LEMMA Continued ==
  ASSUME NEW b, NEW x, NEW e, NEW code, NEW loops, NEW saved, NEW done, NEW R, NEW h, NEW here,
         Operand(b, x, e, code, loops, saved, done, R, h, here), x.kind \in {"and", "or"},
         NEW p \in Seq(Nat), NEW k \in Seq(Nat), Range(p) \cap Range(k) = {},
         Range(p) \cup Range(k) = Range(ListsOf(x.left)),
         NEW r, r = IfBoolExpr(PatchList(code, p, x.label), e)
  PROVE  Holds(b, r.code, r.e, Range(k), loops, saved, done, R, h, here)
<1>1. View(x) = PlainView(ListsOf(x.left), {x.label})
  BY ViewsAre
<1>2. View(x).held = ListsOf(x.left) /\ View(x).labels = {x.label}
  BY <1>1 DEF PlainView
<1>3. PICK E, H, label : E = Range(ListsOf(e)) /\ H = E \cup Range(ListsOf(x.left)) /\ label = x.label
  OBVIOUS
<1>4. Ground(b, code, H, loops, saved, done, R, h, here) /\ Gives(x, E, code, h, here) /\ IsExpr(e) /\ IsInjective(ListsOf(e))
  BY <1>2, <1>3 DEF Operand
<1>5. label \in Nat /\ label <= Len(code) /\ h[label] = here
  BY <1>2, <1>3, <1>4, KnownLabels
<1>6. E \cap Range(ListsOf(x.left)) = {} /\ Range(p) \subseteq H /\ H \ Range(p) = E \cup Range(k) /\ E \cap Range(k) = {}
  <2>1. E \cap Range(ListsOf(x.left)) = {}
    BY <1>2, <1>4 DEF Gives
  <2> QED BY <1>3, <2>1
<1>7. PICK c : c = PatchList(code, p, label)
  OBVIOUS
<1>8. Ground(b, c, H \ Range(p), loops, saved, done, R, h, here)
  BY <1>4, <1>5, <1>6, <1>7, PatchedIn
<1>9. PICK G : G = Range(k)
  OBVIOUS
<1>10. Ground(b, c, Range(ListsOf(e)) \cup G, loops, saved, done, R, h, here)
  BY <1>3, <1>6, <1>8, <1>9
<1>11. IsExpr(e) /\ IsInjective(ListsOf(e)) /\ Range(ListsOf(e)) \cap G = {}
  BY <1>3, <1>4, <1>6, <1>9
<1>12. r = IfBoolExpr(c, e)
  BY <1>3, <1>7
<1>13. Holds(b, r.code, r.e, G, loops, saved, done, R, h, here)
  BY <1>10, <1>11, <1>12, BoolIn
<1> QED BY <1>9, <1>13

\* Three lists.
LEMMA Rejoined ==
  ASSUME NEW k \in Seq(Nat), NEW t \in Seq(Nat), NEW f \in Seq(Nat),
         IsInjective(k), IsInjective(t \o f), Range(t \o f) \cap Range(k) = {}
  PROVE  /\ IsInjective(t \o (k \o f)) /\ Range(t \o (k \o f)) = Range(t \o f) \cup Range(k)
         /\ IsInjective((k \o t) \o f) /\ Range((k \o t) \o f) = Range(t \o f) \cup Range(k)
         /\ k \o f \in Seq(Nat) /\ k \o t \in Seq(Nat)
<1>1. PICK m, n : m = k \o f /\ n = k \o t
  OBVIOUS
<1>2. /\ Range(t \o f) = Range(t) \cup Range(f)
      /\ IsInjective(t \o f) <=> IsInjective(t) /\ IsInjective(f) /\ Range(t) \cap Range(f) = {}
  BY Joined
<1>3. /\ m \in Seq(Nat) /\ Range(m) = Range(k) \cup Range(f)
      /\ IsInjective(m) <=> IsInjective(k) /\ IsInjective(f) /\ Range(k) \cap Range(f) = {}
  BY <1>1, Joined
<1>4. /\ n \in Seq(Nat) /\ Range(n) = Range(k) \cup Range(t)
      /\ IsInjective(n) <=> IsInjective(k) /\ IsInjective(t) /\ Range(k) \cap Range(t) = {}
  BY <1>1, Joined
<1>5. /\ Range(t \o m) = Range(t) \cup Range(m)
      /\ IsInjective(t \o m) <=> IsInjective(t) /\ IsInjective(m) /\ Range(t) \cap Range(m) = {}
  BY <1>3, Joined
<1>6. /\ Range(n \o f) = Range(n) \cup Range(f)
      /\ IsInjective(n \o f) <=> IsInjective(n) /\ IsInjective(f) /\ Range(n) \cap Range(f) = {}
  BY <1>4, Joined
<1>7. IsInjective(t \o m) /\ Range(t \o m) = Range(t \o f) \cup Range(k)
  BY <1>2, <1>3, <1>5
<1>8. IsInjective(n \o f) /\ Range(n \o f) = Range(t \o f) \cup Range(k)
  BY <1>2, <1>4, <1>6
<1> QED BY <1>1, <1>3, <1>4, <1>7, <1>8

TwoLists(e) ==
  /\ e.truelist \in Seq(Nat) /\ e.falselist \in Seq(Nat) /\ Range(e.truelist) \cap Range(e.falselist) = {}
  /\ Range(e.truelist) \cup Range(e.falselist) = Range(ListsOf(e))
  /\ IsInjective(e.truelist) /\ IsInjective(e.falselist)

LEMMA LeftOperand ==
  ASSUME NEW b, NEW x, NEW e, NEW code, NEW loops, NEW saved, NEW done, NEW R, NEW h, NEW here,
         Operand(b, x, e, code, loops, saved, done, R, h, here), x.kind \in {"and", "or"}
  PROVE  TwoLists(x.left)
<1>0. PICK t, f : t = x.left.truelist /\ f = x.left.falselist
  OBVIOUS
<1>1. View(x) = PlainView(ListsOf(x.left), {x.label})
  BY ViewsAre
<1>2. IsInjective(ListsOf(x.left)) /\ IsBool(x.left)
  <2>1. IsInjective(View(x).held) /\ ItemOK(x)
    BY DEF Operand, Gives
  <2>2. IsBool(x.left)
    BY <2>1 DEF ItemOK
  <2> QED BY <1>1, <2>1, <2>2 DEF PlainView
<1>3. t \in Seq(Nat) /\ f \in Seq(Nat) /\ ListsOf(x.left) = t \o f
  BY <1>0, <1>2 DEF IsBool, ListsOf
<1>4. /\ Range(t \o f) = Range(t) \cup Range(f)
      /\ IsInjective(t \o f) <=> IsInjective(t) /\ IsInjective(f) /\ Range(t) \cap Range(f) = {}
  BY <1>3, Joined
<1> QED BY <1>0, <1>2, <1>3, <1>4 DEF TwoLists

\* The expression c has the jumps of r.e and, beside them, those in k.
LEMMA AndOrPut ==
  ASSUME NEW b, NEW r, NEW k \in Seq(Nat), IsInjective(k),
         NEW loops, NEW saved, NEW done, NEW R, NEW h, NEW here,
         Holds(b, r.code, r.e, Range(k), loops, saved, done, R, h, here),
         NEW c, c.type = "boolexpr_e",
         \/ c.truelist = r.e.truelist /\ c.falselist = k \o r.e.falselist
         \/ c.truelist = k \o r.e.truelist /\ c.falselist = r.e.falselist,
         NEW s, s = Append(b, [kind |-> "expr", e |-> c])
  PROVE  Good(r.code, s, loops, saved, done)
<1>1. PICK t, f : t = r.e.truelist /\ f = r.e.falselist
  OBVIOUS
<1>2. t \in Seq(Nat) /\ f \in Seq(Nat) /\ ListsOf(r.e) = t \o f
  BY <1>1 DEF Holds, IsBool, ListsOf
<1>3. IsInjective(t \o f) /\ Range(t \o f) \cap Range(k) = {}
  BY <1>2 DEF Holds
<1>4. /\ IsInjective(t \o (k \o f)) /\ Range(t \o (k \o f)) = Range(t \o f) \cup Range(k)
      /\ IsInjective((k \o t) \o f) /\ Range((k \o t) \o f) = Range(t \o f) \cup Range(k)
      /\ k \o f \in Seq(Nat) /\ k \o t \in Seq(Nat)
  BY <1>2, <1>3, Rejoined
<1>5. IsExpr(c) /\ IsInjective(ListsOf(c)) /\ Range(ListsOf(c)) = Range(ListsOf(r.e)) \cup Range(k)
  <2>1. CASE c.truelist = r.e.truelist /\ c.falselist = k \o r.e.falselist
    <3>1. ListsOf(c) = t \o (k \o f)
      BY <1>1, <2>1 DEF ListsOf
    <3>2. IsExpr(c)
      BY <1>1, <1>2, <1>4, <2>1 DEF IsExpr, IsBool
    <3> QED BY <1>2, <1>4, <3>1, <3>2
  <2>2. CASE c.truelist = k \o r.e.truelist /\ c.falselist = r.e.falselist
    <3>1. ListsOf(c) = (k \o t) \o f
      BY <1>1, <2>2 DEF ListsOf
    <3>2. IsExpr(c)
      BY <1>1, <1>2, <1>4, <2>2 DEF IsExpr, IsBool
    <3> QED BY <1>2, <1>4, <3>1, <3>2
  <2> QED BY <2>1, <2>2
<1>6. PICK code : code = r.code
  OBVIOUS
<1>7. Ground(b, code, Range(ListsOf(c)), loops, saved, done, R, h, here)
  BY <1>5, <1>6 DEF Holds
<1> QED BY <1>5, <1>6, <1>7, PutExpr

LEMMA KeptByAnd ==
  ASSUME Now, And
  PROVE  Now'
<1>1. "and" \in PlainRules /\ Parsed("and")
  BY DEF And, PlainRules
<1>2. PICK b, x, e : b = Rest(2) /\ x = Rule /\ e = Expr
  OBVIOUS
<1>3. PICK R, h, here : Operand(b, x, e, quads, loop_stack, savedLoops, bodies, R, h, here)
  BY <1>1, <1>2, OperandTaken
<1>4. x.kind = "and"
  BY <1>1, <1>2 DEF Parsed, Rule
<1>5. PICK p, k : p = x.left.truelist /\ k = x.left.falselist
  OBVIOUS
<1>6. /\ p \in Seq(Nat) /\ k \in Seq(Nat) /\ Range(p) \cap Range(k) = {}
      /\ Range(p) \cup Range(k) = Range(ListsOf(x.left)) /\ IsInjective(k)
  <2>1. x.kind \in {"and", "or"}
    BY <1>4
  <2>2. TwoLists(x.left)
    BY <1>3, <2>1, LeftOperand
  <2> QED BY <1>5, <2>2 DEF TwoLists
<1>7. PICK r : r = IfBoolExpr(PatchList(quads, p, x.label), e)
  OBVIOUS
<1>8. Holds(b, r.code, r.e, Range(k), loop_stack, savedLoops, bodies, R, h, here)
  BY <1>3, <1>4, <1>6, <1>7, Continued
<1>9. PICK c : c = BoolExpr(r.e.truelist, MergeLists(k, r.e.falselist),
                            [op |-> "and", left |-> x.left.tree, right |-> r.e.tree])
  OBVIOUS
<1>10. c.type = "boolexpr_e" /\ c.truelist = r.e.truelist /\ c.falselist = k \o r.e.falselist
  BY <1>9 DEF BoolExpr, MergeLists
<1>11. PICK s : s = Append(b, [kind |-> "expr", e |-> c])
  OBVIOUS
<1>12. Good(r.code, s, loop_stack, savedLoops, bodies)
  BY <1>6, <1>8, <1>10, <1>11, AndOrPut
<1>13. quads' = r.code /\ stack' = s
  BY <1>2, <1>5, <1>7, <1>9, <1>11 DEF And, PushExpr
<1> QED BY <1>12, <1>13 DEF And, SameLoops, Now

LEMMA KeptByOr ==
  ASSUME Now, Or
  PROVE  Now'
<1>1. "or" \in PlainRules /\ Parsed("or")
  BY DEF Or, PlainRules
<1>2. PICK b, x, e : b = Rest(2) /\ x = Rule /\ e = Expr
  OBVIOUS
<1>3. PICK R, h, here : Operand(b, x, e, quads, loop_stack, savedLoops, bodies, R, h, here)
  BY <1>1, <1>2, OperandTaken
<1>4. x.kind = "or"
  BY <1>1, <1>2 DEF Parsed, Rule
<1>5. PICK p, k : p = x.left.falselist /\ k = x.left.truelist
  OBVIOUS
<1>6. /\ p \in Seq(Nat) /\ k \in Seq(Nat) /\ Range(p) \cap Range(k) = {}
      /\ Range(p) \cup Range(k) = Range(ListsOf(x.left)) /\ IsInjective(k)
  <2>1. x.kind \in {"and", "or"}
    BY <1>4
  <2>2. TwoLists(x.left)
    BY <1>3, <2>1, LeftOperand
  <2> QED BY <1>5, <2>2 DEF TwoLists
<1>7. PICK r : r = IfBoolExpr(PatchList(quads, p, x.label), e)
  OBVIOUS
<1>8. Holds(b, r.code, r.e, Range(k), loop_stack, savedLoops, bodies, R, h, here)
  BY <1>3, <1>4, <1>6, <1>7, Continued
<1>9. PICK c : c = BoolExpr(MergeLists(k, r.e.truelist), r.e.falselist,
                            [op |-> "or", left |-> x.left.tree, right |-> r.e.tree])
  OBVIOUS
<1>10. c.type = "boolexpr_e" /\ c.truelist = k \o r.e.truelist /\ c.falselist = r.e.falselist
  BY <1>9 DEF BoolExpr, MergeLists
<1>11. PICK s : s = Append(b, [kind |-> "expr", e |-> c])
  OBVIOUS
<1>12. Good(r.code, s, loop_stack, savedLoops, bodies)
  BY <1>6, <1>8, <1>10, <1>11, AndOrPut
<1>13. quads' = r.code /\ stack' = s
  BY <1>2, <1>5, <1>7, <1>9, <1>11 DEF Or, PushExpr
<1> QED BY <1>12, <1>13 DEF Or, SameLoops, Now

LEMMA BoolLists ==
  ASSUME NEW e, IsBool(e), IsInjective(ListsOf(e))
  PROVE  TwoLists(e)
<1>1. PICK t, f : t = e.truelist /\ f = e.falselist
  OBVIOUS
<1>2. t \in Seq(Nat) /\ f \in Seq(Nat) /\ ListsOf(e) = t \o f
  BY <1>1 DEF IsBool, ListsOf
<1>3. /\ Range(t \o f) = Range(t) \cup Range(f)
      /\ IsInjective(t \o f) <=> IsInjective(t) /\ IsInjective(f) /\ Range(t) \cap Range(f) = {}
  BY <1>2, Joined
<1> QED BY <1>1, <1>2, <1>3 DEF TwoLists

\* Both lists of a condition are filled in.
LEMMA ConditionPatched ==
  ASSUME NEW b, NEW code, NEW loops, NEW saved, NEW done, NEW R, NEW h, NEW here, NEW e, NEW G,
         Ground(b, code, Range(ListsOf(e)) \cup G, loops, saved, done, R, h, here),
         TwoLists(e), Range(ListsOf(e)) \cap G = {},
         NEW l \in Nat, l <= Len(code), h[l] = here, NEW m \in Nat, m <= Len(code), h[m] = here,
         NEW c, c = PatchList(PatchList(code, e.truelist, l), e.falselist, m)
  PROVE  Ground(b, c, G, loops, saved, done, R, h, here) /\ Len(c) = Len(code) /\ Len(code) \in Nat
<1>1. PICK t, f, H : t = e.truelist /\ f = e.falselist /\ H = Range(ListsOf(e)) \cup G
  OBVIOUS
<1>2. Range(t) \cap Range(f) = {} /\ Range(t) \cup Range(f) = Range(ListsOf(e))
  BY <1>1 DEF TwoLists
<1>3. Range(t) \subseteq H /\ Range(f) \subseteq H \ Range(t) /\ (H \ Range(t)) \ Range(f) = G
  BY <1>1, <1>2
<1>4. PICK d, F : d = PatchList(code, t, l) /\ F = H \ Range(t)
  OBVIOUS
<1>5. Ground(b, d, F, loops, saved, done, R, h, here) /\ Len(d) = Len(code) /\ Len(code) \in Nat
  <2>1. Ground(b, code, H, loops, saved, done, R, h, here)
    BY <1>1
  <2> QED BY <1>3, <1>4, <2>1, PatchedIn
<1>6. c = PatchList(d, f, m) /\ m <= Len(d) /\ Range(f) \subseteq F
  BY <1>1, <1>3, <1>4, <1>5
<1>7. Ground(b, c, F \ Range(f), loops, saved, done, R, h, here) /\ Len(c) = Len(d)
  BY <1>5, <1>6, PatchedIn
<1> QED BY <1>3, <1>4, <1>5, <1>7

\* A statement is finished over b.
LEMMA StmtPut ==
  ASSUME NEW b, NEW code, NEW loops, NEW saved, NEW done, NEW R, NEW h, NEW here,
         Ground(b, code, {}, loops, saved, done, R, h, here), NEW tree,
         NEW s, s = IF Last(b).kind \in StmtLists
                    THEN Front(b) \o <<[Last(b) EXCEPT !.stmts = Append(@, tree)]>>
                    ELSE Append(b, [kind |-> "stmt", tree |-> tree])
  PROVE  Good(code, s, loops, saved, done)
<1>1. Good(code, b, loops, saved, done)
  BY GoodGround
<1> QED BY <1>1, StmtEnded

LEMMA OnlyOperand ==
  ASSUME NEW b, NEW x, NEW e, NEW code, NEW loops, NEW saved, NEW done, NEW R, NEW h, NEW here,
         Operand(b, x, e, code, loops, saved, done, R, h, here),
         x.kind \in {"exprstmt", "if", "return"}, NEW G, G = {}
  PROVE  /\ Ground(b, code, Range(ListsOf(e)) \cup G, loops, saved, done, R, h, here)
         /\ IsExpr(e) /\ IsInjective(ListsOf(e)) /\ Range(ListsOf(e)) \cap G = {}
<1>1. View(x) = PlainView(<<>>, {})
  BY ViewsAre
<1>2. Range(View(x).held) = {}
  BY <1>1, Emptied DEF PlainView
<1> QED BY <1>2 DEF Operand

LEMMA KeptByExprStmt ==
  ASSUME Now, ExprStmt
  PROVE  Now'
<1>1. "exprstmt" \in PlainRules /\ Parsed("exprstmt")
  BY DEF ExprStmt, PlainRules
<1>2. PICK b, x, e, G : b = Rest(2) /\ x = Rule /\ e = Expr /\ G = {}
  OBVIOUS
<1>3. PICK R, h, here : Operand(b, x, e, quads, loop_stack, savedLoops, bodies, R, h, here)
  BY <1>1, <1>2, OperandTaken
<1>4. x.kind \in {"exprstmt", "if", "return"}
  BY <1>1, <1>2 DEF Parsed, Rule
<1>5. /\ Ground(b, quads, Range(ListsOf(e)) \cup G, loop_stack, savedLoops, bodies, R, h, here)
      /\ IsExpr(e) /\ IsInjective(ListsOf(e)) /\ Range(ListsOf(e)) \cap G = {}
  BY <1>2, <1>3, <1>4, OnlyOperand
<1>6. PICK r, c : r = ConvertToValue(quads, e) /\ c = r.code
  OBVIOUS
<1>7. Ground(b, c, {}, loop_stack, savedLoops, bodies, R, h, here)
  <2>1. Ground(b, r.code, G, loop_stack, savedLoops, bodies, R, h, here)
    BY <1>5, <1>6, ValueIn
  <2> QED BY <1>2, <1>6, <2>1
<1>8. PICK tree : tree = [op |-> "expr", cond |-> Expr.tree]
  OBVIOUS
<1>9. Good(c, stack', loop_stack, savedLoops, bodies)
  BY <1>2, <1>7, <1>8, StmtPut DEF ExprStmt, EndStmt
<1>10. quads' = c
  BY <1>2, <1>6 DEF ExprStmt
<1> QED BY <1>9, <1>10 DEF ExprStmt, SameLoops, Now

LEMMA KeptByReturnValue ==
  ASSUME Now, ReturnValue
  PROVE  Now'
<1>1. "return" \in PlainRules /\ Parsed("return")
  BY DEF ReturnValue, PlainRules
<1>2. PICK b, x, e, G : b = Rest(2) /\ x = Rule /\ e = Expr /\ G = {}
  OBVIOUS
<1>3. PICK R, h, here : Operand(b, x, e, quads, loop_stack, savedLoops, bodies, R, h, here)
  BY <1>1, <1>2, OperandTaken
<1>4. x.kind \in {"exprstmt", "if", "return"}
  BY <1>1, <1>2 DEF Parsed, Rule
<1>5. /\ Ground(b, quads, Range(ListsOf(e)) \cup G, loop_stack, savedLoops, bodies, R, h, here)
      /\ IsExpr(e) /\ IsInjective(ListsOf(e)) /\ Range(ListsOf(e)) \cap G = {}
  BY <1>2, <1>3, <1>4, OnlyOperand
<1>6. PICK r : r = ConvertToValue(quads, e)
  OBVIOUS
<1>7. Ground(b, r.code, G, loop_stack, savedLoops, bodies, R, h, here) /\ r.e.place \in Places
  BY <1>5, <1>6, ValueIn
<1>8. PICK q : q = Quad("ret", NoArg, NoArg, r.e.place, 0)
  OBVIOUS
<1>9. q \in QuadSet /\ q.op \notin JumpOps
  <2>1. /\ "ret" \in JumpOps \cup {"assign", "param", "call", "getretval", "funcstart", "funcend", "ret"}
        /\ "ret" \notin JumpOps /\ NoArg \in Places
    BY JumpOpsAre, PlacesAre
  <2>2. q \in QuadSet /\ q.op = "ret"
    BY <1>7, <1>8, <2>1, QuadIs
  <2> QED BY <2>1, <2>2
<1>10. PICK c : c = Append(r.code, q)
  OBVIOUS
<1>11. Ground(b, c, {}, loop_stack, savedLoops, bodies, R, h, here)
  <2>1. Ground(b, c, G, loop_stack, savedLoops, bodies, R, h, here)
    BY <1>7, <1>9, <1>10, EmittedIn
  <2> QED BY <1>2, <2>1
<1>12. PICK tree : tree = [op |-> "return", value |-> <<Expr.tree>>]
  OBVIOUS
<1>13. Good(c, stack', loop_stack, savedLoops, bodies)
  BY <1>2, <1>11, <1>12, StmtPut DEF ReturnValue, EndStmt
<1>14. quads' = c
  BY <1>2, <1>6, <1>8, <1>10 DEF ReturnValue
<1> QED BY <1>13, <1>14 DEF ReturnValue, SameLoops, Now

LEMMA KeptByReturn ==
  ASSUME Now, Return
  PROVE  Now'
<1>1. PICK n, y, b, tree : /\ n = Len(stack) /\ y = stack[n] /\ b = SubSeq(stack, 1, n - 1)
                           /\ tree = [op |-> "return", value |-> <<>>]
  OBVIOUS
<1>2. Top = y /\ Rest(1) = b
  BY <1>1 DEF Top, Last, Rest
<1>3. y.kind = "return"
  BY <1>2 DEF Return, Kind
<1>4. View(y) = PlainView(<<>>, {})
  BY <1>3, ViewsAre
<1>5. View(y).class = "plain" /\ y.kind # "program" /\ Range(View(y).held) = {}
  BY <1>3, <1>4, Emptied DEF PlainView
<1>6. \E R, h, here :
        /\ Ground(b, quads, Range(View(y).held), loop_stack, savedLoops, bodies, R, h, here)
        /\ Gives(y, {}, quads, h, here) /\ Lowered(stack, n, b)
  BY <1>1, <1>5, TakeTopmost DEF Now
<1>7. PICK R, h, here : Ground(b, quads, {}, loop_stack, savedLoops, bodies, R, h, here)
  BY <1>5, <1>6
<1>8. PICK q, G : q = Quad("ret", NoArg, NoArg, NoArg, 0) /\ G = {}
  OBVIOUS
<1>9. q \in QuadSet /\ q.op \notin JumpOps
  <2>1. /\ "ret" \in JumpOps \cup {"assign", "param", "call", "getretval", "funcstart", "funcend", "ret"}
        /\ "ret" \notin JumpOps /\ NoArg \in Places
    BY JumpOpsAre, PlacesAre
  <2>2. q \in QuadSet /\ q.op = "ret"
    BY <1>8, <2>1, QuadIs
  <2> QED BY <2>1, <2>2
<1>10. PICK c : c = Append(quads, q)
  OBVIOUS
<1>11. Ground(b, c, {}, loop_stack, savedLoops, bodies, R, h, here)
  <2>1. Ground(b, quads, G, loop_stack, savedLoops, bodies, R, h, here)
    BY <1>7, <1>8
  <2>2. Ground(b, c, G, loop_stack, savedLoops, bodies, R, h, here)
    BY <1>9, <1>10, <2>1, EmittedIn
  <2> QED BY <1>8, <2>2
<1>12. Good(c, stack', loop_stack, savedLoops, bodies)
  BY <1>1, <1>2, <1>11, StmtPut DEF Return, EndStmt
<1>13. quads' = c
  BY <1>8, <1>10 DEF Return
<1> QED BY <1>12, <1>13 DEF Return, SameLoops, Now

LEMMA KeptByIfPrefix ==
  ASSUME Now, IfPrefix
  PROVE  Now'
<1>1. "if" \in PlainRules /\ Parsed("if")
  BY DEF IfPrefix, PlainRules
<1>2. PICK b, x, e, G : b = Rest(2) /\ x = Rule /\ e = Expr /\ G = {}
  OBVIOUS
<1>3. PICK R, h, here : Operand(b, x, e, quads, loop_stack, savedLoops, bodies, R, h, here)
  BY <1>1, <1>2, OperandTaken
<1>4. x.kind \in {"exprstmt", "if", "return"}
  BY <1>1, <1>2 DEF Parsed, Rule
<1>5. /\ Ground(b, quads, Range(ListsOf(e)) \cup G, loop_stack, savedLoops, bodies, R, h, here)
      /\ IsExpr(e) /\ IsInjective(ListsOf(e)) /\ Range(ListsOf(e)) \cap G = {}
  BY <1>2, <1>3, <1>4, OnlyOperand
<1>6. PICK r, c, f : r = Condition(quads, e) /\ c = r.code /\ f = r.e
  OBVIOUS
<1>7. /\ Ground(b, c, Range(ListsOf(f)), loop_stack, savedLoops, bodies, R, h, here)
      /\ IsBool(f) /\ IsInjective(ListsOf(f)) /\ IsExpr(f)
  <2>1. Holds(b, r.code, r.e, G, loop_stack, savedLoops, bodies, R, h, here)
    BY <1>5, <1>6, ConditionIn
  <2>2. Range(ListsOf(f)) \cup G = Range(ListsOf(f))
    BY <1>2
  <2> QED BY <1>6, <2>1, <2>2 DEF Holds, IsExpr
<1>8. PICK m, y : m = Len(c) /\ y = [kind |-> "then", cond |-> f, label |-> m]
  OBVIOUS
<1>9. y.kind = "then" /\ y.cond = f /\ y.label = m
  BY <1>8
<1>10. View(y) = PlainView(ListsOf(f), {m})
  BY <1>9, ViewsAre
<1>11. ItemOK(y) /\ y.kind # "program"
  BY <1>7, <1>9, JumpOpsAre DEF ItemOK, Kinds, StmtRules, ListRules, StmtLists
<1>12. m \in Nat /\ m <= Len(c) /\ h[m] = here
  BY <1>7, <1>8, NextIsHere
<1>13. Fits(y, ListsOf(f), {m}, c, h, here)
  BY <1>7, <1>11, <1>12, ListsAre DEF Fits
<1>14. Good(c, Append(b, y), loop_stack, savedLoops, bodies)
  BY <1>7, <1>10, <1>13, PutItem
<1> QED BY <1>2, <1>6, <1>8, <1>14 DEF IfPrefix, SameLoops, Now

LEMMA KeptByIf ==
  ASSUME Now, If
  PROVE  Now'
<1>1. "then" \in PlainRules /\ Stmt("then")
  BY DEF If, PlainRules
<1>2. PICK b, x, G : b = Rest(2) /\ x = Rule /\ G = {}
  OBVIOUS
<1>3. PICK R, h, here : /\ Ground(b, quads, Range(View(x).held), loop_stack, savedLoops, bodies, R, h, here)
                        /\ Gives(x, {}, quads, h, here)
  BY <1>1, <1>2, StmtTaken
<1>4. x.kind = "then"
  BY <1>1, <1>2 DEF Stmt, Rule
<1>5. PICK e, l, n : e = x.cond /\ l = x.label /\ n = Len(quads)
  OBVIOUS
<1>6. View(x).held = ListsOf(e) /\ View(x).labels = {l}
  <2>1. View(x) = PlainView(ListsOf(x.cond), {x.label})
    BY <1>4, ViewsAre
  <2> QED BY <1>5, <2>1 DEF PlainView
<1>7. l \in Nat /\ l <= Len(quads) /\ h[l] = here
  BY <1>3, <1>6, KnownLabels
<1>8. n \in Nat /\ n <= Len(quads) /\ h[n] = here
  BY <1>3, <1>5, NextIsHere
<1>9. TwoLists(e)
  <2>1. IsBool(e)
    BY <1>3, <1>4, <1>5 DEF Gives, ItemOK
  <2>2. IsInjective(ListsOf(e))
    BY <1>3, <1>6 DEF Gives
  <2> QED BY <2>1, <2>2, BoolLists
<1>10. PICK c : c = PatchList(PatchList(quads, e.truelist, l), e.falselist, n)
  OBVIOUS
<1>11. Ground(b, quads, Range(ListsOf(e)) \cup G, loop_stack, savedLoops, bodies, R, h, here) /\ Range(ListsOf(e)) \cap G = {}
  BY <1>2, <1>3, <1>6
<1>12. Ground(b, c, G, loop_stack, savedLoops, bodies, R, h, here)
  BY <1>7, <1>8, <1>9, <1>10, <1>11, ConditionPatched
<1>13. Ground(b, c, {}, loop_stack, savedLoops, bodies, R, h, here)
  BY <1>2, <1>12
<1>14. PICK tree : tree = [op |-> "if", cond |-> e.tree, body |-> Top.tree]
  OBVIOUS
<1>15. Good(c, stack', loop_stack, savedLoops, bodies)
  BY <1>2, <1>5, <1>13, <1>14, StmtPut DEF If, EndStmt
<1>16. quads' = c
  BY <1>2, <1>5, <1>10 DEF If
<1> QED BY <1>15, <1>16 DEF If, SameLoops, Now

LEMMA OneJumpMore ==
  ASSUME NEW s \in Seq(Nat), IsInjective(s), NEW n \in Nat, n \notin Range(s)
  PROVE  Append(s, n) \in Seq(Nat) /\ IsInjective(Append(s, n)) /\ Range(Append(s, n)) = Range(s) \cup {n}
<1>1. PICK t : t = <<n>>
  OBVIOUS
<1>2. t \in Seq(Nat) /\ Range(t) = {n} /\ IsInjective(t)
  BY <1>1 DEF Range, IsInjective
<1>3. /\ s \o t \in Seq(Nat) /\ Range(s \o t) = Range(s) \cup Range(t)
      /\ IsInjective(s \o t) <=> IsInjective(s) /\ IsInjective(t) /\ Range(s) \cap Range(t) = {}
  BY <1>2, Joined
<1>4. Append(s, n) = s \o t
  BY <1>1
<1> QED BY <1>2, <1>3, <1>4

LEMMA KeptByElse ==
  ASSUME Now, Else
  PROVE  Now'
<1>1. "then" \in PlainRules /\ Stmt("then")
  BY DEF Else, PlainRules
<1>2. PICK b, x, G : b = Rest(2) /\ x = Rule /\ G = Range(View(x).held)
  OBVIOUS
<1>3. PICK R, h, here : /\ Ground(b, quads, G, loop_stack, savedLoops, bodies, R, h, here)
                        /\ Gives(x, {}, quads, h, here)
  BY <1>1, <1>2, StmtTaken
<1>4. x.kind = "then"
  BY <1>1, <1>2 DEF Stmt, Rule
<1>5. PICK e, l, n, c : e = x.cond /\ l = x.label /\ n = Len(quads) /\ c = Append(quads, OpenJump)
  OBVIOUS
<1>6. View(x).held = ListsOf(e) /\ View(x).labels = {l}
  <2>1. View(x) = PlainView(ListsOf(x.cond), {x.label})
    BY <1>4, ViewsAre
  <2> QED BY <1>5, <2>1 DEF PlainView
<1>7. l \in Nat /\ l <= Len(quads) /\ h[l] = here
  BY <1>3, <1>6, KnownLabels
<1>8. IsBool(e) /\ IsExpr(e) /\ IsInjective(ListsOf(e)) /\ ListsOf(e) \in Seq(Nat)
  <2>1. IsBool(e)
    BY <1>3, <1>4, <1>5 DEF Gives, ItemOK
  <2>2. IsInjective(ListsOf(e))
    BY <1>3, <1>6 DEF Gives
  <2>3. IsExpr(e)
    BY <2>1 DEF IsExpr
  <2> QED BY <2>1, <2>2, <2>3, ListsAre
<1>9. Ground(b, c, G \cup {n}, loop_stack, savedLoops, bodies, R, h, here) /\ Len(c) = n + 1 /\ n \in Nat /\ n \notin G
  BY <1>3, <1>5, OpenJumpIs, JumpEmittedIn
<1>10. PICK held, y : /\ held = Append(ListsOf(e), n)
                      /\ y = [kind |-> "else", cond |-> e, label |-> l, body |-> Top.tree, end |-> n]
  OBVIOUS
<1>11. held \in Seq(Nat) /\ IsInjective(held) /\ Range(held) = G \cup {n}
  BY <1>2, <1>6, <1>8, <1>9, <1>10, OneJumpMore
<1>12. y.kind = "else" /\ y.cond = e /\ y.label = l /\ y.end = n
  BY <1>10
<1>13. View(y) = PlainView(held, {l, n + 1})
  <2>1. View(y) = PlainView(Append(ListsOf(y.cond), y.end), {y.label, y.end + 1})
    BY <1>12, ViewsAre
  <2> QED BY <1>10, <1>12, <2>1
<1>14. ItemOK(y) /\ y.kind # "program"
  BY <1>8, <1>9, <1>12, JumpOpsAre DEF ItemOK, Kinds, StmtRules, ListRules, StmtLists
<1>15. \A m \in {l, n + 1} : m \in Nat /\ m <= Len(c) /\ h[m] = here
  <2>1. Len(c) \in Nat /\ Len(c) <= Len(c) /\ h[Len(c)] = here
    BY <1>9, NextIsHere
  <2>2. l <= Len(c)
    BY <1>5, <1>7, <1>9
  <2> QED BY <1>7, <1>9, <2>1, <2>2
<1>16. Fits(y, held, {l, n + 1}, c, h, here)
  BY <1>11, <1>14, <1>15 DEF Fits
<1>17. PICK H, s : H = G \cup {n} /\ s = Append(b, y)
  OBVIOUS
<1>18. Ground(b, c, H, loop_stack, savedLoops, bodies, R, h, here) /\ Range(held) = H
  BY <1>9, <1>11, <1>17
<1>19. Good(c, s, loop_stack, savedLoops, bodies)
  BY <1>13, <1>16, <1>17, <1>18, PutItem
<1>20. quads' = c /\ stack' = s
  BY <1>2, <1>5, <1>10, <1>17 DEF Else
<1> QED BY <1>19, <1>20 DEF Else, SameLoops, Now

LEMMA PatchedLength ==
  ASSUME NEW code, Len(code) \in Nat, DOMAIN code = 1..Len(code), NEW list, NEW label
  PROVE  /\ Len(PatchList(code, list, label)) = Len(code)
         /\ DOMAIN PatchList(code, list, label) = DOMAIN code
<1>1. PICK n, c : n = Len(code) /\ c = PatchList(code, list, label)
  OBVIOUS
<1>2. c = [i \in 1..n |-> c[i]]
  BY <1>1 DEF PatchList
<1>3. Len(c) = n
  BY <1>1, <1>2
<1> QED BY <1>1, <1>2, <1>3

LEMMA KeptByIfElse ==
  ASSUME Now, IfElse
  PROVE  Now'
<1>1. "else" \in PlainRules /\ Stmt("else")
  BY DEF IfElse, PlainRules
<1>2. PICK b, x : b = Rest(2) /\ x = Rule
  OBVIOUS
<1>3. PICK R, h, here : /\ Ground(b, quads, Range(View(x).held), loop_stack, savedLoops, bodies, R, h, here)
                        /\ Gives(x, {}, quads, h, here)
  BY <1>1, <1>2, StmtTaken
<1>4. x.kind = "else"
  BY <1>1, <1>2 DEF Stmt, Rule
<1>5. PICK e, l, n, m, k, G : /\ e = x.cond /\ l = x.label /\ n = Len(quads) /\ k = x.end /\ m = x.end + 1
                              /\ G = {x.end}
  OBVIOUS
<1>6. View(x).held = Append(ListsOf(e), k) /\ View(x).labels = {l, m}
  <2>1. View(x) = PlainView(Append(ListsOf(x.cond), x.end), {x.label, x.end + 1})
    BY <1>4, ViewsAre
  <2> QED BY <1>5, <2>1 DEF PlainView
<1>7. l \in Nat /\ l <= Len(quads) /\ h[l] = here /\ m \in Nat /\ m <= Len(quads) /\ h[m] = here
  BY <1>3, <1>6, KnownLabels
<1>8. n \in Nat /\ n <= Len(quads) /\ h[n] = here
  BY <1>3, <1>5, NextIsHere
<1>9. IsBool(e) /\ k \in Nat
  BY <1>3, <1>4, <1>5 DEF Gives, ItemOK
<1>10. PICK t, u : t = ListsOf(e) /\ u = <<k>>
  OBVIOUS
<1>11. t \in Seq(Nat) /\ u \in Seq(Nat) /\ Range(u) = {k} /\ IsInjective(u)
  <2>1. IsExpr(e)
    BY <1>9 DEF IsExpr
  <2>2. t \in Seq(Nat)
    BY <1>10, <2>1, ListsAre
  <2> QED BY <1>9, <1>10, <2>2 DEF Range, IsInjective
<1>12. Append(t, k) = t \o u
  BY <1>9, <1>10, <1>11
<1>13. /\ Range(t \o u) = Range(t) \cup Range(u)
       /\ IsInjective(t \o u) <=> IsInjective(t) /\ IsInjective(u) /\ Range(t) \cap Range(u) = {}
  BY <1>11, Joined
<1>14. IsInjective(ListsOf(e)) /\ Range(ListsOf(e)) \cap G = {} /\ Range(View(x).held) = Range(ListsOf(e)) \cup G
  <2>1. IsInjective(t \o u)
    BY <1>3, <1>6, <1>10, <1>12 DEF Gives
  <2> QED BY <1>5, <1>6, <1>10, <1>11, <1>12, <1>13, <2>1
<1>15. TwoLists(e)
  BY <1>9, <1>14, BoolLists
<1>16. PICK c : c = PatchList(PatchList(quads, e.truelist, l), e.falselist, m)
  OBVIOUS
<1>17. Ground(b, quads, Range(ListsOf(e)) \cup G, loop_stack, savedLoops, bodies, R, h, here)
  BY <1>3, <1>14
<1>18. Ground(b, c, G, loop_stack, savedLoops, bodies, R, h, here) /\ Len(c) = Len(quads)
  <2>1. Range(ListsOf(e)) \cap G = {}
    BY <1>14
  <2>2. l \in Nat /\ l <= Len(quads) /\ h[l] = here
    BY <1>7
  <2>3. m \in Nat /\ m <= Len(quads) /\ h[m] = here
    BY <1>7
  <2>4. PICK code : code = quads
    OBVIOUS
  <2>5. /\ Ground(b, code, Range(ListsOf(e)) \cup G, loop_stack, savedLoops, bodies, R, h, here)
        /\ l <= Len(code) /\ m <= Len(code)
        /\ c = PatchList(PatchList(code, e.truelist, l), e.falselist, m)
    BY <1>16, <1>17, <2>2, <2>3, <2>4
  <2>6. Ground(b, c, G, loop_stack, savedLoops, bodies, R, h, here)
    BY <1>15, <2>1, <2>2, <2>3, <2>5, ConditionPatched
  <2>7. Len(c) = Len(code)
    <3>1. PICK d : d = PatchList(code, e.truelist, l)
      OBVIOUS
    <3>2. Len(d) = Len(code) /\ DOMAIN d = DOMAIN code
      BY <2>5, <3>1, PatchedLength DEF Ground, Working, Code
    <3>3. c = PatchList(d, e.falselist, m)
      BY <2>5, <3>1
    <3> QED BY <2>5, <3>2, <3>3, PatchedLength DEF Ground, Working, Code
  <2> QED BY <2>4, <2>6, <2>7
<1>19. PICK d : d = PatchList(c, u, n)
  OBVIOUS
<1>20. Ground(b, d, G \ Range(u), loop_stack, savedLoops, bodies, R, h, here)
  <2>1. Range(u) \subseteq G /\ n <= Len(c)
    BY <1>5, <1>8, <1>11, <1>18
  <2> QED BY <1>8, <1>18, <1>19, <2>1, PatchedIn
<1>21. Ground(b, d, {}, loop_stack, savedLoops, bodies, R, h, here)
  <2>1. G \ Range(u) = {}
    BY <1>5, <1>11
  <2> QED BY <1>20, <2>1
<1>22. PICK tree : tree = [op |-> "ifelse", cond |-> e.tree, body |-> x.body, other |-> Top.tree]
  OBVIOUS
<1>23. Good(d, stack', loop_stack, savedLoops, bodies)
  BY <1>2, <1>5, <1>21, <1>22, StmtPut DEF IfElse, EndStmt
<1>24. quads' = d
  BY <1>2, <1>5, <1>10, <1>16, <1>19 DEF IfElse
<1> QED BY <1>23, <1>24 DEF IfElse, SameLoops, Now

LEMMA KeptByLeaveNothing ==
  ASSUME Now, NEW k, LeaveNothing(k)
  PROVE  Now'
BY DEF LeaveNothing, Report, Now

LEMMA KeptByReturnOutside ==
  ASSUME Now, ReturnOutside
  PROVE  Now'
BY DEF ReturnOutside, Report, Now

\* A jump out of a loop is added to one of its lists.
ListMore(l, n, new) ==
  /\ new \in LoopSet /\ Range(ListsOfLoop(new)) = Range(ListsOfLoop(l)) \cup {n}
  /\ IsInjective(ListsOfLoop(l)) => IsInjective(ListsOfLoop(new))

LEMMA LoopListMore ==
  ASSUME NEW l \in LoopSet, NEW n \in Nat, n \notin Range(ListsOfLoop(l)), NEW list \in {"breaklist", "contlist"},
         NEW new, new = [l EXCEPT ![list] = MergeLists(@, <<n>>)]
  PROVE  ListMore(l, n, new)
<1>1. PICK b, c, u : b = l.breaklist /\ c = l.contlist /\ u = <<n>>
  OBVIOUS
<1>2. b \in Seq(Nat) /\ c \in Seq(Nat) /\ u \in Seq(Nat) /\ Range(u) = {n} /\ IsInjective(u)
  BY <1>1 DEF LoopSet, Range, IsInjective
<1>3. ListsOfLoop(l) = b \o c
  BY <1>1 DEF ListsOfLoop
<1>4. /\ Range(b \o c) = Range(b) \cup Range(c)
      /\ IsInjective(b \o c) <=> IsInjective(b) /\ IsInjective(c) /\ Range(b) \cap Range(c) = {}
  BY <1>2, Joined
<1>5. CASE list = "breaklist"
  <2>1. PICK d : d = b \o u
    OBVIOUS
  <2>2. new.breaklist = d /\ new.contlist = c /\ (d \in Seq(Nat) => new \in LoopSet)
    BY <1>1, <1>2, <1>5, <2>1 DEF LoopSet, MergeLists
  <2>3. /\ d \in Seq(Nat) /\ Range(d) = Range(b) \cup Range(u)
        /\ IsInjective(d) <=> IsInjective(b) /\ IsInjective(u) /\ Range(b) \cap Range(u) = {}
    BY <1>2, <2>1, Joined
  <2>4. /\ Range(d \o c) = Range(d) \cup Range(c)
        /\ IsInjective(d \o c) <=> IsInjective(d) /\ IsInjective(c) /\ Range(d) \cap Range(c) = {}
    BY <1>2, <2>3, Joined
  <2>5. ListsOfLoop(new) = d \o c
    BY <2>2 DEF ListsOfLoop
  <2>6. n \notin Range(b) /\ n \notin Range(c)
    BY <1>3, <1>4
  <2>7. Range(ListsOfLoop(new)) = Range(ListsOfLoop(l)) \cup {n}
    <3>1. Range(ListsOfLoop(new)) = (Range(b) \cup Range(c)) \cup {n}
      BY <1>2, <2>3, <2>4, <2>5
    <3> QED BY <1>3, <1>4, <3>1
  <2>8. ASSUME IsInjective(ListsOfLoop(l))
        PROVE  IsInjective(ListsOfLoop(new))
    <3>1. IsInjective(b) /\ IsInjective(c) /\ Range(b) \cap Range(c) = {}
      BY <1>3, <1>4, <2>8
    <3>2. IsInjective(d)
      BY <1>2, <2>3, <2>6, <3>1
    <3>3. Range(d) \cap Range(c) = {} \/ Range(b) \cap Range(d) = {}
      BY <1>2, <2>3, <2>6, <3>1
    <3>4. IsInjective(ListsOfLoop(new)) <=> IsInjective(b) /\ IsInjective(c)
      BY <1>2, <2>3, <2>4, <2>5, <2>6, <3>1, <3>2
    <3> QED BY <3>1, <3>4
  <2>9. new \in LoopSet
    BY <2>2, <2>3
  <2> QED BY <2>7, <2>8, <2>9 DEF ListMore
<1>6. CASE list = "contlist"
  <2>1. PICK d : d = c \o u
    OBVIOUS
  <2>2. new.breaklist = b /\ new.contlist = d /\ (d \in Seq(Nat) => new \in LoopSet)
    BY <1>1, <1>2, <1>6, <2>1 DEF LoopSet, MergeLists
  <2>3. /\ d \in Seq(Nat) /\ Range(d) = Range(c) \cup Range(u)
        /\ IsInjective(d) <=> IsInjective(c) /\ IsInjective(u) /\ Range(c) \cap Range(u) = {}
    BY <1>2, <2>1, Joined
  <2>4. /\ Range(b \o d) = Range(b) \cup Range(d)
        /\ IsInjective(b \o d) <=> IsInjective(b) /\ IsInjective(d) /\ Range(b) \cap Range(d) = {}
    BY <1>2, <2>3, Joined
  <2>5. ListsOfLoop(new) = b \o d
    BY <2>2 DEF ListsOfLoop
  <2>6. n \notin Range(b) /\ n \notin Range(c)
    BY <1>3, <1>4
  <2>7. Range(ListsOfLoop(new)) = Range(ListsOfLoop(l)) \cup {n}
    <3>1. Range(ListsOfLoop(new)) = (Range(b) \cup Range(c)) \cup {n}
      BY <1>2, <2>3, <2>4, <2>5
    <3> QED BY <1>3, <1>4, <3>1
  <2>8. ASSUME IsInjective(ListsOfLoop(l))
        PROVE  IsInjective(ListsOfLoop(new))
    <3>1. IsInjective(b) /\ IsInjective(c) /\ Range(b) \cap Range(c) = {}
      BY <1>3, <1>4, <2>8
    <3>2. IsInjective(d)
      BY <1>2, <2>3, <2>6, <3>1
    <3>3. Range(d) \cap Range(c) = {} \/ Range(b) \cap Range(d) = {}
      BY <1>2, <2>3, <2>6, <3>1
    <3>4. IsInjective(ListsOfLoop(new)) <=> IsInjective(b) /\ IsInjective(c)
      BY <1>2, <2>3, <2>4, <2>5, <2>6, <3>1, <3>2
    <3> QED BY <3>1, <3>4
  <2>9. new \in LoopSet
    BY <2>2, <2>3
  <2> QED BY <2>7, <2>8, <2>9 DEF ListMore
<1> QED BY <1>5, <1>6 DEF ListMore

LEMMA KeptByLeave ==
  ASSUME Now, NEW k \in {"break", "continue"}, Leave(k)
  PROVE  Now'
<1>1. PICK R, h, here : Ground(stack, quads, {}, loop_stack, savedLoops, bodies, R, h, here)
  BY GoodGround DEF Now
<1>2. PICK m, n, list, ks, l : /\ m = Len(loop_stack) /\ n = Len(quads)
                               /\ list = (IF k = "break" THEN "breaklist" ELSE "contlist")
                               /\ ks = Front(loop_stack) /\ l = Last(loop_stack)
  OBVIOUS
<1>3. /\ m > 0 /\ list \in {"breaklist", "contlist"}
      /\ loop_stack' = [loop_stack EXCEPT ![m][list] = MergeLists(@, <<n>>)]
      /\ quads' = Append(quads, OpenJump)
      /\ EndStmt(stack, [op |-> k]) /\ savedLoops' = savedLoops /\ bodies' = bodies
  BY <1>2 DEF Leave
<1>4. PICK new : new = [l EXCEPT ![list] = MergeLists(@, <<n>>)]
  OBVIOUS
<1>5. PICK vs : vs = Views(stack)
  OBVIOUS
<1>6. Context(vs, loop_stack, savedLoops, bodies, R, h, here, Len(quads)) /\ Working(quads, {}, R, h, here)
  BY <1>1, <1>5 DEF Ground
<1>7. loop_stack \in Seq(LoopSet) /\ Types(vs, loop_stack, savedLoops)
  BY <1>6 DEF Context, Types
<1>8. /\ m \in Nat /\ ks \in Seq(LoopSet) /\ l \in LoopSet /\ loop_stack = Append(ks, l)
      /\ l = loop_stack[m] /\ Len(ks) = m - 1
  BY <1>2, <1>3, <1>7 DEF Front, Last
<1>9. loop_stack' = Append(ks, new)
  <2>1. new \in LoopSet
    <3>1. n \in Nat /\ <<n>> \in Seq(Nat)
      BY <1>1, <1>2, NextIsHere
    <3>2. \A s \in Seq(Nat) : s \o <<n>> \in Seq(Nat)
      BY <3>1
    <3> QED BY <1>3, <1>4, <1>8, <3>2 DEF LoopSet, MergeLists
  <2>2. loop_stack' = [loop_stack EXCEPT ![m] = new]
    BY <1>3, <1>4, <1>8
  <2>3. PICK old, s, t : old = loop_stack /\ s = [old EXCEPT ![m] = new] /\ t = Append(ks, new)
    OBVIOUS
  <2>4. old \in Seq(LoopSet) /\ Len(old) = m /\ \A i \in 1..m - 1 : old[i] = ks[i]
    <3>1. old = Append(ks, l) /\ old \in Seq(LoopSet) /\ Len(old) = m
      BY <1>2, <1>7, <1>8, <2>3
    <3>2. \A i \in 1..m - 1 : Append(ks, l)[i] = ks[i]
      BY <1>8
    <3> QED BY <3>1, <3>2
  <2>5. s \in Seq(LoopSet) /\ Len(s) = m /\ s[m] = new /\ \A i \in 1..m - 1 : s[i] = old[i]
    <3>1. DOMAIN old = 1..m /\ m \in 1..m
      BY <1>3, <1>8, <2>4
    <3>2. s = [i \in 1..m |-> IF i = m THEN new ELSE old[i]]
      BY <2>3, <3>1
    <3>3. s \in [1..m -> LoopSet]
      BY <2>1, <2>4, <3>1, <3>2
    <3>4. s \in Seq(LoopSet) /\ Len(s) = m
      BY <1>8, <3>3, SeqDef
    <3>5. \A i \in 1..m - 1 : i \in 1..m /\ i # m
      BY <1>8
    <3> QED BY <3>1, <3>2, <3>4, <3>5
  <2>6. t \in Seq(LoopSet) /\ Len(t) = m /\ t[m] = new /\ \A i \in 1..m - 1 : t[i] = ks[i]
    BY <1>8, <2>1, <2>3
  <2>7. \A i \in 1..m : i = m \/ i \in 1..m - 1
    BY <1>8
  <2>8. s = t
    BY <1>8, <2>4, <2>5, <2>6, <2>7
  <2> QED BY <2>2, <2>3, <2>8
<1>10. PICK c, H : c = Append(quads, OpenJump) /\ H = {}
  OBVIOUS
<1>11. Working(c, H \cup {n}, R, h, here) /\ Len(c) = n + 1 /\ n \in Nat /\ n \notin H \cup R
  BY <1>2, <1>6, <1>10, OpenJumpIs, JumpEmitted
<1>12. n \notin Range(ListsOfLoop(l))
  <2>1. ListsOfLoop(l) \in Seq(Nat) /\ HeldByLoops(ks) \in Seq(Nat) /\ HeldByLoops(Append(ks, l)) = HeldByLoops(ks) \o ListsOfLoop(l)
    BY <1>8, HeldByLoopsOneMore
  <2>2. Range(HeldByLoops(loop_stack)) = Range(HeldByLoops(ks)) \cup Range(ListsOfLoop(l))
    BY <1>8, <2>1, Joined
  <2>3. Shared(HeldOf(vs, loop_stack, savedLoops), vs, loop_stack, savedLoops)
    BY <1>7, HeldSplits
  <2>4. R = Range(HeldOf(vs, loop_stack, savedLoops))
    BY <1>6 DEF Context
  <2> QED BY <1>11, <2>2, <2>3, <2>4 DEF Shared
<1>13. /\ new \in LoopSet /\ Range(ListsOfLoop(new)) = Range(ListsOfLoop(l)) \cup {n}
       /\ IsInjective(ListsOfLoop(l)) => IsInjective(ListsOfLoop(new))
  <2>1. ListMore(l, n, new)
    BY <1>3, <1>4, <1>8, <1>11, <1>12, LoopListMore
  <2> QED BY <2>1 DEF ListMore
<1>14. PICK G : G = {n}
  OBVIOUS
<1>15. Working(c, G, R, h, here)
  <2>1. H \cup {n} = G
    BY <1>10, <1>14
  <2> QED BY <1>11, <2>1
<1>16. Context(vs, Append(ks, l), savedLoops, bodies, R, h, here, Len(c))
  <2>1. Len(c) \in Nat /\ Len(quads) <= Len(c)
    BY <1>2, <1>11
  <2>2. Context(vs, loop_stack, savedLoops, bodies, R, h, here, Len(c))
    BY <1>6, <2>1, ContextLonger
  <2> QED BY <1>8, <2>2
<1>17. Sound(c, vs, Append(ks, new), savedLoops, bodies)
  BY <1>8, <1>13, <1>14, <1>15, <1>16, ChangeLoop
<1>18. Good(c, stack, loop_stack', savedLoops, bodies)
  BY <1>1, <1>5, <1>9, <1>17 DEF Ground, Good
<1>19. PICK tree : tree = [op |-> k]
  OBVIOUS
<1>20. Good(c, stack', loop_stack', savedLoops, bodies)
  BY <1>3, <1>18, <1>19, StmtEnded DEF EndStmt
<1> QED BY <1>3, <1>10, <1>20 DEF Now

-----------------------------------------------------------------------------
(* Calls and loops. *)

\* An expression was parsed for the rule x of the innermost loop.
LoopOperand(b, x, e, code, loops, saved, done, R, h, here) ==
  /\ Ground(b, code, (Range(ListsOf(e)) \cup Range(View(x).held)) \cup Range(ListsOfLoop(Last(loops))),
            Front(loops), saved, done, R, h, here)
  /\ Gives(x, Range(ListsOf(e)), code, h, here)
  /\ IsExpr(e) /\ IsInjective(ListsOf(e))
  /\ GivesLoop(loops, Range(ListsOf(e)) \cup Range(View(x).held))

LEMMA LoopRuleView ==
  ASSUME NEW x, x.kind \in LoopRules
  PROVE  View(x).class = "loop" /\ x.kind # "program"
BY DEF View, LoopRules

LEMMA LoopOperandTaken ==
  ASSUME Now, NEW k \in LoopRules, Parsed(k)
  PROVE  \E R, h, here : LoopOperand(Rest(2), Rule, Expr, quads, loop_stack, savedLoops, bodies, R, h, here)
<1>1. PICK n, y, x, b : n = Len(stack) /\ y = stack[n] /\ x = stack[n - 1] /\ b = SubSeq(stack, 1, n - 2)
  OBVIOUS
<1>2. Top = y /\ Rest(2) = b /\ Rule = x
  BY <1>1 DEF Top, Last, Rest, Rule
<1>3. y.kind = "expr" /\ Expr = y.e /\ x.kind = k
  BY <1>1, <1>2 DEF Kind, Expr, Parsed
<1>4. View(y).held = ListsOf(y.e) /\ View(y).class = "plain" /\ y.kind # "program" /\ (ItemOK(y) => IsExpr(y.e))
  BY <1>3, ExprItem
<1>5. View(x).class = "loop" /\ x.kind # "program"
  BY <1>3, LoopRuleView
<1>6. \E R, h, here : TakenLoop(b, x, y, quads, loop_stack, savedLoops, bodies, R, h, here)
  BY ZenonT(40), <1>1, <1>4, <1>5, TakeLoopRule DEF Now
<1> QED BY <1>2, <1>3, <1>4, <1>6 DEF TakenLoop, LoopOperand

\* A statement was parsed for it.
LEMMA LoopStmtTaken ==
  ASSUME Now, NEW k \in LoopRules, Stmt(k)
  PROVE  \E R, h, here :
           /\ Ground(Rest(2), quads, Range(View(Rule).held) \cup Range(ListsOfLoop(Last(loop_stack))),
                     Front(loop_stack), savedLoops, bodies, R, h, here)
           /\ Gives(Rule, {}, quads, h, here) /\ GivesLoop(loop_stack, Range(View(Rule).held))
<1>1. PICK n, y, x, b : n = Len(stack) /\ y = stack[n] /\ x = stack[n - 1] /\ b = SubSeq(stack, 1, n - 2)
  OBVIOUS
<1>2. Top = y /\ Rest(2) = b /\ Rule = x
  BY <1>1 DEF Top, Last, Rest, Rule
<1>3. y.kind = "stmt" /\ x.kind = k
  BY <1>1, <1>2 DEF Kind, Stmt
<1>4. View(y).held = <<>> /\ View(y).class = "plain" /\ y.kind # "program"
  <2>1. View(y) = PlainView(<<>>, {})
    BY <1>3, ViewsAre
  <2> QED BY <1>3, <2>1 DEF PlainView
<1>5. View(x).class = "loop" /\ x.kind # "program"
  BY <1>3, LoopRuleView
<1>6. \E R, h, here : TakenLoop(b, x, y, quads, loop_stack, savedLoops, bodies, R, h, here)
  BY ZenonT(40), <1>1, <1>4, <1>5, TakeLoopRule DEF Now
<1>7. Range(View(y).held) = {} /\ {} \cup Range(View(x).held) = Range(View(x).held)
  BY <1>4, Emptied
<1> QED BY <1>2, <1>6, <1>7 DEF TakenLoop

\* An expression is added to the list of a rule.
LEMMA ListItem ==
  ASSUME NEW x, ItemOK(x), x.kind \in ListRules, NEW e, IsExpr(e),
         NEW y, y = [x EXCEPT !.args = Append(@, e)]
  PROVE  /\ ItemOK(y) /\ y.kind = x.kind /\ y.kind # "program"
         /\ y.args = Append(x.args, e) /\ Exprs(x.args)
         /\ x.kind = "forstep" => y.cond = x.cond /\ y.test = x.test /\ y.step = x.step
<1>1. {"kind", "args"} \subseteq DOMAIN x /\ x = [f \in DOMAIN x |-> x[f]] /\ Exprs(x.args)
  BY DEF ItemOK, Exprs
<1>2. x.kind = "forstep" => {"cond", "test", "step"} \subseteq DOMAIN x
  BY DEF ItemOK
<1>3. /\ DOMAIN y = DOMAIN x /\ y = [f \in DOMAIN y |-> y[f]]
      /\ \A f \in DOMAIN x : f # "args" => y[f] = x[f]
      /\ y.args = Append(x.args, e)
  BY <1>1
<1>4. Exprs(y.args)
  BY <1>1, <1>3, ArgsMore
<1>5. y.kind = x.kind
  BY <1>1, <1>3
<1>6. x.kind = "forstep" => y.cond = x.cond /\ y.test = x.test /\ y.step = x.step
  BY <1>2, <1>3
<1>7. x.kind \in {"call", "forinit", "forstep"}
  BY DEF ListRules
<1>8. x.kind = "forstep" => IsBool(x.cond)
  BY DEF ItemOK
<1>9. ItemOK(y)
  BY <1>1, <1>2, <1>3, <1>4, <1>5, <1>6, <1>7, <1>8, JumpOpsAre DEF ItemOK, Kinds, ExprRules, ListRules, StmtLists, Exprs
<1> QED BY <1>1, <1>3, <1>5, <1>6, <1>7, <1>9

LEMMA CommaInCall ==
  ASSUME Now, Parsed("call"),
         NEW s, s = Append(Rest(2), [Rule EXCEPT !.args = Append(@, Expr)])
  PROVE  Good(quads, s, loop_stack, savedLoops, bodies)
<1>1. "call" \in PlainRules
  BY DEF PlainRules
<1>2. PICK b, x, e, y : b = Rest(2) /\ x = Rule /\ e = Expr /\ y = [Rule EXCEPT !.args = Append(@, Expr)]
  OBVIOUS
<1>3. PICK R, h, here : Operand(b, x, e, quads, loop_stack, savedLoops, bodies, R, h, here)
  BY <1>1, <1>2, OperandTaken
<1>4. x.kind = "call" /\ x.kind \in ListRules
  BY <1>2 DEF Parsed, Rule, ListRules
<1>5. ItemOK(x) /\ IsExpr(e) /\ IsInjective(ListsOf(e))
  BY <1>3 DEF Operand, Gives
<1>6. ItemOK(y) /\ y.kind = x.kind /\ y.kind # "program" /\ y.args = Append(x.args, e) /\ Exprs(x.args)
  BY SMTT(30), <1>2, <1>4, <1>5, ListItem
<1>7. PICK a, c, t : a = ArgsHeld(x.args) /\ c = ListsOf(e) /\ t = a \o c
  OBVIOUS
<1>8. View(x).held = a /\ View(y) = PlainView(t, {})
  <2>1. View(x) = PlainView(ArgsHeld(x.args), {}) /\ View(y) = PlainView(ArgsHeld(y.args), {})
    BY <1>4, <1>6, ViewsAre
  <2>2. ArgsHeld(y.args) = t
    BY <1>5, <1>6, <1>7, ArgsMore
  <2> QED BY <1>7, <2>1, <2>2 DEF PlainView
<1>9. a \in Seq(Nat) /\ c \in Seq(Nat)
  BY <1>5, <1>6, <1>7, ListsOfArgs, ListsAre
<1>10. /\ t \in Seq(Nat) /\ Range(t) = Range(a) \cup Range(c)
       /\ IsInjective(t) <=> IsInjective(a) /\ IsInjective(c) /\ Range(a) \cap Range(c) = {}
  BY <1>7, <1>9, Joined
<1>11. IsInjective(t) /\ Range(t) = Range(c) \cup Range(a)
  <2>1. IsInjective(a) /\ Range(c) \cap Range(a) = {}
    BY <1>3, <1>7, <1>8 DEF Operand, Gives
  <2> QED BY <1>5, <1>7, <1>10, <2>1
<1>12. Ground(b, quads, Range(t), loop_stack, savedLoops, bodies, R, h, here)
  BY <1>3, <1>7, <1>8, <1>11 DEF Operand
<1>13. Fits(y, t, {}, quads, h, here)
  BY <1>6, <1>10, <1>11 DEF Fits
<1>14. s = Append(b, y)
  BY <1>2
<1> QED BY <1>8, <1>12, <1>13, <1>14, PutItem

\* The jumps of the condition that a list rule has beside those of its list.
CondOf(x) == IF x.kind = "forstep" THEN ListsOf(x.cond) ELSE <<>>

LEMMA LoopListView ==
  ASSUME NEW x, ItemOK(x), x.kind \in {"forinit", "forstep"}
  PROVE  /\ View(x) = LoopView(CondOf(x) \o ArgsHeld(x.args), View(x).labels)
         /\ View(x).held = CondOf(x) \o ArgsHeld(x.args)
         /\ x.kind = "forinit" => View(x).labels = {}
         /\ x.kind = "forstep" => View(x).labels = {x.test, x.step}
         /\ CondOf(x) \in Seq(Nat) /\ Exprs(x.args) /\ ArgsHeld(x.args) \in Seq(Nat)
<1>1. Exprs(x.args)
  BY DEF ItemOK, Exprs, ListRules
<1>2. ArgsHeld(x.args) \in Seq(Nat)
  BY <1>1, ListsOfArgs
<1>3. CASE x.kind = "forinit"
  <2>1. View(x) = LoopView(ArgsHeld(x.args), {})
    BY <1>3, ViewsAre
  <2>2. <<>> \o ArgsHeld(x.args) = ArgsHeld(x.args) /\ <<>> \in Seq(Nat)
    BY <1>2
  <2> QED BY <1>1, <1>2, <1>3, <2>1, <2>2 DEF CondOf, LoopView
<1>4. CASE x.kind = "forstep"
  <2>1. View(x) = LoopView(ListsOf(x.cond) \o ArgsHeld(x.args), {x.test, x.step})
    BY <1>4, ViewsAre
  <2>2. IsExpr(x.cond)
    BY <1>4 DEF ItemOK, IsExpr
  <2>3. ListsOf(x.cond) \in Seq(Nat)
    BY <2>2, ListsAre
  <2> QED BY <1>1, <1>2, <1>4, <2>1, <2>3 DEF CondOf, LoopView
<1> QED BY <1>3, <1>4

LEMMA CommaInLoop ==
  ASSUME Now, NEW k \in {"forinit", "forstep"}, Parsed(k),
         NEW s, s = Append(Rest(2), [Rule EXCEPT !.args = Append(@, Expr)])
  PROVE  Good(quads, s, loop_stack, savedLoops, bodies)
<1>1. k \in LoopRules /\ k \in ListRules
  BY DEF LoopRules, ListRules
<1>2. PICK b, x, e, y : b = Rest(2) /\ x = Rule /\ e = Expr /\ y = [Rule EXCEPT !.args = Append(@, Expr)]
  OBVIOUS
<1>3. PICK R, h, here : LoopOperand(b, x, e, quads, loop_stack, savedLoops, bodies, R, h, here)
  BY <1>1, <1>2, LoopOperandTaken
<1>4. x.kind = k
  BY <1>2 DEF Parsed, Rule
<1>5. ItemOK(x) /\ IsExpr(e) /\ IsInjective(ListsOf(e))
  BY <1>3 DEF LoopOperand, Gives
<1>6. /\ ItemOK(y) /\ y.kind = x.kind /\ y.kind # "program" /\ y.args = Append(x.args, e) /\ Exprs(x.args)
      /\ x.kind = "forstep" => y.cond = x.cond /\ y.test = x.test /\ y.step = x.step
  BY <1>1, <1>2, <1>4, <1>5, ListItem
<1>7. PICK a, c, f, t, u : /\ a = ArgsHeld(x.args) /\ c = ListsOf(e) /\ f = CondOf(x)
                           /\ t = a \o c /\ u = f \o t
  OBVIOUS
<1>8. /\ View(x).held = f \o a /\ f \in Seq(Nat) /\ a \in Seq(Nat)
      /\ x.kind = "forinit" => View(x).labels = {}
      /\ x.kind = "forstep" => View(x).labels = {x.test, x.step}
  BY <1>4, <1>5, <1>7, LoopListView
<1>9. View(y) = LoopView(u, View(x).labels)
  <2>1. ArgsHeld(y.args) = t
    BY <1>5, <1>6, <1>7, ArgsMore
  <2>2. CondOf(y) = f
    BY <1>6, <1>7 DEF CondOf
  <2>3. /\ View(y) = LoopView(CondOf(y) \o ArgsHeld(y.args), View(y).labels)
        /\ y.kind = "forinit" => View(y).labels = {}
        /\ y.kind = "forstep" => View(y).labels = {y.test, y.step}
    BY <1>4, <1>6, LoopListView
  <2>4. View(y).labels = View(x).labels
    BY <1>4, <1>6, <1>8, <2>3
  <2> QED BY <1>7, <2>1, <2>2, <2>3, <2>4
<1>10. c \in Seq(Nat)
  BY <1>5, <1>7, ListsAre
<1>11. /\ Range(f \o a) = Range(f) \cup Range(a)
       /\ IsInjective(f \o a) <=> IsInjective(f) /\ IsInjective(a) /\ Range(f) \cap Range(a) = {}
  BY <1>8, Joined
<1>12. /\ t \in Seq(Nat) /\ Range(t) = Range(a) \cup Range(c)
       /\ IsInjective(t) <=> IsInjective(a) /\ IsInjective(c) /\ Range(a) \cap Range(c) = {}
  BY <1>7, <1>8, <1>10, Joined
<1>13. /\ u \in Seq(Nat) /\ Range(u) = Range(f) \cup Range(t)
       /\ IsInjective(u) <=> IsInjective(f) /\ IsInjective(t) /\ Range(f) \cap Range(t) = {}
  BY <1>7, <1>8, <1>12, Joined
<1>14. IsInjective(u) /\ Range(u) = Range(c) \cup Range(View(x).held)
  <2>1. IsInjective(f \o a) /\ Range(c) \cap Range(f \o a) = {}
    BY <1>3, <1>7, <1>8 DEF LoopOperand, Gives
  <2> QED BY <1>5, <1>7, <1>8, <1>11, <1>12, <1>13, <2>1
<1>15. PICK l, ks : l = Last(loop_stack) /\ ks = Front(loop_stack)
  OBVIOUS
<1>16. /\ Ground(b, quads, Range(u) \cup Range(ListsOfLoop(l)), ks, savedLoops, bodies, R, h, here)
       /\ loop_stack = Append(ks, l) /\ l \in LoopSet /\ IsInjective(ListsOfLoop(l))
       /\ Range(u) \cap Range(ListsOfLoop(l)) = {}
  BY <1>3, <1>7, <1>14, <1>15 DEF LoopOperand, GivesLoop
<1>17. Fits(y, u, View(x).labels, quads, h, here)
  <2>1. \A m \in View(x).labels : m \in Nat /\ m <= Len(quads) /\ h[m] = here
    BY <1>3, KnownLabels DEF LoopOperand
  <2> QED BY <1>6, <1>13, <1>14, <2>1 DEF Fits
<1>18. s = Append(b, y)
  BY <1>2
<1>19. PICK H, labels : H = Range(u) \cup Range(ListsOfLoop(l)) /\ labels = View(x).labels
  OBVIOUS
<1>20. Good(quads, s, Append(ks, l), savedLoops, bodies)
  BY <1>9, <1>16, <1>17, <1>18, <1>19, PutLoopItem
<1> QED BY <1>16, <1>20

LEMMA KeptByComma ==
  ASSUME Now, Comma
  PROVE  Now'
<1>1. PICK k, s : k = Rule.kind /\ s = Append(Rest(2), [Rule EXCEPT !.args = Append(@, Expr)])
  OBVIOUS
<1>2. k \in {"call", "forinit", "forstep"} /\ Parsed(k)
  BY <1>1 DEF Comma, ListRules, Parsed, Rule
<1>3. Good(quads, s, loop_stack, savedLoops, bodies)
  <2>1. CASE k = "call"
    BY <1>1, <1>2, <2>1, CommaInCall
  <2>2. CASE k \in {"forinit", "forstep"}
    BY <1>1, <1>2, <2>2, CommaInLoop
  <2> QED BY <1>2, <2>1, <2>2
<1> QED BY <1>1, <1>3 DEF Comma, SameLoops, Now

LEMMA ListIn ==
  ASSUME NEW b, NEW code, NEW loops, NEW saved, NEW done, NEW R, NEW h, NEW here, NEW exprs, NEW G,
         Ground(b, code, Range(ArgsHeld(exprs)) \cup G, loops, saved, done, R, h, here),
         Exprs(exprs), IsInjective(ArgsHeld(exprs)), Range(ArgsHeld(exprs)) \cap G = {},
         NEW d, d = FinalizeList(code, exprs)
  PROVE  /\ Ground(b, d.code, G, loops, saved, done, R, h, here)
         /\ IsSeq(d.exprs) /\ \A i \in DOMAIN d.exprs : d.exprs[i].place \in Places
<1>1. PICK A, H : A = Range(ArgsHeld(exprs)) /\ H = A \cup G
  OBVIOUS
<1>2. Working(code, H, R, h, here) /\ A \subseteq H
  BY <1>1 DEF Ground
<1>3. Sofar(code, H, d, A, Len(exprs), R, h, here)
  BY <1>1, <1>2, ListFinished
<1>4. H \ A = G
  BY <1>1
<1>5. Working(d.code, G, R, h, here) /\ Len(code) <= Len(d.code)
  BY <1>3, <1>4 DEF Sofar
<1>6. Ground(b, d.code, G, loops, saved, done, R, h, here)
  BY <1>5, Further
<1> QED BY <1>3, <1>6 DEF Sofar

\* The expressions of a call that ends.
LEMMA CallTaken ==
  ASSUME Now, ListEnds("call")
  PROVE  /\ \E R, h, here : Ground(BelowList, quads, Range(ArgsHeld(List)), loop_stack, savedLoops, bodies, R, h, here)
         /\ Exprs(List) /\ IsInjective(ArgsHeld(List))
<1>1. CASE Kind("expr")
  <2>1. Parsed("call")
    BY <1>1 DEF ListEnds, Kind
  <2>2. "call" \in PlainRules
    BY DEF PlainRules
  <2>3. PICK b, x, e : b = Rest(2) /\ x = Rule /\ e = Expr
    OBVIOUS
  <2>4. PICK R, h, here : Operand(b, x, e, quads, loop_stack, savedLoops, bodies, R, h, here)
    BY <2>1, <2>2, <2>3, OperandTaken
  <2>5. x.kind = "call"
    BY <2>1, <2>3 DEF Parsed, Rule
  <2>6. Exprs(x.args) /\ IsExpr(e)
    BY <2>4, <2>5 DEF Operand, Gives, ItemOK, Exprs, ListRules
  <2>7. PICK a, c, t : a = ArgsHeld(x.args) /\ c = ListsOf(e) /\ t = a \o c
    OBVIOUS
  <2>8. View(x).held = a
    <3>1. View(x) = PlainView(ArgsHeld(x.args), {})
      BY <2>5, ViewsAre
    <3> QED BY <2>7, <3>1 DEF PlainView
  <2>9. a \in Seq(Nat) /\ c \in Seq(Nat)
    BY <2>6, <2>7, ListsOfArgs, ListsAre
  <2>10. /\ Range(t) = Range(a) \cup Range(c)
         /\ IsInjective(t) <=> IsInjective(a) /\ IsInjective(c) /\ Range(a) \cap Range(c) = {}
    BY <2>7, <2>9, Joined
  <2>11. IsInjective(t) /\ Range(t) = Range(c) \cup Range(a)
    <3>1. IsInjective(a) /\ IsInjective(c) /\ Range(c) \cap Range(a) = {}
      BY <2>4, <2>7, <2>8 DEF Operand, Gives
    <3> QED BY <2>10, <3>1
  <2>12. List = Append(x.args, e) /\ BelowList = b
    BY <1>1, <2>3 DEF List, BelowList
  <2>13. Exprs(List) /\ ArgsHeld(List) = t
    BY <2>6, <2>7, <2>12, ArgsMore
  <2>14. Ground(b, quads, Range(t), loop_stack, savedLoops, bodies, R, h, here)
    BY <2>4, <2>7, <2>8, <2>11 DEF Operand
  <2> QED BY <2>11, <2>12, <2>13, <2>14
<1>2. CASE ~ Kind("expr")
  <2>1. Kind("call") /\ Top.args = <<>>
    BY <1>2 DEF ListEnds, Parsed
  <2>2. PICK n, y, b : n = Len(stack) /\ y = stack[n] /\ b = SubSeq(stack, 1, n - 1)
    OBVIOUS
  <2>3. Top = y /\ Rest(1) = b /\ y.kind = "call" /\ y.args = <<>>
    BY <2>1, <2>2 DEF Top, Last, Rest, Kind
  <2>4. View(y).class = "plain" /\ y.kind # "program" /\ View(y).held = <<>>
    <3>1. View(y) = PlainView(ArgsHeld(y.args), {})
      BY <2>3, ViewsAre
    <3> QED BY <2>3, <3>1, NoArgs DEF PlainView
  <2>5. \E R, h, here :
          /\ Ground(b, quads, Range(View(y).held), loop_stack, savedLoops, bodies, R, h, here)
          /\ Gives(y, {}, quads, h, here) /\ Lowered(stack, n, b)
    BY <2>2, <2>4, TakeTopmost DEF Now
  <2>6. List = <<>> /\ BelowList = b
    BY <1>2, <2>3 DEF List, BelowList
  <2> QED BY <2>4, <2>5, <2>6, NoArgs, Emptied
<1> QED BY <1>1, <1>2

LEMMA KeptByCallEnd ==
  ASSUME Now, CallEnd
  PROVE  Now'
<1>1. ListEnds("call")
  BY DEF CallEnd
<1>2. PICK b, exprs, G : b = BelowList /\ exprs = List /\ G = {}
  OBVIOUS
<1>3. PICK R, h, here : Ground(b, quads, Range(ArgsHeld(exprs)), loop_stack, savedLoops, bodies, R, h, here)
  BY <1>1, <1>2, CallTaken
<1>4. Exprs(exprs) /\ IsInjective(ArgsHeld(exprs))
  BY <1>1, <1>2, CallTaken
<1>5. PICK d, m : d = FinalizeList(quads, exprs) /\ m = Len(d.code)
  OBVIOUS
<1>6. /\ Ground(b, d.code, G, loop_stack, savedLoops, bodies, R, h, here)
      /\ IsSeq(d.exprs) /\ \A i \in DOMAIN d.exprs : d.exprs[i].place \in Places
  <2>1. Ground(b, quads, Range(ArgsHeld(exprs)) \cup G, loop_stack, savedLoops, bodies, R, h, here)
    <3>1. Range(ArgsHeld(exprs)) \cup G = Range(ArgsHeld(exprs))
      BY <1>2
    <3> QED BY <1>3, <3>1
  <2>2. Range(ArgsHeld(exprs)) \cap G = {}
    BY <1>2
  <2> QED BY <1>4, <1>5, <2>1, <2>2, ListIn
<1>7. m \in Nat
  BY <1>5, <1>6, NextIsHere
<1>8. PICK c : c = EmitCall(d.code, m, d.exprs)
  OBVIOUS
<1>9. Working(c, G, R, h, here) /\ Len(d.code) <= Len(c)
  <2>1. Working(d.code, G, R, h, here)
    BY <1>6 DEF Ground
  <2> QED BY <1>6, <1>7, <1>8, <2>1, CallEmitted
<1>10. Ground(b, c, G, loop_stack, savedLoops, bodies, R, h, here)
  BY <1>6, <1>9, Further
<1>11. PICK n, v : /\ n = m + Len(exprs) + 1
                   /\ v = Value(Temp(n), [op |-> "call", callee |-> m, args |-> Trees(exprs)])
  OBVIOUS
<1>12. n \in Nat
  <2>1. Len(exprs) \in Nat
    BY <1>4, ListsOfArgs
  <2> QED BY <1>7, <1>11, <2>1
<1>13. IsExpr(v) /\ ListsOf(v) = <<>>
  <2>1. v.type = "var_e" /\ v.place = Temp(n)
    BY <1>11 DEF Value
  <2> QED BY <1>12, <2>1, PlacesAre DEF IsExpr, ListsOf
<1>14. PICK s : s = Append(b, [kind |-> "expr", e |-> v])
  OBVIOUS
<1>15. Good(c, s, loop_stack, savedLoops, bodies)
  BY <1>2, <1>10, <1>13, <1>14, Emptied, PutExpr
<1>16. quads' = c /\ stack' = s
  BY <1>2, <1>5, <1>8, <1>11, <1>14 DEF CallEnd, PushExpr
<1> QED BY <1>15, <1>16 DEF CallEnd, SameLoops, Now

\* The list of a loop that ends, and the condition beside it.
LoopList(b, x, exprs, code, loops, saved, done, R, h, here) ==
  /\ Ground(b, code, Range(ArgsHeld(exprs)) \cup (Range(CondOf(x)) \cup Range(ListsOfLoop(Last(loops)))),
            Front(loops), saved, done, R, h, here)
  /\ ItemOK(x) /\ \A l \in View(x).labels : l \in Nat /\ l <= Len(code) /\ h[l] = here
  /\ Exprs(exprs) /\ IsInjective(ArgsHeld(exprs)) /\ IsInjective(CondOf(x))
  /\ Range(ArgsHeld(exprs)) \cap (Range(CondOf(x)) \cup Range(ListsOfLoop(Last(loops)))) = {}
  /\ GivesLoop(loops, Range(CondOf(x)))

LEMMA LoopListTaken ==
  ASSUME Now, NEW k \in {"forinit", "forstep"}, ListEnds(k)
  PROVE  /\ \E R, h, here : LoopList(BelowList, ListRule, List, quads, loop_stack, savedLoops, bodies, R, h, here)
         /\ ListRule.kind = k
<1>1. k \in LoopRules
  BY DEF LoopRules
<1>2. CASE Kind("expr")
  <2>1. Parsed(k)
    BY <1>2 DEF ListEnds, Kind
  <2>2. PICK b, x, e : b = Rest(2) /\ x = Rule /\ e = Expr
    OBVIOUS
  <2>3. PICK R, h, here : LoopOperand(b, x, e, quads, loop_stack, savedLoops, bodies, R, h, here)
    BY <1>1, <2>1, <2>2, LoopOperandTaken
  <2>4. x.kind = k
    BY <2>1, <2>2 DEF Parsed, Rule
  <2>5. ItemOK(x) /\ IsExpr(e) /\ IsInjective(ListsOf(e)) /\ IsInjective(View(x).held)
    BY <2>3 DEF LoopOperand, Gives
  <2>6. PICK a, c, f, t : a = ArgsHeld(x.args) /\ c = ListsOf(e) /\ f = CondOf(x) /\ t = a \o c
    OBVIOUS
  <2>7. View(x).held = f \o a /\ f \in Seq(Nat) /\ a \in Seq(Nat) /\ Exprs(x.args) /\ c \in Seq(Nat)
    BY <2>4, <2>5, <2>6, LoopListView, ListsAre
  <2>8. /\ Range(f \o a) = Range(f) \cup Range(a)
        /\ IsInjective(f \o a) <=> IsInjective(f) /\ IsInjective(a) /\ Range(f) \cap Range(a) = {}
    BY <2>7, Joined
  <2>9. /\ Range(t) = Range(a) \cup Range(c)
        /\ IsInjective(t) <=> IsInjective(a) /\ IsInjective(c) /\ Range(a) \cap Range(c) = {}
    BY <2>6, <2>7, Joined
  <2>10. List = Append(x.args, e) /\ BelowList = b /\ ListRule = x
    BY <1>2, <2>2 DEF List, BelowList, ListRule
  <2>11. Exprs(List) /\ ArgsHeld(List) = t
    BY <2>5, <2>6, <2>7, <2>10, ArgsMore
  <2>12. PICK E, V, L, ks : /\ E = Range(c) /\ V = Range(View(x).held) /\ L = Range(ListsOfLoop(Last(loop_stack)))
                            /\ ks = Front(loop_stack)
    OBVIOUS
  <2>13. /\ Ground(b, quads, (E \cup V) \cup L, ks, savedLoops, bodies, R, h, here)
         /\ E \cap V = {} /\ (E \cup V) \cap L = {} /\ GivesLoop(loop_stack, E \cup V)
    BY <2>3, <2>6, <2>12 DEF LoopOperand, Gives, GivesLoop
  <2>14. IsInjective(t) /\ IsInjective(f) /\ Range(t) \cap (Range(f) \cup L) = {}
    BY <2>5, <2>6, <2>7, <2>8, <2>9, <2>12, <2>13
  <2>15. (E \cup V) \cup L = Range(t) \cup (Range(f) \cup L)
    BY <2>7, <2>8, <2>9, <2>12
  <2>16. GivesLoop(loop_stack, Range(f))
    BY <2>7, <2>8, <2>12, <2>13 DEF GivesLoop
  <2>17. \A l \in View(x).labels : l \in Nat /\ l <= Len(quads) /\ h[l] = here
    BY <2>3, KnownLabels DEF LoopOperand
  <2>18. LoopList(b, x, List, quads, loop_stack, savedLoops, bodies, R, h, here)
    BY <2>5, <2>6, <2>11, <2>12, <2>13, <2>14, <2>15, <2>16, <2>17 DEF LoopList
  <2> QED BY <2>4, <2>10, <2>18
<1>3. CASE ~ Kind("expr")
  <2>1. Kind(k) /\ Top.args = <<>>
    BY <1>3 DEF ListEnds, Parsed
  <2>2. PICK n, y, b : n = Len(stack) /\ y = stack[n] /\ b = SubSeq(stack, 1, n - 1)
    OBVIOUS
  <2>3. Top = y /\ Rest(1) = b /\ y.kind = k /\ y.args = <<>>
    BY <2>1, <2>2 DEF Top, Last, Rest, Kind
  <2>4. View(y).class = "loop" /\ y.kind # "program"
    BY <1>1, <2>3, LoopRuleView
  <2>5. PICK H : H = {}
    OBVIOUS
  <2>6. PICK T, h, here : Ground(stack, quads, H, loop_stack, savedLoops, bodies, T, h, here)
    BY <2>5, GoodGround DEF Now
  <2>7. /\ \E S : Ground(b, quads, (H \cup Range(View(y).held)) \cup Range(ListsOfLoop(Last(loop_stack))),
                         Front(loop_stack), savedLoops, bodies, S, h, here)
        /\ GivesLoop(loop_stack, H \cup Range(View(y).held))
        /\ Gives(y, H, quads, h, here) /\ Lowered(stack, n, b)
    BY ZenonT(40), <2>2, <2>4, <2>6, TakeLoopItem
  <2>8. PICK R : Ground(b, quads, (H \cup Range(View(y).held)) \cup Range(ListsOfLoop(Last(loop_stack))),
                        Front(loop_stack), savedLoops, bodies, R, h, here)
    BY <2>7
  <2>9. ItemOK(y) /\ IsInjective(View(y).held)
    BY <2>7 DEF Gives
  <2>10. PICK f, L, ks : f = CondOf(y) /\ L = Range(ListsOfLoop(Last(loop_stack))) /\ ks = Front(loop_stack)
    OBVIOUS
  <2>11. View(y).held = f
    <3>1. View(y).held = f \o ArgsHeld(y.args) /\ f \in Seq(Nat)
      BY <2>3, <2>9, <2>10, LoopListView
    <3>2. f \o <<>> = f
      BY <3>1
    <3> QED BY <2>3, <3>1, <3>2, NoArgs
  <2>12. List = <<>> /\ BelowList = b /\ ListRule = y
    BY <1>3, <2>3 DEF List, BelowList, ListRule
  <2>13. Exprs(List) /\ IsInjective(ArgsHeld(List)) /\ Range(ArgsHeld(List)) = {}
    BY <2>12, NoArgs, Emptied
  <2>14. Ground(b, quads, Range(ArgsHeld(List)) \cup (Range(f) \cup L), ks, savedLoops, bodies, R, h, here)
    <3>1. (H \cup Range(View(y).held)) \cup L = Range(ArgsHeld(List)) \cup (Range(f) \cup L)
      BY <2>5, <2>11, <2>13
    <3> QED BY <2>8, <2>10, <3>1
  <2>15. GivesLoop(loop_stack, Range(f))
    <3>1. H \cup Range(View(y).held) = Range(f)
      BY <2>5, <2>11
    <3> QED BY <2>7, <3>1
  <2>16. \A l \in View(y).labels : l \in Nat /\ l <= Len(quads) /\ h[l] = here
    BY <2>7, KnownLabels
  <2>17. Range(ArgsHeld(List)) \cap (Range(f) \cup L) = {}
    BY <2>13
  <2>18. LoopList(b, y, List, quads, loop_stack, savedLoops, bodies, R, h, here)
    BY <2>9, <2>10, <2>11, <2>13, <2>14, <2>15, <2>16, <2>17 DEF LoopList
  <2> QED BY <2>3, <2>12, <2>18
<1> QED BY <1>2, <1>3

LEMMA NewLoopHolds == NewLoop \in LoopSet /\ ListsOfLoop(NewLoop) = <<>>
<1>1. NewLoop.breaklist = <<>> /\ NewLoop.contlist = <<>> /\ <<>> \in Seq(Nat)
  BY DEF NewLoop
<1>2. <<>> \o <<>> = <<>>
  OBVIOUS
<1>3. NewLoop \in LoopSet
  BY <1>1 DEF NewLoop, LoopSet
<1> QED BY <1>1, <1>2, <1>3 DEF ListsOfLoop

\* A loop begins, with nothing to fill in.
LEMMA LoopBegun ==
  ASSUME Now, NEW x, NEW labels, View(x) = LoopView(<<>>, labels), ItemOK(x), x.kind # "program",
         \A n \in labels : n = Len(quads),
         NEW s, s = Append(stack, x)
  PROVE  Good(quads, s, Append(loop_stack, NewLoop), savedLoops, bodies)
<1>1. PICK R, h, here : Ground(stack, quads, {}, loop_stack, savedLoops, bodies, R, h, here)
  BY GoodGround DEF Now
<1>2. \A n \in labels : n \in Nat /\ n <= Len(quads) /\ h[n] = here
  BY <1>1, NextIsHere
<1>3. PICK none, l : none = <<>> /\ l = NewLoop
  OBVIOUS
<1>4. none \in Seq(Nat) /\ IsInjective(none) /\ Range(none) = {} /\ l \in LoopSet /\ ListsOfLoop(l) = none
  BY <1>3, NewLoopHolds, Emptied
<1>5. Fits(x, none, labels, quads, h, here)
  BY <1>2, <1>4 DEF Fits
<1>6. Range(none) \cap Range(ListsOfLoop(l)) = {} /\ {} = Range(none) \cup Range(ListsOfLoop(l))
  BY <1>4
<1>7. View(x) = LoopView(none, labels) /\ IsInjective(ListsOfLoop(l))
  BY <1>3, <1>4
<1>8. Good(quads, s, Append(loop_stack, l), savedLoops, bodies)
  BY <1>1, <1>4, <1>5, <1>6, <1>7, PutLoopItem
<1> QED BY <1>3, <1>8

LEMMA KeptByBeginWhile ==
  ASSUME Now, BeginWhile
  PROVE  Now'
<1>1. PICK n, x, s : n = Len(quads) /\ x = [kind |-> "while", start |-> n] /\ s = Append(stack, x)
  OBVIOUS
<1>2. x.kind = "while" /\ x.start = n
  BY <1>1
<1>3. View(x) = LoopView(<<>>, {n})
  BY <1>2, ViewsAre
<1>4. ItemOK(x) /\ x.kind # "program"
  BY <1>2, JumpOpsAre DEF ItemOK, Kinds, ExprRules, StmtRules, ListRules, StmtLists
<1>5. Good(quads, s, Append(loop_stack, NewLoop), savedLoops, bodies)
  <2>1. PICK labels : labels = {n}
    OBVIOUS
  <2>2. View(x) = LoopView(<<>>, labels) /\ \A l \in labels : l = Len(quads)
    BY <1>1, <1>3, <2>1
  <2>3. s = Append(stack, x)
    BY <1>1
  <2> QED BY <1>4, <2>2, <2>3, LoopBegun
<1> QED BY <1>1, <1>5 DEF BeginWhile, Now

LEMMA KeptByBeginFor ==
  ASSUME Now, BeginFor
  PROVE  Now'
<1>1. PICK x, s : x = [kind |-> "forinit", args |-> <<>>] /\ s = Append(stack, x)
  OBVIOUS
<1>2. x.kind = "forinit" /\ x.args = <<>>
  BY <1>1
<1>3. View(x) = LoopView(<<>>, {})
  BY <1>2, ViewsAre, NoArgs
<1>4. ItemOK(x) /\ x.kind # "program"
  <2>1. {"kind", "args"} \subseteq DOMAIN x /\ x = [f \in DOMAIN x |-> x[f]]
    BY <1>1
  <2>2. IsSeq(x.args) /\ \A i \in DOMAIN x.args : IsExpr(x.args[i])
    BY <1>2, NoArgs DEF Exprs
  <2> QED BY <1>2, <2>1, <2>2, JumpOpsAre DEF ItemOK, Kinds, ExprRules, StmtRules, ListRules, StmtLists
<1>5. PICK labels : labels = {}
  OBVIOUS
<1>6. View(x) = LoopView(<<>>, labels) /\ \A n \in labels : n = Len(quads)
  BY <1>3, <1>5
<1>7. Good(quads, s, Append(loop_stack, NewLoop), savedLoops, bodies)
  BY <1>1, <1>4, <1>6, LoopBegun
<1> QED BY <1>1, <1>7 DEF BeginFor, Now

\* The condition of a loop whose item held nothing so far.
LEMMA LoopCondition ==
  ASSUME NEW b, NEW x, NEW e, NEW code, NEW loops, NEW saved, NEW done, NEW R, NEW h, NEW here,
         LoopOperand(b, x, e, code, loops, saved, done, R, h, here), View(x).held = <<>>,
         NEW r, r = Condition(code, e), NEW G, G = Range(ListsOfLoop(Last(loops)))
  PROVE  /\ Holds(b, r.code, r.e, G, Front(loops), saved, done, R, h, here)
         /\ \A n \in View(x).labels \cup {Len(r.code)} : n \in Nat /\ n <= Len(r.code) /\ h[n] = here
<1>1. Range(View(x).held) = {}
  BY Emptied
<1>2. PICK E, ks : E = Range(ListsOf(e)) /\ ks = Front(loops)
  OBVIOUS
<1>3. (E \cup Range(View(x).held)) \cup G = E \cup G /\ E \cap G = {}
  <2>1. (E \cup Range(View(x).held)) \cap G = {}
    BY <1>2 DEF LoopOperand, GivesLoop
  <2> QED BY <1>1, <2>1
<1>4. Ground(b, code, Range(ListsOf(e)) \cup G, ks, saved, done, R, h, here)
  BY <1>2, <1>3 DEF LoopOperand
<1>5. IsExpr(e) /\ IsInjective(ListsOf(e)) /\ Range(ListsOf(e)) \cap G = {}
  BY <1>2, <1>3 DEF LoopOperand
<1>6. Holds(b, r.code, r.e, G, ks, saved, done, R, h, here) /\ Len(code) <= Len(r.code)
  BY <1>4, <1>5, ConditionIn
<1>7. PICK c, H : c = r.code /\ H = Range(ListsOf(r.e)) \cup G
  OBVIOUS
<1>8. Ground(b, c, H, ks, saved, done, R, h, here)
  BY <1>6, <1>7 DEF Holds
<1>9. Len(c) \in Nat /\ Len(c) <= Len(c) /\ h[Len(c)] = here
  BY <1>8, NextIsHere
<1>10. Len(code) \in Nat
  BY <1>4, NextIsHere
<1>11. \A n \in View(x).labels : n \in Nat /\ n <= Len(code) /\ h[n] = here
  <2>1. Gives(x, Range(ListsOf(e)), code, h, here)
    BY DEF LoopOperand
  <2> QED BY <2>1, KnownLabels
<1>12. \A n \in View(x).labels : n <= Len(c)
  BY <1>6, <1>7, <1>9, <1>10, <1>11
<1> QED BY <1>2, <1>6, <1>7, <1>9, <1>11, <1>12

\* It is put back with its condition f.
LEMMA ConditionPut ==
  ASSUME NEW b, NEW code, NEW f, NEW G, NEW loops, NEW saved, NEW done, NEW R, NEW h, NEW here,
         Holds(b, code, f, G, Front(loops), saved, done, R, h, here), G = Range(ListsOfLoop(Last(loops))),
         GivesLoop(loops, {}),
         NEW y, NEW labels, View(y) = LoopView(ListsOf(f), labels), ItemOK(y), y.kind # "program",
         \A n \in labels : n \in Nat /\ n <= Len(code) /\ h[n] = here,
         NEW s, s = Append(b, y)
  PROVE  Good(code, s, loops, saved, done)
<1>1. PICK l, ks, held, H : /\ l = Last(loops) /\ ks = Front(loops) /\ held = ListsOf(f)
                            /\ H = Range(held) \cup Range(ListsOfLoop(l))
  OBVIOUS
<1>2. /\ Ground(b, code, H, ks, saved, done, R, h, here)
      /\ IsInjective(held) /\ Range(held) \cap Range(ListsOfLoop(l)) = {}
  BY <1>1 DEF Holds
<1>3. held \in Seq(Nat)
  <2>1. IsExpr(f)
    BY DEF Holds, IsExpr
  <2> QED BY <1>1, <2>1, ListsAre
<1>4. l \in LoopSet /\ IsInjective(ListsOfLoop(l)) /\ loops = Append(ks, l)
  BY <1>1 DEF GivesLoop
<1>5. Fits(y, held, labels, code, h, here) /\ View(y) = LoopView(held, labels)
  BY <1>1, <1>2, <1>3 DEF Fits
<1>6. Good(code, s, Append(ks, l), saved, done)
  BY <1>1, <1>2, <1>4, <1>5, PutLoopItem
<1> QED BY <1>4, <1>6

LEMMA KeptByWhileCondition ==
  ASSUME Now, WhileCondition
  PROVE  Now'
<1>1. "while" \in LoopRules /\ Parsed("while")
  BY DEF WhileCondition, LoopRules
<1>2. PICK b, x, e, G : b = Rest(2) /\ x = Rule /\ e = Expr /\ G = Range(ListsOfLoop(Last(loop_stack)))
  OBVIOUS
<1>3. PICK R, h, here : LoopOperand(b, x, e, quads, loop_stack, savedLoops, bodies, R, h, here)
  BY <1>1, <1>2, LoopOperandTaken
<1>4. x.kind = "while"
  BY <1>1, <1>2 DEF Parsed, Rule
<1>5. View(x).held = <<>> /\ View(x).labels = {x.start}
  <2>1. View(x) = LoopView(<<>>, {x.start})
    BY <1>4, ViewsAre
  <2> QED BY <2>1 DEF LoopView
<1>6. PICK r, c, f, m : r = Condition(quads, e) /\ c = r.code /\ f = r.e /\ m = Len(c)
  OBVIOUS
<1>7. /\ Holds(b, r.code, r.e, G, Front(loop_stack), savedLoops, bodies, R, h, here)
      /\ \A n \in View(x).labels \cup {Len(r.code)} : n \in Nat /\ n <= Len(r.code) /\ h[n] = here
  BY <1>2, <1>3, <1>5, <1>6, LoopCondition
<1>8. PICK y, labels, s : /\ y = [kind |-> "whilebody", start |-> x.start, cond |-> f, label |-> m]
                          /\ labels = {x.start, m} /\ s = Append(b, y)
  OBVIOUS
<1>9. y.kind = "whilebody" /\ y.start = x.start /\ y.cond = f /\ y.label = m
  BY <1>8
<1>10. View(y) = LoopView(ListsOf(f), labels)
  <2>1. View(y) = LoopView(ListsOf(y.cond), {y.start, y.label})
    BY <1>9, ViewsAre
  <2> QED BY <1>8, <1>9, <2>1
<1>11. ItemOK(y) /\ y.kind # "program"
  <2>1. IsBool(f)
    BY <1>6, <1>7 DEF Holds
  <2> QED BY <1>9, <2>1, JumpOpsAre DEF ItemOK, Kinds, ExprRules, StmtRules, ListRules, StmtLists
<1>12. \A n \in labels : n \in Nat /\ n <= Len(c) /\ h[n] = here
  BY <1>5, <1>6, <1>7, <1>8
<1>13. GivesLoop(loop_stack, {})
  BY <1>3 DEF LoopOperand, GivesLoop
<1>14. Holds(b, c, f, G, Front(loop_stack), savedLoops, bodies, R, h, here)
  BY <1>6, <1>7
<1>15. Good(c, s, loop_stack, savedLoops, bodies)
  <2>1. G = Range(ListsOfLoop(Last(loop_stack)))
    BY <1>2
  <2>2. s = Append(b, y)
    BY <1>8
  <2> QED BY <1>10, <1>11, <1>12, <1>13, <1>14, <2>1, <2>2, ConditionPut
<1> QED BY <1>2, <1>6, <1>8, <1>15 DEF WhileCondition, SameLoops, Now

LEMMA KeptByForCondition ==
  ASSUME Now, ForCondition
  PROVE  Now'
<1>1. "forcond" \in LoopRules /\ Parsed("forcond")
  BY DEF ForCondition, LoopRules
<1>2. PICK b, x, e, G : b = Rest(2) /\ x = Rule /\ e = Expr /\ G = Range(ListsOfLoop(Last(loop_stack)))
  OBVIOUS
<1>3. PICK R, h, here : LoopOperand(b, x, e, quads, loop_stack, savedLoops, bodies, R, h, here)
  BY <1>1, <1>2, LoopOperandTaken
<1>4. x.kind = "forcond"
  BY <1>1, <1>2 DEF Parsed, Rule
<1>5. View(x).held = <<>> /\ View(x).labels = {x.test}
  <2>1. View(x) = LoopView(<<>>, {x.test})
    BY <1>4, ViewsAre
  <2> QED BY <2>1 DEF LoopView
<1>6. PICK r, c, f, m : r = Condition(quads, e) /\ c = r.code /\ f = r.e /\ m = Len(c)
  OBVIOUS
<1>7. /\ Holds(b, r.code, r.e, G, Front(loop_stack), savedLoops, bodies, R, h, here)
      /\ \A n \in View(x).labels \cup {Len(r.code)} : n \in Nat /\ n <= Len(r.code) /\ h[n] = here
  BY <1>2, <1>3, <1>5, <1>6, LoopCondition
<1>8. PICK y, labels, s : /\ y = [kind |-> "forstep", init |-> x.init, test |-> x.test,
                                  cond |-> f, step |-> m, args |-> <<>>]
                          /\ labels = {x.test, m} /\ s = Append(b, y)
  OBVIOUS
<1>9. /\ y.kind = "forstep" /\ y.test = x.test /\ y.cond = f /\ y.step = m /\ y.args = <<>>
      /\ {"kind", "args", "cond", "test", "step"} \subseteq DOMAIN y /\ y = [g \in DOMAIN y |-> y[g]]
  BY <1>8
<1>10. IsBool(f) /\ IsExpr(f)
  BY <1>6, <1>7 DEF Holds, IsExpr
<1>11. View(y) = LoopView(ListsOf(f), labels)
  <2>1. View(y) = LoopView(ListsOf(y.cond) \o ArgsHeld(y.args), {y.test, y.step})
    BY <1>9, ViewsAre
  <2>2. ListsOf(f) \in Seq(Nat)
    BY <1>10, ListsAre
  <2>3. ListsOf(f) \o <<>> = ListsOf(f)
    BY <2>2
  <2> QED BY <1>8, <1>9, <2>1, <2>3, NoArgs
<1>12. ItemOK(y) /\ y.kind # "program"
  <2>1. IsSeq(y.args) /\ \A i \in DOMAIN y.args : IsExpr(y.args[i])
    BY <1>9, NoArgs DEF Exprs
  <2> QED BY <1>9, <1>10, <2>1, JumpOpsAre DEF ItemOK, Kinds, ExprRules, StmtRules, ListRules, StmtLists
<1>13. \A n \in labels : n \in Nat /\ n <= Len(c) /\ h[n] = here
  BY <1>5, <1>6, <1>7, <1>8
<1>14. GivesLoop(loop_stack, {})
  BY <1>3 DEF LoopOperand, GivesLoop
<1>15. Holds(b, c, f, G, Front(loop_stack), savedLoops, bodies, R, h, here)
  BY <1>6, <1>7
<1>16. Good(c, s, loop_stack, savedLoops, bodies)
  <2>1. G = Range(ListsOfLoop(Last(loop_stack)))
    BY <1>2
  <2>2. s = Append(b, y)
    BY <1>8
  <2> QED BY <1>11, <1>12, <1>13, <1>14, <1>15, <2>1, <2>2, ConditionPut
<1> QED BY <1>2, <1>6, <1>8, <1>16 DEF ForCondition, SameLoops, Now

LEMMA KeptByForInit ==
  ASSUME Now, ForInit
  PROVE  Now'
<1>1. "forinit" \in {"forinit", "forstep"} /\ ListEnds("forinit")
  BY DEF ForInit
<1>2. PICK b, x, exprs, l, ks : /\ b = BelowList /\ x = ListRule /\ exprs = List
                                /\ l = Last(loop_stack) /\ ks = Front(loop_stack)
  OBVIOUS
<1>3. PICK R, h, here : LoopList(b, x, exprs, quads, loop_stack, savedLoops, bodies, R, h, here)
  BY <1>1, <1>2, LoopListTaken
<1>4. x.kind = "forinit"
  BY <1>1, <1>2, LoopListTaken
<1>5. PICK G, d, c : G = Range(CondOf(x)) \cup Range(ListsOfLoop(l)) /\ d = FinalizeList(quads, exprs) /\ c = d.code
  OBVIOUS
<1>6. /\ Ground(b, quads, Range(ArgsHeld(exprs)) \cup G, ks, savedLoops, bodies, R, h, here)
      /\ Exprs(exprs) /\ IsInjective(ArgsHeld(exprs)) /\ Range(ArgsHeld(exprs)) \cap G = {}
  BY <1>2, <1>3, <1>5 DEF LoopList
<1>7. Ground(b, c, G, ks, savedLoops, bodies, R, h, here)
  BY <1>5, <1>6, ListIn
<1>8. PICK m, y, s, none, labels : /\ m = Len(c)
                           /\ y = [kind |-> "forcond", init |-> Trees(exprs), test |-> m]
                           /\ s = Append(b, y) /\ none = <<>> /\ labels = {m}
  OBVIOUS
<1>9. y.kind = "forcond" /\ y.test = m
  BY <1>8
<1>10. View(y) = LoopView(none, labels)
  BY <1>8, <1>9, ViewsAre
<1>11. ItemOK(y) /\ y.kind # "program"
  BY <1>9, JumpOpsAre DEF ItemOK, Kinds, ExprRules, StmtRules, ListRules, StmtLists
<1>12. m \in Nat /\ m <= Len(c) /\ h[m] = here
  BY <1>7, <1>8, NextIsHere
<1>13. none \in Seq(Nat) /\ IsInjective(none) /\ Range(none) = {}
  BY <1>8, Emptied
<1>14. Fits(y, none, labels, c, h, here)
  BY <1>8, <1>11, <1>12, <1>13 DEF Fits
<1>15. G = Range(none) \cup Range(ListsOfLoop(l)) /\ Range(none) \cap Range(ListsOfLoop(l)) = {}
  BY <1>4, <1>5, <1>13, Emptied DEF CondOf
<1>16. l \in LoopSet /\ IsInjective(ListsOfLoop(l)) /\ loop_stack = Append(ks, l)
  BY <1>2, <1>3 DEF LoopList, GivesLoop
<1>17. s = Append(b, y)
  BY <1>8
<1>18. Good(c, s, Append(ks, l), savedLoops, bodies)
  BY <1>7, <1>10, <1>14, <1>15, <1>16, <1>17, PutLoopItem
<1>19. Good(c, s, loop_stack, savedLoops, bodies)
  BY <1>16, <1>18
<1> QED BY <1>2, <1>5, <1>8, <1>19 DEF ForInit, SameLoops, Now

LEMMA KeptByForStep ==
  ASSUME Now, ForStep
  PROVE  Now'
<1>1. "forstep" \in {"forinit", "forstep"} /\ ListEnds("forstep")
  BY DEF ForStep
<1>2. PICK b, x, exprs, l, ks : /\ b = BelowList /\ x = ListRule /\ exprs = List
                                /\ l = Last(loop_stack) /\ ks = Front(loop_stack)
  OBVIOUS
<1>3. PICK R, h, here : LoopList(b, x, exprs, quads, loop_stack, savedLoops, bodies, R, h, here)
  BY <1>1, <1>2, LoopListTaken
<1>4. x.kind = "forstep"
  BY <1>1, <1>2, LoopListTaken
<1>5. PICK f, G, d, c : /\ f = ListsOf(x.cond) /\ G = Range(CondOf(x)) \cup Range(ListsOfLoop(l))
                        /\ d = FinalizeList(quads, exprs) /\ c = d.code
  OBVIOUS
<1>6. /\ Ground(b, quads, Range(ArgsHeld(exprs)) \cup G, ks, savedLoops, bodies, R, h, here)
      /\ Exprs(exprs) /\ IsInjective(ArgsHeld(exprs)) /\ Range(ArgsHeld(exprs)) \cap G = {}
  BY <1>2, <1>3, <1>5 DEF LoopList
<1>7. Ground(b, c, G, ks, savedLoops, bodies, R, h, here)
  BY <1>5, <1>6, ListIn
<1>8. PICK m, e : m = Len(c) /\ e = Append(c, OpenJump)
  OBVIOUS
<1>9. Ground(b, e, G \cup {m}, ks, savedLoops, bodies, R, h, here) /\ Len(e) = m + 1 /\ m \in Nat /\ m \notin G
  BY <1>7, <1>8, OpenJumpIs, JumpEmittedIn
<1>10. PICK y, s, held, labels : /\ y = [kind |-> "forbody", init |-> x.init, test |-> x.test,
                                         cond |-> x.cond, step |-> x.step, steps |-> Trees(exprs), back |-> m]
                                 /\ s = Append(b, y) /\ held = Append(f, m)
                                 /\ labels = {x.test, x.step, m + 1}
  OBVIOUS
<1>11. y.kind = "forbody" /\ y.test = x.test /\ y.cond = x.cond /\ y.step = x.step /\ y.back = m
  BY <1>10
<1>12. View(y) = LoopView(held, labels)
  <2>1. View(y) = LoopView(Append(ListsOf(y.cond), y.back), {y.test, y.step, y.back + 1})
    BY <1>11, ViewsAre
  <2> QED BY <1>5, <1>10, <1>11, <2>1
<1>13. IsBool(x.cond) /\ CondOf(x) = f /\ f \in Seq(Nat) /\ IsInjective(f)
  <2>1. IsBool(x.cond)
    BY <1>3, <1>4 DEF LoopList, ItemOK
  <2>2. IsExpr(x.cond)
    BY <2>1 DEF IsExpr
  <2>3. CondOf(x) = f
    BY <1>4, <1>5 DEF CondOf
  <2>4. f \in Seq(Nat)
    BY <1>5, <2>2, ListsAre
  <2> QED BY <1>3, <2>1, <2>3, <2>4 DEF LoopList
<1>14. ItemOK(y) /\ y.kind # "program"
  BY <1>9, <1>11, <1>13, JumpOpsAre DEF ItemOK, Kinds, ExprRules, StmtRules, ListRules, StmtLists
<1>15. \A n \in labels : n \in Nat /\ n <= Len(e) /\ h[n] = here
  <2>1. View(x).labels = {x.test, x.step}
    BY <1>3, <1>4, LoopListView DEF LoopList
  <2>2. \A n \in {x.test, x.step} : n \in Nat /\ n <= Len(quads) /\ h[n] = here
    BY <1>3, <2>1 DEF LoopList
  <2>3. Len(e) \in Nat /\ Len(e) <= Len(e) /\ h[Len(e)] = here
    BY <1>9, NextIsHere
  <2>4. Len(quads) \in Nat /\ Len(quads) <= m
    <3>1. PICK H : H = Range(ArgsHeld(exprs)) \cup G
      OBVIOUS
    <3>2. Working(quads, H, R, h, here) /\ Range(ArgsHeld(exprs)) \subseteq H
      BY <1>6, <3>1 DEF Ground
    <3>3. Sofar(quads, H, d, Range(ArgsHeld(exprs)), Len(exprs), R, h, here)
      BY <1>5, <1>6, <3>2, ListFinished
    <3> QED BY <1>5, <1>8, <3>3 DEF Sofar
  <2>5. \A n \in Nat : n <= Len(quads) => n <= Len(e)
    BY <1>9, <2>4
  <2> QED BY <1>9, <1>10, <2>2, <2>3, <2>5
<1>16. /\ l \in LoopSet /\ IsInjective(ListsOfLoop(l)) /\ loop_stack = Append(ks, l)
       /\ Range(f) \cap Range(ListsOfLoop(l)) = {}
  BY <1>2, <1>3, <1>13 DEF LoopList, GivesLoop
<1>17. held \in Seq(Nat) /\ IsInjective(held) /\ Range(held) = Range(f) \cup {m}
  <2>1. m \notin Range(f)
    BY <1>5, <1>9, <1>13
  <2> QED BY <1>9, <1>10, <1>13, <2>1, OneJumpMore
<1>18. G \cup {m} = Range(held) \cup Range(ListsOfLoop(l)) /\ Range(held) \cap Range(ListsOfLoop(l)) = {}
  BY <1>5, <1>9, <1>13, <1>16, <1>17
<1>19. Fits(y, held, labels, e, h, here)
  BY <1>14, <1>15, <1>17 DEF Fits
<1>20. PICK H : H = G \cup {m}
  OBVIOUS
<1>21. Ground(b, e, H, ks, savedLoops, bodies, R, h, here) /\ H = Range(held) \cup Range(ListsOfLoop(l))
  BY <1>9, <1>18, <1>20
<1>22. s = Append(b, y) /\ Range(held) \cap Range(ListsOfLoop(l)) = {}
  BY <1>10, <1>18
<1>23. Good(e, s, Append(ks, l), savedLoops, bodies)
  BY <1>12, <1>16, <1>19, <1>21, <1>22, PutLoopItem
<1>24. Good(e, s, loop_stack, savedLoops, bodies)
  BY <1>16, <1>23
<1> QED BY <1>2, <1>5, <1>8, <1>10, <1>24 DEF ForStep, SameLoops, Now

LEMMA KeptByWhile ==
  ASSUME Now, While
  PROVE  Now'
<1>1. "whilebody" \in LoopRules /\ Stmt("whilebody")
  BY DEF While, LoopRules
<1>2. PICK b, x, l, ks : b = Rest(2) /\ x = Rule /\ l = Last(loop_stack) /\ ks = Front(loop_stack)
  OBVIOUS
<1>3. PICK R, h, here :
        /\ Ground(b, quads, Range(View(x).held) \cup Range(ListsOfLoop(l)), ks, savedLoops, bodies, R, h, here)
        /\ Gives(x, {}, quads, h, here) /\ GivesLoop(loop_stack, Range(View(x).held))
  BY <1>1, <1>2, LoopStmtTaken
<1>4. x.kind = "whilebody"
  BY <1>1, <1>2 DEF Stmt, Rule
<1>5. PICK e, start, body, H : /\ e = x.cond /\ start = x.start /\ body = x.label
                               /\ H = Range(ListsOf(e)) \cup Range(ListsOfLoop(l))
  OBVIOUS
<1>6. View(x).held = ListsOf(e) /\ View(x).labels = {start, body}
  <2>1. View(x) = LoopView(ListsOf(x.cond), {x.start, x.label})
    BY <1>4, ViewsAre
  <2> QED BY <1>5, <2>1 DEF LoopView
<1>7. \A n \in {start, body} : n \in Nat /\ n <= Len(quads) /\ h[n] = here
  BY <1>3, <1>6, KnownLabels
<1>8. IsBool(e) /\ IsInjective(ListsOf(e)) /\ Given(e, H)
  <2>1. IsBool(e)
    BY <1>3, <1>4, <1>5 DEF Gives, ItemOK
  <2>2. IsInjective(ListsOf(e))
    BY <1>3, <1>6 DEF Gives
  <2> QED BY <1>5, <2>1, <2>2 DEF Given, IsExpr
<1>9. /\ l \in LoopSet /\ IsInjective(ListsOfLoop(l)) /\ Range(ListsOfLoop(l)) \subseteq H
      /\ Range(ListsOf(e)) \cap Range(ListsOfLoop(l)) = {}
  BY <1>2, <1>3, <1>5, <1>6 DEF GivesLoop
<1>10. Working(quads, H, R, h, here)
  BY <1>3, <1>5, <1>6 DEF Ground
<1>11. PICK c : c = Append(quads, JumpTo(start))
  OBVIOUS
<1>12. Working(c, H, R, h, here) /\ Len(c) = Len(quads) + 1 /\ Len(quads) \in Nat
  BY <1>7, <1>10, <1>11, JumpToEmitted
<1>13. /\ start \in Nat /\ start <= Len(c) /\ h[start] = here
       /\ body \in Nat /\ body <= Len(c) /\ h[body] = here
  BY <1>7, <1>12
<1>14. PICK d : d = LoopPatched(c, l, e, body, start)
  OBVIOUS
<1>15. Working(d, (H \ Range(ListsOf(e))) \ Range(ListsOfLoop(l)), R, h, here) /\ Len(d) = Len(c)
  BY <1>8, <1>9, <1>12, <1>13, <1>14, LoopIsPatched
<1>16. (H \ Range(ListsOf(e))) \ Range(ListsOfLoop(l)) = {}
  BY <1>5
<1>17. PICK G : G = {}
  OBVIOUS
<1>18. Ground(b, d, {}, ks, savedLoops, bodies, R, h, here)
  <2>1. PICK K : K = (H \ Range(ListsOf(e))) \ Range(ListsOfLoop(l))
    OBVIOUS
  <2>2. Working(d, K, R, h, here)
    BY <1>15, <2>1
  <2>3. K = G
    BY <1>16, <1>17, <2>1
  <2>4. Working(d, G, R, h, here)
    BY <2>2, <2>3
  <2>5. Len(quads) <= Len(d)
    BY <1>12, <1>15
  <2>6. Ground(b, quads, H, ks, savedLoops, bodies, R, h, here)
    BY <1>3, <1>5, <1>6
  <2>7. Ground(b, d, G, ks, savedLoops, bodies, R, h, here)
    BY <2>4, <2>5, <2>6, Further
  <2> QED BY <1>17, <2>7
<1>19. PICK tree : tree = [op |-> "for", init |-> <<>>, cond |-> e.tree, step |-> <<>>, body |-> Top.tree]
  OBVIOUS
<1>20. Good(d, stack', ks, savedLoops, bodies)
  BY <1>2, <1>5, <1>18, <1>19, StmtPut DEF While, EndStmt
<1>21. quads' = d /\ loop_stack' = ks
  BY <1>2, <1>5, <1>11, <1>14 DEF While
<1> QED BY <1>20, <1>21 DEF While, Now

LEMMA KeptByFor ==
  ASSUME Now, For
  PROVE  Now'
<1>1. "forbody" \in LoopRules /\ Stmt("forbody")
  BY DEF For, LoopRules
<1>2. PICK b, x, l, ks : b = Rest(2) /\ x = Rule /\ l = Last(loop_stack) /\ ks = Front(loop_stack)
  OBVIOUS
<1>3. PICK R, h, here :
        /\ Ground(b, quads, Range(View(x).held) \cup Range(ListsOfLoop(l)), ks, savedLoops, bodies, R, h, here)
        /\ Gives(x, {}, quads, h, here) /\ GivesLoop(loop_stack, Range(View(x).held))
  BY <1>1, <1>2, LoopStmtTaken
<1>4. x.kind = "forbody"
  BY <1>1, <1>2 DEF Stmt, Rule
<1>5. PICK e, test, step, back, n, L : /\ e = x.cond /\ test = x.test /\ step = x.step /\ back = x.back
                                       /\ n = Len(quads) /\ L = Range(ListsOfLoop(l))
  OBVIOUS
<1>6. View(x).held = Append(ListsOf(e), back) /\ View(x).labels = {test, step, back + 1}
  <2>1. View(x) = LoopView(Append(ListsOf(x.cond), x.back), {x.test, x.step, x.back + 1})
    BY <1>4, ViewsAre
  <2> QED BY <1>5, <2>1 DEF LoopView
<1>7. \A k \in {test, step, back + 1} : k \in Nat /\ k <= Len(quads) /\ h[k] = here
  BY <1>3, <1>6, KnownLabels
<1>8. IsBool(e) /\ back \in Nat
  BY <1>3, <1>4, <1>5 DEF Gives, ItemOK
<1>9. PICK t, u : t = ListsOf(e) /\ u = <<back>>
  OBVIOUS
<1>10. t \in Seq(Nat) /\ u \in Seq(Nat) /\ Range(u) = {back} /\ IsInjective(u)
  <2>1. IsExpr(e)
    BY <1>8 DEF IsExpr
  <2>2. t \in Seq(Nat)
    BY <1>9, <2>1, ListsAre
  <2> QED BY <1>8, <1>9, <2>2 DEF Range, IsInjective
<1>11. Append(t, back) = t \o u
  BY <1>8, <1>9, <1>10
<1>12. /\ Range(t \o u) = Range(t) \cup Range(u)
       /\ IsInjective(t \o u) <=> IsInjective(t) /\ IsInjective(u) /\ Range(t) \cap Range(u) = {}
  BY <1>10, Joined
<1>13. IsInjective(t) /\ back \notin Range(t) /\ Range(View(x).held) = Range(t) \cup {back}
  <2>1. IsInjective(t \o u)
    BY <1>3, <1>6, <1>9, <1>11 DEF Gives
  <2> QED BY <1>6, <1>9, <1>10, <1>11, <1>12, <2>1
<1>14. /\ l \in LoopSet /\ IsInjective(ListsOfLoop(l)) /\ (Range(t) \cup {back}) \cap L = {}
  BY <1>2, <1>3, <1>5, <1>13 DEF GivesLoop
<1>15. PICK F, H, c : F = (Range(t) \cup {back}) \cup L /\ H = F \cup {n} /\ c = Append(quads, OpenJump)
  OBVIOUS
<1>16. Ground(b, quads, F, ks, savedLoops, bodies, R, h, here)
  BY <1>3, <1>5, <1>13, <1>15
<1>17. Ground(b, c, H, ks, savedLoops, bodies, R, h, here) /\ Len(c) = n + 1 /\ n \in Nat /\ n \notin F
  BY <1>5, <1>15, <1>16, OpenJumpIs, JumpEmittedIn
<1>18. Given(e, H)
  BY <1>8, <1>9, <1>13, <1>15 DEF Given, IsExpr
<1>19. Range(ListsOfLoop(l)) \subseteq H /\ Range(ListsOf(e)) \cap Range(ListsOfLoop(l)) = {}
  BY <1>5, <1>9, <1>14, <1>15
<1>20. PICK body : body = back + 1
  OBVIOUS
<1>21. /\ body \in Nat /\ body <= Len(c) /\ h[body] = here
       /\ step \in Nat /\ step <= Len(c) /\ h[step] = here
       /\ test \in Nat /\ test <= Len(c) /\ h[test] = here
  BY <1>5, <1>7, <1>17, <1>20
<1>22. PICK d : d = LoopPatched(c, l, e, body, step)
  OBVIOUS
<1>23. Working(d, (H \ Range(ListsOf(e))) \ Range(ListsOfLoop(l)), R, h, here) /\ Len(d) = Len(c)
  <2>1. Working(c, H, R, h, here)
    BY <1>17 DEF Ground
  <2>2. IsBool(e)
    BY <1>8
  <2>3. l \in LoopSet /\ IsInjective(ListsOfLoop(l))
    BY <1>14
  <2>4. PICK P : P = LoopPatched(c, l, e, body, step)
    OBVIOUS
  <2>5. Working(P, (H \ Range(ListsOf(e))) \ Range(ListsOfLoop(l)), R, h, here) /\ Len(P) = Len(c)
    BY <2>1, <2>2, <2>3, <1>18, <1>19, <1>21, <2>4, LoopIsPatched
  <2> QED BY <1>22, <2>4, <2>5
<1>24. PICK G : G = {back, n}
  OBVIOUS
<1>25. (H \ Range(ListsOf(e))) \ Range(ListsOfLoop(l)) = G /\ back # n
  BY <1>5, <1>9, <1>13, <1>14, <1>15, <1>17, <1>24
<1>26. Ground(b, d, G, ks, savedLoops, bodies, R, h, here)
  <2>1. PICK K : K = (H \ Range(ListsOf(e))) \ Range(ListsOfLoop(l))
    OBVIOUS
  <2>2. Working(d, K, R, h, here)
    BY <1>23, <2>1
  <2>3. K = G
    BY <1>25, <2>1
  <2>4. Working(d, G, R, h, here)
    BY <2>2, <2>3
  <2>5. Len(c) <= Len(d)
    BY <1>17, <1>23
  <2> QED BY <1>17, <2>4, <2>5, Further
<1>27. PICK p, v : p = PatchList(d, u, test) /\ v = <<n>>
  OBVIOUS
<1>28. Ground(b, p, G \ Range(u), ks, savedLoops, bodies, R, h, here) /\ Len(p) = Len(d)
  <2>1. Range(u) \subseteq G /\ test <= Len(d)
    BY <1>10, <1>21, <1>23, <1>24
  <2>2. PICK q : q = PatchList(d, u, test)
    OBVIOUS
  <2>3. Ground(b, q, G \ Range(u), ks, savedLoops, bodies, R, h, here)
    BY <1>21, <1>26, <2>1, <2>2, PatchedIn
  <2>4. d \in Seq(QuadSet)
    BY <1>26 DEF Ground, Working, Code
  <2>5. Len(d) \in Nat /\ DOMAIN d = 1..Len(d)
    BY <2>4
  <2>6. Len(q) = Len(d)
    BY <2>2, <2>5, PatchedLength
  <2> QED BY <1>27, <2>2, <2>3, <2>6
<1>29. PICK K : K = G \ Range(u)
  OBVIOUS
<1>30. Range(v) = {n} /\ K = {n}
  <2>1. Range(v) = {n}
    BY <1>27 DEF Range
  <2> QED BY <1>10, <1>24, <1>25, <1>29, <2>1
<1>31. PICK q : q = PatchList(p, v, step)
  OBVIOUS
<1>32. Ground(b, q, K \ Range(v), ks, savedLoops, bodies, R, h, here)
  <2>1. Range(v) \subseteq K /\ step <= Len(p)
    BY <1>21, <1>23, <1>28, <1>30
  <2>2. Ground(b, p, K, ks, savedLoops, bodies, R, h, here)
    BY <1>28, <1>29
  <2> QED BY <1>21, <1>31, <2>1, <2>2, PatchedIn
<1>33. Ground(b, q, {}, ks, savedLoops, bodies, R, h, here)
  <2>1. K \ Range(v) = {}
    BY <1>30
  <2> QED BY <1>32, <2>1
<1>34. PICK tree : tree = [op |-> "for", init |-> x.init, cond |-> e.tree, step |-> x.steps, body |-> Top.tree]
  OBVIOUS
<1>35. Good(q, stack', ks, savedLoops, bodies)
  BY <1>2, <1>5, <1>33, <1>34, StmtPut DEF For, EndStmt
<1>36. quads' = q /\ loop_stack' = ks
  BY <1>2, <1>5, <1>9, <1>15, <1>20, <1>22, <1>27, <1>31 DEF For
<1> QED BY <1>35, <1>36 DEF For, Now

LEMMA PlaceSet == NoArg \in Places
BY DEF NoArg, Places

LEMMA FunctionQuads ==
  /\ Quad("funcstart", NoArg, NoArg, NoArg, 0) \in QuadSet
  /\ Quad("funcstart", NoArg, NoArg, NoArg, 0).op \notin JumpOps
  /\ Quad("funcend", NoArg, NoArg, NoArg, 0) \in QuadSet
  /\ Quad("funcend", NoArg, NoArg, NoArg, 0).op \notin JumpOps
<1>1. "funcstart" \notin JumpOps /\ "funcend" \notin JumpOps
  BY JumpOpsAre
<1> QED BY <1>1, PlaceSet DEF Quad, QuadSet

LEMMA KeptByBeginFunction ==
  ASSUME Now, BeginFunction
  PROVE  Now'
<1>1. PICK n, w, x : n = Len(quads) /\ w = Wanted
                     /\ x = [kind |-> "funcbody", stmts |-> <<>>, start |-> n, called |-> w]
  OBVIOUS
<1>2. x.kind = "funcbody" /\ x.start = n /\ {"kind", "stmts"} \subseteq DOMAIN x
      /\ "start" \in DOMAIN x /\ x = [f \in DOMAIN x |-> x[f]]
  BY <1>1
<1>3. PICK R, h, here : Ground(stack, quads, {}, loop_stack, savedLoops, bodies, R, h, here)
  BY GoodGround DEF Now
<1>4. n \in Nat
  BY <1>1, <1>3 DEF Ground, Context
<1>5. PICK v : v = [class |-> "func", held |-> <<>>, labels |-> {}, start |-> n]
  OBVIOUS
<1>6. View(x) = v
  BY <1>2, <1>5, ViewsAre
<1>7. v \in ViewSet /\ v.class = "func" /\ v.held = <<>> /\ v.labels = {} /\ v.start = n
  <2>1. <<>> \in Seq(Nat)
    BY Emptied
  <2> QED BY <1>4, <1>5, <2>1 DEF ViewSet
<1>8. ItemOK(x) /\ x.kind # "program"
  BY <1>2, <1>4, JumpOpsAre DEF ItemOK, Kinds, ExprRules, StmtRules, ListRules, StmtLists
<1>9. PICK q, s : q = Quad("funcstart", NoArg, NoArg, NoArg, 0) /\ s = Append(stack, x)
  OBVIOUS
<1>10. StackPart(stack) /\ View(x) \in ViewSet
  BY <1>3, <1>6, <1>7 DEF Ground
<1>11. Topped(stack, x, s)
  BY <1>8, <1>9, <1>10, PutTop
<1>12. StackPart(s) /\ Views(s) = Append(Views(stack), v)
  BY <1>6, <1>11 DEF Topped
<1>13. q \in QuadSet /\ q.op \notin JumpOps
  BY <1>9, FunctionQuads
<1>14. PICK vs : vs = Views(stack)
  OBVIOUS
<1>15. Context(vs, loop_stack, savedLoops, bodies, R, h, here, Len(quads)) /\ Working(quads, {}, R, h, here)
  BY <1>3, <1>14 DEF Ground
<1>16. v.start = Len(quads)
  BY <1>1, <1>7
<1>17. Sound(Append(quads, q), Append(vs, v), <<>>, Append(savedLoops, loop_stack), bodies)
  BY <1>7, <1>13, <1>15, <1>16, OpenFunction
<1>18. Good(Append(quads, q), s, <<>>, Append(savedLoops, loop_stack), bodies)
  BY <1>12, <1>14, <1>17 DEF Good
<1> QED BY <1>1, <1>9, <1>18 DEF BeginFunction, Now

LEMMA KeptByEndFunction ==
  ASSUME Now, EndFunction
  PROVE  Now'
<1>1. PICK n, x, b : n = Len(stack) /\ x = stack[n] /\ b = SubSeq(stack, 1, n - 1)
  OBVIOUS
<1>2. Top = x /\ Rest(1) = b
  BY <1>1 DEF Top, Last, Rest
<1>3. x.kind = "funcbody"
  BY <1>2 DEF EndFunction, Kind
<1>4. PICK R, h, here : Ground(stack, quads, {}, loop_stack, savedLoops, bodies, R, h, here)
  BY GoodGround DEF Now
<1>5. StackPart(stack) /\ stack[n].kind # "program"
  BY <1>1, <1>3, <1>4 DEF Ground
<1>6. Topped(b, x, stack) /\ Lowered(stack, n, b)
  BY <1>1, <1>5, TakeTop
<1>7. PICK v, vs : v = View(x) /\ vs = Views(b)
  OBVIOUS
<1>8. StackPart(b) /\ vs \in Seq(ViewSet) /\ v \in ViewSet /\ Views(stack) = Append(vs, v)
  BY <1>6, <1>7, ViewsTyped DEF Topped
<1>9. v.class = "func" /\ v.held = <<>> /\ v.start = x.start
  <2>1. View(x) = [class |-> "func", held |-> <<>>, labels |-> {}, start |-> x.start]
    BY <1>3, ViewsAre
  <2> QED BY <1>7, <2>1
<1>10. PICK q, d, ss : /\ q = Quad("funcend", NoArg, NoArg, NoArg, 0) /\ ss = x.stmts
                       /\ d = [start |-> x.start, end |-> Len(quads), stmts |-> ss]
  OBVIOUS
<1>11. q \in QuadSet /\ q.op \notin JumpOps
  BY <1>10, FunctionQuads
<1>12. d.start = v.start /\ d.end = Len(quads)
  BY <1>9, <1>10
<1>13. Context(Append(vs, v), loop_stack, savedLoops, bodies, R, h, here, Len(quads))
       /\ Working(quads, {}, R, h, here)
  BY <1>4, <1>8 DEF Ground
<1>14. Sound(Append(quads, q), vs, Last(savedLoops), Front(savedLoops), Append(bodies, d))
  BY <1>8, <1>9, <1>11, <1>12, <1>13, CloseFunction
<1>15. Good(Append(quads, q), b, Last(savedLoops), Front(savedLoops), Append(bodies, d))
  BY <1>7, <1>8, <1>14 DEF Good
<1>16. /\ quads' = Append(quads, q) /\ loop_stack' = Last(savedLoops) /\ savedLoops' = Front(savedLoops)
       /\ bodies' = Append(bodies, d)
  BY <1>2, <1>10 DEF EndFunction
<1>17. Good(quads', b, loop_stack', savedLoops', bodies')
  BY <1>15, <1>16
<1>18. CASE Top.called
  <2>1. PICK y : y = [kind |-> "call", args |-> <<>>]
    OBVIOUS
  <2>2. ItemOK(y) /\ y.kind # "program" /\ View(y) = PlainView(<<>>, {})
    BY <2>1, CallItem
  <2>3. PICK c, ls, sv, bs : c = quads' /\ ls = loop_stack' /\ sv = savedLoops' /\ bs = bodies'
    OBVIOUS
  <2>4. PICK R1, h1, here1 : Ground(b, c, {}, ls, sv, bs, R1, h1, here1)
    BY <1>17, <2>3, GoodGround
  <2>5. Fits(y, <<>>, {}, c, h1, here1) /\ Range(<<>>) = {}
    BY <2>2, Emptied DEF Fits
  <2>6. PICK s : s = Append(b, y)
    OBVIOUS
  <2>7. Good(c, s, ls, sv, bs)
    BY <2>2, <2>4, <2>5, <2>6, PutItem
  <2>8. stack' = s
    BY <1>2, <1>18, <2>1, <2>6 DEF EndFunction
  <2> QED BY <2>3, <2>7, <2>8 DEF Now
<1>19. CASE ~ Top.called
  <2>1. PICK tree : tree = [op |-> "block", stmts |-> <<>>]
    OBVIOUS
  <2>2. EndStmt(b, tree)
    BY <1>2, <1>19, <2>1 DEF EndFunction
  <2>3. Good(quads', stack', loop_stack', savedLoops', bodies')
    BY <1>17, <2>2, StmtEnded DEF EndStmt
  <2> QED BY <2>3 DEF Now
<1> QED BY <1>18, <1>19

\* The item of the program, before anything is parsed.
LEMMA FirstItem ==
  ASSUME NEW x, x = [kind |-> "program", stmts |-> <<>>], NEW s, s = <<x>>
  PROVE  /\ StackPart(s) /\ View(x) = PlainView(<<>>, {}) /\ View(x) \in ViewSet /\ View(x).class = "plain"
         /\ Views(s) = Append(<<>>, View(x))
<1>1. x.kind = "program" /\ {"kind", "stmts"} \subseteq DOMAIN x /\ x = [f \in DOMAIN x |-> x[f]]
  OBVIOUS
<1>2. ItemOK(x)
  BY <1>1, JumpOpsAre DEF ItemOK, Kinds, ExprRules, StmtRules, ListRules, StmtLists
<1>3. View(x) = PlainView(<<>>, {})
  <2>1. HeldBy(x) = <<>> /\ LabelsOf(x) = {}
    BY <1>1, JumpOpsAre, Zenon DEF HeldBy, LabelsOf, ListRules
  <2> QED BY <1>1, <2>1 DEF View, LoopRules, PlainView
<1>4. View(x) \in ViewSet /\ View(x).class = "plain"
  <2>1. <<>> \in Seq(Nat)
    BY Emptied
  <2>2. PlainView(<<>>, {}) \in ViewSet /\ PlainView(<<>>, {}).class = "plain"
    BY <2>1 DEF PlainView, ViewSet
  <2> QED BY <1>3, <2>2
<1>5. DOMAIN s = {1} /\ s[1] = x /\ Range(s) = {x} /\ s # <<>>
  BY DEF Range
<1>6. IsSeq(s)
  BY <1>5 DEF IsSeq
<1>7. StackPart(s)
  BY <1>1, <1>2, <1>4, <1>5, <1>6 DEF StackPart
<1>8. Views(s) = Append(<<>>, View(x))
  <2>1. Views(s) = [i \in {1} |-> View(x)]
    BY <1>5 DEF Views
  <2>2. Append(<<>>, View(x)) = <<View(x)>>
    OBVIOUS
  <2> QED BY <2>1, <2>2
<1> QED BY <1>3, <1>4, <1>7, <1>8

LEMMA NothingHeld == HeldOf(<<>>, <<>>, <<>>) = <<>>
<1>1. FlattenSeq(<<>>) = <<>>
  BY FlattenEmpty
<1>2. HeldIn(<<>>) = <<>>
  <2>1. PICK a : a = [i \in DOMAIN <<>> |-> <<>>[i].held]
    OBVIOUS
  <2>2. a = <<>>
    BY <2>1
  <2> QED BY <1>1, <2>1, <2>2 DEF HeldIn
<1>3. HeldBySaved(<<>>) = <<>>
  <2>1. PICK a : a = [i \in DOMAIN <<>> |-> HeldByLoops(<<>>[i])]
    OBVIOUS
  <2>2. a = <<>>
    BY <2>1
  <2> QED BY <1>1, <2>1, <2>2 DEF HeldBySaved
<1> QED BY <1>2, <1>3, HeldByNoLoops DEF HeldOf

LEMMA NothingYet ==
  \E R, h, here : Context(<<>>, <<>>, <<>>, <<>>, R, h, here, 0) /\ Working(<<>>, {}, R, h, here)
<1>1. PICK vs, loops, saved, done, code, R, here, h :
        /\ vs = <<>> /\ loops = <<>> /\ saved = <<>> /\ done = <<>> /\ code = <<>>
        /\ R = {} /\ here = {} /\ h = HomesOf(done, here)
  OBVIOUS
<1>2. Types(vs, loops, saved)
  BY <1>1 DEF Types
<1>3. /\ Len(vs) = 0 /\ DOMAIN vs = {} /\ Len(loops) = 0 /\ Len(saved) = 0 /\ Len(code) = 0
      /\ DOMAIN code = {} /\ DOMAIN done = {} /\ 1..0 = {}
  BY <1>1
<1>4. Opened(vs, 0) = {}
  BY <1>3 DEF Opened
<1>5. FuncsTo(vs, 0) = 0 /\ LoopsTo(vs, 0) = 0
  <2>1. Cardinality({}) = 0
    BY FS_EmptySet
  <2>2. {y \in 1..0 : vs[y].class = "func"} = {}
    BY <1>3
  <2>3. {y \in 1..0 : vs[y].class = "loop" /\ \A z \in y + 1..0 : vs[z].class # "func"} = {}
    BY <1>3
  <2> QED BY <2>1, <2>2, <2>3 DEF FuncsTo, LoopsTo
<1>6. R = Range(HeldOf(vs, loops, saved)) /\ IsInjective(HeldOf(vs, loops, saved))
  BY <1>1, NothingHeld, Emptied
<1>7. Nested(vs, loops, saved, h, 0)
  <2>1. Range(HeldByLoops(loops)) = {}
    BY <1>1, HeldByNoLoops, Emptied
  <2> QED BY <1>3, <1>5, <2>1 DEF Nested
<1>8. Apart(done, here, 0)
  BY <1>1, <1>3, Emptied DEF Apart
<1>9. Context(vs, loops, saved, done, R, h, here, 0)
  BY <1>1, <1>2, <1>3, <1>4, <1>6, <1>7, <1>8 DEF Context
<1>10. \A n \in Nat : h[n] = here
  BY <1>1, <1>3 DEF HomesOf
<1>11. Code(code, {}, h)
  <2>1. JumpsOf(code) = {}
    BY <1>3 DEF JumpsOf
  <2> QED BY <1>1, <2>1 DEF Code
<1>12. Working(code, {}, R, h, here)
  BY <1>1, <1>10, <1>11 DEF Working
<1> QED BY <1>1, <1>9, <1>12

LEMMA NowAtFirst ==
  ASSUME Init
  PROVE  Now
<1>1. PICK x, s : x = [kind |-> "program", stmts |-> <<>>] /\ s = <<x>>
  OBVIOUS
<1>2. stack = s /\ quads = <<>> /\ loop_stack = <<>> /\ savedLoops = <<>> /\ bodies = <<>>
  BY <1>1 DEF Init
<1>3. PICK v : v = View(x)
  OBVIOUS
<1>4. StackPart(s) /\ v \in ViewSet /\ v.class = "plain" /\ v.held = <<>> /\ v.labels = {}
      /\ Views(s) = Append(<<>>, v)
  BY <1>1, <1>3, FirstItem DEF PlainView
<1>5. PICK vs, code, R, h, here : vs = <<>> /\ code = <<>> /\ Len(code) = 0
                     /\ Context(vs, <<>>, <<>>, <<>>, R, h, here, 0) /\ Working(code, {}, R, h, here)
  <2>1. Len(<<>>) = 0
    OBVIOUS
  <2> QED BY <2>1, NothingYet
<1>6. Sound(code, Append(vs, v), <<>>, <<>>, <<>>)
  <2>1. Range(v.held) = {} /\ IsInjective(v.held)
    BY <1>4, Emptied
  <2>2. Knows(v, h, Len(code), here)
    BY <1>4, <2>1 DEF Knows
  <2> QED BY <1>4, <1>5, <2>1, <2>2, PutPlain
<1>7. Good(code, s, <<>>, <<>>, <<>>)
  BY <1>4, <1>5, <1>6 DEF Good
<1> QED BY <1>2, <1>5, <1>7 DEF Now

LEMMA NowKept ==
  ASSUME Now, [Next]_vars
  PROVE  Now'
<1>1. CASE \E k \in Comparisons : ComparisonLeft(k) \/ Comparison(k)
  BY <1>1, KeptByComparisonLeft, KeptByComparison
<1>2. CASE AndOrLeft("and") \/ AndOrLeft("or") \/ And \/ Or
  BY <1>2, KeptByAndOrLeft, KeptByAnd, KeptByOr
<1>3. CASE BeginPrefix("not") \/ Not \/ BeginPrefix("assign") \/ Assign
  BY <1>3, KeptByBeginPrefix, KeptByNot, KeptByAssign
<1>4. CASE BeginPrefix("call") \/ Comma \/ CallEnd
  BY <1>4, KeptByBeginPrefix, KeptByComma, KeptByCallEnd
<1>5. CASE BeginExprStmt \/ ExprStmt \/ BeginBlock \/ EndBlock
  BY <1>5, KeptByBeginExprStmt, KeptByExprStmt, KeptByBeginBlock, KeptByEndBlock
<1>6. CASE BeginIf \/ IfPrefix \/ If \/ Else \/ IfElse
  BY <1>6, KeptByBeginIf, KeptByIfPrefix, KeptByIf, KeptByElse, KeptByIfElse
<1>7. CASE BeginWhile \/ WhileCondition \/ While
  BY <1>7, KeptByBeginWhile, KeptByWhileCondition, KeptByWhile
<1>8. CASE BeginFor \/ ForInit \/ ForCondition \/ ForStep \/ For
  BY <1>8, KeptByBeginFor, KeptByForInit, KeptByForCondition, KeptByForStep, KeptByFor
<1>9. CASE Leave("break") \/ Leave("continue") \/ LeaveNothing("break") \/ LeaveNothing("continue")
  BY <1>9, KeptByLeave, KeptByLeaveNothing
<1>10. CASE BeginReturn \/ ReturnValue \/ Return \/ ReturnOutside
  BY <1>10, KeptByBeginReturn, KeptByReturnValue, KeptByReturn, KeptByReturnOutside
<1>11. CASE BeginFunction \/ EndFunction
  BY <1>11, KeptByBeginFunction, KeptByEndFunction
<1>12. CASE UNCHANGED vars
  BY <1>12 DEF vars, Now
<1> QED BY <1>1, <1>2, <1>3, <1>4, <1>5, <1>6, <1>7, <1>8, <1>9, <1>10, <1>11, <1>12 DEF Next

-----------------------------------------------------------------------------
(* The theorems. *)

\* The states of the parser have what every rule relies on: the items of the
\* stack are what the rules that find them expect, the loops are those of the
\* function being parsed, and all that waits for a target is in the function
\* that its item or its loop is in (parser.y, quads.c:140-168).
THEOREM JumpsInvariance == Spec => []IInv
<1>1. Init => Now
  BY NowAtFirst
<1>2. Now /\ [Next]_vars => Now'
  BY NowKept
<1>3. Now => IInv
  BY GoodIsInvariant DEF Now
<1> QED BY <1>1, <1>2, <1>3, PTL DEF Spec

\* patch_list and merge_lists (quads.c:140-168) thread the lists through the
\* jumps themselves: no jump is ever in two lists or lost from one, and each
\* one that left its list was given its target once.
THEOREM JumpsArePatchedOnce == Spec => []PatchedOnce
<1>1. IInv => PatchedOnce
  <2> SUFFICES ASSUME IInv PROVE PatchedOnce
    OBVIOUS
  <2>1. IsInjective(Held) /\ Code(quads, Range(Held), Home)
    BY DEF IInv
  <2>2. Jumps = JumpsOf(quads)
    BY DEF Jumps, JumpsOf, JumpOps
  <2>3. Range(Held) \subseteq Jumps
    BY <2>1, <2>2 DEF Code
  <2>4. \A n \in Jumps : IF n \in Range(Held) THEN quads[n + 1].patches = 0 /\ quads[n + 1].label = 0
                         ELSE quads[n + 1].patches = 1
    BY <2>1, <2>2 DEF Code
  <2> QED BY <2>1, <2>3, <2>4 DEF PatchedOnce
<1> QED BY <1>1, JumpsInvariance, PTL

\* The item of the program has no jumps and no places.
LEMMA ProgramView ==
  ASSUME NEW x, x.kind = "program"
  PROVE  View(x) = PlainView(<<>>, {})
<1>1. HeldBy(x) = <<>> /\ LabelsOf(x) = {}
  BY JumpOpsAre, Zenon DEF HeldBy, LabelsOf, ListRules
<1> QED BY <1>1 DEF View, LoopRules, PlainView

\* When only the program is left on the stack no jump waits.
LEMMA NothingWaits ==
  ASSUME Now, Len(stack) = 1
  PROVE  Held = <<>> /\ Home = HomesOf(bodies, {})
<1>1. StackPart(stack) /\ Sound(quads, Views(stack), loop_stack, savedLoops, bodies)
  BY DEF Now, Good
<1>2. PICK vs : vs = Views(stack)
  OBVIOUS
<1>3. PICK R, h, here : Context(vs, loop_stack, savedLoops, bodies, R, h, here, Len(quads))
  BY <1>1, <1>2 DEF Sound
<1>4. vs \in Seq(ViewSet) /\ Len(vs) = 1 /\ DOMAIN stack = 1..1 /\ vs[1] = View(stack[1])
  BY <1>1, <1>2, ViewsTyped DEF StackPart
<1>5. PICK v : v = vs[1]
  OBVIOUS
<1>6. v.class = "plain" /\ v.held = <<>> /\ v \in ViewSet
  <2>1. stack[1].kind = "program"
    BY <1>1 DEF StackPart
  <2>2. View(stack[1]) = PlainView(<<>>, {})
    BY <2>1, ProgramView
  <2>3. v = PlainView(<<>>, {})
    BY <1>4, <1>5, <2>2
  <2>4. v.class = "plain" /\ v.held = <<>>
    BY <2>3 DEF PlainView
  <2>5. v \in ViewSet
    BY <1>4, <1>5
  <2> QED BY <2>4, <2>5
<1>7. PICK none \in Seq(ViewSet) : none = <<>> /\ Len(none) = 0
  <2>1. <<>> \in Seq(ViewSet) /\ Len(<<>>) = 0
    OBVIOUS
  <2> QED BY <2>1
<1>8. vs = Append(none, v)
  BY <1>4, <1>5, <1>7
<1>9. Pushed(none, v, vs, 0)
  BY <1>6, <1>7, <1>8, OneItemMore
<1>10. Opened(none, 0) = {} /\ FuncsTo(none, 0) = 0 /\ LoopsTo(none, 0) = 0
  <2>1. Cardinality({}) = 0
    BY FS_EmptySet
  <2>2. {y \in 1..0 : none[y].class = "func"} = {}
    OBVIOUS
  <2>3. {y \in 1..0 : none[y].class = "loop" /\ \A z \in y + 1..0 : none[z].class # "func"} = {}
    OBVIOUS
  <2> QED BY <2>1, <2>2, <2>3 DEF Opened, FuncsTo, LoopsTo
<1>11. Opened(vs, 1) = {} /\ FuncsTo(vs, 1) = 0 /\ LoopsTo(vs, 1) = 0
  <2>1. 0 + 1 = 1 /\ v.class # "func"
    BY <1>6
  <2> QED BY <1>6, <1>9, <1>10, <2>1 DEF Pushed
<1>12. loop_stack = <<>> /\ savedLoops = <<>>
  <2>1. Len(savedLoops) = 0 /\ Len(loop_stack) = 0
    BY <1>3, <1>4, <1>11 DEF Context, Nested
  <2>2. loop_stack \in Seq(LoopSet) /\ savedLoops \in Seq(Seq(LoopSet))
    BY <1>3 DEF Context, Types
  <2> QED BY <2>1, <2>2
<1>13. HeldIn(vs) = HeldIn(<<>>)
  <2>1. HeldIn(vs) = HeldIn(none) \o v.held /\ HeldIn(none) \in Seq(Nat)
    BY <1>6, <1>7, <1>8, HeldInOneMore
  <2> QED BY <1>6, <1>7, <2>1
<1>14. Held = <<>>
  BY <1>2, <1>12, <1>13, HeldInParts, NothingHeld DEF HeldOf
<1>15. Home = HomesOf(bodies, {})
  BY <1>2, <1>11 DEF Home
<1> QED BY <1>14, <1>15

\* When the program is parsed, every jump and its target are in the same
\* functions: generate_jump and generate_relational (target_code.c) count on
\* it, and so does the machine, which has no other way out of a function than
\* funcexit.
THEOREM JumpsStay == Spec => []JumpsStayInFunction
<1>1. Now => JumpsStayInFunction
  <2> SUFFICES ASSUME Now, Finished, NEW n \in Jumps
               PROVE  Around(quads[n + 1].label) = Around(n)
    BY DEF JumpsStayInFunction
  <2>1. Held = <<>> /\ Home = HomesOf(bodies, {})
    BY NothingWaits DEF Finished
  <2>2. IInv
    BY GoodIsInvariant DEF Now
  <2>3. Range(Held) = {}
    BY <2>1, Emptied
  <2>4. n \in JumpsOf(quads) /\ n \in 0..Len(quads) - 1
    BY DEF Jumps, JumpsOf, JumpOps
  <2>5. quads \in Seq(QuadSet)
    BY <2>2 DEF IInv, Code
  <2>6. PICK m, h : m = quads[n + 1].label /\ h = Home
    OBVIOUS
  <2>7. n \in Nat /\ m \in Nat
    <3>1. quads[n + 1] \in QuadSet
      BY <2>4, <2>5
    <3> QED BY <2>4, <2>6, <3>1 DEF QuadSet
  <2>8. h[m] = h[n]
    BY <2>2, <2>3, <2>4, <2>6 DEF IInv, Code
  <2>9. h[m] = {bodies[i].start : i \in Around(m)} /\ h[n] = {bodies[i].start : i \in Around(n)}
    BY <2>1, <2>6, <2>7 DEF HomesOf, Around
  <2>10. \A i, j \in DOMAIN bodies : bodies[i].start = bodies[j].start => i = j
    BY <2>2 DEF IInv, BodiesApart
  <2>11. Around(m) \subseteq DOMAIN bodies /\ Around(n) \subseteq DOMAIN bodies
    BY DEF Around
  <2>12. ASSUME NEW i \in DOMAIN bodies
         PROVE  i \in Around(m) <=> i \in Around(n)
    <3>1. i \in Around(m) <=> bodies[i].start \in h[m]
      BY <2>9, <2>10, <2>11
    <3>2. i \in Around(n) <=> bodies[i].start \in h[n]
      BY <2>9, <2>10, <2>11
    <3> QED BY <2>8, <3>1, <3>2
  <2>13. Around(m) = Around(n)
    BY <2>11, <2>12
  <2> QED BY <2>6, <2>13
<1>2. Spec => []Now
  BY NowAtFirst, NowKept, PTL DEF Spec
<1> QED BY <1>1, <1>2, PTL
=============================================================================
