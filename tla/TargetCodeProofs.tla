------------------------- MODULE TargetCodeProofs -------------------------
(***************************************************************************)
(* Proofs about the code generator, for any quads that the parser may      *)
(* leave (QuadsAssumption), with any limits.                               *)
(***************************************************************************)
EXTENDS TargetCode, FiniteSetTheorems, NaturalsInduction, WellFoundedInduction, SequenceTheorems, TLAPS

-----------------------------------------------------------------------------
(* Quads nest. *)

\* A nonempty set of natural numbers has a least element.
LEMMA LeastOfSet ==
  ASSUME NEW T, T \subseteq Nat, T # {}
  PROVE  \E x \in T : \A y \in T : x <= y
<1> DEFINE R == OpToRel(<, Nat)
<1>1. IsWellFoundedOn(R, Nat)
  BY NatLessThanWellFounded
<1>2. \A x, y \in Nat : x < y => <<x, y>> \in R
  BY DEF OpToRel
<1> HIDE DEF R
<1>3. PICK x \in T : \A y \in T : ~ (<<y, x>> \in R)
  BY <1>1, WFMin
<1>4. \A y \in T : ~ (y < x)
  BY <1>2, <1>3
<1> QED
  BY <1>3, <1>4

\* A nonempty set of natural numbers up to k has a greatest element.
LEMMA GreatestOfSet ==
  ASSUME NEW k \in Nat, NEW S, S \subseteq 0..k, S # {}
  PROVE  \E x \in S : \A y \in S : y <= x
<1> DEFINE T == {k - x : x \in S}
<1>1. T \subseteq Nat /\ T # {}
  <2>1. PICK x : x \in S
    OBVIOUS
  <2>2. k - x \in T
    BY <2>1
  <2> QED BY <2>2
<1> HIDE DEF T
<1>2. PICK d \in T : \A e \in T : d <= e
  BY <1>1, LeastOfSet
<1>3. PICK x \in S : d = k - x
  BY <1>2 DEF T
<1>4. \A y \in S : k - y \in T
  BY DEF T
<1> QED
  BY <1>2, <1>3, <1>4

\* How much deeper in functions the quads go from a to b.
Balance(qs, a, b) == Count(qs, "funcstart", a, b) - Count(qs, "funcend", a, b)

\* What the parser leaves of functions: they all end, and not before they start.
WellNested(qs, n) ==
  /\ DOMAIN qs = 0..n - 1
  /\ \A k \in 0..n - 1 : Balance(qs, 0, k) >= 0
  /\ Balance(qs, 0, n - 1) = 0

Counted(qs, op, a, b) == {k \in a..b : qs[k].op = op}

LEMMA CountedAreFinite ==
  ASSUME NEW qs, NEW op, NEW a \in Int, NEW b \in Int
  PROVE  IsFiniteSet(Counted(qs, op, a, b))
BY FS_Interval, FS_Subset DEF Counted

LEMMA CountIsNat ==
  ASSUME NEW qs, NEW op, NEW a \in Int, NEW b \in Int
  PROVE  Count(qs, op, a, b) \in Nat
BY CountedAreFinite, FS_CardinalityType DEF Count, Counted

LEMMA CountOne ==
  ASSUME NEW qs, NEW op, NEW k \in Int
  PROVE  Count(qs, op, k, k) = IF qs[k].op = op THEN 1 ELSE 0
<1>1. k..k = {k}
  OBVIOUS
<1>2. {x \in k..k : qs[x].op = op} = IF qs[k].op = op THEN {k} ELSE {}
  BY <1>1
<1> QED BY <1>2, FS_Singleton, FS_EmptySet DEF Count

LEMMA CountSplits ==
  ASSUME NEW qs, NEW op, NEW a \in Int, NEW m \in Int, NEW b \in Int, a <= m + 1, m <= b
  PROVE  Count(qs, op, a, b) = Count(qs, op, a, m) + Count(qs, op, m + 1, b)
<1> DEFINE S == Counted(qs, op, a, m)
           T == Counted(qs, op, m + 1, b)
<1>1. Counted(qs, op, a, b) = S \cup T
  BY DEF Counted
<1>2. S \cap T = {}
  BY DEF Counted
<1>3. IsFiniteSet(S) /\ IsFiniteSet(T) /\ Cardinality(S) \in Nat /\ Cardinality(T) \in Nat
  <2>1. IsFiniteSet(S)
    BY CountedAreFinite
  <2>2. IsFiniteSet(T)
    <3>1. m + 1 \in Int
      OBVIOUS
    <3> QED BY <3>1, CountedAreFinite
  <2> HIDE DEF S, T
  <2> QED BY <2>1, <2>2, FS_CardinalityType
<1> HIDE DEF S, T
<1>4. Cardinality(S \cup T) = Cardinality(S) + Cardinality(T)
  <2>1. Cardinality(S \cup T) = Cardinality(S) + Cardinality(T) - Cardinality(S \cap T)
    BY <1>3, FS_Union
  <2> QED BY <1>2, <1>3, <2>1, FS_EmptySet
<1> QED BY <1>1, <1>4 DEF Count, Counted, S, T

LEMMA BalanceIsInt ==
  ASSUME NEW qs, NEW a \in Int, NEW b \in Int
  PROVE  Balance(qs, a, b) \in Int
BY CountIsNat DEF Balance

LEMMA BalanceOne ==
  ASSUME NEW qs, NEW k \in Int
  PROVE  /\ qs[k].op = "funcstart" => Balance(qs, k, k) = 1
         /\ qs[k].op = "funcend" => Balance(qs, k, k) = -1
         /\ qs[k].op \notin {"funcstart", "funcend"} => Balance(qs, k, k) = 0
BY CountOne DEF Balance

LEMMA BalanceSplits ==
  ASSUME NEW qs, NEW a \in Int, NEW m \in Int, NEW b \in Int, a <= m + 1, m <= b
  PROVE  Balance(qs, a, b) = Balance(qs, a, m) + Balance(qs, m + 1, b)
<1>1. \A op \in {"funcstart", "funcend"} :
        /\ Count(qs, op, a, b) = Count(qs, op, a, m) + Count(qs, op, m + 1, b)
        /\ Count(qs, op, a, b) \in Nat /\ Count(qs, op, a, m) \in Nat /\ Count(qs, op, m + 1, b) \in Nat
  <2> TAKE op \in {"funcstart", "funcend"}
  <2>1. m + 1 \in Int
    OBVIOUS
  <2> QED BY <2>1, CountSplits, CountIsNat
<1> QED BY <1>1 DEF Balance

\* What remains of the quads when a function starts takes it to its end.
LEMMA RestCloses ==
  ASSUME NEW qs, NEW n \in Nat, WellNested(qs, n), NEW s \in 0..n - 1
  PROVE  Balance(qs, s, n - 1) <= 0
<1>1. CASE s = 0
  BY <1>1 DEF WellNested
<1>2. CASE s > 0
  <2>1. Balance(qs, 0, n - 1) = Balance(qs, 0, s - 1) + Balance(qs, s, n - 1)
    BY <1>2, BalanceSplits
  <2>2. Balance(qs, 0, s - 1) >= 0 /\ Balance(qs, 0, n - 1) = 0
    BY <1>2 DEF WellNested
  <2>3. Balance(qs, 0, s - 1) \in Int /\ Balance(qs, s, n - 1) \in Int
    BY <1>2, BalanceIsInt
  <2> QED BY <2>1, <2>2, <2>3
<1> QED BY <1>1, <1>2

\* e is where the function that starts at s ends.
Ends(qs, s, e) ==
  /\ s < e
  /\ Balance(qs, s, e) = 0
  /\ \A x \in s..e - 1 : Balance(qs, s, x) > 0

LEMMA EndsOnce ==
  ASSUME NEW qs, NEW n \in Nat, DOMAIN qs = 0..n - 1, NEW s \in 0..n - 1,
         NEW e \in 0..n - 1, Ends(qs, s, e)
  PROVE  End(qs, s) = e
<1>1. \A x \in 0..n - 1, y \in Int :
        Balance(qs, s, y) = 0 <=> Count(qs, "funcstart", s, y) = Count(qs, "funcend", s, y)
  BY CountIsNat DEF Balance
<1>2. \A y \in Int :
        Balance(qs, s, y) > 0 <=> Count(qs, "funcstart", s, y) > Count(qs, "funcend", s, y)
  BY CountIsNat DEF Balance
<1>3. \A x \in DOMAIN qs : Ends(qs, s, x) <=>
        /\ s < x /\ Count(qs, "funcstart", s, x) = Count(qs, "funcend", s, x)
        /\ \A y \in s..x - 1 : Count(qs, "funcstart", s, y) > Count(qs, "funcend", s, y)
  BY <1>1, <1>2 DEF Ends
<1>4. \A x \in DOMAIN qs : Ends(qs, s, x) => x = e
  <2> SUFFICES ASSUME NEW x \in DOMAIN qs, Ends(qs, s, x), x # e
               PROVE  FALSE
    OBVIOUS
  <2>1. CASE x < e
    BY <2>1 DEF Ends
  <2>2. CASE e < x
    BY <2>2 DEF Ends
  <2> QED BY <2>1, <2>2
<1> QED BY <1>3, <1>4 DEF End

\* Every function ends, with a funcend.
LEMMA EndExists ==
  ASSUME NEW qs, NEW n \in Nat, WellNested(qs, n), NEW s \in FuncStarts(qs)
  PROVE  /\ End(qs, s) \in s + 1..n - 1
         /\ Ends(qs, s, End(qs, s))
         /\ qs[End(qs, s)].op = "funcend"
<1>1. s \in 0..n - 1 /\ qs[s].op = "funcstart"
  BY DEF WellNested, FuncStarts
<1> DEFINE T == {x \in s..n - 1 : Balance(qs, s, x) <= 0}
<1>2. T \subseteq Nat /\ T # {}
  <2>1. n - 1 \in T
    BY <1>1, RestCloses
  <2> QED BY <1>1, <2>1
<1> HIDE DEF T
<1>3. PICK e \in T : \A x \in T : e <= x
  BY <1>2, LeastOfSet
<1>4. e \in s..n - 1 /\ Balance(qs, s, e) <= 0 /\ \A x \in s..e - 1 : Balance(qs, s, x) > 0
  <2>1. \A x \in s..e - 1 : x \notin T /\ x \in s..n - 1 /\ Balance(qs, s, x) \in Int
    BY <1>1, <1>3, BalanceIsInt DEF T
  <2> QED BY <1>3, <2>1 DEF T
<1>5. Balance(qs, s, s) = 1
  BY <1>1, BalanceOne
<1>6. e > s
  BY <1>1, <1>4, <1>5
<1>7. /\ Balance(qs, s, e) = Balance(qs, s, e - 1) + Balance(qs, e, e)
      /\ Balance(qs, s, e - 1) \in Int /\ Balance(qs, s, e - 1) > 0
  <2>1. e - 1 \in Int /\ s <= e - 1 + 1 /\ e - 1 <= e /\ e - 1 + 1 = e /\ e - 1 \in s..e - 1 /\ s \in Int /\ e \in Int
    BY <1>1, <1>4, <1>6
  <2>2. Balance(qs, s, e) = Balance(qs, s, e - 1) + Balance(qs, e - 1 + 1, e)
    BY <2>1, BalanceSplits
  <2> QED BY <1>4, <2>1, <2>2, BalanceIsInt
<1>8. Balance(qs, e, e) = -1 /\ Balance(qs, s, e) = 0 /\ qs[e].op = "funcend"
  BY <1>1, <1>4, <1>7, BalanceOne
<1>9. Ends(qs, s, e) /\ e \in s + 1..n - 1
  BY <1>1, <1>4, <1>6, <1>8 DEF Ends
<1>10. End(qs, s) = e
  BY <1>1, <1>9, EndsOnce DEF WellNested
<1> QED BY <1>8, <1>9, <1>10

\* A function that starts in another one ends in it.
LEMMA EndsNest ==
  ASSUME NEW qs, NEW n \in Nat, WellNested(qs, n),
         NEW s \in FuncStarts(qs), NEW t \in FuncStarts(qs), s < t, t < End(qs, s)
  PROVE  End(qs, t) < End(qs, s)
<1>1. PICK e, f : e = End(qs, s) /\ f = End(qs, t)
  OBVIOUS
<1>2. s \in Nat /\ t \in Nat /\ e \in Int /\ f \in Int /\ t < f
  BY <1>1, EndExists DEF WellNested, FuncStarts
<1>3. Ends(qs, s, e) /\ Ends(qs, t, f)
  BY <1>1, EndExists
<1>4. Balance(qs, s, e) = Balance(qs, s, t - 1) + Balance(qs, t, e)
  BY <1>1, <1>2, BalanceSplits
<1>5. Balance(qs, s, t - 1) > 0 /\ Balance(qs, s, e) = 0
  BY <1>1, <1>2, <1>3 DEF Ends
<1>6. Balance(qs, s, t - 1) \in Int /\ Balance(qs, t, e) \in Int
  BY <1>2, BalanceIsInt
<1>7. Balance(qs, t, e) < 0
  BY <1>4, <1>5, <1>6
<1>8. Balance(qs, t, f) = 0 /\ \A x \in t..f - 1 : Balance(qs, t, x) > 0
  BY <1>3 DEF Ends
<1>9. e # f /\ e \notin t..f - 1
  BY <1>6, <1>7, <1>8
<1> QED BY <1>1, <1>2, <1>9

\* From a quad where the balance back to it is positive, a function is open.
LEMMA OpenedBefore ==
  ASSUME NEW qs, NEW n \in Nat, WellNested(qs, n), NEW k \in 0..n - 1,
         NEW b \in 0..1, Balance(qs, 0, k) >= b
  PROVE  \E s \in 0..k : Balance(qs, s, k) >= b /\ \A x \in s + 1..k : Balance(qs, x, k) < b
<1> DEFINE S == {x \in 0..k : Balance(qs, x, k) >= b}
<1>1. S \subseteq 0..k /\ 0 \in S
  OBVIOUS
<1> HIDE DEF S
<1>2. PICK s \in S : \A x \in S : x <= s
  <2>1. S # {} /\ k \in Nat
    BY <1>1
  <2> QED BY <1>1, <2>1, GreatestOfSet
<1>3. \A x \in s + 1..k : x \notin S /\ x \in 0..k /\ Balance(qs, x, k) \in Int
  BY <1>1, <1>2, BalanceIsInt
<1> QED BY <1>2, <1>3 DEF S

\* Every funcend ends a function.
LEMMA EndsAreMatched ==
  ASSUME NEW qs, NEW n \in Nat, WellNested(qs, n), NEW k \in 0..n - 1, qs[k].op = "funcend"
  PROVE  \E s \in FuncStarts(qs) : s < k /\ End(qs, s) = k
<1>1. PICK s \in 0..k : Balance(qs, s, k) >= 0 /\ \A x \in s + 1..k : Balance(qs, x, k) < 0
  BY OpenedBefore DEF WellNested
<1>2. Balance(qs, k, k) = -1 /\ s < k
  BY <1>1, BalanceOne
<1>3. /\ Balance(qs, s, k) = Balance(qs, s, s) + Balance(qs, s + 1, k)
      /\ Balance(qs, s, s) \in Int /\ Balance(qs, s + 1, k) \in Int /\ Balance(qs, s + 1, k) < 0
  BY <1>1, <1>2, BalanceSplits, BalanceIsInt
<1>4. Balance(qs, s, s) = 1 /\ qs[s].op = "funcstart"
  BY <1>1, <1>3, BalanceOne
<1>5. Balance(qs, s, k) = 0
  BY <1>1, <1>3, <1>4
<1>6. \A x \in s..k - 1 : Balance(qs, s, x) > 0
  <2> TAKE x \in s..k - 1
  <2>1. Balance(qs, s, k) = Balance(qs, s, x) + Balance(qs, x + 1, k)
    BY <1>2, BalanceSplits
  <2>2. Balance(qs, s, x) \in Int /\ Balance(qs, x + 1, k) \in Int /\ Balance(qs, x + 1, k) < 0
    BY <1>1, BalanceIsInt
  <2> QED BY <1>5, <2>1, <2>2
<1>7. Ends(qs, s, k)
  BY <1>2, <1>5, <1>6 DEF Ends
<1>8. s \in FuncStarts(qs) /\ End(qs, s) = k
  BY <1>1, <1>2, <1>4, <1>7, EndsOnce DEF WellNested, FuncStarts
<1> QED BY <1>2, <1>8

-----------------------------------------------------------------------------
(* The functions around the quads, one after the other. *)

LEMMA StartsAreNat ==
  ASSUME NEW qs, NEW n \in Nat, WellNested(qs, n)
  PROVE  FuncStarts(qs) = {s \in 0..n - 1 : qs[s].op = "funcstart"}
BY DEF WellNested, FuncStarts

LEMMA AroundIsFinite ==
  ASSUME NEW qs, NEW n \in Nat, WellNested(qs, n), NEW k \in Int
  PROVE  Around(qs, k) \subseteq 0..k - 1 /\ IsFiniteSet(Around(qs, k))
<1>1. Around(qs, k) \subseteq 0..k - 1
  BY StartsAreNat DEF Around
<1>2. IsFiniteSet(0..k - 1)
  <2>1. k - 1 \in Int
    OBVIOUS
  <2> QED BY <2>1, FS_Interval
<1> QED BY <1>1, <1>2, FS_Subset

LEMMA NothingAroundFirst ==
  ASSUME NEW qs, NEW n \in Nat, WellNested(qs, n)
  PROVE  Around(qs, 0) = {}
BY StartsAreNat DEF Around

LEMMA NothingAroundLast ==
  ASSUME NEW qs, NEW n \in Nat, WellNested(qs, n)
  PROVE  Around(qs, n) = {}
BY EndExists DEF Around

LEMMA FunctionIsInnermost ==
  ASSUME NEW qs, NEW n \in Nat, WellNested(qs, n), NEW k \in Nat, Around(qs, k) # {}
  PROVE  FunctionOf(qs, k) \in Around(qs, k) /\ \A r \in Around(qs, k) : r <= FunctionOf(qs, k)
<1>1. Around(qs, k) \subseteq 0..k
  BY AroundIsFinite
<1>2. \E s \in Around(qs, k) : \A r \in Around(qs, k) : r <= s
  BY <1>1, GreatestOfSet
<1> QED BY <1>2 DEF FunctionOf

LEMMA AroundNext ==
  ASSUME NEW qs, NEW n \in Nat, WellNested(qs, n), NEW k \in 0..n - 1,
         qs[k].op \notin {"funcstart", "funcend"}
  PROVE  Around(qs, k + 1) = Around(qs, k)
<1>1. \A s \in FuncStarts(qs) : s \in Nat /\ s # k /\ End(qs, s) # k /\ End(qs, s) \in Int
  BY StartsAreNat, EndExists
<1>2. \A s \in FuncStarts(qs) : (s < k + 1 /\ k + 1 <= End(qs, s)) <=> (s < k /\ k <= End(qs, s))
  BY <1>1
<1> QED BY <1>2 DEF Around

LEMMA AroundStart ==
  ASSUME NEW qs, NEW n \in Nat, WellNested(qs, n), NEW k \in 0..n - 1, qs[k].op = "funcstart"
  PROVE  k \in FuncStarts(qs) /\ k \notin Around(qs, k) /\ Around(qs, k + 1) = Around(qs, k) \cup {k}
<1>1. \A s \in FuncStarts(qs) : s \in Nat /\ End(qs, s) # k /\ End(qs, s) \in Int
  BY StartsAreNat, EndExists
<1>2. k \in FuncStarts(qs) /\ End(qs, k) >= k + 1
  BY StartsAreNat, EndExists
<1>3. \A s \in FuncStarts(qs) :
        (s < k + 1 /\ k + 1 <= End(qs, s)) <=> (s = k \/ (s < k /\ k <= End(qs, s)))
  BY <1>1, <1>2
<1>4. Around(qs, k + 1) = Around(qs, k) \cup {k}
  <2>1. \A s : s \in Around(qs, k + 1) <=> s \in FuncStarts(qs) /\ s < k + 1 /\ k + 1 <= End(qs, s)
    BY DEF Around
  <2>2. \A s : s \in Around(qs, k) <=> s \in FuncStarts(qs) /\ s < k /\ k <= End(qs, s)
    BY DEF Around
  <2> QED BY <1>2, <1>3, <2>1, <2>2
<1>5. k \notin Around(qs, k)
  BY DEF Around
<1> QED BY <1>2, <1>4, <1>5

LEMMA AroundEnd ==
  ASSUME NEW qs, NEW n \in Nat, WellNested(qs, n), NEW k \in 0..n - 1, qs[k].op = "funcend"
  PROVE  /\ Around(qs, k) # {}
         /\ FunctionOf(qs, k) \in Around(qs, k)
         /\ \A r \in Around(qs, k) : r <= FunctionOf(qs, k)
         /\ End(qs, FunctionOf(qs, k)) = k
         /\ Around(qs, k + 1) = Around(qs, k) \ {FunctionOf(qs, k)}
<1>1. PICK s \in FuncStarts(qs) : s < k /\ End(qs, s) = k
  BY EndsAreMatched
<1>2. \A t \in FuncStarts(qs) : t \in Nat /\ t # k /\ End(qs, t) \in Int
  BY StartsAreNat, EndExists
<1>3. s \in Around(qs, k)
  BY <1>1 DEF Around
<1>4. \A t \in Around(qs, k) : t <= s
  <2> SUFFICES ASSUME NEW t \in Around(qs, k), t > s
               PROVE  FALSE
    BY <1>1, <1>2 DEF Around
  <2>1. t \in FuncStarts(qs) /\ t < k /\ k <= End(qs, t)
    BY DEF Around
  <2>2. End(qs, t) < k
    BY <1>1, <1>2, <2>1, EndsNest
  <2> QED BY <1>2, <2>1, <2>2
<1>5. FunctionOf(qs, k) = s
  <2>1. FunctionOf(qs, k) \in Around(qs, k) /\ \A r \in Around(qs, k) : r <= FunctionOf(qs, k)
    BY <1>3, FunctionIsInnermost
  <2>2. FunctionOf(qs, k) \in Nat /\ s \in Nat
    BY <1>2, <2>1 DEF Around
  <2> QED BY <1>3, <1>4, <2>1, <2>2
<1>6. \A t \in FuncStarts(qs) : t # s => End(qs, t) # k
  <2> TAKE t \in FuncStarts(qs)
  <2>1. CASE t < s
    <3>1. s < End(qs, t) => End(qs, s) < End(qs, t)
      BY <2>1, EndsNest
    <3> QED BY <1>1, <1>2, <3>1
  <2>2. CASE s < t
    <3>1. t < End(qs, s) => End(qs, t) < End(qs, s)
      BY <2>2, EndsNest
    <3>2. t < End(qs, t)
      BY EndExists, <1>2
    <3> QED BY <1>1, <1>2, <3>1, <3>2
  <2> QED BY <1>2, <2>1, <2>2
<1>7. \A t \in FuncStarts(qs) :
        (t < k + 1 /\ k + 1 <= End(qs, t)) <=> (t # s /\ t < k /\ k <= End(qs, t))
  BY <1>1, <1>2, <1>6
<1> QED BY <1>1, <1>3, <1>4, <1>5, <1>7 DEF Around

\* Where the quads are deeper than at the start, a function is open.
LEMMA ReturnIsInside ==
  ASSUME NEW qs, NEW n \in Nat, WellNested(qs, n), NEW k \in 0..n - 1,
         qs[k].op = "ret", Balance(qs, 0, k) >= 1
  PROVE  Around(qs, k) # {}
<1>1. PICK s \in 0..k : Balance(qs, s, k) >= 1 /\ \A x \in s + 1..k : Balance(qs, x, k) < 1
  BY OpenedBefore
<1>2. Balance(qs, k, k) = 0 /\ s < k
  BY <1>1, BalanceOne
<1>3. \A x \in s..k : Balance(qs, s, x) > 0
  <2> TAKE x \in s..k
  <2>1. CASE x = k
    BY <1>1, <2>1, BalanceIsInt
  <2>2. CASE x < k
    <3>1. Balance(qs, s, k) = Balance(qs, s, x) + Balance(qs, x + 1, k)
      BY <1>2, BalanceSplits
    <3>2. Balance(qs, s, x) \in Int /\ Balance(qs, x + 1, k) \in Int /\ Balance(qs, x + 1, k) < 1
      BY <1>1, <2>2, BalanceIsInt
    <3>3. Balance(qs, s, k) \in Int
      BY BalanceIsInt
    <3> QED BY <1>1, <3>1, <3>2, <3>3
  <2> QED BY <2>1, <2>2
<1>4. qs[s].op = "funcstart"
  <2>1. Balance(qs, s, s) > 0
    BY <1>2, <1>3
  <2> QED BY <2>1, BalanceOne
<1>5. s \in FuncStarts(qs)
  BY <1>2, <1>4, StartsAreNat
<1>6. End(qs, s) \in Int /\ Balance(qs, s, End(qs, s)) = 0 /\ s < End(qs, s)
  BY <1>5, EndExists DEF Ends
<1>7. k < End(qs, s)
  BY <1>3, <1>6
<1>8. s \in Around(qs, k)
  BY <1>2, <1>5, <1>6, <1>7 DEF Around
<1> QED BY <1>8

-----------------------------------------------------------------------------
(* Constant tables only grow, and an operand is read back as what it was. *)

IsSequence(s) == s \in Seq({s[n] : n \in DOMAIN s})

ConstTables(c) == c = [t \in ConstTypes |-> c[t]] /\ \A t \in ConstTypes : IsSequence(c[t])

\* The tables d have what the tables c have, where they have it.
Grown(c, d) ==
  /\ ConstTables(d)
  /\ \A t \in ConstTypes : Len(c[t]) <= Len(d[t]) /\ \A n \in 1..Len(c[t]) : d[t][n] = c[t][n]

Holds(c, e) == \E n \in DOMAIN c[e.type] : c[e.type][n] = e

LEMMA TableLength ==
  ASSUME NEW s, IsSequence(s)
  PROVE  Len(s) \in Nat /\ DOMAIN s = 1..Len(s)
BY LenProperties DEF IsSequence

LEMMA AppendedTable ==
  ASSUME NEW s, IsSequence(s), NEW e
  PROVE  /\ IsSequence(Append(s, e))
         /\ Len(Append(s, e)) = Len(s) + 1
         /\ \A n \in 1..Len(s) : Append(s, e)[n] = s[n]
         /\ Append(s, e)[Len(s) + 1] = e
<1> DEFINE T == {s[n] : n \in DOMAIN s} \cup {e}
<1>1. s \in Seq(T) /\ e \in T
  BY SeqMonotonic DEF IsSequence
<1> HIDE DEF T
<1>2. PICK a : a = Append(s, e)
  OBVIOUS
<1>3. /\ a \in Seq(T) /\ Len(a) = Len(s) + 1
      /\ \A n \in 1..Len(s) : a[n] = s[n]
      /\ a[Len(s) + 1] = e
  BY <1>1, <1>2, AppendProperties
<1>4. a \in [1..Len(a) -> T] /\ Len(a) \in Nat
  BY <1>3, LenProperties
<1>5. IsSequence(a)
  <2> DEFINE R == {a[n] : n \in DOMAIN a}
  <2>1. \A n \in 1..Len(a) : a[n] \in R
    BY <1>4
  <2> HIDE DEF R
  <2>2. a \in [1..Len(a) -> R]
    BY <1>4, <2>1
  <2>3. a \in Seq(R)
    BY <1>4, <2>2, SeqDef
  <2> QED BY <2>3 DEF IsSequence, R
<1> QED BY <1>2, <1>3, <1>5

LEMMA GrownIsReflexive ==
  ASSUME NEW c, ConstTables(c)
  PROVE  Grown(c, c)
BY TableLength DEF Grown, ConstTables

LEMMA GrownIsTransitive ==
  ASSUME NEW c, NEW d, NEW f, ConstTables(c), Grown(c, d), Grown(d, f)
  PROVE  Grown(c, f)
<1>1. \A t \in ConstTypes : Len(c[t]) \in Nat /\ Len(d[t]) \in Nat /\ Len(f[t]) \in Nat
  BY TableLength DEF Grown, ConstTables
<1> QED BY <1>1 DEF Grown

LEMMA GrownHolds ==
  ASSUME NEW c, NEW d, ConstTables(c), Grown(c, d), NEW e, e.type \in ConstTypes, Holds(c, e)
  PROVE  Holds(d, e)
<1>1. /\ DOMAIN c[e.type] = 1..Len(c[e.type]) /\ Len(c[e.type]) \in Nat
      /\ DOMAIN d[e.type] = 1..Len(d[e.type]) /\ Len(d[e.type]) \in Nat
  BY TableLength DEF Grown, ConstTables
<1>2. PICK n \in 1..Len(c[e.type]) : c[e.type][n] = e
  BY <1>1 DEF Holds
<1>3. n \in 1..Len(d[e.type]) /\ d[e.type][n] = e
  BY <1>1, <1>2 DEF Grown
<1> QED BY <1>1, <1>3 DEF Holds

LEMMA WithOperandGrows ==
  ASSUME NEW c, ConstTables(c), NEW e
  PROVE  Grown(c, WithOperand(c, e)) /\ (e.type \in ConstTypes => Holds(WithOperand(c, e), e))
<1>1. CASE e.type \notin ConstTypes
  BY <1>1, GrownIsReflexive DEF WithOperand
<1>2. CASE e.type \in ConstTypes
  <2>1. PICK d, s, t : d = WithOperand(c, e) /\ t = e.type /\ s = Interned(c[t], e)
    OBVIOUS
  <2>2. t \in ConstTypes /\ d = [c EXCEPT ![t] = s]
    BY <1>2, <2>1 DEF WithOperand
  <2>3. d = [u \in ConstTypes |-> d[u]] /\ d[t] = s /\ \A u \in ConstTypes : u # t => d[u] = c[u]
    BY <2>2 DEF ConstTables
  <2>4. IsSequence(c[t]) /\ Len(c[t]) \in Nat /\ DOMAIN c[t] = 1..Len(c[t])
    BY <2>2, TableLength DEF ConstTables
  <2>5. /\ IsSequence(s) /\ Len(c[t]) <= Len(s)
        /\ \A n \in 1..Len(c[t]) : s[n] = c[t][n]
        /\ \E n \in DOMAIN s : s[n] = e
    <3>1. CASE \E n \in DOMAIN c[t] : c[t][n] = e
      <4>1. s = c[t]
        BY <2>1, <3>1 DEF Interned
      <4> QED BY <2>4, <3>1, <4>1
    <3>2. CASE ~ \E n \in DOMAIN c[t] : c[t][n] = e
      <4>1. s = Append(c[t], e)
        BY <2>1, <3>2 DEF Interned
      <4>2. /\ IsSequence(s) /\ Len(s) = Len(c[t]) + 1
            /\ \A n \in 1..Len(c[t]) : s[n] = c[t][n]
            /\ s[Len(c[t]) + 1] = e
        BY <2>4, <4>1, AppendedTable
      <4>3. DOMAIN s = 1..Len(s)
        BY <4>2, TableLength
      <4> QED BY <2>4, <4>2, <4>3
    <3> QED BY <3>1, <3>2
  <2>6. \A u \in ConstTypes : IsSequence(d[u])
    BY <2>3, <2>5 DEF ConstTables
  <2>7. \A u \in ConstTypes : Len(c[u]) <= Len(d[u]) /\ \A n \in 1..Len(c[u]) : d[u][n] = c[u][n]
    <3> TAKE u \in ConstTypes
    <3>1. Len(c[u]) \in Nat
      BY TableLength DEF ConstTables
    <3> QED BY <2>3, <2>5, <3>1
  <2> QED BY <2>1, <2>3, <2>5, <2>6, <2>7 DEF Grown, Holds, ConstTables
<1> QED BY <1>1, <1>2

\* The operands of a quad are in the tables when they all have been put there.
LEMMA OperandsAreHeld ==
  ASSUME ConstTables(consts), NEW e1, NEW e2, NEW e3
  PROVE  /\ Grown(consts, WithOperands(<<e1, e2, e3>>))
         /\ \A e \in {e1, e2, e3} : e.type \in ConstTypes => Holds(WithOperands(<<e1, e2, e3>>), e)
<1>1. PICK a, b, c : a = WithOperand(consts, e1) /\ b = WithOperand(a, e2) /\ c = WithOperand(b, e3)
  OBVIOUS
<1>2. WithOperands(<<e1, e2, e3>>) = c
  BY <1>1 DEF WithOperands
<1>3. Grown(consts, a) /\ (e1.type \in ConstTypes => Holds(a, e1)) /\ ConstTables(a)
  <2>1. Grown(consts, a) /\ (e1.type \in ConstTypes => Holds(a, e1))
    BY <1>1, WithOperandGrows
  <2> QED BY <2>1 DEF Grown
<1>4. Grown(a, b) /\ (e2.type \in ConstTypes => Holds(b, e2)) /\ ConstTables(b)
  <2>1. Grown(a, b) /\ (e2.type \in ConstTypes => Holds(b, e2))
    BY <1>1, <1>3, WithOperandGrows
  <2> QED BY <2>1 DEF Grown
<1>5. Grown(b, c) /\ (e3.type \in ConstTypes => Holds(c, e3)) /\ ConstTables(c)
  <2>1. Grown(b, c) /\ (e3.type \in ConstTypes => Holds(c, e3))
    BY <1>1, <1>4, WithOperandGrows
  <2> QED BY <2>1 DEF Grown
<1>6. Grown(consts, b)
  BY <1>3, <1>4, GrownIsTransitive
<1>7. Grown(consts, c) /\ Grown(a, c)
  BY <1>3, <1>4, <1>5, <1>6, GrownIsTransitive
<1>8. \A e \in {e1, e2, e3} : e.type \in ConstTypes => Holds(c, e)
  BY <1>3, <1>4, <1>5, <1>7, GrownHolds
<1> QED BY <1>2, <1>7, <1>8

\* The operands of instructions, with positions within the tables c.
Args == Variables \cup Labels \cup {Retval} \cup [type : ConstTypes \cup {"bool", "nil"}, val : Nat]

ArgsOf(c) == {arg \in Args : arg.type \in ConstTypes => arg.val < Len(c[arg.type])}

InstrsOf(c) == [op : Opcodes, result : ArgsOf(c), arg1 : ArgsOf(c), arg2 : ArgsOf(c)]

\* Decoded, with given tables.
DecodedIn(c, arg) ==
  CASE arg.type \in ConstTypes -> c[arg.type][arg.val + 1]
    [] arg.type = "bool" -> Bool(arg.val = 1)
    [] arg.type = "nil" -> Nil
    [] OTHER -> arg

IsOperand(e) == IsExpr(e) \/ e = NoExpr \/ e \in Labels

LEMMA ExprKinds ==
  ASSUME NEW e, IsExpr(e)
  PROVE  \/ e \in Variables
         \/ e.type \in ConstTypes
         \/ \E b \in BOOLEAN : e = Bool(b)
         \/ e = Nil
<1>1. CASE e \in Variables
  BY <1>1
<1>2. CASE IsFunc(e)
  BY <1>2 DEF IsFunc, FuncExpr, ConstTypes
<1>3. CASE e \in Constants /\ e.type # "userfunc"
  <2>1. CASE e \in [type : {"number"}, numVal : Int] \cup [type : {"string"}, strVal : Strings]
                     \cup [type : {"libfunc"}, libfuncVal : Strings]
    BY <2>1 DEF ConstTypes
  <2>2. CASE e \in [type : {"bool"}, boolVal : BOOLEAN]
    <3>1. e = Bool(e.boolVal) /\ e.boolVal \in BOOLEAN
      BY <2>2 DEF Bool
    <3> QED BY <3>1
  <2>3. CASE e \in [type : {"table"}, tableVal : Nat] \cup {Undef}
    BY <1>3, <2>3 DEF Constants
  <2>4. CASE e \in [type : {"userfunc"}, funcVal : Nat]
    BY <1>3, <2>4
  <2>5. CASE e = Nil
    BY <2>5
  <2> QED BY <1>3, <2>1, <2>2, <2>3, <2>4, <2>5 DEF Constants, Cells
<1> QED BY <1>1, <1>2, <1>3 DEF IsExpr

\* An operand that make_operand makes is read back as what it was made from.
LEMMA OperandReadBack ==
  ASSUME NEW c, ConstTables(c), NEW e, IsOperand(e), e.type \in ConstTypes => Holds(c, e)
  PROVE  /\ MakeOperand(c, e) \in ArgsOf(c)
         /\ IsExpr(e) => DecodedIn(c, MakeOperand(c, e)) = e
         /\ e \in Labels => MakeOperand(c, e) = e
<1>1. CASE e.type \in ConstTypes
  <2>1. Len(c[e.type]) \in Nat /\ DOMAIN c[e.type] = 1..Len(c[e.type])
    BY <1>1, TableLength DEF ConstTables
  <2>2. PICK n \in 1..Len(c[e.type]) : c[e.type][n] = e
    BY <1>1, <2>1 DEF Holds
  <2>3. n - 1 \in 0..Len(c[e.type]) - 1 /\ c[e.type][n - 1 + 1] = e
    BY <2>1, <2>2
  <2>4. PICK p : p = Position(c[e.type], e)
    OBVIOUS
  <2>5. p \in 0..Len(c[e.type]) - 1 /\ c[e.type][p + 1] = e
    BY <2>3, <2>4 DEF Position
  <2>6. MakeOperand(c, e) = [type |-> e.type, val |-> p]
    BY <1>1, <2>4 DEF MakeOperand, ConstTypes
  <2>7. [type |-> e.type, val |-> p] \in ArgsOf(c)
    BY <1>1, <2>1, <2>5 DEF ArgsOf, Args
  <2>8. DecodedIn(c, [type |-> e.type, val |-> p]) = e
    BY <1>1, <2>5 DEF DecodedIn, ConstTypes
  <2>9. e \notin Labels
    BY <1>1 DEF ConstTypes, Labels
  <2> QED BY <2>6, <2>7, <2>8, <2>9
<1>2. CASE e \in Variables \cup Labels
  <2>1. e.type \in {"global", "local", "formal", "label"}
    BY <1>2 DEF Variables, Labels
  <2>2. MakeOperand(c, e) = e /\ DecodedIn(c, e) = e
    BY <2>1 DEF MakeOperand, DecodedIn, ConstTypes
  <2>3. e \in ArgsOf(c)
    BY <1>2, <2>1 DEF ArgsOf, Args, ConstTypes
  <2> QED BY <2>2, <2>3
<1>3. NilArg \in ArgsOf(c)
  BY DEF NilArg, ArgsOf, Args, ConstTypes
<1>4. CASE \E b \in BOOLEAN : e = Bool(b)
  <2>1. PICK b \in BOOLEAN : e = Bool(b)
    BY <1>4
  <2>2. PICK v : v = IF b THEN 1 ELSE 0
    OBVIOUS
  <2>3. e.type = "bool" /\ e.boolVal = b
    BY <2>1 DEF Bool
  <2>4. MakeOperand(c, e) = [type |-> "bool", val |-> v]
    BY <2>2, <2>3 DEF MakeOperand, ConstTypes
  <2>5. [type |-> "bool", val |-> v] \in ArgsOf(c)
    BY <2>2 DEF ArgsOf, Args, ConstTypes
  <2>6. DecodedIn(c, [type |-> "bool", val |-> v]) = Bool(v = 1)
    BY DEF DecodedIn, ConstTypes
  <2>7. (v = 1) = b
    BY <2>2
  <2>8. e \notin Labels
    BY <2>3 DEF Labels
  <2> QED BY <2>1, <2>4, <2>5, <2>6, <2>7, <2>8
<1>5. CASE e = Nil
  <2>1. MakeOperand(c, e) = NilArg /\ DecodedIn(c, NilArg) = Nil /\ e \notin Labels
    BY <1>5 DEF MakeOperand, Nil, NilArg, DecodedIn, ConstTypes, Labels
  <2> QED BY <1>3, <1>5, <2>1
<1>6. CASE e = NoExpr
  <2>1. MakeOperand(c, e) = NilArg /\ e \notin Labels
    BY <1>6 DEF MakeOperand, NoExpr, ConstTypes, Labels
  <2>2. ~ IsExpr(e)
    BY <1>6, ExprKinds DEF NoExpr, Variables, Nil, Bool, ConstTypes
  <2> QED BY <1>3, <2>1, <2>2
<1> QED BY <1>1, <1>2, <1>4, <1>5, <1>6, ExprKinds DEF IsOperand

LEMMA ArgsStay ==
  ASSUME NEW c, NEW d, ConstTables(c), Grown(c, d)
  PROVE  /\ ArgsOf(c) \subseteq ArgsOf(d)
         /\ InstrsOf(c) \subseteq InstrsOf(d)
         /\ \A arg \in ArgsOf(c) : DecodedIn(d, arg) = DecodedIn(c, arg)
<1>1. \A t \in ConstTypes : Len(c[t]) \in Nat /\ Len(d[t]) \in Nat
  BY TableLength DEF Grown, ConstTables
<1>2. ArgsOf(c) \subseteq ArgsOf(d)
  <2> SUFFICES ASSUME NEW arg \in ArgsOf(c)
               PROVE  arg \in ArgsOf(d)
    OBVIOUS
  <2>1. CASE arg.type \in ConstTypes
    <3>1. arg.val \in Nat
      BY <2>1 DEF ArgsOf, Args, Variables, Labels, Retval, ConstTypes
    <3> QED BY <1>1, <2>1, <3>1 DEF ArgsOf, Grown
  <2>2. CASE arg.type \notin ConstTypes
    BY <2>2 DEF ArgsOf
  <2> QED BY <2>1, <2>2
<1>3. \A arg \in ArgsOf(c) : DecodedIn(d, arg) = DecodedIn(c, arg)
  <2> TAKE arg \in ArgsOf(c)
  <2>1. CASE arg.type \in ConstTypes
    <3>1. arg.val \in Nat /\ arg.val < Len(c[arg.type])
      BY <2>1 DEF ArgsOf, Args, Variables, Labels, Retval, ConstTypes
    <3>2. arg.val + 1 \in 1..Len(c[arg.type])
      BY <1>1, <2>1, <3>1
    <3>3. d[arg.type][arg.val + 1] = c[arg.type][arg.val + 1]
      BY <2>1, <3>2 DEF Grown
    <3> QED BY <2>1, <3>3 DEF DecodedIn, ConstTypes
  <2>2. CASE arg.type \notin ConstTypes
    BY <2>2 DEF DecodedIn
  <2> QED BY <2>1, <2>2
<1> QED BY <1>2, <1>3 DEF InstrsOf

-----------------------------------------------------------------------------
(* The inductive invariant. *)

Jumps == {"jump"} \cup DOMAIN Relops

\* The opcodes of the instructions of a quad.
FirstOp(q) ==
  CASE q.op = "uminus" -> "mul"
    [] q.op \in DOMAIN Relops -> Relops[q.op]
    [] q.op = "param" -> "pusharg"
    [] q.op = "tablecreate" -> "newtable"
    [] q.op = "ret" -> IF q.result = NoExpr THEN "jump" ELSE "assign"
    [] q.op = "funcstart" -> "jump"
    [] q.op = "funcend" -> "funcexit"
    [] OTHER -> q.op

SecondOp(q) == IF q.op = "funcstart" THEN "funcenter" ELSE "jump"

\* What the first two instructions of a quad are, with operands in the tables c.
Translation(c, i, q) ==
  /\ Size(q) >= 1 => i[1].op = FirstOp(q)
  /\ Size(q) = 2 => i[2].op = SecondOp(q)
  /\ \A x \in DOMAIN Carried(q) : DecodedIn(c, i[1][x]) = Carried(q)[x]
  /\ q.op \in Jumps \cup {"funcstart"} => i[1].result \in Labels
  /\ q.op = "ret" => i[Size(q)].result \in Labels
  /\ q.op = "ret" /\ Size(q) = 2 => i[1].result = Retval
  /\ q.op = "funcstart" => i[2].result.type = "userfunc" /\ DecodedIn(c, i[2].result) = q.result

CodeAt(i, a) == [j \in 1..2 |-> i[a + j]]

Translated ==
  \A k \in 0..next - 1 : Translation(consts, CodeAt(instructions, taddress[k]), quads[k])

\* The instructions of the quads are next to each other and in order.
Layout ==
  /\ StartOf(0) = 0
  /\ \A k \in 0..next - 1 : StartOf(k + 1) = StartOf(k) + Size(quads[k])
  /\ \A j, k \in 0..next : j < k => StartOf(j) + Size(quads[j]) <= StartOf(k)

Laid ==
  /\ quads \in QuadLists
  /\ next \in 0..CurrQuad
  /\ ConstTables(consts)
  /\ instructions \in Seq(InstrsOf(consts))
  /\ taddress \in [0..next - 1 -> Nat]
  /\ Layout

\* The list of incomplete jumps holds the jumps so far, until it has been
\* worked through and they have their targets.
JumpsWait ==
  outcome # "done" =>
    jumpList = {[instrNo |-> taddress[k], iaddress |-> quads[k].label] :
                  k \in {j \in 0..next - 1 : quads[j].op \in Jumps}}

JumpsPatched ==
  outcome = "done" =>
    /\ next = CurrQuad
    /\ jumpList = {}
    /\ \A k \in 0..next - 1 : quads[k].op \in Jumps =>
         instructions[taddress[k] + 1].result = Label(StartOf(quads[k].label))

\* The frames of the functions being translated, with jumps to be completed.
Frames == [jump_instr : Nat, rets : SUBSET Nat, ufidx : Nat]

WaitingJump(n) ==
  n < CurrInstruction /\ instructions[n + 1].op = "jump" /\ instructions[n + 1].result \in Labels

FramesTyped ==
  /\ funcStack \in Seq(Frames)
  /\ \A d \in 1..Len(funcStack) :
       /\ \A n \in funcStack[d].rets \cup {funcStack[d].jump_instr} : WaitingJump(n)
       /\ funcStack[d].ufidx < Len(consts["userfunc"])
       /\ funcStack[d].ufidx \in DOMAIN bodies

\* The returns of the function that starts at s, among the quads so far.
RetsOf(s) == {r \in 0..next - 1 : quads[r].op = "ret" /\ FunctionOf(quads, r) = s}

UpTo(A, s) == {r \in A : r <= s}

Level(s) == Cardinality(UpTo(Around(quads, next), s))

\* The functions around the next quad have the frames, in order.
FramesAround ==
  /\ Len(funcStack) = Cardinality(Around(quads, next))
  /\ \A s \in Around(quads, next) :
       /\ funcStack[Level(s)].jump_instr = taddress[s]
       /\ funcStack[Level(s)].rets = {LastOf(r) : r \in RetsOf(s)}
       /\ consts["userfunc"][funcStack[Level(s)].ufidx + 1] = quads[s].result

\* A function that has ended has its jumps completed, and its own exit.
ClosedFunctions ==
  \A s \in FuncStarts(quads) : LET e == End(quads, s) IN
    e < next =>
      /\ instructions[taddress[s] + 1].result = Label(StartOf(e + 1))
      /\ \A r \in RetsOf(s) : instructions[LastOf(r) + 1].result = Label(taddress[e])
      /\ instructions[taddress[e] + 1].result.type = "userfunc"
      /\ DecodedIn(consts, instructions[taddress[e] + 1].result) = quads[s].result

\* The rows of the user functions.
Bodies ==
  /\ bodies \in [DOMAIN bodies -> [address : Nat, localSize : Nat]]
  /\ DOMAIN bodies \subseteq 0..Len(consts["userfunc"]) - 1
  /\ \A k \in 0..next - 1 : quads[k].op = "funcstart" =>
       \E f \in DOMAIN bodies :
         /\ consts["userfunc"][f + 1] = quads[k].result
         /\ DeclaredOnce => bodies[f].address = taddress[k] + 1

IInv ==
  /\ Laid
  /\ Translated
  /\ JumpsWait
  /\ JumpsPatched
  /\ FramesTyped
  /\ FramesAround
  /\ ClosedFunctions
  /\ Bodies
  /\ outcome \in Outcomes

-----------------------------------------------------------------------------
(* The quads, and the layout of their instructions. *)

LEMMA QuadsAreNested ==
  ASSUME quads \in QuadLists
  PROVE  /\ CurrQuad \in Nat
         /\ WellNested(quads, CurrQuad)
         /\ \A k \in 0..CurrQuad - 1 : QuadOK(quads[k], CurrQuad)
         /\ \A k \in 0..CurrQuad - 1 : quads[k].op = "ret" => Around(quads, k) # {}
<1>1. /\ CurrQuad \in Nat /\ DOMAIN quads = 0..CurrQuad - 1
      /\ \A k \in 0..CurrQuad - 1 :
           QuadOK(quads[k], CurrQuad) /\ Depth(quads, k) >= IF quads[k].op = "ret" THEN 1 ELSE 0
      /\ Depth(quads, CurrQuad - 1) = 0
  BY QuadsAssumption DEF CurrQuad
<1>2. \A k : Depth(quads, k) = Balance(quads, 0, k)
  BY DEF Depth, Balance
<1>3. WellNested(quads, CurrQuad)
  <2>1. \A k \in 0..CurrQuad - 1 : Balance(quads, 0, k) >= 0
    <3> TAKE k \in 0..CurrQuad - 1
    <3>1. Balance(quads, 0, k) \in Int
      BY <1>1, BalanceIsInt
    <3>2. Balance(quads, 0, k) >= IF quads[k].op = "ret" THEN 1 ELSE 0
      BY <1>1, <1>2
    <3> QED BY <3>1, <3>2
  <2> QED BY <1>1, <1>2, <2>1 DEF WellNested
<1>4. \A k \in 0..CurrQuad - 1 : quads[k].op = "ret" => Around(quads, k) # {}
  BY <1>1, <1>2, <1>3, ReturnIsInside
<1> QED BY <1>1, <1>3, <1>4

LEMMA SizeIsSmall ==
  ASSUME NEW q
  PROVE  Size(q) \in 0..2
BY DEF Size

LEMMA LengthOfCode ==
  ASSUME Laid
  PROVE  /\ CurrInstruction \in Nat
         /\ DOMAIN instructions = 1..CurrInstruction
         /\ \A n \in 1..CurrInstruction : instructions[n] \in InstrsOf(consts)
BY LenProperties, ElementOfSeq DEF Laid, CurrInstruction

LEMMA StartsOfQuads ==
  ASSUME Laid
  PROVE  /\ next \in Nat
         /\ \A k \in 0..next : StartOf(k) \in Nat
         /\ \A k \in 0..next - 1 : StartOf(k) = taddress[k]
         /\ StartOf(next) = CurrInstruction
         /\ \A k \in 0..next - 1 : StartOf(k) + Size(quads[k]) <= CurrInstruction
<1>1. next \in Nat
  BY QuadsAreNested DEF Laid
<1>2. \A k \in 0..next - 1 : StartOf(k) = taddress[k] /\ taddress[k] \in Nat
  BY <1>1 DEF Laid, StartOf
<1>3. StartOf(next) = CurrInstruction /\ CurrInstruction \in Nat
  BY <1>1, LengthOfCode DEF StartOf
<1>4. \A k \in 0..next - 1 : StartOf(k) + Size(quads[k]) <= CurrInstruction
  BY <1>1, <1>3 DEF Laid, Layout
<1> QED BY <1>1, <1>2, <1>3, <1>4

\* The instructions of two quads are apart.
LEMMA QuadsAreApart ==
  ASSUME Laid, NEW j \in 0..next - 1, NEW k \in 0..next - 1, j # k,
         NEW x \in 0..Size(quads[j]) - 1, NEW y \in 0..Size(quads[k]) - 1
  PROVE  taddress[j] + x # taddress[k] + y
<1>1. next \in Nat /\ taddress[j] = StartOf(j) /\ taddress[k] = StartOf(k) /\ StartOf(j) \in Nat /\ StartOf(k) \in Nat
  BY StartsOfQuads
<1>2. Size(quads[j]) \in 0..2 /\ Size(quads[k]) \in 0..2
  BY SizeIsSmall
<1>3. j < k => StartOf(j) + Size(quads[j]) <= StartOf(k)
  BY <1>1 DEF Laid, Layout
<1>4. k < j => StartOf(k) + Size(quads[k]) <= StartOf(j)
  BY <1>1 DEF Laid, Layout
<1> QED BY <1>1, <1>2, <1>3, <1>4

\* The next quad is translated into instrs, which may change what was there.
LayoutStep ==
  /\ quads' = quads /\ next < CurrQuad /\ next' = next + 1
  /\ taddress' = [k \in 0..next |-> IF k = next THEN CurrInstruction ELSE taddress[k]]
  /\ Grown(consts, consts')
  /\ instructions' \in Seq(InstrsOf(consts'))
  /\ CurrInstruction' = CurrInstruction + Size(Quad)

LEMMA LayoutGrows ==
  ASSUME Laid, LayoutStep
  PROVE  /\ next \in 0..CurrQuad - 1
         /\ \A k \in 0..next : StartOf(k)' = StartOf(k) /\ taddress'[k] = StartOf(k)
         /\ \A k : k = next + 1 => StartOf(k)' = CurrInstruction + Size(Quad)
         /\ Laid'
<1>1. next \in 0..CurrQuad - 1 /\ next \in Nat /\ CurrQuad \in Nat
  BY StartsOfQuads, QuadsAreNested DEF Laid, LayoutStep
<1>2. CurrInstruction \in Nat /\ Size(Quad) \in 0..2
  BY LengthOfCode, SizeIsSmall
<1>3. taddress' \in [0..next -> Nat] /\ \A k \in 0..next : taddress'[k] = StartOf(k)
  BY <1>1, <1>2, StartsOfQuads DEF LayoutStep
<1>4. \A k \in 0..next : StartOf(k)' = StartOf(k)
  BY <1>1, <1>3 DEF StartOf, LayoutStep
<1>5. \A k : k = next + 1 => StartOf(k)' = CurrInstruction + Size(Quad)
  BY <1>1 DEF StartOf, LayoutStep
<1>6. Layout'
  <2>1. StartOf(0)' = 0
    BY <1>1, <1>4 DEF Laid, Layout
  <2>2. \A k \in 0..next : StartOf(k + 1)' = StartOf(k)' + Size(quads'[k])
    <3> TAKE k \in 0..next
    <3>1. CASE k = next
      BY <3>1, <1>1, <1>4, <1>5, StartsOfQuads DEF LayoutStep, Quad
    <3>2. CASE k < next
      <4>1. k \in 0..next - 1 /\ k + 1 \in 0..next
        BY <1>1, <3>2
      <4> QED BY <4>1, <1>4 DEF LayoutStep, Laid, Layout
    <3> QED BY <1>1, <3>1, <3>2
  <2>3. \A j, k \in 0..next + 1 : j < k => StartOf(j)' + Size(quads'[j]) <= StartOf(k)'
    <3> TAKE j, k \in 0..next + 1
    <3> HAVE j < k
    <3>1. CASE k <= next
      <4>1. j \in 0..next /\ k \in 0..next
        BY <1>1, <3>1
      <4>2. StartOf(j)' = StartOf(j) /\ StartOf(k)' = StartOf(k) /\ quads' = quads
        BY <1>4, <4>1 DEF LayoutStep
      <4>3. StartOf(j) + Size(quads[j]) <= StartOf(k)
        BY <4>1 DEF Laid, Layout
      <4> QED BY <4>2, <4>3
    <3>2. CASE k = next + 1 /\ j = next
      BY <1>1, <1>2, <1>4, <1>5, <3>2, StartsOfQuads DEF LayoutStep, Quad
    <3>3. CASE k = next + 1 /\ j < next
      <4>1. StartOf(j) + Size(quads[j]) <= CurrInstruction /\ StartOf(j) \in Nat /\ Size(quads[j]) \in 0..2
        BY <1>1, <3>3, StartsOfQuads, SizeIsSmall
      <4>2. StartOf(j)' = StartOf(j) /\ StartOf(k)' = CurrInstruction + Size(Quad) /\ quads' = quads
        BY <1>1, <1>4, <1>5, <3>3 DEF LayoutStep
      <4> QED BY <1>2, <4>1, <4>2
    <3> QED BY <1>1, <3>1, <3>2, <3>3
  <2> QED BY <1>1, <2>1, <2>2, <2>3 DEF Layout, LayoutStep
<1>7. next' \in 0..CurrQuad' /\ CurrQuad' = CurrQuad
  BY <1>1 DEF LayoutStep, CurrQuad
<1>8. taddress' \in [0..next' - 1 -> Nat]
  BY <1>1, <1>3 DEF LayoutStep
<1>9. ConstTables(consts')
  BY DEF LayoutStep, Grown
<1> QED BY <1>1, <1>3, <1>4, <1>5, <1>6, <1>7, <1>8, <1>9 DEF Laid, LayoutStep

-----------------------------------------------------------------------------
(* Translated quads stay translated. *)

\* An instruction that changes is a jump, and it gets another target.
SameButTarget(i, j) ==
  /\ j.op = i.op /\ j.arg1 = i.arg1 /\ j.arg2 = i.arg2
  /\ \/ j.result = i.result
     \/ i.op \in JumpOps /\ i.result \in Labels /\ j.result \in Labels

LEMMA RelopsAre ==
  /\ DOMAIN Relops = {"if_eq", "if_noteq", "if_lesseq", "if_greatereq", "if_less", "if_greater"}
  /\ \A op \in DOMAIN Relops : Relops[op] \in JumpOps
BY DEF Relops, JumpOps, NumCmpOps

LEMMA CarriedOperands ==
  ASSUME NEW q, q.op \in QuadOps
  PROVE  /\ DOMAIN Carried(q) \subseteq {"result", "arg1", "arg2"}
         /\ DOMAIN Carried(q) # {} => Size(q) >= 1
         /\ "result" \in DOMAIN Carried(q) => FirstOp(q) \notin JumpOps
<1> USE RelopsAre DEF JumpOps, NumCmpOps
<1>1. CASE q.op = "assign"
  BY <1>1 DEF Carried, Size, FirstOp
<1>2. CASE q.op \in ArithOps \cup {"tablegetelem", "tablesetelem"}
  <2>1. DOMAIN Carried(q) = {"result", "arg1", "arg2"}
    BY <1>2 DEF Carried, ArithOps
  <2>2. FirstOp(q) = q.op /\ Size(q) = 1
    BY <1>2 DEF FirstOp, Size, ArithOps
  <2> QED BY <1>2, <2>1, <2>2 DEF ArithOps
<1>3. CASE q.op = "uminus"
  BY <1>3 DEF Carried, Size, FirstOp, ArithOps
<1>4. CASE q.op \in DOMAIN Relops
  <2>1. Carried(q) = [arg1 |-> q.arg1, arg2 |-> q.arg2] /\ Size(q) = 1
    BY <1>4 DEF Carried, Size, ArithOps
  <2> QED BY <2>1
<1>5. CASE q.op \in {"call", "param"}
  BY <1>5 DEF Carried, Size, FirstOp, ArithOps
<1>6. CASE q.op \in {"getretval", "tablecreate"}
  BY <1>6 DEF Carried, Size, FirstOp, ArithOps
<1>7. CASE q.op = "ret"
  <2>1. CASE q.result = NoExpr
    <3>1. DOMAIN Carried(q) = {}
      BY <1>7, <2>1 DEF Carried, ArithOps
    <3> QED BY <3>1
  <2>2. CASE q.result # NoExpr
    <3>1. Carried(q) = [arg1 |-> q.result]
      BY <1>7, <2>2 DEF Carried, ArithOps
    <3>2. Size(q) = 2
      BY <1>7, <2>2 DEF Size
    <3> QED BY <3>1, <3>2
  <2> QED BY <2>1, <2>2
<1>8. CASE q.op \in {"and", "or", "not", "jump", "funcstart", "funcend"}
  <2>1. DOMAIN Carried(q) = {}
    BY <1>8 DEF Carried, ArithOps
  <2> QED BY <2>1
<1> QED BY <1>1, <1>2, <1>3, <1>4, <1>5, <1>6, <1>7, <1>8 DEF QuadOps

LEMMA TranslationStays ==
  ASSUME NEW c, NEW d, ConstTables(c), Grown(c, d), NEW q, q.op \in QuadOps,
         NEW i, NEW j, Translation(c, i, q),
         \A x \in 1..Size(q) : i[x] \in InstrsOf(c) /\ SameButTarget(i[x], j[x])
  PROVE  Translation(d, j, q)
<1>1. Size(q) \in 0..2
  BY SizeIsSmall
<1>2. ArgsOf(c) \subseteq ArgsOf(d) /\ \A arg \in ArgsOf(c) : DecodedIn(d, arg) = DecodedIn(c, arg)
  BY ArgsStay
<1>3. Size(q) >= 1 => i[1] \in InstrsOf(c) /\ SameButTarget(i[1], j[1]) /\ i[1].op = FirstOp(q)
  BY <1>1 DEF Translation
<1>4. Size(q) = 2 => i[2] \in InstrsOf(c) /\ SameButTarget(i[2], j[2]) /\ i[2].op = SecondOp(q)
  BY <1>1 DEF Translation
<1>5. ASSUME NEW x \in DOMAIN Carried(q)
      PROVE  DecodedIn(d, j[1][x]) = Carried(q)[x]
  <2>1. x \in {"result", "arg1", "arg2"} /\ Size(q) >= 1 /\ (x = "result" => FirstOp(q) \notin JumpOps)
    BY CarriedOperands
  <2>2. j[1][x] = i[1][x] /\ i[1][x] \in ArgsOf(c)
    <3>1. FirstOp(q) \notin JumpOps => j[1].result = i[1].result
      BY <1>3, <2>1 DEF SameButTarget, JumpOps
    <3> QED BY <1>3, <2>1, <3>1 DEF SameButTarget, InstrsOf
  <2>3. DecodedIn(c, i[1][x]) = Carried(q)[x]
    BY DEF Translation
  <2> QED BY <1>2, <2>2, <2>3
<1>6. q.op \in Jumps \cup {"funcstart"} => j[1].result \in Labels
  <2>1. q.op \in Jumps \cup {"funcstart"} => Size(q) >= 1
    BY RelopsAre DEF Size, Jumps
  <2> QED BY <1>3, <2>1 DEF Translation, SameButTarget
<1>7. q.op = "ret" => j[Size(q)].result \in Labels
  <2>1. q.op = "ret" => Size(q) \in {1, 2}
    BY DEF Size
  <2> QED BY <1>3, <1>4, <2>1 DEF Translation, SameButTarget
<1>8. q.op = "funcstart" => j[2].result.type = "userfunc" /\ DecodedIn(d, j[2].result) = q.result
  <2> HAVE q.op = "funcstart"
  <2>1. Size(q) = 2 /\ SecondOp(q) = "funcenter"
    BY DEF Size, SecondOp
  <2>2. j[2].result = i[2].result /\ i[2].result \in ArgsOf(c)
    BY <1>4, <2>1 DEF SameButTarget, InstrsOf, JumpOps, NumCmpOps
  <2> QED BY <1>2, <2>2 DEF Translation
<1>9. q.op = "ret" /\ Size(q) = 2 => j[1].result = Retval
  <2>1. q.op = "ret" /\ Size(q) = 2 => i[1].result = Retval
    BY DEF Translation
  <2> QED BY <1>3, <2>1 DEF SameButTarget, Labels, Retval
<1> QED BY <1>3, <1>4, <1>5, <1>6, <1>7, <1>8, <1>9 DEF Translation, SameButTarget

\* The old instructions change in targets only, and the new ones are those of
\* the next quad.
NewCode ==
  /\ \A n \in 1..CurrInstruction : SameButTarget(instructions[n], instructions'[n])
  /\ Translation(consts', CodeAt(instructions', CurrInstruction), Quad)

LEMMA TranslatedGrows ==
  ASSUME Laid, Translated, LayoutStep, NewCode
  PROVE  Translated'
<1>1. /\ next \in 0..CurrQuad - 1 /\ next \in Nat
      /\ \A k \in 0..next : taddress'[k] = StartOf(k)
  BY LayoutGrows, StartsOfQuads
<1>2. \A k \in 0..next : Translation(consts', CodeAt(instructions', taddress'[k]), quads[k])
  <2> TAKE k \in 0..next
  <2>1. CASE k = next
    <3>1. taddress'[k] = CurrInstruction
      BY <1>1, <2>1, StartsOfQuads
    <3> QED BY <2>1, <3>1 DEF NewCode, Quad
  <2>2. CASE k < next
    <3>1. k \in 0..next - 1
      BY <1>1, <2>2
    <3>2. PICK a : a = taddress[k]
      OBVIOUS
    <3>3. a \in Nat /\ taddress'[k] = a /\ a + Size(quads[k]) <= CurrInstruction
      BY <1>1, <3>1, <3>2, StartsOfQuads
    <3>4. CurrInstruction \in Nat /\ \A n \in 1..CurrInstruction : instructions[n] \in InstrsOf(consts)
      BY LengthOfCode
    <3>5. \A x \in 1..Size(quads[k]) :
            /\ CodeAt(instructions, a)[x] \in InstrsOf(consts)
            /\ SameButTarget(CodeAt(instructions, a)[x], CodeAt(instructions', a)[x])
      <4> TAKE x \in 1..Size(quads[k])
      <4>1. x \in 1..2 /\ a + x \in 1..CurrInstruction
        BY <3>3, <3>4, SizeIsSmall
      <4>2. CodeAt(instructions, a)[x] = instructions[a + x] /\ CodeAt(instructions', a)[x] = instructions'[a + x]
        BY <4>1 DEF CodeAt
      <4> QED BY <3>4, <4>1, <4>2 DEF NewCode
    <3>6. quads[k].op \in QuadOps
      BY <1>1, <2>2, QuadsAreNested DEF Laid, QuadOK
    <3>7. Translation(consts, CodeAt(instructions, a), quads[k])
      BY <3>1, <3>2 DEF Translated
    <3>8. ConstTables(consts) /\ Grown(consts, consts')
      BY DEF Laid, LayoutStep
    <3> QED BY <3>3, <3>5, <3>6, <3>7, <3>8, TranslationStays
  <2> QED BY <1>1, <2>1, <2>2
<1>3. next' = next + 1 /\ quads' = quads
  BY DEF LayoutStep
<1> QED BY <1>1, <1>2, <1>3 DEF Translated

-----------------------------------------------------------------------------
(* The list of jumps, and the frames, when a quad is translated. *)

LEMMA JumpsListed ==
  ASSUME Laid, LayoutStep, JumpsWait, outcome = "running",
         jumpList' = IF Quad.op \in Jumps THEN jumpList \cup {IncompleteJump} ELSE jumpList
  PROVE  JumpsWait'
<1>1. /\ next \in 0..CurrQuad - 1 /\ next \in Nat
      /\ \A k \in 0..next - 1 : taddress'[k] = taddress[k]
      /\ taddress'[next] = CurrInstruction
      /\ next' = next + 1 /\ quads' = quads
  BY LayoutGrows, StartsOfQuads DEF LayoutStep
<1> DEFINE J(k) == [instrNo |-> taddress'[k], iaddress |-> quads[k].label]
<1>2. jumpList = {J(k) : k \in {j \in 0..next - 1 : quads[j].op \in Jumps}}
  BY <1>1 DEF JumpsWait
<1>3. J(next) = IncompleteJump
  BY <1>1 DEF IncompleteJump, Quad
<1>4. {j \in 0..next : quads[j].op \in Jumps}
        = {j \in 0..next - 1 : quads[j].op \in Jumps} \cup (IF Quad.op \in Jumps THEN {next} ELSE {})
  BY <1>1 DEF Quad
<1>5. PICK n : n = next
  OBVIOUS
<1>6. jumpList' = {J(k) : k \in {j \in 0..n : quads[j].op \in Jumps}}
  BY <1>2, <1>3, <1>4, <1>5
<1>7. 0..next' - 1 = 0..n
  BY <1>1, <1>5
<1> QED BY <1>1, <1>6, <1>7 DEF JumpsWait

LEMMA WaitingStays ==
  ASSUME Laid, LayoutStep, NewCode, NEW n \in Nat, WaitingJump(n)
  PROVE  WaitingJump(n)'
<1>1. n + 1 \in 1..CurrInstruction /\ CurrInstruction \in Nat
  BY LengthOfCode DEF WaitingJump
<1>2. SameButTarget(instructions[n + 1], instructions'[n + 1])
  BY <1>1 DEF NewCode
<1>3. CurrInstruction' = CurrInstruction + Size(Quad) /\ Size(Quad) \in 0..2
  BY SizeIsSmall DEF LayoutStep
<1> QED BY <1>1, <1>2, <1>3 DEF WaitingJump, SameButTarget

\* Where control leaves a quad, when more quads follow.
LEMMA LastStays ==
  ASSUME Laid, LayoutStep, NEW k \in 0..next
  PROVE  /\ k < next => LastOf(k)' = LastOf(k) /\ LastOf(k) \in Int
         /\ k = next /\ Quad.op # "funcstart" => LastOf(k)' = CurrInstruction + Size(Quad) - 1
<1>1. /\ next \in Nat
      /\ \A j \in 0..next : StartOf(j)' = StartOf(j) /\ taddress'[j] = StartOf(j) /\ StartOf(j) \in Nat
      /\ \A j : j = next + 1 => StartOf(j)' = CurrInstruction + Size(Quad)
      /\ \A j \in 0..next - 1 : StartOf(j) = taddress[j]
      /\ quads' = quads
  BY LayoutGrows, StartsOfQuads DEF LayoutStep
<1>2. k < next => k + 1 \in 0..next /\ k \in 0..next - 1
  BY <1>1
<1>3. PICK m : m = k + 1
  OBVIOUS
<1>4. LastOf(k)' = IF quads[k].op = "funcstart" THEN taddress'[k] ELSE StartOf(m)' - 1
  BY <1>1, <1>3 DEF LastOf
<1>5. LastOf(k) = IF quads[k].op = "funcstart" THEN taddress[k] ELSE StartOf(m) - 1
  BY <1>3 DEF LastOf
<1>6. CASE k < next
  <2>1. m \in 0..next /\ k \in 0..next - 1
    BY <1>2, <1>3, <1>6
  <2>2. StartOf(m)' = StartOf(m) /\ StartOf(m) \in Nat /\ taddress'[k] = taddress[k] /\ taddress[k] \in Nat
    BY <1>1, <2>1
  <2> QED BY <1>1, <1>4, <1>5, <1>6, <2>2
<1>7. CASE k = next
  <2>1. StartOf(m)' = CurrInstruction + Size(Quad)
    BY <1>1, <1>3, <1>7
  <2>2. quads[k] = Quad
    BY <1>7 DEF Quad
  <2>3. Quad.op # "funcstart" => LastOf(k)' = StartOf(m)' - 1
    BY <1>4, <2>2
  <2>4. ~ (k < next)
    BY <1>1, <1>7
  <2>5. Quad.op # "funcstart" => LastOf(k)' = CurrInstruction + Size(Quad) - 1
    <3>1. CurrInstruction \in Nat /\ Size(Quad) \in 0..2
      BY LengthOfCode, SizeIsSmall
    <3>2. PICK v : v = CurrInstruction + Size(Quad)
      OBVIOUS
    <3> QED BY <2>1, <2>3, <3>1, <3>2
  <2> QED BY <2>4, <2>5
<1>8. k < next \/ k = next
  BY <1>1
<1> QED BY <1>6, <1>7, <1>8

LEMMA ReturnsOfFunction ==
  ASSUME Laid, LayoutStep, NEW s
  PROVE  RetsOf(s)' = IF Quad.op = "ret" /\ FunctionOf(quads, next) = s
                      THEN RetsOf(s) \cup {next} ELSE RetsOf(s)
<1>1. next \in Nat /\ 0..next' - 1 = (0..next - 1) \cup {next} /\ quads' = quads
  BY StartsOfQuads DEF LayoutStep
<1> QED BY <1>1 DEF RetsOf, Quad

-----------------------------------------------------------------------------
(* The levels of the functions around a quad. *)

LEMMA LevelsAreFrames ==
  ASSUME NEW A, A \subseteq Nat, IsFiniteSet(A), NEW s \in A
  PROVE  /\ Cardinality(UpTo(A, s)) \in 1..Cardinality(A)
         /\ (\A r \in A : r <= s) => Cardinality(UpTo(A, s)) = Cardinality(A)
         /\ (\E r \in A : r > s) => Cardinality(UpTo(A, s)) < Cardinality(A)
<1> DEFINE U == UpTo(A, s)
<1>1. U \subseteq A /\ s \in U
  BY DEF UpTo
<1>2. (\A r \in A : r <= s) => U = A
  BY DEF UpTo
<1>3. (\E r \in A : r > s) => U # A
  BY DEF UpTo
<1> HIDE DEF U
<1>4. IsFiniteSet(U) /\ Cardinality(U) <= Cardinality(A) /\ (Cardinality(U) = Cardinality(A) => U = A)
  BY <1>1, FS_Subset
<1>5. Cardinality(U) \in Nat /\ Cardinality(A) \in Nat /\ Cardinality(U) # 0
  BY <1>1, <1>4, FS_CardinalityType, FS_EmptySet
<1> QED BY <1>2, <1>3, <1>4, <1>5 DEF U

LEMMA LevelsWithMore ==
  ASSUME NEW A, A \subseteq Nat, IsFiniteSet(A), NEW n \in Nat, \A r \in A : r < n
  PROVE  /\ Cardinality(A \cup {n}) = Cardinality(A) + 1
         /\ \A s \in A : UpTo(A \cup {n}, s) = UpTo(A, s)
         /\ UpTo(A \cup {n}, n) = A \cup {n}
<1>1. n \notin A
  OBVIOUS
<1>2. Cardinality(A \cup {n}) = Cardinality(A) + 1
  BY <1>1, FS_AddElement
<1>3. \A s \in A : UpTo(A \cup {n}, s) = UpTo(A, s)
  BY DEF UpTo
<1>4. UpTo(A \cup {n}, n) = A \cup {n}
  <2>1. \A r \in A \cup {n} : r <= n
    OBVIOUS
  <2> QED BY <2>1 DEF UpTo
<1> QED BY <1>2, <1>3, <1>4

LEMMA LevelsWithLess ==
  ASSUME NEW A, A \subseteq Nat, IsFiniteSet(A), NEW m \in A, \A r \in A : r <= m
  PROVE  /\ Cardinality(A \ {m}) = Cardinality(A) - 1
         /\ \A s \in A \ {m} : UpTo(A \ {m}, s) = UpTo(A, s)
<1>1. Cardinality(A \ {m}) = Cardinality(A) - 1
  BY FS_RemoveElement
<1> QED BY <1>1 DEF UpTo

\* The functions around the next quad, and their frames.
LEMMA AroundNow ==
  ASSUME Laid
  PROVE  /\ Around(quads, next) \subseteq 0..next - 1
         /\ Around(quads, next) \subseteq Nat
         /\ Around(quads, next) \subseteq FuncStarts(quads)
         /\ IsFiniteSet(Around(quads, next))
         /\ next \in Nat
         /\ \A s \in Around(quads, next) :
              Level(s) \in 1..Cardinality(Around(quads, next)) /\ next <= End(quads, s)
<1>1. next \in Nat
  BY StartsOfQuads
<1>2. Around(quads, next) \subseteq 0..next - 1 /\ IsFiniteSet(Around(quads, next))
  BY <1>1, QuadsAreNested, AroundIsFinite DEF Laid
<1>3. Around(quads, next) \subseteq Nat
  BY <1>1, <1>2
<1>4. \A s \in Around(quads, next) : Level(s) \in 1..Cardinality(Around(quads, next))
  BY <1>2, <1>3, LevelsAreFrames DEF Level
<1> QED BY <1>1, <1>2, <1>3, <1>4 DEF Around

LEMMA InnermostFunction ==
  ASSUME Laid, next < CurrQuad, Around(quads, next) # {}
  PROVE  LET m == FunctionOf(quads, next) IN
         /\ m \in Around(quads, next)
         /\ \A r \in Around(quads, next) : r <= m
         /\ Level(m) = Cardinality(Around(quads, next))
         /\ \A s \in Around(quads, next) : s # m => Level(s) < Cardinality(Around(quads, next))
<1> DEFINE A == Around(quads, next)
           m == FunctionOf(quads, next)
<1>1. m \in A /\ \A r \in A : r <= m
  BY AroundNow, QuadsAreNested, FunctionIsInnermost DEF Laid
<1>2. A \subseteq Nat /\ IsFiniteSet(A)
  BY AroundNow
<1>3. \A s \in A : Level(s) = Cardinality(UpTo(A, s))
  BY DEF Level
<1> HIDE DEF A, m
<1>4. Cardinality(UpTo(A, m)) = Cardinality(A)
  BY <1>1, <1>2, LevelsAreFrames
<1>5. \A s \in A : s # m => Cardinality(UpTo(A, s)) < Cardinality(A)
  <2> TAKE s \in A
  <2> HAVE s # m
  <2>1. m > s
    BY <1>1, <1>2
  <2> QED BY <1>1, <1>2, <2>1, LevelsAreFrames
<1> QED BY <1>1, <1>3, <1>4, <1>5 DEF A, m

\* What the frame of a function around the next quad has to hold behind it.
LEMMA FrameOfFunction ==
  ASSUME Laid, LayoutStep, NEW s \in Around(quads, next)
  PROVE  /\ taddress'[s] = taddress[s]
         /\ {LastOf(r) : r \in RetsOf(s)}' =
              IF Quad.op = "ret" /\ FunctionOf(quads, next) = s
              THEN {LastOf(r) : r \in RetsOf(s)} \cup {CurrInstruction + Size(Quad) - 1}
              ELSE {LastOf(r) : r \in RetsOf(s)}
<1>1. s \in 0..next - 1 /\ next \in Nat
  BY AroundNow
<1>2. taddress'[s] = taddress[s]
  BY <1>1, LayoutGrows, StartsOfQuads
<1>3. \A r \in RetsOf(s) : LastOf(r)' = LastOf(r)
  <2> TAKE r \in RetsOf(s)
  <2>1. r \in 0..next /\ r < next
    BY <1>1 DEF RetsOf
  <2> QED BY <2>1, LastStays
<1>4. PICK n, v : n = next /\ v = CurrInstruction + Size(Quad) - 1
  OBVIOUS
<1>5. Quad.op = "ret" => LastOf(n)' = v
  BY <1>1, <1>4, LastStays
<1>6. RetsOf(s)' = IF Quad.op = "ret" /\ FunctionOf(quads, n) = s THEN RetsOf(s) \cup {n} ELSE RetsOf(s)
  BY <1>4, ReturnsOfFunction
<1>7. CASE Quad.op = "ret" /\ FunctionOf(quads, n) = s
  <2>1. {LastOf(r) : r \in RetsOf(s)}' = {LastOf(r) : r \in RetsOf(s)} \cup {v}
    BY <1>3, <1>5, <1>6, <1>7
  <2> QED BY <1>2, <1>4, <1>7, <2>1
<1>8. CASE ~ (Quad.op = "ret" /\ FunctionOf(quads, n) = s)
  <2>1. {LastOf(r) : r \in RetsOf(s)}' = {LastOf(r) : r \in RetsOf(s)}
    BY <1>3, <1>6, <1>8
  <2> QED BY <1>2, <1>4, <1>8, <2>1
<1> QED BY <1>7, <1>8

LEMMA FrameFields ==
  ASSUME FramesTyped, NEW d \in 1..Len(funcStack)
  PROVE  /\ funcStack[d].jump_instr \in Nat
         /\ funcStack[d].rets \subseteq Nat
         /\ funcStack[d].ufidx \in Nat
         /\ funcStack[d] \in Frames
<1>1. funcStack[d] \in Frames
  BY ElementOfSeq DEF FramesTyped
<1> QED BY <1>1 DEF Frames

LEMMA FrameEntriesStay ==
  ASSUME Laid, LayoutStep, FramesTyped, NEW d \in 1..Len(funcStack)
  PROVE  /\ consts'["userfunc"][funcStack[d].ufidx + 1] = consts["userfunc"][funcStack[d].ufidx + 1]
         /\ funcStack[d].ufidx < Len(consts'["userfunc"])
<1>1. PICK u : u = funcStack[d].ufidx
  OBVIOUS
<1>2. u \in Nat /\ u < Len(consts["userfunc"])
  BY <1>1, FrameFields DEF FramesTyped
<1>3. "userfunc" \in ConstTypes
  BY DEF ConstTypes
<1>4. Len(consts["userfunc"]) \in Nat /\ Len(consts'["userfunc"]) \in Nat
  BY <1>3, TableLength DEF Laid, ConstTables, LayoutStep, Grown
<1>5. u + 1 \in 1..Len(consts["userfunc"]) /\ Len(consts["userfunc"]) <= Len(consts'["userfunc"])
  BY <1>2, <1>3, <1>4 DEF LayoutStep, Grown
<1>6. consts'["userfunc"][u + 1] = consts["userfunc"][u + 1]
  BY <1>3, <1>5 DEF LayoutStep, Grown
<1> QED BY <1>1, <1>2, <1>4, <1>5, <1>6

\* The frames of the functions around a quad, when it is translated.
LEMMA FramesStay ==
  ASSUME Laid, LayoutStep, FramesTyped, FramesAround,
         Quad.op \notin {"ret", "funcstart", "funcend"}, funcStack' = funcStack
  PROVE  FramesAround'
<1>1. Around(quads, next)' = Around(quads, next)
  BY AroundNext, LayoutGrows, QuadsAreNested DEF Laid, LayoutStep, Quad
<1>2. \A s \in Around(quads, next) : Level(s)' = Level(s)
  BY <1>1 DEF Level
<1>3. ASSUME NEW s \in Around(quads, next)
      PROVE  /\ funcStack[Level(s)].jump_instr = taddress'[s]
             /\ funcStack[Level(s)].rets = {LastOf(r) : r \in RetsOf(s)}'
             /\ consts'["userfunc"][funcStack[Level(s)].ufidx + 1] = quads[s].result
  <2>1. /\ taddress'[s] = taddress[s]
        /\ {LastOf(r) : r \in RetsOf(s)}' = {LastOf(r) : r \in RetsOf(s)}
    BY FrameOfFunction
  <2>2. /\ funcStack[Level(s)].jump_instr = taddress[s]
        /\ funcStack[Level(s)].rets = {LastOf(r) : r \in RetsOf(s)}
        /\ consts["userfunc"][funcStack[Level(s)].ufidx + 1] = quads[s].result
    BY DEF FramesAround
  <2>3. consts'["userfunc"][funcStack[Level(s)].ufidx + 1] = consts["userfunc"][funcStack[Level(s)].ufidx + 1]
    <3>1. Level(s) \in 1..Len(funcStack)
      BY AroundNow DEF FramesAround
    <3> QED BY <3>1, FrameEntriesStay
  <2> QED BY <2>1, <2>2, <2>3
<1>4. quads' = quads /\ Len(funcStack') = Cardinality(Around(quads, next)')
  BY <1>1 DEF FramesAround, LayoutStep
<1> QED BY <1>1, <1>2, <1>3, <1>4 DEF FramesAround

LEMMA TypedFrameStays ==
  ASSUME Laid, LayoutStep, NewCode, FramesTyped, DOMAIN bodies \subseteq DOMAIN bodies',
         NEW d \in 1..Len(funcStack)
  PROVE  /\ \A n \in funcStack[d].rets \cup {funcStack[d].jump_instr} : n \in Nat /\ WaitingJump(n)'
         /\ funcStack[d].ufidx < Len(consts'["userfunc"])
         /\ funcStack[d].ufidx \in DOMAIN bodies'
<1>1. \A n \in funcStack[d].rets \cup {funcStack[d].jump_instr} : n \in Nat /\ WaitingJump(n)
  BY FrameFields DEF FramesTyped
<1>2. \A n \in funcStack[d].rets \cup {funcStack[d].jump_instr} : WaitingJump(n)'
  BY <1>1, WaitingStays
<1>3. funcStack[d].ufidx \in DOMAIN bodies
  BY DEF FramesTyped
<1> QED BY <1>1, <1>2, <1>3, FrameEntriesStay

LEMMA TypedFramesStay ==
  ASSUME Laid, LayoutStep, NewCode, FramesTyped, bodies' = bodies, funcStack' = funcStack
  PROVE  FramesTyped'
BY TypedFrameStays DEF FramesTyped

\* A return is added to the innermost frame.
ReturnStep == funcStack' = WithReturn(Size(Quad) - 1)

LEMMA TypedFramesWithReturn ==
  ASSUME Laid, LayoutStep, NewCode, FramesTyped, FramesAround, Quad.op = "ret",
         ReturnStep, bodies' = bodies
  PROVE  FramesTyped'
<1>1. Around(quads, next) # {} /\ next \in 0..CurrQuad - 1
  BY LayoutGrows, QuadsAreNested DEF Laid, Quad
<1>2. Len(funcStack) \in 1..Len(funcStack) /\ Len(funcStack) \in Nat
  <2>1. Len(funcStack) \in Nat
    BY LenProperties DEF FramesTyped
  <2>2. PICK s : s \in Around(quads, next)
    BY <1>1
  <2>3. Level(s) \in 1..Len(funcStack)
    BY <2>2, AroundNow DEF FramesAround
  <2> QED BY <2>1, <2>3
<1>3. PICK d, v, fr : /\ d = Len(funcStack) /\ v = CurrInstruction + Size(Quad) - 1
                      /\ fr = [funcStack[d] EXCEPT !.rets = funcStack[d].rets \cup {v}]
  OBVIOUS
<1>4. CurrInstruction \in Nat /\ Size(Quad) \in {1, 2}
  BY LengthOfCode DEF Size
<1>5. v \in Nat /\ CurrInstruction + (Size(Quad) - 1) = v
  BY <1>3, <1>4
<1>6. funcStack' = [funcStack EXCEPT ![d] = fr]
  <2>1. funcStack \in [1..Len(funcStack) -> Frames]
    BY LenProperties DEF FramesTyped
  <2> QED BY <1>2, <1>3, <1>5, <2>1 DEF ReturnStep, WithReturn, Innermost
<1>7. fr \in Frames /\ fr.rets = funcStack[d].rets \cup {v}
      /\ fr.jump_instr = funcStack[d].jump_instr /\ fr.ufidx = funcStack[d].ufidx
  <2>1. funcStack[d] \in Frames
    BY <1>2, <1>3, FrameFields
  <2> QED BY <1>3, <1>5, <2>1 DEF Frames
<1>8. /\ funcStack' \in Seq(Frames) /\ Len(funcStack') = Len(funcStack)
      /\ \A x \in 1..Len(funcStack) : funcStack'[x] = IF x = d THEN fr ELSE funcStack[x]
  <2>1. funcStack \in Seq(Frames) /\ d \in 1..Len(funcStack)
    BY <1>2, <1>3 DEF FramesTyped
  <2> QED BY <1>6, <1>7, <2>1, ExceptSeq
<1>9. WaitingJump(v)'
  <2>1. PICK i : i = CodeAt(instructions', CurrInstruction)
    OBVIOUS
  <2>2. i[Size(Quad)].result \in Labels /\ i[Size(Quad)].op = "jump"
    <3>1. Translation(consts', i, Quad)
      BY <2>1 DEF NewCode
    <3>2. Size(Quad) = 1 => FirstOp(Quad) = "jump"
      BY RelopsAre DEF Size, FirstOp
    <3>3. Size(Quad) = 2 => SecondOp(Quad) = "jump"
      BY DEF SecondOp
    <3> QED BY <1>4, <3>1, <3>2, <3>3 DEF Translation
  <2>3. i[Size(Quad)] = instructions'[v + 1]
    <3>1. CurrInstruction + Size(Quad) = v + 1
      BY <1>3, <1>4
    <3> QED BY <1>4, <2>1, <3>1 DEF CodeAt
  <2>4. v < CurrInstruction'
    BY <1>3, <1>4 DEF LayoutStep
  <2> QED BY <2>2, <2>3, <2>4 DEF WaitingJump
<1>10. ASSUME NEW x \in 1..Len(funcStack)
       PROVE  /\ \A n \in funcStack'[x].rets \cup {funcStack'[x].jump_instr} : WaitingJump(n)'
              /\ funcStack'[x].ufidx < Len(consts'["userfunc"])
              /\ funcStack'[x].ufidx \in DOMAIN bodies'
  <2>1. /\ \A n \in funcStack[x].rets \cup {funcStack[x].jump_instr} : WaitingJump(n)'
        /\ funcStack[x].ufidx < Len(consts'["userfunc"]) /\ funcStack[x].ufidx \in DOMAIN bodies'
    BY TypedFrameStays
  <2>2. CASE x = d
    <3>1. funcStack'[x] = fr /\ funcStack[x] = funcStack[d]
      BY <1>8, <2>2
    <3> QED BY <1>7, <1>9, <2>1, <3>1
  <2>3. CASE x # d
    BY <1>8, <2>1, <2>3
  <2> QED BY <2>2, <2>3
<1> QED BY <1>8, <1>10 DEF FramesTyped

LEMMA FramesWithReturn ==
  ASSUME Laid, LayoutStep, FramesTyped, FramesAround, Quad.op = "ret", ReturnStep
  PROVE  FramesAround'
<1>1. Around(quads, next)' = Around(quads, next)
  BY AroundNext, LayoutGrows, QuadsAreNested DEF Laid, LayoutStep, Quad
<1>2. \A s \in Around(quads, next) : Level(s)' = Level(s)
  BY <1>1 DEF Level
<1>3. Around(quads, next) # {} /\ next < CurrQuad
  BY LayoutGrows, QuadsAreNested DEF Laid, Quad, LayoutStep
<1>4. PICK m, d, v : m = FunctionOf(quads, next) /\ d = Len(funcStack) /\ v = CurrInstruction + Size(Quad) - 1
  OBVIOUS
<1>5. /\ m \in Around(quads, next) /\ Level(m) = d
      /\ \A s \in Around(quads, next) : s # m => Level(s) < d
      /\ \A s \in Around(quads, next) : Level(s) \in 1..d
  BY <1>3, <1>4, InnermostFunction, AroundNow DEF FramesAround
<1>6. /\ funcStack \in [1..d -> Frames] /\ d \in Nat /\ d \in 1..d
      /\ CurrInstruction + (Size(Quad) - 1) = v
  <2>1. CurrInstruction \in Nat /\ Size(Quad) \in 0..2
    BY LengthOfCode, SizeIsSmall
  <2> QED BY <1>4, <1>5, <2>1, LenProperties DEF FramesTyped
<1>7. funcStack' = [funcStack EXCEPT ![d].rets = @ \cup {v}]
  BY <1>4, <1>6 DEF ReturnStep, WithReturn, Innermost
<1>8. /\ Len(funcStack') = d
      /\ \A x \in 1..d : /\ funcStack'[x].jump_instr = funcStack[x].jump_instr
                         /\ funcStack'[x].ufidx = funcStack[x].ufidx
                         /\ funcStack'[x].rets = IF x = d THEN funcStack[x].rets \cup {v} ELSE funcStack[x].rets
  <2>1. \A x \in 1..d : funcStack[x] \in Frames
    BY <1>6
  <2>2. \A x \in 1..d : x # d => funcStack'[x] = funcStack[x]
    BY <1>6, <1>7
  <2>3. funcStack'[d] = [funcStack[d] EXCEPT !.rets = funcStack[d].rets \cup {v}]
    BY <1>6, <1>7
  <2>4. funcStack'[d].jump_instr = funcStack[d].jump_instr /\ funcStack'[d].ufidx = funcStack[d].ufidx
        /\ funcStack'[d].rets = funcStack[d].rets \cup {v}
    BY <1>6, <2>1, <2>3 DEF Frames
  <2>5. funcStack' \in [1..d -> Frames \cup {funcStack'[d]}]
    BY <1>6, <1>7
  <2>6. Len(funcStack') = d
    BY <1>6, <2>5, LenProperties, SeqDef
  <2> QED BY <2>2, <2>4, <2>6
<1>9. ASSUME NEW s \in Around(quads, next)
      PROVE  /\ funcStack'[Level(s)].jump_instr = taddress'[s]
             /\ funcStack'[Level(s)].rets = {LastOf(r) : r \in RetsOf(s)}'
             /\ consts'["userfunc"][funcStack'[Level(s)].ufidx + 1] = quads[s].result
  <2>1. /\ taddress'[s] = taddress[s]
        /\ {LastOf(r) : r \in RetsOf(s)}' =
             IF m = s THEN {LastOf(r) : r \in RetsOf(s)} \cup {v} ELSE {LastOf(r) : r \in RetsOf(s)}
    BY <1>4, FrameOfFunction
  <2>2. /\ funcStack[Level(s)].jump_instr = taddress[s]
        /\ funcStack[Level(s)].rets = {LastOf(r) : r \in RetsOf(s)}
        /\ consts["userfunc"][funcStack[Level(s)].ufidx + 1] = quads[s].result
    BY DEF FramesAround
  <2>3. Level(s) \in 1..d /\ (Level(s) = d <=> s = m)
    BY <1>5, <1>6
  <2>4. consts'["userfunc"][funcStack[Level(s)].ufidx + 1] = consts["userfunc"][funcStack[Level(s)].ufidx + 1]
    BY <1>4, <2>3, FrameEntriesStay
  <2>5. /\ funcStack'[Level(s)].jump_instr = taddress'[s]
        /\ consts'["userfunc"][funcStack'[Level(s)].ufidx + 1] = quads[s].result
    BY <1>8, <2>1, <2>2, <2>3, <2>4
  <2>6. funcStack'[Level(s)].rets = {LastOf(r) : r \in RetsOf(s)}'
    BY <1>8, <2>1, <2>2, <2>3
  <2> QED BY <2>5, <2>6
<1>10. quads' = quads /\ Len(funcStack') = Cardinality(Around(quads, next)')
  BY <1>1, <1>4, <1>8 DEF FramesAround, LayoutStep
<1> QED BY <1>1, <1>2, <1>9, <1>10 DEF FramesAround

\* A function that starts gets a frame, for the entry f of its symbol.
NewFrame(f) == [jump_instr |-> CurrInstruction, rets |-> {}, ufidx |-> f]

StartStep(f) ==
  /\ f \in Nat /\ f < Len(consts'["userfunc"])
  /\ consts'["userfunc"][f + 1] = Quad.result
  /\ funcStack' = Append(funcStack, NewFrame(f))
  /\ DOMAIN bodies' = DOMAIN bodies \cup {f}

LEMMA FramePushed ==
  ASSUME Laid, FramesTyped, NEW f \in Nat, StartStep(f)
  PROVE  /\ funcStack' \in Seq(Frames) /\ Len(funcStack') = Len(funcStack) + 1 /\ Len(funcStack) \in Nat
         /\ \A d \in 1..Len(funcStack) : funcStack'[d] = funcStack[d]
         /\ funcStack'[Len(funcStack) + 1] = NewFrame(f)
<1>1. PICK fr : fr = NewFrame(f)
  OBVIOUS
<1>2. fr \in Frames
  BY <1>1, LengthOfCode DEF NewFrame, Frames
<1>3. funcStack \in Seq(Frames) /\ Len(funcStack) \in Nat
  BY LenProperties DEF FramesTyped
<1> QED BY <1>1, <1>2, <1>3, AppendProperties DEF StartStep

LEMMA TypedFramesWithFunction ==
  ASSUME Laid, LayoutStep, NewCode, FramesTyped, Quad.op = "funcstart", NEW f \in Nat, StartStep(f)
  PROVE  FramesTyped'
<1>1. DOMAIN bodies \subseteq DOMAIN bodies' /\ f \in DOMAIN bodies'
  BY DEF StartStep
<1>2. CurrInstruction \in Nat /\ Size(Quad) = 2
  BY LengthOfCode DEF Size
<1>3. PICK fr : fr = NewFrame(f)
  OBVIOUS
<1>4. fr.rets \cup {fr.jump_instr} = {CurrInstruction} /\ fr.ufidx = f
  BY <1>3 DEF NewFrame
<1>5. PICK v : v = CurrInstruction
  OBVIOUS
<1>6. WaitingJump(v)'
  <2>1. PICK i : i = CodeAt(instructions', CurrInstruction)
    OBVIOUS
  <2>2. Translation(consts', i, Quad)
    BY <2>1 DEF NewCode
  <2>3. i[1].op = "jump" /\ i[1].result \in Labels
    BY <1>2, <2>2, RelopsAre DEF Translation, FirstOp
  <2>4. i[1] = instructions'[v + 1]
    BY <1>5, <2>1 DEF CodeAt
  <2>5. v < CurrInstruction'
    BY <1>2, <1>5 DEF LayoutStep
  <2> QED BY <2>3, <2>4, <2>5 DEF WaitingJump
<1>7. ASSUME NEW x \in 1..Len(funcStack')
      PROVE  /\ \A n \in funcStack'[x].rets \cup {funcStack'[x].jump_instr} : WaitingJump(n)'
             /\ funcStack'[x].ufidx < Len(consts'["userfunc"])
             /\ funcStack'[x].ufidx \in DOMAIN bodies'
  <2>1. CASE x \in 1..Len(funcStack)
    <3>1. funcStack'[x] = funcStack[x]
      BY <2>1, FramePushed
    <3> QED BY <1>1, <2>1, <3>1, TypedFrameStays
  <2>2. CASE x = Len(funcStack) + 1
    <3>1. funcStack'[x] = fr
      BY <1>3, <2>2, FramePushed
    <3> QED BY <1>1, <1>4, <1>5, <1>6, <3>1 DEF StartStep
  <2> QED BY <2>1, <2>2, FramePushed
<1> QED BY <1>7, FramePushed DEF FramesTyped

LEMMA FramesWithFunction ==
  ASSUME Laid, LayoutStep, FramesTyped, FramesAround, Quad.op = "funcstart", NEW f \in Nat, StartStep(f)
  PROVE  FramesAround'
<1> DEFINE A == Around(quads, next)
<1>1. PICK n, d : n = next /\ d = Len(funcStack)
  OBVIOUS
<1>2. A \subseteq Nat /\ IsFiniteSet(A) /\ n \in Nat /\ \A r \in A : r < n
  BY <1>1, AroundNow
<1>3. Around(quads, next)' = A \cup {n} /\ n \in FuncStarts(quads)
  BY <1>1, AroundStart, LayoutGrows, QuadsAreNested DEF Laid, LayoutStep, Quad
<1>4. /\ d \in Nat /\ Len(funcStack') = d + 1
      /\ \A x \in 1..d : funcStack'[x] = funcStack[x]
      /\ funcStack'[d + 1] = NewFrame(f)
  BY <1>1, FramePushed
<1>5. d = Cardinality(A) /\ \A s \in A : Level(s) = Cardinality(UpTo(A, s)) /\ Level(s) \in 1..d
  BY <1>1, AroundNow DEF FramesAround, Level
<1>6. \A s : Level(s)' = Cardinality(UpTo(A \cup {n}, s))
  BY <1>3 DEF Level
<1>7. ASSUME NEW s \in A
      PROVE  /\ Level(s)' = Level(s)
             /\ funcStack'[Level(s)].jump_instr = taddress'[s]
             /\ funcStack'[Level(s)].rets = {LastOf(r) : r \in RetsOf(s)}'
             /\ consts'["userfunc"][funcStack'[Level(s)].ufidx + 1] = quads[s].result
  <2>1. Level(s)' = Level(s)
    <3>1. \A r \in A : UpTo(A \cup {n}, r) = UpTo(A, r)
      <4> HIDE DEF A
      <4> QED BY <1>2, LevelsWithMore
    <3> QED BY <1>5, <1>6, <3>1
  <2>2. /\ taddress'[s] = taddress[s]
        /\ {LastOf(r) : r \in RetsOf(s)}' = {LastOf(r) : r \in RetsOf(s)}
    BY FrameOfFunction
  <2>3. /\ funcStack[Level(s)].jump_instr = taddress[s]
        /\ funcStack[Level(s)].rets = {LastOf(r) : r \in RetsOf(s)}
        /\ consts["userfunc"][funcStack[Level(s)].ufidx + 1] = quads[s].result
    BY DEF FramesAround
  <2>4. Level(s) \in 1..d /\ funcStack'[Level(s)] = funcStack[Level(s)]
    BY <1>4, <1>5
  <2>5. consts'["userfunc"][funcStack[Level(s)].ufidx + 1] = consts["userfunc"][funcStack[Level(s)].ufidx + 1]
    BY <1>1, <2>4, FrameEntriesStay
  <2> QED BY <2>1, <2>2, <2>3, <2>4, <2>5
<1>8. /\ Level(n)' = d + 1
      /\ funcStack'[d + 1].jump_instr = taddress'[n]
      /\ funcStack'[d + 1].rets = {LastOf(r) : r \in RetsOf(n)}'
      /\ consts'["userfunc"][funcStack'[d + 1].ufidx + 1] = quads[n].result
  <2>1. Level(n)' = d + 1
    <3> HIDE DEF A
    <3>1. UpTo(A \cup {n}, n) = A \cup {n} /\ Cardinality(A \cup {n}) = Cardinality(A) + 1
      BY <1>2, LevelsWithMore
    <3> QED BY <1>5, <1>6, <3>1
  <2>2. taddress'[n] = CurrInstruction
    BY <1>1, <1>2, LayoutGrows, StartsOfQuads
  <2>3. RetsOf(n)' = {}
    <3>1. \A r \in 0..n : quads[r].op = "ret" => FunctionOf(quads, r) # n
      <4> TAKE r \in 0..n
      <4> HAVE quads[r].op = "ret"
      <4>1. r \in 0..CurrQuad - 1 /\ r \in Nat /\ WellNested(quads, CurrQuad) /\ CurrQuad \in Nat
        BY <1>1, <1>2, LayoutGrows, QuadsAreNested DEF Laid
      <4>2. Around(quads, r) # {}
        BY <4>1, QuadsAreNested DEF Laid
      <4>3. FunctionOf(quads, r) \in Around(quads, r)
        BY <4>1, <4>2, FunctionIsInnermost
      <4>4. FunctionOf(quads, r) < r
        BY <4>3 DEF Around
      <4> QED BY <1>2, <4>4
    <3>2. quads' = quads /\ 0..next' - 1 = 0..n
      BY <1>1, <1>2 DEF LayoutStep
    <3> QED BY <3>1, <3>2 DEF RetsOf
  <2>4. NewFrame(f).jump_instr = CurrInstruction /\ NewFrame(f).rets = {} /\ NewFrame(f).ufidx = f
    BY DEF NewFrame
  <2>5. {LastOf(r) : r \in RetsOf(n)}' = {}
    BY <2>3
  <2> QED BY <1>1, <1>4, <2>1, <2>2, <2>4, <2>5 DEF StartStep, Quad
<1>9. Len(funcStack') = Cardinality(A \cup {n})
  <2> HIDE DEF A
  <2>1. Cardinality(A \cup {n}) = Cardinality(A) + 1
    BY <1>2, LevelsWithMore
  <2> QED BY <1>4, <1>5, <2>1
<1>10. quads' = quads
  BY DEF LayoutStep
<1> HIDE DEF A
<1> QED BY <1>3, <1>7, <1>8, <1>9, <1>10 DEF FramesAround

\* A function that ends gives its frame back.
LEMMA FramePopped ==
  ASSUME Laid, next < CurrQuad, FramesTyped, FramesAround, Quad.op = "funcend",
         funcStack' = SubSeq(funcStack, 1, Innermost - 1)
  PROVE  /\ Len(funcStack) \in 1..Len(funcStack) /\ Len(funcStack) \in Nat
         /\ funcStack' \in Seq(Frames) /\ Len(funcStack') = Len(funcStack) - 1
         /\ \A d \in 1..Len(funcStack) - 1 : funcStack'[d] = funcStack[d]
<1>1. Around(quads, next) # {}
  BY AroundEnd, StartsOfQuads, QuadsAreNested DEF Laid, Quad
<1>2. Len(funcStack) \in 1..Len(funcStack) /\ Len(funcStack) \in Nat
  <2>1. Len(funcStack) \in Nat
    BY LenProperties DEF FramesTyped
  <2>2. PICK s : s \in Around(quads, next)
    BY <1>1
  <2>3. Level(s) \in 1..Len(funcStack)
    BY <2>2, AroundNow DEF FramesAround
  <2> QED BY <2>1, <2>3
<1>3. PICK m : m = Len(funcStack) - 1
  OBVIOUS
<1>4. m \in Nat /\ \A i \in 1..m : funcStack[i] \in Frames
  BY <1>2, <1>3, ElementOfSeq DEF FramesTyped
<1>5. funcStack' = SubSeq(funcStack, 1, m)
  BY <1>3 DEF Innermost
<1>6. /\ funcStack' \in Seq(Frames) /\ Len(funcStack') = (IF 1 <= m THEN m - 1 + 1 ELSE 0)
      /\ \A i \in 1..m - 1 + 1 : funcStack'[i] = funcStack[1 + i - 1]
  <2>1. m \in Int /\ 1 \in Int
    BY <1>4
  <2>2. PICK f : f = funcStack
    OBVIOUS
  <2>3. /\ SubSeq(f, 1, m) \in Seq(Frames) /\ Len(SubSeq(f, 1, m)) = (IF 1 <= m THEN m - 1 + 1 ELSE 0)
        /\ \A i \in 1..m - 1 + 1 : SubSeq(f, 1, m)[i] = f[1 + i - 1]
    <3>1. \A i \in 1..m : f[i] \in Frames
      BY <1>4, <2>2
    <3> QED BY ONLY <2>1, <3>1, SubSeqProperties
  <2> QED BY <1>5, <2>2, <2>3
<1>7. Len(funcStack') = m /\ \A i \in 1..m : funcStack'[i] = funcStack[i]
  BY <1>4, <1>6
<1> QED BY <1>2, <1>3, <1>6, <1>7

LEMMA TypedFramesWithout ==
  ASSUME Laid, LayoutStep, NewCode, FramesTyped, FramesAround, Quad.op = "funcend",
         funcStack' = SubSeq(funcStack, 1, Innermost - 1), DOMAIN bodies \subseteq DOMAIN bodies'
  PROVE  FramesTyped'
<1>1. next < CurrQuad
  BY DEF LayoutStep
<1>2. ASSUME NEW x \in 1..Len(funcStack')
      PROVE  /\ \A n \in funcStack'[x].rets \cup {funcStack'[x].jump_instr} : WaitingJump(n)'
             /\ funcStack'[x].ufidx < Len(consts'["userfunc"])
             /\ funcStack'[x].ufidx \in DOMAIN bodies'
  <2>1. x \in 1..Len(funcStack) /\ funcStack'[x] = funcStack[x]
    BY <1>1, FramePopped
  <2> QED BY <2>1, TypedFrameStays
<1> QED BY <1>1, <1>2, FramePopped DEF FramesTyped

LEMMA FramesWithout ==
  ASSUME Laid, LayoutStep, FramesTyped, FramesAround, Quad.op = "funcend",
         funcStack' = SubSeq(funcStack, 1, Innermost - 1)
  PROVE  FramesAround'
<1> DEFINE A == Around(quads, next)
<1>1. PICK m, d : m = FunctionOf(quads, next) /\ d = Len(funcStack)
  OBVIOUS
<1>2. A \subseteq Nat /\ IsFiniteSet(A)
  BY AroundNow
<1>3. m \in A /\ (\A r \in A : r <= m) /\ Around(quads, next)' = A \ {m}
  BY <1>1, AroundEnd, LayoutGrows, QuadsAreNested DEF Laid, LayoutStep, Quad
<1>4. /\ d \in Nat /\ Len(funcStack') = d - 1
      /\ \A x \in 1..d - 1 : funcStack'[x] = funcStack[x]
  BY <1>1, FramePopped DEF LayoutStep
<1>5. /\ d = Cardinality(A)
      /\ \A s \in A : Level(s) = Cardinality(UpTo(A, s)) /\ Level(s) \in 1..d
      /\ \A s \in A : s # m => Level(s) < d
  BY <1>1, <1>3, AroundNow, InnermostFunction DEF FramesAround, Level, LayoutStep
<1>6. \A s : Level(s)' = Cardinality(UpTo(A \ {m}, s))
  BY <1>3 DEF Level
<1>7. \A s \in A \ {m} : Level(s)' = Level(s)
  <2>1. \A s \in A \ {m} : UpTo(A \ {m}, s) = UpTo(A, s)
    <3> HIDE DEF A
    <3> QED BY <1>2, <1>3, LevelsWithLess
  <2> QED BY <1>5, <1>6, <2>1
<1>8. ASSUME NEW s \in A, s # m
      PROVE  /\ funcStack'[Level(s)].jump_instr = taddress'[s]
             /\ funcStack'[Level(s)].rets = {LastOf(r) : r \in RetsOf(s)}'
             /\ consts'["userfunc"][funcStack'[Level(s)].ufidx + 1] = quads[s].result
  <2>1. /\ taddress'[s] = taddress[s]
        /\ {LastOf(r) : r \in RetsOf(s)}' = {LastOf(r) : r \in RetsOf(s)}
    BY FrameOfFunction
  <2>2. /\ funcStack[Level(s)].jump_instr = taddress[s]
        /\ funcStack[Level(s)].rets = {LastOf(r) : r \in RetsOf(s)}
        /\ consts["userfunc"][funcStack[Level(s)].ufidx + 1] = quads[s].result
    BY DEF FramesAround
  <2>3. Level(s) \in 1..d - 1 /\ Level(s) \in 1..d
    BY <1>4, <1>5, <1>8
  <2>4. funcStack'[Level(s)] = funcStack[Level(s)]
    BY <1>4, <2>3
  <2>5. consts'["userfunc"][funcStack[Level(s)].ufidx + 1] = consts["userfunc"][funcStack[Level(s)].ufidx + 1]
    BY <1>1, <2>3, FrameEntriesStay
  <2> QED BY <2>1, <2>2, <2>4, <2>5
<1>9. Len(funcStack') = Cardinality(A \ {m})
  <2> HIDE DEF A
  <2>1. Cardinality(A \ {m}) = Cardinality(A) - 1
    BY <1>2, <1>3, LevelsWithLess
  <2> QED BY <1>4, <1>5, <2>1
<1>10. quads' = quads
  BY DEF LayoutStep
<1> HIDE DEF A
<1> QED BY ZenonT(40), <1>3, <1>7, <1>8, <1>9, <1>10 DEF FramesAround

-----------------------------------------------------------------------------
(* Functions that have ended. *)

\* The jumps of the function which starts at s, and the exit it has when it ended.
JumpsOf(s) == {taddress[s]} \cup {LastOf(r) : r \in RetsOf(s)}

OwnCode(s) == JumpsOf(s) \cup {taddress[End(quads, s)]}

\* The operands of a function that ended, with its end at e.
Closed(s, e) ==
  /\ instructions[taddress[s] + 1].result = Label(StartOf(e + 1))
  /\ \A r \in RetsOf(s) : instructions[LastOf(r) + 1].result = Label(taddress[e])
  /\ instructions[taddress[e] + 1].result.type = "userfunc"
  /\ DecodedIn(consts, instructions[taddress[e] + 1].result) = quads[s].result

\* They are the last instruction of the end or a return, and the first one of the start.
LEMMA PlaceOfReturn ==
  ASSUME Laid, NEW r \in 0..next - 1, quads[r].op = "ret"
  PROVE  /\ LastOf(r) = taddress[r] + Size(quads[r]) - 1
         /\ Size(quads[r]) \in {1, 2}
         /\ LastOf(r) \in Nat /\ LastOf(r) + 1 \in 1..CurrInstruction
<1>1. /\ next \in Nat /\ taddress[r] = StartOf(r) /\ StartOf(r) \in Nat
      /\ StartOf(r) + Size(quads[r]) <= CurrInstruction /\ CurrInstruction \in Nat
  BY StartsOfQuads, LengthOfCode
<1>2. Size(quads[r]) \in {1, 2}
  BY DEF Size
<1>3. LastOf(r) = StartOf(r) + Size(quads[r]) - 1
  <2>1. LastOf(r) = StartOf(r + 1) - 1
    BY DEF LastOf
  <2>2. StartOf(r + 1) = StartOf(r) + Size(quads[r])
    BY DEF Laid, Layout
  <2>3. PICK v : v = StartOf(r + 1)
    OBVIOUS
  <2> QED BY <1>1, <1>2, <2>1, <2>2, <2>3
<1> QED BY <1>1, <1>2, <1>3

LEMMA OwnCodeIsThere ==
  ASSUME Laid, NEW s \in FuncStarts(quads), NEW e, e = End(quads, s), e < next
  PROVE  \A n \in OwnCode(s) : n \in Nat /\ n + 1 \in 1..CurrInstruction
<1>1. /\ s \in Nat /\ e \in Nat /\ s < e /\ next \in Nat /\ s \in 0..next - 1 /\ e \in 0..next - 1
      /\ quads[s].op = "funcstart" /\ quads[e].op = "funcend"
  BY SMTT(30), StartsOfQuads, QuadsAreNested, StartsAreNat, EndExists DEF Laid
<1>2. Size(quads[s]) = 2 /\ Size(quads[e]) = 1
  BY <1>1 DEF Size
<1>3. /\ taddress[s] \in Nat /\ taddress[s] + 2 <= CurrInstruction
      /\ taddress[e] \in Nat /\ taddress[e] + 1 <= CurrInstruction /\ CurrInstruction \in Nat
  BY <1>1, <1>2, StartsOfQuads, LengthOfCode
<1>4. \A r \in RetsOf(s) : LastOf(r) \in Nat /\ LastOf(r) + 1 \in 1..CurrInstruction
  BY PlaceOfReturn DEF RetsOf
<1> QED BY <1>3, <1>4 DEF OwnCode, JumpsOf

\* Quads that are translated later do not disturb them.
LEMMA ClosedStays ==
  ASSUME Laid, LayoutStep, ClosedFunctions, NEW s \in FuncStarts(quads), NEW e, e = End(quads, s), e < next,
         \A n \in OwnCode(s) : instructions'[n + 1].result = instructions[n + 1].result
  PROVE  Closed(s, e)'
<1>1. Closed(s, e)
  BY DEF ClosedFunctions, Closed
<1>2. /\ s \in Nat /\ e \in Nat /\ s < e /\ e < next /\ next \in Nat
      /\ s \in 0..next - 1 /\ e \in 0..next - 1 /\ e + 1 \in 0..next
  BY StartsOfQuads, QuadsAreNested, StartsAreNat, EndExists DEF Laid
<1>3. taddress'[s] = taddress[s] /\ taddress'[e] = taddress[e] /\ quads' = quads
  BY <1>2, LayoutGrows, StartsOfQuads DEF LayoutStep
<1>4. StartOf(e + 1)' = StartOf(e + 1)
  BY <1>2, LayoutGrows
<1>5. RetsOf(s)' = RetsOf(s) /\ \A r \in RetsOf(s) : LastOf(r)' = LastOf(r)
  <2>1. Quad.op = "ret" => FunctionOf(quads, next) # s
    <3> HAVE Quad.op = "ret"
    <3>1. Around(quads, next) # {} /\ next < CurrQuad
      BY LayoutGrows, QuadsAreNested DEF Laid, Quad, LayoutStep
    <3>2. FunctionOf(quads, next) \in Around(quads, next)
      BY <3>1, InnermostFunction
    <3>3. next <= End(quads, FunctionOf(quads, next))
      BY <3>2 DEF Around
    <3> QED BY <1>2, <3>3
  <2>2. RetsOf(s)' = RetsOf(s)
    BY <2>1, ReturnsOfFunction
  <2>3. \A r \in RetsOf(s) : r \in 0..next /\ r < next
    BY <1>2 DEF RetsOf
  <2> QED BY <2>2, <2>3, LastStays
<1>6. /\ instructions'[taddress[s] + 1].result = instructions[taddress[s] + 1].result
      /\ instructions'[taddress[e] + 1].result = instructions[taddress[e] + 1].result
      /\ \A r \in RetsOf(s) : instructions'[LastOf(r) + 1].result = instructions[LastOf(r) + 1].result
  BY DEF OwnCode, JumpsOf
<1>7. DecodedIn(consts', instructions[taddress[e] + 1].result) = quads[s].result
  <2>1. taddress[e] + 1 \in 1..CurrInstruction
    <3>1. Size(quads[e]) = 1
      BY QuadsAreNested, EndExists DEF Laid, Size
    <3>2. taddress[e] \in Nat /\ taddress[e] + 1 <= CurrInstruction /\ CurrInstruction \in Nat
      BY <1>2, <3>1, StartsOfQuads, LengthOfCode
    <3> QED BY <3>2
  <2>2. instructions[taddress[e] + 1].result \in ArgsOf(consts)
    BY <2>1, LengthOfCode DEF InstrsOf
  <2>3. ConstTables(consts) /\ Grown(consts, consts')
    BY DEF Laid, LayoutStep
  <2>4. DecodedIn(consts', instructions[taddress[e] + 1].result) = DecodedIn(consts, instructions[taddress[e] + 1].result)
    BY <2>2, <2>3, ArgsStay
  <2> QED BY <1>1, <2>4 DEF Closed
<1> QED BY <1>1, <1>3, <1>4, <1>5, <1>6, <1>7 DEF Closed

LEMMA ClosedFunctionsStay ==
  ASSUME Laid, LayoutStep, ClosedFunctions, Quad.op # "funcend",
         \A n \in 1..CurrInstruction : instructions'[n] = instructions[n]
  PROVE  ClosedFunctions'
<1>1. ASSUME NEW s \in FuncStarts(quads), NEW e, e = End(quads, s), e < next'
      PROVE  Closed(s, e)'
  <2>1. /\ next \in 0..CurrQuad - 1 /\ next' = next + 1 /\ e \in Int /\ quads[e].op = "funcend"
        /\ e < next /\ next \in Nat
    <3>1. next \in 0..CurrQuad - 1 /\ next' = next + 1 /\ next \in Nat
      BY LayoutGrows, StartsOfQuads DEF LayoutStep
    <3>2. e \in Int /\ quads[e].op = "funcend"
      BY <1>1, QuadsAreNested, EndExists DEF Laid
    <3>3. e # next
      BY <3>2 DEF Quad
    <3> QED BY <1>1, <3>1, <3>2, <3>3
  <2>2. \A n \in OwnCode(s) : n + 1 \in 1..CurrInstruction
    BY <1>1, <2>1, OwnCodeIsThere
  <2>3. \A n \in OwnCode(s) : instructions'[n + 1].result = instructions[n + 1].result
    BY <2>2
  <2> QED BY <1>1, <2>1, <2>3, ClosedStays
<1>2. FuncStarts(quads)' = FuncStarts(quads) /\ \A s : End(quads, s)' = End(quads, s)
  BY DEF LayoutStep
<1> QED BY <1>1, <1>2 DEF ClosedFunctions, Closed

\* The instructions of a function that is around the next quad, or has ended,
\* as instructions of quads.
LEMMA PlacesInFunction ==
  ASSUME Laid, NEW s \in FuncStarts(quads), s < next, NEW n \in JumpsOf(s)
  PROVE  \E k \in {s} \cup RetsOf(s) : k \in 0..next - 1 /\ \E x \in 0..Size(quads[k]) - 1 : n = taddress[k] + x
<1>1. CASE n = taddress[s]
  <2>1. next \in Nat /\ s \in 0..next - 1 /\ taddress[s] \in Nat
    BY StartsOfQuads, QuadsAreNested, StartsAreNat DEF Laid
  <2>2. Size(quads[s]) = 2
    BY DEF FuncStarts, Size
  <2>3. 0 \in 0..Size(quads[s]) - 1 /\ n = taddress[s] + 0
    BY <1>1, <2>1, <2>2
  <2> QED BY <2>1, <2>3
<1>2. CASE n \in {LastOf(r) : r \in RetsOf(s)}
  <2>1. PICK r \in RetsOf(s) : n = LastOf(r)
    BY <1>2
  <2>2. r \in 0..next - 1 /\ quads[r].op = "ret"
    BY DEF RetsOf
  <2>3. LastOf(r) = taddress[r] + Size(quads[r]) - 1 /\ Size(quads[r]) \in {1, 2}
    BY <2>2, PlaceOfReturn
  <2>4. taddress[r] \in Nat
    BY <2>2, StartsOfQuads
  <2>5. PICK x : x = Size(quads[r]) - 1
    OBVIOUS
  <2>6. x \in 0..Size(quads[r]) - 1 /\ n = taddress[r] + x
    BY <2>1, <2>3, <2>4, <2>5
  <2> QED BY <2>2, <2>6
<1> QED BY <1>1, <1>2 DEF JumpsOf

\* The instructions of two functions are apart.
LEMMA FunctionsAreApart ==
  ASSUME Laid, NEW s \in FuncStarts(quads), s < next, End(quads, s) < next,
         NEW m \in FuncStarts(quads), m < next, m # s,
         NEW n \in OwnCode(s)
  PROVE  n \notin JumpsOf(m)
<1> SUFFICES ASSUME n \in JumpsOf(m)
             PROVE  FALSE
  OBVIOUS
<1>1. PICK j \in {m} \cup RetsOf(m) : j \in 0..next - 1 /\ \E x \in 0..Size(quads[j]) - 1 : n = taddress[j] + x
  BY PlacesInFunction
<1>2. PICK x \in 0..Size(quads[j]) - 1 : n = taddress[j] + x
  BY <1>1
<1>3. PICK e : e = End(quads, s)
  OBVIOUS
<1>4. e \in 0..next - 1 /\ quads[e].op = "funcend" /\ next \in Nat
  <2>1. e < next /\ next \in Nat
    BY <1>3, StartsOfQuads
  <2>2. CurrQuad \in Nat /\ WellNested(quads, CurrQuad)
    BY QuadsAreNested DEF Laid
  <2>3. s \in Nat /\ e \in s + 1..CurrQuad - 1 /\ quads[e].op = "funcend"
    BY <1>3, <2>2, StartsAreNat, EndExists
  <2> QED BY <2>1, <2>2, <2>3
<1>5. PICK k \in {s, e} \cup RetsOf(s) : k \in 0..next - 1 /\ \E y \in 0..Size(quads[k]) - 1 : n = taddress[k] + y
  <2>1. CASE n = taddress[e]
    <3>1. Size(quads[e]) = 1 /\ taddress[e] \in Nat
      BY <1>4, StartsOfQuads DEF Size
    <3>2. 0 \in 0..Size(quads[e]) - 1 /\ n = taddress[e] + 0
      BY <2>1, <3>1
    <3> QED BY <1>4, <3>2
  <2>2. CASE n \in JumpsOf(s)
    BY <2>2, PlacesInFunction
  <2> QED BY <1>3, <2>1, <2>2 DEF OwnCode
<1>6. PICK y \in 0..Size(quads[k]) - 1 : n = taddress[k] + y
  BY <1>5
<1>7. j # k
  BY <1>4 DEF FuncStarts, RetsOf
<1> QED BY <1>1, <1>2, <1>5, <1>6, <1>7, QuadsAreApart

\* The end of a function: what was there keeps its place, the jumps of the
\* innermost frame are completed, and the exit follows.
FuncendStep ==
  LET frame == funcStack[Innermost] IN
    /\ consts' = consts
    /\ funcStack' = SubSeq(funcStack, 1, Innermost - 1)
    /\ \A n \in 1..CurrInstruction : instructions'[n] = PatchedFunction(frame)[n]
    /\ instructions'[CurrInstruction + 1] =
         Instruction("funcexit", [type |-> "userfunc", val |-> frame.ufidx], NilArg, NilArg)

LEMMA InnermostFrame ==
  ASSUME Laid, LayoutStep, FramesTyped, FramesAround, Quad.op = "funcend",
         NEW m, m = FunctionOf(quads, next)
  PROVE  /\ m \in FuncStarts(quads) /\ m \in 0..next - 1 /\ m < next /\ End(quads, m) = next
         /\ \A s \in FuncStarts(quads) : End(quads, s) = next => s = m
         /\ Innermost \in 1..Len(funcStack)
         /\ funcStack[Innermost].jump_instr = taddress[m]
         /\ funcStack[Innermost].rets = {LastOf(r) : r \in RetsOf(m)}
         /\ \A n : n \in JumpsOf(m) <=> n = funcStack[Innermost].jump_instr \/ n \in funcStack[Innermost].rets
         /\ consts["userfunc"][funcStack[Innermost].ufidx + 1] = quads[m].result
<1>1. next < CurrQuad /\ next \in 0..CurrQuad - 1 /\ next \in Nat
  BY LayoutGrows, StartsOfQuads DEF LayoutStep
<1>2. /\ m \in Around(quads, next) /\ End(quads, m) = next
      /\ Around(quads, next + 1) = Around(quads, next) \ {m}
  BY <1>1, AroundEnd, QuadsAreNested DEF Laid, Quad
<1>3. Level(m) = Innermost
  BY <1>1, <1>2, InnermostFunction DEF FramesAround, Innermost
<1>4. Innermost \in 1..Len(funcStack)
  BY <1>2, <1>3, AroundNow DEF FramesAround
<1>5. m \in FuncStarts(quads) /\ m \in 0..next - 1
  BY <1>2, AroundNow
<1>6. \A s \in FuncStarts(quads) : End(quads, s) = next => s = m
  <2> TAKE s \in FuncStarts(quads)
  <2> HAVE End(quads, s) = next
  <2>1. s \in Nat /\ s < next
    BY <1>1, QuadsAreNested, StartsAreNat, EndExists DEF Laid
  <2>2. s \in Around(quads, next) /\ s \notin Around(quads, next + 1)
    BY <1>1, <2>1 DEF Around
  <2> QED BY <1>2, <2>2
<1>7. /\ funcStack[Innermost].jump_instr = taddress[m]
      /\ funcStack[Innermost].rets = {LastOf(r) : r \in RetsOf(m)}
      /\ consts["userfunc"][funcStack[Innermost].ufidx + 1] = quads[m].result
  BY <1>2, <1>3 DEF FramesAround
<1>8. \A n : n \in JumpsOf(m) <=> n = funcStack[Innermost].jump_instr \/ n \in funcStack[Innermost].rets
  BY <1>7 DEF JumpsOf
<1> QED BY <1>1, <1>2, <1>4, <1>5, <1>6, <1>7, <1>8

LEMMA PatchedInstruction ==
  ASSUME Laid, FuncendStep, NEW n \in Nat, n + 1 \in 1..CurrInstruction
  PROVE  instructions'[n + 1] =
           IF n = funcStack[Innermost].jump_instr THEN [instructions[n + 1] EXCEPT !.result.val = JumpTarget]
           ELSE IF n \in funcStack[Innermost].rets THEN [instructions[n + 1] EXCEPT !.result.val = RetTarget]
           ELSE instructions[n + 1]
<1>1. PICK k, frame : k = n + 1 /\ frame = funcStack[Innermost]
  OBVIOUS
<1>2. k \in DOMAIN instructions /\ k - 1 = n /\ k \in 1..CurrInstruction
  BY <1>1, LengthOfCode
<1>3. instructions'[k] = PatchedFunction(frame)[k]
  BY <1>1, <1>2 DEF FuncendStep
<1>4. PatchedFunction(frame)[k] =
        IF n = frame.jump_instr THEN [instructions[k] EXCEPT !.result.val = JumpTarget]
        ELSE IF n \in frame.rets THEN [instructions[k] EXCEPT !.result.val = RetTarget]
        ELSE instructions[k]
  BY <1>2 DEF PatchedFunction
<1> QED BY <1>1, <1>3, <1>4

LEMMA LabelOfPatched ==
  ASSUME NEW i, i = Instruction(i.op, i.result, i.arg1, i.arg2), i.result \in Labels, NEW v
  PROVE  [i EXCEPT !.result.val = v].result = Label(v)
<1>1. i.result = [type |-> "label", val |-> i.result.val]
  BY DEF Labels
<1> QED BY <1>1 DEF Instruction, Label

LEMMA InstrsAreInstructions ==
  ASSUME NEW c, NEW i \in InstrsOf(c)
  PROVE  i = Instruction(i.op, i.result, i.arg1, i.arg2)
BY DEF InstrsOf, Instruction

\* The function that ends gets its jumps completed.
LEMMA FunctionCloses ==
  ASSUME Laid, LayoutStep, FramesTyped, FramesAround, Quad.op = "funcend", FuncendStep,
         NEW m, m = FunctionOf(quads, next), NEW e, e = next
  PROVE  Closed(m, e)'
<1> DEFINE frame == funcStack[Innermost]
<1>1. /\ m \in FuncStarts(quads) /\ m \in 0..next - 1 /\ m < next
      /\ Innermost \in 1..Len(funcStack)
      /\ frame.jump_instr = taddress[m]
      /\ frame.rets = {LastOf(r) : r \in RetsOf(m)}
      /\ consts["userfunc"][frame.ufidx + 1] = quads[m].result
  BY InnermostFrame
<1>2. /\ next \in Nat /\ CurrInstruction \in Nat /\ Size(Quad) = 1
      /\ DOMAIN instructions = 1..CurrInstruction
      /\ \A n \in 1..CurrInstruction : instructions[n] \in InstrsOf(consts)
  BY StartsOfQuads, LengthOfCode DEF Size
<1>3. taddress'[m] = taddress[m] /\ taddress'[e] = CurrInstruction /\ quads' = quads
  BY <1>1, <1>2, LayoutGrows, StartsOfQuads DEF LayoutStep
<1>4. StartOf(e + 1)' = JumpTarget
  <2>1. PICK k : k = next + 1
    OBVIOUS
  <2>2. StartOf(k)' = CurrInstruction + 1
    BY <1>2, <2>1, LayoutGrows
  <2>3. k = e + 1
    BY <2>1
  <2> QED BY <2>2, <2>3 DEF JumpTarget
<1>5. RetsOf(m)' = RetsOf(m) /\ \A r \in RetsOf(m) : LastOf(r)' = LastOf(r)
  <2>1. RetsOf(m)' = RetsOf(m)
    BY ReturnsOfFunction
  <2>2. \A r \in RetsOf(m) : r \in 0..next /\ r < next
    BY <1>2 DEF RetsOf
  <2> QED BY <2>1, <2>2, LastStays
<1>6. \A n \in frame.rets \cup {frame.jump_instr} :
        n \in Nat /\ n + 1 \in 1..CurrInstruction /\ instructions[n + 1].result \in Labels
  <2> TAKE n \in frame.rets \cup {frame.jump_instr}
  <2>1. n \in Nat
    BY <1>1, FrameFields
  <2>2. WaitingJump(n)
    BY <1>1 DEF FramesTyped
  <2> QED BY <1>2, <2>1, <2>2 DEF WaitingJump
<1>8. instructions'[taddress[m] + 1].result = Label(JumpTarget)
  <2>1. PICK n : n = taddress[m]
    OBVIOUS
  <2>2. n \in Nat /\ n + 1 \in 1..CurrInstruction /\ instructions[n + 1].result \in Labels /\ n = frame.jump_instr
    BY <1>1, <1>6, <2>1
  <2>3. instructions'[n + 1] = [instructions[n + 1] EXCEPT !.result.val = JumpTarget]
    BY <2>2, PatchedInstruction
  <2>4. PICK i : i = instructions[n + 1]
    OBVIOUS
  <2>5. i = Instruction(i.op, i.result, i.arg1, i.arg2) /\ i.result \in Labels
    BY <1>2, <2>2, <2>4, InstrsAreInstructions
  <2>6. [i EXCEPT !.result.val = JumpTarget].result = Label(JumpTarget)
    BY <2>5, LabelOfPatched
  <2> QED BY <2>1, <2>3, <2>4, <2>6
<1>9. ASSUME NEW r \in RetsOf(m)
      PROVE  instructions'[LastOf(r) + 1].result = Label(CurrInstruction)
  <2>1. PICK n : n = LastOf(r)
    OBVIOUS
  <2>2. n \in frame.rets /\ n # frame.jump_instr
    <3>1. r \in 0..next - 1 /\ quads[r].op = "ret"
      BY DEF RetsOf
    <3>2. LastOf(r) = taddress[r] + Size(quads[r]) - 1 /\ Size(quads[r]) \in {1, 2} /\ taddress[r] \in Nat
      BY <3>1, PlaceOfReturn, StartsOfQuads
    <3>3. PICK x, y : x = Size(quads[r]) - 1 /\ y = 0
      OBVIOUS
    <3>4. x \in 0..Size(quads[r]) - 1 /\ LastOf(r) = taddress[r] + x
      BY <3>2, <3>3
    <3>5. Size(quads[m]) = 2 /\ taddress[m] \in Nat /\ quads[m].op = "funcstart"
      BY <1>1, StartsOfQuads DEF Size, FuncStarts
    <3>6. y \in 0..Size(quads[m]) - 1 /\ taddress[m] = taddress[m] + y
      BY <3>3, <3>5
    <3>7. taddress[r] + x # taddress[m] + y
      BY <1>1, <3>1, <3>4, <3>5, <3>6, QuadsAreApart
    <3> QED BY <1>1, <2>1, <3>4, <3>6, <3>7
  <2>3. n \in Nat /\ n + 1 \in 1..CurrInstruction /\ instructions[n + 1].result \in Labels
    BY <1>6, <2>2
  <2>4. instructions'[n + 1] = [instructions[n + 1] EXCEPT !.result.val = RetTarget]
    BY <2>2, <2>3, PatchedInstruction
  <2>5. PICK i : i = instructions[n + 1]
    OBVIOUS
  <2>6. i = Instruction(i.op, i.result, i.arg1, i.arg2) /\ i.result \in Labels
    BY <1>2, <2>3, <2>5, InstrsAreInstructions
  <2>7. [i EXCEPT !.result.val = RetTarget].result = Label(RetTarget)
    BY <2>6, LabelOfPatched
  <2> QED BY <2>1, <2>4, <2>5, <2>7 DEF RetTarget
<1>10. /\ instructions'[CurrInstruction + 1].result.type = "userfunc"
       /\ DecodedIn(consts', instructions'[CurrInstruction + 1].result) = quads[m].result
  <2>1. instructions'[CurrInstruction + 1].result = [type |-> "userfunc", val |-> frame.ufidx]
    BY DEF FuncendStep, Instruction
  <2>2. consts' = consts
    BY DEF FuncendStep
  <2> QED BY <1>1, <2>1, <2>2 DEF DecodedIn, ConstTypes
<1> HIDE DEF frame
<1> QED BY <1>3, <1>4, <1>5, <1>8, <1>9, <1>10 DEF Closed

LEMMA ClosedFunctionsWithEnd ==
  ASSUME Laid, LayoutStep, FramesTyped, FramesAround, ClosedFunctions, Quad.op = "funcend", FuncendStep
  PROVE  ClosedFunctions'
<1>1. PICK m : m = FunctionOf(quads, next)
  OBVIOUS
<1>2. /\ m \in FuncStarts(quads) /\ m < next /\ End(quads, m) = next
      /\ \A s \in FuncStarts(quads) : End(quads, s) = next => s = m
      /\ \A n : n \in JumpsOf(m) <=> n = funcStack[Innermost].jump_instr \/ n \in funcStack[Innermost].rets
  BY <1>1, InnermostFrame
<1>3. /\ next \in Nat /\ next' = next + 1
      /\ CurrInstruction \in Nat /\ DOMAIN instructions = 1..CurrInstruction
  BY StartsOfQuads, LengthOfCode DEF LayoutStep
<1>4. ASSUME NEW s \in FuncStarts(quads), NEW e, e = End(quads, s), e < next'
      PROVE  Closed(s, e)'
  <2>1. e \in Nat /\ s \in Nat /\ s < e
    BY <1>4, QuadsAreNested, StartsAreNat, EndExists DEF Laid
  <2>2. CASE e = next
    BY <1>1, <1>2, <1>4, <2>2, FunctionCloses
  <2>3. CASE e < next
    <3>1. s # m /\ s < next /\ End(quads, s) < next
      BY <1>2, <1>3, <1>4, <2>1, <2>3
    <3>2. ASSUME NEW n \in OwnCode(s)
          PROVE  instructions'[n + 1].result = instructions[n + 1].result
      <4>1. n \notin JumpsOf(m)
        BY <1>2, <3>1, FunctionsAreApart
      <4>2. n \in Nat /\ n + 1 \in 1..CurrInstruction
        BY <1>4, <2>3, OwnCodeIsThere
      <4>3. instructions'[n + 1] = instructions[n + 1]
        BY <1>2, <4>1, <4>2, PatchedInstruction
      <4> QED BY <4>3
    <3> QED BY <1>4, <2>3, <3>2, ClosedStays
  <2> QED BY <1>3, <1>4, <2>1, <2>2, <2>3
<1>5. FuncStarts(quads)' = FuncStarts(quads) /\ \A s : End(quads, s)' = End(quads, s)
  BY DEF LayoutStep
<1> QED BY <1>4, <1>5 DEF ClosedFunctions, Closed

-----------------------------------------------------------------------------
(* The rows of the functions. *)

LEMMA EntriesStay ==
  ASSUME Laid, LayoutStep
  PROVE  /\ Len(consts["userfunc"]) \in Nat /\ Len(consts'["userfunc"]) \in Nat
         /\ Len(consts["userfunc"]) <= Len(consts'["userfunc"])
         /\ \A n \in 1..Len(consts["userfunc"]) : consts'["userfunc"][n] = consts["userfunc"][n]
<1>1. "userfunc" \in ConstTypes
  BY DEF ConstTypes
<1>2. Len(consts["userfunc"]) \in Nat /\ Len(consts'["userfunc"]) \in Nat
  BY <1>1, TableLength DEF Laid, ConstTables, LayoutStep, Grown
<1> QED BY <1>1, <1>2 DEF LayoutStep, Grown

LEMMA RowsStay ==
  ASSUME Laid, LayoutStep, Bodies, NEW f \in DOMAIN bodies
  PROVE  /\ f \in 0..Len(consts'["userfunc"]) - 1
         /\ consts'["userfunc"][f + 1] = consts["userfunc"][f + 1]
<1>1. f \in 0..Len(consts["userfunc"]) - 1
  BY DEF Bodies
<1>2. f + 1 \in 1..Len(consts["userfunc"])
  BY <1>1, EntriesStay
<1> QED BY <1>1, <1>2, EntriesStay

LEMMA BodiesStay ==
  ASSUME Laid, LayoutStep, Bodies, Quad.op # "funcstart",
         DOMAIN bodies' = DOMAIN bodies,
         bodies' \in [DOMAIN bodies -> [address : Nat, localSize : Nat]],
         \A f \in DOMAIN bodies : bodies'[f].address = bodies[f].address
  PROVE  Bodies'
<1>1. /\ next \in Nat /\ next' = next + 1 /\ quads' = quads /\ DeclaredOnce' = DeclaredOnce
      /\ \A k \in 0..next - 1 : taddress'[k] = taddress[k]
  BY LayoutGrows, StartsOfQuads DEF LayoutStep, DeclaredOnce
<1>2. ASSUME NEW k \in 0..next' - 1, quads[k].op = "funcstart"
      PROVE  \E f \in DOMAIN bodies :
               /\ consts'["userfunc"][f + 1] = quads[k].result
               /\ DeclaredOnce => bodies'[f].address = taddress'[k] + 1
  <2>1. k \in 0..next - 1
    BY <1>1, <1>2 DEF Quad
  <2>2. PICK f \in DOMAIN bodies : /\ consts["userfunc"][f + 1] = quads[k].result
                                   /\ DeclaredOnce => bodies[f].address = taddress[k] + 1
    BY <1>2, <2>1 DEF Bodies
  <2> QED BY <1>1, <2>1, <2>2, RowsStay
<1>3. \A f \in DOMAIN bodies : f \in 0..Len(consts'["userfunc"]) - 1
  BY RowsStay
<1> QED BY <1>1, <1>2, <1>3 DEF Bodies

\* The row f of the function that starts gets its address.
RowStep(f) ==
  bodies' = [g \in DOMAIN bodies \cup {f} |->
               IF g # f THEN bodies[g]
               ELSE [address |-> CurrInstruction + 1,
                     localSize |-> IF g \in DOMAIN bodies THEN bodies[g].localSize ELSE 0]]

LEMMA BodiesWithFunction ==
  ASSUME Laid, LayoutStep, Bodies, Quad.op = "funcstart", NEW f \in Nat, RowStep(f),
         f < Len(consts'["userfunc"]), consts'["userfunc"][f + 1] = Quad.result
  PROVE  Bodies'
<1>1. /\ next \in 0..CurrQuad - 1 /\ next \in Nat /\ next' = next + 1
      /\ quads' = quads /\ DeclaredOnce' = DeclaredOnce
      /\ \A k \in 0..next - 1 : taddress'[k] = taddress[k]
      /\ taddress'[next] = CurrInstruction
  BY LayoutGrows, StartsOfQuads DEF LayoutStep, DeclaredOnce
<1>2. /\ DOMAIN bodies' = DOMAIN bodies \cup {f}
      /\ bodies'[f].address = CurrInstruction + 1
      /\ \A g \in DOMAIN bodies : g # f => bodies'[g] = bodies[g]
  BY DEF RowStep
<1>3. bodies' \in [DOMAIN bodies' -> [address : Nat, localSize : Nat]]
  <2>1. CurrInstruction \in Nat
    BY LengthOfCode
  <2>2. \A g \in DOMAIN bodies : bodies[g] \in [address : Nat, localSize : Nat]
    BY DEF Bodies
  <2>3. bodies'[f] \in [address : Nat, localSize : Nat]
    <3>1. bodies'[f] = [address |-> CurrInstruction + 1,
                        localSize |-> IF f \in DOMAIN bodies THEN bodies[f].localSize ELSE 0]
      BY DEF RowStep
    <3>2. f \in DOMAIN bodies => bodies[f].localSize \in Nat
      BY <2>2
    <3> QED BY <2>1, <3>1, <3>2
  <2>4. \A g \in DOMAIN bodies' : bodies'[g] \in [address : Nat, localSize : Nat]
    BY <1>2, <2>2, <2>3
  <2>5. bodies' = [g \in DOMAIN bodies' |-> bodies'[g]]
    BY DEF RowStep
  <2> QED BY <2>4, <2>5
<1>4. \A g \in DOMAIN bodies' : g \in 0..Len(consts'["userfunc"]) - 1
  BY <1>2, RowsStay, EntriesStay
<1>5. ASSUME NEW k \in 0..next' - 1, quads[k].op = "funcstart"
      PROVE  \E g \in DOMAIN bodies' :
               /\ consts'["userfunc"][g + 1] = quads[k].result
               /\ DeclaredOnce => bodies'[g].address = taddress'[k] + 1
  <2>1. CASE k = next
    <3>1. f \in DOMAIN bodies' /\ quads[k] = Quad /\ taddress'[k] = CurrInstruction
      BY <1>1, <1>2, <2>1 DEF Quad
    <3> QED BY <1>2, <3>1
  <2>2. CASE k < next
    <3>1. k \in 0..next - 1
      BY <1>1, <2>2
    <3>2. PICK g \in DOMAIN bodies : /\ consts["userfunc"][g + 1] = quads[k].result
                                     /\ DeclaredOnce => bodies[g].address = taddress[k] + 1
      BY <1>5, <3>1 DEF Bodies
    <3>3. consts'["userfunc"][g + 1] = quads[k].result /\ g \in DOMAIN bodies'
      BY <1>2, <3>2, RowsStay
    <3>4. DeclaredOnce => g # f
      <4> SUFFICES ASSUME DeclaredOnce, g = f
                   PROVE  FALSE
        OBVIOUS
      <4>1. quads[k].result = quads[next].result
        BY <3>3 DEF Quad
      <4>2. k \in FuncStarts(quads) /\ next \in FuncStarts(quads)
        <5>1. CurrQuad \in Nat /\ WellNested(quads, CurrQuad) /\ k \in 0..CurrQuad - 1
          BY <1>1, <3>1, QuadsAreNested DEF Laid
        <5>2. DOMAIN quads = 0..CurrQuad - 1
          BY <5>1 DEF WellNested
        <5> QED BY <1>1, <1>5, <5>1, <5>2 DEF Quad, FuncStarts
      <4> QED BY <1>1, <2>2, <4>1, <4>2 DEF DeclaredOnce
    <3>5. DeclaredOnce => bodies'[g].address = taddress'[k] + 1
      BY <1>1, <1>2, <3>1, <3>2, <3>4
    <3> QED BY <3>3, <3>5
  <2> QED BY <1>1, <2>1, <2>2
<1>6. \A k \in 0..next' - 1 : quads'[k].op = "funcstart" =>
        \E g \in DOMAIN bodies' :
          /\ consts'["userfunc"][g + 1] = quads'[k].result
          /\ DeclaredOnce' => bodies'[g].address = taddress'[k] + 1
  BY <1>1, <1>5
<1> QED BY <1>3, <1>4, <1>6 DEF Bodies

-----------------------------------------------------------------------------
(* The steps that translate a quad. *)

LEMMA SameIsSame ==
  ASSUME NEW i
  PROVE  SameButTarget(i, i)
BY DEF SameButTarget

\* The instructions of a quad, where they come to lie.
LEMMA Emitted ==
  ASSUME Laid, next < CurrQuad, NEW tables, Grown(consts, tables),
         NEW instrs \in Seq(InstrsOf(tables)), Len(instrs) = Size(Quad),
         Translation(tables, instrs, Quad), Emit(tables, instrs)
  PROVE  /\ LayoutStep
         /\ NewCode
         /\ \A n \in 1..CurrInstruction : instructions'[n] = instructions[n]
         /\ \A n \in 1..Size(Quad) : instructions'[CurrInstruction + n] = instrs[n]
         /\ consts' = tables /\ outcome' = outcome
<1>1. /\ consts' = tables /\ instructions' = instructions \o instrs /\ outcome' = outcome
      /\ taddress' = [k \in 0..next |-> IF k = next THEN CurrInstruction ELSE taddress[k]]
      /\ next' = next + 1 /\ quads' = quads
  BY DEF Emit
<1>2. instructions \in Seq(InstrsOf(tables)) /\ CurrInstruction \in Nat
  <2>1. InstrsOf(consts) \subseteq InstrsOf(tables)
    BY ArgsStay DEF Laid
  <2> QED BY <2>1, SeqMonotonic, LengthOfCode DEF Laid
<1>3. /\ instructions' \in Seq(InstrsOf(tables))
      /\ Len(instructions') = Len(instructions) + Len(instrs)
      /\ \A n \in 1..Len(instructions) + Len(instrs) :
           instructions'[n] = IF n <= Len(instructions) THEN instructions[n] ELSE instrs[n - Len(instructions)]
  BY <1>1, <1>2, ConcatProperties
<1>4. Size(Quad) \in 0..2
  BY SizeIsSmall
<1>5. \A n \in 1..CurrInstruction : instructions'[n] = instructions[n]
  BY <1>2, <1>3, <1>4 DEF CurrInstruction
<1>6. \A n \in 1..Size(Quad) : instructions'[CurrInstruction + n] = instrs[n]
  <2> TAKE n \in 1..Size(Quad)
  <2>1. PICK l : l = CurrInstruction + n
    OBVIOUS
  <2>2. l \in 1..Len(instructions) + Len(instrs) /\ ~ (l <= Len(instructions)) /\ l - Len(instructions) = n
    BY <1>2, <1>4, <2>1 DEF CurrInstruction
  <2> QED BY <1>3, <2>1, <2>2
<1>7. LayoutStep
  BY <1>1, <1>3 DEF LayoutStep, CurrInstruction
<1>8. Translation(tables, CodeAt(instructions', CurrInstruction), Quad)
  <2>1. ConstTables(tables) /\ Grown(tables, tables)
    BY GrownIsReflexive DEF Grown
  <2>2. Quad.op \in QuadOps
    BY <1>7, LayoutGrows, QuadsAreNested DEF Laid, Quad, QuadOK
  <2>3. PICK j : j = CodeAt(instructions', CurrInstruction)
    OBVIOUS
  <2>4. \A x \in 1..Size(Quad) : instrs[x] \in InstrsOf(tables) /\ SameButTarget(instrs[x], j[x])
    <3> TAKE x \in 1..Size(Quad)
    <3>1. j[x] = instrs[x]
      BY <1>4, <1>6, <2>3 DEF CodeAt
    <3>2. instrs[x] \in InstrsOf(tables)
      BY ElementOfSeq
    <3> QED BY <3>1, <3>2, SameIsSame
  <2> QED BY <2>1, <2>2, <2>3, <2>4, TranslationStays
<1>9. NewCode
  BY <1>1, <1>5, <1>8, SameIsSame DEF NewCode
<1> QED BY <1>1, <1>5, <1>6, <1>7, <1>9

\* A quad that is translated keeps the invariant, but for what it does to functions.
LEMMA QuadKeeps ==
  ASSUME IInv, outcome = "running", outcome' = outcome, LayoutStep, NewCode,
         jumpList' = IF Quad.op \in Jumps THEN jumpList \cup {IncompleteJump} ELSE jumpList
  PROVE  Laid' /\ Translated' /\ JumpsWait' /\ JumpsPatched' /\ outcome' \in Outcomes
<1>1. Laid /\ Translated /\ JumpsWait /\ outcome \in Outcomes
  BY DEF IInv
<1>2. Laid' /\ Translated' /\ JumpsWait'
  BY <1>1, LayoutGrows, TranslatedGrows, JumpsListed
<1>3. JumpsPatched'
  BY DEF JumpsPatched
<1> QED BY <1>1, <1>2, <1>3

LEMMA PlainQuadKeeps ==
  ASSUME IInv, outcome = "running", outcome' = outcome, LayoutStep, NewCode,
         Quad.op \notin {"ret", "funcstart", "funcend"},
         \A n \in 1..CurrInstruction : instructions'[n] = instructions[n],
         jumpList' = IF Quad.op \in Jumps THEN jumpList \cup {IncompleteJump} ELSE jumpList,
         funcStack' = funcStack, bodies' = bodies
  PROVE  IInv'
<1>1. Laid /\ FramesTyped /\ FramesAround /\ ClosedFunctions /\ Bodies
  BY DEF IInv
<1>2. Laid' /\ Translated' /\ JumpsWait' /\ JumpsPatched' /\ outcome' \in Outcomes
  BY QuadKeeps
<1>3. FramesTyped' /\ FramesAround'
  BY <1>1, TypedFramesStay, FramesStay
<1>4. ClosedFunctions'
  BY <1>1, ClosedFunctionsStay
<1>5. Bodies'
  <2>1. bodies' \in [DOMAIN bodies -> [address : Nat, localSize : Nat]]
    BY <1>1 DEF Bodies
  <2> QED BY <1>1, <2>1, BodiesStay
<1> QED BY <1>2, <1>3, <1>4, <1>5 DEF IInv

\* A quad that becomes one instruction, with operands that are those of the quad.
LEMMA OneEmitted ==
  ASSUME Laid, next < CurrQuad, Size(Quad) = 1, Quad.op \notin {"ret", "funcstart"},
         NEW op \in Opcodes, op = FirstOp(Quad), NEW result, NEW arg1, NEW arg2,
         IsOperand(result), IsOperand(arg1), IsOperand(arg2),
         Quad.op \in Jumps => result \in Labels,
         \A x \in DOMAIN Carried(Quad) :
            Carried(Quad)[x] = [result |-> result, arg1 |-> arg1, arg2 |-> arg2][x],
         EmitOne(op, result, arg1, arg2)
  PROVE  /\ LayoutStep /\ NewCode /\ outcome' = outcome
         /\ \A n \in 1..CurrInstruction : instructions'[n] = instructions[n]
<1> DEFINE t == WithOperands(<<result, arg1, arg2>>)
<1>1. /\ Grown(consts, t)
      /\ \A e \in {result, arg1, arg2} : e.type \in ConstTypes => Holds(t, e)
  BY OperandsAreHeld DEF Laid
<1>2. PICK i : i = Instruction(op, MakeOperand(t, result), MakeOperand(t, arg1), MakeOperand(t, arg2))
  OBVIOUS
<1>3. Emit(t, <<i>>)
  BY <1>2 DEF EmitOne
<1> HIDE DEF t
<1>4. ConstTables(t)
  BY <1>1 DEF Grown
<1>5. \A e \in {result, arg1, arg2} :
        /\ MakeOperand(t, e) \in ArgsOf(t)
        /\ IsExpr(e) => DecodedIn(t, MakeOperand(t, e)) = e
        /\ e \in Labels => MakeOperand(t, e) = e
  BY <1>1, <1>4, OperandReadBack
<1>6. i \in InstrsOf(t) /\ i.op = op /\ i.result = MakeOperand(t, result)
      /\ i.arg1 = MakeOperand(t, arg1) /\ i.arg2 = MakeOperand(t, arg2)
  BY <1>2, <1>5 DEF InstrsOf, Instruction
<1>7. <<i>> \in Seq(InstrsOf(t)) /\ Len(<<i>>) = 1 /\ <<i>>[1] = i
  BY <1>6
<1>8. /\ Quad.op \in QuadOps
      /\ \A x \in DOMAIN Carried(Quad) : IsExpr(Carried(Quad)[x]) /\ x \in {"result", "arg1", "arg2"}
  <2>1. QuadOK(Quad, CurrQuad)
    <3>1. next \in 0..CurrQuad - 1
      BY QuadsAreNested DEF Laid
    <3> QED BY <3>1, QuadsAreNested DEF Laid, Quad
  <2>2. Quad.op \in QuadOps
    BY <2>1 DEF QuadOK
  <2> QED BY <2>1, <2>2, CarriedOperands DEF QuadOK
<1>9. \A x \in DOMAIN Carried(Quad) : DecodedIn(t, i[x]) = Carried(Quad)[x]
  <2> TAKE x \in DOMAIN Carried(Quad)
  <2>1. CASE x = "result"
    BY <1>5, <1>6, <1>8, <2>1
  <2>2. CASE x = "arg1"
    BY <1>5, <1>6, <1>8, <2>2
  <2>3. CASE x = "arg2"
    BY <1>5, <1>6, <1>8, <2>3
  <2> QED BY <1>8, <2>1, <2>2, <2>3
<1>10. Quad.op \in Jumps => i.result \in Labels
  BY <1>5, <1>6
<1>11. Translation(t, <<i>>, Quad)
  BY <1>6, <1>7, <1>9, <1>10 DEF Translation
<1> QED BY <1>1, <1>3, <1>7, <1>11, Emitted

LEMMA NextQuad ==
  ASSUME Laid, next < CurrQuad
  PROVE  /\ QuadOK(Quad, CurrQuad)
         /\ Quad.op \in QuadOps
         /\ \A x \in DOMAIN Carried(Quad) : IsExpr(Carried(Quad)[x])
         /\ next \in 0..CurrQuad - 1
<1>1. next \in 0..CurrQuad - 1
  BY QuadsAreNested DEF Laid
<1>2. QuadOK(Quad, CurrQuad)
  BY <1>1, QuadsAreNested DEF Laid, Quad
<1> QED BY <1>1, <1>2 DEF QuadOK

LEMMA NumbersAreExprs ==
  IsExpr(Number(-1))
<1>1. Number(-1) \in Constants /\ Number(-1).type # "userfunc"
  BY DEF Number, Constants, Cells, Undef
<1> QED BY <1>1 DEF IsExpr

LEMMA AssignKeeps ==
  ASSUME IInv, GenerateAssign
  PROVE  IInv'
<1>1. /\ Laid /\ next < CurrQuad /\ outcome = "running" /\ Quad.op \in {"assign"}
      /\ EmitOne("assign", Quad.result, Quad.arg1, NoExpr)
      /\ jumpList' = jumpList /\ funcStack' = funcStack /\ bodies' = bodies
  BY DEF IInv, GenerateAssign, At
<1>2. Carried(Quad) = [result |-> Quad.result, arg1 |-> Quad.arg1]
  BY <1>1 DEF Carried, ArithOps, Relops
<1>3. /\ Quad.op \notin Jumps \cup {"ret", "funcstart", "funcend"} /\ Size(Quad) = 1
      /\ "assign" = FirstOp(Quad) /\ "assign" \in Opcodes
  BY <1>1, RelopsAre DEF Jumps, Size, FirstOp, Opcodes, ArithOps
<1>4. IsOperand(Quad.result) /\ IsOperand(Quad.arg1) /\ IsOperand(NoExpr)
  BY <1>1, <1>2, NextQuad, NumbersAreExprs DEF IsOperand
<1>5. \A x \in DOMAIN Carried(Quad) : Carried(Quad)[x] = [result |-> Quad.result, arg1 |-> Quad.arg1, arg2 |-> NoExpr][x]
  BY <1>2
<1>6. /\ LayoutStep /\ NewCode /\ outcome' = outcome
      /\ \A n \in 1..CurrInstruction : instructions'[n] = instructions[n]
  BY <1>1, <1>3, <1>4, <1>5, OneEmitted
<1> QED BY <1>1, <1>3, <1>6, PlainQuadKeeps

LEMMA ArithKeeps ==
  ASSUME IInv, GenerateArith
  PROVE  IInv'
<1>1. /\ Laid /\ next < CurrQuad /\ outcome = "running" /\ Quad.op \in ArithOps
      /\ EmitOne(Quad.op, Quad.result, Quad.arg1, Quad.arg2)
      /\ jumpList' = jumpList /\ funcStack' = funcStack /\ bodies' = bodies
  BY DEF IInv, GenerateArith, At
<1>2. Carried(Quad) = [result |-> Quad.result, arg1 |-> Quad.arg1, arg2 |-> Quad.arg2]
  BY <1>1 DEF Carried, ArithOps, Relops
<1>3. /\ Quad.op \notin Jumps \cup {"ret", "funcstart", "funcend"} /\ Size(Quad) = 1
      /\ Quad.op = FirstOp(Quad) /\ Quad.op \in Opcodes
  BY <1>1, RelopsAre DEF Jumps, Size, FirstOp, Opcodes, ArithOps
<1>4. IsOperand(Quad.result) /\ IsOperand(Quad.arg1) /\ IsOperand(Quad.arg2)
  BY <1>1, <1>2, NextQuad, NumbersAreExprs DEF IsOperand
<1>5. \A x \in DOMAIN Carried(Quad) : Carried(Quad)[x] = [result |-> Quad.result, arg1 |-> Quad.arg1, arg2 |-> Quad.arg2][x]
  BY <1>2
<1>6. /\ LayoutStep /\ NewCode /\ outcome' = outcome
      /\ \A n \in 1..CurrInstruction : instructions'[n] = instructions[n]
  BY <1>1, <1>3, <1>4, <1>5, OneEmitted
<1> QED BY <1>1, <1>3, <1>6, PlainQuadKeeps

LEMMA UminusKeeps ==
  ASSUME IInv, GenerateUminus
  PROVE  IInv'
<1>1. /\ Laid /\ next < CurrQuad /\ outcome = "running" /\ Quad.op \in {"uminus"}
      /\ EmitOne("mul", Quad.result, Quad.arg1, Number(-1))
      /\ jumpList' = jumpList /\ funcStack' = funcStack /\ bodies' = bodies
  BY DEF IInv, GenerateUminus, At
<1>2. Carried(Quad) = [result |-> Quad.result, arg1 |-> Quad.arg1, arg2 |-> Number(-1)]
  BY <1>1 DEF Carried, ArithOps, Relops
<1>3. /\ Quad.op \notin Jumps \cup {"ret", "funcstart", "funcend"} /\ Size(Quad) = 1
      /\ "mul" = FirstOp(Quad) /\ "mul" \in Opcodes
  BY <1>1, RelopsAre DEF Jumps, Size, FirstOp, Opcodes, ArithOps
<1>4. IsOperand(Quad.result) /\ IsOperand(Quad.arg1) /\ IsOperand(Number(-1))
  BY <1>1, <1>2, NextQuad, NumbersAreExprs DEF IsOperand
<1>5. \A x \in DOMAIN Carried(Quad) : Carried(Quad)[x] = [result |-> Quad.result, arg1 |-> Quad.arg1, arg2 |-> Number(-1)][x]
  BY <1>2
<1>6. /\ LayoutStep /\ NewCode /\ outcome' = outcome
      /\ \A n \in 1..CurrInstruction : instructions'[n] = instructions[n]
  BY <1>1, <1>3, <1>4, <1>5, OneEmitted
<1> QED BY <1>1, <1>3, <1>6, PlainQuadKeeps

LEMMA CallKeeps ==
  ASSUME IInv, GenerateCall
  PROVE  IInv'
<1>1. /\ Laid /\ next < CurrQuad /\ outcome = "running" /\ Quad.op \in {"call"}
      /\ EmitOne("call", Quad.arg1, NoExpr, NoExpr)
      /\ jumpList' = jumpList /\ funcStack' = funcStack /\ bodies' = bodies
  BY DEF IInv, GenerateCall, At
<1>2. Carried(Quad) = [result |-> Quad.arg1]
  BY <1>1 DEF Carried, ArithOps, Relops
<1>3. /\ Quad.op \notin Jumps \cup {"ret", "funcstart", "funcend"} /\ Size(Quad) = 1
      /\ "call" = FirstOp(Quad) /\ "call" \in Opcodes
  BY <1>1, RelopsAre DEF Jumps, Size, FirstOp, Opcodes, ArithOps
<1>4. IsOperand(Quad.arg1) /\ IsOperand(NoExpr) /\ IsOperand(NoExpr)
  BY <1>1, <1>2, NextQuad, NumbersAreExprs DEF IsOperand
<1>5. \A x \in DOMAIN Carried(Quad) : Carried(Quad)[x] = [result |-> Quad.arg1, arg1 |-> NoExpr, arg2 |-> NoExpr][x]
  BY <1>2
<1>6. /\ LayoutStep /\ NewCode /\ outcome' = outcome
      /\ \A n \in 1..CurrInstruction : instructions'[n] = instructions[n]
  BY <1>1, <1>3, <1>4, <1>5, OneEmitted
<1> QED BY <1>1, <1>3, <1>6, PlainQuadKeeps

LEMMA ParamKeeps ==
  ASSUME IInv, GenerateParam
  PROVE  IInv'
<1>1. /\ Laid /\ next < CurrQuad /\ outcome = "running" /\ Quad.op \in {"param"}
      /\ EmitOne("pusharg", Quad.arg1, NoExpr, NoExpr)
      /\ jumpList' = jumpList /\ funcStack' = funcStack /\ bodies' = bodies
  BY DEF IInv, GenerateParam, At
<1>2. Carried(Quad) = [result |-> Quad.arg1]
  BY <1>1 DEF Carried, ArithOps, Relops
<1>3. /\ Quad.op \notin Jumps \cup {"ret", "funcstart", "funcend"} /\ Size(Quad) = 1
      /\ "pusharg" = FirstOp(Quad) /\ "pusharg" \in Opcodes
  BY <1>1, RelopsAre DEF Jumps, Size, FirstOp, Opcodes, ArithOps
<1>4. IsOperand(Quad.arg1) /\ IsOperand(NoExpr) /\ IsOperand(NoExpr)
  BY <1>1, <1>2, NextQuad, NumbersAreExprs DEF IsOperand
<1>5. \A x \in DOMAIN Carried(Quad) : Carried(Quad)[x] = [result |-> Quad.arg1, arg1 |-> NoExpr, arg2 |-> NoExpr][x]
  BY <1>2
<1>6. /\ LayoutStep /\ NewCode /\ outcome' = outcome
      /\ \A n \in 1..CurrInstruction : instructions'[n] = instructions[n]
  BY <1>1, <1>3, <1>4, <1>5, OneEmitted
<1> QED BY <1>1, <1>3, <1>6, PlainQuadKeeps

LEMMA GetretvalKeeps ==
  ASSUME IInv, GenerateGetretval
  PROVE  IInv'
<1>1. /\ Laid /\ next < CurrQuad /\ outcome = "running" /\ Quad.op \in {"getretval"}
      /\ EmitOne("getretval", Quad.result, NoExpr, NoExpr)
      /\ jumpList' = jumpList /\ funcStack' = funcStack /\ bodies' = bodies
  BY DEF IInv, GenerateGetretval, At
<1>2. Carried(Quad) = [result |-> Quad.result]
  BY <1>1 DEF Carried, ArithOps, Relops
<1>3. /\ Quad.op \notin Jumps \cup {"ret", "funcstart", "funcend"} /\ Size(Quad) = 1
      /\ "getretval" = FirstOp(Quad) /\ "getretval" \in Opcodes
  BY <1>1, RelopsAre DEF Jumps, Size, FirstOp, Opcodes, ArithOps
<1>4. IsOperand(Quad.result) /\ IsOperand(NoExpr) /\ IsOperand(NoExpr)
  BY <1>1, <1>2, NextQuad, NumbersAreExprs DEF IsOperand
<1>5. \A x \in DOMAIN Carried(Quad) : Carried(Quad)[x] = [result |-> Quad.result, arg1 |-> NoExpr, arg2 |-> NoExpr][x]
  BY <1>2
<1>6. /\ LayoutStep /\ NewCode /\ outcome' = outcome
      /\ \A n \in 1..CurrInstruction : instructions'[n] = instructions[n]
  BY <1>1, <1>3, <1>4, <1>5, OneEmitted
<1> QED BY <1>1, <1>3, <1>6, PlainQuadKeeps

LEMMA TablecreateKeeps ==
  ASSUME IInv, GenerateTablecreate
  PROVE  IInv'
<1>1. /\ Laid /\ next < CurrQuad /\ outcome = "running" /\ Quad.op \in {"tablecreate"}
      /\ EmitOne("newtable", Quad.result, NoExpr, NoExpr)
      /\ jumpList' = jumpList /\ funcStack' = funcStack /\ bodies' = bodies
  BY DEF IInv, GenerateTablecreate, At
<1>2. Carried(Quad) = [result |-> Quad.result]
  BY <1>1 DEF Carried, ArithOps, Relops
<1>3. /\ Quad.op \notin Jumps \cup {"ret", "funcstart", "funcend"} /\ Size(Quad) = 1
      /\ "newtable" = FirstOp(Quad) /\ "newtable" \in Opcodes
  BY <1>1, RelopsAre DEF Jumps, Size, FirstOp, Opcodes, ArithOps
<1>4. IsOperand(Quad.result) /\ IsOperand(NoExpr) /\ IsOperand(NoExpr)
  BY <1>1, <1>2, NextQuad, NumbersAreExprs DEF IsOperand
<1>5. \A x \in DOMAIN Carried(Quad) : Carried(Quad)[x] = [result |-> Quad.result, arg1 |-> NoExpr, arg2 |-> NoExpr][x]
  BY <1>2
<1>6. /\ LayoutStep /\ NewCode /\ outcome' = outcome
      /\ \A n \in 1..CurrInstruction : instructions'[n] = instructions[n]
  BY <1>1, <1>3, <1>4, <1>5, OneEmitted
<1> QED BY <1>1, <1>3, <1>6, PlainQuadKeeps

LEMMA TablegetelemKeeps ==
  ASSUME IInv, GenerateTablegetelem
  PROVE  IInv'
<1>1. /\ Laid /\ next < CurrQuad /\ outcome = "running" /\ Quad.op \in {"tablegetelem"}
      /\ EmitOne("tablegetelem", Quad.result, Quad.arg1, Quad.arg2)
      /\ jumpList' = jumpList /\ funcStack' = funcStack /\ bodies' = bodies
  BY DEF IInv, GenerateTablegetelem, At
<1>2. Carried(Quad) = [result |-> Quad.result, arg1 |-> Quad.arg1, arg2 |-> Quad.arg2]
  BY <1>1 DEF Carried, ArithOps, Relops
<1>3. /\ Quad.op \notin Jumps \cup {"ret", "funcstart", "funcend"} /\ Size(Quad) = 1
      /\ "tablegetelem" = FirstOp(Quad) /\ "tablegetelem" \in Opcodes
  BY <1>1, RelopsAre DEF Jumps, Size, FirstOp, Opcodes, ArithOps
<1>4. IsOperand(Quad.result) /\ IsOperand(Quad.arg1) /\ IsOperand(Quad.arg2)
  BY <1>1, <1>2, NextQuad, NumbersAreExprs DEF IsOperand
<1>5. \A x \in DOMAIN Carried(Quad) : Carried(Quad)[x] = [result |-> Quad.result, arg1 |-> Quad.arg1, arg2 |-> Quad.arg2][x]
  BY <1>2
<1>6. /\ LayoutStep /\ NewCode /\ outcome' = outcome
      /\ \A n \in 1..CurrInstruction : instructions'[n] = instructions[n]
  BY <1>1, <1>3, <1>4, <1>5, OneEmitted
<1> QED BY <1>1, <1>3, <1>6, PlainQuadKeeps

LEMMA TablesetelemKeeps ==
  ASSUME IInv, GenerateTablesetelem
  PROVE  IInv'
<1>1. /\ Laid /\ next < CurrQuad /\ outcome = "running" /\ Quad.op \in {"tablesetelem"}
      /\ EmitOne("tablesetelem", Quad.result, Quad.arg1, Quad.arg2)
      /\ jumpList' = jumpList /\ funcStack' = funcStack /\ bodies' = bodies
  BY DEF IInv, GenerateTablesetelem, At
<1>2. Carried(Quad) = [result |-> Quad.result, arg1 |-> Quad.arg1, arg2 |-> Quad.arg2]
  BY <1>1 DEF Carried, ArithOps, Relops
<1>3. /\ Quad.op \notin Jumps \cup {"ret", "funcstart", "funcend"} /\ Size(Quad) = 1
      /\ "tablesetelem" = FirstOp(Quad) /\ "tablesetelem" \in Opcodes
  BY <1>1, RelopsAre DEF Jumps, Size, FirstOp, Opcodes, ArithOps
<1>4. IsOperand(Quad.result) /\ IsOperand(Quad.arg1) /\ IsOperand(Quad.arg2)
  BY <1>1, <1>2, NextQuad, NumbersAreExprs DEF IsOperand
<1>5. \A x \in DOMAIN Carried(Quad) : Carried(Quad)[x] = [result |-> Quad.result, arg1 |-> Quad.arg1, arg2 |-> Quad.arg2][x]
  BY <1>2
<1>6. /\ LayoutStep /\ NewCode /\ outcome' = outcome
      /\ \A n \in 1..CurrInstruction : instructions'[n] = instructions[n]
  BY <1>1, <1>3, <1>4, <1>5, OneEmitted
<1> QED BY <1>1, <1>3, <1>6, PlainQuadKeeps

LEMMA LabelIsOperand ==
  Label(0) \in Labels /\ IsOperand(Label(0)) /\ IsOperand(NoExpr)
BY DEF Label, Labels, IsOperand

LEMMA RelopKeeps ==
  ASSUME IInv, GenerateRelop
  PROVE  IInv'
<1>1. /\ Laid /\ next < CurrQuad /\ outcome = "running" /\ Quad.op \in DOMAIN Relops
      /\ EmitOne(Relops[Quad.op], Label(0), Quad.arg1, Quad.arg2)
      /\ jumpList' = jumpList \cup {IncompleteJump} /\ funcStack' = funcStack /\ bodies' = bodies
  BY DEF IInv, GenerateRelop, At
<1>2. Carried(Quad) = [arg1 |-> Quad.arg1, arg2 |-> Quad.arg2]
  BY <1>1, RelopsAre DEF Carried, ArithOps
<1>3. /\ Quad.op \in Jumps /\ Quad.op \notin {"ret", "funcstart", "funcend"} /\ Size(Quad) = 1
      /\ Relops[Quad.op] = FirstOp(Quad) /\ Relops[Quad.op] \in Opcodes
  BY <1>1, RelopsAre DEF Jumps, Size, FirstOp, Opcodes
<1>4. IsOperand(Quad.arg1) /\ IsOperand(Quad.arg2)
  BY <1>1, <1>2, NextQuad DEF IsOperand
<1>5. \A x \in DOMAIN Carried(Quad) :
        Carried(Quad)[x] = [result |-> Label(0), arg1 |-> Quad.arg1, arg2 |-> Quad.arg2][x]
  BY <1>2
<1>6. /\ LayoutStep /\ NewCode /\ outcome' = outcome
      /\ \A n \in 1..CurrInstruction : instructions'[n] = instructions[n]
  BY <1>1, <1>3, <1>4, <1>5, LabelIsOperand, OneEmitted
<1> QED BY <1>1, <1>3, <1>6, PlainQuadKeeps

LEMMA OpenJumpIsInstr ==
  ASSUME NEW c
  PROVE  OpenJump \in InstrsOf(c) /\ OpenJump.op = "jump" /\ OpenJump.result \in Labels
<1>1. Label(0) \in ArgsOf(c) /\ NilArg \in ArgsOf(c)
  BY DEF Label, Labels, NilArg, ArgsOf, Args, ConstTypes
<1>2. "jump" \in Opcodes
  BY DEF Opcodes, JumpOps
<1> QED BY <1>1, <1>2, LabelIsOperand DEF OpenJump, Instruction, InstrsOf

LEMMA NothingKeeps ==
  ASSUME IInv, GenerateNothing
  PROVE  IInv'
<1>1. /\ Laid /\ next < CurrQuad /\ outcome = "running" /\ Quad.op \in {"and", "or", "not"}
      /\ Emit(consts, <<>>)
      /\ jumpList' = jumpList /\ funcStack' = funcStack /\ bodies' = bodies
  BY DEF IInv, GenerateNothing, At
<1>2. DOMAIN Carried(Quad) = {}
  BY <1>1 DEF Carried, ArithOps, Relops
<1>3. Quad.op \notin Jumps \cup {"ret", "funcstart", "funcend"} /\ Size(Quad) = 0
  BY <1>1, RelopsAre DEF Jumps, Size
<1>4. Translation(consts, <<>>, Quad)
  BY <1>2, <1>3 DEF Translation
<1>5. Grown(consts, consts)
  BY <1>1, GrownIsReflexive DEF Laid
<1>6. <<>> \in Seq(InstrsOf(consts)) /\ Len(<<>>) = 0
  OBVIOUS
<1>7. /\ LayoutStep /\ NewCode /\ outcome' = outcome
      /\ \A n \in 1..CurrInstruction : instructions'[n] = instructions[n]
  BY <1>1, <1>3, <1>4, <1>5, <1>6, Emitted
<1> QED BY <1>1, <1>3, <1>7, PlainQuadKeeps

LEMMA JumpKeeps ==
  ASSUME IInv, GenerateJump
  PROVE  IInv'
<1>1. /\ Laid /\ next < CurrQuad /\ outcome = "running" /\ Quad.op = "jump"
      /\ Emit(consts, <<OpenJump>>)
      /\ jumpList' = jumpList \cup {IncompleteJump} /\ funcStack' = funcStack /\ bodies' = bodies
  BY DEF IInv, GenerateJump, At
<1>2. DOMAIN Carried(Quad) = {}
  BY <1>1 DEF Carried, ArithOps, Relops
<1>3. /\ Quad.op \in Jumps /\ Quad.op \notin {"ret", "funcstart", "funcend"}
      /\ Size(Quad) = 1 /\ FirstOp(Quad) = "jump"
  BY <1>1, RelopsAre DEF Jumps, Size, FirstOp
<1>4. PICK i : i = OpenJump
  OBVIOUS
<1>5. i \in InstrsOf(consts) /\ i.op = "jump" /\ i.result \in Labels
  BY <1>4, OpenJumpIsInstr
<1>6. <<i>> \in Seq(InstrsOf(consts)) /\ Len(<<i>>) = 1 /\ <<i>>[1] = i
  BY <1>5
<1>7. Translation(consts, <<i>>, Quad)
  BY <1>2, <1>3, <1>5, <1>6 DEF Translation
<1>8. Grown(consts, consts)
  BY <1>1, GrownIsReflexive DEF Laid
<1>9. /\ LayoutStep /\ NewCode /\ outcome' = outcome
      /\ \A n \in 1..CurrInstruction : instructions'[n] = instructions[n]
  BY <1>1, <1>3, <1>4, <1>6, <1>7, <1>8, Emitted
<1> QED BY <1>1, <1>3, <1>9, PlainQuadKeeps

\* A return, and what it becomes with and without a value.
LEMMA ReturnEmitted ==
  ASSUME Laid, GenerateRet
  PROVE  /\ LayoutStep /\ NewCode /\ outcome' = outcome /\ ReturnStep
         /\ \A n \in 1..CurrInstruction : instructions'[n] = instructions[n]
<1> DEFINE value == Quad.result
           t == WithOperands(<<value, NoExpr, NoExpr>>)
           setValue == Instruction("assign", Retval, MakeOperand(t, value), NilArg)
<1>1. /\ next < CurrQuad /\ Quad.op = "ret"
      /\ IF value = NoExpr THEN Emit(t, <<OpenJump>>) /\ funcStack' = WithReturn(0)
         ELSE Emit(t, <<setValue, OpenJump>>) /\ funcStack' = WithReturn(1)
  BY DEF GenerateRet, At
<1>2. Grown(consts, t) /\ (value.type \in ConstTypes => Holds(t, value))
  BY OperandsAreHeld DEF Laid
<1>3. PICK i, j : i = setValue /\ j = OpenJump
  OBVIOUS
<1>4. CASE value = NoExpr
  <2>1. Emit(t, <<j>>) /\ funcStack' = WithReturn(0)
    BY <1>1, <1>3, <1>4
  <2> HIDE DEF t
  <2>2. Size(Quad) = 1 /\ FirstOp(Quad) = "jump" /\ DOMAIN Carried(Quad) = {} /\ Quad.op \notin Jumps
    BY <1>1, <1>4, RelopsAre DEF Size, FirstOp, Carried, ArithOps, Jumps
  <2>3. j \in InstrsOf(t) /\ j.op = "jump" /\ j.result \in Labels
    BY <1>3, OpenJumpIsInstr
  <2>4. <<j>> \in Seq(InstrsOf(t)) /\ Len(<<j>>) = 1 /\ <<j>>[1] = j
    BY <2>3
  <2>5. Translation(t, <<j>>, Quad)
    BY <1>1, <2>2, <2>3, <2>4 DEF Translation
  <2>6. ReturnStep
    BY <2>1, <2>2 DEF ReturnStep
  <2> QED BY <1>1, <1>2, <2>1, <2>2, <2>4, <2>5, <2>6, Emitted
<1>5. CASE value # NoExpr
  <2>1. Emit(t, <<i, j>>) /\ funcStack' = WithReturn(1)
    BY <1>1, <1>3, <1>5
  <2>2. Size(Quad) = 2 /\ FirstOp(Quad) = "assign" /\ SecondOp(Quad) = "jump" /\ Quad.op \notin Jumps
    BY <1>1, <1>5, RelopsAre DEF Size, FirstOp, SecondOp, Jumps
  <2>3. Carried(Quad) = [arg1 |-> value]
    BY <1>1, <1>5 DEF Carried, ArithOps, Relops
  <2>4. IsExpr(value) /\ IsOperand(value)
    BY <1>1, <2>3, NextQuad DEF IsOperand
  <2> HIDE DEF t, value
  <2>5. MakeOperand(t, value) \in ArgsOf(t) /\ DecodedIn(t, MakeOperand(t, value)) = value
    BY <1>2, <2>4, OperandReadBack DEF Grown
  <2>6. j \in InstrsOf(t) /\ j.op = "jump" /\ j.result \in Labels
    BY <1>3, OpenJumpIsInstr
  <2>7. i \in InstrsOf(t) /\ i.op = "assign" /\ i.arg1 = MakeOperand(t, value) /\ i.result = Retval
    <3>1. Retval \in ArgsOf(t) /\ NilArg \in ArgsOf(t) /\ "assign" \in Opcodes
      BY DEF Retval, NilArg, ArgsOf, Args, ConstTypes, Opcodes
    <3> QED BY <1>3, <2>5, <3>1 DEF InstrsOf, Instruction
  <2>8. <<i, j>> \in Seq(InstrsOf(t)) /\ Len(<<i, j>>) = 2 /\ <<i, j>>[1] = i /\ <<i, j>>[2] = j
    BY <2>6, <2>7
  <2>9. Translation(t, <<i, j>>, Quad)
    BY <1>1, <2>2, <2>3, <2>5, <2>6, <2>7, <2>8 DEF Translation
  <2>10. ReturnStep
    BY <2>1, <2>2 DEF ReturnStep
  <2> QED BY <1>1, <1>2, <2>1, <2>2, <2>8, <2>9, <2>10, Emitted
<1> QED BY <1>4, <1>5

LEMMA RetKeeps ==
  ASSUME IInv, GenerateRet
  PROVE  IInv'
<1>1. Laid /\ FramesTyped /\ FramesAround /\ ClosedFunctions /\ Bodies
  BY DEF IInv
<1>2. outcome = "running" /\ Quad.op = "ret" /\ jumpList' = jumpList /\ bodies' = bodies
  BY DEF GenerateRet, At
<1>3. /\ LayoutStep /\ NewCode /\ outcome' = outcome /\ ReturnStep
      /\ \A n \in 1..CurrInstruction : instructions'[n] = instructions[n]
  BY <1>1, ReturnEmitted
<1>4. Laid' /\ Translated' /\ JumpsWait' /\ JumpsPatched' /\ outcome' \in Outcomes
  BY <1>2, <1>3, RelopsAre, QuadKeeps DEF Jumps
<1>5. FramesTyped' /\ FramesAround'
  BY <1>1, <1>2, <1>3, TypedFramesWithReturn, FramesWithReturn
<1>6. ClosedFunctions'
  BY <1>1, <1>2, <1>3, ClosedFunctionsStay
<1>7. Bodies'
  <2>1. bodies' \in [DOMAIN bodies -> [address : Nat, localSize : Nat]]
    BY <1>1, <1>2 DEF Bodies
  <2> QED BY <1>1, <1>2, <1>3, <2>1, BodiesStay
<1> QED BY <1>4, <1>5, <1>6, <1>7 DEF IInv

\* A function starts with a jump and the instruction that enters it.
LEMMA FunctionEmitted ==
  ASSUME Laid, GenerateFuncstart
  PROVE  \E f \in Nat :
           /\ LayoutStep /\ NewCode /\ outcome' = outcome /\ StartStep(f) /\ RowStep(f)
           /\ \A n \in 1..CurrInstruction : instructions'[n] = instructions[n]
<1> DEFINE t == WithOperands(<<Quad.result, NoExpr, NoExpr>>)
           func == MakeOperand(t, Quad.result)
<1>1. /\ next < CurrQuad /\ Quad.op = "funcstart"
      /\ Emit(t, <<OpenJump, Instruction("funcenter", func, NilArg, NilArg)>>)
      /\ funcStack' = Append(funcStack, [jump_instr |-> CurrInstruction, rets |-> {}, ufidx |-> func.val])
      /\ bodies' = [f \in DOMAIN bodies \cup {func.val} |->
                      IF f # func.val THEN bodies[f]
                      ELSE [address |-> CurrInstruction + 1,
                            localSize |-> IF f \in DOMAIN bodies THEN bodies[f].localSize ELSE 0]]
  BY DEF GenerateFuncstart, At
<1>2. Grown(consts, t) /\ (Quad.result.type \in ConstTypes => Holds(t, Quad.result)) /\ ConstTables(t)
  <2>1. Grown(consts, t) /\ (Quad.result.type \in ConstTypes => Holds(t, Quad.result))
    BY OperandsAreHeld DEF Laid
  <2> QED BY <2>1 DEF Grown
<1> HIDE DEF t
<1>3. IsExpr(Quad.result) /\ IsOperand(Quad.result) /\ Quad.result.type = "userfunc"
  <2>1. IsFunc(Quad.result)
    BY <1>1, NextQuad DEF QuadOK
  <2> QED BY <2>1 DEF IsFunc, IsExpr, IsOperand, FuncExpr
<1>4. func \in ArgsOf(t) /\ DecodedIn(t, func) = Quad.result
  BY <1>2, <1>3, OperandReadBack
<1>5. func = [type |-> "userfunc", val |-> func.val]
  BY <1>3 DEF MakeOperand, ConstTypes
<1> HIDE DEF func
<1>6. PICK f : f = func.val
  OBVIOUS
<1>7. func.type = "userfunc" /\ f \in Nat /\ f < Len(t["userfunc"])
  <2>1. func.type = "userfunc"
    BY <1>5
  <2> QED BY <1>4, <1>6, <2>1 DEF ArgsOf, Args, Variables, Labels, Retval, ConstTypes
<1>8. t["userfunc"][f + 1] = Quad.result
  BY <1>4, <1>6, <1>7 DEF DecodedIn, ConstTypes
<1>9. PICK i, j : i = OpenJump /\ j = Instruction("funcenter", func, NilArg, NilArg)
  OBVIOUS
<1>10. i \in InstrsOf(t) /\ i.op = "jump" /\ i.result \in Labels
  BY <1>9, OpenJumpIsInstr
<1>11. j \in InstrsOf(t) /\ j.op = "funcenter" /\ j.result = func
  <2>1. NilArg \in ArgsOf(t) /\ "funcenter" \in Opcodes
    BY DEF NilArg, ArgsOf, Args, ConstTypes, Opcodes
  <2> QED BY <1>4, <1>9, <2>1 DEF InstrsOf, Instruction
<1>12. /\ Size(Quad) = 2 /\ FirstOp(Quad) = "jump" /\ SecondOp(Quad) = "funcenter"
       /\ DOMAIN Carried(Quad) = {}
  BY <1>1, RelopsAre DEF Size, FirstOp, SecondOp, Carried, ArithOps
<1>13. <<i, j>> \in Seq(InstrsOf(t)) /\ Len(<<i, j>>) = 2 /\ <<i, j>>[1] = i /\ <<i, j>>[2] = j
  BY <1>10, <1>11
<1>14. Translation(t, <<i, j>>, Quad)
  BY <1>1, <1>4, <1>7, <1>10, <1>11, <1>12, <1>13 DEF Translation
<1>15. Emit(t, <<i, j>>)
  BY <1>1, <1>9
<1>16. /\ LayoutStep /\ NewCode /\ outcome' = outcome /\ consts' = t
       /\ \A n \in 1..CurrInstruction : instructions'[n] = instructions[n]
  BY <1>1, <1>2, <1>12, <1>13, <1>14, <1>15, Emitted
<1>17. StartStep(f) /\ RowStep(f)
  BY <1>1, <1>6, <1>7, <1>8, <1>16 DEF StartStep, RowStep, NewFrame
<1> QED BY <1>7, <1>16, <1>17

LEMMA FuncstartKeeps ==
  ASSUME IInv, GenerateFuncstart
  PROVE  IInv'
<1>1. Laid /\ FramesTyped /\ FramesAround /\ ClosedFunctions /\ Bodies
  BY DEF IInv
<1>2. outcome = "running" /\ Quad.op = "funcstart" /\ jumpList' = jumpList
  BY DEF GenerateFuncstart, At
<1>3. PICK f \in Nat : /\ LayoutStep /\ NewCode /\ outcome' = outcome /\ StartStep(f) /\ RowStep(f)
                       /\ \A n \in 1..CurrInstruction : instructions'[n] = instructions[n]
  BY <1>1, FunctionEmitted
<1>4. Laid' /\ Translated' /\ JumpsWait' /\ JumpsPatched' /\ outcome' \in Outcomes
  BY <1>2, <1>3, RelopsAre, QuadKeeps DEF Jumps
<1>5. FramesTyped' /\ FramesAround'
  BY <1>1, <1>2, <1>3, TypedFramesWithFunction, FramesWithFunction
<1>6. ClosedFunctions'
  BY <1>1, <1>2, <1>3, ClosedFunctionsStay
<1>7. Bodies'
  <2>1. f < Len(consts'["userfunc"]) /\ consts'["userfunc"][f + 1] = Quad.result
    BY <1>3 DEF StartStep
  <2> QED BY <1>1, <1>2, <1>3, <2>1, BodiesWithFunction
<1> QED BY <1>4, <1>5, <1>6, <1>7 DEF IInv

LEMMA PatchedIsInstr ==
  ASSUME NEW c, NEW i \in InstrsOf(c), i.op \in JumpOps, i.result \in Labels, NEW v \in Nat,
         NEW j, j = [i EXCEPT !.result.val = v]
  PROVE  j \in InstrsOf(c) /\ SameButTarget(i, j) /\ j.result = Label(v)
<1>1. [i.result EXCEPT !.val = v] = Label(v) /\ Label(v) \in Labels
  BY DEF Labels, Label
<1>2. j = [op |-> i.op, result |-> Label(v), arg1 |-> i.arg1, arg2 |-> i.arg2]
  BY <1>1 DEF InstrsOf
<1>3. Label(v) \in ArgsOf(c)
  BY <1>1 DEF ArgsOf, Args, Label, ConstTypes
<1> QED BY <1>1, <1>2, <1>3 DEF InstrsOf, SameButTarget

\* The end of a function completes jumps of the function, and no other instruction.
LEMMA EndEmitted ==
  ASSUME Laid, FramesTyped, FramesAround, GenerateFuncend
  PROVE  LayoutStep /\ NewCode /\ FuncendStep
<1> DEFINE frame == funcStack[Innermost]
           func == [type |-> "userfunc", val |-> frame.ufidx]
<1>1. /\ next < CurrQuad /\ Quad.op = "funcend"
      /\ taddress' = [k \in 0..next |-> IF k = next THEN CurrInstruction ELSE taddress[k]]
      /\ instructions' = Append(PatchedFunction(frame), Instruction("funcexit", func, NilArg, NilArg))
      /\ funcStack' = SubSeq(funcStack, 1, Innermost - 1)
      /\ next' = next + 1 /\ quads' = quads /\ consts' = consts
  BY DEF GenerateFuncend, At
<1>2. Innermost \in 1..Len(funcStack)
  BY <1>1, FramePopped DEF Innermost
<1>3. /\ CurrInstruction \in Nat /\ DOMAIN instructions = 1..CurrInstruction
      /\ \A n \in 1..CurrInstruction : instructions[n] \in InstrsOf(consts)
      /\ Size(Quad) = 1
  BY <1>1, LengthOfCode DEF Size
<1>4. PICK p : p = PatchedFunction(frame)
  OBVIOUS
<1>5. ASSUME NEW n \in 1..CurrInstruction
      PROVE  p[n] \in InstrsOf(consts) /\ SameButTarget(instructions[n], p[n])
  <2>1. p[n] = IF n - 1 = frame.jump_instr THEN [instructions[n] EXCEPT !.result.val = JumpTarget]
               ELSE IF n - 1 \in frame.rets THEN [instructions[n] EXCEPT !.result.val = RetTarget]
               ELSE instructions[n]
    BY <1>3, <1>4 DEF PatchedFunction
  <2>2. JumpTarget \in Nat /\ RetTarget \in Nat
    BY <1>3 DEF JumpTarget, RetTarget
  <2>3. CASE n - 1 \in frame.rets \cup {frame.jump_instr}
    <3>1. WaitingJump(n - 1) /\ n - 1 + 1 = n
      BY <1>2, <2>3 DEF FramesTyped
    <3>2. instructions[n].op = "jump" /\ instructions[n].result \in Labels
      BY <3>1 DEF WaitingJump
    <3>3. PICK v \in Nat : p[n] = [instructions[n] EXCEPT !.result.val = v]
      BY <2>1, <2>2, <2>3
    <3> QED BY <1>3, <3>2, <3>3, PatchedIsInstr DEF JumpOps
  <2>4. CASE n - 1 \notin frame.rets \cup {frame.jump_instr}
    BY <1>3, <2>1, <2>4, SameIsSame
  <2> QED BY <2>3, <2>4
<1>6. p \in Seq(InstrsOf(consts)) /\ Len(p) = CurrInstruction
  <2>1. p \in [1..CurrInstruction -> InstrsOf(consts)]
    <3>1. DOMAIN p = 1..CurrInstruction /\ p = [n \in DOMAIN p |-> p[n]]
      BY <1>3, <1>4 DEF PatchedFunction
    <3> QED BY <1>5, <3>1
  <2>2. p \in Seq(InstrsOf(consts))
    BY <1>3, <2>1, SeqDef
  <2> QED BY <1>3, <2>1, <2>2, LenProperties
<1>7. PICK i : i = Instruction("funcexit", func, NilArg, NilArg)
  OBVIOUS
<1>8. i \in InstrsOf(consts) /\ i.op = "funcexit"
  <2>1. frame.ufidx \in Nat /\ frame.ufidx < Len(consts["userfunc"])
    BY <1>2, FrameFields DEF FramesTyped
  <2>2. func \in ArgsOf(consts)
    BY <2>1 DEF ArgsOf, Args, ConstTypes
  <2>3. NilArg \in ArgsOf(consts) /\ "funcexit" \in Opcodes
    BY DEF NilArg, ArgsOf, Args, ConstTypes, Opcodes
  <2> HIDE DEF func
  <2> QED BY <1>7, <2>2, <2>3 DEF InstrsOf, Instruction
<1>9. /\ instructions' \in Seq(InstrsOf(consts)) /\ Len(instructions') = CurrInstruction + 1
      /\ \A n \in 1..CurrInstruction : instructions'[n] = p[n]
      /\ instructions'[CurrInstruction + 1] = i
  <2>1. instructions' = Append(p, i)
    BY <1>1, <1>4, <1>7
  <2> QED BY <1>6, <1>8, <2>1, AppendProperties
<1>10. LayoutStep
  <2>1. Grown(consts, consts)
    BY GrownIsReflexive DEF Laid
  <2> QED BY <1>1, <1>3, <1>9, <2>1 DEF LayoutStep, CurrInstruction
<1>11. NewCode
  <2>1. DOMAIN Carried(Quad) = {} /\ FirstOp(Quad) = "funcexit" /\ Quad.op \notin Jumps
    BY <1>1, RelopsAre DEF Carried, ArithOps, FirstOp, Jumps
  <2>2. PICK j : j = CodeAt(instructions', CurrInstruction)
    OBVIOUS
  <2>3. j[1] = i
    BY <1>9, <2>2 DEF CodeAt
  <2>4. Translation(consts', j, Quad)
    BY <1>1, <1>3, <1>8, <2>1, <2>3 DEF Translation
  <2> QED BY <1>5, <1>9, <2>2, <2>4 DEF NewCode
<1>12. FuncendStep
  BY <1>1, <1>4, <1>7, <1>9 DEF FuncendStep
<1> QED BY <1>10, <1>11, <1>12

LEMMA FuncendKeeps ==
  ASSUME IInv, GenerateFuncend
  PROVE  IInv'
<1>1. Laid /\ FramesTyped /\ FramesAround /\ ClosedFunctions /\ Bodies
  BY DEF IInv
<1>2. /\ outcome = "running" /\ outcome' = outcome /\ next < CurrQuad
      /\ Quad.op = "funcend" /\ jumpList' = jumpList
      /\ bodies' = [bodies EXCEPT ![funcStack[Innermost].ufidx].localSize = Quad.result.sym.total_locals]
  BY DEF GenerateFuncend, At
<1>3. LayoutStep /\ NewCode /\ FuncendStep
  BY <1>1, EndEmitted
<1>4. Laid' /\ Translated' /\ JumpsWait' /\ JumpsPatched' /\ outcome' \in Outcomes
  BY <1>2, <1>3, RelopsAre, QuadKeeps DEF Jumps
<1>5. /\ DOMAIN bodies' = DOMAIN bodies
      /\ bodies' \in [DOMAIN bodies -> [address : Nat, localSize : Nat]]
      /\ \A f \in DOMAIN bodies : bodies'[f].address = bodies[f].address
  <2>1. bodies \in [DOMAIN bodies -> [address : Nat, localSize : Nat]]
    BY <1>1 DEF Bodies
  <2>2. Quad.result.sym.total_locals \in Nat
    BY <1>1, <1>2, NextQuad DEF QuadOK, IsFunc
  <2> QED BY <1>2, <2>1, <2>2
<1>6. FramesTyped' /\ FramesAround'
  BY <1>1, <1>2, <1>3, <1>5, TypedFramesWithout, FramesWithout DEF FuncendStep
<1>7. ClosedFunctions'
  BY <1>1, <1>2, <1>3, ClosedFunctionsWithEnd
<1>8. Bodies'
  BY <1>1, <1>2, <1>3, <1>5, BodiesStay
<1> QED BY <1>4, <1>6, <1>7, <1>8 DEF IInv

-----------------------------------------------------------------------------
(* The end of the translation, and the start. *)

\* The instruction of a jump that waits, when the jumps are worked through.
LEMMA PatchedJumps ==
  ASSUME IInv, PatchIncompleteJumps, NEW n \in 1..CurrInstruction
  PROVE  \/ /\ \A k \in 0..next - 1 : quads[k].op \in Jumps => n # taddress[k] + 1
            /\ instructions'[n] = instructions[n]
         \/ \E k \in 0..next - 1 :
              /\ quads[k].op \in Jumps /\ n = taddress[k] + 1
              /\ instructions'[n] = [instructions[n] EXCEPT !.result.val = Target(quads[k].label)]
<1>1. /\ Laid /\ outcome = "running"
      /\ jumpList = {[instrNo |-> taddress[k], iaddress |-> quads[k].label] :
                       k \in {j \in 0..next - 1 : quads[j].op \in Jumps}}
  BY DEF IInv, PatchIncompleteJumps, JumpsWait
<1>2. DOMAIN instructions = 1..CurrInstruction /\ CurrInstruction \in Nat
  BY <1>1, LengthOfCode
<1>3. instructions'[n] = IF \E j \in jumpList : j.instrNo = n - 1
                         THEN LET j == CHOOSE j \in jumpList : j.instrNo = n - 1
                              IN  [instructions[n] EXCEPT !.result.val = Target(j.iaddress)]
                         ELSE instructions[n]
  BY <1>2 DEF PatchIncompleteJumps
<1>4. \A k \in 0..next - 1 : taddress[k] \in Nat
  BY <1>1, StartsOfQuads
<1>5. CASE \E j \in jumpList : j.instrNo = n - 1
  <2>1. PICK j : j = CHOOSE x \in jumpList : x.instrNo = n - 1
    OBVIOUS
  <2>2. j \in jumpList /\ j.instrNo = n - 1
    BY <1>5, <2>1
  <2>3. PICK k \in 0..next - 1 : /\ quads[k].op \in Jumps
                                 /\ j = [instrNo |-> taddress[k], iaddress |-> quads[k].label]
    BY <1>1, <2>2
  <2>4. n = taddress[k] + 1
    BY <1>4, <2>2, <2>3
  <2>5. instructions'[n] = [instructions[n] EXCEPT !.result.val = Target(quads[k].label)]
    <3>1. instructions'[n] = [instructions[n] EXCEPT !.result.val = Target(j.iaddress)]
      BY <1>3, <1>5, <2>1
    <3>2. j.iaddress = quads[k].label
      BY <2>3
    <3> QED BY <3>1, <3>2
  <2> QED BY <2>3, <2>4, <2>5
<1>6. CASE ~ \E j \in jumpList : j.instrNo = n - 1
  <2>1. \A k \in 0..next - 1 : quads[k].op \in Jumps => n # taddress[k] + 1
    <3> TAKE k \in 0..next - 1
    <3> HAVE quads[k].op \in Jumps
    <3>1. PICK j : j = [instrNo |-> taddress[k], iaddress |-> quads[k].label]
      OBVIOUS
    <3>2. j \in jumpList /\ j.instrNo = taddress[k]
      BY <1>1, <3>1
    <3> QED BY <1>4, <1>6, <3>2
  <2> QED BY <1>3, <1>6, <2>1
<1> QED BY <1>5, <1>6

LEMMA TargetsAreStarts ==
  ASSUME Laid, next = CurrQuad, NEW k \in 0..next - 1, quads[k].op \in Jumps
  PROVE  /\ Target(quads[k].label) = StartOf(quads[k].label)
         /\ Target(quads[k].label) \in Nat
         /\ Size(quads[k]) = 1 /\ FirstOp(quads[k]) \in JumpOps
<1>1. next \in Nat /\ QuadOK(quads[k], next)
  BY StartsOfQuads, QuadsAreNested DEF Laid
<1>2. quads[k].label \in 0..next
  BY <1>1 DEF QuadOK, Jumps
<1>3. Target(quads[k].label) = StartOf(quads[k].label)
  BY DEF Target, StartOf
<1>4. StartOf(quads[k].label) \in Nat
  BY <1>2, StartsOfQuads
<1>5. Size(quads[k]) = 1 /\ FirstOp(quads[k]) \in JumpOps
  BY RelopsAre DEF Jumps, Size, FirstOp, JumpOps
<1> QED BY <1>3, <1>4, <1>5

\* Working through the jumps changes targets only.
LEMMA PatchedCode ==
  ASSUME IInv, PatchIncompleteJumps
  PROVE  /\ Laid' /\ Translated'
         /\ \A n : StartOf(n)' = StartOf(n)
         /\ \A k \in 0..next - 1 : quads[k].op \in Jumps =>
              instructions'[taddress[k] + 1].result = Label(StartOf(quads[k].label))
<1>1. /\ Laid /\ Translated /\ next = CurrQuad /\ outcome = "running"
      /\ quads' = quads /\ next' = next /\ taddress' = taddress /\ consts' = consts
  BY DEF IInv, PatchIncompleteJumps
<1>2. /\ CurrInstruction \in Nat /\ DOMAIN instructions = 1..CurrInstruction
      /\ \A n \in 1..CurrInstruction : instructions[n] \in InstrsOf(consts)
  BY <1>1, LengthOfCode
<1>3. ASSUME NEW k \in 0..next - 1, quads[k].op \in Jumps
      PROVE  /\ taddress[k] \in Nat /\ taddress[k] + 1 \in 1..CurrInstruction
             /\ instructions[taddress[k] + 1].op \in JumpOps
             /\ instructions[taddress[k] + 1].result \in Labels
  <2>1. Size(quads[k]) = 1 /\ FirstOp(quads[k]) \in JumpOps
    BY <1>1, <1>3, TargetsAreStarts
  <2>2. taddress[k] \in Nat /\ taddress[k] + 1 <= CurrInstruction
    BY <1>1, <2>1, StartsOfQuads
  <2>3. PICK i : i = CodeAt(instructions, taddress[k])
    OBVIOUS
  <2>4. Translation(consts, i, quads[k])
    BY <1>1, <2>3 DEF Translated
  <2>5. i[1].op \in JumpOps /\ i[1].result \in Labels
    BY <1>3, <2>1, <2>4 DEF Translation
  <2>6. i[1] = instructions[taddress[k] + 1]
    BY <2>3 DEF CodeAt
  <2> QED BY <1>2, <2>2, <2>5, <2>6
<1>4. ASSUME NEW n \in 1..CurrInstruction
      PROVE  instructions'[n] \in InstrsOf(consts) /\ SameButTarget(instructions[n], instructions'[n])
  <2>1. CASE instructions'[n] = instructions[n]
    BY <1>2, <2>1, SameIsSame
  <2>2. CASE \E k \in 0..next - 1 :
               /\ quads[k].op \in Jumps /\ n = taddress[k] + 1
               /\ instructions'[n] = [instructions[n] EXCEPT !.result.val = Target(quads[k].label)]
    <3>1. PICK k \in 0..next - 1 :
               /\ quads[k].op \in Jumps /\ n = taddress[k] + 1
               /\ instructions'[n] = [instructions[n] EXCEPT !.result.val = Target(quads[k].label)]
      BY <2>2
    <3>2. Target(quads[k].label) \in Nat
      BY <1>1, <3>1, TargetsAreStarts
    <3>3. instructions[n].op \in JumpOps /\ instructions[n].result \in Labels
      BY <1>3, <3>1
    <3> QED BY <1>2, <3>1, <3>2, <3>3, PatchedIsInstr
  <2> QED BY <2>1, <2>2, PatchedJumps
<1>5. instructions' \in Seq(InstrsOf(consts)) /\ Len(instructions') = CurrInstruction
  <2>1. DOMAIN instructions' = 1..CurrInstruction /\ instructions' = [n \in DOMAIN instructions' |-> instructions'[n]]
    BY <1>2 DEF PatchIncompleteJumps
  <2>2. instructions' \in [1..CurrInstruction -> InstrsOf(consts)]
    BY <1>4, <2>1
  <2>3. instructions' \in Seq(InstrsOf(consts))
    BY <1>2, <2>2, SeqDef
  <2> QED BY <1>2, <2>2, <2>3, LenProperties
<1>6. \A n : StartOf(n)' = StartOf(n)
  BY <1>1, <1>5 DEF StartOf, CurrInstruction
<1>7. Laid'
  <2>1. Layout'
    BY <1>1, <1>6 DEF Laid, Layout
  <2>2. CurrQuad' = CurrQuad
    BY <1>1 DEF CurrQuad
  <2> QED BY <1>1, <1>5, <2>1, <2>2 DEF Laid
<1>8. Translated'
  <2>1. ASSUME NEW k \in 0..next - 1
        PROVE  Translation(consts, CodeAt(instructions', taddress[k]), quads[k])
    <3>1. PICK a : a = taddress[k]
      OBVIOUS
    <3>2. a \in Nat /\ a + Size(quads[k]) <= CurrInstruction
      BY <1>1, <3>1, StartsOfQuads
    <3>3. \A x \in 1..Size(quads[k]) :
            /\ CodeAt(instructions, a)[x] \in InstrsOf(consts)
            /\ SameButTarget(CodeAt(instructions, a)[x], CodeAt(instructions', a)[x])
      <4> TAKE x \in 1..Size(quads[k])
      <4>1. x \in 1..2 /\ a + x \in 1..CurrInstruction
        BY <1>2, <3>2, SizeIsSmall
      <4>2. CodeAt(instructions, a)[x] = instructions[a + x] /\ CodeAt(instructions', a)[x] = instructions'[a + x]
        BY <4>1 DEF CodeAt
      <4> QED BY <1>2, <1>4, <4>1, <4>2
    <3>4. quads[k].op \in QuadOps
      BY <1>1, QuadsAreNested DEF Laid, QuadOK
    <3>5. Translation(consts, CodeAt(instructions, a), quads[k])
      BY <1>1, <3>1 DEF Translated
    <3>6. ConstTables(consts) /\ Grown(consts, consts)
      BY <1>1, GrownIsReflexive DEF Laid
    <3> QED BY <3>1, <3>3, <3>4, <3>5, <3>6, TranslationStays
  <2> QED BY <1>1, <2>1 DEF Translated
<1>9. ASSUME NEW k \in 0..next - 1, quads[k].op \in Jumps
      PROVE  instructions'[taddress[k] + 1].result = Label(StartOf(quads[k].label))
  <2>1. PICK n : n = taddress[k] + 1
    OBVIOUS
  <2>2. n \in 1..CurrInstruction /\ taddress[k] \in Nat
    BY <1>3, <1>9, <2>1
  <2>3. PICK j \in 0..next - 1 :
          /\ quads[j].op \in Jumps /\ n = taddress[j] + 1
          /\ instructions'[n] = [instructions[n] EXCEPT !.result.val = Target(quads[j].label)]
    BY <1>9, <2>1, <2>2, PatchedJumps
  <2>4. j = k
    <3>1. Size(quads[j]) = 1 /\ Size(quads[k]) = 1
      BY <1>1, <1>9, <2>3, TargetsAreStarts
    <3>2. PICK x : x = 0
      OBVIOUS
    <3>3. x \in 0..Size(quads[j]) - 1 /\ x \in 0..Size(quads[k]) - 1
      BY <3>1, <3>2
    <3>4. taddress[j] \in Nat /\ taddress[j] + x = taddress[k] + x
      BY <1>3, <2>1, <2>2, <2>3, <3>2
    <3> QED BY <1>1, <3>3, <3>4, QuadsAreApart
  <2>5. instructions[n] \in InstrsOf(consts) /\ instructions[n].op \in JumpOps /\ instructions[n].result \in Labels
    BY <1>2, <1>3, <1>9, <2>1, <2>2
  <2>6. Target(quads[k].label) \in Nat /\ Target(quads[k].label) = StartOf(quads[k].label)
    BY <1>1, <1>9, TargetsAreStarts
  <2>7. instructions'[n].result = Label(Target(quads[k].label))
    <3>1. PICK v \in Nat : v = Target(quads[k].label)
      BY <2>6
    <3>2. instructions'[n] = [instructions[n] EXCEPT !.result.val = v]
      BY <2>3, <2>4, <3>1
    <3>3. [instructions[n] EXCEPT !.result.val = v].result = Label(v)
      BY <1>2, <2>2, <2>5, LabelOfPatched, InstrsAreInstructions
    <3> QED BY <3>1, <3>2, <3>3
  <2> QED BY <2>1, <2>6, <2>7
<1> QED BY <1>6, <1>7, <1>8, <1>9

\* The jumps of functions are not among those that are worked through.
LEMMA PatchedFunctions ==
  ASSUME IInv, PatchIncompleteJumps
  PROVE  ClosedFunctions'
<1>1. /\ Laid /\ Translated /\ ClosedFunctions
      /\ quads' = quads /\ next' = next /\ taddress' = taddress /\ consts' = consts
  BY DEF IInv, PatchIncompleteJumps
<1>2. \A n : StartOf(n)' = StartOf(n)
  BY PatchedCode
<1>3. ASSUME NEW s \in FuncStarts(quads), NEW e, e = End(quads, s), e < next
      PROVE  Closed(s, e)'
  <2>1. Closed(s, e)
    BY <1>1, <1>3 DEF ClosedFunctions, Closed
  <2>2. /\ s \in 0..next - 1 /\ e \in 0..next - 1 /\ next \in Nat
        /\ quads[s].op = "funcstart" /\ quads[e].op = "funcend"
    BY SMTT(30), <1>1, <1>3, StartsOfQuads, QuadsAreNested, StartsAreNat, EndExists DEF Laid
  <2>3. ASSUME NEW n \in OwnCode(s)
        PROVE  instructions'[n + 1] = instructions[n + 1]
    <3>1. n \in Nat /\ n + 1 \in 1..CurrInstruction
      BY <1>1, <1>3, OwnCodeIsThere
    <3>2. PICK k \in {s, e} \cup RetsOf(s) : k \in 0..next - 1 /\ \E y \in 0..Size(quads[k]) - 1 : n = taddress[k] + y
      <4>1. CASE n = taddress[e]
        <5>1. Size(quads[e]) = 1 /\ taddress[e] \in Nat
          BY <1>1, <2>2, StartsOfQuads DEF Size
        <5>2. 0 \in 0..Size(quads[e]) - 1 /\ n = taddress[e] + 0
          BY <4>1, <5>1
        <5> QED BY <2>2, <5>2
      <4>2. CASE n \in JumpsOf(s)
        <5>1. s < next
          BY <2>2
        <5> QED BY <1>1, <4>2, <5>1, PlacesInFunction
      <4> QED BY <1>3, <4>1, <4>2 DEF OwnCode
    <3>3. PICK y \in 0..Size(quads[k]) - 1 : n = taddress[k] + y
      BY <3>2
    <3>4. quads[k].op \notin Jumps
      BY <2>2, RelopsAre DEF Jumps, RetsOf
    <3>5. ASSUME NEW j \in 0..next - 1, quads[j].op \in Jumps
          PROVE  n # taddress[j]
      <4>1. next = CurrQuad
        BY DEF PatchIncompleteJumps
      <4>2. Size(quads[j]) = 1 /\ j # k
        BY <1>1, <3>4, <3>5, <4>1, TargetsAreStarts
      <4>3. PICK x : x = 0
        OBVIOUS
      <4>4. x \in 0..Size(quads[j]) - 1 /\ taddress[j] + x = taddress[j]
        BY <1>1, <4>2, <4>3, StartsOfQuads
      <4> QED BY <1>1, <3>2, <3>3, <4>2, <4>4, QuadsAreApart
    <3>6. \A j \in 0..next - 1 : quads[j].op \in Jumps => n + 1 # taddress[j] + 1
      BY <1>1, <3>1, <3>5, StartsOfQuads
    <3> QED BY <3>1, <3>6, PatchedJumps
  <2>4. /\ instructions'[taddress[s] + 1] = instructions[taddress[s] + 1]
        /\ instructions'[taddress[e] + 1] = instructions[taddress[e] + 1]
        /\ \A r \in RetsOf(s) : instructions'[LastOf(r) + 1] = instructions[LastOf(r) + 1]
    BY <1>3, <2>3 DEF OwnCode, JumpsOf
  <2>5. RetsOf(s)' = RetsOf(s)
    BY <1>1 DEF RetsOf
  <2>6. \A r : LastOf(r)' = LastOf(r)
    BY <1>1, <1>2 DEF LastOf
  <2> QED BY <1>1, <1>2, <2>1, <2>4, <2>5, <2>6 DEF Closed
<1>4. FuncStarts(quads)' = FuncStarts(quads) /\ \A s : End(quads, s)' = End(quads, s)
  BY <1>1
<1> QED BY <1>1, <1>3, <1>4 DEF ClosedFunctions, Closed

LEMMA PatchKeeps ==
  ASSUME IInv, PatchIncompleteJumps
  PROVE  IInv'
<1>1. /\ Laid /\ FramesTyped /\ FramesAround /\ Bodies
      /\ quads' = quads /\ next' = next /\ taddress' = taddress /\ consts' = consts
      /\ funcStack' = funcStack /\ bodies' = bodies /\ outcome' = "done" /\ jumpList' = {}
      /\ next = CurrQuad
  BY DEF IInv, PatchIncompleteJumps
<1>2. Laid' /\ Translated' /\ \A n : StartOf(n)' = StartOf(n)
  BY PatchedCode
<1>3. JumpsWait' /\ outcome' \in Outcomes
  BY <1>1 DEF JumpsWait, Outcomes
<1>4. JumpsPatched'
  BY <1>1, <1>2, PatchedCode DEF JumpsPatched, CurrQuad
<1>5. Around(quads, next) = {} /\ Around(quads, next)' = {}
  BY <1>1, NothingAroundLast, QuadsAreNested DEF Laid
<1>6. Len(funcStack) = 0
  BY <1>1, <1>5, FS_EmptySet DEF FramesAround
<1>7. FramesTyped'
  BY <1>1, <1>6 DEF FramesTyped
<1>8. FramesAround'
  BY <1>1, <1>5, <1>6, FS_EmptySet DEF FramesAround
<1>9. Bodies'
  BY <1>1 DEF Bodies, DeclaredOnce
<1> QED BY <1>2, <1>3, <1>4, <1>7, <1>8, <1>9, PatchedFunctions DEF IInv

LEMMA StopKeeps ==
  ASSUME IInv, NEW why \in {"aborted", "wild"}, Stop(why), outcome = "running"
  PROVE  IInv'
<1>1. /\ outcome' = why
      /\ UNCHANGED <<quads, next, taddress, instructions, jumpList, funcStack, consts, bodies>>
  BY DEF Stop
<1>2. Laid' /\ Translated' /\ FramesTyped' /\ Bodies'
  BY <1>1 DEF IInv, Laid, Layout, StartOf, CurrInstruction, CurrQuad, Translated, FramesTyped,
              WaitingJump, Bodies, DeclaredOnce
<1>3. FramesAround' /\ ClosedFunctions'
  BY <1>1 DEF IInv, FramesAround, Level, ClosedFunctions, RetsOf, LastOf, StartOf, CurrInstruction
<1>4. JumpsWait'
  BY <1>1 DEF IInv, JumpsWait
<1>5. JumpsPatched' /\ outcome' \in Outcomes
  BY <1>1 DEF JumpsPatched, Outcomes
<1> QED BY <1>2, <1>3, <1>4, <1>5 DEF IInv

LEMMA InitHolds ==
  ASSUME Init
  PROVE  IInv
<1>1. /\ quads \in QuadLists /\ next = 0 /\ taddress = [k \in {} |-> 0]
      /\ instructions = <<>> /\ jumpList = {} /\ funcStack = <<>>
      /\ consts = [t \in ConstTypes |-> <<>>] /\ outcome = "running"
      /\ bodies = [f \in {} |-> [address |-> 0, localSize |-> 0]]
  BY DEF Init
<1>2. CurrQuad \in Nat /\ 0..next - 1 = {} /\ CurrInstruction = 0
  BY <1>1, QuadsAreNested DEF CurrInstruction
<1>3. Laid
  <2>1. ConstTables(consts)
    <3>1. IsSequence(<<>>)
      BY DEF IsSequence
    <3> QED BY <1>1, <3>1 DEF ConstTables
  <2>2. StartOf(0) = 0 /\ 0..next = {0}
    BY <1>1, <1>2 DEF StartOf
  <2>3. Layout
    BY <1>2, <2>2 DEF Layout
  <2>4. taddress \in [0..next - 1 -> Nat]
    BY <1>1, <1>2
  <2>5. instructions \in Seq(InstrsOf(consts))
    BY <1>1
  <2> QED BY <1>1, <1>2, <2>1, <2>3, <2>4, <2>5 DEF Laid
<1>4. Translated
  BY <1>2 DEF Translated
<1>5. JumpsWait /\ JumpsPatched /\ outcome \in Outcomes
  BY <1>1, <1>2 DEF JumpsWait, JumpsPatched, Outcomes
<1>6. FramesTyped
  BY <1>1 DEF FramesTyped
<1>7. FramesAround
  <2>1. Around(quads, next) = {}
    BY <1>1, NothingAroundFirst, QuadsAreNested
  <2> QED BY <1>1, <2>1, FS_EmptySet DEF FramesAround
<1>8. ClosedFunctions
  <2> SUFFICES ASSUME NEW s \in FuncStarts(quads), End(quads, s) < next
               PROVE  FALSE
    BY DEF ClosedFunctions
  <2>1. CurrQuad \in Nat /\ WellNested(quads, CurrQuad)
    BY <1>1, QuadsAreNested
  <2>2. s \in Nat /\ End(quads, s) \in s + 1..CurrQuad - 1
    BY <2>1, StartsAreNat, EndExists
  <2> QED BY <1>1, <2>2
<1>9. Bodies
  <2>1. DOMAIN bodies = {} /\ bodies \in [DOMAIN bodies -> [address : Nat, localSize : Nat]]
    BY <1>1
  <2> QED BY <1>2, <2>1 DEF Bodies
<1> QED BY <1>3, <1>4, <1>5, <1>6, <1>7, <1>8, <1>9 DEF IInv

LEMMA StutterKeeps ==
  ASSUME IInv, UNCHANGED vars
  PROVE  IInv'
<1>1. UNCHANGED <<quads, next, taddress, instructions, jumpList, funcStack, consts, bodies, outcome>>
  BY DEF vars
<1>2. Laid' /\ Translated' /\ FramesTyped' /\ Bodies'
  BY <1>1 DEF IInv, Laid, Layout, StartOf, CurrInstruction, CurrQuad, Translated, FramesTyped,
              WaitingJump, Bodies, DeclaredOnce
<1>3. FramesAround' /\ ClosedFunctions'
  BY <1>1 DEF IInv, FramesAround, Level, ClosedFunctions, RetsOf, LastOf, StartOf, CurrInstruction
<1>4. JumpsWait' /\ outcome' \in Outcomes
  BY <1>1 DEF IInv, JumpsWait
<1>5. JumpsPatched'
  BY <1>1 DEF IInv, JumpsPatched, CurrQuad, StartOf, CurrInstruction
<1> QED BY <1>2, <1>3, <1>4, <1>5 DEF IInv

LEMMA NextKeeps ==
  ASSUME IInv, [Next]_vars
  PROVE  IInv'
<1>1. CASE \/ GenerateAssign \/ GenerateArith \/ GenerateUminus \/ GenerateNothing
           \/ GenerateRelop \/ GenerateJump
  BY <1>1, AssignKeeps, ArithKeeps, UminusKeeps, NothingKeeps, RelopKeeps, JumpKeeps
<1>2. CASE \/ GenerateCall \/ GenerateParam \/ GenerateGetretval
           \/ GenerateTablecreate \/ GenerateTablegetelem \/ GenerateTablesetelem
  BY <1>2, CallKeeps, ParamKeeps, GetretvalKeeps, TablecreateKeeps, TablegetelemKeeps, TablesetelemKeeps
<1>3. CASE GenerateRet \/ GenerateFuncstart \/ GenerateFuncend
  BY <1>3, RetKeeps, FuncstartKeeps, FuncendKeeps
<1>4. CASE PatchIncompleteJumps
  BY <1>4, PatchKeeps
<1>5. CASE Overrun \/ Abort
  <2>1. outcome = "running" /\ (Stop("wild") \/ Stop("aborted"))
    BY <1>5 DEF Overrun, Abort
  <2> QED BY <2>1, StopKeeps
<1>6. CASE Stopped \/ UNCHANGED vars
  BY <1>6, StutterKeeps DEF Stopped
<1> QED BY <1>1, <1>2, <1>3, <1>4, <1>5, <1>6 DEF Next

-----------------------------------------------------------------------------
(* The properties. *)

\* The invariant that the properties rest on: the quads translated so far lie
\* next to each other, with the operands that the tables hold, the jumps of the
\* list and of the frames wait, and those of functions that ended are completed.
THEOREM Invariance == Spec => []IInv
<1>1. Init => IInv
  BY InitHolds
<1>2. IInv /\ [Next]_vars => IInv'
  BY NextKeeps
<1> QED BY <1>1, <1>2, PTL DEF Spec

\* The first instruction of a quad.
LEMMA FirstOfQuad ==
  ASSUME IInv, NEW k \in 0..next - 1, Size(quads[k]) >= 1
  PROVE  /\ taddress[k] \in Nat /\ taddress[k] \in 0..CurrInstruction - 1
         /\ instructions[taddress[k] + 1].op = FirstOp(quads[k])
         /\ taddress[k] + Size(quads[k]) <= CurrInstruction
         /\ Size(quads[k]) \in {1, 2}
         /\ Size(quads[k]) = 2 => instructions[taddress[k] + 2].op = SecondOp(quads[k])
<1>1. Laid /\ Translated
  BY DEF IInv
<1>2. Size(quads[k]) \in {1, 2}
  BY SizeIsSmall
<1>3. PICK a : a = taddress[k]
  OBVIOUS
<1>4. a \in Nat /\ a + Size(quads[k]) <= CurrInstruction /\ CurrInstruction \in Nat
  BY <1>1, <1>3, StartsOfQuads, LengthOfCode
<1>5. Translation(consts, CodeAt(instructions, a), quads[k])
  BY <1>1, <1>3 DEF Translated
<1>6. CodeAt(instructions, a)[1] = instructions[a + 1] /\ CodeAt(instructions, a)[2] = instructions[a + 2]
  BY DEF CodeAt
<1> QED BY <1>2, <1>3, <1>4, <1>5, <1>6 DEF Translation

LEMMA OpcodesOfQuads ==
  ASSUME Laid, NEW n \in 1..CurrInstruction
  PROVE  instructions[n].op \in Opcodes
BY LengthOfCode DEF InstrsOf

\* The variables of the code generator keep their types; an incomplete jump, in
\* the list or in a frame, is a jump instruction that was emitted.
THEOREM TypeCorrect == Spec => []TypeOK
<1>1. IInv => TypeOK
  <2> SUFFICES ASSUME IInv
               PROVE  TypeOK
    OBVIOUS
  <2>1. Laid /\ JumpsWait /\ JumpsPatched /\ FramesTyped /\ outcome \in Outcomes
    BY DEF IInv
  <2>2. next \in 0..CurrQuad /\ next \in Nat /\ CurrInstruction \in Nat
        /\ DOMAIN instructions = 1..CurrInstruction
    BY <2>1, StartsOfQuads, LengthOfCode DEF Laid
  <2>3. taddress \in [0..next - 1 -> 0..CurrInstruction]
    <3>1. \A k \in 0..next - 1 : taddress[k] \in 0..CurrInstruction
      <4> TAKE k \in 0..next - 1
      <4>1. taddress[k] \in Nat /\ taddress[k] + Size(quads[k]) <= CurrInstruction /\ Size(quads[k]) \in 0..2
        BY <2>1, StartsOfQuads, SizeIsSmall
      <4> QED BY <2>2, <4>1
    <3> QED BY <2>1, <3>1 DEF Laid
  <2>4. \A n \in DOMAIN instructions : instructions[n].op \in Opcodes
    BY <2>1, <2>2, OpcodesOfQuads
  <2>5. ASSUME NEW j \in jumpList
        PROVE  /\ j.instrNo + 1 \in DOMAIN instructions
               /\ instructions[j.instrNo + 1].op \in JumpOps
               /\ j.iaddress \in 0..CurrQuad
    <3>1. jumpList = {[instrNo |-> taddress[k], iaddress |-> quads[k].label] :
                        k \in {r \in 0..next - 1 : quads[r].op \in Jumps}}
      BY <2>1 DEF JumpsWait, JumpsPatched
    <3>2. PICK k \in 0..next - 1 : /\ quads[k].op \in Jumps
                                   /\ j = [instrNo |-> taddress[k], iaddress |-> quads[k].label]
      BY <3>1
    <3>3. Size(quads[k]) = 1 /\ FirstOp(quads[k]) \in JumpOps
      BY <3>2, RelopsAre DEF Jumps, Size, FirstOp, JumpOps
    <3>4. taddress[k] \in 0..CurrInstruction - 1 /\ instructions[taddress[k] + 1].op \in JumpOps
      BY <3>3, FirstOfQuad
    <3>5. quads[k].label \in 0..CurrQuad
      <4>1. k \in 0..CurrQuad - 1
        BY <2>1, <2>2, QuadsAreNested DEF Laid
      <4> QED BY <2>1, <3>2, <4>1, QuadsAreNested DEF Laid, QuadOK, Jumps
    <3> QED BY <2>2, <3>2, <3>4, <3>5
  <2>6. ASSUME NEW d \in DOMAIN funcStack, NEW n \in funcStack[d].rets \cup {funcStack[d].jump_instr}
        PROVE  instructions[n + 1].op = "jump"
    <3>1. DOMAIN funcStack = 1..Len(funcStack)
      BY <2>1, LenProperties DEF FramesTyped
    <3> QED BY <2>1, <3>1 DEF FramesTyped, WaitingJump
  <2> QED BY <2>1, <2>2, <2>3, <2>4, <2>5, <2>6 DEF TypeOK
<1> QED BY <1>1, Invariance, PTL

\* While a function is translated, func_stack (target_code.c:130-152) has the
\* jumps of the functions around the next quad, each with its own returns.
THEOREM FunctionsAreOpen == Spec => []OpenFunctions
<1>1. IInv => OpenFunctions
  BY DEF IInv, FramesAround, OpenFunctions, Level, UpTo, RetsOf
<1> QED BY <1>1, Invariance, PTL

\* Every operand is read back from the constant tables as it was in its quad,
\* whatever the tables got since (consts_newstring and the like).
THEOREM OperandsAreKept == Spec => []OperandsPreserved
<1>1. IInv => OperandsPreserved
  <2> SUFFICES ASSUME IInv, NEW k \in 0..next - 1, NEW x \in DOMAIN Carried(quads[k])
               PROVE  Decoded(instructions[taddress[k] + 1][x]) = Carried(quads[k])[x]
    BY DEF OperandsPreserved
  <2>1. Translation(consts, CodeAt(instructions, taddress[k]), quads[k])
    BY DEF IInv, Translated
  <2>2. CodeAt(instructions, taddress[k])[1] = instructions[taddress[k] + 1]
    BY DEF CodeAt
  <2>3. \A arg : Decoded(arg) = DecodedIn(consts, arg)
    BY DEF Decoded, DecodedIn
  <2> QED BY <2>1, <2>2, <2>3 DEF Translation
<1> QED BY <1>1, Invariance, PTL

\* Where the machine goes from an instruction of the output.
LEMMA SuccOfInstruction ==
  ASSUME Laid, NEW n \in 0..CurrInstruction - 1, NEW i, i = instructions[n + 1]
  PROVE  /\ i.op \notin JumpOps \cup {"funcexit"} => Succ(Output, n) = {n + 1}
         /\ i.op = "funcexit" => Succ(Output, n) = {}
         /\ \A v \in Nat : i.result = Label(v) =>
              /\ i.op = "jump" => Succ(Output, n) = {v}
              /\ i.op \in JumpOps \ {"jump"} => Succ(Output, n) = {v, n + 1}
<1>1. PICK p : p = Output
  OBVIOUS
<1>2. p.code[n] = Instruction(i.op, Loaded(i.result), Loaded(i.arg1), Loaded(i.arg2))
  BY <1>1 DEF Output
<1>3. p.code[n].op = i.op /\ p.code[n].result = Loaded(i.result)
  BY <1>2 DEF Instruction
<1>4. \A v \in Nat : i.result = Label(v) => p.code[n].result.val = v
  BY <1>3 DEF Loaded, Decoded, Label, ConstTypes
<1>5. Succ(p, n) = (IF i.op \in JumpOps THEN {p.code[n].result.val} ELSE {})
                     \cup (IF i.op \in {"jump", "funcexit"} THEN {} ELSE {n + 1})
  BY <1>3 DEF Succ
<1>6. "funcexit" \notin JumpOps /\ "jump" \in JumpOps
  BY DEF JumpOps, NumCmpOps
<1> QED BY <1>1, <1>4, <1>5, <1>6

\* Where the instructions of a quad end.
LEMMA LastOfQuad ==
  ASSUME IInv, NEW k \in 0..next - 1, Size(quads[k]) >= 1, quads[k].op # "funcstart"
  PROVE  /\ LastOf(k) = taddress[k] + Size(quads[k]) - 1
         /\ LastOf(k) \in 0..CurrInstruction - 1
         /\ LastOf(k) + 1 = StartOf(k + 1)
<1>1. Laid
  BY DEF IInv
<1>2. /\ taddress[k] \in Nat /\ taddress[k] + Size(quads[k]) <= CurrInstruction
      /\ Size(quads[k]) \in {1, 2} /\ CurrInstruction \in Nat /\ StartOf(k) = taddress[k]
  BY <1>1, FirstOfQuad, LengthOfCode, StartsOfQuads
<1>3. StartOf(k + 1) = StartOf(k) + Size(quads[k])
  BY <1>1 DEF Laid, Layout
<1>4. LastOf(k) = StartOf(k + 1) - 1
  BY DEF LastOf
<1>5. PICK v, w : v = StartOf(k + 1) /\ w = LastOf(k)
  OBVIOUS
<1> QED BY <1>2, <1>3, <1>4, <1>5

\* In the finished code, a quad that jumps does so to its label.
LEMMA JumpsGoToLabels ==
  ASSUME IInv, outcome = "done", NEW k \in 0..next - 1, quads[k].op \in Jumps
  PROVE  Succ(Output, LastOf(k)) = {StartOf(s) : s \in QuadSucc(k)}
<1>1. /\ Laid /\ next = CurrQuad
      /\ instructions[taddress[k] + 1].result = Label(StartOf(quads[k].label))
  BY DEF IInv, JumpsPatched
<1>2. Size(quads[k]) = 1 /\ quads[k].op # "funcstart" /\ quads[k].op # "ret" /\ quads[k].op # "funcend"
  BY RelopsAre DEF Jumps, Size
<1>3. /\ taddress[k] \in Nat /\ LastOf(k) = taddress[k] /\ LastOf(k) \in 0..CurrInstruction - 1
      /\ LastOf(k) + 1 = StartOf(k + 1)
      /\ instructions[taddress[k] + 1].op = FirstOp(quads[k])
  BY <1>2, FirstOfQuad, LastOfQuad
<1>4. StartOf(quads[k].label) \in Nat
  BY <1>1, TargetsAreStarts
<1>5. CASE quads[k].op = "jump"
  <2>1. FirstOp(quads[k]) = "jump"
    BY <1>5, RelopsAre DEF FirstOp
  <2>2. QuadSucc(k) = {quads[k].label}
    BY <1>5, RelopsAre DEF QuadSucc
  <2> QED BY <1>1, <1>3, <1>4, <2>1, <2>2, SuccOfInstruction
<1>6. CASE quads[k].op \in DOMAIN Relops
  <2>1. FirstOp(quads[k]) \in JumpOps \ {"jump"}
    BY <1>6 DEF FirstOp, Relops, JumpOps, NumCmpOps
  <2>2. QuadSucc(k) = {quads[k].label, k + 1}
    BY <1>6, RelopsAre DEF QuadSucc
  <2>3. Succ(Output, LastOf(k)) = {StartOf(quads[k].label), LastOf(k) + 1}
    BY <1>1, <1>3, <1>4, <2>1, SuccOfInstruction
  <2> QED BY <1>3, <2>2, <2>3
<1> QED BY <1>5, <1>6 DEF Jumps

\* A declaration jumps behind its function, and a return to its end.
LEMMA FunctionsGoToEnds ==
  ASSUME IInv, outcome = "done", NEW k \in 0..next - 1, quads[k].op \in {"ret", "funcstart", "funcend"}
  PROVE  Succ(Output, LastOf(k)) = {StartOf(s) : s \in QuadSucc(k)}
<1>1. /\ Laid /\ ClosedFunctions /\ next = CurrQuad /\ CurrQuad \in Nat /\ WellNested(quads, CurrQuad)
  BY QuadsAreNested DEF IInv, JumpsPatched, Laid
<1>2. Size(quads[k]) >= 1 /\ (quads[k].op = "funcend" => Size(quads[k]) = 1)
  BY DEF Size
<1>3. /\ taddress[k] \in Nat /\ taddress[k] \in 0..CurrInstruction - 1
      /\ instructions[taddress[k] + 1].op = FirstOp(quads[k])
      /\ Size(quads[k]) \in {1, 2}
      /\ Size(quads[k]) = 2 => instructions[taddress[k] + 2].op = SecondOp(quads[k])
  BY <1>2, FirstOfQuad
<1>4. \A s \in FuncStarts(quads) : /\ s \in Nat /\ End(quads, s) \in s + 1..CurrQuad - 1
                                   /\ End(quads, s) < next
                                   /\ Closed(s, End(quads, s))
  <2> TAKE s \in FuncStarts(quads)
  <2>1. s \in Nat /\ End(quads, s) \in s + 1..CurrQuad - 1
    BY <1>1, StartsAreNat, EndExists
  <2> QED BY <1>1, <2>1 DEF ClosedFunctions, Closed
<1>5. \A n \in 0..next : StartOf(n) \in Nat
  BY <1>1, StartsOfQuads
<1>6. CASE quads[k].op = "funcstart"
  <2>1. k \in FuncStarts(quads)
    BY <1>1, <1>6, StartsAreNat
  <2>2. PICK e : e = End(quads, k)
    OBVIOUS
  <2>3. instructions[taddress[k] + 1].result = Label(StartOf(e + 1)) /\ StartOf(e + 1) \in Nat
    <3>1. e + 1 \in 0..next /\ Closed(k, e)
      BY <1>1, <1>4, <2>1, <2>2
    <3> QED BY <1>5, <3>1 DEF Closed
  <2>4. LastOf(k) = taddress[k] /\ FirstOp(quads[k]) = "jump"
    BY <1>6, RelopsAre DEF LastOf, FirstOp
  <2>5. QuadSucc(k) = {e + 1}
    BY <1>6, <2>2, RelopsAre DEF QuadSucc
  <2>6. Succ(Output, LastOf(k)) = {StartOf(e + 1)}
    BY <1>1, <1>3, <2>3, <2>4, SuccOfInstruction
  <2> QED BY <2>5, <2>6
<1>7. CASE quads[k].op = "ret"
  <2>1. PICK m : m = FunctionOf(quads, k)
    OBVIOUS
  <2>2. PICK e : e = End(quads, m)
    OBVIOUS
  <2>3. m \in Around(quads, k)
    <3>1. Around(quads, k) # {} /\ k \in Nat
      BY <1>1, <1>7, QuadsAreNested DEF Laid
    <3> QED BY <1>1, <2>1, <3>1, FunctionIsInnermost
  <2>4. k \in RetsOf(m) /\ m \in FuncStarts(quads)
    BY <1>7, <2>1, <2>3 DEF RetsOf, Around
  <2>5. e \in 0..next - 1 /\ Closed(m, e)
    BY <1>1, <1>4, <2>2, <2>4
  <2>6. instructions[LastOf(k) + 1].result = Label(StartOf(e)) /\ StartOf(e) \in Nat
    BY <1>1, <1>5, <2>4, <2>5, StartsOfQuads DEF Closed
  <2>7. LastOf(k) = taddress[k] + Size(quads[k]) - 1 /\ LastOf(k) \in 0..CurrInstruction - 1
    BY <1>2, <1>7, LastOfQuad
  <2>8. instructions[LastOf(k) + 1].op = "jump"
    <3>1. CASE Size(quads[k]) = 1
      <4>1. FirstOp(quads[k]) = "jump"
        BY <1>7, <3>1, RelopsAre DEF FirstOp, Size
      <4>2. LastOf(k) + 1 = taddress[k] + 1
        BY <1>3, <2>7, <3>1
      <4> QED BY <1>3, <4>1, <4>2
    <3>2. CASE Size(quads[k]) = 2
      <4>1. SecondOp(quads[k]) = "jump"
        BY <1>7 DEF SecondOp
      <4>2. LastOf(k) + 1 = taddress[k] + 2
        BY <1>3, <2>7, <3>2
      <4> QED BY <1>3, <3>2, <4>1, <4>2
    <3> QED BY <1>3, <3>1, <3>2
  <2>9. QuadSucc(k) = {e}
    BY <1>7, <2>1, <2>2, RelopsAre DEF QuadSucc
  <2>10. Succ(Output, LastOf(k)) = {StartOf(e)}
    BY <1>1, <2>6, <2>7, <2>8, SuccOfInstruction
  <2> QED BY <2>9, <2>10
<1>8. CASE quads[k].op = "funcend"
  <2>1. FirstOp(quads[k]) = "funcexit"
    BY <1>8, RelopsAre DEF FirstOp
  <2>2. LastOf(k) = taddress[k] /\ LastOf(k) \in 0..CurrInstruction - 1
    BY <1>2, <1>3, <1>8, LastOfQuad
  <2>3. Succ(Output, LastOf(k)) = {}
    BY <1>1, <1>3, <2>1, <2>2, SuccOfInstruction
  <2>4. QuadSucc(k) = {}
    BY <1>8, RelopsAre DEF QuadSucc
  <2> QED BY <2>3, <2>4
<1> QED BY <1>6, <1>7, <1>8

\* Any other quad goes on to the next one.
LEMMA OthersGoOn ==
  ASSUME IInv, outcome = "done", NEW k \in 0..next - 1, Size(quads[k]) > 0,
         quads[k].op \notin Jumps \cup {"ret", "funcstart", "funcend"}
  PROVE  Succ(Output, LastOf(k)) = {StartOf(s) : s \in QuadSucc(k)}
<1>1. Laid /\ quads[k].op \in QuadOps
  <2>1. Laid /\ next = CurrQuad
    BY DEF IInv, JumpsPatched
  <2> QED BY <2>1, QuadsAreNested DEF Laid, QuadOK
<1>2. quads[k].op \notin {"and", "or", "not"} /\ Size(quads[k]) = 1
  BY DEF Size
<1>3. FirstOp(quads[k]) \notin JumpOps \cup {"funcexit"}
  BY <1>1, RelopsAre DEF FirstOp, Jumps, QuadOps, ArithOps, JumpOps, NumCmpOps
<1>4. /\ taddress[k] \in Nat /\ LastOf(k) = taddress[k] /\ LastOf(k) \in 0..CurrInstruction - 1
      /\ LastOf(k) + 1 = StartOf(k + 1)
      /\ instructions[taddress[k] + 1].op = FirstOp(quads[k])
  BY <1>2, FirstOfQuad, LastOfQuad
<1>5. Succ(Output, LastOf(k)) = {LastOf(k) + 1}
  BY <1>1, <1>3, <1>4, SuccOfInstruction
<1>6. QuadSucc(k) = {k + 1}
  BY DEF QuadSucc, Jumps
<1> QED BY <1>4, <1>5, <1>6

\* A function that is declared once is entered behind its declaration.
LEMMA EntriesArePlaced ==
  ASSUME IInv, outcome = "done", NEW k \in 0..next - 1, quads[k].op = "funcstart", DeclaredOnce
  PROVE  \E f \in Funcs(Output) :
           /\ consts["userfunc"][f + 1] = quads[k].result
           /\ Output.userFuncs[f].address + 1 = StartOf(k + 1)
<1>1. Laid /\ Bodies
  BY DEF IInv
<1>2. PICK f \in DOMAIN bodies : /\ consts["userfunc"][f + 1] = quads[k].result
                                 /\ bodies[f].address = taddress[k] + 1
  BY <1>1 DEF Bodies
<1>3. f \in 0..Len(consts["userfunc"]) - 1
  BY <1>1 DEF Bodies
<1>4. Output.userFuncs = [g \in 0..Len(consts["userfunc"]) - 1 |->
                            IF g \in DOMAIN bodies THEN bodies[g] ELSE [address |-> 0, localSize |-> 0]]
  BY DEF Output
<1>5. f \in Funcs(Output) /\ Output.userFuncs[f] = bodies[f]
  BY <1>3, <1>4 DEF Funcs
<1>6. StartOf(k + 1) = taddress[k] + 2 /\ taddress[k] \in Nat
  <2>1. StartOf(k + 1) = StartOf(k) + Size(quads[k]) /\ Size(quads[k]) = 2
    BY <1>1 DEF Laid, Layout, Size
  <2>2. StartOf(k) = taddress[k] /\ StartOf(k) \in Nat
    BY <1>1, StartsOfQuads
  <2> QED BY <2>1, <2>2
<1>7. Output.userFuncs[f].address + 1 = StartOf(k + 1)
  <2>1. PICK a, v : a = taddress[k] /\ v = StartOf(k + 1)
    OBVIOUS
  <2>2. Output.userFuncs[f].address = a + 1 /\ v = a + 2 /\ a \in Nat
    BY <1>2, <1>5, <1>6, <2>1
  <2> QED BY <2>1, <2>2
<1> QED BY <1>2, <1>5, <1>7

\* The finished code has the control flow of the quads: patch_incomplete_jumps
\* and pop_func_frame complete every jump, and with its own target.
THEOREM FlowIsPreserved == Spec => []FlowPreserved
<1>1. IInv => FlowPreserved
  <2> SUFFICES ASSUME IInv, outcome = "done", NEW k \in DOMAIN quads
               PROVE  /\ Size(quads[k]) > 0 => Succ(Output, LastOf(k)) = {StartOf(s) : s \in QuadSucc(k)}
                      /\ quads[k].op = "funcstart" /\ DeclaredOnce =>
                           \E f \in Funcs(Output) :
                             /\ consts["userfunc"][f + 1] = quads[k].result
                             /\ Output.userFuncs[f].address + 1 = StartOf(k + 1)
    BY DEF FlowPreserved
  <2>1. k \in 0..next - 1
    <3>1. Laid /\ next = CurrQuad
      BY DEF IInv, JumpsPatched
    <3> QED BY <3>1, QuadsAreNested DEF Laid, WellNested
  <2>2. Size(quads[k]) > 0 => Succ(Output, LastOf(k)) = {StartOf(s) : s \in QuadSucc(k)}
    BY <2>1, JumpsGoToLabels, FunctionsGoToEnds, OthersGoOn
  <2> QED BY <2>1, <2>2, EntriesArePlaced
<1> QED BY <1>1, Invariance, PTL

-----------------------------------------------------------------------------
(***************************************************************************)
(* The finished code is what the virtual machine relies on.                *)
(*                                                                         *)
(* The machine knows the function around an instruction by its address:    *)
(* between the entry of the function and its funcexit.  What follows       *)
(* strengthens the invariant with what the rows of the user functions are, *)
(* then finds the quad that an instruction is from, and shows that the     *)
(* functions around both are the same; last come the clauses of WellFormed.*)
(***************************************************************************)

(* The constant tables. *)

\* The symbols of the functions that the quads declare.
Declared == {quads[s].result : s \in FuncStarts(quads)}

\* A table holds expressions of its type, and the user functions are among D,
\* each with one row.
TablesOK(c, D) ==
  /\ \A t \in ConstTypes : \A n \in DOMAIN c[t] : c[t][n].type = t /\ IsExpr(c[t][n])
  /\ \A n \in DOMAIN c["userfunc"] : c["userfunc"][n] \in D
  /\ \A m, n \in DOMAIN c["userfunc"] : c["userfunc"][m] = c["userfunc"][n] => m = n

\* What may be put in a table.
Stored(e, D) == IsOperand(e) /\ (e.type = "userfunc" => e \in D)

\* An entry is added to the table of its type, where it was not.
LEMMA OperandKeepsTables ==
  ASSUME NEW c, ConstTables(c), NEW D, TablesOK(c, D), NEW e, Stored(e, D)
  PROVE  ConstTables(WithOperand(c, e)) /\ TablesOK(WithOperand(c, e), D)
<1>1. ConstTables(WithOperand(c, e))
  BY WithOperandGrows DEF Grown
<1>2. CASE WithOperand(c, e) = c
  BY <1>2, <1>1
<1>3. CASE WithOperand(c, e) # c
  <2>1. e.type \in ConstTypes /\ WithOperand(c, e) = [c EXCEPT ![e.type] = Interned(@, e)]
    BY <1>3 DEF WithOperand
  <2>2. PICK d : d = WithOperand(c, e)
    OBVIOUS
  <2>3. c = [t \in ConstTypes |-> c[t]] /\ IsSequence(c[e.type])
    BY <2>1 DEF ConstTables
  <2>4. /\ d[e.type] = Interned(c[e.type], e)
        /\ \A t \in ConstTypes : t # e.type => d[t] = c[t]
    BY <2>1, <2>2, <2>3
  <2>5. ~ \E n \in DOMAIN c[e.type] : c[e.type][n] = e
    BY <1>3, <2>1, <2>3 DEF Interned
  <2>6. d[e.type] = Append(c[e.type], e)
    BY <2>4, <2>5 DEF Interned
  <2>7. /\ Len(d[e.type]) = Len(c[e.type]) + 1
        /\ \A n \in 1..Len(c[e.type]) : d[e.type][n] = c[e.type][n]
        /\ d[e.type][Len(c[e.type]) + 1] = e
    BY <2>3, <2>6, AppendedTable
  <2>8. Len(c[e.type]) \in Nat /\ DOMAIN c[e.type] = 1..Len(c[e.type])
    BY <2>3, TableLength
  <2>9. DOMAIN d[e.type] = 1..Len(c[e.type]) + 1
    BY <1>1, <2>1, <2>2, <2>7, TableLength DEF ConstTables
  <2>10. IsExpr(e)
    BY <2>1 DEF Stored, IsOperand, ConstTypes, NoExpr, Labels
  <2>11. ASSUME NEW n \in DOMAIN d[e.type]
         PROVE  d[e.type][n].type = e.type /\ IsExpr(d[e.type][n])
    <3>1. CASE n \in 1..Len(c[e.type])
      BY <2>1, <2>7, <2>8, <3>1 DEF TablesOK
    <3>2. CASE n = Len(c[e.type]) + 1
      BY <2>7, <2>10, <3>2
    <3> QED BY <2>8, <2>9, <3>1, <3>2
  <2>12. CASE e.type = "userfunc"
    <3>1. e \in D
      BY <2>12 DEF Stored
    <3>2. \A n \in DOMAIN d["userfunc"] : d["userfunc"][n] \in D
      BY <2>7, <2>8, <2>9, <2>12, <3>1 DEF TablesOK
    <3>3. ASSUME NEW m \in DOMAIN d["userfunc"], NEW n \in DOMAIN d["userfunc"],
                 d["userfunc"][m] = d["userfunc"][n]
          PROVE  m = n
      <4>1. \A x \in 1..Len(c["userfunc"]) : d["userfunc"][x] = c["userfunc"][x] /\ c["userfunc"][x] # e
        BY <2>5, <2>7, <2>8, <2>12
      <4>2. d["userfunc"][Len(c["userfunc"]) + 1] = e
        BY <2>7, <2>12
      <4>3. \A x \in DOMAIN d["userfunc"] : x \in 1..Len(c["userfunc"]) \/ x = Len(c["userfunc"]) + 1
        BY <2>8, <2>9, <2>12
      <4>4. m \in 1..Len(c["userfunc"]) /\ n \in 1..Len(c["userfunc"]) => m = n
        BY <2>8, <2>12, <3>3, <4>1 DEF TablesOK
      <4> QED BY <3>3, <4>1, <4>2, <4>3, <4>4
    <3> QED BY <1>1, <2>2, <2>4, <2>11, <3>2, <3>3 DEF TablesOK
  <2>13. CASE e.type # "userfunc"
    <3>1. d["userfunc"] = c["userfunc"]
      BY <2>4, <2>13 DEF ConstTypes
    <3> QED BY <1>1, <2>2, <2>4, <2>11, <3>1 DEF TablesOK
  <2> QED BY <2>12, <2>13
<1> QED BY <1>2, <1>3

LEMMA OperandsKeepTables ==
  ASSUME ConstTables(consts), NEW D, TablesOK(consts, D),
         NEW e1, NEW e2, NEW e3, Stored(e1, D), Stored(e2, D), Stored(e3, D)
  PROVE  TablesOK(WithOperands(<<e1, e2, e3>>), D)
<1>1. PICK c1 : c1 = WithOperand(consts, e1)
  OBVIOUS
<1>2. ConstTables(c1) /\ TablesOK(c1, D)
  BY <1>1, OperandKeepsTables
<1>3. PICK c2 : c2 = WithOperand(c1, e2)
  OBVIOUS
<1>4. ConstTables(c2) /\ TablesOK(c2, D)
  BY <1>2, <1>3, OperandKeepsTables
<1>5. TablesOK(WithOperand(c2, e3), D)
  BY <1>4, OperandKeepsTables
<1> QED BY <1>1, <1>3, <1>5 DEF WithOperands

-----------------------------------------------------------------------------
(* What a step adds to the tables. *)

TableStep ==
  \/ consts' = consts
  \/ \E e1, e2, e3 : /\ consts' = WithOperands(<<e1, e2, e3>>)
                     /\ Stored(e1, Declared) /\ Stored(e2, Declared) /\ Stored(e3, Declared)

\* A step translates a quad, or none.
QuadStep ==
  /\ quads' = quads
  /\ \/ next' = next /\ bodies' = bodies
     \/ next' = next + 1 /\ next < CurrQuad

\* What is not a user function may be put in a table.
LEMMA OthersAreStored ==
  ASSUME NEW D
  PROVE  Stored(NoExpr, D) /\ Stored(Label(0), D) /\ Stored(Number(-1), D)
<1>1. Stored(NoExpr, D)
  BY LabelIsOperand DEF Stored, NoExpr
<1>2. Stored(Label(0), D)
  BY LabelIsOperand DEF Stored, Label
<1>3. Stored(Number(-1), D)
  BY NumbersAreExprs DEF Stored, Number, IsOperand
<1> QED BY <1>1, <1>2, <1>3

\* The operands of each quad, once for all.
LEMMA CarriedOf ==
  ASSUME NEW q
  PROVE  /\ q.op = "assign" => Carried(q) = [result |-> q.result, arg1 |-> q.arg1]
         /\ q.op \in ArithOps \cup {"tablegetelem", "tablesetelem"} =>
              Carried(q) = [result |-> q.result, arg1 |-> q.arg1, arg2 |-> q.arg2]
         /\ q.op = "uminus" => Carried(q) = [result |-> q.result, arg1 |-> q.arg1, arg2 |-> Number(-1)]
         /\ q.op \in DOMAIN Relops => Carried(q) = [arg1 |-> q.arg1, arg2 |-> q.arg2]
         /\ q.op \in {"call", "param"} => Carried(q) = [result |-> q.arg1]
         /\ q.op \in {"getretval", "tablecreate"} => Carried(q) = [result |-> q.result]
         /\ q.op = "ret" /\ q.result # NoExpr => Carried(q) = [arg1 |-> q.result]
<1>1. q.op = "assign" => Carried(q) = [result |-> q.result, arg1 |-> q.arg1]
  BY RelopsAre DEF Carried, ArithOps
<1>2. q.op \in ArithOps \cup {"tablegetelem", "tablesetelem"} =>
        Carried(q) = [result |-> q.result, arg1 |-> q.arg1, arg2 |-> q.arg2]
  BY RelopsAre DEF Carried, ArithOps
<1>3. q.op = "uminus" => Carried(q) = [result |-> q.result, arg1 |-> q.arg1, arg2 |-> Number(-1)]
  BY RelopsAre DEF Carried, ArithOps
<1>4. q.op \in DOMAIN Relops => Carried(q) = [arg1 |-> q.arg1, arg2 |-> q.arg2]
  BY RelopsAre DEF Carried, ArithOps
<1>5. q.op \in {"call", "param"} => Carried(q) = [result |-> q.arg1]
  BY RelopsAre DEF Carried, ArithOps
<1>6. q.op \in {"getretval", "tablecreate"} => Carried(q) = [result |-> q.result]
  BY RelopsAre DEF Carried, ArithOps
<1>7. q.op = "ret" /\ q.result # NoExpr => Carried(q) = [arg1 |-> q.result]
  BY RelopsAre DEF Carried, ArithOps
<1> QED BY <1>1, <1>2, <1>3, <1>4, <1>5, <1>6, <1>7

\* What a quad names may be put in a table, if it is of a program.
LEMMA CarriedAreStored ==
  ASSUME Laid, IsProgram(quads), next < CurrQuad, NEW x \in DOMAIN Carried(Quad)
  PROVE  Stored(Carried(Quad)[x], Declared)
<1>1. IsExpr(Carried(Quad)[x])
  BY NextQuad
<1>2. next \in DOMAIN quads
  BY NextQuad, QuadsAreNested DEF Laid, WellNested
<1>3. Carried(Quad)[x].type = "userfunc" => \E s \in FuncStarts(quads) : quads[s].result = Carried(Quad)[x]
  BY <1>2 DEF IsProgram, Quad
<1> QED BY <1>1, <1>3 DEF Stored, IsOperand, Declared

LEMMA OneAddsOperands ==
  ASSUME NEW op, NEW result, NEW arg1, NEW arg2, EmitOne(op, result, arg1, arg2), next < CurrQuad,
         Stored(result, Declared), Stored(arg1, Declared), Stored(arg2, Declared)
  PROVE  TableStep /\ QuadStep
<1>1. consts' = WithOperands(<<result, arg1, arg2>>) /\ next' = next + 1 /\ quads' = quads
  BY DEF EmitOne, Emit
<1> QED BY <1>1 DEF TableStep, QuadStep

\* Each instruction takes its operands from the quad.
LEMMA ActionsAddOperands ==
  ASSUME Laid, IsProgram(quads),
         GenerateAssign \/ GenerateArith \/ GenerateUminus \/ GenerateRelop \/ GenerateCall
           \/ GenerateParam \/ GenerateGetretval \/ GenerateTablecreate \/ GenerateTablegetelem
           \/ GenerateTablesetelem
  PROVE  TableStep /\ QuadStep
<1>1. \A x \in DOMAIN Carried(Quad) : next < CurrQuad => Stored(Carried(Quad)[x], Declared)
  BY CarriedAreStored
<1>2. Stored(NoExpr, Declared) /\ Stored(Label(0), Declared) /\ Stored(Number(-1), Declared)
  BY OthersAreStored
<1>3. CASE GenerateAssign
  <2>1. next < CurrQuad /\ Quad.op = "assign" /\ EmitOne("assign", Quad.result, Quad.arg1, NoExpr)
    BY <1>3 DEF GenerateAssign, At
  <2>2. Carried(Quad) = [result |-> Quad.result, arg1 |-> Quad.arg1]
    BY <2>1, CarriedOf
  <2>3. Stored(Quad.result, Declared) /\ Stored(Quad.arg1, Declared)
    BY <1>1, <2>1, <2>2
  <2> QED BY <1>2, <2>1, <2>3, OneAddsOperands
<1>4. CASE GenerateArith
  <2>1. next < CurrQuad /\ Quad.op \in ArithOps /\ EmitOne(Quad.op, Quad.result, Quad.arg1, Quad.arg2)
    BY <1>4 DEF GenerateArith, At
  <2>2. Carried(Quad) = [result |-> Quad.result, arg1 |-> Quad.arg1, arg2 |-> Quad.arg2]
    BY <2>1, CarriedOf
  <2>3. Stored(Quad.result, Declared) /\ Stored(Quad.arg1, Declared) /\ Stored(Quad.arg2, Declared)
    BY <1>1, <2>1, <2>2
  <2> QED BY <1>2, <2>1, <2>3, OneAddsOperands
<1>5. CASE GenerateUminus
  <2>1. next < CurrQuad /\ Quad.op = "uminus" /\ EmitOne("mul", Quad.result, Quad.arg1, Number(-1))
    BY <1>5 DEF GenerateUminus, At
  <2>2. Carried(Quad) = [result |-> Quad.result, arg1 |-> Quad.arg1, arg2 |-> Number(-1)]
    BY <2>1, CarriedOf
  <2>3. Stored(Quad.result, Declared) /\ Stored(Quad.arg1, Declared)
    BY <1>1, <2>1, <2>2
  <2> QED BY <1>2, <2>1, <2>3, OneAddsOperands
<1>6. CASE GenerateRelop
  <2>1. /\ next < CurrQuad /\ Quad.op \in DOMAIN Relops
        /\ EmitOne(Relops[Quad.op], Label(0), Quad.arg1, Quad.arg2)
    BY <1>6 DEF GenerateRelop, At
  <2>2. Carried(Quad) = [arg1 |-> Quad.arg1, arg2 |-> Quad.arg2]
    BY <2>1, CarriedOf
  <2>3. Stored(Quad.arg1, Declared) /\ Stored(Quad.arg2, Declared)
    BY <1>1, <2>1, <2>2
  <2> QED BY <1>2, <2>1, <2>3, OneAddsOperands
<1>7. CASE GenerateCall \/ GenerateParam
  <2>1. /\ next < CurrQuad /\ Quad.op \in {"call", "param"}
        /\ \E op : EmitOne(op, Quad.arg1, NoExpr, NoExpr)
    BY <1>7 DEF GenerateCall, GenerateParam, At
  <2>2. Carried(Quad) = [result |-> Quad.arg1]
    BY <2>1, CarriedOf
  <2>3. Stored(Quad.arg1, Declared)
    BY <1>1, <2>1, <2>2
  <2> QED BY <1>2, <2>1, <2>3, OneAddsOperands
<1>8. CASE GenerateGetretval \/ GenerateTablecreate
  <2>1. /\ next < CurrQuad /\ Quad.op \in {"getretval", "tablecreate"}
        /\ \E op : EmitOne(op, Quad.result, NoExpr, NoExpr)
    BY <1>8 DEF GenerateGetretval, GenerateTablecreate, At
  <2>2. Carried(Quad) = [result |-> Quad.result]
    BY <2>1, CarriedOf
  <2>3. Stored(Quad.result, Declared)
    BY <1>1, <2>1, <2>2
  <2> QED BY <1>2, <2>1, <2>3, OneAddsOperands
<1>9. CASE GenerateTablegetelem \/ GenerateTablesetelem
  <2>1. /\ next < CurrQuad /\ Quad.op \in {"tablegetelem", "tablesetelem"}
        /\ \E op : EmitOne(op, Quad.result, Quad.arg1, Quad.arg2)
    BY <1>9 DEF GenerateTablegetelem, GenerateTablesetelem, At
  <2>2. Carried(Quad) = [result |-> Quad.result, arg1 |-> Quad.arg1, arg2 |-> Quad.arg2]
    BY <2>1, CarriedOf
  <2>3. Stored(Quad.result, Declared) /\ Stored(Quad.arg1, Declared) /\ Stored(Quad.arg2, Declared)
    BY <1>1, <2>1, <2>2
  <2> QED BY <1>2, <2>1, <2>3, OneAddsOperands
<1> QED BY <1>3, <1>4, <1>5, <1>6, <1>7, <1>8, <1>9

LEMMA StepsAddOperands ==
  ASSUME Laid, IsProgram(quads), [Next]_vars
  PROVE  TableStep /\ QuadStep
<1>1. CASE GenerateNothing \/ GenerateJump
  <2>1. \E instrs : Emit(consts, instrs) /\ next < CurrQuad
    BY <1>1 DEF GenerateNothing, GenerateJump, At
  <2> QED BY <2>1 DEF Emit, TableStep, QuadStep
<1>2. CASE GenerateRet
  <2>1. /\ next < CurrQuad /\ Quad.op = "ret"
        /\ \E instrs : Emit(WithOperands(<<Quad.result, NoExpr, NoExpr>>), instrs)
    BY <1>2 DEF GenerateRet, At
  <2>2. Quad.result # NoExpr => Carried(Quad) = [arg1 |-> Quad.result]
    BY <2>1, CarriedOf
  <2>3. Stored(Quad.result, Declared)
    BY <2>1, <2>2, CarriedAreStored, OthersAreStored
  <2> QED BY <2>1, <2>3, OthersAreStored DEF Emit, TableStep, QuadStep
<1>3. CASE GenerateFuncstart
  <2>1. /\ next < CurrQuad /\ Quad.op = "funcstart"
        /\ \E instrs : Emit(WithOperands(<<Quad.result, NoExpr, NoExpr>>), instrs)
    BY <1>3 DEF GenerateFuncstart, At
  <2>2. next \in FuncStarts(quads)
    BY <2>1, NextQuad, QuadsAreNested DEF Laid, WellNested, FuncStarts, Quad
  <2>3. IsFunc(Quad.result)
    BY <2>1, NextQuad DEF QuadOK
  <2>4. Stored(Quad.result, Declared)
    BY <2>2, <2>3 DEF Stored, Declared, IsOperand, IsExpr, Quad
  <2> QED BY <2>1, <2>4, OthersAreStored DEF Emit, TableStep, QuadStep
<1>4. CASE GenerateFuncend
  BY <1>4 DEF GenerateFuncend, At, TableStep, QuadStep
<1>5. CASE PatchIncompleteJumps \/ Overrun \/ Abort \/ Stopped \/ UNCHANGED vars
  <2>1. quads' = quads /\ next' = next /\ consts' = consts /\ bodies' = bodies
    BY <1>5 DEF PatchIncompleteJumps, Overrun, Abort, Stopped, Stop, vars
  <2> QED BY <2>1 DEF TableStep, QuadStep
<1> QED BY <1>1, <1>2, <1>3, <1>4, <1>5, ActionsAddOperands DEF Next

-----------------------------------------------------------------------------
(* The rows of the user functions. *)

\* The rows of functions that have ended hold the number of their locals.
Sized ==
  \A s \in FuncStarts(quads) : End(quads, s) < next =>
    \A f \in DOMAIN bodies :
      consts["userfunc"][f + 1] = quads[s].result =>
        bodies[f].localSize = quads[s].result.sym.total_locals

OInv ==
  /\ IInv
  /\ IsProgram(quads) => TablesOK(consts, Declared) /\ Sized

LEMMA TablesStayOK ==
  ASSUME Laid, TablesOK(consts, Declared), TableStep, quads' = quads
  PROVE  TablesOK(consts', Declared)
<1>1. ConstTables(consts)
  BY DEF Laid
<1> QED BY <1>1, OperandsKeepTables DEF TableStep

\* No function ends: the rows of those that have are as they were, and a new
\* row is that of another function.
LEMMA SizedStays ==
  ASSUME OInv, IInv', IsProgram(quads), TableStep, QuadStep, TablesOK(consts', Declared),
         next' = next + 1 => Quad.op # "funcend",
         DOMAIN bodies \subseteq DOMAIN bodies',
         \A f \in DOMAIN bodies : bodies'[f].localSize = bodies[f].localSize
  PROVE  Sized'
<1>1. /\ Laid /\ Bodies /\ Bodies' /\ Sized /\ ConstTables(consts)
  BY DEF OInv, IInv, Laid
<1>2. Grown(consts, consts')
  BY <1>1, GrownIsReflexive, OperandsAreHeld DEF TableStep
<1>3. /\ quads' = quads /\ next \in Nat /\ CurrQuad \in Nat /\ WellNested(quads, CurrQuad)
      /\ next' = next \/ (next' = next + 1 /\ next < CurrQuad)
  BY <1>1, QuadsAreNested DEF QuadStep, Laid
<1> SUFFICES ASSUME NEW s \in FuncStarts(quads), End(quads, s) < next',
                    NEW f \in DOMAIN bodies', consts'["userfunc"][f + 1] = quads[s].result
             PROVE  bodies'[f].localSize = quads[s].result.sym.total_locals
  BY <1>3 DEF Sized
<1>4. End(quads, s) \in 0..CurrQuad - 1 /\ quads[End(quads, s)].op = "funcend" /\ s < End(quads, s) /\ s \in Nat
  BY <1>3, EndExists, StartsAreNat
<1>5. End(quads, s) < next /\ s \in 0..next - 1
  <2>1. CASE next' = next
    BY <1>3, <1>4, <2>1
  <2>2. CASE next' = next + 1
    BY <1>3, <1>4, <2>2 DEF Quad
  <2> QED BY <1>3, <2>1, <2>2
<1>6. PICK g \in DOMAIN bodies : consts["userfunc"][g + 1] = quads[s].result
  BY <1>1, <1>5 DEF Bodies, FuncStarts
<1>7. IsSequence(consts["userfunc"]) /\ IsSequence(consts'["userfunc"])
  BY <1>1, <1>2 DEF Grown, ConstTables, ConstTypes
<1>8. /\ Len(consts["userfunc"]) \in Nat /\ Len(consts'["userfunc"]) \in Nat
      /\ DOMAIN consts'["userfunc"] = 1..Len(consts'["userfunc"])
      /\ Len(consts["userfunc"]) <= Len(consts'["userfunc"])
  BY <1>2, <1>7, TableLength DEF Grown, ConstTypes
<1>9. g \in 0..Len(consts["userfunc"]) - 1 /\ f \in 0..Len(consts'["userfunc"]) - 1
  BY <1>1, <1>6 DEF Bodies
<1>10. consts'["userfunc"][g + 1] = quads[s].result
  <2>1. \A n \in 1..Len(consts["userfunc"]) : consts'["userfunc"][n] = consts["userfunc"][n]
    BY <1>2 DEF Grown, ConstTypes
  <2>2. g + 1 \in 1..Len(consts["userfunc"])
    BY <1>8, <1>9
  <2> QED BY <1>6, <2>1, <2>2
<1>11. g + 1 \in DOMAIN consts'["userfunc"] /\ f + 1 \in DOMAIN consts'["userfunc"]
  BY <1>8, <1>9
<1>12. f + 1 = g + 1
  BY <1>10, <1>11 DEF TablesOK
<1>13. f = g
  BY <1>9, <1>12
<1>14. bodies[g].localSize = quads[s].result.sym.total_locals
  BY <1>1, <1>5, <1>6 DEF Sized
<1> QED BY <1>6, <1>13, <1>14

\* A function ends: its row gets the number of its locals.
LEMMA SizedWithEnd ==
  ASSUME OInv, IsProgram(quads), GenerateFuncend
  PROVE  Sized'
<1>1. /\ Laid /\ Bodies /\ Sized /\ FramesTyped /\ FramesAround /\ TablesOK(consts, Declared)
  BY DEF OInv, IInv
<1>2. /\ Quad.op = "funcend" /\ quads' = quads /\ next' = next + 1 /\ consts' = consts
      /\ bodies' = [bodies EXCEPT ![funcStack[Innermost].ufidx].localSize = Quad.result.sym.total_locals]
  BY DEF GenerateFuncend, At
<1>3. PICK m : m = FunctionOf(quads, next)
  OBVIOUS
<1>4. LayoutStep
  BY <1>1, EndEmitted
<1>5. /\ m \in FuncStarts(quads) /\ End(quads, m) = next
      /\ \A s \in FuncStarts(quads) : End(quads, s) = next => s = m
      /\ Innermost \in 1..Len(funcStack)
      /\ consts["userfunc"][funcStack[Innermost].ufidx + 1] = quads[m].result
  BY <1>1, <1>2, <1>3, <1>4, InnermostFrame
<1>6. PICK u : u = funcStack[Innermost].ufidx
  OBVIOUS
<1>7. u \in DOMAIN bodies /\ consts["userfunc"][u + 1] = quads[m].result
  BY <1>1, <1>5, <1>6 DEF FramesTyped
<1>8. Quad.result = quads[m].result
  <2>1. m \in DOMAIN quads /\ quads[m].op = "funcstart"
    BY <1>5 DEF FuncStarts
  <2> QED BY <1>5, <2>1 DEF IsProgram, Quad
<1>9. \A f \in DOMAIN bodies :
        bodies'[f].localSize = IF f = u THEN quads[m].result.sym.total_locals ELSE bodies[f].localSize
  <2>1. bodies \in [DOMAIN bodies -> [address : Nat, localSize : Nat]]
    BY <1>1 DEF Bodies
  <2>2. bodies' = [bodies EXCEPT ![u].localSize = quads[m].result.sym.total_locals]
    BY <1>2, <1>6, <1>8
  <2> QED BY <2>1, <2>2
<1>10. DOMAIN bodies' = DOMAIN bodies
  BY <1>2
<1> SUFFICES ASSUME NEW s \in FuncStarts(quads), End(quads, s) < next + 1,
                    NEW f \in DOMAIN bodies, consts["userfunc"][f + 1] = quads[s].result
             PROVE  bodies'[f].localSize = quads[s].result.sym.total_locals
  BY <1>2, <1>10 DEF Sized
<1>11. CurrQuad \in Nat /\ WellNested(quads, CurrQuad) /\ next \in Nat
  BY <1>1, QuadsAreNested DEF Laid
<1>12. End(quads, s) \in Int
  BY <1>11, EndExists
<1>13. CASE f = u
  BY <1>7, <1>9, <1>13
<1>14. CASE f # u
  <2>1. f + 1 \in DOMAIN consts["userfunc"] /\ u + 1 \in DOMAIN consts["userfunc"] /\ f \in Nat /\ u \in Nat
    <3>1. IsSequence(consts["userfunc"])
      BY <1>1 DEF Laid, ConstTables, ConstTypes
    <3>2. Len(consts["userfunc"]) \in Nat /\ DOMAIN consts["userfunc"] = 1..Len(consts["userfunc"])
      BY <3>1, TableLength
    <3> QED BY SMTT(30), <1>1, <1>7, <3>2 DEF Bodies
  <2>2. s # m
    <3>1. SUFFICES ASSUME s = m
                   PROVE  FALSE
      OBVIOUS
    <3>2. consts["userfunc"][f + 1] = consts["userfunc"][u + 1]
      BY <1>7, <3>1
    <3>3. f + 1 = u + 1
      BY <1>1, <2>1, <3>2 DEF TablesOK
    <3> QED BY <1>14, <2>1, <3>3
  <2>3. End(quads, s) < next
    BY <1>5, <1>11, <1>12, <2>2
  <2>4. bodies[f].localSize = quads[s].result.sym.total_locals
    BY <1>1, <2>3 DEF Sized
  <2> QED BY <1>9, <1>14, <2>4
<1> QED BY <1>13, <1>14

LEMMA OInvStep ==
  ASSUME OInv, [Next]_vars
  PROVE  OInv'
<1>1. IInv /\ IInv'
  BY NextKeeps DEF OInv
<1> SUFFICES ASSUME IsProgram(quads')
             PROVE  TablesOK(consts, Declared)' /\ Sized'
  BY <1>1 DEF OInv
<1>2. Laid
  BY <1>1 DEF IInv
<1>3. quads' = quads
  BY DEF Next, vars, GenerateAssign, GenerateArith, GenerateUminus, GenerateNothing, GenerateRelop,
         GenerateJump, GenerateCall, GenerateParam, GenerateGetretval, GenerateTablecreate,
         GenerateTablegetelem, GenerateTablesetelem, GenerateRet, GenerateFuncstart, GenerateFuncend,
         PatchIncompleteJumps, Overrun, Abort, Stopped, Stop, EmitOne, Emit
<1>4. IsProgram(quads) /\ TablesOK(consts, Declared) /\ Sized
  BY <1>3 DEF OInv
<1>5. TableStep /\ QuadStep
  BY <1>2, <1>4, StepsAddOperands
<1>6. TablesOK(consts', Declared)
  BY <1>2, <1>3, <1>4, <1>5, TablesStayOK
<1>7. Declared' = Declared
  BY <1>3 DEF Declared
<1>8. Sized'
  <2>1. CASE GenerateFuncend
    BY <1>4, <2>1, SizedWithEnd
  <2>2. CASE GenerateFuncstart
    <3>1. PICK f \in Nat : RowStep(f)
      BY <1>2, <2>2, FunctionEmitted
    <3>2. Quad.op # "funcend"
      BY <2>2 DEF GenerateFuncstart, At
    <3>3. /\ DOMAIN bodies \subseteq DOMAIN bodies'
          /\ \A g \in DOMAIN bodies : bodies'[g].localSize = bodies[g].localSize
      BY <3>1 DEF RowStep
    <3> QED BY <1>1, <1>4, <1>5, <1>6, <3>2, <3>3, SizedStays
  <2>3. CASE ~ GenerateFuncend /\ ~ GenerateFuncstart
    <3>1. bodies' = bodies
      BY <2>3 DEF Next, vars, GenerateAssign, GenerateArith, GenerateUminus, GenerateNothing, GenerateRelop,
         GenerateJump, GenerateCall, GenerateParam, GenerateGetretval, GenerateTablecreate,
         GenerateTablegetelem, GenerateTablesetelem, GenerateRet,
         PatchIncompleteJumps, Overrun, Abort, Stopped, Stop
    <3>2. next' = next + 1 => Quad.op # "funcend"
      <4>1. next \in Nat
        BY <1>2 DEF Laid
      <4>2. CASE PatchIncompleteJumps \/ Overrun \/ Abort \/ Stopped \/ UNCHANGED vars
        BY <4>1, <4>2 DEF PatchIncompleteJumps, Overrun, Abort, Stopped, Stop, vars
      <4>3. CASE ~ (PatchIncompleteJumps \/ Overrun \/ Abort \/ Stopped \/ UNCHANGED vars)
        BY <2>3, <4>3, RelopsAre DEF Next, GenerateAssign, GenerateArith, GenerateUminus, GenerateNothing,
           GenerateRelop, GenerateJump, GenerateCall, GenerateParam, GenerateGetretval, GenerateTablecreate,
           GenerateTablegetelem, GenerateTablesetelem, GenerateRet, At, ArithOps
      <4> QED BY <4>2, <4>3
    <3> QED BY <1>1, <1>4, <1>5, <1>6, <3>1, <3>2, SizedStays
  <2> QED BY <2>1, <2>2, <2>3
<1> QED BY <1>6, <1>7, <1>8

\* The strengthened invariant, for any quads.
THEOREM OutputInvariance == Spec => []OInv
<1>1. Init => OInv
  <2> SUFFICES ASSUME Init
               PROVE  OInv
    OBVIOUS
  <2>1. IInv
    BY InitHolds
  <2>2. consts = [t \in ConstTypes |-> <<>>] /\ DOMAIN bodies = {}
    BY DEF Init
  <2>3. TablesOK(consts, Declared)
    BY <2>2 DEF TablesOK, ConstTypes
  <2>4. Sized
    BY <2>2 DEF Sized
  <2> QED BY <2>1, <2>3, <2>4 DEF OInv
<1>2. OInv /\ [Next]_vars => OInv'
  BY OInvStep
<1> QED BY <1>1, <1>2, PTL DEF Spec
-----------------------------------------------------------------------------
(* Instructions and quads. *)

\* Code generation has ended, for quads that OutputWellFormed is about.
Finished == OInv /\ outcome = "done" /\ IsProgram(quads) /\ DeclaredOnce

LEMMA AllTranslated ==
  ASSUME Finished
  PROVE  /\ Laid /\ Bodies /\ Sized /\ TablesOK(consts, Declared) /\ ConstTables(consts)
         /\ next = CurrQuad /\ CurrQuad \in Nat /\ WellNested(quads, CurrQuad)
         /\ DOMAIN quads = 0..next - 1
<1>1. /\ Laid /\ Bodies /\ Sized /\ TablesOK(consts, Declared) /\ next = CurrQuad
  BY DEF Finished, OInv, IInv, JumpsPatched
<1>2. CurrQuad \in Nat /\ WellNested(quads, CurrQuad)
  BY <1>1, QuadsAreNested DEF Laid
<1> QED BY <1>1, <1>2 DEF WellNested, Laid

\* Each instruction is one of a quad's.
LEMMA QuadOfInstruction ==
  ASSUME Laid, NEW i \in 0..CurrInstruction - 1
  PROVE  \E k \in 0..next - 1 : \E x \in 0..Size(quads[k]) - 1 : i = taddress[k] + x
<1>1. /\ next \in Nat /\ \A k \in 0..next : StartOf(k) \in Nat
      /\ StartOf(next) = CurrInstruction /\ \A k \in 0..next - 1 : StartOf(k) = taddress[k]
      /\ CurrInstruction \in Nat
  BY StartsOfQuads, LengthOfCode
<1>2. /\ StartOf(0) = 0
      /\ \A k \in 0..next - 1 : StartOf(k + 1) = StartOf(k) + Size(quads[k])
  BY DEF Laid, Layout
<1> DEFINE S == {k \in 0..next : StartOf(k) <= i}
<1>3. S \subseteq 0..next /\ 0 \in S
  BY <1>1, <1>2
<1>4. \A k \in 0..next : k \in S <=> StartOf(k) <= i
  OBVIOUS
<1> HIDE DEF S
<1>5. PICK k \in S : \A y \in S : y <= k
  BY <1>1, <1>3, GreatestOfSet
<1>6. k \in 0..next /\ StartOf(k) <= i
  BY <1>3, <1>4, <1>5
<1>7. k \in 0..next - 1
  BY <1>1, <1>6
<1>8. k + 1 \notin S /\ k + 1 \in 0..next
  BY <1>1, <1>5, <1>7
<1>9. PICK v, w : v = StartOf(k + 1) /\ w = StartOf(k)
  OBVIOUS
<1>10. v \in Nat /\ w \in Nat /\ v = w + Size(quads[k]) /\ ~ (v <= i) /\ w <= i /\ w = taddress[k]
  BY <1>1, <1>2, <1>4, <1>6, <1>7, <1>8, <1>9
<1>11. Size(quads[k]) \in 0..2
  BY SizeIsSmall
<1>12. i - w \in 0..Size(quads[k]) - 1 /\ i = w + (i - w)
  BY <1>10, <1>11
<1> QED BY <1>7, <1>10, <1>12

\* Later quads have later instructions.
LEMMA StartsGrow ==
  ASSUME Laid, NEW j \in 0..next, NEW k \in 0..next
  PROVE  /\ StartOf(j) \in Nat /\ StartOf(k) \in Nat
         /\ j < k => StartOf(j) + Size(quads[j]) <= StartOf(k)
         /\ j <= k => StartOf(j) <= StartOf(k)
         /\ Size(quads[j]) \in 0..2
<1>1. StartOf(j) \in Nat /\ StartOf(k) \in Nat /\ next \in Nat
  BY StartsOfQuads
<1>2. j < k => StartOf(j) + Size(quads[j]) <= StartOf(k)
  BY DEF Laid, Layout
<1>3. Size(quads[j]) \in 0..2
  BY SizeIsSmall
<1> QED BY <1>1, <1>2, <1>3

\* An instruction of the output.
LEMMA CodeOfOutput ==
  ASSUME NEW i \in 0..CurrInstruction - 1
  PROVE  /\ Output.code[i].op = instructions[i + 1].op
         /\ Output.code[i].result = Loaded(instructions[i + 1].result)
         /\ Output.code[i].arg1 = Loaded(instructions[i + 1].arg1)
         /\ Output.code[i].arg2 = Loaded(instructions[i + 1].arg2)
         /\ Output.code[i] = Instruction(Output.code[i].op, Output.code[i].result,
                                         Output.code[i].arg1, Output.code[i].arg2)
<1>1. PICK n : n = instructions[i + 1]
  OBVIOUS
<1>2. Output.code[i] = Instruction(n.op, Loaded(n.result), Loaded(n.arg1), Loaded(n.arg2))
  BY <1>1 DEF Output
<1> QED BY <1>1, <1>2 DEF Instruction

LEMMA OutputIs ==
  /\ Output.codeSize = CurrInstruction
  /\ Output.totalGlobals = TotalGlobals
  /\ Code(Output) = 0..CurrInstruction - 1
  /\ Funcs(Output) = 0..Len(consts["userfunc"]) - 1
  /\ DOMAIN Output.code = 0..CurrInstruction - 1
  /\ Output.code = [i \in 0..CurrInstruction - 1 |-> Output.code[i]]
  /\ \A f \in DOMAIN bodies : f \in Funcs(Output) => Output.userFuncs[f] = bodies[f]
BY DEF Output, Code, Funcs

-----------------------------------------------------------------------------
(* The rows of the functions. *)

\* The row of the function that begins at s.
Row(s) == CHOOSE f \in DOMAIN bodies : consts["userfunc"][f + 1] = quads[s].result

LEMMA RowsOfFunctions ==
  ASSUME Finished, NEW s \in FuncStarts(quads)
  PROVE  /\ Row(s) \in Funcs(Output) /\ Row(s) \in Nat
         /\ consts["userfunc"][Row(s) + 1] = quads[s].result
         /\ Output.userFuncs[Row(s)] = bodies[Row(s)]
         /\ bodies[Row(s)].address = taddress[s] + 1
         /\ bodies[Row(s)].localSize = quads[s].result.sym.total_locals
         /\ bodies[Row(s)].localSize \in Nat
         /\ \A f \in Funcs(Output) : consts["userfunc"][f + 1] = quads[s].result => f = Row(s)
<1>1. /\ Laid /\ Bodies /\ Sized /\ TablesOK(consts, Declared) /\ ConstTables(consts)
      /\ next = CurrQuad /\ CurrQuad \in Nat /\ WellNested(quads, CurrQuad) /\ DOMAIN quads = 0..next - 1
      /\ DeclaredOnce
  BY AllTranslated DEF Finished
<1>2. s \in 0..next - 1 /\ quads[s].op = "funcstart"
  BY <1>1 DEF FuncStarts
<1>3. PICK g \in DOMAIN bodies : consts["userfunc"][g + 1] = quads[s].result /\ bodies[g].address = taddress[s] + 1
  BY <1>1, <1>2 DEF Bodies
<1>4. Row(s) \in DOMAIN bodies /\ consts["userfunc"][Row(s) + 1] = quads[s].result
  BY <1>3 DEF Row
<1>5. DOMAIN consts["userfunc"] = 1..Len(consts["userfunc"]) /\ Len(consts["userfunc"]) \in Nat
  <2>1. IsSequence(consts["userfunc"])
    BY <1>1 DEF ConstTables, ConstTypes
  <2> QED BY <2>1, TableLength
<1>6. DOMAIN bodies \subseteq 0..Len(consts["userfunc"]) - 1
  BY <1>1 DEF Bodies
<1>7. \A f \in 0..Len(consts["userfunc"]) - 1 : consts["userfunc"][f + 1] = quads[s].result => f = Row(s)
  <2> SUFFICES ASSUME NEW f \in 0..Len(consts["userfunc"]) - 1, consts["userfunc"][f + 1] = quads[s].result
               PROVE  f = Row(s)
    OBVIOUS
  <2>1. PICK r : r = Row(s)
    OBVIOUS
  <2>2. r \in 0..Len(consts["userfunc"]) - 1
    BY <1>4, <1>6, <2>1
  <2>3. f + 1 \in DOMAIN consts["userfunc"] /\ r + 1 \in DOMAIN consts["userfunc"]
    BY <1>5, <2>2
  <2>4. f + 1 = r + 1
    BY <1>1, <1>4, <2>1, <2>3 DEF TablesOK
  <2> QED BY <1>5, <2>1, <2>2, <2>4
<1>8. g = Row(s)
  BY <1>3, <1>6, <1>7
<1>9. End(quads, s) < next
  BY <1>1, EndExists
<1>10. bodies[Row(s)].localSize = quads[s].result.sym.total_locals
  BY <1>1, <1>4, <1>9 DEF Sized
<1>11. bodies[Row(s)].localSize \in Nat
  BY <1>1, <1>4 DEF Bodies
<1> QED BY <1>3, <1>4, <1>5, <1>6, <1>7, <1>8, <1>10, <1>11, OutputIs

LEMMA FunctionsOfRows ==
  ASSUME Finished, NEW f \in Funcs(Output)
  PROVE  \E s \in FuncStarts(quads) : f = Row(s)
<1>1. TablesOK(consts, Declared) /\ ConstTables(consts)
  BY AllTranslated
<1>2. DOMAIN consts["userfunc"] = 1..Len(consts["userfunc"]) /\ Len(consts["userfunc"]) \in Nat
  <2>1. IsSequence(consts["userfunc"])
    BY <1>1 DEF ConstTables, ConstTypes
  <2> QED BY <2>1, TableLength
<1>3. f + 1 \in DOMAIN consts["userfunc"]
  BY <1>2, OutputIs
<1>4. PICK s \in FuncStarts(quads) : consts["userfunc"][f + 1] = quads[s].result
  BY <1>1, <1>3 DEF TablesOK, Declared
<1> QED BY <1>4, RowsOfFunctions

LEMMA RowsAreApart ==
  ASSUME Finished, NEW s \in FuncStarts(quads), NEW t \in FuncStarts(quads), Row(s) = Row(t)
  PROVE  s = t
<1>1. quads[s].result = quads[t].result
  BY RowsOfFunctions
<1> QED BY <1>1 DEF Finished, DeclaredOnce
\* An operand that stands for a function is loaded as its row.
LEMMA FunctionLoaded ==
  ASSUME Finished, NEW s \in FuncStarts(quads), NEW arg \in ArgsOf(consts),
         arg.type = "userfunc", DecodedIn(consts, arg) = quads[s].result
  PROVE  Loaded(arg) = UserFunc(Row(s))
<1>1. arg.val \in Nat /\ arg.val < Len(consts["userfunc"])
  BY DEF ArgsOf, Args, Variables, Labels, Retval, ConstTypes
<1>2. consts["userfunc"][arg.val + 1] = quads[s].result
  BY DEF DecodedIn, ConstTypes
<1>3. Len(consts["userfunc"]) \in Nat
  <2>1. IsSequence(consts["userfunc"])
    BY AllTranslated DEF ConstTables, ConstTypes
  <2> QED BY <2>1, TableLength
<1>4. arg.val = Row(s)
  <2>1. PICK v : v = arg.val
    OBVIOUS
  <2>2. v \in Funcs(Output)
    BY <1>1, <1>3, <2>1, OutputIs
  <2>3. consts["userfunc"][v + 1] = quads[s].result
    BY <1>2, <2>1
  <2> QED BY <2>1, <2>2, <2>3, RowsOfFunctions
<1> QED BY <1>4 DEF Loaded

-----------------------------------------------------------------------------
(* The instructions of a function. *)

\* The function that begins at s has its instructions between its entry and
\* its funcexit.
AroundAt(i) == {s \in FuncStarts(quads) : taddress[s] + 1 <= i /\ i <= taddress[End(quads, s)]}

LEMMA FunctionPlaces ==
  ASSUME Finished, NEW s \in FuncStarts(quads)
  PROVE  /\ s \in 0..next - 1 /\ End(quads, s) \in 0..next - 1 /\ s < End(quads, s)
         /\ quads[s].op = "funcstart" /\ quads[End(quads, s)].op = "funcend"
         /\ Size(quads[s]) = 2 /\ Size(quads[End(quads, s)]) = 1
         /\ taddress[s] = StartOf(s) /\ taddress[End(quads, s)] = StartOf(End(quads, s))
         /\ taddress[s] \in Nat /\ taddress[End(quads, s)] \in 0..CurrInstruction - 1
         /\ taddress[s] + 2 <= taddress[End(quads, s)]
<1>1. Laid /\ next = CurrQuad /\ CurrQuad \in Nat /\ WellNested(quads, CurrQuad) /\ DOMAIN quads = 0..next - 1
  BY AllTranslated
<1>2. s \in 0..next - 1 /\ quads[s].op = "funcstart"
  BY <1>1 DEF FuncStarts
<1>3. PICK e : e = End(quads, s)
  OBVIOUS
<1>4. e \in 0..next - 1 /\ s < e /\ quads[e].op = "funcend"
  BY <1>1, <1>2, <1>3, EndExists
<1>5. Size(quads[s]) = 2 /\ Size(quads[e]) = 1
  BY <1>2, <1>4 DEF Size
<1>6. taddress[s] = StartOf(s) /\ taddress[e] = StartOf(e) /\ StartOf(e) + 1 <= CurrInstruction
  BY <1>1, <1>2, <1>4, <1>5, StartsOfQuads
<1>7. StartOf(s) \in Nat /\ StartOf(e) \in Nat /\ StartOf(s) + 2 <= StartOf(e)
  BY <1>1, <1>2, <1>4, <1>5, StartsGrow
<1>8. CurrInstruction \in Nat
  BY <1>1, LengthOfCode
<1>9. StartOf(e) \in 0..CurrInstruction - 1
  BY <1>6, <1>7, <1>8
<1> QED BY <1>2, <1>3, <1>4, <1>5, <1>6, <1>7, <1>9

\* A function ends in a funcexit with its name, and there are no others.
LEMMA FuncexitsAreEnds ==
  ASSUME Finished
  PROVE  /\ \A s \in FuncStarts(quads) :
              /\ Output.code[taddress[End(quads, s)]].op = "funcexit"
              /\ Output.code[taddress[End(quads, s)]].result = UserFunc(Row(s))
         /\ \A i \in 0..CurrInstruction - 1 : Output.code[i].op = "funcexit" =>
              \E s \in FuncStarts(quads) : i = taddress[End(quads, s)]
<1>1. /\ Laid /\ next = CurrQuad /\ CurrQuad \in Nat /\ WellNested(quads, CurrQuad) /\ DOMAIN quads = 0..next - 1
      /\ IInv /\ ClosedFunctions /\ ConstTables(consts)
  BY AllTranslated DEF Finished, OInv, IInv
<1>2. ASSUME NEW s \in FuncStarts(quads)
      PROVE  /\ Output.code[taddress[End(quads, s)]].op = "funcexit"
             /\ Output.code[taddress[End(quads, s)]].result = UserFunc(Row(s))
  <2>1. PICK e : e = End(quads, s)
    OBVIOUS
  <2>2. e \in 0..next - 1 /\ quads[e].op = "funcend" /\ Size(quads[e]) = 1 /\ taddress[e] \in 0..CurrInstruction - 1
    BY <2>1, FunctionPlaces
  <2>3. PICK n : n = instructions[taddress[e] + 1]
    OBVIOUS
  <2>4. n.op = "funcexit"
    BY <1>1, <2>2, <2>3, FirstOfQuad, RelopsAre DEF FirstOp
  <2>5. n.result.type = "userfunc" /\ DecodedIn(consts, n.result) = quads[s].result
    BY <1>1, <2>1, <2>2, <2>3 DEF ClosedFunctions
  <2>6. n.result \in ArgsOf(consts)
    BY <1>1, <2>2, <2>3, LengthOfCode DEF InstrsOf
  <2>7. Loaded(n.result) = UserFunc(Row(s))
    BY <2>5, <2>6, FunctionLoaded
  <2> QED BY <2>1, <2>2, <2>3, <2>4, <2>7, CodeOfOutput
<1>3. ASSUME NEW i \in 0..CurrInstruction - 1, Output.code[i].op = "funcexit"
      PROVE  \E s \in FuncStarts(quads) : i = taddress[End(quads, s)]
  <2>1. instructions[i + 1].op = "funcexit"
    BY <1>3, CodeOfOutput
  <2>2. PICK k \in 0..next - 1 : \E x \in 0..Size(quads[k]) - 1 : i = taddress[k] + x
    BY <1>1, QuadOfInstruction
  <2> PICK x \in 0..Size(quads[k]) - 1 : i = taddress[k] + x
    BY <2>2
  <2>3. Size(quads[k]) \in 0..2 /\ Size(quads[k]) >= 1 /\ x \in {0, 1} /\ (x = 1 => Size(quads[k]) = 2)
    BY SizeIsSmall
  <2>4. /\ instructions[taddress[k] + 1].op = FirstOp(quads[k]) /\ taddress[k] \in Nat
        /\ Size(quads[k]) = 2 => instructions[taddress[k] + 2].op = SecondOp(quads[k])
    BY <1>1, <2>3, FirstOfQuad
  <2>5. CASE x = 1
    <3>1. Size(quads[k]) = 2 /\ i + 1 = taddress[k] + 2
      BY <2>3, <2>4, <2>5
    <3> QED BY <2>1, <2>4, <3>1 DEF SecondOp
  <2>6. CASE x = 0
    <3>1. FirstOp(quads[k]) = "funcexit" /\ i = taddress[k]
      BY <2>1, <2>3, <2>4, <2>6
    <3>2. quads[k].op \in QuadOps
      BY <1>1, QuadsAreNested DEF Laid, QuadOK
    <3>3. quads[k].op = "funcend"
      <4>1. quads[k].op \in DOMAIN Relops => FirstOp(quads[k]) \in JumpOps
        BY RelopsAre DEF FirstOp
      <4>2. "funcexit" \notin JumpOps
        BY DEF JumpOps, NumCmpOps
      <4> QED BY <3>1, <3>2, <4>1, <4>2, RelopsAre DEF FirstOp, QuadOps, ArithOps
    <3>4. PICK s \in FuncStarts(quads) : End(quads, s) = k
      BY <1>1, <3>3, EndsAreMatched
    <3> QED BY <3>1, <3>4
  <2> QED BY <2>3, <2>5, <2>6
<1> QED BY <1>2, <1>3

\* So the machine finds the function where it is.
LEMMA EnclosedBy ==
  ASSUME Finished, NEW s \in FuncStarts(quads), NEW i \in Nat
  PROVE  Encloses(Output, Row(s), i) <=> s \in AroundAt(i)
<1>1. /\ taddress[End(quads, s)] \in 0..CurrInstruction - 1 /\ taddress[s] \in Nat
  BY FunctionPlaces
<1>2. Output.userFuncs[Row(s)].address = taddress[s] + 1 /\ Output.codeSize = CurrInstruction
  BY RowsOfFunctions, OutputIs
<1>3. CurrInstruction \in Nat
  BY AllTranslated, LengthOfCode
<1>4. s \in AroundAt(i) <=> taddress[s] + 1 <= i /\ i <= taddress[End(quads, s)]
  BY DEF AroundAt
<1>5. ASSUME s \in AroundAt(i)
      PROVE  Encloses(Output, Row(s), i)
  <2>1. PICK x : x = taddress[End(quads, s)]
    OBVIOUS
  <2>2. x \in i..CurrInstruction - 1
    BY <1>1, <1>3, <1>4, <1>5, <2>1
  <2>3. Output.code[x].op = "funcexit" /\ Output.code[x].result.funcVal = Row(s)
    <3>1. /\ Output.code[taddress[End(quads, s)]].op = "funcexit"
          /\ Output.code[taddress[End(quads, s)]].result = UserFunc(Row(s))
      BY FuncexitsAreEnds
    <3>2. Output.code[x].op = "funcexit" /\ Output.code[x].result = UserFunc(Row(s))
      BY <2>1, <3>1
    <3> QED BY <3>2 DEF UserFunc
  <2>4. taddress[s] + 1 <= i
    BY <1>4, <1>5
  <2> QED BY <1>2, <2>2, <2>3, <2>4 DEF Encloses
<1>6. ASSUME Encloses(Output, Row(s), i)
      PROVE  s \in AroundAt(i)
  <2>1. PICK x \in i..CurrInstruction - 1 :
          Output.code[x].op = "funcexit" /\ Output.code[x].result.funcVal = Row(s)
    BY <1>2, <1>6 DEF Encloses
  <2>2. x \in 0..CurrInstruction - 1
    BY <1>3
  <2>3. PICK t \in FuncStarts(quads) : x = taddress[End(quads, t)]
    BY <2>1, <2>2, FuncexitsAreEnds
  <2>4. Output.code[x].result.funcVal = Row(t)
    <3>1. Output.code[taddress[End(quads, t)]].result = UserFunc(Row(t))
      BY FuncexitsAreEnds
    <3>2. Output.code[x].result = UserFunc(Row(t))
      BY <2>3, <3>1
    <3> QED BY <3>2 DEF UserFunc
  <2>5. t = s
    BY <2>1, <2>4, RowsAreApart
  <2>6. taddress[s] + 1 <= i
    BY <1>2, <1>6 DEF Encloses
  <2> QED BY <1>1, <1>3, <1>4, <2>1, <2>3, <2>5, <2>6
<1> QED BY <1>5, <1>6

\* The machine's function for a set of functions around a place.
OwnerOf(A) == IF A = {} THEN Main ELSE Row(CHOOSE s \in A : \A r \in A : r <= s)

LEMMA OwnersAre ==
  ASSUME Finished, NEW i \in Nat
  PROVE  Owner(Output, i) = OwnerOf(AroundAt(i))
<1>1. Laid /\ next = CurrQuad /\ CurrQuad \in Nat /\ DOMAIN quads = 0..next - 1
  BY AllTranslated
<1>2. PICK A : A = AroundAt(i)
  OBVIOUS
<1>3. A \subseteq FuncStarts(quads) /\ A \subseteq 0..next - 1
  BY <1>1, <1>2 DEF AroundAt, FuncStarts
<1>4. PICK rows : rows = {f \in Funcs(Output) : Encloses(Output, f, i)}
  OBVIOUS
<1>5. \A f : f \in rows <=> \E s \in A : f = Row(s)
  <2>1. ASSUME NEW f \in rows
        PROVE  \E s \in A : f = Row(s)
    <3>1. PICK s \in FuncStarts(quads) : f = Row(s)
      BY <1>4, FunctionsOfRows
    <3>2. Encloses(Output, Row(s), i)
      BY <1>4, <3>1
    <3>3. s \in A
      BY <1>2, <3>2, EnclosedBy
    <3> QED BY <3>1, <3>3
  <2>2. ASSUME NEW s \in A
        PROVE  Row(s) \in rows
    <3>1. s \in FuncStarts(quads) /\ s \in AroundAt(i)
      BY <1>2, <1>3
    <3>2. Encloses(Output, Row(s), i) /\ Row(s) \in Funcs(Output)
      BY <3>1, EnclosedBy, RowsOfFunctions
    <3> QED BY <1>4, <3>2
  <2> QED BY <2>1, <2>2
<1>6. Owner(Output, i) =
        IF rows = {} THEN Main
        ELSE CHOOSE f \in rows : \A g \in rows : Output.userFuncs[g].address <= Output.userFuncs[f].address
  BY <1>4 DEF Owner
<1>7. CASE A = {}
  <2>1. rows = {}
    BY <1>5, <1>7
  <2> QED BY <1>2, <1>6, <1>7, <2>1 DEF OwnerOf
<1>8. CASE A # {}
  <2>1. CurrQuad - 1 \in Nat /\ A \subseteq 0..CurrQuad - 1
    <3>1. PICK s : s \in A
      BY <1>8
    <3>2. s \in 0..CurrQuad - 1
      BY <1>1, <1>3, <3>1
    <3> QED BY <1>1, <1>3, <3>2
  <2>2. PICK k : k = CurrQuad - 1
    OBVIOUS
  <2>3. \E m \in A : \A r \in A : r <= m
    BY <1>8, <2>1, <2>2, GreatestOfSet
  <2>4. PICK m : m = CHOOSE s \in A : \A r \in A : r <= s
    OBVIOUS
  <2>5. m \in A /\ \A r \in A : r <= m
    BY <2>3, <2>4
  <2>6. \A s \in A : Output.userFuncs[Row(s)].address = taddress[s] + 1
    BY <1>3, RowsOfFunctions
  <2>7. \A r, s \in A : /\ taddress[r] \in Nat /\ taddress[s] \in Nat
                        /\ r < s => taddress[r] + 2 <= taddress[s]
                        /\ r \in Nat /\ s \in Nat
    <3> SUFFICES ASSUME NEW r \in A, NEW s \in A
                 PROVE  /\ taddress[r] \in Nat /\ taddress[s] \in Nat
                        /\ r < s => taddress[r] + 2 <= taddress[s]
                        /\ r \in Nat /\ s \in Nat
      OBVIOUS
    <3>1. r \in FuncStarts(quads) /\ s \in FuncStarts(quads)
      BY <1>3
    <3>2. /\ r \in 0..next - 1 /\ s \in 0..next - 1 /\ taddress[r] \in Nat /\ taddress[s] \in Nat
          /\ taddress[r] = StartOf(r) /\ taddress[s] = StartOf(s) /\ Size(quads[r]) = 2
      BY <3>1, FunctionPlaces
    <3>3. next \in Nat
      BY <1>1
    <3>4. r \in 0..next /\ s \in 0..next
      BY <3>2, <3>3
    <3>5. r < s => StartOf(r) + Size(quads[r]) <= StartOf(s)
      BY <1>1, <3>4, StartsGrow
    <3> QED BY <3>2, <3>3, <3>5
  <2>8. Row(m) \in rows /\ \A g \in rows : Output.userFuncs[g].address <= Output.userFuncs[Row(m)].address
    <3>1. Row(m) \in rows
      BY <1>5, <2>5
    <3>2. ASSUME NEW g \in rows
          PROVE  Output.userFuncs[g].address <= Output.userFuncs[Row(m)].address
      <4>1. PICK s \in A : g = Row(s)
        BY <1>5
      <4>2. s <= m /\ s \in Nat /\ m \in Nat /\ (s < m => taddress[s] + 2 <= taddress[m])
            /\ taddress[s] \in Nat /\ taddress[m] \in Nat
        BY <2>5, <2>7
      <4> QED BY <2>5, <2>6, <4>1, <4>2
    <3> QED BY <3>1, <3>2
  <2>9. ASSUME NEW f \in rows, \A g \in rows : Output.userFuncs[g].address <= Output.userFuncs[f].address
        PROVE  f = Row(m)
    <3>1. PICK s \in A : f = Row(s)
      BY <1>5
    <3>2. Output.userFuncs[Row(m)].address <= Output.userFuncs[Row(s)].address
      BY <2>8, <2>9, <3>1
    <3>3. taddress[m] + 1 <= taddress[s] + 1
      BY <2>5, <2>6, <3>2
    <3>4. s <= m /\ s \in Nat /\ m \in Nat /\ (s < m => taddress[s] + 2 <= taddress[m])
          /\ taddress[s] \in Nat /\ taddress[m] \in Nat
      BY <2>5, <2>7
    <3>5. s = m
      BY <3>3, <3>4
    <3> QED BY <3>1, <3>5
  <2>10. rows # {}
    BY <2>8
  <2>11. Owner(Output, i) = Row(m)
    BY <1>6, <2>8, <2>9, <2>10
  <2> QED BY <1>2, <1>8, <2>4, <2>11 DEF OwnerOf
<1> QED BY <1>7, <1>8
-----------------------------------------------------------------------------
(* The functions around a quad and around its instructions are the same. *)

LEMMA AroundAtStart ==
  ASSUME Finished, NEW k \in 0..next
  PROVE  AroundAt(StartOf(k)) = Around(quads, k)
<1>1. Laid /\ next \in Nat
  BY AllTranslated
<1> SUFFICES ASSUME NEW s \in FuncStarts(quads)
             PROVE  (taddress[s] + 1 <= StartOf(k) /\ StartOf(k) <= taddress[End(quads, s)])
                      <=> (s < k /\ k <= End(quads, s))
  BY DEF AroundAt, Around
<1>2. PICK e : e = End(quads, s)
  OBVIOUS
<1>3. /\ s \in 0..next - 1 /\ e \in 0..next - 1 /\ Size(quads[s]) = 2 /\ Size(quads[e]) = 1
      /\ taddress[s] = StartOf(s) /\ taddress[e] = StartOf(e)
  BY <1>2, FunctionPlaces
<1>4. s \in 0..next /\ e \in 0..next /\ s \in Int /\ e \in Int /\ k \in Int
  BY <1>1, <1>3
<1>5. /\ StartOf(s) \in Nat /\ StartOf(e) \in Nat /\ StartOf(k) \in Nat
      /\ s < k => StartOf(s) + 2 <= StartOf(k)
      /\ k <= s => StartOf(k) <= StartOf(s)
      /\ k <= e => StartOf(k) <= StartOf(e)
      /\ e < k => StartOf(e) + 1 <= StartOf(k)
  BY <1>1, <1>3, <1>4, StartsGrow
<1>6. PICK u, v, w : u = StartOf(s) /\ v = StartOf(k) /\ w = StartOf(e)
  OBVIOUS
<1>7. (u + 1 <= v /\ v <= w) <=> (s < k /\ k <= e)
  BY <1>4, <1>5, <1>6
<1> QED BY <1>2, <1>3, <1>6, <1>7

\* The second instruction of a funcstart is inside of the function, and that
\* of a return where the first one is.
LEMMA AroundSecond ==
  ASSUME Finished, NEW k \in 0..next - 1, Size(quads[k]) = 2
  PROVE  AroundAt(taddress[k] + 1) = Around(quads, k + 1)
<1>1. /\ Laid /\ next \in Nat /\ next = CurrQuad /\ CurrQuad \in Nat /\ WellNested(quads, CurrQuad)
      /\ DOMAIN quads = 0..next - 1
  BY AllTranslated
<1>2. quads[k].op \in {"funcstart", "ret"}
  BY DEF Size
<1>3. taddress[k] = StartOf(k)
  BY <1>1, StartsOfQuads
<1> SUFFICES ASSUME NEW s \in FuncStarts(quads)
             PROVE  (taddress[s] + 1 <= taddress[k] + 1 /\ taddress[k] + 1 <= taddress[End(quads, s)])
                      <=> (s < k + 1 /\ k + 1 <= End(quads, s))
  BY DEF AroundAt, Around
<1>4. PICK e : e = End(quads, s)
  OBVIOUS
<1>5. /\ s \in 0..next - 1 /\ e \in 0..next - 1 /\ Size(quads[s]) = 2 /\ Size(quads[e]) = 1
      /\ taddress[s] = StartOf(s) /\ taddress[e] = StartOf(e) /\ quads[e].op = "funcend"
  BY <1>4, FunctionPlaces
<1>6. s \in 0..next /\ e \in 0..next /\ k \in 0..next /\ s \in Int /\ e \in Int /\ k \in Int
  BY <1>1, <1>5
<1>7. k # e
  BY <1>2, <1>5
<1>8. /\ StartOf(s) \in Nat /\ StartOf(e) \in Nat /\ StartOf(k) \in Nat
      /\ s < k => StartOf(s) + 2 <= StartOf(k)
      /\ k < s => StartOf(k) + 2 <= StartOf(s)
      /\ k < e => StartOf(k) + 2 <= StartOf(e)
      /\ e < k => StartOf(e) + 1 <= StartOf(k)
  BY <1>1, <1>5, <1>6, StartsGrow
<1>9. PICK u, v, w : u = StartOf(s) /\ v = StartOf(k) /\ w = StartOf(e)
  OBVIOUS
<1>10. s = k => u = v
  BY <1>9
<1>11. (u + 1 <= v + 1 /\ v + 1 <= w) <=> (s < k + 1 /\ k + 1 <= e)
  BY <1>6, <1>7, <1>8, <1>9, <1>10
<1> QED BY <1>3, <1>4, <1>5, <1>9, <1>11

\* What is around a function is around what follows it.
LEMMA AroundBehind ==
  ASSUME NEW qs, NEW n \in Nat, WellNested(qs, n), NEW s \in FuncStarts(qs)
  PROVE  Around(qs, End(qs, s) + 1) = Around(qs, s)
<1>1. PICK e : e = End(qs, s)
  OBVIOUS
<1>2. FuncStarts(qs) = {r \in 0..n - 1 : qs[r].op = "funcstart"}
  BY StartsAreNat
<1>3. e \in s + 1..n - 1 /\ s \in 0..n - 1
  BY <1>1, <1>2, EndExists
<1> SUFFICES ASSUME NEW r \in FuncStarts(qs)
             PROVE  (r < e + 1 /\ e + 1 <= End(qs, r)) <=> (r < s /\ s <= End(qs, r))
  BY <1>1 DEF Around
<1>4. PICK f : f = End(qs, r)
  OBVIOUS
<1>5. f \in r + 1..n - 1 /\ r \in 0..n - 1 /\ qs[r].op = "funcstart" /\ qs[f].op = "funcend" /\ qs[s].op = "funcstart"
      /\ qs[e].op = "funcend"
  BY <1>1, <1>2, <1>4, EndExists
<1>6. r < s /\ s < f => e < f
  BY <1>1, <1>4, EndsNest
<1>7. s < r /\ r < e => f < e
  BY <1>1, <1>4, EndsNest
<1>8. f # s /\ r # e
  BY <1>5
<1>9. r = s => f = e
  BY <1>1, <1>4
<1>10. (r < e + 1 /\ e + 1 <= f) <=> (r < s /\ s <= f)
  BY <1>3, <1>5, <1>6, <1>7, <1>8, <1>9
<1> QED BY <1>4, <1>10

\* A return and the end of its function are in the same functions.
LEMMA AroundReturn ==
  ASSUME NEW qs, NEW n \in Nat, WellNested(qs, n), NEW k \in 0..n - 1, Around(qs, k) # {}
  PROVE  Around(qs, End(qs, FunctionOf(qs, k))) = Around(qs, k)
<1>1. PICK m : m = FunctionOf(qs, k)
  OBVIOUS
<1>2. m \in Around(qs, k) /\ \A r \in Around(qs, k) : r <= m
  BY <1>1, FunctionIsInnermost
<1>3. PICK e : e = End(qs, m)
  OBVIOUS
<1>4. FuncStarts(qs) = {r \in 0..n - 1 : qs[r].op = "funcstart"}
  BY StartsAreNat
<1>5. m \in FuncStarts(qs) /\ m < k /\ k <= e
  BY <1>2, <1>3 DEF Around
<1>6. e \in m + 1..n - 1 /\ m \in 0..n - 1 /\ qs[e].op = "funcend"
  BY <1>3, <1>4, <1>5, EndExists
<1> SUFFICES ASSUME NEW r \in FuncStarts(qs)
             PROVE  (r < e /\ e <= End(qs, r)) <=> (r < k /\ k <= End(qs, r))
  BY <1>1, <1>3 DEF Around
<1>7. PICK f : f = End(qs, r)
  OBVIOUS
<1>8. f \in r + 1..n - 1 /\ r \in 0..n - 1 /\ qs[r].op = "funcstart"
  BY <1>4, <1>7, EndExists
<1>9. r < k /\ k <= f => r <= m
  BY <1>2, <1>7 DEF Around
<1>10. r < m /\ m < f => e < f
  BY <1>3, <1>5, <1>7, EndsNest
<1>11. m < r /\ r < e => f < e
  BY <1>3, <1>5, <1>7, EndsNest
<1>12. r = m => f = e
  BY <1>3, <1>7
<1>13. (r < e /\ e <= f) <=> (r < k /\ k <= f)
  BY <1>5, <1>6, <1>8, <1>9, <1>10, <1>11, <1>12
<1> QED BY <1>7, <1>13
\* The function of the code at a quad is the innermost one around it.
LEMMA OwnerInside ==
  ASSUME Finished, NEW k \in 0..next, Around(quads, k) # {}
  PROVE  /\ OwnerOf(Around(quads, k)) = Row(FunctionOf(quads, k))
         /\ FunctionOf(quads, k) \in FuncStarts(quads)
         /\ OwnerOf(Around(quads, k)) \in Nat
         /\ OwnerOf(Around(quads, k)) # Main
<1>1. CurrQuad \in Nat /\ WellNested(quads, CurrQuad) /\ k \in Nat
  BY AllTranslated
<1>2. FunctionOf(quads, k) \in Around(quads, k)
  BY <1>1, FunctionIsInnermost
<1>3. FunctionOf(quads, k) \in FuncStarts(quads)
  BY <1>2 DEF Around
<1>4. OwnerOf(Around(quads, k)) = Row(FunctionOf(quads, k))
  BY DEF OwnerOf, FunctionOf
<1>5. Row(FunctionOf(quads, k)) \in Nat
  BY <1>3, RowsOfFunctions
<1> QED BY <1>3, <1>4, <1>5 DEF Main

\* Where an instruction is from, what it is, and in which function.
LEMMA PlaceOfInstruction ==
  ASSUME Finished, NEW i \in 0..CurrInstruction - 1
  PROVE  \E k \in 0..next - 1, x \in {0, 1} :
           /\ i = taddress[k] + x /\ quads[k].op \in QuadOps /\ x < Size(quads[k])
           /\ Output.code[i].op = IF x = 0 THEN FirstOp(quads[k]) ELSE SecondOp(quads[k])
           /\ Owner(Output, i) = OwnerOf(Around(quads, k + x))
<1>1. Laid /\ IInv /\ next \in Nat /\ next = CurrQuad
  BY AllTranslated DEF Finished, OInv
<1>2. PICK k \in 0..next - 1 : \E y \in 0..Size(quads[k]) - 1 : i = taddress[k] + y
  BY <1>1, QuadOfInstruction
<1>3. PICK x \in 0..Size(quads[k]) - 1 : i = taddress[k] + x
  BY <1>2
<1>4. Size(quads[k]) \in {1, 2} /\ x \in {0, 1} /\ x < Size(quads[k]) /\ (x = 1 => Size(quads[k]) = 2)
  BY <1>3, SizeIsSmall
<1>5. /\ taddress[k] \in Nat /\ instructions[taddress[k] + 1].op = FirstOp(quads[k])
      /\ Size(quads[k]) = 2 => instructions[taddress[k] + 2].op = SecondOp(quads[k])
  BY <1>1, <1>4, FirstOfQuad
<1>6. Output.code[i].op = instructions[i + 1].op
  BY CodeOfOutput
<1>7. Output.code[i].op = IF x = 0 THEN FirstOp(quads[k]) ELSE SecondOp(quads[k])
  <2>1. CASE x = 0
    BY <1>3, <1>5, <1>6, <2>1
  <2>2. CASE x = 1
    <3>1. i + 1 = taddress[k] + 2
      BY <1>3, <1>5, <2>2
    <3> QED BY <1>4, <1>5, <1>6, <2>2, <3>1
  <2> QED BY <1>4, <2>1, <2>2
<1>8. quads[k].op \in QuadOps
  BY <1>1, QuadsAreNested DEF Laid, QuadOK
<1>9. AroundAt(i) = Around(quads, k + x)
  <2>1. CASE x = 0
    <3>1. i = StartOf(k) /\ k \in 0..next /\ k + x = k
      BY <1>1, <1>3, <1>5, <2>1, StartsOfQuads
    <3> QED BY <3>1, AroundAtStart
  <2>2. CASE x = 1
    BY <1>3, <1>4, <2>2, AroundSecond
  <2> QED BY <1>4, <2>1, <2>2
<1>10. i \in Nat
  OBVIOUS
<1>11. Owner(Output, i) = OwnerOf(Around(quads, k + x))
  BY <1>9, <1>10, OwnersAre
<1> QED BY <1>3, <1>4, <1>7, <1>8, <1>11

\* The function that the machine finds at the first instruction of a quad.
LEMMA OwnerAtStart ==
  ASSUME Finished, NEW k \in 0..next
  PROVE  Owner(Output, StartOf(k)) = OwnerOf(Around(quads, k))
<1>1. StartOf(k) \in Nat
  BY AllTranslated, StartsOfQuads
<1> QED BY <1>1, AroundAtStart, OwnersAre

\* Which opcodes come from which quads.
LEMMA OpcodesFrom ==
  ASSUME NEW q, q.op \in QuadOps
  PROVE  /\ FirstOp(q) \in Opcodes \ {"funcenter"} \/ q.op \in {"and", "or", "not"}
         /\ FirstOp(q) = "funcexit" <=> q.op = "funcend"
         /\ FirstOp(q) = "pusharg" <=> q.op = "param"
         /\ FirstOp(q) = "call" <=> q.op = "call"
         /\ q.op \in {"and", "or", "not"} => Size(q) = 0
         /\ Size(q) = 2 => SecondOp(q) \in {"funcenter", "jump"}
         /\ Size(q) = 2 /\ SecondOp(q) = "funcenter" => q.op = "funcstart"
<1>1. CASE q.op \in DOMAIN Relops
  <2>1. FirstOp(q) \in JumpOps \ {"jump"} /\ Size(q) = 1
    BY <1>1, RelopsAre DEF FirstOp, Size, Relops, JumpOps, NumCmpOps
  <2> QED BY <1>1, <2>1, RelopsAre DEF JumpOps, NumCmpOps, Opcodes
<1>2. CASE q.op \in ArithOps
  <2>1. FirstOp(q) = q.op /\ Size(q) = 1
    BY <1>2, RelopsAre DEF FirstOp, Size, ArithOps
  <2> QED BY <1>2, <2>1 DEF Opcodes, ArithOps
<1>3. CASE q.op \notin DOMAIN Relops \cup ArithOps
  <2>1. Size(q) = 2 => SecondOp(q) \in {"funcenter", "jump"} /\ (SecondOp(q) = "funcenter" => q.op = "funcstart")
    BY DEF SecondOp
  <2>2. q.op \in {"and", "or", "not"} => Size(q) = 0
    BY <1>3 DEF Size
  <2>3. FirstOp(q) = CASE q.op = "uminus" -> "mul"
                       [] q.op = "param" -> "pusharg"
                       [] q.op = "tablecreate" -> "newtable"
                       [] q.op = "ret" -> IF q.result = NoExpr THEN "jump" ELSE "assign"
                       [] q.op = "funcstart" -> "jump"
                       [] q.op = "funcend" -> "funcexit"
                       [] OTHER -> q.op
    BY <1>3 DEF FirstOp
  <2> QED BY <1>3, <2>1, <2>2, <2>3 DEF QuadOps, Opcodes, JumpOps, ArithOps
<1> QED BY <1>1, <1>2, <1>3
-----------------------------------------------------------------------------
(* Types. *)

\* What a loaded operand is.
LEMMA LoadedOperands ==
  ASSUME ConstTables(consts), TablesOK(consts, Declared), NEW arg \in ArgsOf(consts)
  PROVE  /\ Loaded(arg) \in Operands
         /\ Loaded(arg).type = "userfunc" =>
              /\ arg.type = "userfunc" /\ Loaded(arg) = UserFunc(arg.val)
              /\ arg.val \in 0..Len(consts["userfunc"]) - 1
         /\ arg.type # "userfunc" => Loaded(arg) = DecodedIn(consts, arg)
<1>1. CASE arg.type = "userfunc"
  <2>1. arg.val \in Nat /\ arg.val < Len(consts["userfunc"])
    BY <1>1 DEF ArgsOf, Args, Variables, Labels, Retval, ConstTypes
  <2>2. Len(consts["userfunc"]) \in Nat
    <3>1. IsSequence(consts["userfunc"])
      BY DEF ConstTables, ConstTypes
    <3> QED BY <3>1, TableLength
  <2>3. Loaded(arg) = UserFunc(arg.val)
    BY <1>1 DEF Loaded
  <2>4. UserFunc(arg.val) \in Constants
    BY <2>1 DEF UserFunc, Constants, Cells, Undef
  <2> QED BY <1>1, <2>1, <2>2, <2>3, <2>4 DEF Operands
<1>2. CASE arg.type \in ConstTypes \ {"userfunc"}
  <2>1. arg.val \in Nat /\ arg.val < Len(consts[arg.type])
    BY <1>2 DEF ArgsOf, Args, Variables, Labels, Retval, ConstTypes
  <2>2. PICK e : e = consts[arg.type][arg.val + 1]
    OBVIOUS
  <2>3. DOMAIN consts[arg.type] = 1..Len(consts[arg.type]) /\ Len(consts[arg.type]) \in Nat
    <3>1. IsSequence(consts[arg.type])
      BY <1>2 DEF ConstTables
    <3> QED BY <3>1, TableLength
  <2>4. e.type = arg.type /\ IsExpr(e)
    <3>1. arg.val + 1 \in DOMAIN consts[arg.type]
      BY <2>1, <2>3
    <3> QED BY <1>2, <2>2, <3>1 DEF TablesOK
  <2>5. Loaded(arg) = e /\ DecodedIn(consts, arg) = e
    BY <1>2, <2>2 DEF Loaded, Decoded, DecodedIn, ConstTypes
  <2>6. e \notin Variables /\ ~ IsFunc(e)
    BY <1>2, <2>4 DEF Variables, IsFunc, FuncExpr, ConstTypes
  <2>7. e \in Constants
    BY <2>4, <2>6 DEF IsExpr
  <2> QED BY <1>2, <2>4, <2>5, <2>7 DEF Operands
<1>3. CASE arg.type \notin ConstTypes
  <2>1. Loaded(arg) = DecodedIn(consts, arg)
    BY <1>3 DEF Loaded, Decoded, DecodedIn, ConstTypes
  <2>2. CASE arg.type = "bool"
    <3>1. Loaded(arg) = Bool(arg.val = 1)
      BY <1>3, <2>1, <2>2 DEF DecodedIn
    <3>2. PICK b \in BOOLEAN : b = (arg.val = 1)
      OBVIOUS
    <3>3. Bool(b) \in Constants /\ Bool(b).type = "bool"
      BY DEF Bool, Constants, Cells, Undef
    <3> QED BY <2>1, <2>2, <3>1, <3>2, <3>3 DEF Operands
  <2>3. CASE arg.type = "nil"
    <3>1. Loaded(arg) = Nil
      BY <1>3, <2>1, <2>3 DEF DecodedIn
    <3>2. Nil \in Constants /\ Nil.type = "nil"
      BY DEF Nil, Constants, Cells, Undef
    <3> QED BY <2>1, <2>3, <3>1, <3>2 DEF Operands
  <2>4. CASE arg.type \notin {"bool", "nil"}
    <3>1. Loaded(arg) = arg
      BY <1>3, <2>1, <2>4 DEF DecodedIn
    <3>2. arg \in Variables \cup Labels \cup {Retval}
      BY <1>3, <2>4 DEF ArgsOf, Args
    <3>3. arg.type \in {"global", "local", "formal", "label", "retval"}
      BY <3>2 DEF Variables, Labels, Retval
    <3> QED BY <2>1, <3>1, <3>2, <3>3 DEF Operands
  <2> QED BY <2>2, <2>3, <2>4
<1> QED BY <1>1, <1>2, <1>3

LEMMA OutputTypeOK ==
  ASSUME Finished, TotalGlobals > 0
  PROVE  ProgramTypeOK(Output)
<1>1. Laid /\ ConstTables(consts) /\ TablesOK(consts, Declared) /\ Bodies
  BY AllTranslated
<1>2. CurrInstruction \in Nat /\ \A n \in 1..CurrInstruction : instructions[n] \in InstrsOf(consts)
  BY <1>1, LengthOfCode
<1>3. ASSUME NEW i \in 0..CurrInstruction - 1
      PROVE  Output.code[i] \in [op : Opcodes, result : Operands, arg1 : Operands, arg2 : Operands]
  <2>1. PICK n : n = instructions[i + 1]
    OBVIOUS
  <2>2. n.op \in Opcodes /\ n.result \in ArgsOf(consts) /\ n.arg1 \in ArgsOf(consts) /\ n.arg2 \in ArgsOf(consts)
    <3>1. i + 1 \in 1..CurrInstruction
      BY <1>2
    <3> QED BY <1>2, <2>1, <3>1 DEF InstrsOf
  <2>3. Loaded(n.result) \in Operands /\ Loaded(n.arg1) \in Operands /\ Loaded(n.arg2) \in Operands
    BY <1>1, <2>2, LoadedOperands
  <2>4. Output.code[i] = Instruction(n.op, Loaded(n.result), Loaded(n.arg1), Loaded(n.arg2))
    BY <2>1, CodeOfOutput
  <2> QED BY <2>2, <2>3, <2>4 DEF Instruction
<1>4. Output.code \in [Code(Output) -> [op : Opcodes, result : Operands, arg1 : Operands, arg2 : Operands]]
  <2>1. PICK c, D, S : /\ c = Output.code /\ D = 0..CurrInstruction - 1
                       /\ S = [op : Opcodes, result : Operands, arg1 : Operands, arg2 : Operands]
    OBVIOUS
  <2>2. c = [i \in D |-> c[i]] /\ \A i \in D : c[i] \in S
    BY <1>3, <2>1, OutputIs
  <2>3. c \in [D -> S]
    BY <2>2
  <2> QED BY <2>1, <2>3, OutputIs
<1>5. ASSUME NEW f \in Funcs(Output)
      PROVE  /\ f \in Nat /\ Output.userFuncs[f].address \in Code(Output)
             /\ Output.userFuncs[f].localSize \in Nat
  <2>1. PICK s \in FuncStarts(quads) : f = Row(s)
    BY FunctionsOfRows
  <2>2. /\ Row(s) \in Nat /\ Output.userFuncs[Row(s)].address = taddress[s] + 1
        /\ Output.userFuncs[Row(s)].localSize \in Nat
    BY RowsOfFunctions
  <2>3. /\ taddress[s] \in Nat /\ taddress[End(quads, s)] \in 0..CurrInstruction - 1
        /\ taddress[s] + 2 <= taddress[End(quads, s)]
    BY FunctionPlaces
  <2>4. taddress[s] + 1 \in 0..CurrInstruction - 1
    BY <1>2, <2>3
  <2> QED BY <2>1, <2>2, <2>4, OutputIs
<1>6. TotalGlobals \in Nat \ {0}
  BY LimitsAssumption
<1> QED BY <1>2, <1>4, <1>5, <1>6, OutputIs DEF ProgramTypeOK

-----------------------------------------------------------------------------
(* Entries. *)

\* The entry of a function.
LEMMA EntryOfFunction ==
  ASSUME Finished, NEW s \in FuncStarts(quads)
  PROVE  /\ taddress[s] + 1 \in 0..CurrInstruction - 1
         /\ Output.code[taddress[s] + 1].op = "funcenter"
         /\ Output.code[taddress[s] + 1].result = UserFunc(Row(s))
         /\ Owner(Output, taddress[s] + 1) = Row(s)
<1>1. /\ Laid /\ IInv /\ Translated /\ next = CurrQuad /\ CurrQuad \in Nat /\ WellNested(quads, CurrQuad)
      /\ next \in Nat
  BY AllTranslated DEF Finished, OInv, IInv
<1>2. /\ s \in 0..next - 1 /\ quads[s].op = "funcstart" /\ Size(quads[s]) = 2 /\ taddress[s] \in Nat
      /\ taddress[End(quads, s)] \in 0..CurrInstruction - 1
      /\ taddress[s] + 2 <= taddress[End(quads, s)]
  BY FunctionPlaces
<1>3. PICK a : a = taddress[s]
  OBVIOUS
<1>4. a + 1 \in 0..CurrInstruction - 1 /\ a \in Nat /\ CurrInstruction \in Nat
  BY SMTT(30), <1>1, <1>2, <1>3, LengthOfCode
<1>5. PICK n : n = instructions[a + 2]
  OBVIOUS
<1>6. n.op = "funcenter" /\ n.result.type = "userfunc" /\ DecodedIn(consts, n.result) = quads[s].result
  <2>1. Translation(consts, CodeAt(instructions, a), quads[s])
    BY <1>1, <1>2, <1>3 DEF Translated
  <2>2. CodeAt(instructions, a)[2] = n
    BY <1>5 DEF CodeAt
  <2> QED BY <1>2, <2>1, <2>2 DEF Translation, SecondOp
<1>7. n \in InstrsOf(consts)
  <2>1. a + 2 \in 1..CurrInstruction
    BY <1>4
  <2> QED BY <1>1, <1>5, <2>1, LengthOfCode
<1>8. Loaded(n.result) = UserFunc(Row(s))
  BY <1>6, <1>7, FunctionLoaded DEF InstrsOf
<1>9. (a + 1) + 1 = a + 2
  BY <1>4
<1>10. PICK b : b = a + 1
  OBVIOUS
<1>11. Output.code[b].op = "funcenter" /\ Output.code[b].result = UserFunc(Row(s))
  BY <1>4, <1>5, <1>6, <1>8, <1>9, <1>10, CodeOfOutput
<1>12. Owner(Output, b) = Row(s)
  <2>1. AroundAt(b) = Around(quads, s + 1)
    BY <1>2, <1>3, <1>10, AroundSecond
  <2>2. s \in FuncStarts(quads) /\ Around(quads, s + 1) = Around(quads, s) \cup {s} /\ Around(quads, s) \subseteq 0..s - 1
    BY <1>1, <1>2, AroundStart, AroundIsFinite
  <2>3. \A r \in Around(quads, s + 1) : r <= s /\ r \in Int
    BY <1>1, <1>2, <2>2
  <2>4. s + 1 \in 0..next /\ Around(quads, s + 1) # {}
    BY <1>1, <1>2, <2>2
  <2>5. FunctionOf(quads, s + 1) \in Around(quads, s + 1) /\ s <= FunctionOf(quads, s + 1)
    BY <1>1, <2>2, <2>4, FunctionIsInnermost
  <2>6. FunctionOf(quads, s + 1) = s
    BY <1>2, <2>3, <2>5
  <2>7. OwnerOf(Around(quads, s + 1)) = Row(s)
    BY <2>4, <2>6, OwnerInside
  <2>8. b \in Nat
    BY <1>4, <1>10
  <2> QED BY <2>1, <2>7, <2>8, OwnersAre
<1> QED BY <1>3, <1>4, <1>10, <1>11, <1>12

LEMMA OutputEntriesOK ==
  ASSUME Finished
  PROVE  EntriesOK(Output)
<1>1. Laid /\ next = CurrQuad /\ CurrQuad \in Nat /\ WellNested(quads, CurrQuad) /\ next \in Nat
  BY AllTranslated
<1>2. ASSUME NEW f \in Funcs(Output)
      PROVE  /\ Output.code[Output.userFuncs[f].address].op = "funcenter"
             /\ Output.code[Output.userFuncs[f].address].result = UserFunc(f)
             /\ Owner(Output, Output.userFuncs[f].address) = f
  <2>1. PICK s \in FuncStarts(quads) : f = Row(s)
    BY FunctionsOfRows
  <2>2. Output.userFuncs[f].address = taddress[s] + 1
    BY <2>1, RowsOfFunctions
  <2> QED BY <2>1, <2>2, EntryOfFunction
<1>3. ASSUME NEW i \in 0..CurrInstruction - 1, Output.code[i].op = "funcenter"
      PROVE  \E f \in Funcs(Output) : Output.userFuncs[f].address = i
  <2>1. PICK k \in 0..next - 1, x \in {0, 1} :
          /\ i = taddress[k] + x /\ quads[k].op \in QuadOps /\ x < Size(quads[k])
          /\ Output.code[i].op = IF x = 0 THEN FirstOp(quads[k]) ELSE SecondOp(quads[k])
    BY PlaceOfInstruction
  <2>2. x = 1 /\ quads[k].op = "funcstart"
    BY <1>3, <2>1, OpcodesFrom, SizeIsSmall
  <2>3. k \in FuncStarts(quads)
    BY <1>1, <2>2, AllTranslated DEF FuncStarts
  <2> QED BY <2>1, <2>2, <2>3, RowsOfFunctions
<1>4. Owner(Output, 0) = Main
  <2>1. StartOf(0) = 0 /\ 0 \in 0..next /\ Around(quads, 0) = {}
    BY <1>1, NothingAroundFirst DEF Laid, Layout
  <2> QED BY <2>1, OwnerAtStart DEF OwnerOf
<1>5. Owner(Output, CurrInstruction) = Main
  <2>1. StartOf(next) = CurrInstruction /\ next \in 0..next /\ Around(quads, next) = {}
    BY <1>1, NothingAroundLast, StartsOfQuads
  <2> QED BY <2>1, OwnerAtStart DEF OwnerOf
<1> QED BY <1>2, <1>3, <1>4, <1>5, OutputIs DEF EntriesOK
-----------------------------------------------------------------------------
(* Control stays in its function. *)

LEMMA SuccInFunction ==
  ASSUME Finished, NEW k \in 0..next - 1, Size(quads[k]) > 0, NEW s \in QuadSucc(k)
  PROVE  s \in 0..next /\ Around(quads, s) = Around(quads, k)
<1>1. /\ Laid /\ next = CurrQuad /\ CurrQuad \in Nat /\ WellNested(quads, CurrQuad) /\ next \in Nat
      /\ DOMAIN quads = 0..next - 1 /\ IsProgram(quads)
      /\ QuadOK(quads[k], CurrQuad) /\ quads[k].op \in QuadOps
      /\ quads[k].op = "ret" => Around(quads, k) # {}
  BY AllTranslated, QuadsAreNested DEF Finished, Laid, QuadOK
<1>2. ASSUME quads[k].op \in Jumps, s = quads[k].label
      PROVE  s \in 0..next /\ Around(quads, s) = Around(quads, k)
  BY <1>1, <1>2, RelopsAre DEF IsProgram, QuadOK, Jumps
<1>3. ASSUME quads[k].op \notin {"funcstart", "funcend"}, s = k + 1
      PROVE  s \in 0..next /\ Around(quads, s) = Around(quads, k)
  BY <1>1, <1>3, AroundNext
<1>4. CASE quads[k].op = "jump"
  <2>1. QuadSucc(k) = {quads[k].label}
    BY <1>4, RelopsAre DEF QuadSucc
  <2> QED BY <1>2, <1>4, <2>1 DEF Jumps
<1>5. CASE quads[k].op \in DOMAIN Relops
  <2>1. QuadSucc(k) = {quads[k].label, k + 1}
    BY <1>5, RelopsAre DEF QuadSucc
  <2> QED BY <1>2, <1>3, <1>5, <2>1, RelopsAre DEF Jumps
<1>6. CASE quads[k].op = "funcstart"
  <2>1. s = End(quads, k) + 1
    BY <1>6, RelopsAre DEF QuadSucc
  <2>2. k \in FuncStarts(quads)
    BY <1>1, <1>6 DEF FuncStarts
  <2>3. End(quads, k) \in 0..next - 1
    BY <2>2, FunctionPlaces
  <2> QED BY <1>1, <2>1, <2>2, <2>3, AroundBehind
<1>7. CASE quads[k].op = "ret"
  <2>1. s = End(quads, FunctionOf(quads, k))
    BY <1>7, RelopsAre DEF QuadSucc
  <2>2. FunctionOf(quads, k) \in FuncStarts(quads)
    BY <1>1, <1>7, OwnerInside
  <2>3. s \in 0..next - 1
    BY <2>1, <2>2, FunctionPlaces
  <2> QED BY <1>1, <1>7, <2>1, <2>3, AroundReturn
<1>8. CASE quads[k].op = "funcend"
  BY <1>8, RelopsAre DEF QuadSucc
<1>9. CASE quads[k].op \notin Jumps \cup {"funcstart", "ret", "funcend"}
  <2>1. QuadSucc(k) = {k + 1}
    BY <1>9, RelopsAre DEF QuadSucc, Jumps
  <2> QED BY <1>3, <1>9, <2>1
<1> QED BY <1>4, <1>5, <1>6, <1>7, <1>8, <1>9, RelopsAre DEF Jumps

\* No quad begins at the entry of a function.
LEMMA NoQuadAtEntry ==
  ASSUME Finished, NEW s \in 0..next, StartOf(s) \in 0..CurrInstruction - 1
  PROVE  Output.code[StartOf(s)].op # "funcenter"
<1>1. Laid /\ next \in Nat
  BY AllTranslated
<1>2. PICK i : i = StartOf(s)
  OBVIOUS
<1>3. PICK k \in 0..next - 1, x \in {0, 1} :
        /\ i = taddress[k] + x /\ quads[k].op \in QuadOps /\ x < Size(quads[k])
        /\ Output.code[i].op = IF x = 0 THEN FirstOp(quads[k]) ELSE SecondOp(quads[k])
  BY <1>2, PlaceOfInstruction
<1>4. SUFFICES ASSUME Output.code[i].op = "funcenter"
               PROVE  FALSE
  BY <1>2
<1>5. x = 1 /\ Size(quads[k]) = 2
  BY <1>3, <1>4, OpcodesFrom, SizeIsSmall
<1>6. taddress[k] = StartOf(k) /\ k \in 0..next
  BY <1>1, StartsOfQuads
<1>7. /\ StartOf(k) \in Nat /\ StartOf(s) \in Nat
      /\ s <= k => StartOf(s) <= StartOf(k)
      /\ k < s => StartOf(k) + 2 <= StartOf(s)
  BY <1>1, <1>5, <1>6, StartsGrow
<1>8. k \in Int /\ s \in Int
  OBVIOUS
<1> QED BY <1>2, <1>3, <1>5, <1>6, <1>7, <1>8

\* Where control goes from the last instruction of a quad.
LEMMA SuccOfQuad ==
  ASSUME Finished, NEW k \in 0..next - 1, Size(quads[k]) > 0
  PROVE  Succ(Output, LastOf(k)) = {StartOf(s) : s \in QuadSucc(k)}
<1>1. IInv /\ outcome = "done"
  BY DEF Finished, OInv
<1> QED BY <1>1, JumpsGoToLabels, FunctionsGoToEnds, OthersGoOn

\* What FlowOK says of a target of an instruction.
GoodTarget(i, t) ==
  /\ t \in 0..CurrInstruction
  /\ Owner(Output, t) = Owner(Output, i)
  /\ t \in 0..CurrInstruction - 1 => Output.code[t].op # "funcenter"

LEMMA StartIsGood ==
  ASSUME Finished, NEW s \in 0..next, NEW i, Owner(Output, i) = OwnerOf(Around(quads, s))
  PROVE  GoodTarget(i, StartOf(s))
<1>1. /\ Laid /\ next \in Nat /\ CurrInstruction \in Nat /\ StartOf(next) = CurrInstruction
      /\ StartOf(s) \in Nat
  BY AllTranslated, StartsOfQuads, LengthOfCode
<1>2. StartOf(s) <= CurrInstruction
  <2>1. s <= next /\ next \in 0..next
    BY <1>1
  <2> QED BY <1>1, <2>1, StartsGrow
<1> QED BY <1>1, <1>2, OwnerAtStart, NoQuadAtEntry DEF GoodTarget

LEMMA TargetsAreGood ==
  ASSUME Finished, NEW i \in 0..CurrInstruction - 1, NEW t \in Succ(Output, i)
  PROVE  GoodTarget(i, t)
<1>1. /\ Laid /\ IInv /\ next \in Nat /\ CurrInstruction \in Nat /\ next = CurrQuad
      /\ CurrQuad \in Nat /\ WellNested(quads, CurrQuad)
  BY AllTranslated, LengthOfCode DEF Finished, OInv
<1>2. PICK k \in 0..next - 1, x \in {0, 1} :
        /\ i = taddress[k] + x /\ quads[k].op \in QuadOps /\ x < Size(quads[k])
        /\ Output.code[i].op = IF x = 0 THEN FirstOp(quads[k]) ELSE SecondOp(quads[k])
        /\ Owner(Output, i) = OwnerOf(Around(quads, k + x))
  BY PlaceOfInstruction
<1>3. PICK a : a = taddress[k]
  OBVIOUS
<1>4. /\ a \in Nat /\ a + Size(quads[k]) <= CurrInstruction /\ Size(quads[k]) \in {1, 2} /\ i = a + x
      /\ instructions[a + 1].op = FirstOp(quads[k])
      /\ Size(quads[k]) = 2 => instructions[a + 2].op = SecondOp(quads[k])
      /\ StartOf(k + 1) = a + Size(quads[k])
  <2>1. Size(quads[k]) \in {1, 2} /\ Size(quads[k]) >= 1
    BY <1>2, SizeIsSmall
  <2>2. StartOf(k + 1) = StartOf(k) + Size(quads[k]) /\ StartOf(k) = taddress[k]
    BY <1>1, StartsOfQuads DEF Laid, Layout
  <2> QED BY <1>1, <1>2, <1>3, <2>1, <2>2, FirstOfQuad
<1>5. k \in 0..next /\ k + 1 \in 0..next
  BY <1>1
<1>6. quads[k].op = "ret" => Around(quads, k + 1) = Around(quads, k)
  BY <1>1, AroundNext
<1>7. CASE i = LastOf(k) /\ (x = 0 \/ quads[k].op = "ret")
  <2>1. PICK s \in QuadSucc(k) : t = StartOf(s)
    BY <1>4, <1>7, SuccOfQuad
  <2>2. s \in 0..next /\ Around(quads, s) = Around(quads, k)
    BY <1>4, SuccInFunction
  <2>3. Around(quads, k + x) = Around(quads, k)
    BY <1>6, <1>7
  <2> QED BY <1>2, <2>1, <2>2, <2>3, StartIsGood
<1>8. CASE quads[k].op = "ret" /\ Size(quads[k]) = 2 /\ x = 0
  <2>1. instructions[i + 1].op = "assign"
    BY <1>4, <1>8 DEF FirstOp, Size
  <2>2. t = i + 1
    <3>1. "assign" \notin JumpOps \cup {"funcexit"}
      BY DEF JumpOps, NumCmpOps
    <3> QED BY <1>1, <2>1, <3>1, SuccOfInstruction
  <2>3. t = a + 1 /\ t \in 0..CurrInstruction - 1 /\ t + 1 = a + 2
    BY <1>1, <1>4, <1>8, <2>2
  <2>4. Output.code[t].op = "jump"
    BY <1>4, <1>8, <2>3, CodeOfOutput DEF SecondOp
  <2>5. AroundAt(t) = Around(quads, k)
    BY <1>3, <1>6, <1>8, <2>3, AroundSecond
  <2>6. t \in Nat /\ k + x = k
    BY <1>1, <1>8, <2>3
  <2>7. Owner(Output, t) = OwnerOf(Around(quads, k))
    BY <2>5, <2>6, OwnersAre
  <2>8. Owner(Output, i) = OwnerOf(Around(quads, k))
    BY <1>2, <2>6
  <2>9. t \in 0..CurrInstruction
    BY <1>1, <2>3
  <2> QED BY <2>4, <2>7, <2>8, <2>9 DEF GoodTarget
<1>9. CASE quads[k].op = "funcstart" /\ x = 1
  <2>1. instructions[i + 1].op = "funcenter" /\ Size(quads[k]) = 2
    <3>1. i + 1 = a + 2 /\ Size(quads[k]) = 2
      BY <1>2, <1>4, <1>9
    <3> QED BY <1>4, <1>9, <3>1 DEF SecondOp
  <2>2. t = i + 1
    <3>1. "funcenter" \notin JumpOps \cup {"funcexit"}
      BY DEF JumpOps, NumCmpOps
    <3> QED BY <1>1, <2>1, <3>1, SuccOfInstruction
  <2>3. t = StartOf(k + 1)
    BY <1>4, <1>9, <2>1, <2>2
  <2> QED BY <1>2, <1>5, <1>9, <2>3, StartIsGood
<1>10. \/ i = LastOf(k) /\ (x = 0 \/ quads[k].op = "ret")
       \/ quads[k].op = "ret" /\ Size(quads[k]) = 2 /\ x = 0
       \/ quads[k].op = "funcstart" /\ x = 1
  <2>1. Size(quads[k]) = 2 => quads[k].op \in {"funcstart", "ret"}
    BY DEF Size
  <2>2. quads[k].op = "funcstart" => LastOf(k) = a
    BY <1>3 DEF LastOf
  <2>3. quads[k].op # "funcstart" => LastOf(k) = a + Size(quads[k]) - 1
    BY <1>4 DEF LastOf
  <2>4. PICK l : l = LastOf(k)
    OBVIOUS
  <2>5. CASE quads[k].op = "funcstart"
    BY <1>4, <2>2, <2>5
  <2>6. CASE quads[k].op # "funcstart"
    <3>1. l = a + Size(quads[k]) - 1
      BY <2>3, <2>4, <2>6
    <3>2. Size(quads[k]) = 1 => x = 0 /\ i = l
      BY <1>2, <1>4, <3>1
    <3>3. Size(quads[k]) = 2 => quads[k].op = "ret" /\ (x = 1 => i = l)
      BY <1>4, <2>1, <2>6, <3>1
    <3> QED BY <1>4, <2>4, <3>2, <3>3
  <2> QED BY <2>5, <2>6
<1> QED BY <1>7, <1>8, <1>9, <1>10

LEMMA OutputFlowOK ==
  ASSUME Finished
  PROVE  FlowOK(Output)
<1>1. /\ Laid /\ next = CurrQuad /\ CurrQuad \in Nat /\ WellNested(quads, CurrQuad) /\ next \in Nat
  BY AllTranslated
<1>2. ASSUME NEW i \in 0..CurrInstruction - 1, Output.code[i].op = "funcexit"
      PROVE  Owner(Output, i) # Main
  <2>1. PICK s \in FuncStarts(quads) : i = taddress[End(quads, s)]
    BY <1>2, FuncexitsAreEnds
  <2>2. PICK e : e = End(quads, s)
    OBVIOUS
  <2>3. e \in 0..next - 1 /\ quads[e].op = "funcend" /\ i = StartOf(e)
    BY <2>1, <2>2, FunctionPlaces
  <2>4. e \in 0..next /\ Around(quads, e) # {}
    BY <1>1, <2>3, AroundEnd
  <2> QED BY <2>3, <2>4, OwnerAtStart, OwnerInside
<1> QED BY <1>2, OutputIs, TargetsAreGood DEF FlowOK, GoodTarget

-----------------------------------------------------------------------------
(* Arguments are pushed right before their call. *)

LEMMA OutputPushesOK ==
  ASSUME Finished
  PROVE  PushesOK(Output)
<1>1. /\ Laid /\ IInv /\ next \in Nat /\ DOMAIN quads = 0..next - 1 /\ IsProgram(quads) /\ next = CurrQuad
      /\ CurrInstruction \in Nat
  BY AllTranslated, LengthOfCode DEF Finished, OInv
<1> SUFFICES ASSUME NEW i \in 0..CurrInstruction - 1, Output.code[i].op = "pusharg"
             PROVE  i + 1 \in 0..CurrInstruction - 1 /\ Output.code[i + 1].op \in {"pusharg", "call"}
  BY OutputIs DEF PushesOK
<1>2. PICK k \in 0..next - 1, x \in {0, 1} :
        /\ i = taddress[k] + x /\ quads[k].op \in QuadOps /\ x < Size(quads[k])
        /\ Output.code[i].op = IF x = 0 THEN FirstOp(quads[k]) ELSE SecondOp(quads[k])
  BY PlaceOfInstruction
<1>3. x = 0 /\ quads[k].op = "param"
  BY <1>2, OpcodesFrom, SizeIsSmall
<1>4. k + 1 \in 0..next - 1 /\ quads[k + 1].op \in {"param", "call"}
  BY <1>1, <1>3 DEF IsProgram
<1>5. PICK l : l = k + 1
  OBVIOUS
<1>6. Size(quads[k]) = 1 /\ Size(quads[l]) = 1 /\ FirstOp(quads[l]) \in {"pusharg", "call"}
  BY <1>3, <1>4, <1>5, RelopsAre DEF Size, FirstOp
<1>7. /\ taddress[l] \in 0..CurrInstruction - 1
      /\ instructions[taddress[l] + 1].op = FirstOp(quads[l])
  BY <1>1, <1>4, <1>5, <1>6, FirstOfQuad
<1>8. taddress[l] = i + 1
  <2>1. StartOf(k + 1) = StartOf(k) + Size(quads[k])
    BY <1>1 DEF Laid, Layout
  <2>2. StartOf(l) = taddress[l] /\ StartOf(k) = taddress[k] /\ taddress[k] \in Nat
    BY <1>1, <1>4, <1>5, <1>6, StartsOfQuads, FirstOfQuad
  <2>3. taddress[l] = taddress[k] + 1
    BY <1>5, <1>6, <2>1, <2>2
  <2>4. i = taddress[k]
    BY <1>2, <1>3, <2>2
  <2> QED BY <2>3, <2>4
<1>9. Output.code[taddress[l]].op \in {"pusharg", "call"}
  BY <1>6, <1>7, CodeOfOutput
<1> QED BY <1>7, <1>8, <1>9

-----------------------------------------------------------------------------
(* An instruction uses the operands of its quad. *)

\* The quads that write what they have as their result.
Writers == ArithOps \cup {"assign", "uminus", "getretval", "tablecreate", "tablegetelem"}

\* The first instruction of a quad reads operands that the quad has, and
\* writes its result, or the return value.
LEMMA UsedOperands ==
  ASSUME NEW q, q.op \in QuadOps, Size(q) >= 1, NEW n, n.op = FirstOp(q)
  PROVE  /\ \A o \in Destinations(n) :
              /\ o = n["result"]
              /\ \/ q.op = "ret" /\ Size(q) = 2
                 \/ q.op \in Writers /\ "result" \in DOMAIN Carried(q) /\ Carried(q)["result"] = q.result
         /\ \A o \in ReadOperands(n) : \E x \in DOMAIN Carried(q) : o = n[x]
<1>1. CASE q.op \in DOMAIN Relops
  <2>1. n.op \in JumpOps \ {"jump"}
    BY <1>1, RelopsAre DEF FirstOp, Relops, JumpOps, NumCmpOps
  <2>2. Destinations(n) = {} /\ ReadOperands(n) = {n["arg1"], n["arg2"]}
    BY <2>1 DEF Destinations, ReadOperands, JumpOps, NumCmpOps, ArithOps
  <2>3. DOMAIN Carried(q) = {"arg1", "arg2"}
    BY <1>1, CarriedOf
  <2> QED BY <2>2, <2>3
<1>2. CASE q.op \in ArithOps \cup {"tablegetelem"}
  <2>1. n.op = q.op
    BY <1>2, RelopsAre DEF FirstOp, ArithOps
  <2>2. Destinations(n) = {n["result"]} /\ ReadOperands(n) = {n["arg1"], n["arg2"]}
    BY <1>2, <2>1 DEF Destinations, ReadOperands, JumpOps, NumCmpOps, ArithOps
  <2>3. DOMAIN Carried(q) = {"result", "arg1", "arg2"} /\ Carried(q)["result"] = q.result
    BY <1>2, CarriedOf
  <2> QED BY <1>2, <2>2, <2>3 DEF Writers
<1>3. CASE q.op = "tablesetelem"
  <2>1. n.op = q.op
    BY <1>3, RelopsAre DEF FirstOp
  <2>2. Destinations(n) = {} /\ ReadOperands(n) = {n["result"], n["arg1"], n["arg2"]}
    BY <1>3, <2>1 DEF Destinations, ReadOperands, JumpOps, NumCmpOps, ArithOps
  <2>3. DOMAIN Carried(q) = {"result", "arg1", "arg2"}
    BY <1>3, CarriedOf
  <2> QED BY <2>2, <2>3
<1>4. CASE q.op = "uminus"
  <2>1. n.op = "mul"
    BY <1>4, RelopsAre DEF FirstOp
  <2>2. Destinations(n) = {n["result"]} /\ ReadOperands(n) = {n["arg1"], n["arg2"]}
    BY <2>1 DEF Destinations, ReadOperands, JumpOps, NumCmpOps, ArithOps
  <2>3. DOMAIN Carried(q) = {"result", "arg1", "arg2"} /\ Carried(q)["result"] = q.result
    BY <1>4, CarriedOf
  <2> QED BY <1>4, <2>2, <2>3 DEF Writers
<1>5. CASE q.op = "assign"
  <2>1. n.op = q.op
    BY <1>5, RelopsAre DEF FirstOp
  <2>2. Destinations(n) = {n["result"]} /\ ReadOperands(n) = {n["arg1"]}
    BY <1>5, <2>1 DEF Destinations, ReadOperands, JumpOps, NumCmpOps, ArithOps
  <2>3. DOMAIN Carried(q) = {"result", "arg1"} /\ Carried(q)["result"] = q.result
    BY <1>5, CarriedOf
  <2> QED BY <1>5, <2>2, <2>3 DEF Writers
<1>6. CASE q.op \in {"call", "param"}
  <2>1. n.op \in {"call", "pusharg"}
    BY <1>6, RelopsAre DEF FirstOp
  <2>2. Destinations(n) = {} /\ ReadOperands(n) = {n["result"]}
    BY <2>1 DEF Destinations, ReadOperands, JumpOps, NumCmpOps, ArithOps
  <2>3. DOMAIN Carried(q) = {"result"}
    BY <1>6, CarriedOf
  <2> QED BY <2>2, <2>3
<1>7. CASE q.op \in {"getretval", "tablecreate"}
  <2>1. n.op \in {"getretval", "newtable"}
    BY <1>7, RelopsAre DEF FirstOp
  <2>2. Destinations(n) = {n["result"]} /\ ReadOperands(n) = {}
    BY <2>1 DEF Destinations, ReadOperands, JumpOps, NumCmpOps, ArithOps
  <2>3. DOMAIN Carried(q) = {"result"} /\ Carried(q)["result"] = q.result
    BY <1>7, CarriedOf
  <2> QED BY <1>7, <2>2, <2>3 DEF Writers
<1>8. CASE q.op = "ret" /\ q.result # NoExpr
  <2>1. n.op = "assign" /\ Size(q) = 2
    BY <1>8, RelopsAre DEF FirstOp, Size
  <2>2. Destinations(n) = {n["result"]} /\ ReadOperands(n) = {n["arg1"]}
    BY <2>1 DEF Destinations, ReadOperands, JumpOps, NumCmpOps, ArithOps
  <2>3. DOMAIN Carried(q) = {"arg1"}
    BY <1>8, CarriedOf
  <2> QED BY <1>8, <2>1, <2>2, <2>3
<1>9. CASE q.op \in {"jump", "funcstart", "funcend"} \/ (q.op = "ret" /\ q.result = NoExpr)
  <2>1. n.op \in {"jump", "funcexit"}
    BY <1>9, RelopsAre DEF FirstOp
  <2> QED BY <2>1 DEF Destinations, ReadOperands, JumpOps, NumCmpOps, ArithOps
<1>10. CASE q.op \in {"and", "or", "not"}
  BY <1>10 DEF Size
<1> QED BY <1>1, <1>2, <1>3, <1>4, <1>5, <1>6, <1>7, <1>8, <1>9, <1>10, RelopsAre DEF QuadOps

\* A variable of the code at a quad is one of the instructions there.
LEMMA VariableThere ==
  ASSUME Finished, NEW k \in 0..next - 1, Size(quads[k]) >= 1, NEW e, HasVariable(quads, k, e)
  PROVE  VariableOK(Output, taddress[k], e)
<1>1. StartOf(k) = taddress[k] /\ k \in 0..next
  BY AllTranslated, StartsOfQuads
<1>2. Owner(Output, taddress[k]) = OwnerOf(Around(quads, k))
  BY <1>1, OwnerAtStart
<1>3. CASE e.type \in {"local", "formal"}
  <2>1. Around(quads, k) # {}
    BY <1>3 DEF HasVariable
  <2>2. PICK s : s = FunctionOf(quads, k)
    OBVIOUS
  <2>3. s \in FuncStarts(quads) /\ OwnerOf(Around(quads, k)) = Row(s) /\ Row(s) # Main
    BY <1>1, <2>1, <2>2, OwnerInside
  <2>4. Output.userFuncs[Row(s)].localSize = quads[s].result.sym.total_locals
    BY <2>3, RowsOfFunctions
  <2>5. LocalsOf(Output, Row(s)) = quads[s].result.sym.total_locals
    BY <2>3, <2>4 DEF LocalsOf
  <2>6. e.type = "local" => e.val < quads[s].result.sym.total_locals
    BY <2>2 DEF HasVariable
  <2> QED BY <1>2, <1>3, <2>3, <2>5, <2>6 DEF VariableOK
<1>4. CASE e.type \notin {"local", "formal"}
  BY <1>4, OutputIs DEF VariableOK, HasVariable
<1> QED BY <1>3, <1>4

\* An operand of a quad, as it is loaded.
LEMMA OperandLoaded ==
  ASSUME Finished, NEW k \in 0..next - 1, Size(quads[k]) >= 1, NEW x \in DOMAIN Carried(quads[k])
  PROVE  LET o == Output.code[taddress[k]][x] IN
           /\ o \in Variables \cup Constants
           /\ VariableOK(Output, taddress[k], o)
           /\ o.type = "userfunc" => o.funcVal \in Funcs(Output)
           /\ Carried(quads[k])[x] \in Variables => o = Carried(quads[k])[x]
<1>1. /\ Laid /\ Translated /\ IInv /\ ConstTables(consts) /\ TablesOK(consts, Declared)
      /\ DOMAIN quads = 0..next - 1 /\ IsProgram(quads)
      /\ QuadOK(quads[k], CurrQuad) /\ quads[k].op \in QuadOps
  BY AllTranslated, QuadsAreNested DEF Finished, OInv, IInv, Laid, QuadOK
<1>2. PICK a : a = taddress[k]
  OBVIOUS
<1>3. PICK arg : arg = instructions[a + 1][x]
  OBVIOUS
<1>4. PICK e : e = Carried(quads[k])[x]
  OBVIOUS
<1>5. PICK o : o = Output.code[a][x]
  OBVIOUS
<1>6. x \in {"result", "arg1", "arg2"}
  BY <1>1, CarriedOperands
<1>7. a \in 0..CurrInstruction - 1 /\ a \in Nat /\ a + 1 \in 1..CurrInstruction
  BY <1>1, <1>2, FirstOfQuad, LengthOfCode
<1>8. o = Loaded(arg)
  BY <1>3, <1>5, <1>6, <1>7, CodeOfOutput
<1>9. arg \in ArgsOf(consts)
  <2>1. instructions[a + 1] \in InstrsOf(consts)
    BY <1>1, <1>7, LengthOfCode
  <2> QED BY <1>3, <1>6, <2>1 DEF InstrsOf
<1>10. DecodedIn(consts, arg) = e
  <2>1. Translation(consts, CodeAt(instructions, a), quads[k])
    BY <1>1, <1>2 DEF Translated
  <2>2. CodeAt(instructions, a)[1] = instructions[a + 1]
    BY DEF CodeAt
  <2> QED BY <1>3, <1>4, <2>1, <2>2 DEF Translation
<1>11. IsExpr(e) /\ HasVariable(quads, k, e)
  BY <1>1, <1>4 DEF QuadOK, IsProgram
<1>12. CASE arg.type = "userfunc"
  <2>1. arg.val \in 0..Len(consts["userfunc"]) - 1 /\ arg.val \in Nat
    <3>1. arg.val \in Nat /\ arg.val < Len(consts["userfunc"])
      BY <1>9, <1>12 DEF ArgsOf, Args, Variables, Labels, Retval, ConstTypes
    <3>2. IsSequence(consts["userfunc"])
      BY <1>1 DEF ConstTables, ConstTypes
    <3> QED BY <3>1, <3>2, TableLength
  <2>2. o = UserFunc(arg.val)
    BY <1>8, <1>12 DEF Loaded
  <2>3. o \in Constants /\ o.type = "userfunc" /\ o.funcVal = arg.val
    BY <2>1, <2>2 DEF UserFunc, Constants, Cells, Undef
  <2>4. e.type = "userfunc"
    <3>1. e = consts["userfunc"][arg.val + 1]
      BY <1>10, <1>12 DEF DecodedIn, ConstTypes
    <3>2. arg.val + 1 \in DOMAIN consts["userfunc"]
      <4>1. IsSequence(consts["userfunc"])
        BY <1>1 DEF ConstTables, ConstTypes
      <4>2. DOMAIN consts["userfunc"] = 1..Len(consts["userfunc"]) /\ Len(consts["userfunc"]) \in Nat
        BY <4>1, TableLength
      <4> QED BY <2>1, <4>2
    <3> QED BY <1>1, <3>1, <3>2 DEF TablesOK, ConstTypes
  <2>5. e \notin Variables
    BY <2>4 DEF Variables
  <2>6. VariableOK(Output, a, o)
    BY <2>3 DEF VariableOK
  <2> QED BY <1>2, <1>4, <1>5, <2>1, <2>3, <2>5, <2>6, OutputIs
<1>13. CASE arg.type # "userfunc"
  <2>1. o = e /\ o.type # "userfunc"
    BY <1>1, <1>8, <1>9, <1>10, <1>13, LoadedOperands
  <2>2. o \in Variables \cup Constants
    <3>1. ~ IsFunc(e)
      BY <2>1 DEF IsFunc, FuncExpr
    <3> QED BY <1>11, <2>1, <3>1 DEF IsExpr
  <2>3. VariableOK(Output, a, o)
    BY <1>2, <1>11, <2>1, VariableThere
  <2> QED BY <1>2, <1>4, <1>5, <2>1, <2>2, <2>3
<1> QED BY <1>12, <1>13

-----------------------------------------------------------------------------
(* Operands name what is there. *)

\* Every operand of the finished code is one of a quad, or the return value.
LEMMA OutputOperands ==
  ASSUME Finished, NEW i \in 0..CurrInstruction - 1
  PROVE  /\ \A o \in Destinations(Output.code[i]) :
              o \in Variables \cup {Retval} /\ VariableOK(Output, i, o)
         /\ \A o \in ReadOperands(Output.code[i]) :
              /\ o \in Variables \cup Constants /\ VariableOK(Output, i, o)
              /\ o.type = "userfunc" => o.funcVal \in Funcs(Output)
<1>1. /\ IInv /\ Translated /\ next \in Nat /\ DOMAIN quads = 0..next - 1 /\ IsProgram(quads)
  BY AllTranslated DEF Finished, OInv, IInv
<1>2. PICK k \in 0..next - 1, x \in {0, 1} :
        /\ i = taddress[k] + x /\ quads[k].op \in QuadOps /\ x < Size(quads[k])
        /\ Output.code[i].op = IF x = 0 THEN FirstOp(quads[k]) ELSE SecondOp(quads[k])
  BY PlaceOfInstruction
<1>3. CASE x = 1
  <2>1. Output.code[i].op \in {"jump", "funcenter"}
    BY <1>2, <1>3 DEF SecondOp
  <2> QED BY <2>1 DEF Destinations, ReadOperands, JumpOps, NumCmpOps, ArithOps
<1>4. CASE x = 0
  <2>1. Size(quads[k]) >= 1
    BY <1>2, <1>4, SizeIsSmall
  <2>2. i = taddress[k]
    BY <1>1, <1>2, <1>4, <2>1, FirstOfQuad
  <2>3. PICK q : q = quads[k]
    OBVIOUS
  <2>4. PICK n : n = Output.code[i]
    OBVIOUS
  <2>5. q.op \in QuadOps /\ Size(q) >= 1 /\ n.op = FirstOp(q)
    BY <1>2, <1>4, <2>1, <2>3, <2>4
  <2>6. ASSUME NEW o \in ReadOperands(n)
        PROVE  /\ o \in Variables \cup Constants /\ VariableOK(Output, i, o)
               /\ o.type = "userfunc" => o.funcVal \in Funcs(Output)
    <3>1. PICK y \in DOMAIN Carried(q) : o = n[y]
      BY <2>5, UsedOperands
    <3> QED BY <2>1, <2>2, <2>3, <2>4, <3>1, OperandLoaded
  <2>7. ASSUME NEW o \in Destinations(n)
        PROVE  o \in Variables \cup {Retval} /\ VariableOK(Output, i, o)
    <3>1. /\ o = n["result"]
          /\ \/ q.op = "ret" /\ Size(q) = 2
             \/ q.op \in Writers /\ "result" \in DOMAIN Carried(q) /\ Carried(q)["result"] = q.result
      BY <2>5, UsedOperands
    <3>2. CASE q.op = "ret" /\ Size(q) = 2
      <4>1. instructions[i + 1].result = Retval
        <5>1. Translation(consts, CodeAt(instructions, i), q)
          BY <1>1, <2>2, <2>3 DEF Translated
        <5>2. CodeAt(instructions, i)[1] = instructions[i + 1]
          BY DEF CodeAt
        <5> QED BY <3>2, <5>1, <5>2 DEF Translation
      <4>2. n.result = Loaded(instructions[i + 1].result)
        BY <2>4, CodeOfOutput
      <4>3. Loaded(Retval) = Retval
        BY DEF Loaded, Decoded, Retval, ConstTypes
      <4>4. VariableOK(Output, i, Retval)
        BY DEF VariableOK, Retval
      <4> QED BY <3>1, <4>1, <4>2, <4>3, <4>4
    <3>3. CASE q.op \in Writers /\ "result" \in DOMAIN Carried(q) /\ Carried(q)["result"] = q.result
      <4>1. q.result \in Variables
        BY <1>1, <2>3, <3>3 DEF IsProgram, Writers
      <4>2. Output.code[taddress[k]]["result"] = q.result /\ VariableOK(Output, taddress[k], q.result)
        BY <2>1, <2>3, <3>3, <4>1, OperandLoaded
      <4> QED BY <2>2, <2>4, <3>1, <4>1, <4>2
    <3> QED BY <3>1, <3>2, <3>3
  <2> QED BY <2>4, <2>6, <2>7
<1> QED BY <1>3, <1>4

-----------------------------------------------------------------------------
(* The theorem. *)

\* The code that the generator ends with is what the virtual machine relies
\* on and does not check (avm.c:1003-1056): every function begins at its own
\* funcenter, control stays in its function, arguments are pushed right
\* before their call, and operands name variables, constants and functions
\* that are there.  So it is if the quads are those that the parser leaves of
\* a program with a global that declares each function once.
THEOREM OutputIsWellFormed == Spec => []OutputWellFormed
<1>1. OInv => OutputWellFormed
  <2> SUFFICES ASSUME Finished, TotalGlobals > 0
               PROVE  WellFormed(Output)
    BY DEF OutputWellFormed, Finished
  <2>1. ProgramTypeOK(Output)
    BY OutputTypeOK
  <2>2. EntriesOK(Output)
    BY OutputEntriesOK
  <2>3. FlowOK(Output)
    BY OutputFlowOK
  <2>4. PushesOK(Output)
    BY OutputPushesOK
  <2>5. OperandsOK(Output)
    BY OutputOperands, OutputIs DEF OperandsOK
  <2>6. CalleesOK(Output)
    BY OutputOperands, OutputIs DEF CalleesOK
  <2> QED BY <2>1, <2>2, <2>3, <2>4, <2>5, <2>6 DEF WellFormed
<1> QED BY <1>1, OutputInvariance, PTL
=============================================================================
