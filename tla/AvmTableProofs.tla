--------------------------- MODULE AvmTableProofs ---------------------------
(***************************************************************************)
(* Proofs about the buckets of a table: they are a map.                    *)
(*                                                                         *)
(* The first part is about one table and one operation on it, the second   *)
(* about walks through the chains, the third about the copy, the list of   *)
(* keys and the sorted entries that are made from them.                    *)
(***************************************************************************)
EXTENDS AvmTable, FiniteSetTheorems, FunctionTheorems, SequenceTheorems, WellFoundedInduction, NaturalsInduction, TLAPS

-----------------------------------------------------------------------------
(* One table. *)

BucketSet == [key : Keys, value : Elems \cup {Nil}]

\* A key has one bucket, in the chain that it hashes to.
Chained(t) ==
  /\ t = [chain |-> t.chain, total |-> t.total]
  /\ t.chain \in [Chains -> Seq(BucketSet)]
  /\ t.total \in Int
  /\ \A c \in Chains : \A i \in DOMAIN t.chain[c] : ChainOf(t.chain[c][i].key) = c
  /\ \A c \in Chains : \A i, j \in DOMAIN t.chain[c] : t.chain[c][i].key = t.chain[c][j].key => i = j

LEMMA ChainsOfKeys == \A key \in Keys : ChainOf(key) \in Chains
BY HashAssumption DEF ChainOf, Chains, Slots

LEMMA ChainsAreSequences ==
  ASSUME NEW t, Chained(t), NEW c \in Chains
  PROVE  /\ t.chain[c] \in Seq(BucketSet)
         /\ Len(t.chain[c]) \in Nat /\ DOMAIN t.chain[c] = 1..Len(t.chain[c])
         /\ \A i \in 1..Len(t.chain[c]) : t.chain[c][i] \in BucketSet
<1>1. t.chain[c] \in Seq(BucketSet)
  BY DEF Chained
<1> QED BY <1>1, LenProperties, ElementOfSeq

\* The bucket of a key is the one that the search stops at.
LEMMA BucketIsFound ==
  ASSUME NEW t, Chained(t), NEW key \in Keys, NEW i \in DOMAIN t.chain[ChainOf(key)],
         t.chain[ChainOf(key)][i].key = key
  PROVE  Found(t, key) /\ Place(t, key) = i /\ Lookup(t, key) = t.chain[ChainOf(key)][i].value
<1>1. PICK c \in Chains : c = ChainOf(key)
  BY ChainsOfKeys
<1>2. Matches(t, c, key) = {i}
  BY <1>1 DEF Chained, Matches
<1>3. i \in Nat
  BY <1>1, ChainsAreSequences
<1>4. Place(t, key) = i
  BY <1>1, <1>2, <1>3 DEF Place
<1> QED BY <1>1, <1>2, <1>4 DEF Found, Lookup

LEMMA FoundInBucket ==
  ASSUME NEW t, Chained(t), NEW key \in Keys, Found(t, key)
  PROVE  /\ Place(t, key) \in DOMAIN t.chain[ChainOf(key)]
         /\ t.chain[ChainOf(key)][Place(t, key)].key = key
         /\ Lookup(t, key) = t.chain[ChainOf(key)][Place(t, key)].value
<1>1. PICK i \in DOMAIN t.chain[ChainOf(key)] : t.chain[ChainOf(key)][i].key = key
  BY DEF Found, Matches
<1> QED BY <1>1, BucketIsFound

AllBuckets(t) == UNION {ToSet(t.chain[c]) : c \in Chains}

LEMMA BucketsAre ==
  ASSUME NEW t, Chained(t)
  PROVE  /\ \A b \in AllBuckets(t) : /\ b \in BucketSet /\ Found(t, b.key)
                                     /\ Lookup(t, b.key) = b.value
         /\ \A key \in Keys : Found(t, key) =>
              \E b \in AllBuckets(t) : b.key = key /\ b.value = Lookup(t, key)
<1>1. ASSUME NEW b \in AllBuckets(t)
      PROVE  b \in BucketSet /\ Found(t, b.key) /\ Lookup(t, b.key) = b.value
  <2>1. PICK c \in Chains : \E i \in DOMAIN t.chain[c] : b = t.chain[c][i]
    BY DEF AllBuckets, ToSet
  <2>2. PICK i \in DOMAIN t.chain[c] : b = t.chain[c][i]
    BY <2>1
  <2>3. b \in BucketSet /\ ChainOf(b.key) = c
    BY <2>2, ChainsAreSequences DEF Chained
  <2>4. b.key \in Keys
    BY <2>3 DEF BucketSet
  <2> QED BY <2>2, <2>3, <2>4, BucketIsFound
<1>2. ASSUME NEW key \in Keys, Found(t, key)
      PROVE  \E b \in AllBuckets(t) : b.key = key /\ b.value = Lookup(t, key)
  <2>1. PICK c \in Chains : c = ChainOf(key)
    BY ChainsOfKeys
  <2>2. t.chain[c][Place(t, key)] \in ToSet(t.chain[c])
    BY <1>2, <2>1, FoundInBucket DEF ToSet
  <2>3. t.chain[c][Place(t, key)] \in AllBuckets(t)
    BY <2>2 DEF AllBuckets
  <2> QED BY <1>2, <2>1, <2>3, FoundInBucket
<1> QED BY <1>1, <1>2

\* The map that a table stands for has the keys that are found, with what is found.
LEMMA MapOfTable ==
  ASSUME NEW t, Chained(t)
  PROVE  /\ DOMAIN ElemsOf(t) = {key \in Keys : Found(t, key)}
         /\ ElemsOf(t) = [key \in DOMAIN ElemsOf(t) |-> ElemsOf(t)[key]]
         /\ \A key \in DOMAIN ElemsOf(t) : ElemsOf(t)[key] = Lookup(t, key)
         /\ \A key \in Keys : GetElem([elems |-> ElemsOf(t), total |-> t.total], key) = Lookup(t, key)
<1>1. ElemsOf(t) = [k \in {b.key : b \in AllBuckets(t)} |-> (CHOOSE b \in AllBuckets(t) : b.key = k).value]
  BY DEF ElemsOf, AllBuckets
<1>2. {b.key : b \in AllBuckets(t)} = {key \in Keys : Found(t, key)}
  BY BucketsAre DEF BucketSet
<1>3. ASSUME NEW key \in Keys, Found(t, key)
      PROVE  ElemsOf(t)[key] = Lookup(t, key)
  <2>1. PICK b : b = (CHOOSE x \in AllBuckets(t) : x.key = key)
    OBVIOUS
  <2>2. b \in AllBuckets(t) /\ b.key = key
    BY <1>3, <2>1, BucketsAre
  <2>3. b.value = Lookup(t, key)
    BY <2>2, BucketsAre
  <2> QED BY <1>1, <1>2, <1>3, <2>1, <2>3
<1>4. \A key \in Keys : ~ Found(t, key) => Lookup(t, key) = Nil
  BY DEF Lookup
<1>5. DOMAIN ElemsOf(t) = {key \in Keys : Found(t, key)}
  BY <1>1, <1>2
<1>6. ElemsOf(t) = [key \in DOMAIN ElemsOf(t) |-> ElemsOf(t)[key]]
  BY <1>1
<1> QED BY <1>3, <1>4, <1>5, <1>6 DEF GetElem

\* Two tables with the same keys and elements are the same map.
LEMMA SameMap ==
  ASSUME NEW t, Chained(t), NEW D, NEW e,
         \A key \in Keys : Found(t, key) <=> key \in D, D \subseteq Keys,
         \A key \in D : Lookup(t, key) = e[key]
  PROVE  ElemsOf(t) = [key \in D |-> e[key]]
<1>1. DOMAIN ElemsOf(t) = D
  BY MapOfTable
<1> QED BY <1>1, MapOfTable

-----------------------------------------------------------------------------
(* Storing. *)

LEMMA NumbersOfWord == \A n \in Int : n % Word \in Int /\ n % Word \in 0..Word - 1
BY HashAssumption

\* Overwriting the element of a key changes what is found under it, and nothing else.
LEMMA OverwritingOne ==
  ASSUME NEW t, Chained(t), NEW key \in Keys, Found(t, key), NEW val \in Elems \cup {Nil}
  PROVE  LET u == Overwritten(t, key, val) IN
           /\ Chained(u) /\ u.total = t.total
           /\ \A k \in Keys : /\ Found(u, k) <=> Found(t, k)
                              /\ Lookup(u, k) = IF k = key THEN val ELSE Lookup(t, k)
<1>1. PICK c \in Chains : c = ChainOf(key)
  BY ChainsOfKeys
<1>2. PICK p : p = Place(t, key)
  OBVIOUS
<1>3. /\ p \in DOMAIN t.chain[c] /\ t.chain[c][p].key = key
      /\ DOMAIN t.chain[c] = 1..Len(t.chain[c]) /\ t.chain[c] \in Seq(BucketSet) /\ Len(t.chain[c]) \in Nat
      /\ t.chain[c][p] \in BucketSet
  BY <1>1, <1>2, FoundInBucket, ChainsAreSequences
<1>4. PICK new : new = [t.chain[c][p] EXCEPT !.value = val]
  OBVIOUS
<1>5. new \in BucketSet /\ new.key = key /\ new.value = val
  BY <1>3, <1>4 DEF BucketSet
<1>6. PICK s : s = [t.chain[c] EXCEPT ![p] = new]
  OBVIOUS
<1>7. /\ s \in Seq(BucketSet) /\ Len(s) = Len(t.chain[c])
      /\ \A j \in 1..Len(t.chain[c]) : s[j] = IF j = p THEN new ELSE t.chain[c][j]
  BY <1>3, <1>5, <1>6, ExceptSeq
<1>8. DOMAIN s = DOMAIN t.chain[c]
  BY <1>6
<1>9. PICK u : u = Overwritten(t, key, val)
  OBVIOUS
<1>10. /\ u.total = t.total /\ u = [chain |-> u.chain, total |-> u.total]
       /\ u.chain = [t.chain EXCEPT ![c] = s]
  <2>1. t = [chain |-> t.chain, total |-> t.total]
    BY DEF Chained
  <2>2. u = [t EXCEPT !.chain = [t.chain EXCEPT ![c] = s]]
    BY <1>1, <1>2, <1>4, <1>6, <1>9 DEF Overwritten
  <2> QED BY <2>1, <2>2
<1>11. u.chain[c] = s /\ \A d \in Chains : d # c => u.chain[d] = t.chain[d]
  BY <1>1, <1>10 DEF Chained
<1>12. \A d \in Chains : /\ DOMAIN u.chain[d] = DOMAIN t.chain[d]
                         /\ \A i \in DOMAIN t.chain[d] : u.chain[d][i].key = t.chain[d][i].key
  BY <1>3, <1>5, <1>7, <1>8, <1>11
<1>13. Chained(u)
  <2>1. u.chain \in [Chains -> Seq(BucketSet)]
    BY <1>7, <1>10 DEF Chained
  <2>2. \A d \in Chains : \A i \in DOMAIN u.chain[d] : ChainOf(u.chain[d][i].key) = d
    BY <1>12 DEF Chained
  <2>3. \A d \in Chains : \A i, j \in DOMAIN u.chain[d] : u.chain[d][i].key = u.chain[d][j].key => i = j
    BY <1>12 DEF Chained
  <2> QED BY <1>10, <2>1, <2>2, <2>3 DEF Chained
<1>14. ASSUME NEW k \in Keys
       PROVE  /\ Found(u, k) <=> Found(t, k)
              /\ Lookup(u, k) = IF k = key THEN val ELSE Lookup(t, k)
  <2>1. PICK d \in Chains : d = ChainOf(k)
    BY ChainsOfKeys
  <2>2. Matches(u, d, k) = Matches(t, d, k)
    BY <1>12 DEF Matches
  <2>3. Found(u, k) <=> Found(t, k)
    BY <2>1, <2>2 DEF Found
  <2>4. CASE ~ Found(t, k)
    BY <2>3, <2>4 DEF Lookup
  <2>5. CASE Found(t, k)
    <3>1. PICK i : i = Place(t, k)
      OBVIOUS
    <3>2. i \in DOMAIN t.chain[d] /\ t.chain[d][i].key = k /\ Lookup(t, k) = t.chain[d][i].value
      BY <2>1, <2>5, <3>1, FoundInBucket
    <3>3. Lookup(u, k) = u.chain[d][i].value
      BY <1>12, <1>13, <2>1, <3>2, BucketIsFound
    <3>4. CASE k = key
      <4>1. d = c /\ i = p
        BY <1>1, <1>2, <2>1, <3>1, <3>4
      <4>2. u.chain[d][i] = new
        BY <1>3, <1>7, <1>11, <4>1
      <4>3. Lookup(u, k) = val
        BY <1>5, <3>3, <4>2
      <4> QED BY <2>3, <3>4, <4>3
    <3>5. CASE k # key
      <4>1. u.chain[d][i] = t.chain[d][i]
        <5>1. CASE d = c
          BY <1>3, <1>7, <1>11, <3>2, <3>5, <5>1
        <5>2. CASE d # c
          BY <1>11, <5>2
        <5> QED BY <5>1, <5>2
      <4>2. Lookup(u, k) = Lookup(t, k)
        BY <3>2, <3>3, <4>1
      <4> QED BY <2>3, <3>5, <4>2
    <3> QED BY <3>4, <3>5
  <2> QED BY <2>3, <2>4, <2>5
<1> QED BY <1>9, <1>10, <1>13, <1>14

\* A new bucket makes its key found, and changes nothing for the others.
LEMMA PushingOne ==
  ASSUME NEW t, Chained(t), NEW key \in Keys, ~ Found(t, key), NEW val \in Elems \cup {Nil}
  PROVE  LET u == Pushed(t, key, val) IN
           /\ Chained(u) /\ u.total = (t.total + 1) % Word
           /\ \A k \in Keys : /\ Found(u, k) <=> Found(t, k) \/ k = key
                              /\ Lookup(u, k) = IF k = key THEN val ELSE Lookup(t, k)
<1>1. PICK c \in Chains : c = ChainOf(key)
  BY ChainsOfKeys
<1>2. PICK new : new = [key |-> key, value |-> val]
  OBVIOUS
<1>3. new \in BucketSet /\ new.key = key /\ new.value = val
  BY <1>2 DEF BucketSet
<1>4. PICK old : old = t.chain[c]
  OBVIOUS
<1>5. /\ old \in Seq(BucketSet) /\ DOMAIN old = 1..Len(old) /\ Len(old) \in Nat
  BY <1>4, ChainsAreSequences
<1>6. PICK s : s = <<new>> \o old
  OBVIOUS
<1>7. /\ s \in Seq(BucketSet) /\ Len(s) = Len(old) + 1 /\ DOMAIN s = 1..Len(old) + 1
      /\ s[1] = new /\ \A i \in 1..Len(old) : s[i + 1] = old[i]
  <2>1. <<new>> \in Seq(BucketSet) /\ Len(<<new>>) = 1 /\ <<new>>[1] = new
    BY <1>3
  <2>2. /\ s \in Seq(BucketSet) /\ Len(s) = 1 + Len(old)
        /\ \A i \in 1..1 + Len(old) : s[i] = IF i <= 1 THEN <<new>>[i] ELSE old[i - 1]
    BY <1>5, <1>6, <2>1, ConcatProperties
  <2>3. DOMAIN s = 1..Len(s)
    BY <2>2, LenProperties
  <2> QED BY <1>5, <2>1, <2>2, <2>3
<1>8. PICK u : u = Pushed(t, key, val)
  OBVIOUS
<1>9. /\ u.total = (t.total + 1) % Word /\ u = [chain |-> u.chain, total |-> u.total]
      /\ u.chain = [t.chain EXCEPT ![c] = s]
  <2>1. u = [chain |-> [t.chain EXCEPT ![c] = s], total |-> (t.total + 1) % Word]
    BY <1>1, <1>2, <1>4, <1>6, <1>8 DEF Pushed, Chained
  <2> QED BY <2>1
<1>10. u.chain[c] = s /\ \A d \in Chains : d # c => u.chain[d] = t.chain[d]
  BY <1>1, <1>9 DEF Chained
<1>11. \A i \in 1..Len(old) : old[i].key # key
  BY <1>1, <1>4, <1>5 DEF Found, Matches
<1>12. \A i \in 1..Len(old) + 1 : i = 1 \/ \E j \in 1..Len(old) : i = j + 1
  <2> SUFFICES ASSUME NEW i \in 1..Len(old) + 1, i # 1
               PROVE  \E j \in 1..Len(old) : i = j + 1
    OBVIOUS
  <2>1. i - 1 \in 1..Len(old) /\ i = (i - 1) + 1
    BY <1>5
  <2> QED BY <2>1
<1>13. Chained(u)
  <2>1. u.chain \in [Chains -> Seq(BucketSet)]
    BY <1>7, <1>9 DEF Chained
  <2>2. ASSUME NEW d \in Chains, NEW i \in DOMAIN u.chain[d]
        PROVE  ChainOf(u.chain[d][i].key) = d
    <3>1. CASE d # c
      BY <1>10, <3>1 DEF Chained
    <3>2. CASE d = c /\ i = 1
      BY <1>1, <1>3, <1>7, <1>10, <3>2
    <3>3. CASE d = c /\ i # 1
      <4>1. PICK j \in 1..Len(old) : i = j + 1
        BY <1>7, <1>10, <1>12, <3>3
      <4>2. u.chain[d][i] = old[j]
        BY <1>7, <1>10, <3>3, <4>1
      <4>3. ChainOf(old[j].key) = c
        BY <1>4, <1>5 DEF Chained
      <4> QED BY <3>3, <4>2, <4>3
    <3> QED BY <3>1, <3>2, <3>3
  <2>3. ASSUME NEW d \in Chains, NEW i \in DOMAIN u.chain[d], NEW j \in DOMAIN u.chain[d],
               u.chain[d][i].key = u.chain[d][j].key
        PROVE  i = j
    <3>1. CASE d # c
      BY <1>10, <2>3, <3>1 DEF Chained
    <3>2. CASE d = c
      <4>1. i \in 1..Len(old) + 1 /\ j \in 1..Len(old) + 1 /\ s[i].key = s[j].key
        BY <1>7, <1>10, <2>3, <3>2
      <4>2. \A x \in 1..Len(old) + 1 : x # 1 => \E y \in 1..Len(old) : x = y + 1 /\ s[x] = old[y]
        BY <1>7, <1>12
      <4>3. CASE i = 1 \/ j = 1
        BY <1>3, <1>7, <1>11, <4>1, <4>2, <4>3
      <4>4. CASE i # 1 /\ j # 1
        <5>1. PICK a \in 1..Len(old) : i = a + 1 /\ s[i] = old[a]
          BY <4>1, <4>2, <4>4
        <5>2. PICK b \in 1..Len(old) : j = b + 1 /\ s[j] = old[b]
          BY <4>1, <4>2, <4>4
        <5>3. a = b
          BY <1>4, <1>5, <4>1, <5>1, <5>2 DEF Chained
        <5> QED BY <5>1, <5>2, <5>3
      <4> QED BY <4>3, <4>4
    <3> QED BY <3>1, <3>2
  <2>4. u.total \in Int
    BY <1>9, NumbersOfWord DEF Chained
  <2> QED BY <1>9, <2>1, <2>2, <2>3, <2>4 DEF Chained
<1>14. ASSUME NEW k \in Keys
       PROVE  /\ Found(u, k) <=> Found(t, k) \/ k = key
              /\ Lookup(u, k) = IF k = key THEN val ELSE Lookup(t, k)
  <2>1. PICK d \in Chains : d = ChainOf(k)
    BY ChainsOfKeys
  <2>2. CASE k = key
    <3>1. 1 \in DOMAIN u.chain[ChainOf(k)] /\ u.chain[ChainOf(k)][1] = new
      BY <1>1, <1>5, <1>7, <1>10, <2>2
    <3> QED BY <1>3, <1>13, <2>2, <3>1, BucketIsFound
  <2>3. CASE k # key /\ Found(t, k)
    <3>1. PICK i \in DOMAIN t.chain[d] : t.chain[d][i].key = k /\ Lookup(t, k) = t.chain[d][i].value
      BY <2>1, <2>3, FoundInBucket
    <3>2. PICK j \in DOMAIN u.chain[d] : u.chain[d][j] = t.chain[d][i]
      <4>1. CASE d # c
        BY <1>10, <4>1
      <4>2. CASE d = c
        <5>1. i \in 1..Len(old) /\ i + 1 \in 1..Len(old) + 1
          BY <1>4, <1>5, <4>2
        <5> QED BY <1>4, <1>7, <1>10, <4>2, <5>1
      <4> QED BY <4>1, <4>2
    <3>3. Found(u, k) /\ Lookup(u, k) = u.chain[d][j].value
      BY <1>13, <2>1, <3>1, <3>2, BucketIsFound
    <3> QED BY <2>3, <3>1, <3>2, <3>3
  <2>4. CASE k # key /\ ~ Found(t, k)
    <3>1. ~ Found(u, k)
      <4>1. SUFFICES ASSUME NEW j \in DOMAIN u.chain[d], u.chain[d][j].key = k
                     PROVE  FALSE
        BY <2>1 DEF Found, Matches
      <4>2. \A i \in DOMAIN t.chain[d] : t.chain[d][i].key # k
        BY <2>1, <2>4 DEF Found, Matches
      <4>3. CASE d # c
        BY <1>10, <4>1, <4>2, <4>3
      <4>4. CASE d = c
        <5>1. j \in 1..Len(old) + 1 /\ s[j].key = k
          BY <1>7, <1>10, <4>1, <4>4
        <5>2. j # 1
          BY <1>3, <1>7, <2>4, <5>1
        <5>3. PICK y \in 1..Len(old) : j = y + 1
          BY <1>12, <5>1, <5>2
        <5> QED BY <1>4, <1>5, <1>7, <4>2, <4>4, <5>1, <5>3
      <4> QED BY <4>3, <4>4
    <3> QED BY <2>4, <3>1 DEF Lookup
  <2> QED BY <2>2, <2>3, <2>4
<1> QED BY <1>8, <1>9, <1>13, <1>14

\* The map and the counter that a table stands for.
MapOf(t) == [elems |-> ElemsOf(t), total |-> t.total]

\* Storing in the buckets is storing in the map.
LEMMA StoreIsSetElem ==
  ASSUME NEW t, Chained(t), NEW key \in Keys, NEW val \in Elems \cup {Nil}
  PROVE  Chained(Store(t, key, val)) /\ MapOf(Store(t, key, val)) = SetElem(MapOf(t), key, val)
<1>1. PICK m : m = MapOf(t)
  OBVIOUS
<1>2. /\ m.elems = ElemsOf(t) /\ m.total = t.total /\ t.total \in Int
      /\ DOMAIN m.elems = {k \in Keys : Found(t, k)}
      /\ \A k \in DOMAIN m.elems : m.elems[k] = Lookup(t, k)
      /\ GetElem(m, key) = Lookup(t, key)
  BY <1>1, MapOfTable DEF MapOf, Chained
<1>3. Lookup(t, key).type # "nil" => Found(t, key)
  BY DEF Lookup, Nil
<1>4. ASSUME NEW u, Chained(u), NEW v \in Elems \cup {Nil},
             \A k \in Keys : /\ Found(u, k) <=> Found(t, k) \/ k = key
                             /\ Lookup(u, k) = IF k = key THEN v ELSE Lookup(t, k)
      PROVE  MapOf(u) = [elems |-> Bind(m, key, v), total |-> u.total]
  <2>1. PICK D : D = DOMAIN m.elems \cup {key}
    OBVIOUS
  <2>2. PICK e : e = [k \in D |-> IF k = key THEN v ELSE m.elems[k]]
    OBVIOUS
  <2>3. D \subseteq Keys /\ \A k \in Keys : Found(u, k) <=> k \in D
    BY <1>2, <1>4, <2>1
  <2>4. \A k \in D : Lookup(u, k) = e[k]
    BY <1>2, <1>4, <2>1, <2>2
  <2>5. ElemsOf(u) = [k \in D |-> e[k]]
    BY <1>4, <2>3, <2>4, SameMap
  <2>6. Bind(m, key, v) = [k \in D |-> e[k]]
    BY <2>1, <2>2 DEF Bind
  <2> QED BY <2>5, <2>6 DEF MapOf
<1>5. CASE val.type = "nil" /\ Lookup(t, key).type = "nil"
  BY <1>1, <1>2, <1>5 DEF Store, SetElem
<1>6. CASE val.type = "nil" /\ Lookup(t, key).type # "nil"
  <2>1. PICK u : u = Overwritten(t, key, Nil)
    OBVIOUS
  <2>2. /\ Chained(u) /\ u.total = t.total
        /\ \A k \in Keys : /\ Found(u, k) <=> Found(t, k)
                           /\ Lookup(u, k) = IF k = key THEN Nil ELSE Lookup(t, k)
    BY <1>3, <1>6, <2>1, OverwritingOne
  <2>3. PICK w : w = [u EXCEPT !.total = (@ - 1) % Word]
    OBVIOUS
  <2>4. /\ w = [chain |-> w.chain, total |-> w.total]
        /\ w.chain = u.chain /\ w.total = (t.total - 1) % Word /\ w.total \in Int
    <3>1. u = [chain |-> u.chain, total |-> u.total]
      BY <2>2 DEF Chained
    <3>2. w.chain = u.chain /\ w.total = (u.total - 1) % Word /\ w = [chain |-> w.chain, total |-> w.total]
      BY <2>3, <3>1
    <3> QED BY <1>2, <2>2, <3>2, NumbersOfWord
  <2>5. Chained(w)
    BY <2>2, <2>4 DEF Chained
  <2>6. \A k \in Keys : (Found(w, k) <=> Found(u, k)) /\ Lookup(w, k) = Lookup(u, k)
    BY <2>4 DEF Found, Lookup, Matches, Place
  <2>7. MapOf(w) = [elems |-> Bind(m, key, Nil), total |-> w.total]
    BY <1>3, <1>4, <1>6, <2>2, <2>5, <2>6
  <2>8. Store(t, key, val) = w
    BY <1>6, <2>1, <2>3 DEF Store
  <2> QED BY <1>1, <1>2, <1>6, <2>4, <2>5, <2>7, <2>8 DEF SetElem
<1>7. CASE val.type # "nil" /\ ~ Storable(key)
  BY <1>1, <1>7 DEF Store, SetElem
<1>8. CASE val.type # "nil" /\ Storable(key) /\ Found(t, key)
  <2>1. PICK u : u = Overwritten(t, key, val)
    OBVIOUS
  <2>2. /\ Chained(u) /\ u.total = t.total
        /\ \A k \in Keys : /\ Found(u, k) <=> Found(t, k) \/ k = key
                           /\ Lookup(u, k) = IF k = key THEN val ELSE Lookup(t, k)
    BY <1>8, <2>1, OverwritingOne
  <2>3. MapOf(u) = [elems |-> Bind(m, key, val), total |-> t.total]
    BY <1>4, <2>2
  <2>4. Store(t, key, val) = u
    BY <1>8, <2>1 DEF Store
  <2> QED BY <1>1, <1>2, <1>8, <2>2, <2>3, <2>4 DEF SetElem
<1>9. CASE val.type # "nil" /\ Storable(key) /\ ~ Found(t, key)
  <2>1. PICK u : u = Pushed(t, key, val)
    OBVIOUS
  <2>2. /\ Chained(u) /\ u.total = (t.total + 1) % Word
        /\ \A k \in Keys : /\ Found(u, k) <=> Found(t, k) \/ k = key
                           /\ Lookup(u, k) = IF k = key THEN val ELSE Lookup(t, k)
    BY <1>9, <2>1, PushingOne
  <2>3. MapOf(u) = [elems |-> Bind(m, key, val), total |-> (t.total + 1) % Word]
    BY <1>4, <2>2
  <2>4. Store(t, key, val) = u
    BY <1>9, <2>1 DEF Store
  <2> QED BY <1>1, <1>2, <1>9, <2>2, <2>3, <2>4 DEF SetElem
<1> QED BY <1>5, <1>6, <1>7, <1>8, <1>9

-----------------------------------------------------------------------------
(* Walks. *)

\* A nonempty set of natural numbers has a least element.
LEMMA LeastOfSet ==
  ASSUME NEW T, T \subseteq Nat, T # {}
  PROVE  \E x \in T : \A y \in T : x <= y
<1> DEFINE R == OpToRel(<, Nat)
<1>1. IsWellFoundedOn(R, Nat)
  BY NatLessThanWellFounded
<1>2. \A x, y \in Nat : x < y => <<x, y>> \in R
  BY DEF OpToRel
<1> HIDE DEF R
<1>3. PICK x \in T : \A y \in T : ~ (<<y, x>> \in R)
  BY <1>1, WFMin
<1>4. \A y \in T : ~ (y < x)
  BY <1>2, <1>3
<1> QED BY <1>3, <1>4

\* bs has each bucket of B once, and no two with one key.
Lists(bs, B) ==
  /\ bs \in Seq(BucketSet)
  /\ ToSet(bs) = B
  /\ \A i, j \in DOMAIN bs : bs[i].key = bs[j].key => i = j

LEMMA ConcatLists ==
  ASSUME NEW a, NEW A, Lists(a, A), NEW b, NEW B, Lists(b, B),
         \A x \in A, y \in B : x.key # y.key
  PROVE  Lists(a \o b, A \cup B)
<1>1. /\ a \in Seq(BucketSet) /\ DOMAIN a = 1..Len(a) /\ Len(a) \in Nat
      /\ b \in Seq(BucketSet) /\ DOMAIN b = 1..Len(b) /\ Len(b) \in Nat
  BY LenProperties DEF Lists
<1>2. PICK c : c = a \o b
  OBVIOUS
<1>3. /\ c \in Seq(BucketSet) /\ Len(c) = Len(a) + Len(b)
      /\ \A i \in 1..Len(a) + Len(b) : c[i] = IF i <= Len(a) THEN a[i] ELSE b[i - Len(a)]
  BY <1>1, <1>2, ConcatProperties
<1>4. DOMAIN c = 1..Len(a) + Len(b)
  BY <1>3, LenProperties
<1>5. \A i \in DOMAIN c : i <= Len(a) => i \in DOMAIN a /\ c[i] = a[i] /\ a[i] \in A
  BY <1>1, <1>3, <1>4 DEF Lists, ToSet
<1>6. \A i \in DOMAIN c : i > Len(a) => i - Len(a) \in DOMAIN b /\ c[i] = b[i - Len(a)] /\ b[i - Len(a)] \in B
  BY <1>1, <1>3, <1>4 DEF Lists, ToSet
<1>7. ToSet(c) = A \cup B
  <2>1. ASSUME NEW i \in DOMAIN a
        PROVE  i \in DOMAIN c /\ c[i] = a[i]
    BY <1>1, <1>3, <1>4
  <2>2. ASSUME NEW i \in DOMAIN b
        PROVE  i + Len(a) \in DOMAIN c /\ c[i + Len(a)] = b[i]
    <3>1. i + Len(a) \in 1..Len(a) + Len(b) /\ ~ (i + Len(a) <= Len(a)) /\ (i + Len(a)) - Len(a) = i
      BY <1>1
    <3> QED BY <1>3, <1>4, <3>1
  <2>3. \A x \in A \cup B : x \in ToSet(c)
    <3>1. \A x \in A : \E i \in DOMAIN a : x = a[i]
      BY DEF Lists, ToSet
    <3>2. \A x \in B : \E i \in DOMAIN b : x = b[i]
      BY DEF Lists, ToSet
    <3> QED BY <2>1, <2>2, <3>1, <3>2 DEF ToSet
  <2>4. \A i \in DOMAIN c : c[i] \in A \cup B
    <3>1. \A i \in DOMAIN c : i <= Len(a) \/ i > Len(a)
      BY <1>1, <1>4
    <3> QED BY <1>5, <1>6, <3>1
  <2> QED BY <2>3, <2>4 DEF ToSet
<1>8. ASSUME NEW i \in DOMAIN c, NEW j \in DOMAIN c, c[i].key = c[j].key
      PROVE  i = j
  <2>1. i \in Int /\ j \in Int /\ Len(a) \in Int
    BY <1>1, <1>4
  <2>2. CASE i <= Len(a) /\ j <= Len(a)
    BY <1>5, <1>8, <2>2 DEF Lists
  <2>3. CASE i > Len(a) /\ j > Len(a)
    <3>1. i - Len(a) = j - Len(a)
      BY <1>6, <1>8, <2>3 DEF Lists
    <3> QED BY <2>1, <3>1
  <2>4. CASE i <= Len(a) /\ j > Len(a)
    BY <1>5, <1>6, <1>8, <2>4
  <2>5. CASE i > Len(a) /\ j <= Len(a)
    BY <1>5, <1>6, <1>8, <2>5
  <2> QED BY <2>1, <2>2, <2>3, <2>4, <2>5
<1> QED BY <1>2, <1>3, <1>7, <1>8 DEF Lists

\* The sequences that FlattenSeq goes through.
Flat(f, m, seqs) == f = [i \in 1..m |-> IF i = 1 THEN seqs[i] ELSE f[i - 1] \o seqs[i]]

LEMMA FlattenUnfolds ==
  ASSUME NEW seqs, Len(seqs) # 0
  PROVE  FlattenSeq(seqs) = (CHOOSE f : Flat(f, Len(seqs), seqs))[Len(seqs)]
BY DEF FlattenSeq, Flat

LEMMA FlatExists ==
  ASSUME NEW seqs, NEW n \in Nat
  PROVE  \E f : Flat(f, n, seqs)
<1> DEFINE T == {m \in Nat : ~ \E f : Flat(f, m, seqs)}
<1> SUFFICES ASSUME T # {}
             PROVE  FALSE
  OBVIOUS
<1>1. T \subseteq Nat /\ \A m \in Nat : m \in T <=> ~ \E f : Flat(f, m, seqs)
  OBVIOUS
<1> HIDE DEF T
<1>2. PICK m \in T : \A y \in T : m <= y
  BY <1>1, LeastOfSet
<1>3. m \in Nat /\ ~ \E f : Flat(f, m, seqs)
  BY <1>1
<1>4. CASE m = 0
  <2>1. Flat([i \in 1..0 |-> seqs[i]], 0, seqs)
    BY DEF Flat
  <2> QED BY <1>3, <1>4, <2>1
<1>5. CASE m # 0
  <2>1. PICK k \in Nat : m = k + 1
    <3>1. m - 1 \in Nat /\ m = (m - 1) + 1
      BY <1>3, <1>5
    <3> QED BY <3>1
  <2>2. PICK f : Flat(f, k, seqs)
    <3>1. ~ (m <= k)
      BY <2>1
    <3> QED BY <1>1, <1>2, <3>1
  <2>3. PICK g : g = [i \in 1..k + 1 |-> IF i = 1 THEN seqs[i] ELSE f[i - 1] \o seqs[i]]
    OBVIOUS
  <2>4. ASSUME NEW i \in 1..k
        PROVE  g[i] = f[i]
    <3>1. i \in 1..k + 1
      BY <2>1
    <3> QED BY <2>2, <2>3, <2>4, <3>1 DEF Flat
  <2>5. ASSUME NEW i \in 1..k + 1
        PROVE  g[i] = IF i = 1 THEN seqs[i] ELSE g[i - 1] \o seqs[i]
    <3>1. i # 1 => i - 1 \in 1..k
      BY <2>1
    <3> QED BY <2>3, <2>4, <3>1
  <2>6. g = [i \in 1..k + 1 |-> g[i]]
    BY <2>3
  <2>7. Flat(g, k + 1, seqs)
    BY <2>5, <2>6 DEF Flat
  <2> QED BY <1>3, <2>1, <2>7
<1> QED BY <1>4, <1>5

\* What is in the first m of them.
Contents(seqs, m) == UNION {ToSet(seqs[h]) : h \in 1..m}

LEMMA FlattenLists ==
  ASSUME NEW n \in Nat \ {0}, NEW seqs, Len(seqs) = n,
         \A h \in 1..n : Lists(seqs[h], ToSet(seqs[h])),
         \A h, g \in 1..n : h # g => \A x \in ToSet(seqs[h]), y \in ToSet(seqs[g]) : x.key # y.key
  PROVE  Lists(FlattenSeq(seqs), Contents(seqs, n))
<1>1. PICK f : f = (CHOOSE f1 : Flat(f1, n, seqs))
  OBVIOUS
<1>2. Flat(f, n, seqs)
  BY <1>1, FlatExists
<1>3. FlattenSeq(seqs) = f[n]
  BY <1>1, FlattenUnfolds
<1> DEFINE T == {m \in 1..n : ~ Lists(f[m], Contents(seqs, m))}
<1>4. T = {}
  <2> SUFFICES ASSUME T # {}
               PROVE  FALSE
    OBVIOUS
  <2>1. T \subseteq Nat /\ \A m \in 1..n : m \in T <=> ~ Lists(f[m], Contents(seqs, m))
    OBVIOUS
  <2>2. T \subseteq 1..n
    OBVIOUS
  <2> HIDE DEF T
  <2>3. PICK m \in T : \A y \in T : m <= y
    BY <2>1, LeastOfSet
  <2>4. m \in 1..n /\ ~ Lists(f[m], Contents(seqs, m))
    BY <2>1, <2>2
  <2>5. CASE m = 1
    <3>1. f[1] = seqs[1]
      BY <1>2 DEF Flat
    <3>2. Contents(seqs, 1) = ToSet(seqs[1])
      BY DEF Contents
    <3> QED BY <2>4, <2>5, <3>1, <3>2
  <2>6. CASE m # 1
    <3>1. PICK k \in 1..n : m = k + 1 /\ ~ (m <= k)
      <4>1. m - 1 \in 1..n /\ m = (m - 1) + 1 /\ ~ (m <= m - 1)
        BY <2>4, <2>6
      <4> QED BY <4>1
    <3>2. Lists(f[k], Contents(seqs, k))
      BY <2>1, <2>3, <3>1
    <3>3. m - 1 = k
      BY <3>1
    <3>4. f[m] = f[k] \o seqs[m]
      BY <1>2, <2>4, <2>6, <3>3 DEF Flat
    <3>5. Contents(seqs, m) = Contents(seqs, k) \cup ToSet(seqs[m])
      <4>1. 1..m = 1..k \cup {m}
        BY <3>1
      <4> QED BY <4>1 DEF Contents
    <3>6. \A x \in Contents(seqs, k), y \in ToSet(seqs[m]) : x.key # y.key
      <4>1. \A h \in 1..k : h \in 1..n /\ h # m
        BY <3>1
      <4> QED BY <2>4, <4>1 DEF Contents
    <3>7. Lists(seqs[m], ToSet(seqs[m]))
      BY <2>4
    <3>8. Lists(f[k] \o seqs[m], Contents(seqs, k) \cup ToSet(seqs[m]))
      BY <3>2, <3>6, <3>7, ConcatLists
    <3> QED BY <2>4, <3>4, <3>5, <3>8
  <2> QED BY <2>5, <2>6
<1>5. n \in 1..n
  OBVIOUS
<1> HIDE DEF T
<1>6. \A m \in 1..n : m \in T <=> ~ Lists(f[m], Contents(seqs, m))
  BY DEF T
<1> QED BY <1>3, <1>4, <1>5, <1>6

-----------------------------------------------------------------------------
(* Storing buckets one after the other, in a new table. *)

IsFold(f, n, bs) ==
  f = [s \in SUBSET (1..n) |->
         IF s = {} THEN NewTable
         ELSE Store(f[s \ {Max(s)}], bs[Max(s)].key, bs[Max(s)].value)]

LEMMA FoldUnfolds ==
  ASSUME NEW bs, NEW n \in Nat, DOMAIN bs = 1..n
  PROVE  StoredIn(bs) = (CHOOSE f : IsFold(f, n, bs))[1..n]
BY DEF StoredIn, FoldLeft, MapThenFoldSet, IsFold

LEMMA GreatestIs ==
  ASSUME NEW k \in Nat, NEW s, s \subseteq 1..k + 1, k + 1 \in s
  PROVE  Max(s) = k + 1
<1>1. \A x \in s : x \in Nat /\ x <= k + 1 /\ k + 1 >= x
  OBVIOUS
<1>2. PICK m : m = Max(s)
  OBVIOUS
<1>3. m \in s /\ \A y \in s : m >= y
  BY <1>1, <1>2, Zenon DEF Max
<1>4. m >= k + 1 /\ m <= k + 1 /\ m \in Nat
  BY <1>1, <1>3
<1> QED BY <1>2, <1>4

LEMMA FoldExists ==
  ASSUME NEW bs, NEW n \in Nat
  PROVE  \E f : IsFold(f, n, bs)
<1> DEFINE T == {m \in Nat : ~ \E f : IsFold(f, m, bs)}
<1> SUFFICES ASSUME T # {}
             PROVE  FALSE
  OBVIOUS
<1>1. T \subseteq Nat /\ \A m \in Nat : m \in T <=> ~ \E f : IsFold(f, m, bs)
  OBVIOUS
<1> HIDE DEF T
<1>2. PICK m \in T : \A y \in T : m <= y
  BY <1>1, LeastOfSet
<1>3. m \in Nat /\ ~ \E f : IsFold(f, m, bs)
  BY <1>1
<1>4. CASE m = 0
  <2>1. PICK f : f = [s \in SUBSET (1..0) |-> NewTable]
    OBVIOUS
  <2>2. \A s \in SUBSET (1..0) : s = {}
    OBVIOUS
  <2>3. IsFold(f, 0, bs)
    BY <2>1, <2>2 DEF IsFold
  <2> QED BY <1>3, <1>4, <2>3
<1>5. CASE m # 0
  <2>1. PICK k \in Nat : m = k + 1
    <3>1. m - 1 \in Nat /\ m = (m - 1) + 1
      BY <1>3, <1>5
    <3> QED BY <3>1
  <2>2. PICK f : IsFold(f, k, bs)
    <3>1. ~ (m <= k)
      BY <2>1
    <3> QED BY <1>1, <1>2, <3>1
  <2>3. PICK l : l = k + 1
    OBVIOUS
  <2>4. PICK g : g = [s \in SUBSET (1..l) |->
                        IF l \in s THEN Store(f[s \ {l}], bs[l].key, bs[l].value) ELSE f[s]]
    OBVIOUS
  <2>5. 1..k \subseteq 1..l /\ l \notin 1..k /\ \A s \in SUBSET (1..l) : l \notin s => s \in SUBSET (1..k)
    <3>1. \A x \in 1..l : x # l => x \in 1..k
      BY <2>3
    <3>2. 1..k \subseteq 1..l /\ l \notin 1..k
      BY <2>3
    <3> QED BY <3>1, <3>2
  <2>6. \A s \in SUBSET (1..k) : g[s] = f[s]
    BY <2>4, <2>5
  <2>7. ASSUME NEW s \in SUBSET (1..l), s # {}
        PROVE  g[s] = Store(g[s \ {Max(s)}], bs[Max(s)].key, bs[Max(s)].value)
    <3>1. CASE l \in s
      <4>1. Max(s) = l
        BY <2>3, <3>1, GreatestIs
      <4>2. s \ {l} \in SUBSET (1..k)
        BY <2>5
      <4> QED BY <2>4, <2>6, <3>1, <4>1, <4>2
    <3>2. CASE l \notin s
      <4>1. s \in SUBSET (1..k) /\ s \ {Max(s)} \in SUBSET (1..k)
        BY <2>5, <3>2
      <4>2. f[s] = Store(f[s \ {Max(s)}], bs[Max(s)].key, bs[Max(s)].value)
        BY <2>2, <2>7, <4>1 DEF IsFold
      <4> QED BY <2>6, <4>1, <4>2
    <3> QED BY <3>1, <3>2
  <2>8. g[{}] = NewTable
    <3>1. {} \in SUBSET (1..k)
      OBVIOUS
    <3>2. f[{}] = NewTable
      BY <2>2, <3>1 DEF IsFold
    <3> QED BY <2>6, <3>1, <3>2
  <2>9. g = [s \in SUBSET (1..l) |-> g[s]]
    BY <2>4
  <2>10. IsFold(g, l, bs)
    BY <2>7, <2>8, <2>9 DEF IsFold
  <2> QED BY <1>3, <2>1, <2>3, <2>10
<1> QED BY <1>4, <1>5

\* The keys among the first m buckets whose elements are not deleted.
LiveKeys(bs, m) == {bs[i].key : i \in {j \in 1..m : bs[j].value.type # "nil"}}

\* t has the first m buckets that are not deleted, and no others.
Holds(t, bs, m) ==
  /\ Chained(t)
  /\ DOMAIN ElemsOf(t) = LiveKeys(bs, m)
  /\ \A i \in 1..m : bs[i].value.type # "nil" => ElemsOf(t)[bs[i].key] = bs[i].value
  /\ IsFiniteSet(LiveKeys(bs, m))
  /\ t.total = Cardinality(LiveKeys(bs, m)) % Word

LEMMA NewTableIsEmpty == Chained(NewTable) /\ MapOf(NewTable) = EmptyTable
<1>1. /\ NewTable.chain = [c \in Chains |-> <<>>] /\ NewTable.total = 0
      /\ NewTable = [chain |-> NewTable.chain, total |-> NewTable.total]
  BY DEF NewTable
<1>2. \A c \in Chains : NewTable.chain[c] = <<>> /\ DOMAIN NewTable.chain[c] = {}
  BY <1>1
<1>3. NewTable.chain \in [Chains -> Seq(BucketSet)]
  <2>1. <<>> \in Seq(BucketSet)
    BY EmptySeq
  <2> QED BY <1>1, <2>1
<1>4. Chained(NewTable)
  BY <1>1, <1>2, <1>3 DEF Chained
<1>5. \A key \in Keys : ~ Found(NewTable, key)
  BY <1>2, ChainsOfKeys DEF Found, Matches
<1>6. DOMAIN ElemsOf(NewTable) = {}
  BY <1>4, <1>5, MapOfTable
<1>7. ElemsOf(NewTable) = [k \in {} |-> Nil]
  BY <1>4, <1>6, MapOfTable
<1> QED BY <1>1, <1>4, <1>7 DEF MapOf, EmptyTable

LEMMA ModOfNext ==
  ASSUME NEW n \in Nat
  PROVE  ((n % Word) + 1) % Word = (n + 1) % Word
<1>1. Word \in Nat \ {0}
  BY HashAssumption
<1>2. \A x \in Nat : x = Word * (x \div Word) + (x % Word) /\ x % Word \in 0..Word - 1 /\ x \div Word \in Int
  BY <1>1
<1>3. PICK q \in Int, r \in 0..Word - 1 : n = Word * q + r /\ n % Word = r
  BY <1>2
<1>4. \A a, b \in Int, c, d \in 0..Word - 1 : Word * a + c = Word * b + d => c = d
  <2> SUFFICES ASSUME NEW a \in Int, NEW b \in Int, NEW c \in 0..Word - 1, NEW d \in 0..Word - 1,
                      Word * a + c = Word * b + d
               PROVE  c = d
    OBVIOUS
  <2>1. Word * (a - b) = d - c
    BY <1>1
  <2>2. a - b >= 1 => Word * (a - b) >= Word
    BY <1>1
  <2>3. a - b <= -1 => Word * (a - b) <= -Word
    BY <1>1
  <2>4. a - b = 0 => Word * (a - b) = 0
    BY <1>1
  <2> QED BY <1>1, <2>1, <2>2, <2>3, <2>4
<1>5. PICK p \in Int, t \in 0..Word - 1 : n + 1 = Word * p + t /\ (n + 1) % Word = t
  BY <1>2
<1>6. CASE r + 1 < Word
  <2>1. n + 1 = Word * q + (r + 1) /\ r + 1 \in 0..Word - 1 /\ (r + 1) % Word = r + 1
    BY <1>1, <1>3, <1>6
  <2>2. Word * q + (r + 1) = Word * p + t
    BY <1>5, <2>1
  <2> QED BY <1>3, <1>4, <1>5, <2>1, <2>2
<1>7. CASE r + 1 = Word
  <2>1. n + 1 = Word * (q + 1) + 0 /\ 0 \in 0..Word - 1 /\ q + 1 \in Int
    BY <1>1, <1>3, <1>7
  <2>2. Word % Word = 0
    BY <1>1
  <2>3. t = 0
    BY <1>4, <1>5, <2>1
  <2> QED BY <1>3, <1>5, <1>7, <2>2, <2>3
<1> QED BY <1>1, <1>6, <1>7

\* One more bucket is stored.
LEMMA HoldsOneMore ==
  ASSUME NEW bs, NEW B, Lists(bs, B), \A b \in B : Storable(b.key),
         NEW m \in Nat, m + 1 \in DOMAIN bs, NEW t, Holds(t, bs, m)
  PROVE  Holds(Store(t, bs[m + 1].key, bs[m + 1].value), bs, m + 1)
<1>1. PICK l : l = m + 1
  OBVIOUS
<1>2. PICK key, val : key = bs[l].key /\ val = bs[l].value
  OBVIOUS
<1>3. DOMAIN bs = 1..Len(bs) /\ Len(bs) \in Nat /\ \A i \in 1..Len(bs) : bs[i] \in BucketSet /\ bs[i] \in B
  BY LenProperties, ElementOfSeq DEF Lists, ToSet
<1>4. bs[l] \in BucketSet /\ key \in Keys /\ val \in Elems \cup {Nil} /\ Storable(key)
  BY <1>1, <1>2, <1>3 DEF BucketSet
<1>5. PICK u : u = Store(t, key, val)
  OBVIOUS
<1>6. Chained(t) /\ Chained(u) /\ MapOf(u) = SetElem(MapOf(t), key, val)
  BY <1>4, <1>5, StoreIsSetElem DEF Holds
<1>7. 1..l = 1..m \cup {l} /\ l \notin 1..m /\ 1..l \subseteq DOMAIN bs
  BY <1>1, <1>3
<1>8. \A i \in 1..m : bs[i].key # key
  BY <1>1, <1>2, <1>7 DEF Lists
<1>9. key \notin LiveKeys(bs, m)
  BY <1>8 DEF LiveKeys
<1>10. PICK w : w = MapOf(t)
  OBVIOUS
<1>11. /\ w.elems = ElemsOf(t) /\ w.total = t.total /\ w = [elems |-> w.elems, total |-> w.total]
       /\ DOMAIN w.elems = LiveKeys(bs, m)
       /\ \A i \in 1..m : bs[i].value.type # "nil" => w.elems[bs[i].key] = bs[i].value
       /\ GetElem(w, key) = Nil
  BY <1>9, <1>10 DEF MapOf, Holds, GetElem
<1>12. ElemsOf(u) = MapOf(u).elems /\ u.total = MapOf(u).total
  BY DEF MapOf
<1>13. CASE val.type = "nil"
  <2>1. LiveKeys(bs, l) = LiveKeys(bs, m)
    BY <1>2, <1>7, <1>13 DEF LiveKeys
  <2>2. MapOf(u) = w
    BY <1>6, <1>10, <1>11, <1>13 DEF SetElem, Nil
  <2>3. \A i \in 1..l : bs[i].value.type # "nil" => i \in 1..m
    BY <1>2, <1>7, <1>13
  <2>4. Holds(u, bs, l)
    BY <1>6, <1>11, <1>12, <2>1, <2>2, <2>3 DEF Holds
  <2> QED BY <1>1, <1>2, <1>5, <2>4
<1>14. CASE val.type # "nil"
  <2>1. LiveKeys(bs, l) = LiveKeys(bs, m) \cup {key}
    BY <1>2, <1>7, <1>14 DEF LiveKeys
  <2>2. MapOf(u) = [elems |-> Bind(w, key, val), total |-> (t.total + 1) % Word]
    BY <1>4, <1>6, <1>9, <1>10, <1>11, <1>14 DEF SetElem
  <2>3. /\ ElemsOf(u) = [k \in LiveKeys(bs, l) |-> IF k = key THEN val ELSE w.elems[k]]
        /\ u.total = (t.total + 1) % Word
    BY <1>11, <1>12, <2>1, <2>2 DEF Bind
  <2>4. DOMAIN ElemsOf(u) = LiveKeys(bs, l)
    BY <2>3
  <2>5. ASSUME NEW i \in 1..l, bs[i].value.type # "nil"
        PROVE  ElemsOf(u)[bs[i].key] = bs[i].value
    <3>1. CASE i = l
      BY <1>2, <2>1, <2>3, <3>1
    <3>2. CASE i \in 1..m
      <4>1. bs[i].key \in LiveKeys(bs, m) /\ bs[i].key # key
        BY <1>8, <2>5, <3>2 DEF LiveKeys
      <4> QED BY <1>11, <2>1, <2>3, <2>5, <3>2, <4>1
    <3> QED BY <1>7, <3>1, <3>2
  <2>6. IsFiniteSet(LiveKeys(bs, m)) /\ t.total = Cardinality(LiveKeys(bs, m)) % Word
    BY DEF Holds
  <2>7. /\ IsFiniteSet(LiveKeys(bs, l)) /\ Cardinality(LiveKeys(bs, m)) \in Nat
        /\ Cardinality(LiveKeys(bs, l)) = Cardinality(LiveKeys(bs, m)) + 1
    BY <1>9, <2>1, <2>6, FS_AddElement, FS_CardinalityType
  <2>8. u.total = Cardinality(LiveKeys(bs, l)) % Word
    BY <2>3, <2>6, <2>7, ModOfNext
  <2>9. Holds(u, bs, l)
    BY <1>6, <2>4, <2>5, <2>7, <2>8 DEF Holds
  <2> QED BY <1>1, <1>2, <1>5, <2>9
<1> QED BY <1>13, <1>14

LEMMA AllAreStored ==
  ASSUME NEW bs, NEW B, Lists(bs, B), \A b \in B : Storable(b.key)
  PROVE  Holds(StoredIn(bs), bs, Len(bs))
<1>1. DOMAIN bs = 1..Len(bs) /\ Len(bs) \in Nat
  BY LenProperties DEF Lists
<1>2. PICK n : n = Len(bs)
  OBVIOUS
<1>3. PICK f : f = (CHOOSE f1 : IsFold(f1, n, bs))
  OBVIOUS
<1>4. IsFold(f, n, bs) /\ StoredIn(bs) = f[1..n]
  BY <1>1, <1>2, <1>3, FoldExists, FoldUnfolds
<1> DEFINE T == {m \in 0..n : ~ Holds(f[1..m], bs, m)}
<1>5. T = {}
  <2> SUFFICES ASSUME T # {}
               PROVE  FALSE
    OBVIOUS
  <2>1. T \subseteq Nat /\ T \subseteq 0..n /\ \A m \in 0..n : m \in T <=> ~ Holds(f[1..m], bs, m)
    OBVIOUS
  <2> HIDE DEF T
  <2>2. PICK m \in T : \A y \in T : m <= y
    BY <2>1, LeastOfSet
  <2>3. m \in 0..n /\ ~ Holds(f[1..m], bs, m)
    BY <2>1
  <2>4. CASE m = 0
    <3>1. 1..0 = {} /\ {} \in SUBSET (1..n)
      OBVIOUS
    <3>2. f[1..0] = NewTable
      BY <1>4, <3>1 DEF IsFold
    <3>3. LiveKeys(bs, 0) = {}
      BY DEF LiveKeys
    <3>4. 0 % Word = 0
      BY HashAssumption
    <3>5. ElemsOf(NewTable) = [k \in {} |-> Nil] /\ NewTable.total = 0
      BY NewTableIsEmpty DEF MapOf, EmptyTable
    <3>6. DOMAIN ElemsOf(NewTable) = {}
      BY <3>5
    <3>7. Holds(NewTable, bs, 0)
      BY <3>1, <3>3, <3>4, <3>5, <3>6, NewTableIsEmpty, FS_EmptySet DEF Holds
    <3> QED BY <2>3, <2>4, <3>2, <3>7
  <2>5. CASE m # 0
    <3>1. PICK k \in 0..n : m = k + 1 /\ ~ (m <= k)
      <4>1. m - 1 \in 0..n /\ m = (m - 1) + 1 /\ ~ (m <= m - 1)
        BY <1>1, <1>2, <2>3, <2>5
      <4> QED BY <4>1
    <3>2. Holds(f[1..k], bs, k)
      BY <2>1, <2>2, <3>1
    <3>3. /\ 1..m \in SUBSET (1..n) /\ 1..m # {} /\ (1..m) \ {m} = 1..k /\ k \in Nat
          /\ 1..m \subseteq 1..k + 1 /\ k + 1 \in 1..m /\ m \in DOMAIN bs
      <4>1. m \in 1..m /\ m \in Nat /\ n \in Nat /\ k \in Nat /\ m <= n /\ m = k + 1
        BY <1>1, <1>2, <2>3, <2>5, <3>1
      <4>2. 1..m \subseteq 1..n /\ m \in 1..n
        BY <4>1
      <4>3. (1..m) \ {m} = 1..k
        BY <4>1
      <4> QED BY <1>1, <1>2, <4>1, <4>2, <4>3
    <3>4. Max(1..m) = m
      BY <3>1, <3>3, GreatestIs
    <3>5. f[1..m] = Store(f[1..k], bs[m].key, bs[m].value)
      BY <1>4, <3>3, <3>4 DEF IsFold
    <3>6. Holds(Store(f[1..k], bs[m].key, bs[m].value), bs, m)
      BY <3>1, <3>2, <3>3, HoldsOneMore
    <3> QED BY <2>3, <3>5, <3>6
  <2> QED BY <2>4, <2>5
<1> HIDE DEF T
<1>6. \A m \in 0..n : m \in T <=> ~ Holds(f[1..m], bs, m)
  BY DEF T
<1>7. n \in 0..n
  BY <1>1, <1>2
<1> QED BY <1>2, <1>4, <1>5, <1>6, <1>7

-----------------------------------------------------------------------------
(* The copy of a table. *)

\* The buckets of one of the two arrays that are walked through.
InArray(t, array) == UNION {ToSet(t.chain[<<array, h>>]) : h \in Slots}

LEMMA WalkLists ==
  ASSUME NEW t, Chained(t), NEW array \in {"strIndexed", "numIndexed"}
  PROVE  Lists(Walk(t, array), InArray(t, array))
<1>1. PICK n : n = HashSize
  OBVIOUS
<1>2. n \in Nat \ {0} /\ Slots = 0..n - 1
  BY <1>1, HashAssumption DEF Slots
<1>3. PICK seqs : seqs = [h \in 1..n |-> t.chain[<<array, h - 1>>]]
  OBVIOUS
<1>4. \A h \in 1..n : h - 1 \in Slots /\ <<array, h - 1>> \in Chains
  <2>1. \A h \in 1..n : h - 1 \in Slots
    BY <1>2
  <2> QED BY <2>1 DEF Chains
<1>5. ASSUME NEW h \in 1..n
      PROVE  Lists(seqs[h], ToSet(seqs[h])) /\ \A x \in ToSet(seqs[h]) : ChainOf(x.key) = <<array, h - 1>>
  <2>1. PICK c \in Chains : c = <<array, h - 1>>
    BY <1>4
  <2>2. seqs[h] = t.chain[c]
    BY <1>3, <2>1
  <2>3. Lists(t.chain[c], ToSet(t.chain[c]))
    BY ChainsAreSequences DEF Lists, Chained
  <2>4. \A x \in ToSet(t.chain[c]) : ChainOf(x.key) = c
    BY DEF ToSet, Chained
  <2> QED BY <2>1, <2>2, <2>3, <2>4
<1>6. ASSUME NEW h \in 1..n, NEW g \in 1..n, h # g, NEW x \in ToSet(seqs[h]), NEW y \in ToSet(seqs[g])
      PROVE  x.key # y.key
  <2>1. <<array, h - 1>> # <<array, g - 1>>
    <3>1. h - 1 # g - 1
      BY <1>6
    <3> QED BY <3>1
  <2> QED BY <1>5, <2>1
<1>7. seqs \in Seq(Seq(BucketSet)) /\ Len(seqs) = n
  <2>1. \A h \in 1..n : t.chain[<<array, h - 1>>] \in Seq(BucketSet)
    BY <1>4, ChainsAreSequences
  <2>2. seqs \in [1..n -> Seq(BucketSet)]
    BY <1>3, <2>1
  <2> QED BY <1>2, <2>2, SeqDef
<1>8. Lists(FlattenSeq(seqs), Contents(seqs, n))
  BY <1>2, <1>5, <1>6, <1>7, FlattenLists
<1>9. Contents(seqs, n) = InArray(t, array)
  <2>1. \A h \in 1..n : ToSet(seqs[h]) = ToSet(t.chain[<<array, h - 1>>]) /\ h - 1 \in Slots
    BY <1>3, <1>4
  <2>2. ASSUME NEW x \in Contents(seqs, n)
        PROVE  x \in InArray(t, array)
    <3>1. PICK h \in 1..n : x \in ToSet(seqs[h])
      BY <2>2 DEF Contents
    <3>2. PICK g \in Slots : g = h - 1
      BY <2>1
    <3>3. x \in ToSet(t.chain[<<array, g>>])
      BY <2>1, <3>1, <3>2
    <3> QED BY <3>3 DEF InArray
  <2>3. ASSUME NEW x \in InArray(t, array)
        PROVE  x \in Contents(seqs, n)
    <3>1. PICK g \in Slots : x \in ToSet(t.chain[<<array, g>>])
      BY <2>3 DEF InArray
    <3>2. PICK h \in 1..n : g = h - 1
      BY <1>2, g + 1 \in 1..n, (g + 1) - 1 = g
    <3>3. x \in ToSet(seqs[h])
      BY <2>1, <3>1, <3>2
    <3> QED BY <3>3 DEF Contents
  <2> QED BY <2>2, <2>3
<1> QED BY <1>1, <1>3, <1>8, <1>9 DEF Walk

\* The keys of one array are of one type.
LEMMA ArrayKeys ==
  ASSUME NEW t, Chained(t), NEW array \in {"strIndexed", "numIndexed"}, NEW b \in InArray(t, array)
  PROVE  /\ b \in AllBuckets(t) /\ b.key \in Keys
         /\ b.key.type = IF array = "strIndexed" THEN "string" ELSE "number"
<1>1. PICK h \in Slots : b \in ToSet(t.chain[<<array, h>>])
  BY DEF InArray
<1>2. PICK c \in Chains : c = <<array, h>>
  BY DEF Chains
<1>3. b \in AllBuckets(t) /\ ChainOf(b.key) = c
  BY <1>1, <1>2 DEF AllBuckets, Chained, ToSet
<1>4. b.key \in Keys
  BY <1>3, BucketsAre DEF BucketSet
<1>5. b.key.type = IF array = "strIndexed" THEN "string" ELSE "number"
  BY <1>2, <1>3 DEF ChainOf
<1> QED BY <1>3, <1>4, <1>5

\* What the copy goes through.
CopiedOf(t) == Walk(t, "strIndexed") \o Walk(t, "numIndexed")

LEMMA CopiedBuckets ==
  ASSUME NEW t, Chained(t)
  PROVE  /\ Lists(CopiedOf(t), InArray(t, "strIndexed") \cup InArray(t, "numIndexed"))
         /\ \A b \in InArray(t, "strIndexed") \cup InArray(t, "numIndexed") :
              b \in AllBuckets(t) /\ b.key.type \in {"string", "number"}
         /\ \A b \in AllBuckets(t) : b.key.type \in {"string", "number"} =>
              b \in InArray(t, "strIndexed") \cup InArray(t, "numIndexed")
<1>1. ASSUME NEW array \in {"strIndexed", "numIndexed"}, NEW b \in InArray(t, array)
      PROVE  /\ b \in AllBuckets(t) /\ b.key \in Keys
             /\ b.key.type = IF array = "strIndexed" THEN "string" ELSE "number"
  BY <1>1, ArrayKeys
<1>2. \A x \in InArray(t, "strIndexed"), y \in InArray(t, "numIndexed") : x.key # y.key
  BY <1>1
<1>3. Lists(CopiedOf(t), InArray(t, "strIndexed") \cup InArray(t, "numIndexed"))
  BY <1>2, WalkLists, ConcatLists DEF CopiedOf
<1>4. ASSUME NEW b \in AllBuckets(t), b.key.type \in {"string", "number"}
      PROVE  b \in InArray(t, "strIndexed") \cup InArray(t, "numIndexed")
  <2>1. PICK c \in Chains : b \in ToSet(t.chain[c])
    BY DEF AllBuckets
  <2>2. ChainOf(b.key) = c
    BY <2>1 DEF Chained, ToSet
  <2>3. b.key \in Keys
    BY BucketsAre DEF BucketSet
  <2>4. CASE b.key.type = "string"
    <3>1. c = <<"strIndexed", HashStr[b.key.strVal]>> /\ HashStr[b.key.strVal] \in Slots
      BY <2>2, <2>3, <2>4, HashAssumption DEF ChainOf
    <3> QED BY <2>1, <3>1 DEF InArray
  <2>5. CASE b.key.type = "number"
    <3>1. c = <<"numIndexed", HashNum[b.key.numVal]>> /\ HashNum[b.key.numVal] \in Slots
      BY <2>2, <2>3, <2>5, HashAssumption DEF ChainOf
    <3> QED BY <2>1, <3>1 DEF InArray
  <2> QED BY <1>4, <2>4, <2>5
<1> QED BY <1>1, <1>3, <1>4

\* Copying the buckets is copying the map: the copy has the elements that
\* are not deleted, and counts them.
LEMMA CopyIsCopyOf ==
  ASSUME NEW t, Chained(t)
  PROVE  Chained(CopyTable(t)) /\ MapOf(CopyTable(t)) = CopyOf(MapOf(t))
<1>1. PICK bs : bs = CopiedOf(t)
  OBVIOUS
<1>2. PICK B : B = InArray(t, "strIndexed") \cup InArray(t, "numIndexed")
  OBVIOUS
<1>3. PICK u : u = CopyTable(t)
  OBVIOUS
<1>4. u = StoredIn(bs)
  BY <1>1, <1>3 DEF CopyTable, CopiedOf, StoredIn
<1>5. /\ Lists(bs, B)
      /\ \A b \in B : b \in AllBuckets(t) /\ b.key.type \in {"string", "number"}
      /\ \A b \in AllBuckets(t) : b.key.type \in {"string", "number"} => b \in B
  BY <1>1, <1>2, CopiedBuckets
<1>6. \A b \in B : Storable(b.key)
  BY <1>5 DEF Storable
<1>7. PICK n : n = Len(bs)
  OBVIOUS
<1>8. Holds(u, bs, n)
  BY <1>4, <1>5, <1>6, <1>7, AllAreStored
<1>9. DOMAIN bs = 1..n
  BY <1>5, <1>7, LenProperties DEF Lists
<1>10. /\ \A i \in 1..n : bs[i] \in B
       /\ \A b \in B : \E i \in 1..n : b = bs[i]
  BY <1>5, <1>9 DEF Lists, ToSet
<1>11. PICK m : m = MapOf(t)
  OBVIOUS
<1>12. PICK kept : kept = {k \in Members(m) : k.type \in {"string", "number"}}
  OBVIOUS
<1>13. /\ DOMAIN m.elems = {k \in Keys : Found(t, k)}
       /\ \A k \in DOMAIN m.elems : m.elems[k] = Lookup(t, k)
  BY <1>11, MapOfTable DEF MapOf
<1>14. \A b \in B : b.key \in DOMAIN m.elems /\ m.elems[b.key] = b.value
  BY <1>5, <1>13, BucketsAre DEF BucketSet
<1>15. LiveKeys(bs, n) \subseteq kept
  <2> SUFFICES ASSUME NEW i \in 1..n, bs[i].value.type # "nil"
               PROVE  bs[i].key \in kept
    BY DEF LiveKeys
  <2> QED BY <1>5, <1>10, <1>12, <1>14 DEF Members
<1>16. kept \subseteq LiveKeys(bs, n)
  <2> SUFFICES ASSUME NEW k \in kept
               PROVE  k \in LiveKeys(bs, n)
    OBVIOUS
  <2>1. k \in DOMAIN m.elems /\ m.elems[k].type # "nil" /\ k.type \in {"string", "number"}
    BY <1>12 DEF Members
  <2>2. k \in Keys /\ Found(t, k) /\ m.elems[k] = Lookup(t, k)
    BY <1>13, <2>1
  <2>3. PICK b \in AllBuckets(t) : b.key = k /\ b.value = Lookup(t, k)
    BY <2>2, BucketsAre
  <2>4. b \in B /\ b.value.type # "nil"
    BY <1>5, <2>1, <2>2, <2>3
  <2>5. PICK i \in 1..n : b = bs[i]
    BY <1>10, <2>4
  <2> QED BY <2>3, <2>4, <2>5 DEF LiveKeys
<1>17. LiveKeys(bs, n) = kept
  BY <1>15, <1>16
<1>18. \A k \in kept : ElemsOf(u)[k] = m.elems[k]
  <2> SUFFICES ASSUME NEW i \in 1..n, bs[i].value.type # "nil"
               PROVE  ElemsOf(u)[bs[i].key] = m.elems[bs[i].key]
    BY <1>17 DEF LiveKeys
  <2> QED BY <1>8, <1>10, <1>14 DEF Holds
<1>19. Chained(u) /\ DOMAIN ElemsOf(u) = kept /\ u.total = Cardinality(kept) % Word
  BY <1>8, <1>17 DEF Holds
<1>20. ElemsOf(u) = [k \in kept |-> m.elems[k]]
  <2>1. ElemsOf(u) = [k \in DOMAIN ElemsOf(u) |-> ElemsOf(u)[k]]
    BY <1>19, MapOfTable
  <2>2. ElemsOf(u) = [k \in kept |-> ElemsOf(u)[k]]
    BY <1>19, <2>1
  <2> QED BY <1>18, <2>2
<1>21. MapOf(u) = CopyOf(m)
  BY <1>12, <1>19, <1>20 DEF MapOf, CopyOf
<1> QED BY <1>3, <1>11, <1>19, <1>21

-----------------------------------------------------------------------------
(* What is left of a walk without the deleted elements. *)

Kept(b, s) == IF b.value.type # "nil" THEN Append(s, b) ELSE s

IsLive(f, n, bs) ==
  f = [s \in SUBSET (1..n) |-> IF s = {} THEN <<>> ELSE Kept(bs[Max(s)], f[s \ {Max(s)}])]

LEMMA LiveUnfolds ==
  ASSUME NEW bs, NEW n \in Nat, DOMAIN bs = 1..n
  PROVE  Live(bs) = (CHOOSE f : IsLive(f, n, bs))[1..n]
BY DEF Live, FoldLeft, MapThenFoldSet, IsLive, Kept

LEMMA LiveExists ==
  ASSUME NEW bs, NEW n \in Nat
  PROVE  \E f : IsLive(f, n, bs)
<1> DEFINE T == {m \in Nat : ~ \E f : IsLive(f, m, bs)}
<1> SUFFICES ASSUME T # {}
             PROVE  FALSE
  OBVIOUS
<1>1. T \subseteq Nat /\ \A m \in Nat : m \in T <=> ~ \E f : IsLive(f, m, bs)
  OBVIOUS
<1> HIDE DEF T
<1>2. PICK m \in T : \A y \in T : m <= y
  BY <1>1, LeastOfSet
<1>3. m \in Nat /\ ~ \E f : IsLive(f, m, bs)
  BY <1>1
<1>4. CASE m = 0
  <2>1. PICK f : f = [s \in SUBSET (1..0) |-> <<>>]
    OBVIOUS
  <2>2. \A s \in SUBSET (1..0) : s = {}
    OBVIOUS
  <2>3. IsLive(f, 0, bs)
    BY <2>1, <2>2 DEF IsLive
  <2> QED BY <1>3, <1>4, <2>3
<1>5. CASE m # 0
  <2>1. PICK k \in Nat : m = k + 1
    <3>1. m - 1 \in Nat /\ m = (m - 1) + 1
      BY <1>3, <1>5
    <3> QED BY <3>1
  <2>2. PICK f : IsLive(f, k, bs)
    <3>1. ~ (m <= k)
      BY <2>1
    <3> QED BY <1>1, <1>2, <3>1
  <2>3. PICK l : l = k + 1
    OBVIOUS
  <2>4. PICK g : g = [s \in SUBSET (1..l) |->
                        IF l \in s THEN Kept(bs[l], f[s \ {l}]) ELSE f[s]]
    OBVIOUS
  <2>5. 1..k \subseteq 1..l /\ l \notin 1..k /\ \A s \in SUBSET (1..l) : l \notin s => s \in SUBSET (1..k)
    <3>1. \A x \in 1..l : x # l => x \in 1..k
      BY <2>3
    <3>2. 1..k \subseteq 1..l /\ l \notin 1..k
      BY <2>3
    <3> QED BY <3>1, <3>2
  <2>6. \A s \in SUBSET (1..k) : g[s] = f[s]
    BY <2>4, <2>5
  <2>7. ASSUME NEW s \in SUBSET (1..l), s # {}
        PROVE  g[s] = Kept(bs[Max(s)], g[s \ {Max(s)}])
    <3>1. CASE l \in s
      <4>1. Max(s) = l
        BY <2>3, <3>1, GreatestIs
      <4>2. s \ {l} \in SUBSET (1..k)
        BY <2>5
      <4> QED BY <2>4, <2>6, <3>1, <4>1, <4>2
    <3>2. CASE l \notin s
      <4>1. s \in SUBSET (1..k) /\ s \ {Max(s)} \in SUBSET (1..k)
        BY <2>5, <3>2
      <4>2. f[s] = Kept(bs[Max(s)], f[s \ {Max(s)}])
        BY <2>2, <2>7, <4>1 DEF IsLive
      <4> QED BY <2>6, <4>1, <4>2
    <3> QED BY <3>1, <3>2
  <2>8. g[{}] = <<>>
    <3>1. {} \in SUBSET (1..k)
      OBVIOUS
    <3>2. f[{}] = <<>>
      BY <2>2, <3>1 DEF IsLive
    <3> QED BY <2>6, <3>1, <3>2
  <2>9. g = [s \in SUBSET (1..l) |-> g[s]]
    BY <2>4
  <2>10. IsLive(g, l, bs)
    BY <2>7, <2>8, <2>9 DEF IsLive
  <2> QED BY <1>3, <2>1, <2>3, <2>10
<1> QED BY <1>4, <1>5

\* The buckets among the first m whose elements are not deleted.
LiveAmong(bs, m) == {b \in {bs[i] : i \in 1..m} : b.value.type # "nil"}

LEMMA ListOfOne ==
  ASSUME NEW b \in BucketSet
  PROVE  Lists(<<b>>, {b})
<1>1. PICK s : s = <<b>>
  OBVIOUS
<1>2. s \in Seq(BucketSet) /\ Len(s) = 1 /\ DOMAIN s = {1} /\ s[1] = b
  BY <1>1
<1> QED BY <1>1, <1>2 DEF Lists, ToSet

LEMMA EmptyList == Lists(<<>>, {})
<1>1. PICK s : s = <<>>
  OBVIOUS
<1>2. s \in Seq(BucketSet) /\ DOMAIN s = {}
  BY <1>1, EmptySeq
<1> QED BY <1>1, <1>2 DEF Lists, ToSet

LEMMA LiveLists ==
  ASSUME NEW bs, NEW B, Lists(bs, B)
  PROVE  Lists(Live(bs), {b \in B : b.value.type # "nil"})
<1>1. DOMAIN bs = 1..Len(bs) /\ Len(bs) \in Nat /\ \A i \in DOMAIN bs : bs[i] \in BucketSet
  BY LenProperties, ElementOfSeq DEF Lists
<1>2. PICK n : n = Len(bs)
  OBVIOUS
<1>3. PICK f : f = (CHOOSE f1 : IsLive(f1, n, bs))
  OBVIOUS
<1>4. IsLive(f, n, bs) /\ Live(bs) = f[1..n]
  BY <1>1, <1>2, <1>3, LiveExists, LiveUnfolds
<1> DEFINE T == {m \in 0..n : ~ Lists(f[1..m], LiveAmong(bs, m))}
<1>5. T = {}
  <2> SUFFICES ASSUME T # {}
               PROVE  FALSE
    OBVIOUS
  <2>1. T \subseteq Nat /\ T \subseteq 0..n /\ \A m \in 0..n : m \in T <=> ~ Lists(f[1..m], LiveAmong(bs, m))
    OBVIOUS
  <2> HIDE DEF T
  <2>2. PICK m \in T : \A y \in T : m <= y
    BY <2>1, LeastOfSet
  <2>3. m \in 0..n /\ ~ Lists(f[1..m], LiveAmong(bs, m))
    BY <2>1
  <2>4. CASE m = 0
    <3>1. 1..0 = {} /\ {} \in SUBSET (1..n)
      OBVIOUS
    <3>2. f[1..0] = <<>>
      BY <1>4, <3>1 DEF IsLive
    <3>3. LiveAmong(bs, 0) = {}
      BY DEF LiveAmong
    <3> QED BY <2>3, <2>4, <3>2, <3>3, EmptyList
  <2>5. CASE m # 0
    <3>1. PICK k \in 0..n : m = k + 1 /\ ~ (m <= k)
      <4>1. m - 1 \in 0..n /\ m = (m - 1) + 1 /\ ~ (m <= m - 1)
        BY <1>1, <1>2, <2>3, <2>5
      <4> QED BY <4>1
    <3>2. Lists(f[1..k], LiveAmong(bs, k))
      BY <2>1, <2>2, <3>1
    <3>3. /\ 1..m \in SUBSET (1..n) /\ 1..m # {} /\ (1..m) \ {m} = 1..k /\ k \in Nat
          /\ 1..m \subseteq 1..k + 1 /\ k + 1 \in 1..m /\ m \in DOMAIN bs
          /\ 1..m = 1..k \cup {m} /\ 1..k \subseteq DOMAIN bs /\ m \notin 1..k
      <4>1. m \in 1..m /\ m \in Nat /\ n \in Nat /\ k \in Nat /\ m <= n /\ m = k + 1
        BY <1>1, <1>2, <2>3, <2>5, <3>1
      <4>2. 1..m \subseteq 1..n /\ m \in 1..n
        BY <4>1
      <4>3. (1..m) \ {m} = 1..k
        BY <4>1
      <4> QED BY <1>1, <1>2, <4>1, <4>2, <4>3
    <3>4. Max(1..m) = m
      BY <3>1, <3>3, GreatestIs
    <3>5. f[1..m] = Kept(bs[m], f[1..k])
      BY <1>4, <3>3, <3>4 DEF IsLive
    <3>6. PICK b : b = bs[m]
      OBVIOUS
    <3>7. b \in BucketSet
      BY <1>1, <3>3, <3>6
    <3>8. CASE b.value.type # "nil"
      <4>1. LiveAmong(bs, m) = LiveAmong(bs, k) \cup {b}
        BY <3>3, <3>6, <3>8 DEF LiveAmong
      <4>2. \A x \in LiveAmong(bs, k), y \in {b} : x.key # y.key
        BY <3>3, <3>6 DEF LiveAmong, Lists
      <4>3. Lists(<<b>>, {b})
        BY <3>7, ListOfOne
      <4>4. PICK s : s = f[1..k]
        OBVIOUS
      <4>5. Lists(s, LiveAmong(bs, k)) /\ s \in Seq(BucketSet)
        BY <3>2, <4>4 DEF Lists
      <4>6. Lists(s \o <<b>>, LiveAmong(bs, k) \cup {b})
        BY <4>2, <4>3, <4>5, ConcatLists
      <4>7. s \o <<b>> = Append(s, b)
        BY <3>7, <4>5, AppendIsConcat
      <4> QED BY <2>3, <3>5, <3>6, <3>8, <4>1, <4>4, <4>6, <4>7 DEF Kept
    <3>9. CASE b.value.type = "nil"
      <4>1. LiveAmong(bs, m) = LiveAmong(bs, k)
        BY <3>3, <3>6, <3>9 DEF LiveAmong
      <4> QED BY <2>3, <3>2, <3>5, <3>6, <3>9, <4>1 DEF Kept
    <3> QED BY <3>8, <3>9
  <2> QED BY <2>4, <2>5
<1> HIDE DEF T
<1>6. \A m \in 0..n : m \in T <=> ~ Lists(f[1..m], LiveAmong(bs, m))
  BY DEF T
<1>7. n \in 0..n
  BY <1>1, <1>2
<1>8. LiveAmong(bs, n) = {b \in B : b.value.type # "nil"}
  BY <1>1, <1>2 DEF LiveAmong, Lists, ToSet
<1> QED BY <1>4, <1>5, <1>6, <1>7, <1>8

-----------------------------------------------------------------------------
(* The array of the keys of a list of buckets. *)

IndexBuckets(bs) == [i \in DOMAIN bs |-> [key |-> Number(i - 1), value |-> bs[i].key]]

\* t has the first m buckets of xs, and no others.
HasFirst(t, xs, n, m) ==
  /\ t.chain \in [Chains -> Seq({xs[i] : i \in 1..n})]
  /\ AllBuckets(t) = {xs[i] : i \in 1..m}

LEMMA PushedInChain ==
  ASSUME NEW X, NEW b \in X, NEW t, t.chain \in [Chains -> Seq(X)], ChainOf(b.key) \in Chains,
         b = [key |-> b.key, value |-> b.value]
  PROVE  LET u == Pushed(t, b.key, b.value) IN
           u.chain \in [Chains -> Seq(X)] /\ AllBuckets(u) = AllBuckets(t) \cup {b}
<1>1. PICK u : u = Pushed(t, b.key, b.value)
  OBVIOUS
<1>2. PICK d \in Chains : d = ChainOf(b.key)
  OBVIOUS
<1>3. PICK s : s = t.chain[d]
  OBVIOUS
<1>4. PICK r : r = <<b>> \o s
  OBVIOUS
<1>5. u.chain = [t.chain EXCEPT ![d] = r]
  BY <1>1, <1>2, <1>3, <1>4 DEF Pushed
<1>6. s \in Seq(X) /\ <<b>> \in Seq(X) /\ Len(<<b>>) = 1 /\ <<b>>[1] = b
  BY <1>2, <1>3
<1>7. r \in Seq(X) /\ Len(r) = Len(s) + 1 /\ Len(s) \in Nat
      /\ \A i \in 1..Len(s) + 1 : r[i] = IF i <= 1 THEN <<b>>[i] ELSE s[i - 1]
  <2>1. PICK o : o = <<b>>
    OBVIOUS
  <2>2. o \in Seq(X) /\ Len(o) = 1 /\ o[1] = b /\ r = o \o s
    BY <1>4, <1>6, <2>1
  <2>3. /\ o \o s \in Seq(X) /\ Len(o \o s) = Len(o) + Len(s)
        /\ \A i \in 1..Len(o) + Len(s) : (o \o s)[i] = IF i <= Len(o) THEN o[i] ELSE s[i - Len(o)]
    BY <1>6, <2>2, ConcatProperties
  <2>4. Len(s) \in Nat
    BY <1>6, LenProperties
  <2>5. 1 + Len(s) = Len(s) + 1
    BY <2>4
  <2> QED BY <2>1, <2>2, <2>3, <2>4, <2>5
<1>8. DOMAIN r = 1..Len(s) + 1 /\ DOMAIN s = 1..Len(s)
  BY <1>6, <1>7, LenProperties
<1>9. ToSet(r) = ToSet(s) \cup {b}
  <2>1. \A i \in DOMAIN r : r[i] \in ToSet(s) \cup {b}
    <3> SUFFICES ASSUME NEW i \in DOMAIN r
                 PROVE  r[i] \in ToSet(s) \cup {b}
      OBVIOUS
    <3>1. CASE i = 1
      BY <1>6, <1>7, <1>8, <3>1
    <3>2. CASE i # 1
      <4>1. i - 1 \in DOMAIN s /\ ~ (i <= 1) /\ i \in 1..Len(s) + 1
        BY <1>7, <1>8, <3>2
      <4>2. r[i] = s[i - 1]
        BY <1>7, <4>1
      <4> QED BY <4>1, <4>2 DEF ToSet
    <3> QED BY <3>1, <3>2
  <2>2. b \in ToSet(r)
    <3>1. 1 \in DOMAIN r /\ r[1] = b
      BY <1>6, <1>7, <1>8
    <3> QED BY <3>1 DEF ToSet
  <2>3. \A i \in DOMAIN s : s[i] \in ToSet(r)
    <3> SUFFICES ASSUME NEW i \in DOMAIN s
                 PROVE  s[i] \in ToSet(r)
      OBVIOUS
    <3>1. i + 1 \in 1..Len(s) + 1 /\ ~ (i + 1 <= 1) /\ (i + 1) - 1 = i
      BY <1>7, <1>8
    <3>2. r[i + 1] = s[i] /\ i + 1 \in DOMAIN r
      BY <1>7, <1>8, <3>1
    <3> QED BY <3>2 DEF ToSet
  <2> QED BY <2>1, <2>2, <2>3 DEF ToSet
<1>10. u.chain \in [Chains -> Seq(X)] /\ \A c \in Chains : u.chain[c] = IF c = d THEN r ELSE t.chain[c]
  BY <1>5, <1>7
<1>11. AllBuckets(u) = AllBuckets(t) \cup {b}
  <2>1. \A c \in Chains : c # d => ToSet(u.chain[c]) = ToSet(t.chain[c])
    BY <1>10
  <2>2. ToSet(u.chain[d]) = ToSet(t.chain[d]) \cup {b}
    BY <1>3, <1>9, <1>10
  <2> QED BY <2>1, <2>2 DEF AllBuckets
<1> QED BY <1>1, <1>10, <1>11

LEMMA FirstOneMore ==
  ASSUME NEW xs, NEW n \in Nat,
         \A i \in 1..n : /\ xs[i] = [key |-> Number(i - 1), value |-> xs[i].value]
                         /\ xs[i].value.type # "nil" /\ HashNum[i - 1] \in Slots,
         NEW m \in Nat, m + 1 \in 1..n, NEW t, HasFirst(t, xs, n, m)
  PROVE  HasFirst(Store(t, xs[m + 1].key, xs[m + 1].value), xs, n, m + 1)
<1>1. PICK b : b = xs[m + 1]
  OBVIOUS
<1>2. /\ b = [key |-> b.key, value |-> b.value] /\ b.key = Number(m) /\ b.value.type # "nil"
      /\ HashNum[m] \in Slots
  <2>1. (m + 1) - 1 = m
    OBVIOUS
  <2>2. b = [key |-> Number(m), value |-> b.value] /\ b.value.type # "nil" /\ HashNum[m] \in Slots
    BY <1>1, <2>1
  <2>3. b.key = Number(m)
    BY <2>2
  <2> QED BY <2>2, <2>3
<1>3. b.key.type = "number" /\ b.key.numVal = m
  BY <1>2 DEF Number
<1>4. ChainOf(b.key) = <<"numIndexed", HashNum[m]>> /\ ChainOf(b.key) \in Chains
  BY <1>2, <1>3 DEF ChainOf, Chains
<1>5. ~ Found(t, b.key)
  <2> SUFFICES ASSUME Found(t, b.key)
               PROVE  FALSE
    OBVIOUS
  <2>1. PICK i \in DOMAIN t.chain[ChainOf(b.key)] : t.chain[ChainOf(b.key)][i].key = b.key
    BY DEF Found, Matches
  <2>2. t.chain[ChainOf(b.key)][i] \in AllBuckets(t)
    BY <1>4 DEF AllBuckets, ToSet
  <2>3. PICK j \in 1..m : xs[j].key = b.key
    BY <2>1, <2>2 DEF HasFirst
  <2>4. j \in 1..n /\ j - 1 # m /\ j \in Int
    OBVIOUS
  <2>5. PICK v : xs[j] = [key |-> Number(j - 1), value |-> v]
    BY <2>4
  <2>6. Number(j - 1) = Number(m)
    BY <1>2, <2>3, <2>5
  <2> QED BY <2>4, <2>6 DEF Number
<1>6. Store(t, b.key, b.value) = Pushed(t, b.key, b.value)
  BY <1>2, <1>3, <1>5 DEF Store, Storable
<1>7. b \in {xs[i] : i \in 1..n}
  BY <1>1
<1>8. PICK X : X = {xs[i] : i \in 1..n}
  OBVIOUS
<1>9. t.chain \in [Chains -> Seq(X)] /\ b \in X
  BY <1>7, <1>8 DEF HasFirst
<1>10. PICK u : u = Pushed(t, b.key, b.value)
  OBVIOUS
<1>11. u.chain \in [Chains -> Seq(X)] /\ AllBuckets(u) = AllBuckets(t) \cup {b}
  BY <1>2, <1>4, <1>9, <1>10, PushedInChain
<1>12. 1..m + 1 = 1..m \cup {m + 1}
  OBVIOUS
<1>13. {xs[i] : i \in 1..m + 1} = {xs[i] : i \in 1..m} \cup {b}
  BY <1>1, <1>12
<1>14. HasFirst(u, xs, n, m + 1)
  BY <1>8, <1>11, <1>13 DEF HasFirst
<1> QED BY <1>1, <1>6, <1>10, <1>14

LEMMA AllAreIndexed ==
  ASSUME NEW xs, NEW n \in Nat, DOMAIN xs = 1..n, Len(xs) = n,
         \A i \in 1..n : /\ xs[i] = [key |-> Number(i - 1), value |-> xs[i].value]
                         /\ xs[i].value.type # "nil" /\ HashNum[i - 1] \in Slots
  PROVE  AllBuckets(StoredIn(xs)) = {xs[i] : i \in 1..n}
<1>1. PICK f : f = (CHOOSE f1 : IsFold(f1, n, xs))
  OBVIOUS
<1>2. IsFold(f, n, xs) /\ StoredIn(xs) = f[1..n]
  BY <1>1, FoldExists, FoldUnfolds
<1> DEFINE T == {m \in 0..n : ~ HasFirst(f[1..m], xs, n, m)}
<1>3. T = {}
  <2> SUFFICES ASSUME T # {}
               PROVE  FALSE
    OBVIOUS
  <2>1. T \subseteq Nat /\ T \subseteq 0..n /\ \A m \in 0..n : m \in T <=> ~ HasFirst(f[1..m], xs, n, m)
    OBVIOUS
  <2> HIDE DEF T
  <2>2. PICK m \in T : \A y \in T : m <= y
    BY <2>1, LeastOfSet
  <2>3. m \in 0..n /\ ~ HasFirst(f[1..m], xs, n, m)
    BY <2>1
  <2>4. CASE m = 0
    <3>1. 1..0 = {} /\ {} \in SUBSET (1..n)
      OBVIOUS
    <3>2. f[1..0] = NewTable
      BY <1>2, <3>1 DEF IsFold
    <3>3. NewTable.chain = [c \in Chains |-> <<>>]
      BY DEF NewTable
    <3>4. NewTable.chain \in [Chains -> Seq({xs[i] : i \in 1..n})]
      BY <3>3, EmptySeq
    <3>5. AllBuckets(NewTable) = {}
      <4>1. \A c \in Chains : NewTable.chain[c] = <<>> /\ DOMAIN NewTable.chain[c] = {}
        BY <3>3
      <4> QED BY <4>1 DEF AllBuckets, ToSet
    <3>6. HasFirst(NewTable, xs, n, 0)
      BY <3>1, <3>4, <3>5 DEF HasFirst
    <3> QED BY <2>3, <2>4, <3>2, <3>6
  <2>5. CASE m # 0
    <3>1. PICK k \in 0..n : m = k + 1 /\ ~ (m <= k)
      <4>1. m - 1 \in 0..n /\ m = (m - 1) + 1 /\ ~ (m <= m - 1)
        BY <2>3, <2>5
      <4> QED BY <4>1
    <3>2. HasFirst(f[1..k], xs, n, k)
      BY <2>1, <2>2, <3>1
    <3>3. /\ 1..m \in SUBSET (1..n) /\ 1..m # {} /\ (1..m) \ {m} = 1..k /\ k \in Nat
          /\ 1..m \subseteq 1..k + 1 /\ k + 1 \in 1..m /\ k + 1 \in 1..n
      <4>1. m \in 1..m /\ m \in Nat /\ n \in Nat /\ k \in Nat /\ m <= n /\ m = k + 1
        BY <2>3, <2>5, <3>1
      <4>2. 1..m \subseteq 1..n /\ m \in 1..n
        BY <4>1
      <4>3. (1..m) \ {m} = 1..k
        BY <4>1
      <4> QED BY <4>1, <4>2, <4>3
    <3>4. Max(1..m) = m
      BY <3>1, <3>3, GreatestIs
    <3>5. f[1..m] = Store(f[1..k], xs[m].key, xs[m].value)
      <4>1. \A s \in SUBSET (1..n) : s # {} =>
              f[s] = Store(f[s \ {Max(s)}], xs[Max(s)].key, xs[Max(s)].value)
        BY <1>2 DEF IsFold
      <4> QED BY <3>3, <3>4, <4>1
    <3>6. HasFirst(Store(f[1..k], xs[m].key, xs[m].value), xs, n, m)
      BY <3>1, <3>2, <3>3, FirstOneMore
    <3> QED BY <2>3, <3>5, <3>6
  <2> QED BY <2>4, <2>5
<1> HIDE DEF T
<1>4. \A m \in 0..n : m \in T <=> ~ HasFirst(f[1..m], xs, n, m)
  BY DEF T
<1>5. n \in 0..n
  OBVIOUS
<1> QED BY <1>2, <1>3, <1>4, <1>5 DEF HasFirst

\* A list has as many buckets as there are keys of them.
LEMMA ListsAreCounted ==
  ASSUME NEW bs, NEW B, Lists(bs, B)
  PROVE  /\ IsFiniteSet(B) /\ Cardinality(B) = Len(bs)
         /\ IsFiniteSet({b.key : b \in B}) /\ Cardinality({b.key : b \in B}) = Len(bs)
<1>1. PICK n : n = Len(bs)
  OBVIOUS
<1>2. n \in Nat /\ DOMAIN bs = 1..n /\ bs \in Seq(BucketSet)
  BY <1>1, LenProperties DEF Lists
<1>3. PICK K : K = {b.key : b \in B}
  OBVIOUS
<1>4. (\A i \in 1..n : bs[i] \in B) /\ (\A b \in B : \E i \in 1..n : b = bs[i])
  BY <1>2 DEF Lists, ToSet
<1>5. \A i, j \in 1..n : bs[i].key = bs[j].key => i = j
  BY <1>2 DEF Lists
<1>6. ExistsBijection(1..n, B)
  <2>1. PICK f : f = [i \in 1..n |-> bs[i]]
    OBVIOUS
  <2>2. /\ f \in [1..n -> B] /\ \A i, j \in 1..n : f[i] = f[j] => i = j
        /\ \A b \in B : \E i \in 1..n : f[i] = b
    BY <1>4, <1>5, <2>1
  <2>3. f \in Injection(1..n, B) /\ f \in Surjection(1..n, B)
    BY <2>2, Fun_IsInj, Fun_IsSurj
  <2>4. f \in Bijection(1..n, B)
    BY <2>3 DEF Bijection
  <2> QED BY <2>4 DEF ExistsBijection
<1>7. ExistsBijection(1..n, K)
  <2>1. PICK f : f = [i \in 1..n |-> bs[i].key]
    OBVIOUS
  <2>2. (\A i \in 1..n : bs[i].key \in K) /\ (\A k \in K : \E i \in 1..n : k = bs[i].key)
    BY <1>3, <1>4
  <2>3. /\ f \in [1..n -> K] /\ \A i, j \in 1..n : f[i] = f[j] => i = j
        /\ \A k \in K : \E i \in 1..n : f[i] = k
    BY <1>5, <2>1, <2>2
  <2>4. f \in Injection(1..n, K) /\ f \in Surjection(1..n, K)
    BY <2>3, Fun_IsInj, Fun_IsSurj
  <2>5. f \in Bijection(1..n, K)
    BY <2>4 DEF Bijection
  <2> QED BY <2>5 DEF ExistsBijection
<1>8. IsFiniteSet(1..n) /\ Cardinality(1..n) = n
  BY <1>2, FS_Interval
<1>9. IsFiniteSet(B) /\ Cardinality(B) = n
  BY <1>6, <1>8, FS_Bijection
<1>10. IsFiniteSet(K) /\ Cardinality(K) = n
  BY <1>7, <1>8, FS_Bijection
<1> QED BY <1>1, <1>3, <1>9, <1>10

\* The strings and numbers that a table has an element for.
Named(t) == {k \in Members(MapOf(t)) : k.type \in {"string", "number"}}

LiveIn(B) == {b \in B : b.value.type # "nil"}

LEMMA LiveMembers ==
  ASSUME NEW t, Chained(t), NEW B, B = InArray(t, "strIndexed") \cup InArray(t, "numIndexed")
  PROVE  /\ Named(t) = {b.key : b \in LiveIn(B)}
         /\ \A b \in B : /\ b \in BucketSet /\ b.key \in Keys /\ b.value = Lookup(t, b.key)
                         /\ b.key.type \in {"string", "number"}
<1>1. PICK m : m = MapOf(t)
  OBVIOUS
<1>2. /\ DOMAIN m.elems = {k \in Keys : Found(t, k)}
      /\ \A k \in DOMAIN m.elems : m.elems[k] = Lookup(t, k)
  BY <1>1, MapOfTable DEF MapOf
<1>3. /\ \A b \in B : b \in AllBuckets(t) /\ b.key.type \in {"string", "number"}
      /\ \A b \in AllBuckets(t) : b.key.type \in {"string", "number"} => b \in B
  BY CopiedBuckets
<1>4. \A b \in B : b \in BucketSet /\ b.key \in Keys /\ b.value = Lookup(t, b.key) /\ Found(t, b.key)
  BY <1>3, BucketsAre DEF BucketSet
<1>5. ASSUME NEW b \in LiveIn(B)
      PROVE  b.key \in Named(t)
  <2>1. b \in B /\ b.value.type # "nil"
    BY DEF LiveIn
  <2> QED BY <1>1, <1>2, <1>3, <1>4, <2>1 DEF Named, Members
<1>6. ASSUME NEW k \in Named(t)
      PROVE  \E b \in LiveIn(B) : b.key = k
  <2>1. k \in DOMAIN m.elems /\ m.elems[k].type # "nil" /\ k.type \in {"string", "number"}
    BY <1>1 DEF Named, Members
  <2>2. k \in Keys /\ Found(t, k) /\ m.elems[k] = Lookup(t, k)
    BY <1>2, <2>1
  <2>3. PICK b \in AllBuckets(t) : b.key = k /\ b.value = Lookup(t, k)
    BY <2>2, BucketsAre
  <2> QED BY <1>3, <2>1, <2>2, <2>3 DEF LiveIn
<1> QED BY <1>3, <1>4, <1>5, <1>6

LEMMA MembersAreListed ==
  ASSUME NEW t, Chained(t)
  PROVE  LET listed == ElemsOf(MemberKeys(t)) IN
           /\ DOMAIN listed = {Number(i) : i \in 0..Cardinality(Named(t)) - 1}
           /\ {listed[k] : k \in DOMAIN listed} = Named(t)
<1>1. PICK B : B = InArray(t, "strIndexed") \cup InArray(t, "numIndexed")
  OBVIOUS
<1>2. PICK lv : lv = Live(CopiedOf(t))
  OBVIOUS
<1>3. PICK L : L = LiveIn(B)
  OBVIOUS
<1>4. Lists(lv, L)
  <2>1. Lists(CopiedOf(t), B)
    BY <1>1, CopiedBuckets
  <2> QED BY <1>2, <1>3, <2>1, LiveLists DEF LiveIn
<1>5. /\ Named(t) = {b.key : b \in L}
      /\ \A b \in L : b.key \in Keys /\ b.key.type \in {"string", "number"}
  BY <1>1, <1>3, LiveMembers DEF LiveIn
<1>6. PICK n : n = Len(lv)
  OBVIOUS
<1>7. n \in Nat /\ DOMAIN lv = 1..n
  BY <1>4, <1>6, LenProperties DEF Lists
<1>8. IsFiniteSet(Named(t)) /\ Cardinality(Named(t)) = n
  BY <1>4, <1>5, <1>6, ListsAreCounted
<1>9. (\A i \in 1..n : lv[i] \in L) /\ (\A b \in L : \E i \in 1..n : b = lv[i])
  BY <1>4, <1>7 DEF Lists, ToSet
<1>10. Named(t) \in SUBSET {k \in Keys : k.type \in {"string", "number"}}
  BY <1>5
<1>11. \A i \in 0..n - 1 : HashNum[i] \in Slots
  BY <1>8, <1>10, IndexAssumption
<1>12. PICK xs : xs = [i \in 1..n |-> [key |-> Number(i - 1), value |-> lv[i].key]]
  OBVIOUS
<1>13. DOMAIN xs = 1..n /\ Len(xs) = n
  BY <1>7, <1>12
<1>14. \A i \in 1..n : /\ xs[i] = [key |-> Number(i - 1), value |-> xs[i].value]
                       /\ xs[i].key = Number(i - 1) /\ xs[i].value = lv[i].key
  BY <1>12
<1>15. \A i \in 1..n : xs[i].value.type # "nil" /\ HashNum[i - 1] \in Slots
  <2> SUFFICES ASSUME NEW i \in 1..n
               PROVE  xs[i].value.type # "nil" /\ HashNum[i - 1] \in Slots
    OBVIOUS
  <2>1. i - 1 \in 0..n - 1
    BY <1>7
  <2>2. lv[i].key.type \in {"string", "number"}
    BY <1>5, <1>9
  <2> QED BY <1>11, <1>14, <2>1, <2>2
<1>16. PICK u : u = MemberKeys(t)
  OBVIOUS
<1>17. u = StoredIn(xs)
  BY <1>2, <1>7, <1>12, <1>16 DEF MemberKeys, ArrayOf, CopiedOf
<1>18. AllBuckets(u) = {xs[i] : i \in 1..n}
  <2>1. \A i \in 1..n : /\ xs[i] = [key |-> Number(i - 1), value |-> xs[i].value]
                         /\ xs[i].value.type # "nil" /\ HashNum[i - 1] \in Slots
    BY <1>14, <1>15
  <2>2. AllBuckets(StoredIn(xs)) = {xs[i] : i \in 1..n}
    BY <1>7, <1>13, <2>1, AllAreIndexed
  <2> QED BY <1>17, <2>2
<1>19. PICK e : e = ElemsOf(u)
  OBVIOUS
<1>20. e = [k \in {b.key : b \in AllBuckets(u)} |-> (CHOOSE b \in AllBuckets(u) : b.key = k).value]
  BY <1>19 DEF ElemsOf, AllBuckets
<1>21. DOMAIN e = {b.key : b \in AllBuckets(u)}
  BY <1>20
<1>22. \A i \in 1..n : Number(i - 1) \in DOMAIN e
  BY <1>14, <1>18, <1>21
<1>23. DOMAIN e = {Number(i) : i \in 0..n - 1}
  <2>1. \A k \in DOMAIN e : \E i \in 0..n - 1 : k = Number(i)
    <3> SUFFICES ASSUME NEW k \in DOMAIN e
                 PROVE  \E i \in 0..n - 1 : k = Number(i)
      OBVIOUS
    <3>1. PICK i \in 1..n : k = Number(i - 1)
      BY ZenonT(40), <1>14, <1>18, <1>21
    <3>2. i - 1 \in 0..n - 1
      BY <1>7
    <3> QED BY <3>1, <3>2
  <2>2. \A i \in 0..n - 1 : Number(i) \in DOMAIN e
    <3> SUFFICES ASSUME NEW i \in 0..n - 1
                 PROVE  Number(i) \in DOMAIN e
      OBVIOUS
    <3>1. i + 1 \in 1..n /\ (i + 1) - 1 = i
      BY <1>7
    <3>2. Number((i + 1) - 1) \in DOMAIN e
      BY <1>22, <3>1
    <3> QED BY <3>1, <3>2
  <2> QED BY <2>1, <2>2
<1>24. \A i \in 1..n : e[Number(i - 1)] = lv[i].key
  <2> SUFFICES ASSUME NEW i \in 1..n
               PROVE  e[Number(i - 1)] = lv[i].key
    OBVIOUS
  <2>1. PICK b : b = (CHOOSE x \in AllBuckets(u) : x.key = Number(i - 1))
    OBVIOUS
  <2>2. b \in AllBuckets(u) /\ b.key = Number(i - 1)
    BY <1>14, <1>18, <2>1
  <2>3. PICK j \in 1..n : b = xs[j]
    BY <1>18, <2>2
  <2>4. Number(j - 1) = Number(i - 1)
    BY <1>14, <2>2, <2>3
  <2>5. j = i
    <3>1. j - 1 = i - 1
      BY <2>4 DEF Number
    <3> QED BY <1>7, <3>1
  <2>6. b.value = lv[i].key
    BY <1>14, <2>3, <2>5
  <2> QED BY <1>20, <1>21, <1>22, <2>1, <2>6
<1>25. \A k \in DOMAIN e : \E i \in 1..n : k = Number(i - 1)
  BY ZenonT(40), <1>14, <1>18, <1>21
<1>26. {e[k] : k \in DOMAIN e} = Named(t)
  <2>1. \A k \in DOMAIN e : e[k] \in Named(t)
    BY <1>5, <1>9, <1>24, <1>25
  <2>2. \A k \in Named(t) : \E i \in 1..n : k = lv[i].key
    BY <1>5, <1>9
  <2> QED BY <1>22, <1>24, <2>1, <2>2
<1> QED BY <1>8, <1>16, <1>19, <1>23, <1>26

-----------------------------------------------------------------------------
(* Sorting. *)

\* The buckets of bs are told apart by their ranks.
Ranked(bs) ==
  /\ \A b \in ToSet(bs) : Rank(b.key) \in Int
  /\ \A b, c \in ToSet(bs) : Rank(b.key) = Rank(c.key) => b = c

\* How many are before a bucket.
LEMMA PlacesAre ==
  ASSUME NEW bs, NEW B, Lists(bs, B), Ranked(bs)
  PROVE  /\ \A b \in B : Cardinality(Before(bs, b)) \in 0..Len(bs) - 1
         /\ \A b, c \in B : Rank(b.key) < Rank(c.key) =>
              Cardinality(Before(bs, b)) < Cardinality(Before(bs, c))
         /\ \A i \in 1..Len(bs) : \E b \in B : Cardinality(Before(bs, b)) = i - 1
<1>1. PICK n : n = Len(bs)
  OBVIOUS
<1>2. n \in Nat /\ IsFiniteSet(B) /\ Cardinality(B) = n /\ ToSet(bs) = B
  BY <1>1, LenProperties, ListsAreCounted DEF Lists
<1>3. /\ \A b \in B : Rank(b.key) \in Int
      /\ \A b, c \in B : Rank(b.key) = Rank(c.key) => b = c
  BY <1>2 DEF Ranked
<1>4. PICK p : p = [b \in B |-> Cardinality(Before(bs, b))]
  OBVIOUS
<1>5. \A b \in B : Before(bs, b) = {c \in B : Rank(c.key) < Rank(b.key)}
  BY <1>2 DEF Before
<1>6. ASSUME NEW b \in B
      PROVE  IsFiniteSet(Before(bs, b)) /\ p[b] \in 0..n - 1
  <2>1. Before(bs, b) \in SUBSET B /\ b \notin Before(bs, b)
    BY <1>3, <1>5
  <2>2. IsFiniteSet(Before(bs, b)) /\ Cardinality(Before(bs, b)) <= n
    BY <1>2, <2>1, FS_Subset
  <2>3. Cardinality(Before(bs, b)) # n
    BY <1>2, <2>1, FS_Subset
  <2>4. Cardinality(Before(bs, b)) \in Nat
    BY <2>2, FS_CardinalityType
  <2> QED BY <1>2, <1>4, <2>2, <2>3, <2>4
<1>7. ASSUME NEW b \in B, NEW c \in B, Rank(b.key) < Rank(c.key)
      PROVE  p[b] < p[c]
  <2>1. Before(bs, b) \in SUBSET Before(bs, c)
    BY <1>3, <1>5, <1>7
  <2>2. b \in Before(bs, c) /\ b \notin Before(bs, b)
    BY <1>3, <1>5, <1>7
  <2>3. Cardinality(Before(bs, b)) <= Cardinality(Before(bs, c))
        /\ Cardinality(Before(bs, c)) # Cardinality(Before(bs, b))
    BY <1>6, <2>1, <2>2, FS_Subset
  <2> QED BY <1>2, <1>4, <1>6, <2>3
<1>8. p \in [B -> 0..n - 1]
  BY <1>4, <1>6
<1>9. ASSUME NEW b \in B, NEW c \in B, p[b] = p[c]
      PROVE  b = c
  <2>1. ~ (Rank(b.key) < Rank(c.key)) /\ ~ (Rank(c.key) < Rank(b.key))
    <3>1. p[b] \in Int /\ p[c] \in Int
      BY <1>6
    <3> QED BY <1>7, <1>9, <3>1
  <2>2. Rank(b.key) = Rank(c.key)
    BY <1>3, <2>1
  <2> QED BY <1>3, <2>2
<1>10. p \in Injection(B, 0..n - 1)
  BY <1>8, <1>9, Fun_IsInj
<1>11. IsFiniteSet(0..n - 1) /\ Cardinality(0..n - 1) = n
  <2>1. 0 \in Int /\ n - 1 \in Int
    BY <1>2
  <2>2. IsFiniteSet(0..n - 1) /\ Cardinality(0..n - 1) = IF 0 > n - 1 THEN 0 ELSE (n - 1) - 0 + 1
    BY <2>1, FS_Interval
  <2> QED BY <1>2, <2>2
<1>12. p \in Surjection(B, 0..n - 1)
  BY <1>2, <1>10, <1>11, FS_Injection
<1>13. ASSUME NEW i \in 1..n
       PROVE  \E b \in B : p[b] = i - 1
  <2>1. i - 1 \in 0..n - 1
    BY <1>2
  <2> QED BY <1>12, <2>1 DEF Surjection
<1> QED BY <1>1, <1>4, <1>6, <1>7, <1>13

LEMMA SortedLists ==
  ASSUME NEW bs, NEW B, Lists(bs, B), Ranked(bs)
  PROVE  LET s == Sorted(bs) IN
           /\ Lists(s, B) /\ Len(s) = Len(bs)
           /\ \A i \in 1..Len(bs) : Cardinality(Before(bs, s[i])) = i - 1
           /\ \A i, j \in 1..Len(bs) : i < j => Rank(s[i].key) < Rank(s[j].key)
<1>1. PICK n : n = Len(bs)
  OBVIOUS
<1>2. n \in Nat /\ DOMAIN bs = 1..n /\ ToSet(bs) = B /\ bs \in Seq(BucketSet)
  BY <1>1, LenProperties DEF Lists
<1>3. /\ \A b \in B : Rank(b.key) \in Int
      /\ \A b, c \in B : Rank(b.key) = Rank(c.key) => b = c
  BY <1>2 DEF Ranked
<1>4. PICK p : p = [b \in B |-> Cardinality(Before(bs, b))]
  OBVIOUS
<1>5. /\ \A b \in B : p[b] \in 0..n - 1
      /\ \A b, c \in B : Rank(b.key) < Rank(c.key) => p[b] < p[c]
      /\ \A i \in 1..n : \E b \in B : p[b] = i - 1
  BY <1>1, <1>4, PlacesAre
<1>6. PICK s : s = Sorted(bs)
  OBVIOUS
<1>7. s = [i \in 1..n |-> CHOOSE b \in B : p[b] = i - 1]
  <2>1. s = [i \in 1..n |-> CHOOSE b \in B : Cardinality(Before(bs, b)) = i - 1]
    BY <1>2, <1>6 DEF Sorted
  <2>2. ASSUME NEW i \in 1..n
        PROVE  (CHOOSE b \in B : Cardinality(Before(bs, b)) = i - 1) = (CHOOSE b \in B : p[b] = i - 1)
    <3>1. \A b : (b \in B /\ Cardinality(Before(bs, b)) = i - 1) <=> (b \in B /\ p[b] = i - 1)
      BY <1>4
    <3> QED BY <3>1
  <2> QED BY <2>1, <2>2
<1>8. \A i \in 1..n : s[i] \in B /\ p[s[i]] = i - 1
  <2> SUFFICES ASSUME NEW i \in 1..n
               PROVE  s[i] \in B /\ p[s[i]] = i - 1
    OBVIOUS
  <2>1. \E b \in B : p[b] = i - 1
    BY <1>5
  <2>2. s[i] = CHOOSE b \in B : p[b] = i - 1
    BY <1>7
  <2> QED BY <2>1, <2>2
<1>9. \A b, c \in B : p[b] = p[c] => b = c
  <2> SUFFICES ASSUME NEW b \in B, NEW c \in B, p[b] = p[c]
               PROVE  b = c
    OBVIOUS
  <2>1. p[b] \in Int /\ p[c] \in Int
    BY <1>5
  <2>2. ~ (Rank(b.key) < Rank(c.key)) /\ ~ (Rank(c.key) < Rank(b.key))
    BY <1>5, <2>1
  <2> QED BY <1>3, <2>2
<1>10. \A i, j \in 1..n : s[i] = s[j] => i = j
  BY <1>2, <1>8
<1>11. B \subseteq BucketSet
  BY <1>2, ElementOfSeq DEF ToSet
<1>12. s \in Seq(BucketSet) /\ Len(s) = n /\ DOMAIN s = 1..n
  <2>1. s \in [1..n -> BucketSet]
    BY <1>7, <1>8, <1>11
  <2> QED BY <1>2, <2>1, SeqDef
<1>13. ToSet(s) = B
  <2>1. ASSUME NEW b \in B
        PROVE  \E i \in 1..n : s[i] = b
    <3>1. PICK i \in 1..n : p[b] = i - 1
      <4>1. p[b] + 1 \in 1..n /\ p[b] = (p[b] + 1) - 1
        BY <1>2, <1>5
      <4> QED BY <4>1
    <3> QED BY <1>8, <1>9, <3>1
  <2> QED BY <1>8, <1>12, <2>1 DEF ToSet
<1>14. \A b, c \in B : b.key = c.key => b = c
  BY <1>3
<1>15. Lists(s, B)
  BY <1>8, <1>10, <1>12, <1>13, <1>14 DEF Lists
<1>16. ASSUME NEW i \in 1..n, NEW j \in 1..n, i < j
       PROVE  Rank(s[i].key) < Rank(s[j].key)
  <2>1. p[s[i]] < p[s[j]] /\ s[i] # s[j] /\ s[i] \in B /\ s[j] \in B
    BY <1>2, <1>8, <1>10, <1>16
  <2>2. ~ (Rank(s[j].key) < Rank(s[i].key))
    <3>1. p[s[i]] \in Int /\ p[s[j]] \in Int
      BY <1>5, <2>1
    <3> QED BY <1>5, <2>1, <3>1
  <2> QED BY <1>3, <2>1, <2>2
<1>17. \A i \in 1..n : Cardinality(Before(bs, s[i])) = i - 1
  BY <1>4, <1>8
<1> QED BY <1>1, <1>6, <1>12, <1>15, <1>16, <1>17

\* Buckets with the numbers from 0 on as keys are sorted to the place of their number.
LEMMA CountedFromZero ==
  ASSUME NEW bs, NEW B, Lists(bs, B), NEW n, n = Len(bs),
         {c.key : c \in B} = {Number(i) : i \in 0..n - 1}
  PROVE  Ranked(bs) /\ \A i \in 1..n : Sorted(bs)[i].key = Number(i - 1)
<1>1. n \in Nat /\ ToSet(bs) = B /\ DOMAIN bs = 1..n
  BY LenProperties DEF Lists
<1>2. \A b, c \in B : b.key = c.key => b = c
  BY <1>1 DEF Lists, ToSet
<1>3. \A v : Rank(Number(v)) = v
  BY DEF Rank, Number
<1>4. \A c \in B : \E v \in 0..n - 1 : c.key = Number(v)
  OBVIOUS
<1>5. \A v \in 0..n - 1 : \E c \in B : c.key = Number(v)
  OBVIOUS
<1>6. Ranked(bs)
  BY <1>1, <1>2, <1>3, <1>4 DEF Ranked
<1>7. PICK s : s = Sorted(bs)
  OBVIOUS
<1>8. /\ Lists(s, B) /\ Len(s) = n
      /\ \A i \in 1..n : Cardinality(Before(bs, s[i])) = i - 1
  BY <1>6, <1>7, SortedLists
<1>9. \A i \in 1..n : s[i] \in B
  BY <1>8, LenProperties DEF Lists, ToSet
<1>10. ASSUME NEW i \in 1..n
       PROVE  s[i].key = Number(i - 1)
  <2>1. PICK v \in 0..n - 1 : s[i].key = Number(v)
    BY <1>4, <1>9
  <2>2. v \in Nat /\ Rank(s[i].key) = v
    BY <1>1, <1>3, <2>1
  <2>3. PICK P : P = Before(bs, s[i])
    OBVIOUS
  <2>4. P = {c \in B : Rank(c.key) < v}
    BY <1>1, <2>2, <2>3 DEF Before
  <2>5. PICK f : f = [j \in 1..v |-> CHOOSE c \in B : c.key = Number(j - 1)]
    OBVIOUS
  <2>6. ASSUME NEW j \in 1..v
        PROVE  f[j] \in B /\ f[j].key = Number(j - 1) /\ f[j] \in P
    <3>1. j - 1 \in 0..n - 1 /\ j - 1 < v
      BY <1>1, <2>2
    <3>2. f[j] = CHOOSE c \in B : c.key = Number(j - 1)
      BY <2>5
    <3>3. f[j] \in B /\ f[j].key = Number(j - 1)
      BY <1>5, <3>1, <3>2
    <3>4. Rank(f[j].key) = j - 1
      BY <1>3, <3>3
    <3> QED BY <2>4, <3>1, <3>3, <3>4
  <2>7. f \in [1..v -> P]
    BY <2>5, <2>6
  <2>8. \A j, k \in 1..v : f[j] = f[k] => j = k
    <3> SUFFICES ASSUME NEW j \in 1..v, NEW k \in 1..v, f[j] = f[k]
                 PROVE  j = k
      OBVIOUS
    <3>1. Number(j - 1) = Number(k - 1)
      BY <2>6
    <3>2. j - 1 = k - 1
      BY <3>1 DEF Number
    <3> QED BY <2>2, <3>2
  <2>9. \A c \in P : \E j \in 1..v : f[j] = c
    <3> SUFFICES ASSUME NEW c \in P
                 PROVE  \E j \in 1..v : f[j] = c
      OBVIOUS
    <3>1. c \in B /\ Rank(c.key) < v
      BY <2>4
    <3>2. PICK w \in 0..n - 1 : c.key = Number(w)
      BY <1>4, <3>1
    <3>3. w < v
      BY <1>3, <3>1, <3>2
    <3>4. w + 1 \in 1..v /\ (w + 1) - 1 = w
      BY <1>1, <2>2, <3>3
    <3>5. f[w + 1] \in B /\ f[w + 1].key = Number(w)
      BY <2>6, <3>4
    <3> QED BY <1>2, <3>1, <3>2, <3>4, <3>5
  <2>10. f \in Injection(1..v, P) /\ f \in Surjection(1..v, P)
    BY <2>7, <2>8, <2>9, Fun_IsInj, Fun_IsSurj
  <2>11. ExistsBijection(1..v, P)
    BY <2>10 DEF Bijection, ExistsBijection
  <2>12. IsFiniteSet(1..v) /\ Cardinality(1..v) = v
    BY <2>2, FS_Interval
  <2>13. Cardinality(P) = v
    BY <2>11, <2>12, FS_Bijection
  <2>14. v = i - 1
    BY <1>8, <2>3, <2>13
  <2> QED BY <2>1, <2>14
<1> QED BY <1>6, <1>7, <1>10

\* The strings are told apart by their place in the order, the numbers by their value.
LEMMA KeysAreRanked ==
  /\ \A k \in Keys : k.type \in {"string", "number"} => Rank(k) \in Int
  /\ \A k, m \in Keys : k.type \in {"string", "number"} /\ m.type = k.type /\ Rank(k) = Rank(m) => k = m
  /\ \A k \in Keys : k.type = "string" => Rank(k) = StrRank(k.strVal)
  /\ \A k \in Keys : k.type = "number" => Rank(k) = k.numVal /\ k = Number(k.numVal)
<1>1. ASSUME NEW k \in Keys, k.type = "number"
      PROVE  Rank(k) = k.numVal /\ k = Number(k.numVal) /\ Rank(k) \in Int
  <2>1. k \in [type : {"number"}, numVal : Int]
    BY <1>1, KeysAssumption DEF Cells, Nil, Undef
  <2> QED BY <2>1 DEF Rank, Number
<1>2. ASSUME NEW k \in Keys, k.type = "string"
      PROVE  /\ Rank(k) = StrRank(k.strVal) /\ k = String(k.strVal) /\ Rank(k) \in Int
             /\ k.strVal = StrOrder[Rank(k)]
  <2>1. k \in [type : {"string"}, strVal : Strings]
    BY <1>2, KeysAssumption DEF Cells, Nil, Undef
  <2>2. Rank(k) = StrRank(k.strVal) /\ k = String(k.strVal)
    BY <2>1 DEF Rank, String
  <2>3. \E i \in DOMAIN StrOrder : StrOrder[i] = k.strVal
    BY <1>2, HashAssumption DEF ToSet
  <2>4. PICK r : r = StrRank(k.strVal)
    OBVIOUS
  <2>5. r \in DOMAIN StrOrder /\ StrOrder[r] = k.strVal
    BY <2>3, <2>4 DEF StrRank
  <2>6. r \in Int
    BY <2>5, KeysAssumption, LenProperties
  <2> QED BY <2>2, <2>4, <2>5, <2>6
<1>3. \A k \in Keys, m \in Keys : k.type = "string" /\ m.type = "string" /\ Rank(k) = Rank(m) => k = m
  BY <1>2
<1>4. \A k \in Keys, m \in Keys : k.type = "number" /\ m.type = "number" /\ Rank(k) = Rank(m) => k = m
  BY <1>1
<1> QED BY <1>1, <1>2, <1>3, <1>4

LEMMA ArraysAreRanked ==
  ASSUME NEW t, Chained(t), NEW array \in {"strIndexed", "numIndexed"}
  PROVE  LET bs == Live(Walk(t, array)) IN
           Lists(bs, LiveIn(InArray(t, array))) /\ Ranked(bs)
<1>1. PICK bs : bs = Live(Walk(t, array))
  OBVIOUS
<1>2. PICK B : B = LiveIn(InArray(t, array))
  OBVIOUS
<1>3. Lists(bs, B)
  <2>1. Lists(Walk(t, array), InArray(t, array))
    BY WalkLists
  <2> QED BY <1>1, <1>2, <2>1, LiveLists DEF LiveIn
<1>4. \A b \in B : /\ b.key \in Keys
                   /\ b.key.type = IF array = "strIndexed" THEN "string" ELSE "number"
  BY <1>2, ArrayKeys DEF LiveIn
<1>5. ToSet(bs) = B /\ \A b, c \in B : b.key = c.key => b = c
  BY <1>3 DEF Lists, ToSet
<1>6. Ranked(bs)
  <2>1. \A b \in B : b.key.type \in {"string", "number"}
    BY <1>4
  <2>2. \A b \in B : Rank(b.key) \in Int
    BY <1>4, <2>1, KeysAreRanked
  <2>3. ASSUME NEW b \in B, NEW c \in B, Rank(b.key) = Rank(c.key)
        PROVE  b = c
    <3>1. b.key.type = c.key.type
      BY <1>4
    <3>2. b.key = c.key
      BY <1>4, <2>1, <2>3, <3>1, KeysAreRanked
    <3> QED BY <1>5, <3>2
  <2> QED BY <1>5, <2>2, <2>3 DEF Ranked
<1> QED BY <1>1, <1>2, <1>3, <1>6

\* What is printed has the strings in front, in order, and the numbers behind them, in order.
LEMMA EntriesAre ==
  ASSUME NEW t, Chained(t)
  PROVE  LET entries == Entries(t) IN
           /\ \E L : /\ Lists(entries, L) /\ Named(t) = {b.key : b \in L}
                     /\ \A b \in L : b.value = Lookup(t, b.key)
           /\ \A i \in 2..Len(entries) : Precedes(entries[i - 1].key, entries[i].key)
           /\ (\A k \in Named(t) : k.type # "string") =>
                entries = Sorted(Live(Walk(t, "numIndexed")))
<1>1. PICK S : S = LiveIn(InArray(t, "strIndexed"))
  OBVIOUS
<1>2. PICK N : N = LiveIn(InArray(t, "numIndexed"))
  OBVIOUS
<1>3. PICK ls, ln : ls = Live(Walk(t, "strIndexed")) /\ ln = Live(Walk(t, "numIndexed"))
  OBVIOUS
<1>4. Lists(ls, S) /\ Ranked(ls) /\ Lists(ln, N) /\ Ranked(ln)
  BY <1>1, <1>2, <1>3, ArraysAreRanked
<1>5. PICK x, y : x = Sorted(ls) /\ y = Sorted(ln)
  OBVIOUS
<1>6. /\ Lists(x, S) /\ Len(x) = Len(ls)
      /\ \A i, j \in 1..Len(ls) : i < j => Rank(x[i].key) < Rank(x[j].key)
  BY <1>4, <1>5, SortedLists
<1>7. /\ Lists(y, N) /\ Len(y) = Len(ln)
      /\ \A i, j \in 1..Len(ln) : i < j => Rank(y[i].key) < Rank(y[j].key)
  BY <1>4, <1>5, SortedLists
<1>8. PICK p, q : p = Len(x) /\ q = Len(y)
  OBVIOUS
<1>9. /\ p \in Nat /\ DOMAIN x = 1..p /\ x \in Seq(BucketSet)
      /\ q \in Nat /\ DOMAIN y = 1..q /\ y \in Seq(BucketSet)
  BY <1>6, <1>7, <1>8, LenProperties DEF Lists
<1>10. /\ \A b \in S : b.key \in Keys /\ b.key.type = "string"
       /\ \A b \in N : b.key \in Keys /\ b.key.type = "number"
  BY <1>1, <1>2, ArrayKeys DEF LiveIn
<1>11. PICK e : e = x \o y
  OBVIOUS
<1>12. e = Entries(t)
  BY <1>3, <1>5, <1>11 DEF Entries
<1>13. PICK L : L = S \cup N
  OBVIOUS
<1>14. Lists(e, L)
  BY <1>6, <1>7, <1>10, <1>11, <1>13, ConcatLists
<1>15. Named(t) = {b.key : b \in L} /\ \A b \in L : b.value = Lookup(t, b.key)
  <2>1. PICK B : B = InArray(t, "strIndexed") \cup InArray(t, "numIndexed")
    OBVIOUS
  <2>2. L = LiveIn(B)
    BY <1>1, <1>2, <1>13, <2>1 DEF LiveIn
  <2>3. Named(t) = {b.key : b \in LiveIn(B)} /\ \A b \in B : b.value = Lookup(t, b.key)
    BY <2>1, LiveMembers
  <2>4. LiveIn(B) \subseteq B
    BY DEF LiveIn
  <2> QED BY <2>2, <2>3, <2>4
<1>16. e \in Seq(BucketSet) /\ Len(e) = p + q
       /\ \A i \in 1..p + q : e[i] = IF i <= p THEN x[i] ELSE y[i - p]
  BY <1>8, <1>9, <1>11, ConcatProperties
<1>17. /\ \A i \in 1..p : x[i] \in S
       /\ \A i \in 1..q : y[i] \in N
  BY <1>6, <1>7, <1>9 DEF Lists, ToSet
<1>18. ASSUME NEW i \in 2..p + q
       PROVE  Precedes(e[i - 1].key, e[i].key)
  <2>1. i \in Int /\ i - 1 \in 1..p + q /\ i \in 1..p + q /\ i - 1 < i
    BY <1>9
  <2>2. CASE i <= p
    <3>1. i - 1 \in 1..p /\ i \in 1..p /\ i - 1 <= p
      BY <1>9, <2>1, <2>2
    <3>2. e[i] = x[i] /\ e[i - 1] = x[i - 1]
      BY <1>16, <2>1, <2>2, <3>1
    <3>3. Rank(x[i - 1].key) < Rank(x[i].key)
      BY <1>6, <1>8, <2>1, <3>1
    <3>4. PICK k, m : k = x[i - 1].key /\ m = x[i].key
      OBVIOUS
    <3>5. k \in Keys /\ m \in Keys /\ k.type = "string" /\ m.type = "string"
      BY <1>10, <1>17, <3>1, <3>4
    <3>6. StrRank(k.strVal) < StrRank(m.strVal)
      BY <3>3, <3>4, <3>5, KeysAreRanked
    <3> QED BY <3>2, <3>4, <3>5, <3>6 DEF Precedes
  <2>3. CASE i > p /\ i - 1 <= p
    <3>1. i - 1 \in 1..p /\ i - p \in 1..q /\ ~ (i <= p)
      BY <1>9, <2>1, <2>3
    <3>2. e[i] = y[i - p] /\ e[i - 1] = x[i - 1]
      BY <1>16, <2>1, <2>3, <3>1
    <3>3. e[i - 1].key.type = "string" /\ e[i].key.type = "number"
      BY <1>10, <1>17, <3>1, <3>2
    <3> QED BY <3>3 DEF Precedes
  <2>4. CASE i - 1 > p
    <3>1. (i - 1) - p \in 1..q /\ i - p \in 1..q /\ ~ (i <= p) /\ ~ (i - 1 <= p) /\ (i - 1) - p < i - p
      BY <1>9, <2>1, <2>4
    <3>2. PICK j, l : j = (i - 1) - p /\ l = i - p
      OBVIOUS
    <3>3. e[i] = y[l] /\ e[i - 1] = y[j]
      BY <1>16, <2>1, <3>1, <3>2
    <3>4. Rank(y[j].key) < Rank(y[l].key)
      BY <1>7, <1>8, <3>1, <3>2
    <3>5. PICK k, m : k = y[j].key /\ m = y[l].key
      OBVIOUS
    <3>6. k \in Keys /\ m \in Keys /\ k.type = "number" /\ m.type = "number"
      BY <1>10, <1>17, <3>1, <3>2, <3>5
    <3>7. k.numVal < m.numVal
      BY <3>4, <3>5, <3>6, KeysAreRanked
    <3> QED BY <3>3, <3>5, <3>6, <3>7 DEF Precedes
  <2> QED BY <1>9, <2>1, <2>2, <2>3, <2>4
<1>19. ASSUME \A k \in Named(t) : k.type # "string"
       PROVE  e = y
  <2>1. S = {}
    BY <1>10, <1>13, <1>15, <1>19
  <2>2. p = 0
    <3>1. p # 0 => 1 \in 1..p
      BY <1>9
    <3> QED BY <1>17, <2>1, <3>1
  <2>3. x = <<>>
    BY <1>8, <1>9, <2>2, EmptySeq
  <2> QED BY <1>9, <1>11, <2>3
<1> QED BY <1>3, <1>5, <1>12, <1>14, <1>15, <1>16, <1>18, <1>19

LEMMA ArrayIsCounted ==
  ASSUME NEW t, Chained(t)
  PROVE  ArrayFormat(t) <=> /\ Named(t) # {}
                            /\ Named(t) = {Number(i) : i \in 0..Cardinality(Named(t)) - 1}
<1>1. PICK e : e = Entries(t)
  OBVIOUS
<1>2. PICK L : Lists(e, L) /\ Named(t) = {b.key : b \in L}
  BY <1>1, EntriesAre
<1>3. PICK n : n = Len(e)
  OBVIOUS
<1>4. n \in Nat /\ DOMAIN e = 1..n /\ Cardinality(Named(t)) = n /\ e \in Seq(BucketSet)
  BY <1>2, <1>3, LenProperties, ListsAreCounted DEF Lists
<1>5. (\A i \in 1..n : e[i].key \in Named(t)) /\ (\A k \in Named(t) : \E i \in 1..n : k = e[i].key)
  BY <1>2, <1>4 DEF Lists, ToSet
<1>6. e # <<>> <=> n # 0
  BY <1>3, <1>4, EmptySeq
<1>7. Named(t) # {} <=> n # 0
  <2>1. n # 0 => 1 \in 1..n
    BY <1>4
  <2>2. n = 0 => 1..n = {}
    OBVIOUS
  <2> QED BY <1>5, <2>1, <2>2
<1>8. ASSUME \A i \in 1..n : e[i].key = Number(i - 1)
      PROVE  Named(t) = {Number(i) : i \in 0..n - 1}
  <2>1. ASSUME NEW k \in Named(t)
        PROVE  \E i \in 0..n - 1 : k = Number(i)
    <3>1. PICK i \in 1..n : k = e[i].key
      BY <1>5
    <3>2. i - 1 \in 0..n - 1
      BY <1>4
    <3> QED BY <1>8, <3>1, <3>2
  <2>2. ASSUME NEW i \in 0..n - 1
        PROVE  Number(i) \in Named(t)
    <3>1. i + 1 \in 1..n /\ (i + 1) - 1 = i
      BY <1>4
    <3>2. e[i + 1].key = Number((i + 1) - 1) /\ e[i + 1].key \in Named(t)
      BY <1>5, <1>8, <3>1
    <3> QED BY <3>1, <3>2
  <2> QED BY <2>1, <2>2
<1>9. ASSUME Named(t) = {Number(i) : i \in 0..n - 1}
      PROVE  \A i \in 1..n : e[i].key = Number(i - 1)
  <2>1. \A k \in Named(t) : k.type # "string"
    BY <1>9 DEF Number
  <2>2. PICK bs : bs = Live(Walk(t, "numIndexed"))
    OBVIOUS
  <2>3. e = Sorted(bs)
    BY <1>1, <2>1, <2>2, EntriesAre
  <2>4. PICK B : B = LiveIn(InArray(t, "numIndexed"))
    OBVIOUS
  <2>5. Lists(bs, B) /\ Ranked(bs)
    BY <2>2, <2>4, ArraysAreRanked
  <2>6. Lists(e, B) /\ Len(bs) = n
    BY <1>3, <2>3, <2>5, SortedLists
  <2>7. B = L
    BY <1>2, <2>6 DEF Lists
  <2>8. {c.key : c \in B} = {Number(i) : i \in 0..n - 1}
    BY <1>2, <1>9, <2>7
  <2> QED BY <2>3, <2>5, <2>6, <2>8, CountedFromZero
<1>10. ArrayFormat(t) <=> e # <<>> /\ \A i \in 1..n : e[i].key = Number(i - 1)
  BY <1>1, <1>4 DEF ArrayFormat
<1> QED BY <1>4, <1>6, <1>7, <1>8, <1>9, <1>10

-----------------------------------------------------------------------------
(* The theorems. *)

\* The invariant: the chains of the table have one bucket per key, where it
\* hashes to.
TableChained == Chained(table)

LEMMA InitialTable == Init => TableChained
BY NewTableIsEmpty DEF Init, TableChained

LEMMA StepsAre ==
  ASSUME TableChained, [Next]_table
  PROVE  /\ TableChained'
         /\ \/ \E key \in Keys, val \in Elems : MapOf(table') = SetElem(MapOf(table), key, val)
            \/ MapOf(table') = CopyOf(MapOf(table))
            \/ table' = table
<1>1. CASE table' = table
  BY <1>1 DEF TableChained
<1>2. ASSUME NEW key \in Keys, NEW val \in Elems, TableSetElem(key, val)
      PROVE  TableChained' /\ MapOf(table') = SetElem(MapOf(table), key, val)
  BY <1>2, StoreIsSetElem DEF TableSetElem, TableChained
<1>3. CASE ObjectCopy
  BY <1>3, CopyIsCopyOf DEF ObjectCopy, TableChained
<1> QED BY <1>1, <1>2, <1>3 DEF Next

\* The chains are always such, whatever the hash values are and however
\* often elements are stored, deleted and copied.
THEOREM TableInvariance == Spec => []TableChained
<1>1. TableChained /\ [Next]_table => TableChained'
  BY StepsAre
<1> QED BY <1>1, InitialTable, PTL DEF Spec

\* No key ever has two buckets, so no old element can come back from behind
\* the one that is found (avm.c:312-377).
THEOREM OneBucket == Spec => []OneBucketPerKey
<1>1. TableChained => OneBucketPerKey
  BY DEF TableChained, Chained, OneBucketPerKey
<1> QED BY <1>1, TableInvariance, PTL

\* What a lookup finds is what the map holds (avm.c:284-310).
THEOREM LookupsFindTheMap == Spec => []LookupsAgree
<1>1. TableChained => LookupsAgree
  BY MapOfTable DEF TableChained, LookupsAgree, Map!Current
<1> QED BY <1>1, TableInvariance, PTL

\* objectmemberkeys lists each string and number that has an element once,
\* under the numbers from 0, whatever was stored and deleted before (avm.c:881-912).
THEOREM MembersAreListedOnce == Spec => []MembersListedOnce
<1>1. TableChained => MembersListedOnce
  <2> SUFFICES ASSUME TableChained
               PROVE  MembersListedOnce
    OBVIOUS
  <2>1. PICK e : e = ElemsOf(MemberKeys(table))
    OBVIOUS
  <2>2. PICK N : N = Named(table)
    OBVIOUS
  <2>3. DOMAIN e = {Number(i) : i \in 0..Cardinality(N) - 1} /\ {e[k] : k \in DOMAIN e} = N
    BY <2>1, <2>2, MembersAreListed DEF TableChained
  <2>4. N = {k \in Members(Map!Current) : k.type \in {"string", "number"}}
    BY <2>2 DEF Named, MapOf, Map!Current
  <2> QED BY <2>1, <2>3, <2>4 DEF MembersListedOnce
<1> QED BY <1>1, TableInvariance, PTL

\* Tables with the same elements are printed alike, whatever was stored,
\* deleted and copied in which order, and hashed to where (avm.c:116-150).
THEOREM PrintIsOfTheMap == Spec => []PrintDependsOnMap
<1>1. TableChained => PrintDependsOnMap
  <2> SUFFICES ASSUME TableChained
               PROVE  PrintDependsOnMap
    OBVIOUS
  <2>1. Chained(table)
    BY DEF TableChained
  <2>2. PICK N : N = Named(table)
    OBVIOUS
  <2>3. N = {k \in Members(Map!Current) : k.type \in {"string", "number"}}
    BY <2>2 DEF Named, MapOf, Map!Current
  <2>4. PICK e : e = Entries(table)
    OBVIOUS
  <2>5. PICK L : Lists(e, L) /\ N = {b.key : b \in L} /\ \A b \in L : b.value = Lookup(table, b.key)
    BY <2>1, <2>2, <2>4, EntriesAre
  <2>6. /\ Len(e) \in Nat /\ DOMAIN e = 1..Len(e) /\ Len(e) = Cardinality(N)
    BY <2>5, LenProperties, ListsAreCounted DEF Lists
  <2>7. {e[i].key : i \in DOMAIN e} = N
    BY <2>5 DEF Lists, ToSet
  <2>8. \A i \in DOMAIN e : e[i].value = Lookup(table, e[i].key)
    BY <2>5 DEF Lists, ToSet
  <2>9. ASSUME NEW i \in DOMAIN e, i > 1
        PROVE  Precedes(e[i - 1].key, e[i].key)
    <3>1. i \in 2..Len(e)
      BY <2>6, <2>9
    <3>2. \A j \in 2..Len(e) : Precedes(e[j - 1].key, e[j].key)
      BY <2>1, <2>4, EntriesAre
    <3> QED BY <3>1, <3>2
  <2>10. ArrayFormat(table) <=> N # {} /\ N = {Number(i) : i \in 0..Cardinality(N) - 1}
    BY <2>1, <2>2, ArrayIsCounted
  <2> QED BY ZenonT(40), <2>3, <2>4, <2>6, <2>7, <2>8, <2>9, <2>10 DEF PrintDependsOnMap, Precedes
<1> QED BY <1>1, TableInvariance, PTL

\* The operations of Tables are those of AvmCells.
LEMMA MapOperations ==
  /\ \A m, key, val : Map!SetElem(m, key, val) = SetElem(m, key, val)
  /\ \A m : Map!CopyOf(m) = CopyOf(m)
  /\ Map!EmptyTable = EmptyTable
<1>1. /\ Map!Nil = Nil
      /\ \A key : Map!Storable(key) <=> Storable(key)
      /\ \A m : Map!Members(m) = Members(m)
      /\ \A m, key : Map!GetElem(m, key) = GetElem(m, key)
  BY DEF Map!Nil, Nil, Map!Storable, Storable, Map!Members, Members, Map!GetElem, GetElem
<1>2. \A m, key, val : Map!Bind(m, key, val) = Bind(m, key, val)
  BY DEF Map!Bind, Bind
<1>3. ASSUME NEW m, NEW key, NEW val
      PROVE  Map!SetElem(m, key, val) = SetElem(m, key, val)
  BY <1>1, <1>2 DEF Map!SetElem, SetElem
<1>4. ASSUME NEW m
      PROVE  Map!CopyOf(m) = CopyOf(m)
  <2>1. PICK kept : kept = {k \in Members(m) : k.type \in {"string", "number"}}
    OBVIOUS
  <2>2. kept = {k \in Map!Members(m) : k.type \in {"string", "number"}}
    BY <1>1, <2>1
  <2>3. CopyOf(m) = [elems |-> [k \in kept |-> m.elems[k]], total |-> Cardinality(kept) % Word]
    BY <2>1 DEF CopyOf
  <2>4. Map!CopyOf(m) = [elems |-> [k \in kept |-> m.elems[k]], total |-> Map!Cardinality(kept) % Word]
    BY <2>2 DEF Map!CopyOf
  <2>5. Map!Cardinality(kept) = Cardinality(kept)
    BY DEF Map!Cardinality, Cardinality
  <2> QED BY <2>3, <2>4, <2>5
<1>5. Map!EmptyTable = EmptyTable
  BY <1>1 DEF Map!EmptyTable, EmptyTable
<1> QED BY <1>3, <1>4, <1>5

\* The buckets implement the map with the code's own counter: each
\* operation does to it what AvmCells has it do, for any keys, elements,
\* hash values and word size (avm.c:284-377, 914-951).
THEOREM BucketsAreAMap == Spec => ImplementsTables
<1>1. Init => Map!Init
  <2> SUFFICES ASSUME Init
               PROVE  Map!Init
    OBVIOUS
  <2>1. MapOf(table) = EmptyTable
    BY NewTableIsEmpty DEF Init
  <2> QED BY <2>1, MapOperations DEF Map!Init, Map!Current, MapOf
<1>2. TableChained /\ [Next]_table => [Map!Next]_<<ElemsOf(table), table.total>>
  <2> SUFFICES ASSUME TableChained, [Next]_table
               PROVE  Map!Next \/ UNCHANGED <<ElemsOf(table), table.total>>
    OBVIOUS
  <2>1. Map!Current = MapOf(table)
    BY DEF Map!Current, MapOf
  <2>2. \A m : MapOf(table') = m => Map!Becomes(m)
    BY DEF MapOf, Map!Becomes
  <2>3. CASE \E key \in Keys, val \in Elems : MapOf(table') = SetElem(MapOf(table), key, val)
    BY <2>1, <2>2, <2>3, MapOperations DEF Map!Next
  <2>4. CASE MapOf(table') = CopyOf(MapOf(table))
    BY <2>1, <2>2, <2>4, MapOperations DEF Map!Next
  <2>5. CASE table' = table
    BY <2>5
  <2> QED BY <2>3, <2>4, <2>5, StepsAre
<1> QED BY <1>1, <1>2, TableInvariance, PTL DEF Spec, ImplementsTables, Map!Spec
=============================================================================
