------------------------------ MODULE AvmTable ------------------------------
(***************************************************************************)
(* A table as it is in memory (avm.h:91-104, avm.c:216-377): chains of     *)
(* buckets, the newest in front, one chain per hash value for numbers, one *)
(* per hash value for strings, one for all other keys; and what goes       *)
(* through the chains: objectmemberkeys, objectcopy, and the first part of *)
(* table_tostring, which collects the elements to print and sorts them     *)
(* (avm.c:116-150).                                                        *)
(***************************************************************************)
EXTENDS AvmCells, SequencesExt

CONSTANTS
  Keys, Elems,    \* the cells used as keys and as elements
  HashSize,       \* AVM_TABLE_HASHSIZE: 211 in the code
  HashNum,        \* the hash value of every number and
  HashStr,        \* of every string that is a key
  StrOrder        \* the strings that are keys, in the order of strcmp

Slots == 0..HashSize - 1

ASSUME HashAssumption ==
  /\ HashSize \in Nat \ {0} /\ Word \in Nat \ {0}
  /\ \A k \in Keys : k.type = "number" => HashNum[k.numVal] \in Slots
  /\ \A k \in Keys : k.type = "string" => HashStr[k.strVal] \in Slots /\ k.strVal \in ToSet(StrOrder)

ASSUME KeysAssumption == Keys \subseteq Cells /\ StrOrder \in Seq(Strings)

\* A list of strings and numbers is a table with an index for each, which has
\* a hash value like any number.
ASSUME IndexAssumption ==
  \A listed \in SUBSET {k \in Keys : k.type \in {"string", "number"}} :
    IsFiniteSet(listed) => \A i \in 0..Cardinality(listed) - 1 : HashNum[i] \in Slots

VARIABLE table

\* A chain is named by the array it is in and its place there.
Chains == {<<"numIndexed", h>> : h \in Slots} \cup {<<"strIndexed", h>> : h \in Slots}
            \cup {<<"otherIndexed", 0>>}

NewTable == [chain |-> [c \in Chains |-> <<>>], total |-> 0]

ChainOf(key) ==
  CASE key.type = "number" -> <<"numIndexed", HashNum[key.numVal]>>
    [] key.type = "string" -> <<"strIndexed", HashStr[key.strVal]>>
    [] OTHER -> <<"otherIndexed", 0>>

-----------------------------------------------------------------------------
(* avm_table_getelem and avm_table_setelem. *)

\* other_key_eq, and the comparisons of numbers and strings: an undefined
\* key is in no chain.
Matches(t, c, key) == {i \in DOMAIN t.chain[c] : t.chain[c][i].key = key}

Found(t, key) == Matches(t, ChainOf(key), key) # {}

\* The bucket the search stops at.
Place(t, key) == CHOOSE i \in Matches(t, ChainOf(key), key) :
                   \A j \in Matches(t, ChainOf(key), key) : i <= j

LookupMutant(t, key) ==
  IF t.chain[ChainOf(key)] # <<>> THEN Head(t.chain[ChainOf(key)]).value ELSE Nil

Lookup(t, key) == IF Found(t, key) THEN t.chain[ChainOf(key)][Place(t, key)].value ELSE Nil

OverwrittenMutant(t, key, val) == [t EXCEPT !.chain[ChainOf(key)][1].value = val]

Overwritten(t, key, val) ==
  [t EXCEPT !.chain[ChainOf(key)][Place(t, key)].value = val]

Pushed(t, key, val) ==
  [chain |-> [t.chain EXCEPT ![ChainOf(key)] = <<[key |-> key, value |-> val]>> \o @],
   total |-> (t.total + 1) % Word]

StoreMutant(t, key, val) ==
  IF val.type = "nil" THEN
    IF Lookup(t, key).type = "nil" THEN t
    ELSE [Overwritten(t, key, Nil) EXCEPT !.total = (@ - 1) % Word]
  ELSE IF ~ Storable(key) THEN t
  ELSE IF Lookup(t, key).type # "nil" THEN Overwritten(t, key, val) ELSE Pushed(t, key, val)

Store(t, key, val) ==
  IF val.type = "nil" THEN
    IF Lookup(t, key).type = "nil" THEN t
    ELSE [Overwritten(t, key, Nil) EXCEPT !.total = (@ - 1) % Word]
  ELSE IF ~ Storable(key) THEN t
  ELSE IF Found(t, key) THEN Overwritten(t, key, val) ELSE Pushed(t, key, val)

-----------------------------------------------------------------------------
(* Walks over the chains: array after array, slot after slot. *)

Walk(t, array) == FlattenSeq([h \in 1..HashSize |-> t.chain[<<array, h - 1>>]])

Live(buckets) ==
  FoldLeft(LAMBDA kept, b : IF b.value.type # "nil" THEN Append(kept, b) ELSE kept, <<>>, buckets)

\* The buckets, stored one after the other in a new table.
StoredIn(buckets) == FoldLeft(LAMBDA new, b : Store(new, b.key, b.value), NewTable, buckets)

\* objectcopy: deleted elements are not stored in a new table.
CopyTable(t) == StoredIn(Walk(t, "strIndexed") \o Walk(t, "numIndexed"))

\* objectmemberkeys: the keys of the buckets, in an array.
ArrayOf(buckets) ==
  StoredIn([i \in DOMAIN buckets |-> [key |-> Number(i - 1), value |-> buckets[i].key]])

MemberKeysMutant(t) == ArrayOf(Walk(t, "strIndexed") \o Live(Walk(t, "numIndexed")))

MemberKeys(t) == ArrayOf(Live(Walk(t, "strIndexed") \o Walk(t, "numIndexed")))

\* table_tostring: what is printed in which order, and whether as an array.
\* The comparison functions of qsort tell any two keys apart, so the place of
\* a bucket is the number of those before it.
StrRank(s) == CHOOSE i \in DOMAIN StrOrder : StrOrder[i] = s

Rank(key) == IF key.type = "string" THEN StrRank(key.strVal) ELSE key.numVal

Before(buckets, b) == {c \in ToSet(buckets) : Rank(c.key) < Rank(b.key)}

Sorted(buckets) ==
  [i \in DOMAIN buckets |->
     CHOOSE b \in ToSet(buckets) : Cardinality(Before(buckets, b)) = i - 1]

EntriesMutant(t) ==
  Live(Walk(t, "strIndexed")) \o Live(Walk(t, "numIndexed"))

Entries(t) == Sorted(Live(Walk(t, "strIndexed"))) \o Sorted(Live(Walk(t, "numIndexed")))

ArrayFormat(t) ==
  LET entries == Entries(t)
  IN  /\ entries # <<>>
      /\ \A i \in DOMAIN entries : entries[i].key = Number(i - 1)

-----------------------------------------------------------------------------

Init == table = NewTable

TableSetElem(key, val) == table' = Store(table, key, val)

\* The table is replaced by a copy of it.
ObjectCopy == table' = CopyTable(table)

Next == (\E key \in Keys, val \in Elems : TableSetElem(key, val)) \/ ObjectCopy

Spec == Init /\ [][Next]_table

-----------------------------------------------------------------------------

Buckets == UNION {ToSet(table.chain[c]) : c \in Chains}

\* The map that the buckets stand for.
ElemsOf(t) ==
  LET all == UNION {ToSet(t.chain[c]) : c \in Chains}
  IN  [k \in {b.key : b \in all} |-> (CHOOSE b \in all : b.key = k).value]

Map == INSTANCE Tables WITH elems <- ElemsOf(table), total <- table.total

\* No key has two buckets, in one chain or in two: a second one would keep
\* an old element alive behind the one that is found (avm.c:312-377).
OneBucketPerKey ==
  \A c, d \in Chains : \A i \in DOMAIN table.chain[c], j \in DOMAIN table.chain[d] :
    table.chain[c][i].key = table.chain[d][j].key => c = d /\ i = j

\* What is found is what the map holds, for every key (avm.c:284-310).
LookupsAgree == \A key \in Keys : Lookup(table, key) = GetElem(Map!Current, key)

\* objectmemberkeys lists each string and number whose element is not
\* deleted, once, under the numbers from 0 (avm.c:881-912).
MembersListedOnce ==
  LET listed  == ElemsOf(MemberKeys(table))
      members == {k \in Members(Map!Current) : k.type \in {"string", "number"}}
  IN  /\ DOMAIN listed = {Number(i) : i \in 0..Cardinality(members) - 1}
      /\ {listed[k] : k \in DOMAIN listed} = members

Precedes(k, m) ==
  \/ k.type = "string" /\ m.type = "number"
  \/ k.type = "string" /\ m.type = "string" /\ StrRank(k.strVal) < StrRank(m.strVal)
  \/ k.type = "number" /\ m.type = "number" /\ k.numVal < m.numVal

\* Two tables with the same elements are printed alike, whatever was stored
\* and deleted in which order: what is printed is a function of the map (avm.c:116-150).
PrintDependsOnMap ==
  LET shown  == {k \in Members(Map!Current) : k.type \in {"string", "number"}}
      entries == Entries(table)
  IN  /\ {entries[i].key : i \in DOMAIN entries} = shown
      /\ Len(entries) = Cardinality(shown)
      /\ \A i \in DOMAIN entries :
           /\ entries[i].value = Lookup(table, entries[i].key)
           /\ i > 1 => Precedes(entries[i - 1].key, entries[i].key)
      /\ ArrayFormat(table) <=> shown # {} /\ shown = {Number(i) : i \in 0..Cardinality(shown) - 1}

\* The chains are the map of AvmCells: every operation does to the map what
\* SetElem and CopyOf do, the counter included.
ImplementsTables == Map!Spec
=============================================================================
