--------------------------- MODULE AvmRefsProofs ---------------------------
(***************************************************************************)
(* Theorems about AvmRefs: the counts of programs that use no table as a   *)
(* key are right, and one instruction of them uses freed memory.           *)
(***************************************************************************)
EXTENDS AvmRefs, FiniteSetTheorems, SequenceTheorems, TLAPS

\* The type invariant, but for what never changes.
HeapOK ==
  /\ holds \in [Places -> Values]
  /\ \A c \in Cells : holds[c] # Absent
  /\ refCount \in [Addresses -> 0..Counts - 1]
  /\ status \in [Addresses -> {"free", "live", "dying"}]
  /\ dying \in Seq(Frames)
  /\ pending \in Stores
  /\ lost \subseteq Addresses
  /\ wild \in BOOLEAN

\* The properties, for all tables.
AllCounted == \A t \in Addresses : Counted(t)
HeldAlive  == \A p \in Places : holds[p] \in Addresses => status[holds[p]] = "live"
NotWild    == ~ wild

\* The calls of avm_table_decref destroy different tables, which are those
\* that are dying; a table is freed empty, and lives as long as it counts.
StatusOK ==
  /\ \A t \in Addresses :
       status[t] = "dying" <=> \E i \in 1..Len(dying) : dying[i].table = t
  /\ \A i, j \in 1..Len(dying) : dying[i].table = dying[j].table => i = j
  /\ \A i \in 1..Len(dying) : dying[i].bucket = NoBucket
  /\ \A t \in Addresses, key \in Keys : status[t] = "free" => holds[<<t, key>>] = Absent
  /\ \A t \in Addresses : status[t] = "live" => refCount[t] >= 1

\* An element that an instruction still has to read or write belongs to a
\* table that some cell holds.
Held(p) == p \in Elements => \E c \in Cells : holds[c] = p[1]

\* An element of a table whose own cell was cleared has outlived the clear,
\* and nothing is being destroyed that could end its table.
Outlived(p) == dying = <<>> /\ p \in Elements /\ status[p[1]] = "live"

PendingOK ==
  /\ pending.kind \in {"new", "copy"} => holds[pending.to] = Scalar /\ Held(pending.to)
  /\ pending.kind = "copy" => pending.from # pending.to
  /\ pending.kind = "copy" /\ ~ ownCell =>
       /\ Held(pending.from) \/ Outlived(pending.from)
       /\ holds[pending.from] # Absent
       /\ CountInRange(holds[pending.from])

\* An instruction that took the last reference to the table of its element
\* will use freed memory.
OwnCellOK ==
  /\ ownCell \in BOOLEAN
  /\ wild => ownCell
  /\ ownCell => \/ wild
                \/ /\ pending.kind = "copy" /\ pending.from \in Elements
                   /\ status[pending.from[1]] # "live"

IInv ==
  /\ HeapOK /\ HeldAlive /\ AllCounted
  /\ StatusOK /\ PendingOK /\ OwnCellOK

-----------------------------------------------------------------------------
(* References, counted. *)

Refs(h, t) == {p \in Places : h[p] = t}

LEMMA PlacesFinite == IsFiniteSet(Places)
<1>1. IsFiniteSet(Addresses \X Keys)
  BY RefsAssumption, FS_Product
<1> QED
  BY <1>1, RefsAssumption, FS_Union DEF Places, Elements

LEMMA RefsFinite ==
  ASSUME NEW h, NEW t
  PROVE  IsFiniteSet(Refs(h, t)) /\ Cardinality(Refs(h, t)) \in Nat
<1>1. Refs(h, t) \subseteq Places
  BY DEF Refs
<1> QED
  BY <1>1, PlacesFinite, FS_Subset, FS_CardinalityType

LEMMA OneLess ==
  ASSUME NEW S, NEW T, NEW p, IsFiniteSet(S), p \in S, T = S \ {p}
  PROVE  Cardinality(T) = Cardinality(S) - 1 /\ Cardinality(S) >= 1
<1>1. Cardinality(S) \in Nat /\ Cardinality(S) # 0
  BY FS_CardinalityType, FS_EmptySet
<1> QED BY <1>1, FS_RemoveElement

LEMMA OneMore ==
  ASSUME NEW S, NEW T, NEW p, IsFiniteSet(S), p \notin S, T = S \cup {p}
  PROVE  Cardinality(T) = Cardinality(S) + 1
BY FS_AddElement

-----------------------------------------------------------------------------
(* One reference less, one reference more. *)

SafetyParts == NotWild /\ HeldAlive /\ AllCounted /\ StatusOK

LEMMA CountsWrapLate == \A n \in 0..Counts - 1 : n % Counts = n
  BY RefsAssumption, SMT

LEMMA ReleaseStep ==
  ASSUME HeapOK, SafetyParts,
         NEW p \in Places, NEW u \in {Scalar, Absent}, p \in Cells => u = Scalar,
         p \in Elements => status[p[1]] # "free",
         holds' = [holds EXCEPT ![p] = u], Release(holds[p], dying),
         lost' = lost, pending' \in Stores
  PROVE  HeapOK' /\ SafetyParts' /\ \A t \in Addresses : refCount'[t] <= refCount[t]
<1> USE RefsAssumption
<1>1. /\ holds' \in [Places -> Values] /\ \A c \in Cells : holds'[c] # Absent
      /\ lost' \subseteq Addresses
      /\ \A q \in Places : holds'[q] \in Addresses => q # p /\ holds'[q] = holds[q]
      /\ u \notin Addresses /\ u \in Values
  BY DEF HeapOK, Values, Places
<1>0. /\ holds \in [Places -> Values]
      /\ \A q \in Places : holds'[q] = IF q = p THEN u ELSE holds[q]
  BY DEF HeapOK
<1>2. CASE holds[p] \notin Addresses
  <2>1. UNCHANGED <<refCount, status, wild, dying>>
    BY <1>2 DEF Release
  <2>2. \A t \in Addresses : Refs(holds', t) = Refs(holds, t)
    BY <1>0, <1>1, <1>2 DEF Refs
  <2>3. HeapOK'
    BY <1>1, <2>1 DEF HeapOK
  <2>4. HeldAlive'
    BY <1>1, <2>1 DEF SafetyParts, HeldAlive
  <2>5. AllCounted'
    BY <2>1, <2>2 DEF SafetyParts, AllCounted, Counted, References, Refs
  <2>6. StatusOK'
    BY <2>1 DEF SafetyParts, StatusOK, HeapOK, Elements, Places
  <2> QED BY <2>1, <2>3, <2>4, <2>5, <2>6 DEF SafetyParts, NotWild, HeapOK
<1>3. CASE holds[p] \in Addresses
  <2> PICK v \in Addresses : v = holds[p]
    BY <1>3
  <2>1. status[v] = "live" /\ refCount[v] >= 1
    BY <1>3 DEF SafetyParts, HeldAlive, StatusOK
  <2>2. /\ refCount[v] - 1 \in 0..Counts - 1
        /\ (refCount[v] - 1) % Counts = refCount[v] - 1
    BY <1>3, <2>1, CountsWrapLate DEF HeapOK
  <2>3. /\ wild' = FALSE
        /\ refCount' = [refCount EXCEPT ![v] = refCount[v] - 1]
    BY <1>3, <2>1, <2>2 DEF Release, SafetyParts, NotWild
  <2>4. refCount' \in [Addresses -> 0..Counts - 1]
    BY <1>3, <2>2, <2>3 DEF HeapOK
  <2>5. \A t \in Addresses : refCount'[t] <= refCount[t]
    BY <1>3, <2>3 DEF HeapOK
  <2>6. /\ Cardinality(Refs(holds', v)) = Cardinality(Refs(holds, v)) - 1
        /\ Cardinality(Refs(holds, v)) >= 1
        /\ \A t \in Addresses \ {v} : Refs(holds', t) = Refs(holds, t)
    <3>1. /\ Refs(holds', v) = Refs(holds, v) \ {p}
          /\ \A t \in Addresses \ {v} : Refs(holds', t) = Refs(holds, t)
      BY <1>0, <1>1, <1>3 DEF Refs
    <3>2. IsFiniteSet(Refs(holds, v))
      BY RefsFinite
    <3>3. p \in Refs(holds, v)
      BY DEF Refs
    <3> QED BY <3>1, <3>2, <3>3, OneLess
  <2>7. Cardinality(Refs(holds, v)) \in Nat /\ Cardinality(Refs(holds', v)) \in Nat
    BY RefsFinite
  <2>8. \A t \in Addresses : Counted(t) <=>
          (status[t] = "live" => /\ Cardinality(Refs(holds, t)) <= refCount[t]
                                 /\ t \notin lost => Cardinality(Refs(holds, t)) = refCount[t])
    BY DEF Counted, References, Refs
  <2>9. \A t \in Addresses : Counted(t)' <=>
          (status'[t] = "live" => /\ Cardinality(Refs(holds', t)) <= refCount'[t]
                                  /\ t \notin lost' => Cardinality(Refs(holds', t)) = refCount'[t])
    BY DEF Counted, References, Refs
  <2>10. CASE refCount[v] = 1
    <3>1. /\ status' = [status EXCEPT ![v] = "dying"]
          /\ dying' = Append(dying, [table |-> v, bucket |-> NoBucket])
      BY <1>3, <2>3, <2>10 DEF Release, HeapOK
    <3>2. dying' \in Seq(Frames)
      BY <1>3, <3>1 DEF HeapOK, Frames
    <3>3. HeapOK'
      BY <1>1, <1>3, <2>3, <2>4, <3>1, <3>2 DEF HeapOK
    <3>4. Refs(holds, v) \ {p} = {}
      <4>1. Cardinality(Refs(holds, v)) = 1
        BY <2>1, <2>6, <2>7, <2>8, <2>10, <1>3 DEF SafetyParts, AllCounted
      <4>2. p \in Refs(holds, v)
        BY DEF Refs
      <4>3. IsFiniteSet(Refs(holds, v) \ {p}) /\ Cardinality(Refs(holds, v) \ {p}) = 0
        <5>1. IsFiniteSet(Refs(holds, v))
          BY RefsFinite
        <5> QED BY <4>1, <4>2, <5>1, FS_RemoveElement
      <4> QED BY <4>3, FS_EmptySet
    <3>5. HeldAlive'
      BY <1>1, <3>1, <3>4 DEF SafetyParts, HeldAlive, Refs, HeapOK
    <3>6. AllCounted'
      BY <1>3, <2>3, <2>6, <2>8, <2>9, <3>1 DEF SafetyParts, AllCounted, HeapOK
    <3>7. StatusOK'
      <4>1. /\ Len(dying') = Len(dying) + 1 /\ Len(dying) \in Nat
            /\ \A i \in 1..Len(dying) : dying'[i] = dying[i]
            /\ dying'[Len(dying) + 1] = [table |-> v, bucket |-> NoBucket]
        BY <3>1 DEF HeapOK
      <4>2. \A i \in 1..Len(dying) : dying[i].table # v
        BY <1>3, <2>1 DEF SafetyParts, StatusOK
      <4>3. \A t \in Addresses :
              status'[t] = "dying" <=> \E i \in 1..Len(dying') : dying'[i].table = t
        <5>1. \A t \in Addresses :
                 status[t] = "dying" <=> \E i \in 1..Len(dying) : dying[i].table = t
          BY DEF SafetyParts, StatusOK
        <5>2. status'[v] = "dying" /\ \A t \in Addresses \ {v} : status'[t] = status[t]
          BY <3>1 DEF HeapOK
        <5>3. dying'[Len(dying')].table = v /\ Len(dying') \in 1..Len(dying')
          BY <4>1
        <5>4. ASSUME NEW t \in Addresses \ {v}
              PROVE  (\E i \in 1..Len(dying') : dying'[i].table = t)
                       <=> \E i \in 1..Len(dying) : dying[i].table = t
          BY <4>1
        <5> QED BY <5>1, <5>2, <5>3, <5>4
      <4>4. \A i, j \in 1..Len(dying') : dying'[i].table = dying'[j].table => i = j
        BY <4>1, <4>2 DEF SafetyParts, StatusOK
      <4>5. \A i \in 1..Len(dying') : dying'[i].bucket = NoBucket
        BY <4>1 DEF SafetyParts, StatusOK
      <4>6. \A t \in Addresses, key \in Keys : status'[t] = "free" => holds'[<<t, key>>] = Absent
        BY <3>1 DEF SafetyParts, StatusOK, HeapOK, Elements, Places
      <4>7. \A t \in Addresses : status'[t] = "live" => refCount'[t] >= 1
        BY <1>3, <2>3, <3>1 DEF SafetyParts, StatusOK, HeapOK
      <4> QED BY <4>3, <4>4, <4>5, <4>6, <4>7 DEF StatusOK
    <3> QED BY <2>3, <2>5, <3>3, <3>5, <3>6, <3>7 DEF SafetyParts, NotWild
  <2>11. CASE refCount[v] # 1
    <3>1. UNCHANGED <<status, dying>>
      BY <1>3, <2>2, <2>3, <2>11 DEF Release, HeapOK
    <3>2. HeapOK'
      BY <1>1, <2>3, <2>4, <3>1 DEF HeapOK
    <3>3. HeldAlive'
      BY <1>1, <3>1 DEF SafetyParts, HeldAlive
    <3>4. AllCounted'
      <4>1. refCount'[v] = refCount[v] - 1 /\ \A t \in Addresses \ {v} : refCount'[t] = refCount[t]
        BY <1>3, <2>3 DEF HeapOK
      <4>2. refCount[v] \in Int
        BY <1>3 DEF HeapOK
      <4>3. \A t \in Addresses : Counted(t)
        BY DEF SafetyParts, AllCounted
      <4>4. ASSUME NEW t \in Addresses \ {v} PROVE Counted(t)'
        BY <4>1, <4>3, <2>6, <2>8, <2>9, <3>1
      <4>5. Counted(v)'
        <5>1. Cardinality(Refs(holds, v)) <= refCount[v]
              /\ (v \notin lost => Cardinality(Refs(holds, v)) = refCount[v])
          BY <4>3, <2>1, <2>8
        <5>2. Cardinality(Refs(holds', v)) <= refCount'[v]
              /\ (v \notin lost' => Cardinality(Refs(holds', v)) = refCount'[v])
          BY <5>1, <4>1, <4>2, <2>6, <2>7
        <5> QED BY <5>2, <2>9
      <4> QED BY <4>4, <4>5 DEF AllCounted
    <3>5. StatusOK'
      BY <1>3, <2>1, <2>3, <2>11, <3>1 DEF SafetyParts, StatusOK, HeapOK, Elements, Places
    <3> QED BY <2>3, <2>5, <3>2, <3>3, <3>4, <3>5 DEF SafetyParts, NotWild
  <2> QED BY <2>10, <2>11
<1> QED BY <1>2, <1>3

LEMMA TakeStep ==
  ASSUME HeapOK, SafetyParts,
         NEW p \in Places, NEW v \in Values, v # Absent, holds[p] \notin Addresses,
         v \in Addresses => status[v] = "live", CountInRange(v),
         p \in Elements => status[p[1]] # "free",
         holds' = [holds EXCEPT ![p] = v], Take(v),
         UNCHANGED <<status, dying, lost>>, pending' \in Stores
  PROVE  HeapOK' /\ SafetyParts'
<1> USE RefsAssumption
<1>1. wild' = FALSE
  BY DEF Take
<1>2. /\ v \in Addresses => refCount' = [refCount EXCEPT ![v] = refCount[v] + 1]
      /\ v \notin Addresses => refCount' = refCount
      /\ refCount' \in [Addresses -> 0..Counts - 1]
  <2>1. CASE v \notin Addresses
    BY <2>1 DEF Take, HeapOK
  <2>2. CASE v \in Addresses
    <3>1. refCount[v] + 1 \in 0..Counts - 1 /\ (refCount[v] + 1) % Counts = refCount[v] + 1
      BY SMTT(30), <2>2, CountsWrapLate DEF CountInRange, HeapOK
    <3> QED BY <2>2, <3>1 DEF Take, HeapOK
  <2> QED BY <2>1, <2>2
<1>3. HeapOK'
  BY <1>1, <1>2 DEF HeapOK, Places, Values
<1>4. HeldAlive'
  BY DEF SafetyParts, HeldAlive, HeapOK
<1>5. AllCounted'
  <2>0. \A q \in Places : holds'[q] = IF q = p THEN v ELSE holds[q]
    BY DEF HeapOK
  <2>1. \A t \in Addresses \ {v} : Refs(holds', t) = Refs(holds, t)
    BY <2>0 DEF Refs
  <2>2. v \in Addresses => Cardinality(Refs(holds', v)) = Cardinality(Refs(holds, v)) + 1
    <3>1. Refs(holds', v) = Refs(holds, v) \cup {p}
      BY <2>0 DEF Refs
    <3>2. v \in Addresses => IsFiniteSet(Refs(holds, v)) /\ p \notin Refs(holds, v)
      BY RefsFinite DEF Refs
    <3> QED BY <3>1, <3>2, OneMore
  <2>3. v \in Addresses => Cardinality(Refs(holds, v)) \in Nat
    BY RefsFinite
  <2>4. \A t \in Addresses \ {v} : Counted(t)'
    BY <1>2, <2>1 DEF SafetyParts, AllCounted, Counted, References, Refs, HeapOK
  <2>5. ASSUME v \in Addresses PROVE Counted(v)'
    <3>1. refCount'[v] = refCount[v] + 1 /\ refCount[v] \in Int /\ status[v] = "live"
      BY <1>2, <2>5 DEF HeapOK
    <3>2. References(v) = Refs(holds, v) /\ References(v)' = Refs(holds', v)
      BY DEF References, Refs
    <3>3. Counted(v)
      BY <2>5 DEF SafetyParts, AllCounted
    <3> QED BY <2>2, <2>3, <2>5, <3>1, <3>2, <3>3 DEF Counted
  <2> QED BY <2>4, <2>5 DEF AllCounted
<1>6. StatusOK'
  BY <1>2 DEF SafetyParts, StatusOK, HeapOK, Elements, Places
<1> QED BY <1>1, <1>3, <1>4, <1>5, <1>6 DEF SafetyParts, NotWild

-----------------------------------------------------------------------------
(* The steps of instructions. *)

\* Cell c keeps the table of element q alive while p is cleared.
HeldWithout(q, p) == q \in Elements => \E c \in Cells \ {p} : holds[c] = q[1]

\* Cell p holds the table of element q.
Own(q, p) == q \in Elements /\ holds[p] = q[1]

LEMMA IdleIsSafe == ASSUME IInv, Idle PROVE NotWild /\ ownCell = FALSE
BY DEF IInv, OwnCellOK, Idle, NotWild, NoStore

LEMMA ClearStep ==
  ASSUME IInv, Idle, NEW p \in Places, NEW after \in Stores, Clear(p, after),
         HeldWithout(p, p), p \in Elements => status[p[1]] # "free",
         after.kind \in {"new", "copy"} => after.to = p,
         after.kind = "copy" =>
           /\ after.from \in Places /\ after.from # p
           /\ holds[after.from] # Absent
           /\ CountInRange(holds[after.from]),
         ownCell' \in BOOLEAN,
         ownCell' => after.kind = "copy" /\ Own(after.from, p) /\ refCount[after.from[1]] = 1,
         after.kind = "copy" /\ ~ ownCell' =>
           \/ HeldWithout(after.from, p)
           \/ Own(after.from, p) /\ refCount[after.from[1]] # 1
  PROVE  IInv'
<1> USE RefsAssumption
<1>1. HeapOK /\ SafetyParts
  BY IdleIsSafe DEF IInv, SafetyParts
<1>2. holds' = [holds EXCEPT ![p] = Scalar] /\ Release(holds[p], dying)
        /\ lost' = lost /\ pending' = after
  BY DEF Clear, Idle
<1>3. HeapOK' /\ SafetyParts' /\ \A t \in Addresses : refCount'[t] <= refCount[t]
  BY <1>1, <1>2, ReleaseStep
<1>0. /\ holds'[p] = Scalar /\ \A q \in Places \ {p} : holds'[q] = holds[q]
  BY <1>1, <1>2 DEF HeapOK
<1>5. ASSUME after.kind = "copy", Own(after.from, p)
      PROVE  /\ refCount[after.from[1]] = 1 => status'[after.from[1]] # "live"
             /\ refCount[after.from[1]] # 1 => Outlived(after.from)'
  <2> PICK v \in Addresses : v = after.from[1] /\ v = holds[p]
    BY <1>5 DEF Own, Elements
  <2>1. status[v] = "live" /\ refCount[v] \in 1..Counts - 1
    BY <1>1 DEF SafetyParts, HeldAlive, StatusOK, HeapOK
  <2>2. (refCount[v] - 1) % Counts = refCount[v] - 1
    BY <2>1, CountsWrapLate
  <2>3. refCount'[v] = refCount[v] - 1
    BY <1>1, <1>2, <2>2 DEF Release, HeapOK
  <2>4. CASE refCount[v] = 1
    <3>1. status' = [status EXCEPT ![v] = "dying"]
      BY <1>2, <2>1, <2>3, <2>4 DEF Release
    <3> QED BY <1>1, <2>4, <3>1 DEF HeapOK
  <2>5. CASE refCount[v] # 1
    <3>1. status' = status /\ dying' = dying /\ dying = <<>>
      BY <1>2, <2>1, <2>3, <2>5 DEF Release, Idle
    <3> QED BY <1>5, <2>1, <2>5, <3>1 DEF Outlived, Own
  <2> QED BY <2>4, <2>5
<1>4. PendingOK'
  <2>2. \A q \in Places : HeldWithout(q, p) => Held(q)'
    BY <1>0 DEF HeldWithout, Held, Places
  <2>3. ASSUME after.kind = "copy"
        PROVE  CountInRange(holds[after.from])'
    <3>1. holds'[after.from] = holds[after.from]
      BY <1>0, <2>3
    <3>2. holds[after.from] \in Addresses =>
             refCount'[holds[after.from]] <= refCount[holds[after.from]]
               /\ refCount[holds[after.from]] < Counts - 1
               /\ refCount[holds[after.from]] \in Int /\ refCount'[holds[after.from]] \in Int
      BY <1>1, <1>3, <2>3 DEF CountInRange, HeapOK
    <3>3. holds[after.from] \in Addresses => refCount'[holds[after.from]] < Counts - 1
      BY <3>2
    <3> QED BY <1>2, <3>1, <3>3 DEF CountInRange
  <2>4. after.kind = "copy" => CountInRange(holds[after.from])' /\ holds'[after.from] = holds[after.from]
    BY <1>0, <2>3
  <2>5. after.kind = "copy" /\ ~ ownCell' => Held(after.from)' \/ Outlived(after.from)'
    BY <1>5, <2>2
  <2>6. after.kind \in {"new", "copy"} => holds'[after.to] = Scalar /\ Held(after.to)'
    BY <1>0, <2>2
  <2>7. after.kind = "copy" => after.from # after.to /\ holds'[after.from] # Absent
    BY <2>4
  <2> QED BY <1>2, <2>4, <2>5, <2>6, <2>7 DEF PendingOK, CountInRange, Held, Outlived
<1>6. OwnCellOK'
  <2>1. ownCell' => after.from \in Elements /\ status'[after.from[1]] # "live"
    BY <1>5 DEF Own
  <2>2. ~ wild'
    BY <1>3 DEF SafetyParts, NotWild
  <2> QED BY <1>2, <2>1, <2>2 DEF OwnCellOK
<1> QED BY <1>3, <1>4, <1>6 DEF IInv, SafetyParts

LEMMA OverwriteStep ==
  ASSUME IInv, NEW c \in Cells, Overwrite(c)
  PROVE  IInv'
<1> USE RefsAssumption
<1>1. /\ holds \in [Places -> Values] /\ c \in Places /\ c \notin Elements
      /\ \A q \in Places : holds'[q] = IF q = c THEN Scalar ELSE holds[q]
  BY DEF IInv, HeapOK, Overwrite, Places
<1>2. HeapOK'
  BY <1>1 DEF IInv, HeapOK, Overwrite, Values, Places
<1>3. HeldAlive'
  BY <1>1 DEF IInv, HeldAlive, Overwrite
<1>4. AllCounted'
  <2>1. \A t \in Addresses : /\ IsFiniteSet(Refs(holds, t)) /\ Cardinality(Refs(holds, t)) \in Nat
                            /\ IsFiniteSet(Refs(holds', t)) /\ Cardinality(Refs(holds', t)) \in Nat
    BY RefsFinite
  <2>2. \A t \in Addresses \ {holds[c]} : Refs(holds', t) = Refs(holds, t)
    BY <1>1 DEF Refs
  <2>3. \A t \in Addresses : Cardinality(Refs(holds', t)) <= Cardinality(Refs(holds, t))
    <3>1. \A t \in Addresses : Refs(holds', t) \subseteq Refs(holds, t)
      BY <1>1 DEF Refs
    <3> QED BY <2>1, <3>1, FS_Subset
  <2>4. \A t \in Addresses : refCount[t] \in Int
    BY DEF IInv, HeapOK
  <2>5. \A t \in Addresses : Counted(t)
    BY DEF IInv, AllCounted
  <2>6. ASSUME NEW t \in Addresses PROVE Counted(t)'
    <3>1. References(t) = Refs(holds, t) /\ References(t)' = Refs(holds', t)
      BY DEF References, Refs
    <3>2. UNCHANGED <<refCount, status>> /\ lost' = lost \cup {holds[c]}
      BY DEF Overwrite
    <3>3. t \notin lost' => t \notin lost /\ Refs(holds', t) = Refs(holds, t)
      BY <2>2, <3>2
    <3>4. Counted(t)
      BY <2>5
    <3>5. Cardinality(Refs(holds', t)) <= Cardinality(Refs(holds, t))
            /\ Cardinality(Refs(holds', t)) \in Nat /\ Cardinality(Refs(holds, t)) \in Nat
            /\ refCount[t] \in Int
      BY <2>1, <2>3, <2>4
    <3> QED BY <3>1, <3>2, <3>3, <3>4, <3>5 DEF Counted
  <2> QED BY <2>6 DEF AllCounted
<1>5. StatusOK'
  BY <1>1 DEF IInv, StatusOK, Overwrite, Elements, Places
<1>6. PendingOK' /\ OwnCellOK'
  BY DEF Overwrite, Idle, PendingOK, NoStore, IInv, OwnCellOK
<1> QED BY <1>2, <1>3, <1>4, <1>5, <1>6 DEF IInv

LEMMA LiveOperand ==
  ASSUME IInv, NEW c \in Cells, NEW key \in Keys, Operand(c, key)
  PROVE  /\ <<holds[c], key>> \in Elements /\ <<holds[c], key>> \in Places
         /\ <<holds[c], key>> \notin Cells
         /\ status[holds[c]] = "live"
BY RefsAssumption DEF Operand, Elements, Places

LEMMA InstructionStep == ASSUME IInv, Instruction PROVE IInv'
<1> USE RefsAssumption
<1>0. /\ NoStore \in Stores /\ NoStore.kind = "none"
      /\ Idle => NotWild /\ ownCell = FALSE
  BY IdleIsSafe DEF Stores, NoStore
<1>1. ASSUME NEW lv \in Cells, NEW rv \in Cells, Assign(lv, rv) PROVE IInv'
  <2> DEFINE after == [kind |-> "copy", to |-> lv, from |-> rv]
  <2>1. after \in Stores /\ lv \in Places /\ rv \in Places /\ lv \notin Elements /\ rv \notin Elements
    BY DEF Stores, CopyStores, Places
  <2>2. holds[rv] # Absent
    BY DEF IInv, HeapOK
  <2>3. Idle /\ lv # rv /\ CountInRange(holds[rv]) /\ Clear(lv, after) /\ ownCell' = FALSE
    BY <1>0, <1>1 DEF Assign
  <2> QED BY <2>1, <2>2, <2>3, ClearStep DEF HeldWithout
<1>2. ASSUME NEW lv \in Cells, StoreScalar(lv) PROVE IInv'
  <2>1. Idle /\ Clear(lv, NoStore) /\ ownCell' = FALSE
    BY <1>0, <1>2 DEF StoreScalar
  <2>2. lv \in Places /\ lv \notin Elements
    BY DEF Places
  <2> QED BY <1>0, <2>1, <2>2, ClearStep DEF HeldWithout
<1>3. ASSUME NEW c \in Cells, Overwrite(c) PROVE IInv'
  BY <1>3, OverwriteStep
<1>4. ASSUME NEW lv \in Cells, NewTable(lv) PROVE IInv'
  <2> DEFINE after == [kind |-> "new", to |-> lv]
  <2>1. after \in Stores /\ lv \in Places /\ lv \notin Elements
    BY DEF Stores, NewStores, Places
  <2>2. Idle /\ Clear(lv, after) /\ ownCell' = FALSE
    BY <1>0, <1>4 DEF NewTable
  <2> QED BY <2>1, <2>2, ClearStep DEF HeldWithout
<1>5. ASSUME NEW c \in Cells, UseFreed(c) PROVE IInv'
  BY <1>5 DEF UseFreed, IInv, HeldAlive, Places
<1>6. ASSUME NEW lv \in Cells, NEW c \in Cells, NEW key \in Keys, TableGetElem(lv, c, key)
      PROVE  IInv'
  <2> DEFINE elem == <<holds[c], key>>
             after == [kind |-> "copy", to |-> lv, from |-> elem]
  <2>1. /\ Operand(c, key) /\ CountInRange(holds[elem]) /\ Idle
        /\ ownCell' = (lv = c /\ refCount[elem[1]] = 1 /\ holds[elem] # Absent)
    BY <1>6 DEF TableGetElem, Operand
  <2>2. elem \in Elements /\ elem \in Places /\ elem \notin Cells /\ lv \in Places /\ lv \notin Elements
    BY <2>1, LiveOperand DEF Places
  <2>3. CASE holds[elem] = Absent
    <3>1. Clear(lv, NoStore) /\ ownCell' = FALSE
      BY <1>6, <2>1, <2>3 DEF TableGetElem
    <3>2. HeldWithout(lv, lv)
      BY <2>2 DEF HeldWithout
    <3> QED BY <1>0, <2>1, <2>2, <3>1, <3>2, ClearStep
  <2>4. CASE holds[elem] # Absent
    <3>1. after \in Stores
      BY <2>2 DEF Stores, CopyStores
    <3>2. Clear(lv, after)
      BY <1>6, <2>4 DEF TableGetElem
    <3>3. /\ ownCell' \in BOOLEAN
          /\ ownCell' => Own(elem, lv) /\ refCount[elem[1]] = 1
          /\ ~ ownCell' => HeldWithout(elem, lv) \/ (Own(elem, lv) /\ refCount[elem[1]] # 1)
      BY <2>1, <2>2, <2>4 DEF HeldWithout, Own
    <3>4. elem # lv
      BY <2>2
    <3>5. HeldWithout(lv, lv)
      BY <2>2 DEF HeldWithout
    <3> HIDE DEF elem
    <3> QED BY <2>1, <2>2, <2>4, <3>1, <3>2, <3>3, <3>4, <3>5, ClearStep
  <2> QED BY <2>3, <2>4
<1>7. ASSUME NEW c \in Cells, NEW rv \in Cells, NEW key \in Keys, TableSetNew(c, key, rv)
      PROVE  IInv'
  <2> PICK elem \in Places : elem = <<holds[c], key>>
    BY <1>7, LiveOperand DEF TableSetNew
  <2> PICK v : v = holds[rv]
    OBVIOUS
  <2>1. Operand(c, key) /\ Idle
    BY <1>7 DEF TableSetNew, Operand
  <2>2. elem \in Elements /\ elem \notin Cells /\ status[elem[1]] = "live"
    BY <2>1, LiveOperand
  <2>3. v \in Values /\ v # Absent /\ (v \in Addresses => status[v] = "live")
    BY DEF IInv, HeapOK, HeldAlive, Places
  <2>4. /\ holds' = [holds EXCEPT ![elem] = v] /\ Take(v) /\ CountInRange(v)
        /\ holds[elem] \notin Addresses
        /\ UNCHANGED <<status, dying, pending, lost>>
    BY <1>7 DEF TableSetNew
  <2>5. pending' \in Stores /\ PendingOK'
    BY <2>1, <2>4, <1>0 DEF Idle, PendingOK
  <2>7. NotWild /\ ~ ownCell /\ ownCell' = ownCell
    BY <1>0, <1>7, <2>1 DEF TableSetNew
  <2>6. HeapOK' /\ SafetyParts'
    BY <2>2, <2>3, <2>4, <2>5, <2>7, TakeStep DEF IInv, SafetyParts
  <2> QED BY <2>5, <2>6, <2>7 DEF IInv, SafetyParts, OwnCellOK, NotWild
<1>8. ASSUME NEW c \in Cells, NEW rv \in Cells, NEW key \in Keys, TableSetOld(c, key, rv)
      PROVE  IInv'
  <2> DEFINE elem == <<holds[c], key>>
             after == [kind |-> "copy", to |-> elem, from |-> rv]
  <2>1. Operand(c, key) /\ CountInRange(holds[rv]) /\ Idle /\ Clear(elem, after) /\ ownCell' = FALSE
    BY <1>0, <1>8 DEF TableSetOld, Operand
  <2>2. elem \in Elements /\ elem \in Places /\ elem \notin Cells /\ status[elem[1]] = "live"
    BY <2>1, LiveOperand
  <2>3. rv \in Places /\ rv \notin Elements /\ holds[rv] # Absent /\ elem # rv
    BY <2>2 DEF IInv, HeapOK, Places
  <2>4. after \in Stores
    BY <2>2, <2>3 DEF Stores, CopyStores
  <2>5. HeldWithout(elem, elem) /\ HeldWithout(rv, elem)
    BY <2>2, <2>3 DEF HeldWithout
  <2> HIDE DEF elem
  <2> QED BY <2>1, <2>2, <2>3, <2>4, <2>5, ClearStep
<1>9. ASSUME NEW c \in Cells, NEW key \in Keys, TableDelete(c, key) PROVE IInv'
  <2> DEFINE elem == <<holds[c], key>>
  <2>1. Operand(c, key) /\ Idle /\ Clear(elem, NoStore) /\ ownCell' = FALSE
    BY <1>0, <1>9 DEF TableDelete, Operand
  <2>2. elem \in Elements /\ elem \in Places /\ elem \notin Cells /\ status[elem[1]] = "live"
    BY <2>1, LiveOperand
  <2>3. HeldWithout(elem, elem)
    BY <2>2 DEF HeldWithout
  <2> HIDE DEF elem
  <2> QED BY <1>0, <2>1, <2>2, <2>3, ClearStep
<1> QED
  BY <1>1, <1>2, <1>3, <1>4, <1>5, <1>6, <1>7, <1>8, <1>9 DEF Instruction

-----------------------------------------------------------------------------
(* The rest of instructions, and destruction. *)

\* The element is there no more.
LEMMA FreedCopyStep == ASSUME IInv, FinishCopy, ownCell PROVE IInv'
<1>1. ~ Readable(pending.from) /\ ~ wild
  BY DEF IInv, OwnCellOK, FinishCopy, Resuming, Readable
<1>2. wild' = TRUE /\ pending' = NoStore
        /\ UNCHANGED <<holds, refCount, status, dying, lost, ownCell>>
  BY <1>1 DEF FinishCopy
<1>3. HeapOK'
  BY <1>2 DEF IInv, HeapOK, Stores
<1>4. HeldAlive' /\ AllCounted' /\ StatusOK'
  BY <1>2 DEF IInv, HeldAlive, AllCounted, Counted, References, StatusOK
<1>5. PendingOK' /\ OwnCellOK'
  BY <1>2 DEF IInv, PendingOK, OwnCellOK, NoStore
<1> QED BY <1>3, <1>4, <1>5 DEF IInv

LEMMA CopyStep == ASSUME IInv, FinishCopy, ~ ownCell PROVE IInv'
<1> USE RefsAssumption
<1>1. HeapOK /\ SafetyParts /\ PendingOK /\ pending.kind = "copy" /\ ~ wild
  BY DEF IInv, SafetyParts, FinishCopy, Resuming, NotWild
<1>2. pending.to \in Places /\ pending.from \in Places
  BY <1>1 DEF HeapOK, Stores, NoStore, NewStores, CopyStores
<1>3. \A q \in Places : Held(q) \/ Outlived(q) => (q \in Elements => status[q[1]] = "live")
  BY <1>1 DEF Held, Outlived, SafetyParts, HeldAlive, Elements, Places
<1> PICK p \in Places, v \in Values : p = pending.to /\ v = holds[pending.from]
  BY <1>1, <1>2 DEF HeapOK
<1>4. /\ Readable(pending.to) /\ Readable(pending.from)
      /\ holds[p] = Scalar /\ v # Absent /\ CountInRange(v)
      /\ p \in Elements => status[p[1]] = "live"
  BY <1>1, <1>2, <1>3 DEF PendingOK, Readable
<1>5. v \in Addresses => status[v] = "live"
  BY <1>1, <1>2 DEF SafetyParts, HeldAlive
<1>6. /\ holds' = [holds EXCEPT ![p] = v] /\ Take(v)
      /\ pending' = NoStore /\ UNCHANGED <<status, dying, lost, ownCell>>
  BY <1>4 DEF FinishCopy
<1>7. pending' \in Stores /\ PendingOK'
  BY <1>6 DEF Stores, PendingOK, NoStore
<1>8. holds[p] \notin Addresses /\ (p \in Elements => status[p[1]] # "free")
  BY <1>4
<1>9. HeapOK' /\ SafetyParts'
  BY <1>1, <1>4, <1>5, <1>6, <1>7, <1>8, TakeStep
<1>10. OwnCellOK'
  BY <1>6, <1>9 DEF SafetyParts, NotWild, OwnCellOK, IInv
<1> QED BY <1>7, <1>9, <1>10 DEF IInv, SafetyParts

LEMMA NewStep == ASSUME IInv, NEW n \in Addresses, FinishNew(n) PROVE IInv'
<1> USE RefsAssumption
<1>1. HeapOK /\ PendingOK /\ pending.kind = "new" /\ status[n] = "free"
  BY DEF IInv, FinishNew
<1> PICK p \in Cells : p = pending.to
  BY <1>1 DEF HeapOK, Stores, NoStore, NewStores, CopyStores
<1>2. /\ holds \in [Places -> Values] /\ p \in Places /\ p \notin Elements
      /\ holds[p] = Scalar
      /\ \A q \in Places : holds'[q] = IF q = p THEN n ELSE holds[q]
  BY <1>1 DEF HeapOK, PendingOK, FinishNew, Places
<1>3. /\ \A t \in Addresses : refCount'[t] = IF t = n THEN 1 ELSE refCount[t]
      /\ \A t \in Addresses : status'[t] = IF t = n THEN "live" ELSE status[t]
      /\ UNCHANGED <<dying, lost, ownCell, wild>> /\ pending' = NoStore /\ ~ ownCell /\ ~ wild
  BY <1>1 DEF HeapOK, FinishNew, Resuming, IInv, OwnCellOK
<1>4. HeapOK'
  <2>1. holds' \in [Places -> Values] /\ \A c \in Cells : holds'[c] # Absent
    BY <1>1, <1>2 DEF HeapOK, FinishNew, Values, Places
  <2>2. refCount' \in [Addresses -> 0..Counts - 1] /\ status' \in [Addresses -> {"free", "live", "dying"}]
    BY <1>1 DEF HeapOK, FinishNew
  <2> QED BY <1>1, <1>3, <2>1, <2>2 DEF HeapOK, Stores
<1>5. HeldAlive'
  BY <1>1, <1>2, <1>3 DEF IInv, HeldAlive
<1>6. AllCounted'
  <2>1. Refs(holds, n) = {}
    BY <1>1 DEF IInv, HeldAlive, Refs
  <2>2. Refs(holds', n) = {p} /\ \A t \in Addresses \ {n} : Refs(holds', t) = Refs(holds, t)
    BY <1>2, <2>1 DEF Refs
  <2>3. Cardinality(Refs(holds', n)) = 1
    BY <2>2, FS_Singleton
  <2>4. Counted(n)'
    BY <1>3, <2>3 DEF Counted, References, Refs
  <2>5. ASSUME NEW t \in Addresses \ {n} PROVE Counted(t)'
    <3>1. Counted(t)
      BY DEF IInv, AllCounted
    <3>2. References(t) = Refs(holds, t) /\ References(t)' = Refs(holds', t)
      BY DEF References, Refs
    <3> QED BY <1>3, <2>2, <3>1, <3>2 DEF Counted
  <2> QED BY <2>4, <2>5 DEF AllCounted
<1>7. StatusOK'
  <2>1. \A i \in 1..Len(dying) : dying[i].table # n
    BY <1>1 DEF IInv, StatusOK
  <2>2. \A t \in Addresses, key \in Keys : holds'[<<t, key>>] = holds[<<t, key>>]
    BY <1>2 DEF Elements, Places
  <2> QED BY <1>1, <1>3, <2>1, <2>2 DEF IInv, StatusOK
<1>8. PendingOK' /\ OwnCellOK'
  BY <1>3 DEF PendingOK, NoStore, IInv, OwnCellOK
<1> QED BY <1>4, <1>5, <1>6, <1>7, <1>8 DEF IInv

\* Without table keys the innermost call has no key to come back from.
LEMMA CurrentCall ==
  ASSUME IInv, dying # <<>>
  PROVE  /\ Len(dying) \in 1..Len(dying) /\ Len(dying) \in Nat
         /\ Current.table \in Addresses /\ status[Current.table] = "dying"
         /\ Append(Callers, [Current EXCEPT !.bucket = NoBucket]) = dying
         /\ Callers \in Seq(Frames) /\ Len(Callers) = Len(dying) - 1
         /\ \A i \in 1..Len(Callers) : Callers[i] = dying[i]
<1>1. dying \in Seq(Frames) /\ Len(dying) \in Nat /\ Len(dying) \in 1..Len(dying)
  BY DEF IInv, HeapOK
<1>2. Current \in Frames /\ Current.bucket = NoBucket
  BY <1>1 DEF Current, IInv, StatusOK
<1>3. Current.table \in Addresses /\ [Current EXCEPT !.bucket = NoBucket] = Current
  BY <1>2 DEF Frames
<1>4. status[Current.table] = "dying"
  BY <1>1, <1>3 DEF Current, IInv, StatusOK
<1>5. /\ Callers \in Seq(Frames) /\ Len(Callers) = Len(dying) - 1
      /\ \A i \in 1..Len(Callers) : Callers[i] = dying[i]
  <2>1. PICK n \in Nat : Len(dying) = n + 1
    <3>1. Len(dying) - 1 \in Nat /\ Len(dying) = (Len(dying) - 1) + 1
      BY <1>1
    <3> QED BY <3>1
  <2>2. Callers = SubSeq(dying, 1, n)
    BY <2>1 DEF Callers
  <2>3. \A i \in 1..n : dying[i] \in Frames
    BY <1>1, <2>1
  <2>4. SubSeq(dying, 1, n) \in Seq(Frames)
    BY <2>3, SubSeqProperties
  <2>5. Len(SubSeq(dying, 1, n)) = n
    BY <2>3, SubSeqProperties
  <2>6. \A i \in 1..n : SubSeq(dying, 1, n)[i] = dying[i]
    BY <2>3, SubSeqProperties
  <2> QED BY <2>1, <2>2, <2>4, <2>5, <2>6
<1>6. Append(Callers, Current) = dying
  BY <1>1, <1>2, <1>5 DEF Current
<1> QED BY <1>1, <1>3, <1>4, <1>5, <1>6

LEMMA DestroyValueStep ==
  ASSUME TableKeys = {}, IInv, NEW key \in Keys, DestroyValue(key)
  PROVE  IInv'
<1> USE RefsAssumption
<1>1. HeapOK /\ SafetyParts /\ PendingOK /\ dying # <<>>
  BY DEF IInv, SafetyParts, DestroyValue, Destroying, NotWild
<1>2. /\ Current.table \in Addresses /\ status[Current.table] = "dying"
      /\ Append(Callers, [Current EXCEPT !.bucket = NoBucket]) = dying
  BY <1>1, CurrentCall
<1> PICK p \in Places : p = <<Current.table, key>>
  BY <1>2 DEF Elements, Places
<1>3. p \in Elements /\ p \notin Cells /\ status[p[1]] = "dying"
  BY <1>2 DEF Elements
<1>4. /\ holds' = [holds EXCEPT ![p] = Absent] /\ Release(holds[p], dying)
      /\ pending' = pending /\ lost' = lost /\ ownCell' = ownCell
  BY <1>2 DEF DestroyValue
<1>5. pending' \in Stores
  BY <1>1, <1>4 DEF HeapOK
<1>6. HeapOK' /\ SafetyParts' /\ \A t \in Addresses : refCount'[t] <= refCount[t]
  BY <1>1, <1>3, <1>4, <1>5, ReleaseStep
<1>7. PendingOK'
  <2>1. \A q \in Places \ {p} : holds'[q] = holds[q]
    BY <1>1, <1>4 DEF HeapOK
  <2>2. \A q \in Places : Held(q) => q # p /\ Held(q)' /\ holds'[q] = holds[q]
    <3>1. SUFFICES ASSUME NEW q \in Places, Held(q)
                   PROVE  q # p /\ Held(q)' /\ holds'[q] = holds[q]
      OBVIOUS
    <3>2. q # p
      BY <1>2, <1>3, <3>1 DEF Held, IInv, HeldAlive, Places
    <3>3. Held(q)'
      BY <1>3, <2>1, <3>1 DEF Held, Places
    <3> QED BY <2>1, <3>2, <3>3
  <2>3. pending.kind \in {"new", "copy"} => pending.to \in Places
    BY <1>1 DEF HeapOK, Stores, NoStore, NewStores, CopyStores, Places
  <2>4. pending.kind = "copy" => pending.from \in Places
    BY <1>1 DEF HeapOK, Stores, NoStore, NewStores, CopyStores
  <2>5. \A v \in Values : CountInRange(v) => (v \in Addresses => refCount'[v] < Counts - 1)
    BY <1>1, <1>6 DEF CountInRange, HeapOK
  <2>6. pending.kind = "copy" => holds[pending.from] \in Values
    BY <1>1, <2>4 DEF HeapOK
  <2>7. pending.kind = "copy" /\ ~ ownCell => Held(pending.from)
    BY <1>1 DEF PendingOK, Outlived
  <2> QED BY <1>1, <1>4, <2>2, <2>3, <2>4, <2>5, <2>6, <2>7 DEF PendingOK, CountInRange
<1>8. OwnCellOK'
  <2>1. \A t \in Addresses : status[t] # "live" => status'[t] # "live"
    <3>1. status' = status \/ \E t \in Addresses : status' = [status EXCEPT ![t] = "dying"]
      BY <1>4 DEF Release
    <3> QED BY <1>1, <3>1 DEF HeapOK
  <2>2. ~ wild /\ ~ wild'
    BY <1>1, <1>6 DEF SafetyParts, NotWild
  <2>3. pending.kind = "copy" /\ pending.from \in Elements => pending.from[1] \in Addresses
    BY DEF Elements
  <2> QED BY <1>4, <2>1, <2>2, <2>3 DEF IInv, OwnCellOK
<1> QED BY <1>6, <1>7, <1>8 DEF IInv, SafetyParts

LEMMA FreeStep == ASSUME IInv, FreeTable PROVE IInv'
<1> USE RefsAssumption
<1> PICK n : n = Current.table
  OBVIOUS
<1>1. HeapOK /\ dying # <<>> /\ ~ wild
  BY DEF IInv, FreeTable, Destroying
<1>2. /\ n \in Addresses /\ status[n] = "dying" /\ Len(dying) \in 1..Len(dying) /\ Len(dying) \in Nat
      /\ Callers \in Seq(Frames) /\ Len(Callers) = Len(dying) - 1
      /\ \A i \in 1..Len(Callers) : Callers[i] = dying[i]
  BY <1>1, CurrentCall
<1>3. /\ \A key \in Keys : holds[<<n, key>>] = Absent
      /\ status' = [status EXCEPT ![n] = "free"]
      /\ \A t \in Addresses : status'[t] = IF t = n THEN "free" ELSE status[t]
      /\ dying' = Callers /\ lost' = lost \ {n} /\ wild' = FALSE
      /\ UNCHANGED <<holds, refCount, pending, ownCell>>
  BY <1>1, <1>2 DEF FreeTable, HeapOK
<1>4. HeapOK'
  BY <1>1, <1>2, <1>3 DEF HeapOK
<1>5. HeldAlive'
  BY <1>2, <1>3 DEF IInv, HeldAlive
<1>6. AllCounted'
  BY <1>3 DEF IInv, AllCounted, Counted, References
<1>7. StatusOK'
  <2>1. /\ \A t \in Addresses : status[t] = "dying" <=> \E i \in 1..Len(dying) : dying[i].table = t
        /\ \A i, j \in 1..Len(dying) : dying[i].table = dying[j].table => i = j
        /\ \A i \in 1..Len(dying) : dying[i].bucket = NoBucket
        /\ dying[Len(dying)].table = n
    BY DEF IInv, StatusOK, Current
  <2>2. \A t \in Addresses \ {n} :
          (\E i \in 1..Len(dying) : dying[i].table = t) <=> \E i \in 1..Len(Callers) : Callers[i].table = t
    BY <1>2, <2>1
  <2>3. ~ \E i \in 1..Len(Callers) : Callers[i].table = n
    BY <1>2, <2>1
  <2>4. \A t \in Addresses : status'[t] = "dying" <=> \E i \in 1..Len(dying') : dying'[i].table = t
    BY <1>3, <2>1, <2>2, <2>3
  <2>5. /\ \A i, j \in 1..Len(dying') : dying'[i].table = dying'[j].table => i = j
        /\ \A i \in 1..Len(dying') : dying'[i].bucket = NoBucket
    BY <1>2, <1>3, <2>1
  <2>6. /\ \A t \in Addresses, key \in Keys : status'[t] = "free" => holds'[<<t, key>>] = Absent
        /\ \A t \in Addresses : status'[t] = "live" => refCount'[t] >= 1
    BY <1>3 DEF IInv, StatusOK
  <2> QED BY <2>4, <2>5, <2>6 DEF StatusOK
<1>8. PendingOK'
  <2>1. pending.kind = "copy" /\ ~ ownCell => Held(pending.from)
    BY <1>1 DEF IInv, PendingOK, Outlived
  <2> QED BY <1>3, <2>1 DEF IInv, PendingOK, Held, CountInRange
<1>9. OwnCellOK'
  <2>1. pending.from \in Elements => pending.from[1] \in Addresses
    BY DEF Elements
  <2> QED BY <1>1, <1>3, <2>1 DEF IInv, OwnCellOK
<1> QED BY <1>4, <1>5, <1>6, <1>7, <1>8, <1>9 DEF IInv

-----------------------------------------------------------------------------
(* The theorems. *)

LEMMA InitialState == Init => IInv
<1> USE RefsAssumption
<1> SUFFICES ASSUME Init PROVE IInv
  OBVIOUS
<1>1. HeapOK
  <2>1. holds \in [Places -> Values] /\ \A c \in Cells : holds[c] # Absent
    BY DEF Init, Values, Places
  <2>2. refCount \in [Addresses -> 0..Counts - 1] /\ status \in [Addresses -> {"free", "live", "dying"}]
    BY DEF Init
  <2>3. dying \in Seq(Frames)
    BY DEF Init
  <2> QED BY <2>1, <2>2, <2>3 DEF Init, HeapOK, Stores
<1>2. HeldAlive
  BY DEF Init, HeldAlive
<1>3. AllCounted
  BY DEF Init, AllCounted, Counted
<1>4. StatusOK
  BY DEF Init, StatusOK, Elements, Places
<1>5. PendingOK /\ OwnCellOK
  BY DEF Init, PendingOK, OwnCellOK, NoStore
<1> QED BY <1>1, <1>2, <1>3, <1>4, <1>5 DEF IInv

LEMMA StepKeeps == ASSUME TableKeys = {}, IInv, [Next]_vars PROVE IInv'
<1>1. CASE Instruction
  BY <1>1, InstructionStep
<1>2. CASE Continue
  <2>1. ASSUME NEW key \in Keys, DestroyKey(key) PROVE IInv'
    BY <2>1 DEF DestroyKey
  <2> QED BY <1>2, <2>1, FreedCopyStep, CopyStep, NewStep, DestroyValueStep, FreeStep DEF Continue
<1>3. CASE UNCHANGED vars
  BY <1>3 DEF vars, IInv, HeapOK, HeldAlive, AllCounted, Counted, References,
              StatusOK, PendingOK, OwnCellOK, Held, Outlived, CountInRange
<1> QED BY <1>1, <1>2, <1>3 DEF Next, Stuck

\* What a program uses does not change.
LEMMA UsesStay == Spec => [](used \in Uses)
<1>1. Init => used \in Uses
  BY DEF Init
<1>2. used \in Uses /\ [Next]_vars => (used \in Uses)'
  <2>1. Instruction => used' = used
    BY DEF Instruction, Assign, StoreScalar, Overwrite, NewTable, UseFreed, TableGetElem,
           TableSetNew, TableSetOld, TableDelete, Clear
  <2>2. Continue => used' = used
    BY DEF Continue, FinishCopy, FinishNew, DestroyKey, DestroyValue, FreeTable
  <2> QED BY <2>1, <2>2 DEF Next, Stuck, vars
<1> QED BY <1>1, <1>2, PTL DEF Spec

\* The inductive invariant, for programs that use no table as a key
\* (avm.c:41-62, 216-270).
THEOREM CountsHold == ASSUME TableKeys = {} PROVE Spec => []IInv
<1>1. Init => IInv
  BY InitialState
<1>2. IInv /\ [Next]_vars => IInv'
  BY StepKeeps
<1> QED BY <1>1, <1>2, PTL DEF Spec

\* Counts are never below the number of references.
THEOREM CountsStayRight == ASSUME TableKeys = {} PROVE Spec => []CountsCoverReferences
<1>1. IInv => CountsCoverReferences
  BY DEF IInv, AllCounted, CountsCoverReferences, OtherTables
<1> QED BY <1>1, CountsHold, PTL

\* No cell or element outlives the table it holds.
THEOREM NothingDangles == ASSUME TableKeys = {} PROVE Spec => []NoDanglingReference
<1>1. IInv => NoDanglingReference
  BY DEF IInv, HeldAlive, NoDanglingReference, OtherTables
<1> QED BY <1>1, CountsHold, PTL

\* One instruction uses freed memory: a tablegetelem into the cell of its
\* table, when nothing else refers to that (avm.c:674-685), and it always
\* does.
THEOREM OwnCellReadsFreed == ASSUME TableKeys = {} PROVE Spec => []OnlyOwnCellIsWild
<1>1. IInv => OnlyOwnCellIsWild
  BY DEF IInv, OwnCellOK, OnlyOwnCellIsWild, NoStore
<1> QED BY <1>1, CountsHold, PTL

\* A table that nothing holds is freed, unless a cell was overwritten.
THEOREM GarbageIsFreed == ASSUME TableKeys = {} PROVE Spec => []UnreferencedIsFreed
<1>1. IInv => UnreferencedIsFreed
  <2>1. Cardinality({}) = 0
    BY FS_EmptySet
  <2>2. SUFFICES ASSUME IInv, NEW t \in Addresses, status[t] = "live", References(t) = {}, t \notin lost
                 PROVE  FALSE
    BY DEF UnreferencedIsFreed, OtherTables
  <2>3. Cardinality(References(t)) = refCount[t]
    BY <2>2 DEF IInv, AllCounted, Counted
  <2>4. refCount[t] >= 1
    BY <2>2 DEF IInv, StatusOK
  <2> QED BY <2>1, <2>2, <2>3, <2>4
<1> QED BY <1>1, CountsHold, PTL

\* Types, for programs that use no table as a key.
THEOREM RefsTypeCorrect == ASSUME TableKeys = {} PROVE Spec => []TypeOK
<1>1. IInv /\ used \in Uses => TypeOK
  BY DEF IInv, HeapOK, OwnCellOK, TypeOK
<1> QED BY <1>1, CountsHold, UsesStay, PTL
=============================================================================
