--------------------------- MODULE AvmPrintProofs ---------------------------
(***************************************************************************)
(* cell_tostring and table_tostring call each other at most MaxDepth + 1   *)
(* deep, whatever the tables contain and however many there are.           *)
(***************************************************************************)
EXTENDS AvmPrint, TLAPS, SequenceTheorems

Calls == [table : Tables, depth : Nat, next : Nat]

\* Besides TypeOK: calls are records of their kind, and the value is one of those known.
IInv == TypeOK /\ calls \in Seq(Calls) /\ value \in Tables \cup Scalars

\* Before printing begins no call runs.
LEMMA InitIInv == Init => IInv
<1> SUFFICES ASSUME Init PROVE IInv
  OBVIOUS
<1>1. calls = <<>> /\ calls \in Seq(Calls) /\ Len(calls) = 0
  BY DEF Init
<1>2. 0 <= MaxDepth + 1
  BY PrintAssumption
<1> QED BY <1>1, <1>2 DEF Init, IInv, TypeOK

\* What SubSeq leaves of a sequence whose last element is taken away.
LEMMA AllButTheLast ==
  ASSUME NEW S, NEW s \in Seq(S), s # <<>>
  PROVE  /\ Len(s) \in Nat /\ Len(s) > 0 /\ s[Len(s)] \in S
         /\ SubSeq(s, 1, Len(s) - 1) \in Seq(S)
         /\ Len(SubSeq(s, 1, Len(s) - 1)) = Len(s) - 1
         /\ \A i \in 1..Len(s) - 1 : SubSeq(s, 1, Len(s) - 1)[i] = s[i]
<1>1. Len(s) \in Nat /\ Len(s) > 0 /\ s[Len(s)] \in S
  BY EmptySeq
<1>2. PICK n : n = Len(s) - 1
  OBVIOUS
<1>3. n \in Nat /\ n <= Len(s)
  BY <1>1, <1>2
<1>4. 1 \in 1..Len(s) + 1 /\ n \in 0..Len(s)
  BY <1>1, <1>3
<1>5. /\ SubSeq(s, 1, n) \in Seq(S)
      /\ Len(SubSeq(s, 1, n)) = IF 1 <= n THEN n - 1 + 1 ELSE 0
      /\ \A i \in 1..n - 1 + 1 : SubSeq(s, 1, n)[i] = s[1 + i - 1]
  BY <1>1, <1>3, <1>4, SubSeqProperties
<1>6. Len(SubSeq(s, 1, n)) = n
  BY <1>3, <1>5
<1>7. n - 1 + 1 = n
  BY <1>3
<1>8. \A i \in 1..n : SubSeq(s, 1, n)[i] = s[i]
  <2> TAKE i \in 1..n
  <2>1. 1 + i - 1 = i
    BY <1>3
  <2> QED BY <2>1, <1>5, <1>7
<1> QED BY <1>1, <1>2, <1>5, <1>6, <1>8

\* The calls below stay as they are; of the running one the next element changes.
LEMMA WaitingCalls ==
  ASSUME NEW s \in Seq(Calls), s # <<>>
  PROVE  LET w == Front(s) \o <<[Last(s) EXCEPT !.next = @ + 1]>>
         IN  /\ w \in Seq(Calls) /\ Len(w) = Len(s)
             /\ \A i \in 1..Len(s) : w[i].table = s[i].table /\ w[i].depth = s[i].depth
<1>0. Len(s) \in Nat /\ Len(s) > 0 /\ s[Len(s)] \in Calls
  BY EmptySeq
<1>1. PICK l : l = [s[Len(s)] EXCEPT !.next = @ + 1]
  OBVIOUS
<1>2. l \in Calls /\ l.table = s[Len(s)].table /\ l.depth = s[Len(s)].depth
  BY <1>0, <1>1 DEF Calls
<1>3. PICK f : f = SubSeq(s, 1, Len(s) - 1)
  OBVIOUS
<1>4. f \in Seq(Calls) /\ Len(f) = Len(s) - 1 /\ \A i \in 1..Len(s) - 1 : f[i] = s[i]
  BY <1>3, AllButTheLast
<1>5. PICK w : w = f \o <<l>>
  OBVIOUS
<1>6. /\ w \in Seq(Calls) /\ Len(w) = Len(s)
      /\ \A i \in 1..Len(s) - 1 : w[i] = s[i]
      /\ w[Len(s)] = l
  BY <1>0, <1>2, <1>4, <1>5
<1>7. \A i \in 1..Len(s) : w[i].table = s[i].table /\ w[i].depth = s[i].depth
  <2> TAKE i \in 1..Len(s)
  <2>1. CASE i = Len(s)
    BY <2>1, <1>2, <1>6
  <2>2. CASE i # Len(s)
    BY <2>2, <1>0, <1>6
  <2> QED BY <2>1, <2>2
<1> QED BY <1>1, <1>3, <1>5, <1>6, <1>7 DEF Front, Last

\* A value printed at the depth that the calls below have reached keeps them in order.
LEMMA PrintedInOrder ==
  ASSUME NEW w \in Seq(Calls), NEW v \in Tables \cup Scalars, NEW before,
         Len(w) <= MaxDepth + 1,
         \A i \in 1..Len(w) : w[i].table \in Tables /\ w[i].depth = i - 1,
         CellToString(v, Len(w), before, w)
  PROVE  /\ calls' \in Seq(Calls) /\ Len(calls') <= MaxDepth + 1
         /\ \A i \in 1..Len(calls') : calls'[i].table \in Tables /\ calls'[i].depth = i - 1
<1>1. CASE Short(v, Len(w))
  BY <1>1 DEF CellToString
<1>2. CASE ~ Short(v, Len(w))
  <2>1. v \in Tables /\ Len(w) <= MaxDepth
    BY <1>2, PrintAssumption DEF Short, TooDeep
  <2>2. PICK c : c = [table |-> v, depth |-> Len(w), next |-> 1]
    OBVIOUS
  <2>3. c \in Calls /\ c.table = v /\ c.depth = Len(w)
    BY <2>1, <2>2 DEF Calls
  <2>4. calls' = Append(w, c)
    BY <1>2, <2>2 DEF CellToString
  <2>5. /\ calls' \in Seq(Calls) /\ Len(calls') = Len(w) + 1
        /\ \A i \in 1..Len(w) : calls'[i] = w[i]
        /\ calls'[Len(w) + 1] = c
    BY <2>3, <2>4
  <2>6. \A i \in 1..Len(calls') : calls'[i].table \in Tables /\ calls'[i].depth = i - 1
    <3> TAKE i \in 1..Len(calls')
    <3>1. CASE i = Len(w) + 1
      BY <3>1, <2>1, <2>3, <2>5
    <3>2. CASE i # Len(w) + 1
      <4>1. i \in 1..Len(w)
        BY <3>2, <2>5
      <4> QED BY <4>1, <2>5
    <3> QED BY <3>1, <3>2
  <2> QED BY <2>1, <2>5, <2>6, PrintAssumption
<1> QED BY <1>1, <1>2

\* Each step keeps the depth of a call one above that of the call around it.
LEMMA StepIInv == IInv /\ [Next]_vars => IInv'
<1> SUFFICES ASSUME IInv, [Next]_vars PROVE IInv'
  OBVIOUS
<1>0. /\ calls \in Seq(Calls) /\ Len(calls) <= MaxDepth + 1 /\ value \in Tables \cup Scalars
      /\ elems \in [Tables -> Contents]
      /\ \A i \in 1..Len(calls) : calls[i].table \in Tables /\ calls[i].depth = i - 1
  BY DEF IInv, TypeOK
<1>1. CASE AvmToString
  <2>1. CellToString(value, 0, <<>>, <<>>) /\ UNCHANGED <<elems, value>>
    BY <1>1 DEF AvmToString
  <2>2. /\ calls' \in Seq(Calls) /\ Len(calls') <= MaxDepth + 1
        /\ \A i \in 1..Len(calls') : calls'[i].table \in Tables /\ calls'[i].depth = i - 1
    <3>1. <<>> \in Seq(Calls) /\ Len(<<>>) = 0 /\ 0 <= MaxDepth + 1
      BY PrintAssumption
    <3>2. \A i \in 1..Len(<<>>) : <<>>[i].table \in Tables /\ <<>>[i].depth = i - 1
      BY <3>1
    <3> HIDE <1>0
    <3> QED BY <3>1, <3>2, <2>1, <1>0, PrintedInOrder
  <2> QED BY <2>1, <2>2, <1>0 DEF IInv, TypeOK
<1>2. CASE Element
  <2>1. calls # <<>> /\ Call.next \in DOMAIN Content /\ UNCHANGED <<elems, value>>
    BY <1>2 DEF Element
  <2>2. PICK w : w = Front(calls) \o <<[Call EXCEPT !.next = @ + 1]>>
    OBVIOUS
  <2>3. /\ w \in Seq(Calls) /\ Len(w) = Len(calls)
        /\ \A i \in 1..Len(calls) : w[i].table = calls[i].table /\ w[i].depth = calls[i].depth
    BY <2>1, <2>2, <1>0, WaitingCalls DEF Call
  <2>4. \A i \in 1..Len(w) : w[i].table \in Tables /\ w[i].depth = i - 1
    BY <2>3, <1>0
  <2>5. Len(calls) \in Nat /\ Len(calls) > 0
    BY <2>1, <1>0, EmptySeq
  <2>6. Call.table \in Tables /\ Call.depth + 1 = Len(w)
    BY <2>3, <2>5, <1>0 DEF Call, Last
  <2>7. PICK v : v = Content[Call.next].value
    OBVIOUS
  <2>8. v \in Tables \cup Scalars
    <3>1. Content \in Contents
      BY <2>6, <1>0 DEF Content
    <3> QED BY <3>1, <2>1, <2>7, PrintAssumption
  <2>9. PICK before : CellToString(v, Call.depth + 1, before, w)
    BY <1>2, <2>2, <2>7 DEF Element
  <2>10. CellToString(v, Len(w), before, w)
    BY <2>6, <2>9
  <2>11. /\ calls' \in Seq(Calls) /\ Len(calls') <= MaxDepth + 1
         /\ \A i \in 1..Len(calls') : calls'[i].table \in Tables /\ calls'[i].depth = i - 1
    <3>1. Len(w) <= MaxDepth + 1
      BY <2>3, <1>0
    <3> QED BY <3>1, <2>3, <2>4, <2>8, <2>10, PrintedInOrder
  <2> QED BY <2>1, <2>11, <1>0 DEF IInv, TypeOK
<1>3. CASE Return
  <2>1. calls # <<>> /\ calls' = SubSeq(calls, 1, Len(calls) - 1) /\ UNCHANGED <<elems, value>>
    BY <1>3 DEF Return, Front
  <2>2. Len(calls) \in Nat /\ Len(calls) > 0
    BY <2>1, <1>0, EmptySeq
  <2>3. /\ calls' \in Seq(Calls) /\ Len(calls') = Len(calls) - 1
        /\ \A i \in 1..Len(calls) - 1 : calls'[i] = calls[i]
    BY <2>1, <1>0, AllButTheLast
  <2>4. Len(calls') <= MaxDepth + 1
    BY <2>2, <2>3, <1>0, PrintAssumption
  <2>5. \A i \in 1..Len(calls') : calls'[i].table \in Tables /\ calls'[i].depth = i - 1
    BY <2>2, <2>3, <1>0
  <2> QED BY <2>1, <2>3, <2>4, <2>5, <1>0 DEF IInv, TypeOK
<1>4. CASE UNCHANGED vars
  BY <1>4, <1>0 DEF vars, IInv, TypeOK
<1> QED BY <1>1, <1>2, <1>3, <1>4 DEF Next

\* The inductive invariant of printing.
THEOREM PrintInvariant == Spec => []IInv
<1> QED BY InitIInv, StepIInv, PTL DEF Spec

\* The calls of table_tostring are nested no deeper than MaxDepth + 1, each
\* one deeper than the call around it (avm.c:116-118).
THEOREM CallsStayShallow == Spec => []TypeOK
<1>1. IInv => TypeOK
  BY DEF IInv
<1> QED BY <1>1, PrintInvariant, PTL
=============================================================================
