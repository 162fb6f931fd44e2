------------------------------ MODULE AvmRefs ------------------------------
(***************************************************************************)
(* Reference counts of tables (avm.c:41-62, 216-270 and their callers).    *)
(*                                                                         *)
(* Freeing one table can free others, so avm_table_decref calls itself     *)
(* through avm_table_bucket_destroy; one step of this module is one call   *)
(* of it, or the freeing of one table.  What an instruction does after a   *)
(* clear waits in the variable pending until the tables are gone.  An      *)
(* address that was freed can be the address of the next new table.        *)
(*                                                                         *)
(* A cell holds a table or something else (Scalar: numbers, strings, nil,  *)
(* undef...).  The order of the buckets of a table is left open.           *)
(***************************************************************************)
EXTENDS Integers, Sequences, FiniteSets

CONSTANTS
  Addresses,  \* where malloc can put a table
  Cells,      \* the cells of the machine: the stack and retval_reg
  PlainKeys,  \* keys that are not tables
  TableKeys,  \* tables that programs use as keys, a subset of Addresses
  Uses,       \* programs: the keys that each uses, and where malloc puts its tables
  Counts,     \* the number of values of refCount: 2^32 in the code
  Scalar,     \* what a cell or an element holds that is not a table
  Absent      \* the value of an element for which there is no bucket

Keys     == PlainKeys \cup TableKeys
Elements == Addresses \X Keys
Places   == Cells \cup Elements
Values   == Addresses \cup {Scalar, Absent}

ASSUME RefsAssumption ==
  /\ IsFiniteSet(Addresses) /\ IsFiniteSet(Cells) /\ IsFiniteSet(Keys)
  /\ TableKeys \subseteq Addresses /\ PlainKeys \cap Addresses = {}
  /\ Cells \cap Elements = {}
  /\ Scalar \notin Addresses /\ Absent \notin Addresses /\ Scalar # Absent
  /\ Counts \in Nat /\ Counts > 1

ASSUME UsesAssumption == Uses \subseteq [keys : SUBSET Keys, heap : SUBSET Addresses]

VARIABLES
  used,      \* the keys and the addresses of the program
  holds,     \* what is in each cell and each element
  refCount,  \* of each table
  status,    \* "free", "live", or "dying": its count reached zero, its buckets are being destroyed
  dying,     \* the calls of avm_table_decref that destroy a table, innermost last
  pending,   \* what the instruction still does when they have returned
  lost,      \* history: tables of which a cell was overwritten without avm_memcell_clear
  ownCell,   \* history: an element is taken into the cell of its table, the table's last reference
  wild       \* freed memory was used

vars == <<used, holds, refCount, status, dying, pending, lost, ownCell, wild>>

\* The bucket whose key was cleared and whose value comes next, if any.
NoBucket == <<>>
Frames   == [table : Addresses, bucket : Elements \cup {NoBucket}]

NoStore == [kind |-> "none"]
NewStores == [kind : {"new"}, to : Cells]
CopyStores == [kind : {"copy"}, to : Places, from : Places]
Stores  == {NoStore} \cup NewStores \cup CopyStores

Init ==
  /\ used \in Uses
  /\ holds = [p \in Places |-> IF p \in Cells THEN Scalar ELSE Absent]
  /\ refCount = [t \in Addresses |-> 0]
  /\ status = [t \in Addresses |-> "free"]
  /\ dying = <<>> /\ pending = NoStore /\ lost = {} /\ ownCell = FALSE /\ wild = FALSE

Readable(p) == p \in Elements => status[p[1]] = "live" /\ holds[p] # Absent

-----------------------------------------------------------------------------
(* avm_table_incref and avm_table_decref. *)

\* No count is taken past the largest unsigned: the bound of this model (see the hazards).
CountInRange(v) == v \in Addresses => refCount[v] < Counts - 1

TakeMutant(v) ==
  /\ wild' = (v \in Addresses /\ status[v] = "free")
  /\ UNCHANGED refCount

Take(v) ==
  /\ wild' = (v \in Addresses /\ status[v] = "free")
  /\ refCount' = IF v \in Addresses THEN [refCount EXCEPT ![v] = (@ + 1) % Counts] ELSE refCount

\* rest: the calls of avm_table_decref that are active around this one.
ReleaseMutant(v, rest) ==
  IF v \notin Addresses THEN dying' = rest /\ UNCHANGED <<refCount, status, wild>>
  ELSE
    /\ wild' = (status[v] = "free")
    /\ refCount' = [refCount EXCEPT ![v] = (@ - 1) % Counts]
    /\ IF refCount[v] <= 2
       THEN /\ status' = [status EXCEPT ![v] = "dying"]
            /\ dying' = Append(rest, [table |-> v, bucket |-> NoBucket])
       ELSE dying' = rest /\ UNCHANGED status

Release(v, rest) ==
  IF v \notin Addresses THEN dying' = rest /\ UNCHANGED <<refCount, status, wild>>
  ELSE
    /\ wild' = (status[v] = "free")
    /\ refCount' = [refCount EXCEPT ![v] = (@ - 1) % Counts]
    /\ IF refCount'[v] = 0
       THEN /\ status' = [status EXCEPT ![v] = "dying"]
            /\ dying' = Append(rest, [table |-> v, bucket |-> NoBucket])
       ELSE dying' = rest /\ UNCHANGED status

-----------------------------------------------------------------------------
(* Instructions.  An instruction begins when the one before is finished.   *)

Idle == dying = <<>> /\ pending = NoStore /\ ~ wild

ClearMutant(p, after) ==
  /\ Release(holds[p], <<>>)
  /\ pending' = after
  /\ UNCHANGED <<used, holds, lost>>

\* avm_memcell_clear, and what follows it.
Clear(p, after) ==
  /\ holds' = [holds EXCEPT ![p] = Scalar]
  /\ Release(holds[p], <<>>)
  /\ pending' = after
  /\ UNCHANGED <<used, lost>>

SameTable(p, q) == holds[p] \in Addresses /\ holds[p] = holds[q]

\* avm_assign after its two early returns; also pusharg, getretval, libfunc_argument.
Assign(lv, rv) ==
  /\ Idle
  /\ lv # rv /\ ~ SameTable(lv, rv)
  /\ CountInRange(holds[rv])
  /\ Clear(lv, [kind |-> "copy", to |-> lv, from |-> rv])
  /\ UNCHANGED ownCell

\* A result that is not a table: arithmetic, most library functions.
StoreScalar(lv) == Idle /\ Clear(lv, NoStore) /\ UNCHANGED ownCell

\* A cell whose type is set without a clear: the four cells of call, the
\* locals of funcenter, retval_reg in libfunc_input and libfunc_strtonum.
Overwrite(c) ==
  /\ Idle
  /\ holds[c] \in Addresses
  /\ holds' = [holds EXCEPT ![c] = Scalar]
  /\ lost' = lost \cup {holds[c]}
  /\ UNCHANGED <<used, refCount, status, dying, pending, ownCell, wild>>

NewTable(lv) == Idle /\ Clear(lv, [kind |-> "new", to |-> lv]) /\ UNCHANGED ownCell

\* The table in cell c is used: a step into freed memory when it is not there any more.
UseFreed(c) ==
  /\ Idle
  /\ holds[c] \in Addresses /\ status[holds[c]] # "live"
  /\ wild' = TRUE
  /\ UNCHANGED <<used, holds, refCount, status, dying, pending, lost, ownCell>>

\* The operands of table instructions: the table is in cell c; a key that
\* is a table is in a cell, too.
Operand(c, key) ==
  /\ Idle
  /\ holds[c] \in Addresses /\ status[holds[c]] = "live"
  /\ key \in used.keys
  /\ key \in TableKeys => \E kc \in Cells : holds[kc] = key

\* The element is found before the destination is cleared and read after it.
\* The destination may be the cell of the table: behind a function inside a
\* function, a temporary can have the cell of a local (parser.y:873).
TableGetElem(lv, c, key) ==
  LET elem == <<holds[c], key>>
  IN  /\ Operand(c, key)
      /\ CountInRange(holds[elem])
      /\ Clear(lv, IF holds[elem] = Absent THEN NoStore
                   ELSE [kind |-> "copy", to |-> lv, from |-> elem])
      /\ ownCell' = (lv = c /\ refCount[holds[c]] = 1 /\ holds[elem] # Absent)

\* The key of a new bucket is copied as it is: bucket_key_copy counts no reference.
TableSetNew(c, key, rv) ==
  LET elem == <<holds[c], key>>
  IN  /\ Operand(c, key)
      /\ holds[elem] = Absent
      /\ CountInRange(holds[rv])
      /\ holds' = [holds EXCEPT ![elem] = holds[rv]]
      /\ Take(holds[rv])
      /\ UNCHANGED <<used, status, dying, pending, lost, ownCell>>

TableSetOld(c, key, rv) ==
  LET elem == <<holds[c], key>>
  IN  /\ Operand(c, key)
      /\ holds[elem] # Absent /\ ~ SameTable(elem, rv)
      /\ CountInRange(holds[rv])
      /\ Clear(elem, [kind |-> "copy", to |-> elem, from |-> rv])
      /\ UNCHANGED ownCell

TableDeleteMutant(c, key) ==
  LET elem == <<holds[c], key>>
  IN  /\ Operand(c, key) /\ holds[elem] # Absent
      /\ holds' = [holds EXCEPT ![elem] = Scalar]
      /\ UNCHANGED <<used, refCount, status, dying, pending, lost, ownCell, wild>>

\* Setting to nil: the bucket stays.
TableDelete(c, key) ==
  LET elem == <<holds[c], key>>
  IN  /\ Operand(c, key) /\ holds[elem] # Absent
      /\ Clear(elem, NoStore)
      /\ UNCHANGED ownCell

-----------------------------------------------------------------------------
(* The rest of an instruction. *)

Resuming == dying = <<>> /\ ~ wild

FinishCopy ==
  /\ Resuming /\ pending.kind = "copy"
  /\ IF Readable(pending.to) /\ Readable(pending.from)
     THEN /\ holds' = [holds EXCEPT ![pending.to] = holds[pending.from]]
          /\ Take(holds[pending.from])
     ELSE wild' = TRUE /\ UNCHANGED <<holds, refCount>>
  /\ pending' = NoStore
  /\ UNCHANGED <<used, status, dying, lost, ownCell>>

FinishNew(t) ==
  /\ Resuming /\ pending.kind = "new" /\ t \in used.heap /\ status[t] = "free"
  /\ status' = [status EXCEPT ![t] = "live"]
  /\ refCount' = [refCount EXCEPT ![t] = 1]
  /\ holds' = [holds EXCEPT ![pending.to] = t]
  /\ pending' = NoStore
  /\ UNCHANGED <<used, dying, lost, ownCell, wild>>

-----------------------------------------------------------------------------
(* avm_table_decref of a table whose count is zero, and                    *)
(* avm_table_bucket_destroy: key, then value, of every bucket; then free.  *)

Current  == dying[Len(dying)]
Callers  == SubSeq(dying, 1, Len(dying) - 1)
Destroying == dying # <<>> /\ ~ wild

DestroyKey(key) ==
  LET elem == <<Current.table, key>>
  IN  /\ Destroying /\ Current.bucket = NoBucket
      /\ key \in TableKeys /\ holds[elem] # Absent
      /\ Release(key, Append(Callers, [Current EXCEPT !.bucket = elem]))
      /\ UNCHANGED <<used, holds, pending, lost, ownCell>>

DestroyValueMutant(key) ==
  LET elem == <<Current.table, key>>
  IN  /\ Destroying /\ holds[elem] # Absent
      /\ Current.bucket = IF key \in TableKeys THEN elem ELSE NoBucket
      /\ Release(holds[elem], Append(Callers, [Current EXCEPT !.bucket = NoBucket]))
      /\ UNCHANGED <<used, holds, pending, lost, ownCell>>

DestroyValue(key) ==
  LET elem == <<Current.table, key>>
  IN  /\ Destroying /\ holds[elem] # Absent
      /\ Current.bucket = IF key \in TableKeys THEN elem ELSE NoBucket
      /\ holds' = [holds EXCEPT ![elem] = Absent]
      /\ Release(holds[elem], Append(Callers, [Current EXCEPT !.bucket = NoBucket]))
      /\ UNCHANGED <<used, pending, lost, ownCell>>

FreeTable ==
  LET t == Current.table
  IN  /\ Destroying /\ Current.bucket = NoBucket
      /\ \A key \in Keys : holds[<<t, key>>] = Absent
      /\ wild' = (status[t] = "free")
      /\ status' = [status EXCEPT ![t] = "free"]
      /\ dying' = Callers
      /\ lost' = lost \ {t}
      /\ UNCHANGED <<used, holds, refCount, pending, ownCell>>

-----------------------------------------------------------------------------

Instruction ==
  \/ \E lv, rv \in Cells : Assign(lv, rv)
  \/ \E lv \in Cells : StoreScalar(lv)
  \/ \E c \in Cells : Overwrite(c)
  \/ \E lv \in Cells : NewTable(lv)
  \/ \E c \in Cells : UseFreed(c)
  \/ \E lv, c \in Cells, key \in Keys : TableGetElem(lv, c, key)
  \/ \E c, rv \in Cells, key \in Keys : TableSetNew(c, key, rv)
  \/ \E c, rv \in Cells, key \in Keys : TableSetOld(c, key, rv)
  \/ \E c \in Cells, key \in Keys : TableDelete(c, key)

Continue ==
  \/ FinishCopy
  \/ \E t \in Addresses : FinishNew(t)
  \/ \E key \in Keys : DestroyKey(key)
  \/ \E key \in Keys : DestroyValue(key)
  \/ FreeTable

\* malloc finds no memory, or freed memory was used: nothing is said of what follows.
Stuck ==
  /\ \/ wild
     \/ Resuming /\ pending.kind = "new" /\ \A t \in used.heap : status[t] # "free"
  /\ UNCHANGED vars

Next == Instruction \/ Continue \/ Stuck

\* The machine goes on with what it has begun: it is one thread that waits for nothing.
Spec == Init /\ [][Next]_vars /\ WF_vars(Continue)

-----------------------------------------------------------------------------

References(t) == {p \in Places : holds[p] = t}

TypeOK ==
  /\ used \in Uses
  /\ holds \in [Places -> Values]
  /\ \A c \in Cells : holds[c] # Absent
  /\ refCount \in [Addresses -> 0..Counts - 1]
  /\ status \in [Addresses -> {"free", "live", "dying"}]
  /\ dying \in Seq(Frames)
  /\ pending \in Stores
  /\ lost \subseteq Addresses
  /\ ownCell \in BOOLEAN /\ wild \in BOOLEAN

\* A table that is used as a key loses references that nobody counted (the
\* keys of its buckets are copied as they are, avm.c:242, and released,
\* avm.c:254), so little can be said of it, and nothing once its memory is
\* used after it was freed.  The properties are about all other tables.
OtherTables == Addresses \ used.keys

\* A count is never below the number of cells and elements that hold the
\* table, and it is exactly that number unless a cell that held the table
\* was overwritten without a clear (avm.c:41-62, 248-270).
Counted(t) ==
  status[t] = "live" =>
    /\ Cardinality(References(t)) <= refCount[t]
    /\ t \notin lost => Cardinality(References(t)) = refCount[t]

CountsCoverReferences == \A t \in OtherTables : Counted(t)

\* Nothing holds a table that was freed or whose buckets are being
\* destroyed (avm.c:260-270).
NoDanglingReference ==
  \A p \in Places : holds[p] \in OtherTables => status[holds[p]] = "live"

\* In a program without tables as keys one instruction uses freed memory,
\* and always does: a tablegetelem that puts an existing element into the
\* cell of its table when that is the last reference, so that the clear
\* frees the bucket which is read next (avm.c:680-682).  Nothing else does:
\* not through a cell, not in an assignment after its clear (avm.c:52-62),
\* not in the middle of a destruction, however deep.
OnlyOwnCellIsWild ==
  used.keys \cap TableKeys = {} =>
    /\ wild => ownCell
    /\ ownCell /\ dying = <<>> /\ pending = NoStore => wild

\* A table that nothing holds any more is gone, unless a cell that held it
\* was overwritten without a clear (avm.c:248-270).
UnreferencedIsFreed ==
  \A t \in OtherTables : status[t] = "live" /\ References(t) = {} => t \in lost

\* However tables hang together, destroying them comes to an end and the
\* instruction that began it goes on, unless freed memory was used
\* (avm.c:250-270).
DestructionEnds == dying # <<>> ~> dying = <<>> \/ wild
=============================================================================
