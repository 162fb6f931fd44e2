------------------------------ MODULE AbcFile ------------------------------
(***************************************************************************)
(* The .abc file: write_binary of the compiler (target_code.c:497-549) and *)
(* load_binary of the virtual machine (avm.c:976-1056), which share        *)
(* nothing but this file.  Each has its own list of the sections, of the   *)
(* fields of a record and of the names of opcodes and operand types.       *)
(*                                                                         *)
(* A program is a record of sections; a section is a sequence of records,  *)
(* and a record a tuple of fields.  A double is its bytes, taken as one    *)
(* number.  A string is the sequence of its characters, none of them zero. *)
(***************************************************************************)
EXTENDS Integers, Sequences, SequencesExt

CONSTANTS
  Programs,  \* the programs to be written
  ByteSize,  \* the number of values of a byte: 256 in the code
  IntLen,    \* the bytes of an unsigned: 4 in the code
  DblLen,    \* the bytes of a double: 8 in the code
  Magic,     \* MAGIC_NUMBER
  StrBuf     \* the size of the buffer of read_str: 4096 in the code

\* The last byte of the magic number is not zero (340200501 has four).
ASSUME AbcAssumption ==
  /\ ByteSize \in Nat /\ ByteSize > 21 /\ StrBuf \in Nat \ {0}
  /\ IntLen \in Nat \ {0} /\ DblLen \in Nat \ {0}
  /\ Magic \in ByteSize ^ (IntLen - 1)..ByteSize ^ IntLen - 1

VARIABLES
  program,  \* what the compiler writes
  file,     \* the bytes of the file; one that is not there is refused like an empty one
  writer,   \* the section that is being written, and how many records of it are
  pos,      \* how far the machine has read
  reader,   \* the section that is being read, how many records are left of it, and the
            \* fields that were read of the next
  loaded    \* what it has loaded

vars == <<program, file, writer, pos, reader, loaded>>

-----------------------------------------------------------------------------
(* Bytes, the least significant first. *)

Bytes(v, len) == [i \in 1..len |-> (v \div ByteSize ^ (i - 1)) % ByteSize]

ValueOf(bytes) == FoldRight(LAMBDA b, v : b + ByteSize * v, bytes, 0)

-----------------------------------------------------------------------------
(* The compiler. *)

WriterSections == <<"strings", "numbers", "userFuncs", "libFuncs", "code">>

WriterFields(s) ==
  CASE s \in {"strings", "libFuncs"} -> <<"str">>
    [] s = "numbers" -> <<"dbl">>
    [] s = "userFuncs" -> <<"u32", "u32", "str">>
    [] s = "code" -> <<"opcode", "type", "u32", "type", "u32", "type", "u32", "u32">>

\* enum vmopcode and enum vmarg_t of target_code.h
WriterOpcodes ==
  <<"assign_v", "add_v", "sub_v", "mul_v", "div_v", "mod_v", "jeq_v", "jne_v", "jle_v", "jge_v",
    "jlt_v", "jgt_v", "call_v", "pusharg_v", "ret_v", "getretval_v", "funcenter_v", "funcexit_v",
    "newtable_v", "tablegetelem_v", "tablesetelem_v", "jump_v">>

WriterTypes ==
  <<"label_a", "global_a", "local_a", "formal_a", "number_a", "string_a", "bool_a", "nil_a",
    "userfunc_a", "libfunc_a", "retval_a">>

IndexIn(names, name) == (CHOOSE i \in DOMAIN names : names[i] = name) - 1

\* write_u32, write_u8, write_str, write_dbl
FieldBytes(kind, v) ==
  CASE kind = "u32" -> Bytes(v, IntLen)
    [] kind = "dbl" -> Bytes(v, DblLen)
    [] kind = "str" -> Append(v, 0)
    [] kind = "opcode" -> <<IndexIn(WriterOpcodes, v)>>
    [] kind = "type" -> <<IndexIn(WriterTypes, v)>>

RecordBytes(s, r) == FlattenSeq([i \in DOMAIN r |-> FieldBytes(WriterFields(s)[i], r[i])])

CountBytes(s) == Bytes(Len(program[s]), IntLen)

HeaderBytes == Bytes(Magic, IntLen) \o Bytes(program.globals, IntLen)

\* Sections are numbered from 1; -1 for the records: their count comes first.
NotBegun == 0
Ended    == Len(WriterSections) + 1
Refused  == Ended + 1

Uncounted == -1

SameReader == UNCHANGED <<pos, reader, loaded>>

OpenToWrite ==
  /\ writer.section = NotBegun
  /\ file' = HeaderBytes
  /\ writer' = [section |-> 1, done |-> Uncounted]
  /\ UNCHANGED program /\ SameReader

\* fopen fails: the error is printed, and the compiler ends as if it had
\* written.  No older file is in its place (one would be loaded instead).
CannotWrite ==
  /\ writer.section = NotBegun
  /\ writer' = [section |-> Ended, done |-> 0]
  /\ UNCHANGED <<program, file>> /\ SameReader

InSection == writer.section \in DOMAIN WriterSections

WriteCount ==
  /\ InSection /\ writer.done = Uncounted
  /\ file' = file \o CountBytes(WriterSections[writer.section])
  /\ writer' = [writer EXCEPT !.done = 0]
  /\ UNCHANGED program /\ SameReader

WriteRecord ==
  LET s == WriterSections[writer.section]
  IN  /\ InSection /\ writer.done \in 0..Len(program[s]) - 1
      /\ file' = file \o RecordBytes(s, program[s][writer.done + 1])
      /\ writer' = [writer EXCEPT !.done = @ + 1]
      /\ UNCHANGED program /\ SameReader

NextSection ==
  /\ InSection /\ writer.done = Len(program[WriterSections[writer.section]])
  /\ writer' = IF writer.section = Len(WriterSections) THEN [section |-> Ended, done |-> 0]
               ELSE [section |-> writer.section + 1, done |-> Uncounted]
  /\ UNCHANGED <<program, file>> /\ SameReader

\* The compiler is stopped, or the disk is full, which nothing checks: what
\* has reached the file is any part of what was written, from the start.
Interrupted ==
  /\ InSection
  /\ \E n \in 0..Len(file) : file' = SubSeq(file, 1, n)
  /\ writer' = [section |-> Ended, done |-> 0]
  /\ UNCHANGED program /\ SameReader

Compiler == OpenToWrite \/ CannotWrite \/ WriteCount \/ WriteRecord \/ NextSection \/ Interrupted

-----------------------------------------------------------------------------
(* The virtual machine.  It is started when the compiler has ended in one  *)
(* way or another.                                                         *)

ReaderSections == <<"strings", "numbers", "userFuncs", "libFuncs", "code">>

ReaderFields(s) ==
  CASE s = "strings" -> <<"str">>
    [] s = "numbers" -> <<"dbl">>
    [] s = "userFuncs" -> <<"u32", "u32", "str">>
    [] s = "libFuncs" -> <<"str">>
    [] s = "code" -> <<"opcode", "type", "u32", "type", "u32", "type", "u32", "u32">>

\* vmopcode and vmarg_t of avm.h
ReaderOpcodesMutant ==
  <<"assign_v", "add_v", "sub_v", "mul_v", "div_v", "mod_v", "jeq_v", "jne_v", "jlt_v", "jgt_v",
    "jle_v", "jge_v", "call_v", "pusharg_v", "ret_v", "getretval_v", "funcenter_v", "funcexit_v",
    "newtable_v", "tablegetelem_v", "tablesetelem_v", "jump_v">>

ReaderOpcodes ==
  <<"assign_v", "add_v", "sub_v", "mul_v", "div_v", "mod_v", "jeq_v", "jne_v", "jle_v", "jge_v",
    "jlt_v", "jgt_v", "call_v", "pusharg_v", "ret_v", "getretval_v", "funcenter_v", "funcexit_v",
    "newtable_v", "tablegetelem_v", "tablesetelem_v", "jump_v">>

ReaderTypes ==
  <<"label_a", "global_a", "local_a", "formal_a", "number_a", "string_a", "bool_a", "nil_a",
    "userfunc_a", "libfunc_a", "retval_a">>

Named(names, n) == IF n < Len(names) THEN names[n + 1] ELSE "unknown"

AtMost(a, b) == IF a < b THEN a ELSE b

\* read_u32 and its likes: what is not in the file is zero.
ReadBytes(from, len) ==
  LET to == AtMost(from + len, Len(file))
  IN  [val |-> ValueOf(SubSeq(file, from + 1, to)), next |-> to]

\* The end of the file is not seen, and its -1 is taken for characters.
ReadStrMutant(from) ==
  LET Stops(n) == (n < Len(file) /\ file[n + 1] = 0) \/ n - from = StrBuf - 1
      stop     == CHOOSE n \in from..from + StrBuf : Stops(n) /\ \A m \in from..n - 1 : ~ Stops(m)
  IN  [val |-> [i \in 1..stop - from |->
                 IF from + i <= Len(file) THEN file[from + i] ELSE ByteSize - 1],
       next |-> AtMost(stop + 1, Len(file))]

\* read_str: up to a zero, the end of the file, or one character more than the buffer takes.
ReadStr(from) ==
  LET Stops(n) == n = Len(file) \/ file[n + 1] = 0 \/ n - from = StrBuf - 1
      stop     == CHOOSE n \in from..Len(file) : Stops(n) /\ \A m \in from..n - 1 : ~ Stops(m)
  IN  [val |-> SubSeq(file, from + 1, stop), next |-> AtMost(stop + 1, Len(file))]

FieldAt(kind, from) ==
  LET byte == ReadBytes(from, 1)
  IN  CASE kind = "u32" -> ReadBytes(from, IntLen)
        [] kind = "dbl" -> ReadBytes(from, DblLen)
        [] kind = "str" -> ReadStr(from)
        [] kind = "opcode" -> [byte EXCEPT !.val = Named(ReaderOpcodes, @)]
        [] kind = "type" -> [byte EXCEPT !.val = Named(ReaderTypes, @)]

At(section, left) == [section |-> section, left |-> left, fields |-> <<>>]

SameWriter == UNCHANGED <<program, file, writer>>

CompilerEnded == writer.section = Ended

ReadHeader ==
  /\ CompilerEnded /\ reader.section = NotBegun
  /\ LET magic   == ReadBytes(0, IntLen)
         globals == ReadBytes(magic.next, IntLen)
     IN  IF magic.val # Magic
         THEN reader' = At(Refused, 0) /\ UNCHANGED <<pos, loaded>>
         ELSE /\ reader' = At(1, Uncounted)
              /\ loaded' = [loaded EXCEPT !.globals = globals.val]
              /\ pos' = globals.next
  /\ SameWriter

InReaderSection == reader.section \in DOMAIN ReaderSections

ReadCount ==
  /\ InReaderSection /\ reader.left = Uncounted
  /\ LET count == ReadBytes(pos, IntLen)
     IN  reader' = [reader EXCEPT !.left = count.val] /\ pos' = count.next
  /\ UNCHANGED loaded /\ SameWriter

\* The machine reads a field; with the last one of a record that is done.
ReadFieldMutant ==
  /\ InReaderSection /\ reader.left > 0
  /\ LET s     == ReaderSections[reader.section]
         kinds == ReaderFields(s)
         f     == FieldAt(kinds[Len(reader.fields) + 1], pos)
         read  == Append(reader.fields, f.val)
     IN  /\ pos' = f.next
         /\ IF f.next = pos THEN UNCHANGED <<reader, loaded>>
            ELSE IF Len(read) < Len(kinds)
            THEN reader' = [reader EXCEPT !.fields = read] /\ UNCHANGED loaded
            ELSE /\ reader' = [reader EXCEPT !.left = @ - 1, !.fields = <<>>]
                 /\ loaded' = [loaded EXCEPT ![s] = Append(@, read)]
  /\ SameWriter

ReadField ==
  /\ InReaderSection /\ reader.left > 0
  /\ LET s     == ReaderSections[reader.section]
         kinds == ReaderFields(s)
         f     == FieldAt(kinds[Len(reader.fields) + 1], pos)
         read  == Append(reader.fields, f.val)
     IN  /\ pos' = f.next
         /\ IF Len(read) < Len(kinds)
            THEN reader' = [reader EXCEPT !.fields = read] /\ UNCHANGED loaded
            ELSE /\ reader' = [reader EXCEPT !.left = @ - 1, !.fields = <<>>]
                 /\ loaded' = [loaded EXCEPT ![s] = Append(@, read)]
  /\ SameWriter

EndSection ==
  /\ InReaderSection /\ reader.left = 0
  /\ reader' = IF reader.section = Len(ReaderSections) THEN At(Ended, 0)
               ELSE At(reader.section + 1, Uncounted)
  /\ UNCHANGED <<pos, loaded>> /\ SameWriter

Loader == ReadHeader \/ ReadCount \/ ReadField \/ EndSection

-----------------------------------------------------------------------------

Empty(globals) ==
  [globals |-> globals, strings |-> <<>>, numbers |-> <<>>, userFuncs |-> <<>>,
   libFuncs |-> <<>>, code |-> <<>>]

Init ==
  /\ program \in Programs
  /\ file = <<>> /\ writer = [section |-> NotBegun, done |-> 0]
  /\ pos = 0 /\ reader = At(NotBegun, 0) /\ loaded = Empty(0)

Next == Compiler \/ Loader

\* The machine reads on; nothing makes the compiler write on.
Spec == Init /\ [][Next]_vars /\ WF_vars(Loader)

-----------------------------------------------------------------------------

\* The file that the compiler leaves when nothing goes wrong.
SectionBytes(s, n) ==
  Bytes(Len(program[s]), IntLen)
    \o FlattenSeq([i \in 1..n |-> RecordBytes(s, program[s][i])])

Before(k) ==
  HeaderBytes \o FlattenSeq([i \in 1..k - 1 |->
                   SectionBytes(WriterSections[i], Len(program[WriterSections[i]]))])

WholeLen == Len(Before(Ended))

\* Where record i of section k ends in it.
EndOf(k, i) == Len(Before(k)) + Len(SectionBytes(WriterSections[k], i))

HasRecord(k, i) == EndOf(k, i) <= Len(file)

\* Of a whole file the machine loads what the compiler wrote, and reads it
\* to the end: orders, widths and names on the two sides agree.
ReadBack ==
  CompilerEnded /\ Len(file) = WholeLen =>
    /\ reader.section # Refused
    /\ \A s \in Range(ReaderSections) : IsPrefix(loaded[s], program[s])
    /\ reader.section = Ended => loaded = program /\ pos = Len(file)

\* Zeros, in the place of a record that is not in the file at all.
ZeroOf(s) ==
  [f \in DOMAIN ReaderFields(s) |->
     CASE ReaderFields(s)[f] = "str" -> <<>>
       [] ReaderFields(s)[f] \in {"u32", "dbl"} -> 0
       [] ReaderFields(s)[f] = "opcode" -> "assign_v"
       [] ReaderFields(s)[f] = "type" -> "label_a"]

\* A file that was not written to the end is refused only when its header is
\* missing.  Otherwise every record that is in the file is loaded as it was
\* written, no section has more records than were written, and the records
\* that are missing are zeros, but for the one at which the file ends.
TruncatedIsPrefix ==
  CompilerEnded =>
    /\ reader.section = Refused => Len(file) < IntLen
    /\ \A k \in DOMAIN WriterSections :
         LET s == WriterSections[k] IN
           /\ Len(loaded[s]) <= Len(program[s])
           /\ \A i \in DOMAIN loaded[s] :
                IF HasRecord(k, i) THEN loaded[s][i] = program[s][i]
                ELSE i > 1 /\ ~ HasRecord(k, i - 1) => loaded[s][i] = ZeroOf(s)

\* The machine comes to an end with every file (avm.c:976-1056).
LoaderEnds == CompilerEnded ~> reader.section \in {Ended, Refused}
=============================================================================
