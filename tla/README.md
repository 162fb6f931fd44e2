# A verification development of the Alpha compiler and virtual machine

The repository compiles programs of the language Alpha to a bytecode file and
executes such files on a stack machine. This directory holds TLA+ models of it,
written from the code under `src/`, the instances that TLC checks, and the proofs
that TLAPS checks. Line numbers below and in `PROJECT.json` refer to the files
under `src/`.

    tlc -workers 2 -config AvmCalls.cfg MCAvmHistory     # one run; all are in PROJECT.json
    tlapm AvmHistoryProofs.tla                           # proofs; also the other modules named ...Proofs

## 1. Inventory of the system

Everything is sequential C. The compiler is one process, which parses, generates
code and writes a file; the machine is another, which reads that file and runs it.
There are no threads, no signals, no network, and nothing is recovered after a
crash. What is hard here is not concurrency. It is long sequences of legal
operations on shared mutable structures (a stack with saved registers in it,
counters that are saved and restored around functions, lists of jumps that wait
for a target, tables that refer to each other and count their references) where each operation trusts what others left behind.

| Component | State | Operations | Talks to |
|---|---|---|---|
| Scanner (`scanner.l`) | flex buffer, line number | `yylex` | called by the parser |
| Parser actions (`parser.y`) | scope depth, stacks of active functions and of saved counters, loop counter and saved lists | one action per grammar rule | symbol table and quads, by calls and by shared globals |
| Symbol table (`symtable.c`) | hash chains and per-depth lists of symbols, `is_active` | `add_symbol`, `lookup_in_scope`, `lookup_active_symbol`, `hide_scope` | called by the parser |
| Offsets and temporaries (`quads.c:17-21, 96-138`) | scope space counter, three offsets, temp counter | `enter_scopespace`, `exit_scopespace`, `get_curr_offset`, `inc_curr_offset`, `create_temp_var` | called by the parser |
| Quads, expressions, backpatching (`quads.c`, `parser.y`) | `quad_array`; true, false, break and continue lists threaded through the label fields | `emit_quad`, `patch_list`, `make_bplist`, `merge_bplists`, constant folding | parser to code generator |
| Code generator (`target_code.c`) | instructions, constant tables, incomplete jumps, stack of open functions | `generate_all` and one `generate_` function per quad | reads the quads and the symbols; its arrays are the output |
| Output files (`target_code.c`) | none | `write_binary`, `write_text` | file read by the loader |
| Loader (`avm.c:978-1056`) | the program: code, constants, functions, number of globals | `load_binary` | fills what the machine executes |
| Machine, execution (`avm.c`) | stack, `top`, `topsp`, `pc`, `totalActuals`, `retval_reg`, `executionFinished` | `execute_cycle`, one function per opcode, one per library function | tables |
| Machine, tables (`avm.c:216-377`) | hash buckets, a counter of elements, reference counts | `avm_table_getelem`, `avm_table_setelem`, `avm_table_incref`, `avm_table_decref`, `libfunc_objectcopy` | called by the instructions and the library functions |

What makes each of them correct, and where it bites:

* **Machine, execution.** The stack is all the machine has to return by. `call` writes four
  cells below the arguments (`avm.c:621-639`), `funcenter` takes the locals below
  them, `funcexit` trusts the cells to be as they were (`573-580`). Frames must not
  overlap however calls nest; a call inside the arguments of another must not
  disturb them; a return must restore the caller exactly; a variable operand
  must be a cell that belongs to the running call; a formal that was not passed
  must not be read from the caller's cells; the end of the stack must be noticed.
* **Machine, tables.** A table must be a map with a correct counter, and must be freed once
  and not too early. A deleted element stays in its bucket. Freeing one table frees others from
  within, and assignments clear a cell before they read another one. What is printed
  or listed must not depend on how the chains came to be, and must end for a table that
  contains itself.
* **Code generator.** Control must go between instructions as it goes between quads, although
  some quads become two instructions and some none, jumps are completed from
  three different places, and functions nest. Operands are positions in tables
  that keep growing. The result must be what the machine takes for granted.
* **Scopes and storage.** A name must mean what lexical scoping says. Every variable that can be
  alive with another one must have a cell of its own, in a frame that has room
  for it, in the function whose code uses it. Counters are reset at some places,
  restored at others.
* **Quads and backpatching.** Every list of jumps must be patched exactly once, with the label its rule
  means: the quads must make the calls and assignments that the program makes when it is read
  from left to right. Folded constants must be what the machine would have computed.
* **Files.** What is loaded must be what was generated, also where the compiler was stopped
  while it wrote: the machine checks no count and no read.

The section `hazards` of `PROJECT.json` lists the places in the code, each with the
properties that watch it, or with the reason why none does yet.

## 2. The modules

    AvmCells        values of the machine: cells, equality, arithmetic, tables
      AvmPrograms   a loaded program, and what the machine relies on (WellFormed)
        Avm         the machine: registers, stack, one action per instruction and library function
          AvmHistory        with a history of calls: invariants, refinement of Activations
            AvmHistoryProofs   theorems about the stack
              AvmActivationsProofs   theorem: the machine implements Activations
        TargetCode  the code generator, whose Output is a program of AvmPrograms
          TargetCodeProofs  theorems about its functions, operands and jumps, and that its
                            output is what the machine relies on
    Activations     abstract: what a call promises to the Alpha program
      Tables        abstract: a table as a map with a counter
      AvmTable      hash buckets, and what walks through them; implements Tables
        AvmTableProofs     theorems
      ExprMeanings  abstract: what numbers, places, calls and tables in an expression mean
        Expressions   the parser's actions on them: folding, assignments, ++ and --, calls, tables
    AvmRefs         reference counts, assignment, destruction of tables
      AvmRefsProofs      theorems
    AvmPrint        the text of a table
      AvmPrintProofs     theorems
    Backpatch       quads with jump lists, and the parser's actions on them
      BackpatchProofs    theorems about jumps and lists
      BackpatchRuns      executes the quads, and compares with Meanings
    Meanings        abstract: what expressions and statements do
    Scopes          symbol table, offsets, temporaries, and the parser's actions on them
      ScopesProofs  theorems about symbols, cells and counters, and that it implements LexicalScopes
    LexicalScopes   abstract: what a name means
    AbcFile         the file between compiler and machine, its writer and its reader
    MCPrograms, MCAvm, MCAvmHistory, MCAvmTable, MCAvmRefs, MCAvmPrint, MCTargetCode, MCBackpatch,
    MCExpressions, MCScopes, MCAbcFile    instances for TLC

`AvmPrograms` is the hinge: `WellFormed` is what the machine assumes of the bytecode (it
checks none of it), the theorems about the machine assume it, and the theorem
`OutputIsWellFormed` about the code generator is that what it emits satisfies it.

### The machine (`Avm`, `AvmHistory`, `Activations`)

The variables are the globals of `avm.c:5-25` under their names; `outcome` is
`executionFinished` with the reason. Addresses are those of the `stack` array: the
stack grows towards 0, the globals are on top, `top` and `topsp` are unsigned. Each
`execute_` function is an action, or two when it can also fail: `Assign`,
`Arithmetic`/`ArithmeticError`, `NumCmp`/`NumCmpError`, `PushArg`/`PushArgWild`, and so on;
`execute_call` is split by what is called (`CallUserFunc`, `CallOverflow`, `CallWild`,
`CallError`, and one `Lib...` action per library function). `Fetch` is the dispatch of
`execute_cycle`. Where the code goes on after it reported an error (an argument that
was not passed is read as an undefined register, and the instruction is
completed), so does the model: `Translated` sets `outcome` and the other
variables change all the same. Memory outside of the array is not modelled: a step
that touches it ends in the outcome `"wild"`.

`AvmHistory` adds one variable, `activations`, that the code does not have: what every
call should be able to rely on when it returns. The properties compare the stack
with it. `Activations` is the same machine without a stack: arguments, locals,
pending arguments and return addresses are values of each activation, and a step
may change one variable. `AvmHistory!Abstract` reads that state off the stack.

Abstractions: numbers are integers, so fractions, the tolerance of equality
(`avm.c:476-477`) and the rounding of results are left out; a table is a map with the code's
own counter; printing is left out; a table is never freed. The map, the freeing and the
printing have modules of their own, below.

### Tables (`Tables`, `AvmTable`, `AvmRefs`, `AvmPrint`)

Three questions about one structure, each with the part of the state it is about.

`AvmTable` is one table in memory: for every chain the sequence of its buckets, the newest first.
`Store` is `avm_table_setelem` with its branches, `Lookup` is `avm_table_getelem`; `CopyTable`, `MemberKeys`
and `Entries` walk through the chains in the order of the loops of `objectcopy`, `objectmemberkeys`
and `table_tostring`. `qsort` gets keys that its comparison functions tell apart, so `Sorted` puts a bucket in the place that
is the number of those before it. The hash functions are constants: any two keys of a kind may collide.
`Tables` is the map that `Avm` has, and the refinement reads it off the buckets.

`AvmRefs` is all tables at once, but an element is only a table or not one. Since
`avm_table_decref` calls itself through `avm_table_bucket_destroy`, one step is one call of it, or the
release of one bucket's key or value, or the `free` of a table; `dying` is the stack of these calls and
`pending` is what the instruction does when they have returned. This is the interleaving that matters:
`avm_assign` and `execute_tablegetelem` clear a cell, which may free any number of tables,
and then read another one. Addresses are used again. The constant `Uses` has the programs of a run: which keys each uses, and
where malloc puts its tables. The history variable
`lost` marks the tables of which a cell was overwritten without a clear (`funcenter`, the environment of
`call`, `retval_reg` in two library functions), which keep a count nobody will give back. The history variable `ownCell` marks the one instruction that reads freed memory, see
`OnlyOwnCellIsWild`: `execute_tablegetelem` with the cell of its table as its destination, when the table has no other reference.
A destination is any cell, as in the code; that the compiler has such instructions is a matter of its storage (section 5).

`AvmPrint` is `cell_tostring` and `table_tostring`, which call each other: one step is one element,
and `calls` is the stack of the running calls. The words of the text are appended in the order in
which the nested buffers end up in each other.

### The code generator (`TargetCode`)

`generate_all` (`target_code.c`) is a loop over the quads, so one step is one quad:
each `Generate...` action is the function of that name with everything it calls,
`make_operand` and the constant tables included. `GenerateFuncend` patches the jumps
that `pop_func_frame` patches; `PatchIncompleteJumps` is the loop that ends the
translation. Assertions that fail are the action `Abort`, and a constant table that
is written past its end, which the code does not notice, is `Overrun`.

### Quads and expressions (`Backpatch`, `BackpatchRuns`, `Meanings`, `Expressions`, `ExprMeanings`)

A bison parser is its stack, so the variable `stack` holds an item for each rule that has begun, with
the semantic values it has so far. A step is one action of the grammar, mid-rule actions and the
markers `M` and `N` included; which rule comes next is left open, so that the behaviours of the module are the
compilations of all programs with up to `maxRules` rules. `fragment` says which part of the grammar a program
is from. Each expression and statement carries, beside
what the code has (a place, or a true and a false list), its syntax tree, which the code does not build.

A finished program is then executed in two ways: its quads by an interpreter (`BackpatchRuns`, and the end of `Expressions`),
with every result a call may have, and its trees by `Meanings` or `ExprMeanings`, which know nothing of
jumps or temporaries. `MeaningPreserved` compares the outcomes: which calls are made,
in which order, with which arguments, what is assigned and returned. A loop that goes round is
followed for `MaxCalls` calls; a loop that goes round without a call must do so on both sides.

`Backpatch` has booleans and control: `and`, `or`, `not`, the six comparisons, calls with argument lists, `if`, `while`, `for`,
`break`, `continue`, `return`, functions. `Expressions` has values: numbers and the
operators with their folding, unary minus, variables and elements (of elements, of results of calls), `=`, `++` and `--`,
calls, method calls and both table constructors. What is delicate there is the order: an element that is called, or
looked into, is fetched only behind the code of its arguments or of its index, arguments are pushed by name from the last to the
first, and a table is made when all its elements are there.

### The file (`AbcFile`)

The compiler's side and the machine's side have separate lists of sections, of the fields of a record
and of the names of opcodes, as the code has them in two pairs of files. The compiler writes a record
per step and may be stopped at any byte; the machine, which starts when the compiler has ended, reads a field
per step and takes what is not there for zero.

### Scopes and storage (`Scopes`, `LexicalScopes`)

A step is one semantic action, or two that the grammar runs in a row (`funcprefix`
and the start of `funcargs`; the end of `funcbody` and `funcdef`), in an order that
the grammar allows; the variable `parsing` is the part of the parser's stack that
decides which. Symbols are in the order of their creation, which is the order
that the chains of the hash table are searched in, backwards. `declared` is a history:
which symbols each function around the parser declared. Where the parser reports an error
and goes on (a `local` with the name of a library function, a `::x` that is not
there), the action does what the code does, without the message.

`LexicalScopes` has a stack of scopes that map names to declarations, and nothing about
activity, depth numbers or offsets. The refinement maps depth `k` to the active
symbols of scope `k`.

## 3. The runs

| Run | Instance | What it checks |
|---|---|---|
| `avm_calls` | 5320 programs on a stack of 31: 4 bodies of a function (recursive; calls in arguments; endless; with a function inside) x every sequence of 3 of 10 statements; 13 values x every operation on one x 3 observations of the result; endless recursion with 0-3 arguments, 1-3 locals, 0-2 leftovers of `print`, direct or through a table | `TypeOK`, `FramesIntact`, `FramesDisjoint`, `FrameCurrent`, `OperandsInFrame`, `ReturnsToCaller`, `LibrarySeesFrame`, `ImplementsActivations`, and `Stops` under weak fairness |
| `codegen_flow` | every nesting of functions, returns with and without a value and one jump, in six quads, every label within the function; every sequence of three quads out of all kinds, as the body of a function, sharing constants | `TypeOK`, `OpenFunctions`, `FlowPreserved`, `OutputWellFormed`, `OperandsPreserved` |
| `scopes_flat` | two names, one of them a library function's; 4 symbols; blocks and functions 2 deep; no function in a function | `TypeOK`, `OwnStorage`, `OwnFrame`, `FrameHoldsLocals`, `TempsAreNew`, `ImplementsLexicalScopes` |
| `avm_table` | numbers 0 and 1 in one chain, two strings in chains against their order, a boolean, and an undefined key; three values and nil; every sequence of stores, deletions and copies | `OneBucketPerKey`, `LookupsAgree`, `MembersListedOnce`, `PrintDependsOnMap`, `ImplementsTables` |
| `avm_refs` | three tables, two cells, one key: every graph of tables; and two tables, one of them used as a key | `CountsCoverReferences`, `NoDanglingReference`, `OnlyOwnCellIsWild`, `UnreferencedIsFreed`, `DestructionEnds` |
| `avm_print` | two tables of up to two elements, arrays and not, in each other in every way; cut off below depth 3 | `TypeOK`, `ShowsEveryPath`, `PrintEnds` |
| `backpatch` | five fragments: expressions with `and`, `or`, `not`, `==`, calls and lists, as a statement and under `if`, 8 rules; every comparison, 6 rules; loops in each other and in branches, with `break` and `continue`, 8 rules; functions in loops, with `break` and `return`, and in each other, 7 rules; functions in statements, argument lists and conditions, 6 rules | `PatchedOnce`, `MeaningPreserved`, `JumpsStayInFunction` |
| `expressions` | three fragments: three of `+`, `*`, `/`, `%`, unary `-` over three constants and a variable that may not be set; four of binary and unary `-`, `=`, `++`, `--`, `[ ]` over a variable and a table; four of calls, methods, elements, both constructors, commas and `=` | `MeaningPreserved` |
| `abc_file` | 11 programs that have every opcode and operand type between them, and 4 with sections that are empty; cut off at every byte | `ReadBack`, `TruncatedIsPrefix`, `LoaderEnds` |
| `avm_overflow`, `scopes_nested_storage`, `backpatch_early` | a call with many arguments; functions in functions; the first fragment with `EarlyBooleans` | each finds a violation, see section 5 |

Bounds, and why they are enough:

* `StackSize` 31: the endless body takes nine cells per call, its own argument and one that
  `argument` leaves behind included, so that calls nest three deep; the leftovers of
  earlier statements shift the last call so that its environment fits exactly (`top` is 4) in
  one program and misses by one cell (3) in another. Recursion with an end has room to
  return. Every combination of arguments and locals of the endless recursions
  meets the end of the stack at another distance, from either side of each check. The
  programs with single instructions use fewer cells.
* `Word` 128 instead of 2^32: larger than every address, so the only thing that wraps is
  what wraps in the code, a `top` below 0 and a counter of elements below 0.
* Three statements: enough to make a call, leave something behind (a callable table,
  a changed variable, a function in a variable) and call again with it.
* Six quads: two functions, one in the other or one after the other, with a return
  on each side. Longer sequences repeat this. Three quads that share constants: an
  entry is made, found again, and followed by another one.
* `MaxConsts` is 8 (never reached) or 2 for the numbers, which some programs exceed; `MaxInstructions` 9,
  `FuncStackSize` 2 and `RetListSize` 2 are reached, so that the assertions do fail.
* Four symbols, two deep: a name is declared outside, hidden inside, and declared
  again in a later scope of the same depth; a function has a formal, a local and a
  temporary. Deeper scopes repeat what the second level does, since all that the code
  compares is the depth.

* `avm_refs`: a chain or a cycle of three tables, held from two cells, is freed from inside; addresses
  are used again within the run. Two tables are enough for one to be the key of the other. `Counts` 7 is more than the references and the lost ones a behaviour
  needs to show what it does; the count is kept below the wrap (`CountInRange`).
* `avm_print`: depth 3 instead of 4, so that a table that contains itself is met in the middle and
  at the end; two elements tell first from later ones in both formats.
* `maxRules` 6 to 8 in `backpatch`: an `and` in an `or` under a `not` as an argument, three loops in each other, a function
  with a loop in a loop. `MaxCalls` 4: two rounds of a loop that calls in its condition and its body.
* `maxRules` 3 and 4 in `expressions`: a method with two arguments one of which assigns, an element of an element of the result of
  a call, a table in a table. A number is counted in halves, so that there is one whose integer part is zero, and results are cut to
  halves on both sides. The tables of the second store contain each other's functions, so that every kind of call both
  succeeds and fails.
* `AbcFile`: a byte has 32 values, an `unsigned` two bytes, a double three, the buffer of `read_str`
  four. Every field has a value that needs all its bytes in some program.

No symmetry is used. Where the machine or a compilation may stop in the middle, which is where TLC
sees a deadlock, the cfg says `CHECK_DEADLOCK FALSE` (`Backpatch` and `Expressions`: programs of the largest
size; `AvmPrint` and `AbcFile`: the end of the text and of the file). Elsewhere a run ends its behaviours in a step that changes nothing
(`Stopped`), so deadlock is checked: a state that nothing handles would be
reported. A property has a mutant, an operator named `...Mutant` that stands before
the definition it replaces, with a bug that the code could well have had; each was seen to
violate its property.

**Fairness.** Four properties need it. In each case one thread, which waits for nothing, goes on with
what it has begun: `WF_vars(Continue)` in `AvmRefs` is the rest of an instruction after a clear, not the next
instruction; `WF_vars(Next)` in `AvmPrint` is a call that runs; `WF_vars(Loader)` in `AbcFile` is the
machine reading, while nothing makes the compiler write on. In `AvmHistory`, the weak fairness of the machine's steps (`FairHSpec`) says that the machine goes on
executing instructions while it can; `main` does that in a loop (`avm.c:1060-1084`).
`Stops` is only promised for programs whose only repetition is recursion. It says that these end regularly or with a report, with two
exceptions by name, in which the machine leaves the stack (`"wild"`) before anything looks: the arguments of a call take the last cell of the stack
(`PushedOut`; `avm_overflow` has the counterexample without it, and some endless recursions of `avm_calls` end there, too), and `argument()` outside of every
function (`FrameLess`, section 5). Any other way out of the stack violates it.

## 4. What is proved

`AvmHistoryProofs` proves for every set of programs, stack size, word size, set of
strings and set of inputs:

| Theorem | Property |
|---|---|
| `InvariantHolds` | `IInv`, the inductive invariant |
| `TypeCorrect` | `TypeOK` |
| `FramesStayIntact` | `FramesIntact`: the saved registers of every active call are on the stack as the call wrote them |
| `FramesStayDisjoint` | `FramesDisjoint`: frames and globals share no cell |
| `FrameStaysCurrent` | `FrameCurrent`: the code that runs is that of the newest call, in its frame |
| `OperandsStayInFrame` | `OperandsInFrame`: a variable operand is a cell that its function has |
| `ReturnsResumeCaller` | `ReturnsToCaller`: every return restores `pc`, `topsp` and `top` of the caller |
| `LibraryStaysInFrame` | `LibrarySeesFrame`: `totalarguments` and `argument` answer for the running call |

Assumptions: `AvmAssumption` (a word has more values than the stack has cells, with room for an environment;
2^32 and 4096 in the code), `StringsAssumption`, and `ProgramsAssumption`: the programs are
`WellFormed`, have fewer globals than the stack has cells, and fewer instructions than a word has values.
The second and third are not checked by the loader. `WellFormed` is what `TargetCodeProofs` proves of the code generator's
output, from what `IsProgram` says of the quads; two of its clauses deserve a word:

* `totalGlobals` is positive. A program with a call or a function has a global: the
  temporary for the result, or the function's own symbol, which counts as one.
* A local operand is below the `localSize` of its function. For functions inside functions
  the compiler does not ensure it (section 5, `scopes_nested_storage`); the theorems say nothing of such a program.

The argument. None of the properties is inductive by itself. That `FuncExit` restores the caller
needs the four cells to be intact; that an assignment leaves them intact
needs its address to be outside of every environment; that needs the frames to be disjoint,
`topsp` to be the base of the newest one, and the operand to be a variable of
the function whose frame that is; the last needs control to stay in that function,
which `WellFormed` gives for a step (`FlowOK`) and the history for a return
(`HistoryOK`: the return address belongs to the caller). Pushed arguments are
between the locals and `top`, and are pending only at a `pusharg` or a `call`
(`PushesPending`), so that a jump or an assignment never runs with some of them on the way. So

    IInv == TypeOK /\ prog \in Programs /\ HistoryOK /\ FramesIntact
              /\ FramesDisjoint /\ FrameCurrent /\ PushesPending

The proof has one lemma per action or group of actions with the same effect on the frames
(`StoringStep`, `JumpingStep`, `LibReturnStep`, ...), below them the lemmas on where an
operand's address can be (`OperandAddress`) and on what keeps frames and types
(`FramesStay`, `CellsStay`, `TablesStay`), and `InFrameKeeps`, `HCallStep` and `HReturnStep` on top.

`AvmActivationsProofs` proves under the same assumptions:

| Theorem | Property |
|---|---|
| `CallsAreActivations` | `ImplementsActivations`: the machine with its one stack behaves as one in which every call has arguments, locals and pending arguments of its own |

The abstract state is read off the stack: the globals from its top, the variables of each frame from where `activations` has its base,
the pending arguments from between the locals and `top`. `IInv` of the first module says
that these cells are apart and that everything else is below the newest frame. So a store changes the one variable it is meant
for (`StoreMaps`), the environment that `call` writes and the arguments that `pusharg` pushes change none, and the arguments of
the new frame are what was pending (`CallMaps`), in order. There is one lemma per abstract action, named for it (`EnterMaps`, `ReturnMaps`, ...), and
`StepMaps` puts them together.

`AvmTableProofs` proves for any keys, elements and hash values, any number of chains and any word size:

| Theorem | Property |
|---|---|
| `TableInvariance` | `TableChained`, the inductive invariant |
| `OneBucket` | `OneBucketPerKey`: no key has two buckets, so no old element comes back from behind a newer one |
| `LookupsFindTheMap` | `LookupsAgree`: what a lookup finds is what the map holds |
| `MembersAreListedOnce` | `MembersListedOnce`: `objectmemberkeys` lists each string and number that has an element once, under the numbers from 0 |
| `PrintIsOfTheMap` | `PrintDependsOnMap`: what is printed in which order, and whether as an array, is told by the map alone |
| `BucketsAreAMap` | `ImplementsTables`: the chains are the map that `Avm` has, the counter included |

The assumptions are `HashAssumption`: there are chains (211 in the code), a word has values, and the hash of a key names a chain;
`KeysAssumption`: keys are cells, and strings are ordered somehow; and, for `MembersAreListedOnce`, `IndexAssumption`: the
numbers that such a list is indexed with have a hash value too (`hash_num` has one for every double).
`TableChained` says that every bucket is in the chain that its key hashes to and that no chain has two buckets with one key; the second is
only kept because of the first, since a store looks in one chain only. `StoreIsSetElem` then has a case for each branch of `avm_table_setelem`
(`OverwritingOne`, `PushingOne`). A copy walks through 422 chains and stores what it meets in a new table: `WalkLists` says that the walk
meets every bucket of the two arrays once, and `AllAreStored` that after each of its stores the new table is the map of what has been met so far,
with a counter that is their number modulo the word (`ModOfNext`). Both are inductions over the walk, made with a least
counterexample (`LeastOfSet`); the functions that `FoldLeft` and `FlattenSeq` choose are shown to exist (`FoldExists`, `FlatExists`).

What is listed and printed starts from the same walks without the deleted elements (`LiveLists`), whose keys are the members of the map (`LiveMembers`).
The list of keys stores them under numbers that are new each time, so each store pushes a bucket and finds none (`FirstOneMore`). Sorting is a
matter of counting: how many buckets are before one is different for any two of them, there are as many places as buckets, so each place
has its bucket (`PlacesAre`, `SortedLists`). And a table is printed as an array when the numbers from 0 to one less than their count are its keys: the bucket with
the number `v` has `v` others before it (`CountedFromZero`).

`AvmRefsProofs` proves for any number of tables, cells, keys and programs, under the assumption that no
table is used as a key (`TableKeys = {}`; with such a key the run `avm_refs` has the properties of the other tables, see
section 5) and with counts
that stay below their wrap (`CountInRange` in the guards):

| Theorem | Property |
|---|---|
| `CountsHold` | `IInv`, the inductive invariant |
| `RefsTypeCorrect` | `TypeOK` |
| `CountsStayRight` | `CountsCoverReferences`: a count is at least the number of references, and exactly that number if no cell was overwritten |
| `NothingDangles` | `NoDanglingReference`: what is held is alive |
| `OwnCellReadsFreed` | `OnlyOwnCellIsWild`: a `tablegetelem` into the cell of its table, which has no other reference, uses freed memory, always; nothing else does |
| `GarbageIsFreed` | `UnreferencedIsFreed`: what nothing holds is freed, unless a cell was overwritten |

That a table is not freed too early needs the counts to cover the references; that an instruction finds what it
copies, after the destructions its clear has begun, needs the source to be held by something that is
not among them. So `IInv` adds to the properties `StatusOK` (the tables that are dying are those
of the active calls, each once; a live table has a positive count) and `PendingOK` (what is
pending copies from, or to, an element of a table that a cell holds, or of one that has outlived the clear of its own cell).
Where it has not, the element is lost: `OwnCellOK` says that its table stays dead until the instruction goes on, and that no
other state is on its way to freed memory. The destination of an instruction is not restricted. Each step changes one place and one
count, so the lemmas count references: `OneMore`, `OneLess` and what they say of each `Clear` and `Take`.

`AvmPrintProofs` proves for any tables, however they contain each other, and any depth: `PrintInvariant`, and from it
`CallsStayShallow`: the recursion is at most `MaxDepth + 1` calls deep, and each call knows its depth.

`ScopesProofs` proves for any names, any library functions (`BuiltinsAssumption`: they are among the names), any number of symbols
and of nested blocks:

| Theorem | Property |
|---|---|
| `ScopesStructure` | `Structure`, an inductive invariant: the saved counters and the functions around the parser nest as the scopes do, and what is active is in an open scope |
| `CountersAgree` | `TypeOK` |
| `TemporariesAreNew` | `TempsAreNew`: a temporary that is created is a symbol of its own, never one that its name is already taken by |
| `NamesAreLexical` | `ImplementsLexicalScopes`: a name means what the innermost declaration around it says |
| `StorageIsOwn` | `OwnStorage`: the variables and temporaries of a function, or of the program, have cells of their own, each |
| `FrameIsOwn` | `OwnFrame`: an lvalue belongs to the frame of the function whose code uses it |
| `FrameHasRoom` | `FrameHoldsLocals`: the number of locals in a function's symbol covers all of its locals |

The last three have the hypothesis `MaxNesting <= 1`, no function inside a function: without it they are false, as section 5 says
of `scopes_nested_storage` and of `parser.y:592`. Functions may be declared one after the other, with any blocks in and around
them. The other four need no hypothesis.

`Structure` ties what the code keeps in separate places: the scope depth, the stack of saved
counters, the list of functions, `is_active`. For the temporaries it is strengthened by `TempsNumbered` (the number of a living temporary is below the counter, and those
numbered since a body began, by the counter that was saved then, are declared in that body). For cells, by `Places` (the symbols in the space of one function have offsets below the counter
of that space, no two the same), `InFrame` (a symbol with a place in a frame is active only inside of the function it was declared in) and `LvalueLives` (what
the parser holds as an lvalue is still active). For names, the abstract scope `k` is the map from names to the active symbols of depth `k`;
`Library` says that the scopes outside of all begin with the library functions. Lookup from the inside
finds the newest active symbol (`NewestIsLast`), which is the innermost declaration.

`TargetCodeProofs` proves for any sequences of quads, any sizes of the constant tables and any limits of the asserted arrays:

| Theorem | Property |
|---|---|
| `Invariance` | `IInv`, the inductive invariant |
| `TypeCorrect` | `TypeOK` |
| `FunctionsAreOpen` | `OpenFunctions`: the stack of functions holds those around the next quad, each with its own returns |
| `OperandsAreKept` | `OperandsPreserved`: every operand can be read back from the constant tables, however they grew since |
| `FlowIsPreserved` | `FlowPreserved`: control goes between instructions as it goes between quads |

Assumptions: `LimitsAssumption` (types), and `QuadsAssumption` about what the parser leaves: the operands that a quad needs are there, a
jump has got a label, functions nest, and no `ret` is outside of a function (the parser reports one and emits nothing). TLC evaluates it for
all the quads of `codegen_flow`. A function that is declared once is meant in the clause about entries: the table of user functions has one row for
each symbol.

The argument. A jump is emitted without its target and gets it in one of three places, at the end of its function or at the end of all; in between,
instructions are appended, others are patched, and tables grow. So

    IInv == Laid /\ Translated /\ JumpsWait /\ JumpsPatched /\ FramesTyped
              /\ FramesAround /\ ClosedFunctions /\ Bodies

says of each quad behind `next` where its instructions are and that no other quad's are there (`Laid`; `QuadsAreApart` follows), what
they are (`Translated`), and of each jump that it waits in exactly the list it should be in (`JumpsWait`, `FramesAround`) or has its target
(`JumpsPatched`, `ClosedFunctions`). That `pop_func_frame` patches the jumps of the function that ends, and no others, is about the nesting: the functions around a quad
are a chain (`EndsNest`), `funcend` ends the last of them (`AroundEnd`). These lemmas are about counts of quads in intervals, and use nothing of the
code generator. There is one lemma per action and conjunct that it can disturb; the operands need only that tables grow (`Grown`, `OperandReadBack`).

The same module proves with the same assumptions:

| Theorem | Property |
|---|---|
| `OutputInvariance` | `OInv`, which is `IInv` and what the rows of the constant tables are |
| `OutputIsWellFormed` | `OutputWellFormed`: the finished code has every clause of `WellFormed`, which the theorems about the machine start from |

`OutputWellFormed` has three conditions. `DeclaredOnce` and `TotalGlobals > 0` are those of above. `IsProgram` is about the quads: a jump has its target in its function
(`break` and `continue` see the loops of their function only, `parser.y:874-882`; `JumpsStay` below is that for all of the grammar), a `param` is followed by another one or its `call`,
what is written is a variable, an operand names a function that is declared, or a variable that its function has when it ends. It is where the two programs go that the parser accepts and the machine does
not expect: functions that use the locals of another one, and assignments to functions (section 5). TLC evaluates it for all the quads of `codegen_flow` (`ProgramsAssumption` of `MCTargetCode`).

The argument. `WellFormed` speaks of addresses: the function around an instruction is the one with the last entry before it
of those whose `funcexit` is behind it. `OInv` adds to `IInv` that each function has one row of the table of user functions (`TablesOK`),
so rows and `funcstart`s are in correspondence (`RowsOfFunctions`, `FunctionsOfRows`) and a `funcexit` is the end of the function it names
(`FuncexitsAreEnds`). Then the functions around an instruction are those around its quad, or, for the `funcenter`, around the quad behind it (`PlaceOfInstruction`);
after that each clause is read off the quads: targets by `FlowPreserved` and the nesting (`SuccInFunction`), operands by `OperandsPreserved` (`OperandLoaded`).

With `OutputIsWellFormed`, the theorems about the machine hold for the bytecode of every program that has these conditions, as far as its globals fit on
the stack and its instructions have numbers; that the loader reads what was written is the run `abc_file`.

`BackpatchProofs` proves for any programs, with any of the rules and any number of them, and without the restriction of the run `backpatch` to
`EarlyBooleans = FALSE`:

| Theorem | Property |
|---|---|
| `JumpsInvariance` | `IInv`, the inductive invariant |
| `JumpsArePatchedOnce` | `PatchedOnce`: the jumps without a target are those in the lists, each in one list and once; every other jump got its target once |
| `JumpsStay` | `JumpsStayInFunction`: in the quads of a finished program, a jump and its target are in the same functions |

There are no assumptions. What the quads mean is another question: with `EarlyBooleans` each jump is still patched once, but in the
wrong place (`backpatch_early`).

The argument. The lists of jumps are spread over the semantic values on the parser's stack, the loops of the function and the saved loops
of the functions around it. `IInv` says that an item of the stack has what the rule that will find it expects (`ItemOK`), that the jumps in all lists together
are distinct and are the ones without a target (`Code`), and for the second property that whatever an item or a loop has, jumps and labels, is
in the function that it is itself in (`Nested`): `h` gives the functions around each quad, finished (`BodiesApart`) or not, and the saved loops of each open
function are as many as its loop items on the stack. A label that is used when a list is patched is then around the same functions as the list.

An action works on more than one item at a time, so the proof keeps the state in two parts: a `Ground` is the stack below
what the action takes, with what waits there, and the set of jumps `H` that the action holds in its hand. Taking an item puts its lists
into the hand (`TakeRule`, `TakeLoopRule`), emitting a jump adds one (`JumpEmittedIn`), patching a list removes its jumps (`PatchedIn`, `LoopIsPatched`),
and putting an item back (`PutItem`, `PutLoopItem`) needs its lists to be exactly the hand: a jump that a rule forgot, or put into two lists, would not pass there. There is a lemma for each function of the code
(`BoolMade` for `emit_ifboolexpr`, `ValueMade` for `convert_to_value`, `ListFinished`, `CallEmitted`, ...) and one for each
action (`KeptByAnd`, `KeptByFor`, ...). A function that begins and ends changes which functions are around the quads to come and none behind (`OpenFunction`, `CloseFunction`).
That the lists of a stack with one item more are those of the stack and of the item (`FlattenOneMore`, `HeldInOneMore`) comes from the
functions that `FlattenSeq` and `FoldRight` choose, which are shown to exist (`FlatExists`, `FinalExists`).

Only model-checked:

- all liveness (`Stops`, `DestructionEnds`, `PrintEnds`, `LoaderEnds`), which is out of the prover's reach;
- `ReadBack` and `TruncatedIsPrefix` of `AbcFile`: that bytes, fields and records come back as they were written is an
  induction over the length of what is concatenated and over the powers of `ByteSize`;
- `MeaningPreserved` of `BackpatchRuns` and of `Expressions`, whose interpreters are RECURSIVE operators, which the prover
  does not take;
- `ShowsEveryPath` of `AvmPrint`: the reader of the text counts brackets and commas up to a position, and what it finds
  for the text of a nested table is again an induction, over the depth of the nesting. What is proved of `AvmPrint` is
  that its calls stay nested as deep as the tables they print.

## 5. Where the code and what it says of itself part

Three runs have a counterexample:

| Run | What TLC finds |
|---|---|
| `avm_overflow` | `pusharg` does not check the stack (`avm.c:548`), and neither does the push of a called table; `top` is unsigned and wraps, `top < 4` in `call` lets the wrapped value pass, and the environment is written outside of the array. |
| `scopes_nested_storage` | After a function inside a function, the outer one's new locals get the cells of its older ones: the offset is reset at `parser.y:873` and not restored, unlike the temporaries' counter. |
| `backpatch_early` | A boolean expression before a comparison, or before the last place of a list, is turned into a value behind the code of what follows it (`parser.y:404-408, 724-746`), and its jumps skip that code: in `f(a and b, g())`, `g` may not be called. |

The models have more of this kind, for which no run is kept. In each case the model does what the code does, and a stronger
property, or the instance named here, shows it:

| Where | What the code does | In the model |
|---|---|---|
| `avm.c:806` | `totalarguments()` outside of every function reads the cell above `topsp`, which is the last global, not a cell that "was never set up" (`avm.c:808`). `argument(i)` takes it for the number of arguments, and reads above the globals or past the end of the stack (`avm.c:828`). | `LibrarySeesFrame` without its condition that a call is running; `Stops` without `FrameLess` |
| `avm.c:681-682` | `execute_tablegetelem` finds the element, clears the destination and then reads the element. When the destination is the cell of the table and the table has no other reference, the clear frees it, and the freed bucket is read. The compiler emits this behind a function inside a function, where a temporary has the cell of an older local (`parser.y:873`, `quads.c:96-108`): in `function f(n){ local a=[1]; function g1(){local p;} 1+n; 2+n; function g2(){} print(a[0]); }` the two sums overwrite the other references, and the temporary for `a[0]` gets the cell of `a`. | `ownCell` happens in `avm_refs`; `~ wild` without it fails |
| `avm.c:326` | An element set to nil stays in its bucket; setting it again does not count it again; deleting it once more makes the unsigned counter wrap. | the `total` of `SetElem` differs from the number of `Members` |
| `target_code.c:61` | The constant tables have sizes (`target_code.h:60-65`) that nothing compares the counts with. | `Overrun` happens in `codegen_flow`, and its outcome is `"wild"` |
| `parser.y:592` | A function can name the locals and formals of the function around it, and the code then uses that offset in its own frame. | `OwnFrame` fails with the constants of `scopes_nested_storage` |
| `parser.y:554` | Assigning to the name of a function (or `++`, `--`) is not rejected. The destination is a function, for which the machine writes to a register that it reads nothing from (`avm.c:416-437`). | `IsProgram` leaves it out: what is written is a variable |
| `avm.c:242` | A table stored under a table takes no reference for its key and gives one back when it is destroyed (`avm.c:254`): the key is freed while a variable holds it. | `UseFreed` happens in `avm_refs`; `OnlyOwnCellIsWild` without its condition fails |
| `parser.y:322, 343` | A division of constants by zero is 0 for the compiler and an error for the machine (`avm.c:455, 458`); `4 % 0.5` makes the compiler itself divide by zero. | `MeaningPreserved` of `Expressions` without `DividesByZero` |
| `avm.c:993` | A string of 4096 characters or more is not read to its end, and everything behind it is read from the wrong place. | `ReadBack` with a string as long as the buffer of `AbcFile` |

The passing runs leave out what some of these are about: `backpatch` sets `EarlyBooleans` to FALSE, `expressions`
excepts `DividesByZero`. It also excepts expressions like `x + x++` (`ReadLate`), where a variable is an operand by name and is read
after the operand behind it has changed it: no document says which value it has. Of an element that is called or looked into, the
meaning has the table and the key found first and the element read last, as the code does; of two pairs with one key in a
constructor, the first one stays.

## 6. What is not modelled

* The scanner: regular expressions and string escapes; no state.
* `write_text`, `print_quads`, messages: layout.
* The Makefile and the compiler's `main`, which call the phases in order.
* Boolean operands inside of indexes and constructors (`Backpatch` has them in argument lists, where the code finishes them in the same way),
  a call of a table with a `()` element in `Expressions` (`Avm` has it). The growth of `quad_array`, which has no limit.
* Numbers: fractions other than halves, -0 (which hashes to another bucket than 0, `avm.c:278`), infinities, and the
  wrap of a reference count.
* An older `.abc` file that is in place when the compiler cannot open it for writing: the machine would load that one.
* What the rules do that get the NULL of a `::x` that is not declared: undefined in C.

## 7. Plan

Done: the machine and its calls, which everything else serves, and the proofs about them; the
code generator, whose output they rely on; scopes and storage; reference counts with their proofs; buckets; printing;
backpatching with its proofs; expressions; the file. Left:

1. Composition: quads from `Backpatch` through `TargetCode` to a program that `Avm` runs.
