----------------------------- MODULE MCAbcFile -----------------------------
EXTENDS AbcFile

\* An instruction of every opcode, with an operand type of every kind in every place.
Instruction(n) ==
  <<WriterOpcodes[n], WriterTypes[(n % 11) + 1], n, WriterTypes[((n + 1) % 11) + 1], 33,
    WriterTypes[((n + 2) % 11) + 1], 0, 700>>

ProgramOf(strings, numbers, userFuncs, libFuncs, code) ==
  [globals |-> 40, strings |-> [i \in DOMAIN strings |-> <<strings[i]>>], numbers |-> numbers,
   userFuncs |-> userFuncs, libFuncs |-> libFuncs, code |-> code]

UserFunc == <<35, 2, <<5, 6>>>>
LibFunc  == <<<<7>>>>

\* Programs with everything in them, and programs that lack this or that;
\* strings that fit in the buffer of read_str, the empty one among them.
MCPrograms ==
  {ProgramOf(<<<<1, 2, 3>>, <<4>>>>, <<<<1000>>, <<0>>>>, <<UserFunc>>, <<LibFunc>>,
             <<Instruction(2 * n - 1), Instruction(2 * n)>>) : n \in 1..11}
  \cup {ProgramOf(strings, <<>>, userFuncs, <<>>, <<>>) :
          strings \in {<<>>, <<<<>>>>}, userFuncs \in {<<>>, <<UserFunc>>}}
=============================================================================
