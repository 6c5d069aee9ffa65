------------------------------- MODULE Chunk --------------------------------
(***************************************************************************)
(* struct Chunk of vm.hpp: the instruction stream and its constant table,  *)
(* and the methods that build them.  The stream is a sequence of words, an *)
(* opcode or a constant index each.                                        *)
(*                                                                         *)
(* starts is a history variable: the positions that were appended as an    *)
(* opcode.  No method reads it; it records what the builder meant, for the *)
(* properties to compare with what list() and exec() make of the words.    *)
(***************************************************************************)
EXTENDS Bytecode

CONSTANT MaxConst    \* the bound asserted on constants.size(), 255

ASSUME MaxConstAssumption == MaxConst \in Nat

VARIABLES code, constants, starts

chunkVars == <<code, constants, starts>>

-----------------------------------------------------------------------------

EmptyChunk ==
  /\ code = << >>
  /\ constants = << >>
  /\ starts = {}

\* Mutant of PoolFull: the assert admits one constant too many.
PoolFullLate == Len(constants) > MaxConst

\* assert(constants.size() < 255) in regConstVal and addConstNull fails.
PoolFull == Len(constants) >= MaxConst

addOp(op) ==
  /\ code' = Append(code, op)
  /\ starts' = starts \cup {Len(code) + 1}
  /\ UNCHANGED constants

\* Mutant of addOpWithConst: the index is taken after the push_back.
addOpWithConstLateIdx(op, val) ==
  /\ ~ PoolFull
  /\ constants' = Append(constants, val)
  /\ code' = code \o <<op, Len(constants) + 1>>
  /\ starts' = starts \cup {Len(code) + 1}

\* Register val, then embed the instruction op and val's index.  The null,
\* number, bool and string forms of addConst*, and the definitions
\* VarExpr::codegen emits, have this shape.
addOpWithConst(op, val) ==
  /\ ~ PoolFull
  /\ constants' = Append(constants, val)
  /\ code' = code \o <<op, Len(constants)>>
  /\ starts' = starts \cup {Len(code) + 1}

addConst(val) == addOpWithConst(OP_CONST, val)

\* Mutant of addDefine: the index is not embedded in the stream.
addDefineNoIdx(op, name) ==
  /\ ~ PoolFull
  /\ constants' = Append(constants, StrVal(name))
  /\ code' = Append(code, op)
  /\ starts' = starts \cup {Len(code) + 1}

addDefine(op, name) == addOpWithConst(op, StrVal(name))

\* Mutant of finalize: the test is inverted.
finalizeInverted ==
  /\ code # << >>
  /\ IF code[Len(code)] = OP_EOF
     THEN /\ code' = code \o <<OP_RET, OP_EOF>>
          /\ starts' = starts \cup {Len(code) + 1, Len(code) + 2}
     ELSE UNCHANGED <<code, starts>>
  /\ UNCHANGED constants

\* Mutant of finalize: the OP_EOF is forgotten.
finalizeNoEof ==
  /\ code # << >>
  /\ IF code[Len(code)] # OP_EOF THEN addOp(OP_RET) ELSE UNCHANGED chunkVars

\* finalize(): tests the last word, whatever it stands for.
finalize ==
  /\ code # << >>
  /\ IF code[Len(code)] # OP_EOF
     THEN /\ code' = code \o <<OP_RET, OP_EOF>>
          /\ starts' = starts \cup {Len(code) + 1, Len(code) + 2}
     ELSE UNCHANGED <<code, starts>>
  /\ UNCHANGED constants

newChunk ==
  /\ code' = << >>
  /\ constants' = << >>
  /\ starts' = {}

-----------------------------------------------------------------------------

ChunkTypeOK ==
  /\ code \in Seq(Nat)
  /\ constants \in Seq(Value)
  /\ Len(constants) <= MaxConst
  /\ starts \subseteq DOMAIN code

\* Every opcode that takes an operand is followed by the index of a constant
\* that is in the table (a string, for a definition) and is no opcode; the
\* word after an instruction is an opcode or the end of the stream.
WellFormed ==
  /\ 1 \in starts \cup {Len(code) + 1}
  /\ \A p \in starts :
       /\ code[p] \in OpCode
       /\ IF TakesOperand(code[p])
          THEN /\ p + 1 \in DOMAIN code \ starts
               /\ p + 2 \in starts \cup {Len(code) + 1}
               /\ code[p + 1] < Len(constants)
               /\ code[p] \in DefineOps => isString(constants[code[p + 1] + 1])
          ELSE p + 1 \in starts \cup {Len(code) + 1}
=============================================================================
