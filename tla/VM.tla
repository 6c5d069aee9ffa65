--------------------------------- MODULE VM ---------------------------------
(***************************************************************************)
(* struct VM of vm.hpp: the constructor (finalize, list, the null in the   *)
(* first stack slot, the first local frame) and exec(), one action per     *)
(* case of its switch.  Positions count from 1: code.begin() is 1 and      *)
(* code.end() is Len(code) + 1.                                            *)
(*                                                                         *)
(* The process stops at the first failed assert (the build keeps them), at *)
(* exit() and at a trap.  Where exec() has undefined behaviour - tos() of  *)
(* an empty std::vector, int division by zero - every outcome seen from    *)
(* the builds the makefile makes is possible: the read yields garbage and  *)
(* the program goes on, or it is killed.                                   *)
(***************************************************************************)
EXTENDS Chunk, SequencesExt

CONSTANT MaxIcount   \* exec()'s max_icount, 50

ASSUME MaxIcountAssumption == MaxIcount \in Nat

VARIABLES
  status,      \* where the process is; see the sets below
  ip,          \* list()'s iterator, then exec()'s instruction pointer
  stack,
  icount,
  globals,
  localvar_stack,
  printed      \* history: the values OP_PRINT wrote, oldest first

execVars == <<ip, stack, icount, globals, localvar_stack, printed>>
vmVars   == <<chunkVars, status, execVars>>

Returned == {"OK", "ERR", "INF_LOOP"}           \* VMStatus, run() returned
Died     == {"ABORT_POOL", "ABORT_EMPTY",       \* the assert that failed
             "ABORT_CONST", "ABORT_NAME", "ABORT_POP",
             "ABORT_VAR",                       \* of VarExpr::codegen
             "EXIT", "SIGFPE", "CRASH"}
VMStatus == {"idle", "building", "listing", "running", "DONE"}
            \cup Returned \cup Died

\* std::unordered_map<std::string, Value>, operator[] and assignment.
VarFrame == UNION {[names -> Value] : names \in SUBSET Str}
NoVars   == [name \in {} |-> Null]
Put(map, name, val) ==
  [n \in DOMAIN map \cup {name} |-> IF n = name THEN val ELSE map[n]]

-----------------------------------------------------------------------------
\* The chunk is empty and no VM exists.
NoVM ==
  /\ EmptyChunk
  /\ ip = 1
  /\ stack = << >>
  /\ icount = 0
  /\ globals = NoVars
  /\ localvar_stack = << >>

\* The word after the one at ip.
Operand == code[ip + 1]

\* The process ends: nothing else happens.
Die(how) == status' = how /\ UNCHANGED <<chunkVars, execVars>>

\* assert(cond); step
Require(cond, failure, step) == IF cond THEN step ELSE Die(failure)

\* VM::VM(initcode): finalize the copy of the chunk and start listing it.
Construct ==
  /\ status = "building"
  /\ Require(code # << >>, "ABORT_EMPTY",
       /\ finalize
       /\ status' = "listing"
       /\ ip' = 1
       /\ UNCHANGED <<stack, icount, globals, localvar_stack, printed>>)

\* Mutant of ListInstr: the operand of a definition is not skipped.
ListInstrConstOnly ==
  /\ status = "listing"
  /\ ip <= Len(code)
  /\ ip' = ip + (IF code[ip] = OP_CONST THEN 2 ELSE 1)
  /\ UNCHANGED <<chunkVars, status, stack, icount, globals, localvar_stack,
                 printed>>

\* One turn of list()'s loop: an instruction and, if it has one, its operand.
ListInstr ==
  /\ status = "listing"
  /\ ip <= Len(code)
  /\ Require(TakesOperand(code[ip]) => Operand < Len(constants),
             "ABORT_CONST",
       /\ ip' = ip + (IF TakesOperand(code[ip]) THEN 2 ELSE 1)
       /\ UNCHANGED <<chunkVars, status, stack, icount, globals,
                      localvar_stack, printed>>)

\* The rest of the constructor, and the head of run() and exec().
StartExec ==
  /\ status = "listing"
  /\ ip > Len(code)
  /\ status' = "running"
  /\ ip' = 1
  /\ icount' = 0
  /\ stack' = <<Null>>
  /\ globals' = NoVars
  /\ localvar_stack' = <<NoVars>>
  /\ UNCHANGED <<chunkVars, printed>>

-----------------------------------------------------------------------------
\* Mutant of Fetch: <= for < in the test of the budget.
FetchOneMore(ops) ==
  /\ status = "running"
  /\ icount <= MaxIcount
  /\ ip <= Len(code)
  /\ code[ip] \in ops

\* exec(): the loop test and readOp() for the opcodes of one case.
Fetch(ops) ==
  /\ status = "running"
  /\ icount < MaxIcount
  /\ ip <= Len(code)
  /\ code[ip] \in ops

\* printOp() reads tos() after the case's work: of an empty stack, undefined.
PrintOp(newStack, next) ==
  status' \in IF newStack = << >> THEN {next, "CRASH"} ELSE {next}

Retire(length, newStack, next) ==
  /\ ip' = ip + length
  /\ icount' = icount + 1
  /\ stack' = newStack
  /\ PrintOp(newStack, next)

ExecNop ==
  /\ Fetch({OP_NOP})
  /\ Retire(1, stack, "running")
  /\ UNCHANGED <<chunkVars, globals, localvar_stack, printed>>

ExecConst ==
  /\ Fetch({OP_CONST})
  /\ Require(Operand < Len(constants), "ABORT_CONST",
       /\ Retire(2, Append(stack, constants[Operand + 1]), "running")
       /\ UNCHANGED <<chunkVars, globals, localvar_stack, printed>>)

\* On an empty stack the read and the write through tos() are undefined; the
\* stack stays empty.
ExecUnary ==
  /\ Fetch(UnaryOps)
  /\ Retire(1, IF stack = << >> THEN << >>
               ELSE [stack EXCEPT ![Len(stack)] = UnaryVal(code[ip], @)],
            "running")
  /\ UNCHANGED <<chunkVars, globals, localvar_stack, printed>>

\* Mutant of ExecBinary: B is read with tos(), not popped.
ExecBinaryKeepsB ==
  /\ Fetch(BinaryOps)
  /\ Require(Len(stack) >= 2, "ABORT_POP",
       /\ Retire(1, Append(Front(stack),
                           BinaryVal(code[ip], Last(Front(stack)), Last(stack))),
                 "running")
       /\ UNCHANGED <<chunkVars, globals, localvar_stack, printed>>)

ExecBinary ==
  /\ Fetch(BinaryOps)
  /\ Require(Len(stack) >= 2, "ABORT_POP",
       LET B == Last(stack)
           A == Last(Front(stack))
       IN \/ /\ Retire(1, Append(Front(Front(stack)),
                                 BinaryVal(code[ip], A, B)), "running")
             /\ UNCHANGED <<chunkVars, globals, localvar_stack, printed>>
          \/ /\ IntDivByZero(code[ip], A, B)
             /\ Die("SIGFPE"))

\* Mutant of ExecPrint: the value is read with tos(), not popped.
ExecPrintKeeps ==
  /\ Fetch({OP_PRINT})
  /\ Require(stack # << >>, "ABORT_POP",
       /\ printed' = Append(printed, Last(stack))
       /\ Retire(1, stack, "running")
       /\ UNCHANGED <<chunkVars, globals, localvar_stack>>)

ExecPrint ==
  /\ Fetch({OP_PRINT})
  /\ Require(stack # << >>, "ABORT_POP",
       /\ printed' = Append(printed, Last(stack))
       /\ Retire(1, Front(stack), "running")
       /\ UNCHANGED <<chunkVars, globals, localvar_stack>>)

ExecPop ==
  /\ Fetch({OP_POP})
  /\ Require(stack # << >>, "ABORT_POP",
       /\ Retire(1, Front(stack), "OK")
       /\ UNCHANGED <<chunkVars, globals, localvar_stack, printed>>)

ExecRet ==
  /\ Fetch({OP_RET})
  /\ Retire(1, stack, "OK")
  /\ UNCHANGED <<chunkVars, globals, localvar_stack, printed>>

ExecEof ==
  /\ Fetch({OP_EOF})
  /\ Retire(1, stack, "ERR")
  /\ UNCHANGED <<chunkVars, globals, localvar_stack, printed>>

\* The tail of OP_DEFINE_GLOBAL and OP_DEFINE_LOCAL: name the value at the
\* top of the stack, pop it and return from exec().
Define(name) ==
  /\ IF code[ip] = OP_DEFINE_GLOBAL
     THEN /\ globals' = Put(globals, name, Last(stack))
          /\ UNCHANGED localvar_stack
     ELSE /\ localvar_stack' = [localvar_stack EXCEPT ![Len(localvar_stack)] =
                                  Put(@, name, Last(stack))]
          /\ UNCHANGED globals
  /\ Retire(2, Front(stack), "OK")
  /\ UNCHANGED <<chunkVars, printed>>

ExecDefine ==
  /\ Fetch(DefineOps)
  /\ Require(Operand < Len(constants), "ABORT_CONST",
     Require(isString(constants[Operand + 1]), "ABORT_NAME",
     Require(stack # << >>, "ABORT_POP",
       Define(constants[Operand + 1].str))))

\* The loop test fails: exec() returns INF_LOOP.
ExecStop ==
  /\ status = "running"
  /\ icount >= MaxIcount \/ ip > Len(code)
  /\ status' = "INF_LOOP"
  /\ UNCHANGED <<chunkVars, execVars>>

\* The default case, exit(0) on a word that is no opcode, is never reached: ip
\* is at an instruction (Aligned).
Exec ==
  \/ ExecNop \/ ExecConst \/ ExecUnary \/ ExecBinary \/ ExecPrint
  \/ ExecPop \/ ExecRet \/ ExecEof \/ ExecDefine \/ ExecStop

VMNext == ListInstr \/ StartExec \/ Exec

-----------------------------------------------------------------------------

(***************************************************************************)
(* The types: ip stays between begin() and end(), and the stack, constants *)
(* and variables hold values.                                              *)
(***************************************************************************)
VMTypeOK ==
  /\ ChunkTypeOK
  /\ status \in VMStatus
  /\ ip \in 1 .. Len(code) + 1
  /\ stack \in Seq(Value)
  /\ icount \in 0 .. MaxIcount
  /\ globals \in VarFrame
  /\ localvar_stack \in Seq(VarFrame)
  /\ printed \in Seq(Value)

(***************************************************************************)
(* list() and exec() decide by separate code how many words an instruction *)
(* has (vm.hpp:189 and the readOp() calls of exec()).  Both only ever stop *)
(* at words that the client appended as opcodes: no constant index is      *)
(* listed or executed as an instruction, whatever its number.              *)
(***************************************************************************)
Aligned ==
  status \in {"listing", "running"} => ip \in starts \cup {Len(code) + 1}

(***************************************************************************)
(* The asserts that guard decoding never fire: getConst's index is in the  *)
(* table (vm.hpp:148) and a definition names a string (vm.hpp:358, 374).   *)
(***************************************************************************)
NoBadOperand == status \notin {"ABORT_CONST", "ABORT_NAME"}

(***************************************************************************)
(* A chunk has no jumps, so exec() leaves its loop with INF_LOOP when the  *)
(* budget of max_icount instructions is spent, and not because ip reached  *)
(* the end: the RET and EOF that finalize() adds come first.  The exception*)
(* is a chunk whose last word is a constant index equal to OP_EOF, which   *)
(* finalize() takes for an OP_EOF (vm.hpp:155).                            *)
(***************************************************************************)
LoopEndsByBudget ==
  status = "INF_LOOP" => icount = MaxIcount \/ Len(code) \notin starts

\* What an instruction adds to the depth of the stack.
Effect(op) ==
  CASE op = OP_CONST -> 1
    [] op \in BinaryOps \cup DefineOps \cup {OP_POP, OP_PRINT} -> -1
    [] OTHER -> 0

StaticDepth ==
  LET depth[p \in 1 .. Len(code) + 1] ==
        IF p = 1 THEN 1
        ELSE depth[p - 1] + (IF p - 1 \in starts THEN Effect(code[p - 1]) ELSE 0)
  IN depth

(***************************************************************************)
(* Without jumps the depth of the stack is a function of the position: the *)
(* null of the constructor plus the effects of the instructions before ip. *)
(* A pop() assert (vm.hpp:409) fails exactly where that depth is too small,*)
(* so whether a chunk underflows can be read off the chunk.                *)
(***************************************************************************)
DepthIsStatic ==
  /\ status = "running" => Len(stack) = StaticDepth[ip]
  /\ status = "ABORT_POP" =>
       StaticDepth[ip] < (IF code[ip] \in BinaryOps THEN 2 ELSE 1)

(***************************************************************************)
(* "chunk always ends in EOF token" (vm.hpp:153), of a finalized chunk.    *)
(***************************************************************************)
ChunkEndsInEof ==
  status \in {"listing", "running"} \cup Returned =>
    /\ Len(code) \in starts
    /\ code[Len(code)] = OP_EOF
=============================================================================
