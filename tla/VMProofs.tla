------------------------------ MODULE VMProofs ------------------------------
(***************************************************************************)
(* Lemmas about Chunk and VM: each builder method and each step of the VM  *)
(* preserves the invariant VMInv, whatever the client that builds the      *)
(* chunk.  HandTestProofs and CodeGenProofs rest on them.                  *)
(***************************************************************************)
EXTENDS VM, DataLemmas, TLAPS

ChunkInv == ChunkTypeOK /\ WellFormed

VMInv == VMTypeOK /\ WellFormed /\ Aligned /\ NoBadOperand

-----------------------------------------------------------------------------
\* Value is closed under what the instructions compute.

LEMMA ValueKinds ==
  /\ Null \in Value
  /\ \A n \in Num : NumVal(n) \in Value
  /\ \A b \in BOOLEAN : BoolVal(b) \in Value
  /\ \A s \in Str : StrVal(s) \in Value /\ isString(StrVal(s))
BY DEF Value, Null, NumVal, BoolVal, StrVal, isString

LEMMA Payload ==
  ASSUME NEW v \in Value
  PROVE  /\ isNum(v) => v.num \in Num
         /\ isBool(v) => v.boolean \in BOOLEAN
         /\ isString(v) => v.str \in Str
BY DEF Value, Null, isNum, isBool, isString

LEMMA UnaryValType ==
  ASSUME NEW op \in UnaryOps, NEW v \in Value
  PROVE  UnaryVal(op, v) \in Value
<1>1. CASE isNum(v)
  <2>1. v.num \in Num
    BY <1>1, Payload
  <2>2. FNeg(v.num) \in Num
    BY <2>1, NumAssumption
  <2>3. OfInt(AsInt(~ Truthy(v.num))) \in Num
    BY NumAssumption DEF AsInt
  <2>4. UnaryVal(op, v) = NumVal(IF op = OP_NEG THEN FNeg(v.num)
                                 ELSE OfInt(AsInt(~ Truthy(v.num))))
    BY <1>1 DEF UnaryVal, isNum, isBool
  <2> QED BY <2>2, <2>3, <2>4, ValueKinds
<1>2. CASE ~ isNum(v) /\ isBool(v)
  BY <1>2, Payload, ValueKinds DEF UnaryVal
<1>3. CASE ~ isNum(v) /\ ~ isBool(v)
  BY <1>3 DEF UnaryVal
<1> QED BY <1>1, <1>2, <1>3

LEMMA BinaryValType ==
  ASSUME NEW op \in BinaryOps, NEW A \in Value, NEW B \in Value
  PROVE  BinaryVal(op, A, B) \in Value
<1>1. CASE isNum(A) /\ isNum(B) /\ op \in ArithOps
  BY <1>1, Payload, NumAssumption, ValueKinds DEF BinaryVal
<1>2. CASE isNum(A) /\ isNum(B) /\ op = OP_CMP
  <2>1. FEq(A.num, B.num) \in BOOLEAN
    BY <1>2, Payload, NumAssumption
  <2>2. op \notin ArithOps
    BY <1>2 DEF ArithOps, OP_ADD, OP_SUB, OP_MULT, OP_DIV, OP_CMP
  <2> QED BY <1>2, <2>1, <2>2, ValueKinds DEF BinaryVal
<1>3. CASE ~ (isNum(A) /\ isNum(B)) /\ op \in ArithOps
  <2>1. BoolArith(op, asBool(A), asBool(B)) \in -1 .. 2
    BY <1>3 DEF BoolArith, AsInt, ArithOps, OP_ADD, OP_SUB, OP_MULT, OP_DIV
  <2> QED BY <1>3, <2>1, NumAssumption, ValueKinds DEF BinaryVal
<1>4. CASE /\ op \notin ArithOps
           /\ ~ (isNum(A) /\ isNum(B) /\ op = OP_CMP)
  <2>1. asBool(A) \in BOOLEAN /\ asBool(B) \in BOOLEAN
    BY DEF asBool
  <2>2. op \in {OP_AND, OP_OR, OP_CMP}
    BY <1>4 DEF BinaryOps
  <2>3. BoolLogic(op, asBool(A), asBool(B)) \in BOOLEAN
    BY <2>1, <2>2 DEF BoolLogic, OP_AND, OP_OR, OP_CMP
  <2> QED BY <1>4, <2>3, ValueKinds DEF BinaryVal
<1> QED BY <1>1, <1>2, <1>3, <1>4

-----------------------------------------------------------------------------
\* The methods of Chunk keep the chunk well formed.

LEMMA OpcodeFacts ==
  /\ OpCode \subseteq Nat
  /\ OP_RET \in OpCode /\ ~ TakesOperand(OP_RET)
  /\ OP_EOF \in OpCode /\ ~ TakesOperand(OP_EOF)
  /\ OP_POP \in OpCode /\ ~ TakesOperand(OP_POP)
  /\ \A op \in BinaryOps \cup UnaryOps \cup {OP_NOP, OP_PRINT} :
       op \in OpCode /\ ~ TakesOperand(op)
  /\ \A op \in DefineOps \cup {OP_CONST} : op \in OpCode /\ TakesOperand(op)
BY DEF OpCode, TakesOperand, DefineOps, BinaryOps, UnaryOps, ArithOps, OP_NOP,
  OP_CONST, OP_POP, OP_NOT, OP_NEG, OP_ADD, OP_SUB, OP_MULT, OP_DIV, OP_OR,
  OP_AND, OP_CMP, OP_PRINT, OP_DEFINE_GLOBAL, OP_DEFINE_LOCAL, OP_RET, OP_EOF

\* Appending words to the stream leaves the words before them alone.
LEMMA CodeAppend ==
  ASSUME NEW c \in Seq(Nat), NEW w \in Seq(Nat)
  PROVE  /\ c \o w \in Seq(Nat)
         /\ Len(c) \in Nat /\ Len(w) \in Nat
         /\ Len(c \o w) = Len(c) + Len(w)
         /\ DOMAIN c = 1 .. Len(c)
         /\ DOMAIN (c \o w) = 1 .. Len(c) + Len(w)
         /\ \A p \in 1 .. Len(c) : (c \o w)[p] = c[p]
         /\ \A p \in 1 .. Len(w) : (c \o w)[Len(c) + p] = w[p]
<1>1. Len(c) \in Nat /\ Len(w) \in Nat /\ DOMAIN c = 1 .. Len(c)
  BY LenProperties
<1>2. c \o w \in Seq(Nat) /\ Len(c \o w) = Len(c) + Len(w)
  BY ConcatProperties
<1>3. DOMAIN (c \o w) = 1 .. Len(c) + Len(w)
  BY <1>2, LenProperties
<1>4. \A i \in 1 .. Len(c) + Len(w) :
        (c \o w)[i] = IF i <= Len(c) THEN c[i] ELSE w[i - Len(c)]
  BY ConcatProperties
<1>5. \A p \in 1 .. Len(c) : (c \o w)[p] = c[p]
  BY <1>1, <1>4
<1>6. \A p \in 1 .. Len(w) : (c \o w)[Len(c) + p] = w[p]
  BY <1>1, <1>4
<1> QED BY <1>1, <1>2, <1>3, <1>5, <1>6

\* An opcode without operand, appended.
LEMMA PlainOpWellFormed ==
  ASSUME ChunkInv, NEW op \in OpCode, ~ TakesOperand(op),
         code' = code \o <<op>>,
         starts' = starts \cup {Len(code) + 1},
         constants' = constants
  PROVE  ChunkInv'
<1> USE DEF ChunkInv
<1> DEFINE n == Len(code)
<1>1. code \in Seq(Nat) /\ <<op>> \in Seq(Nat) /\ Len(<<op>>) = 1 /\ <<op>>[1] = op
  BY OpcodeFacts DEF ChunkTypeOK
<1>2. /\ n \in Nat
      /\ DOMAIN code = 1 .. n
      /\ code' \in Seq(Nat)
      /\ Len(code') = n + 1
      /\ DOMAIN code' = 1 .. n + 1
      /\ \A p \in 1 .. n : code'[p] = code[p]
      /\ code'[n + 1] = op
  BY <1>1, CodeAppend
<1>3. starts \subseteq 1 .. n
  BY <1>2 DEF ChunkTypeOK
<1> HIDE DEF n
<1>4. ChunkTypeOK'
  BY <1>2, <1>3 DEF ChunkTypeOK, n
<1>5. WellFormed'
  <2>1. (1 \in starts \cup {Len(code) + 1})'
    BY <1>2, <1>3 DEF WellFormed, n
  <2>2. ASSUME NEW p \in starts'
        PROVE  (/\ code[p] \in OpCode
                /\ IF TakesOperand(code[p])
                   THEN /\ p + 1 \in DOMAIN code \ starts
                        /\ p + 2 \in starts \cup {Len(code) + 1}
                        /\ code[p + 1] < Len(constants)
                        /\ code[p] \in DefineOps =>
                             isString(constants[code[p + 1] + 1])
                   ELSE p + 1 \in starts \cup {Len(code) + 1})'
    <3>1. CASE p = n + 1
      BY <1>2, <3>1
    <3>2. CASE p \in starts
      BY <1>2, <1>3, <3>2 DEF WellFormed, n
    <3> QED BY <3>1, <3>2 DEF n
  <2> QED BY <2>1, <2>2 DEF WellFormed
<1> QED BY <1>4, <1>5

\* An instruction with its operand, and the constant it names.
LEMMA ConstOpWellFormed ==
  ASSUME ChunkInv, ~ PoolFull,
         NEW op \in DefineOps \cup {OP_CONST}, NEW val \in Value,
         op \in DefineOps => isString(val),
         addOpWithConst(op, val)
  PROVE  ChunkInv'
<1> USE DEF ChunkInv
<1> DEFINE n == Len(code)
           k == Len(constants)
<1>1. op \in OpCode /\ op \in Nat /\ TakesOperand(op)
  BY OpcodeFacts
<1>2. /\ k \in Nat
      /\ k < MaxConst
      /\ constants' \in Seq(Value)
      /\ Len(constants') = k + 1
      /\ \A i \in 1 .. k : constants'[i] = constants[i]
      /\ constants'[k + 1] = val
  BY AppendProperties, LenProperties, MaxConstAssumption
     DEF ChunkTypeOK, addOpWithConst, PoolFull
<1>3. code \in Seq(Nat) /\ <<op, k>> \in Seq(Nat) /\ Len(<<op, k>>) = 2
      /\ <<op, k>>[1] = op /\ <<op, k>>[2] = k
  BY <1>1, <1>2 DEF ChunkTypeOK
<1>4. /\ n \in Nat
      /\ DOMAIN code = 1 .. n
      /\ code' \in Seq(Nat)
      /\ Len(code') = n + 2
      /\ DOMAIN code' = 1 .. n + 2
      /\ \A p \in 1 .. n : code'[p] = code[p]
      /\ code'[n + 1] = op
      /\ code'[n + 2] = k
  <2>1. code' = code \o <<op, k>>
    BY DEF addOpWithConst
  <2> QED BY <1>3, <2>1, CodeAppend
<1>5. starts \subseteq 1 .. n /\ starts' = starts \cup {n + 1}
  BY <1>4 DEF ChunkTypeOK, addOpWithConst
<1> HIDE DEF n, k
<1>6. ChunkTypeOK'
  BY <1>2, <1>4, <1>5, MaxConstAssumption DEF ChunkTypeOK
<1>7. WellFormed'
  <2>1. (1 \in starts \cup {Len(code) + 1})'
    BY <1>4, <1>5 DEF WellFormed, n
  <2>2. ASSUME NEW p \in starts'
        PROVE  (/\ code[p] \in OpCode
                /\ IF TakesOperand(code[p])
                   THEN /\ p + 1 \in DOMAIN code \ starts
                        /\ p + 2 \in starts \cup {Len(code) + 1}
                        /\ code[p + 1] < Len(constants)
                        /\ code[p] \in DefineOps =>
                             isString(constants[code[p + 1] + 1])
                   ELSE p + 1 \in starts \cup {Len(code) + 1})'
    <3>1. CASE p = n + 1
      BY <1>1, <1>2, <1>4, <1>5, <3>1
    <3>2. CASE p \in starts
      <4>1. p \in 1 .. n /\ code'[p] = code[p] /\ code[p] \in OpCode
        BY <1>4, <1>5, <3>2 DEF WellFormed
      <4>2. CASE TakesOperand(code[p])
        <5>1. /\ p + 1 \in DOMAIN code \ starts
              /\ p + 2 \in starts \cup {n + 1}
              /\ code[p + 1] < k
              /\ code[p] \in DefineOps => isString(constants[code[p + 1] + 1])
          BY <3>2, <4>2 DEF WellFormed, n, k
        <5>2. p + 1 \in 1 .. n /\ code'[p + 1] = code[p + 1] /\ p + 1 # n + 1
          BY <1>4, <5>1
        <5>3. code[p + 1] \in Nat /\ code[p + 1] + 1 \in 1 .. k
          BY <1>2, <1>3, <5>1, <5>2, ElementOfSeq DEF n
        <5>4. constants'[code[p + 1] + 1] = constants[code[p + 1] + 1]
          BY <1>2, <5>3
        <5> QED BY <1>2, <1>4, <1>5, <4>1, <4>2, <5>1, <5>2, <5>3, <5>4
      <4>3. CASE ~ TakesOperand(code[p])
        BY <1>4, <1>5, <3>2, <4>1, <4>3 DEF WellFormed, n
      <4> QED BY <4>2, <4>3
    <3> QED BY <1>5, <3>1, <3>2
  <2> QED BY <2>1, <2>2 DEF WellFormed
<1> QED BY <1>6, <1>7

LEMMA AddOpWellFormed ==
  ASSUME ChunkInv, NEW op \in OpCode, ~ TakesOperand(op), addOp(op)
  PROVE  ChunkInv'
<1>1. Append(code, op) = code \o <<op>>
  <2>1. code \in Seq(Nat) /\ op \in Nat
    BY OpcodeFacts DEF ChunkInv, ChunkTypeOK
  <2> QED BY <2>1, AppendIsConcat
<1> QED BY <1>1, PlainOpWellFormed DEF addOp

\* finalize() keeps the instructions there are and, when it adds RET and EOF,
\* keeps the chunk well formed.
LEMMA FinalizeWellFormed ==
  ASSUME ChunkInv, finalize
  PROVE  /\ ChunkInv'
         /\ Len(code') >= 1
         /\ Len(code) <= Len(code')
<1> USE DEF ChunkInv
<1> DEFINE n == Len(code)
<1>1. code \in Seq(Nat) /\ n \in Nat \ {0} /\ DOMAIN code = 1 .. n
      /\ starts \subseteq 1 .. n
  BY EmptySeq, LenProperties DEF ChunkTypeOK, finalize
<1>2. CASE code[Len(code)] = OP_EOF
  <2>1. UNCHANGED chunkVars
    BY <1>2 DEF finalize, chunkVars
  <2> QED BY <1>1, <2>1 DEF ChunkTypeOK, WellFormed, chunkVars
<1>3. CASE code[Len(code)] # OP_EOF
  <2>1. /\ <<OP_RET, OP_EOF>> \in Seq(Nat)
        /\ Len(<<OP_RET, OP_EOF>>) = 2
        /\ <<OP_RET, OP_EOF>>[1] = OP_RET
        /\ <<OP_RET, OP_EOF>>[2] = OP_EOF
    BY DEF OP_RET, OP_EOF
  <2>2. /\ code' = code \o <<OP_RET, OP_EOF>>
        /\ starts' = starts \cup {n + 1, n + 2}
        /\ constants' = constants
    BY <1>3 DEF finalize
  <2>3. /\ code' \in Seq(Nat)
        /\ Len(code') = n + 2
        /\ DOMAIN code' = 1 .. n + 2
        /\ \A p \in 1 .. n : code'[p] = code[p]
        /\ code'[n + 1] = OP_RET
        /\ code'[n + 2] = OP_EOF
    BY <1>1, <2>1, <2>2, CodeAppend
  <2>4. WellFormed
    OBVIOUS
  <2> HIDE DEF n
  <2>5. ChunkTypeOK'
    BY <1>1, <2>2, <2>3 DEF ChunkTypeOK
  <2>6. WellFormed'
    <3>1. (1 \in starts \cup {Len(code) + 1})'
      BY <1>1, <2>2, <2>4 DEF WellFormed, n
    <3>2. ASSUME NEW p \in starts'
          PROVE  (/\ code[p] \in OpCode
                  /\ IF TakesOperand(code[p])
                     THEN /\ p + 1 \in DOMAIN code \ starts
                          /\ p + 2 \in starts \cup {Len(code) + 1}
                          /\ code[p + 1] < Len(constants)
                          /\ code[p] \in DefineOps =>
                               isString(constants[code[p + 1] + 1])
                     ELSE p + 1 \in starts \cup {Len(code) + 1})'
      <4>1. CASE p \in {n + 1, n + 2}
        BY <1>1, <2>2, <2>3, <4>1, OpcodeFacts
      <4>2. CASE p \in starts
        BY <1>1, <2>2, <2>3, <4>2 DEF WellFormed, n
      <4> QED BY <2>2, <4>1, <4>2
    <3> QED BY <3>1, <3>2 DEF WellFormed
  <2> QED BY <1>1, <2>3, <2>5, <2>6
<1> QED BY <1>2, <1>3

-----------------------------------------------------------------------------
\* The steps of the VM.

LEMMA PutType ==
  ASSUME NEW map \in VarFrame, NEW name \in Str, NEW val \in Value
  PROVE  Put(map, name, val) \in VarFrame
<1>1. PICK names \in SUBSET Str : map \in [names -> Value]
  BY DEF VarFrame
<1>2. Put(map, name, val) \in [names \cup {name} -> Value]
  BY <1>1 DEF Put
<1>3. names \cup {name} \in SUBSET Str
  OBVIOUS
<1> QED BY <1>2, <1>3 DEF VarFrame

\* Assigning to an element that an empty sequence does not have.
LEMMA EmptyExcept ==
  ASSUME NEW i, NEW e
  PROVE  [<< >> EXCEPT ![i] = e] = << >>
BY Z3

LEMMA NoVarsType == NoVars \in VarFrame
<1>1. NoVars \in [{} -> Value]
  BY DEF NoVars
<1> QED BY <1>1 DEF VarFrame

\* What list() and exec() find at ip is an instruction, with its operand.
LEMMA Decode ==
  ASSUME VMInv, status \in {"listing", "running"}, ip <= Len(code)
  PROVE  /\ code[ip] \in OpCode
         /\ ~ TakesOperand(code[ip]) => ip + 1 \in starts \cup {Len(code) + 1}
         /\ TakesOperand(code[ip]) =>
              /\ ip + 2 \in starts \cup {Len(code) + 1}
              /\ Operand < Len(constants)
              /\ constants[Operand + 1] \in Value
              /\ code[ip] \in DefineOps => isString(constants[Operand + 1])
<1>1. /\ code \in Seq(Nat) /\ constants \in Seq(Value)
      /\ Len(code) \in Nat /\ Len(constants) \in Nat
      /\ DOMAIN code = 1 .. Len(code)
      /\ ip \in 1 .. Len(code)
  BY LenProperties DEF VMInv, VMTypeOK, ChunkTypeOK
<1>2. ip \in starts
  BY <1>1 DEF VMInv, Aligned
<1>3. ASSUME TakesOperand(code[ip])
      PROVE  constants[Operand + 1] \in Value
  <2>1. ip + 1 \in 1 .. Len(code) /\ code[ip + 1] < Len(constants)
    BY <1>1, <1>2, <1>3 DEF VMInv, WellFormed
  <2>2. code[ip + 1] \in Nat
    BY <1>1, <2>1, ElementOfSeq
  <2>3. code[ip + 1] + 1 \in 1 .. Len(constants)
    BY <1>1, <2>1, <2>2
  <2> QED BY <1>1, <2>3, ElementOfSeq DEF Operand
<1> QED BY <1>2, <1>3 DEF VMInv, WellFormed, Operand

LEMMA DieInv ==
  ASSUME VMInv, NEW how \in Died \ {"ABORT_CONST", "ABORT_NAME"}, Die(how)
  PROVE  VMInv'
BY DEF VMInv, VMTypeOK, ChunkTypeOK, WellFormed, Aligned, NoBadOperand, Die,
  chunkVars, execVars, Died, VMStatus

\* A step that leaves the chunk alone and ends at an instruction, or returns.
LEMMA ChunkKept ==
  ASSUME VMInv, UNCHANGED chunkVars,
         status' \in {"listing", "running"} =>
           ip' \in starts \cup {Len(code) + 1},
         status' \in VMStatus \ {"ABORT_CONST", "ABORT_NAME"},
         ip' \in starts \cup {ip, 1, Len(code) + 1},
         stack' \in Seq(Value), icount' \in 0 .. MaxIcount,
         globals' \in VarFrame, localvar_stack' \in Seq(VarFrame),
         printed' \in Seq(Value)
  PROVE  VMInv'
<1>1. /\ code' = code /\ constants' = constants /\ starts' = starts
  BY DEF chunkVars
<1>2. Len(code) \in Nat /\ DOMAIN code = 1 .. Len(code) /\ starts \subseteq DOMAIN code
  BY LenProperties DEF VMInv, VMTypeOK, ChunkTypeOK
<1>3. ip' \in 1 .. Len(code) + 1
  BY <1>2 DEF VMInv, VMTypeOK
<1>4. VMTypeOK'
  BY <1>1, <1>3 DEF VMInv, VMTypeOK, ChunkTypeOK
<1>5. WellFormed'
  BY <1>1 DEF VMInv, WellFormed
<1>6. Aligned' /\ NoBadOperand'
  BY <1>1 DEF Aligned, NoBadOperand
<1> QED BY <1>4, <1>5, <1>6 DEF VMInv

LEMMA RetireInv ==
  ASSUME VMInv, status = "running", icount < MaxIcount, UNCHANGED chunkVars,
         NEW length, NEW newStack \in Seq(Value),
         NEW next \in {"running"} \cup Returned,
         ip + length \in starts \cup {Len(code) + 1},
         Retire(length, newStack, next),
         globals' \in VarFrame, localvar_stack' \in Seq(VarFrame),
         printed' \in Seq(Value)
  PROVE  VMInv'
<1>1. status' \in VMStatus \ {"ABORT_CONST", "ABORT_NAME", "listing"}
  BY DEF Retire, PrintOp, VMStatus, Returned, Died
<1>2. icount' \in 0 .. MaxIcount
  BY MaxIcountAssumption DEF Retire, VMInv, VMTypeOK
<1> QED BY <1>1, <1>2, ChunkKept DEF Retire

\* exec(), one opcode at a time.
LEMMA ExecInv ==
  ASSUME VMInv, Exec
  PROVE  VMInv'
<1> USE DEF Fetch
<1>0. /\ stack \in Seq(Value) /\ globals \in VarFrame
      /\ localvar_stack \in Seq(VarFrame) /\ printed \in Seq(Value)
  BY DEF VMInv, VMTypeOK
<1>1. CASE ExecNop
  <2>1. ip + 1 \in starts \cup {Len(code) + 1}
    BY <1>1, Decode, OpcodeFacts DEF ExecNop
  <2> QED BY <1>0, <1>1, <2>1, RetireInv DEF ExecNop
<1>2. CASE ExecConst
  <2>1. /\ Operand < Len(constants)
        /\ constants[Operand + 1] \in Value
        /\ ip + 2 \in starts \cup {Len(code) + 1}
    BY <1>2, Decode, OpcodeFacts DEF ExecConst
  <2>2. Append(stack, constants[Operand + 1]) \in Seq(Value)
    BY <1>0, <2>1, AppendProperties
  <2> QED BY <1>0, <1>2, <2>1, <2>2, RetireInv DEF ExecConst, Require
<1>3. CASE ExecUnary
  <2>1. ip + 1 \in starts \cup {Len(code) + 1} /\ code[ip] \in UnaryOps
    BY <1>3, Decode, OpcodeFacts DEF ExecUnary
  <2> DEFINE after == IF stack = << >> THEN << >>
                      ELSE [stack EXCEPT ![Len(stack)] = UnaryVal(code[ip], @)]
  <2>2. after \in Seq(Value)
    <3>1. CASE stack = << >>
      BY <1>0, <3>1
    <3>2. CASE stack # << >>
      <4>1. Len(stack) \in 1 .. Len(stack) /\ stack[Len(stack)] \in Value
        BY <1>0, <3>2, EmptySeq, ElementOfSeq
      <4>2. UnaryVal(code[ip], stack[Len(stack)]) \in Value
        BY <2>1, <4>1, UnaryValType
      <4>3. [stack EXCEPT ![Len(stack)] =
               UnaryVal(code[ip], stack[Len(stack)])] \in Seq(Value)
        BY <1>0, <4>1, <4>2, ExceptSeq
      <4> QED BY <3>2, <4>3
    <3> QED BY <3>1, <3>2
  <2>3. Retire(1, after, "running")
    BY <1>3 DEF ExecUnary
  <2> HIDE DEF after
  <2> QED BY <1>0, <1>3, <2>1, <2>2, <2>3, RetireInv DEF ExecUnary
<1>4. CASE ExecBinary
  <2>1. ip + 1 \in starts \cup {Len(code) + 1} /\ code[ip] \in BinaryOps
    BY <1>4, Decode, OpcodeFacts DEF ExecBinary
  <2>2. CASE Len(stack) < 2
    <3>1. Len(stack) \in Nat
      BY <1>0, LenProperties
    <3>2. Die("ABORT_POP")
      BY <1>4, <2>2, <3>1 DEF ExecBinary, Require
    <3> QED BY <3>2, DieInv DEF Died
  <2>3. CASE Len(stack) >= 2
    <3> DEFINE B    == Last(stack)
               A    == Last(Front(stack))
               rest == Front(Front(stack))
    <3>1. stack # << >>
      BY <1>0, <2>3, EmptySeq
    <3>2. Front(stack) \in Seq(Value) /\ Len(Front(stack)) = Len(stack) - 1
          /\ B \in Value
      BY <1>0, <3>1, FrontLast
    <3>3. Len(stack) \in Nat
      BY <1>0, LenProperties
    <3>4. Front(stack) # << >>
      BY <2>3, <3>2, <3>3, EmptySeq
    <3>5. rest \in Seq(Value) /\ A \in Value
      BY <3>2, <3>4, FrontLast
    <3>6. Append(rest, BinaryVal(code[ip], A, B)) \in Seq(Value)
      BY <2>1, <3>2, <3>5, BinaryValType, AppendProperties
    <3>7. \/ /\ Retire(1, Append(rest, BinaryVal(code[ip], A, B)), "running")
             /\ UNCHANGED <<chunkVars, globals, localvar_stack, printed>>
          \/ Die("SIGFPE")
      BY <1>4, <2>3, <3>3 DEF ExecBinary, Require
    <3> HIDE DEF A, B, rest
    <3>8. CASE Die("SIGFPE")
      BY <3>8, DieInv DEF Died
    <3>9. CASE /\ Retire(1, Append(rest, BinaryVal(code[ip], A, B)), "running")
               /\ UNCHANGED <<chunkVars, globals, localvar_stack, printed>>
      BY <1>0, <1>4, <2>1, <3>6, <3>9, RetireInv DEF ExecBinary
    <3> QED BY <3>7, <3>8, <3>9
  <2>4. Len(stack) \in Nat
    BY <1>0, LenProperties
  <2> QED BY <2>2, <2>3, <2>4
<1>5. CASE ExecPrint
  <2>1. ip + 1 \in starts \cup {Len(code) + 1}
    BY <1>5, Decode, OpcodeFacts DEF ExecPrint
  <2>2. CASE stack = << >>
    BY <1>5, <2>2, DieInv DEF ExecPrint, Require, Died
  <2>3. CASE stack # << >>
    <3>1. Front(stack) \in Seq(Value) /\ Last(stack) \in Value
      BY <1>0, <2>3, FrontLast
    <3>2. printed' \in Seq(Value)
      <4>1. printed' = Append(printed, Last(stack))
        BY <1>5, <2>3 DEF ExecPrint, Require
      <4> QED BY <1>0, <3>1, <4>1, AppendProperties
    <3> QED BY <1>0, <1>5, <2>1, <2>3, <3>1, <3>2, RetireInv
            DEF ExecPrint, Require
  <2> QED BY <2>2, <2>3
<1>6. CASE ExecPop
  <2>1. ip + 1 \in starts \cup {Len(code) + 1}
    BY <1>6, Decode, OpcodeFacts DEF ExecPop
  <2>2. CASE stack = << >>
    BY <1>6, <2>2, DieInv DEF ExecPop, Require, Died
  <2>3. CASE stack # << >>
    <3>1. Front(stack) \in Seq(Value)
      BY <1>0, <2>3, FrontLast
    <3> QED BY <1>0, <1>6, <2>1, <2>3, <3>1, RetireInv
            DEF ExecPop, Require, Returned
  <2> QED BY <2>2, <2>3
<1>7. CASE ExecRet
  <2>1. ip + 1 \in starts \cup {Len(code) + 1}
    BY <1>7, Decode, OpcodeFacts DEF ExecRet
  <2> QED BY <1>0, <1>7, <2>1, RetireInv DEF ExecRet, Returned
<1>8. CASE ExecEof
  <2>1. ip + 1 \in starts \cup {Len(code) + 1}
    BY <1>8, Decode, OpcodeFacts DEF ExecEof
  <2> QED BY <1>0, <1>8, <2>1, RetireInv DEF ExecEof, Returned
<1>9. CASE ExecDefine
  <2>1. /\ Operand < Len(constants)
        /\ constants[Operand + 1] \in Value
        /\ isString(constants[Operand + 1])
        /\ ip + 2 \in starts \cup {Len(code) + 1}
    BY <1>9, Decode, OpcodeFacts DEF ExecDefine
  <2>2. CASE stack = << >>
    BY <1>9, <2>1, <2>2, DieInv DEF ExecDefine, Require, Died
  <2>3. CASE stack # << >>
    <3> DEFINE name == constants[Operand + 1].str
    <3>1. Front(stack) \in Seq(Value) /\ Last(stack) \in Value
      BY <1>0, <2>3, FrontLast
    <3>2. name \in Str
      BY <2>1, Payload
    <3>3. Define(name)
      BY <1>9, <2>1, <2>3 DEF ExecDefine, Require
    <3> HIDE DEF name
    <3>4. globals' \in VarFrame
      BY <1>0, <3>1, <3>2, <3>3, PutType DEF Define
    <3>5. localvar_stack' \in Seq(VarFrame)
      <4>1. \/ localvar_stack' = localvar_stack
            \/ localvar_stack' =
                 [localvar_stack EXCEPT ![Len(localvar_stack)] =
                    Put(@, name, Last(stack))]
        BY <3>3 DEF Define
      <4>2. CASE localvar_stack = << >>
        BY <1>0, <4>1, <4>2, EmptyExcept
      <4>3. CASE localvar_stack # << >>
        <5>1. /\ Len(localvar_stack) \in 1 .. Len(localvar_stack)
              /\ localvar_stack[Len(localvar_stack)] \in VarFrame
          BY <1>0, <4>3, EmptySeq, ElementOfSeq
        <5>2. Put(localvar_stack[Len(localvar_stack)], name, Last(stack))
                \in VarFrame
          BY <3>1, <3>2, <5>1, PutType
        <5>3. [localvar_stack EXCEPT ![Len(localvar_stack)] =
                 Put(localvar_stack[Len(localvar_stack)], name, Last(stack))]
                 \in Seq(VarFrame)
          BY <1>0, <5>1, <5>2, ExceptSeq
        <5> QED BY <1>0, <4>1, <5>3
      <4> QED BY <4>2, <4>3
    <3>6. Retire(2, Front(stack), "OK") /\ UNCHANGED <<chunkVars, printed>>
      BY <3>3 DEF Define
    <3> QED BY <1>0, <1>9, <2>1, <3>1, <3>4, <3>5, <3>6, RetireInv
            DEF ExecDefine, Returned
  <2> QED BY <2>2, <2>3
<1>10. CASE ExecStop
  BY <1>0, <1>10, ChunkKept
     DEF ExecStop, VMInv, VMTypeOK, VMStatus, Returned, Died, execVars
<1> QED BY <1>1, <1>2, <1>3, <1>4, <1>5, <1>6, <1>7, <1>8, <1>9, <1>10 DEF Exec

LEMMA ConstructInv ==
  ASSUME VMInv, Construct
  PROVE  VMInv'
<1>1. CASE code = << >>
  BY <1>1, DieInv DEF Construct, Require, Died
<1>2. CASE code # << >>
  <2>1. /\ finalize
        /\ status' = "listing"
        /\ ip' = 1
        /\ UNCHANGED <<stack, icount, globals, localvar_stack, printed>>
    BY <1>2 DEF Construct, Require
  <2>2. ChunkInv' /\ Len(code') >= 1
    BY <2>1, FinalizeWellFormed DEF VMInv, VMTypeOK, ChunkInv
  <2>3. Len(code') \in Nat
    BY <2>2, LenProperties DEF ChunkInv, ChunkTypeOK
  <2>4. VMTypeOK'
    BY <2>1, <2>2, <2>3 DEF VMInv, VMTypeOK, ChunkInv, VMStatus
  <2>5. Aligned' /\ NoBadOperand'
    BY <2>1, <2>2 DEF Aligned, NoBadOperand, ChunkInv, WellFormed
  <2> QED BY <2>2, <2>4, <2>5 DEF VMInv, ChunkInv
<1> QED BY <1>1, <1>2

LEMMA ListInstrInv ==
  ASSUME VMInv, ListInstr
  PROVE  VMInv'
<1>1. /\ TakesOperand(code[ip]) =>
           /\ ip + 2 \in starts \cup {Len(code) + 1}
           /\ Operand < Len(constants)
      /\ ~ TakesOperand(code[ip]) => ip + 1 \in starts \cup {Len(code) + 1}
  BY Decode DEF ListInstr
<1>2. /\ ip' \in starts \cup {Len(code) + 1}
      /\ UNCHANGED <<chunkVars, status, stack, icount, globals,
                     localvar_stack, printed>>
  BY <1>1 DEF ListInstr, Require
<1>3. status' \in VMStatus \ {"ABORT_CONST", "ABORT_NAME"}
  BY <1>2 DEF ListInstr, VMStatus
<1> QED BY <1>2, <1>3, ChunkKept DEF VMInv, VMTypeOK

LEMMA StartExecInv ==
  ASSUME VMInv, StartExec
  PROVE  VMInv'
<1>1. <<Null>> \in Seq(Value)
  BY ValueKinds
<1>2. <<NoVars>> \in Seq(VarFrame) /\ NoVars \in VarFrame
  BY NoVarsType
<1>3. 1 \in starts \cup {Len(code) + 1}
  BY DEF VMInv, WellFormed
<1>4. 0 \in 0 .. MaxIcount
  BY MaxIcountAssumption
<1> QED BY <1>1, <1>2, <1>3, <1>4, ChunkKept
        DEF StartExec, VMInv, VMTypeOK, VMStatus

\* Every step of the VM.
LEMMA VMStepInv ==
  ASSUME VMInv, Construct \/ VMNext
  PROVE  VMInv'
BY ConstructInv, ListInstrInv, StartExecInv, ExecInv DEF VMNext

\* The VM of a process that has just started.
LEMMA NoVMInv ==
  ASSUME NoVM, status \in {"idle", "building"}, printed = << >>
  PROVE  VMInv
<1>1. << >> \in Seq(Value) /\ << >> \in Seq(VarFrame) /\ << >> \in Seq(Nat)
  OBVIOUS
<1>2. NoVars \in VarFrame
  BY NoVarsType
<1>3. 0 \in 0 .. MaxIcount /\ MaxConst >= 0
  BY MaxIcountAssumption, MaxConstAssumption
<1>4. Len(<< >>) = 0 /\ DOMAIN << >> = {}
  OBVIOUS
<1> QED BY <1>1, <1>2, <1>3
        DEF NoVM, EmptyChunk, VMInv, VMTypeOK, ChunkTypeOK, WellFormed, Aligned,
            NoBadOperand, VMStatus

\* A client's step on the chunk.
LEMMA BuilderInv ==
  ASSUME VMInv, status = "building", status' = status, UNCHANGED execVars,
         ChunkInv', Len(code) <= Len(code')
  PROVE  VMInv'
<1>1. Len(code) \in Nat /\ Len(code') \in Nat
  BY LenProperties DEF VMInv, VMTypeOK, ChunkInv, ChunkTypeOK
<1>2. VMTypeOK'
  BY <1>1 DEF VMInv, VMTypeOK, ChunkInv, execVars
<1> QED BY <1>2 DEF VMInv, ChunkInv, Aligned, NoBadOperand

\* A stuttering step.
LEMMA Unchanged ==
  ASSUME VMInv, UNCHANGED vmVars
  PROVE  VMInv'
BY DEF VMInv, VMTypeOK, ChunkTypeOK, WellFormed, Aligned, NoBadOperand, vmVars,
  chunkVars, execVars

-----------------------------------------------------------------------------
\* Why exec() does not run off the chunk: the last word is OP_EOF, and where
\* it was meant as one, the loop returns there.

EofInv ==
  /\ status \in {"listing", "running"} =>
       code # << >> /\ code[Len(code)] = OP_EOF
  /\ status = "running" /\ ip = Len(code) + 1 => Len(code) \notin starts
  /\ LoopEndsByBudget

\* A step of exec() that keeps running has not executed an OP_EOF.
LEMMA RetireEof ==
  ASSUME VMInv, EofInv, status = "running", ip <= Len(code),
         UNCHANGED chunkVars, NEW length \in {1, 2},
         length = 1 => code[ip] # OP_EOF \/ status' # "running",
         length = 2 => ip + 1 \notin starts,
         NEW newStack,
         NEW next \in {"running", "OK", "ERR"},
         Retire(length, newStack, next)
  PROVE  EofInv'
<1>1. code' = code /\ starts' = starts /\ ip' = ip + length
  BY DEF chunkVars, Retire
<1>2. status' \in {"running", "OK", "ERR", "CRASH"}
  BY DEF Retire, PrintOp
<1>3. ip \in 1 .. Len(code) /\ Len(code) \in Nat
  BY LenProperties DEF VMInv, VMTypeOK, ChunkTypeOK
<1>4. (status = "running" /\ ip = Len(code) + 1 => Len(code) \notin starts)'
  BY <1>1, <1>3 DEF EofInv
<1> QED BY <1>1, <1>2, <1>4 DEF EofInv, LoopEndsByBudget

LEMMA ExecEofInv ==
  ASSUME VMInv, EofInv, Exec
  PROVE  EofInv'
<1> USE DEF Fetch
<1>0. OP_EOF \notin BinaryOps \cup UnaryOps \cup DefineOps
                    \cup {OP_NOP, OP_CONST, OP_PRINT, OP_POP, OP_RET}
  BY DEF DefineOps, BinaryOps, UnaryOps, ArithOps, OP_NOP, OP_CONST, OP_POP,
    OP_NOT, OP_NEG, OP_ADD, OP_SUB, OP_MULT, OP_DIV, OP_OR, OP_AND, OP_CMP,
    OP_PRINT, OP_DEFINE_GLOBAL, OP_DEFINE_LOCAL, OP_RET, OP_EOF
<1>d. ASSUME NEW how \in Died, Die(how)
      PROVE  EofInv'
  BY <1>d DEF Die, EofInv, LoopEndsByBudget, Died
<1>t. ASSUME ip <= Len(code), TakesOperand(code[ip]), status = "running"
      PROVE  ip + 1 \notin starts
  <2>1. ip \in starts
    BY <1>t, LenProperties DEF VMInv, VMTypeOK, ChunkTypeOK, Aligned
  <2> QED BY <1>t, <2>1 DEF VMInv, WellFormed
<1>1. CASE ExecNop
  BY <1>0, <1>1, RetireEof DEF ExecNop
<1>2. CASE ExecConst
  <2>1. ip + 1 \notin starts
    BY <1>2, <1>t, OpcodeFacts DEF ExecConst
  <2> QED BY <1>2, <1>d, <2>1, RetireEof DEF ExecConst, Require, Died
<1>3. CASE ExecUnary
  BY <1>0, <1>3, RetireEof DEF ExecUnary
<1>4. CASE ExecBinary
  BY <1>0, <1>4, <1>d, RetireEof DEF ExecBinary, Require, Died
<1>5. CASE ExecPrint
  BY <1>0, <1>5, <1>d, RetireEof DEF ExecPrint, Require, Died
<1>6. CASE ExecPop
  BY <1>0, <1>6, <1>d, RetireEof DEF ExecPop, Require, Died
<1>7. CASE ExecRet
  BY <1>0, <1>7, RetireEof DEF ExecRet
<1>8. CASE ExecEof
  <2>1. status' # "running"
    BY <1>8 DEF ExecEof, Retire, PrintOp
  <2> QED BY <1>8, <2>1, RetireEof DEF ExecEof
<1>9. CASE ExecDefine
  <2>1. ip + 1 \notin starts
    BY <1>9, <1>t, OpcodeFacts DEF ExecDefine
  <2>2. \/ \E how \in Died : Die(how)
        \/ /\ Retire(2, Front(stack), "OK")
           /\ UNCHANGED chunkVars
    BY <1>9 DEF ExecDefine, Require, Define, Died
  <2> QED BY <1>9, <1>d, <2>1, <2>2, RetireEof DEF ExecDefine
<1>10. CASE ExecStop
  <2>1. icount \in 0 .. MaxIcount /\ ip \in 1 .. Len(code) + 1 /\ Len(code) \in Nat
    BY LenProperties DEF VMInv, VMTypeOK, ChunkTypeOK
  <2>2. icount = MaxIcount \/ Len(code) \notin starts
    BY <1>10, <2>1, MaxIcountAssumption DEF ExecStop, EofInv
  <2> QED BY <1>10, <2>2
          DEF ExecStop, EofInv, LoopEndsByBudget, chunkVars, execVars
<1> QED BY <1>1, <1>2, <1>3, <1>4, <1>5, <1>6, <1>7, <1>8, <1>9, <1>10 DEF Exec

LEMMA VMStepEof ==
  ASSUME VMInv, EofInv, Construct \/ VMNext
  PROVE  EofInv'
<1>1. CASE Construct
  <2>1. CASE code = << >>
    BY <1>1, <2>1 DEF Construct, Require, Die, EofInv, LoopEndsByBudget
  <2>2. CASE code # << >>
    <3>1. finalize /\ status' = "listing"
      BY <1>1, <2>2 DEF Construct, Require
    <3>2. code' # << >> /\ code'[Len(code')] = OP_EOF
      <4>1. CASE code[Len(code)] = OP_EOF
        BY <2>2, <3>1, <4>1 DEF finalize
      <4>2. CASE code[Len(code)] # OP_EOF
        <5>1. /\ code \in Seq(Nat)
              /\ <<OP_RET, OP_EOF>> \in Seq(Nat)
              /\ Len(<<OP_RET, OP_EOF>>) = 2
              /\ <<OP_RET, OP_EOF>>[2] = OP_EOF
              /\ code' = code \o <<OP_RET, OP_EOF>>
          BY <3>1, <4>2
             DEF finalize, VMInv, VMTypeOK, ChunkTypeOK, OP_RET, OP_EOF
        <5>2. Len(code') = Len(code) + 2 /\ code'[Len(code) + 2] = OP_EOF
              /\ Len(code) \in Nat /\ code' \in Seq(Nat)
          BY <5>1, CodeAppend
        <5> QED BY <5>2, EmptySeq
      <4> QED BY <4>1, <4>2
    <3> QED BY <3>1, <3>2 DEF EofInv, LoopEndsByBudget
  <2> QED BY <2>1, <2>2
<1>2. CASE ListInstr
  BY <1>2 DEF ListInstr, Require, Die, EofInv, LoopEndsByBudget, chunkVars,
              execVars
<1>3. CASE StartExec
  <2>1. Len(code) \in Nat \ {0}
    BY <1>3, EmptySeq
       DEF StartExec, EofInv, VMInv, VMTypeOK, ChunkTypeOK
  <2> QED BY <1>3, <2>1 DEF StartExec, EofInv, LoopEndsByBudget, chunkVars
<1>4. CASE Exec
  BY <1>4, ExecEofInv
<1> QED BY <1>1, <1>2, <1>3, <1>4 DEF VMNext

-----------------------------------------------------------------------------
\* The depth of the stack is a function of the position.

DepthAt(f, p) ==
  IF p = 1 THEN 1
  ELSE f[p - 1] + (IF p - 1 \in starts THEN Effect(code[p - 1]) ELSE 0)

LEMMA DepthDef ==
  ASSUME Len(code) \in Nat
  PROVE  /\ StaticDepth = [p \in 1 .. Len(code) + 1 |-> DepthAt(StaticDepth, p)]
         /\ \A p \in 1 .. Len(code) + 1 : StaticDepth[p] \in Int
<1> DEFINE n     == Len(code) + 1
           D     == 1 .. n
           Below == [k \in D |-> {k - 1} \cap D]
           F     == [k \in D |-> [g \in [D -> Int] |-> DepthAt(g, k)]]
           Q(f)  == f = [k \in D |-> DepthAt(f, k)]
<1>1. \A k \in D : \A g \in [D -> Int] : F[k][g] = DepthAt(g, k)
  OBVIOUS
<1>2. \A op : Effect(op) \in Int
  BY DEF Effect
<1>3. ASSUME NEW k \in D, NEW g, k # 1 => g[k - 1] \in Int
      PROVE  DepthAt(g, k) \in Int
  BY <1>2, <1>3 DEF DepthAt
<1>4. \A k \in D : \A g \in [D -> Int] : DepthAt(g, k) \in Int
  <2> TAKE k \in D
  <2> TAKE g \in [D -> Int]
  <2>1. k # 1 => k - 1 \in D
    OBVIOUS
  <2> QED BY <1>3, <2>1
<1>5. ASSUME NEW k \in D, NEW g \in [D -> Int], NEW h \in [D -> Int],
             \A i \in Below[k] : g[i] = h[i]
      PROVE  DepthAt(g, k) = DepthAt(h, k)
  <2>1. k # 1 => k - 1 \in Below[k]
    OBVIOUS
  <2> QED BY <1>5, <2>1 DEF DepthAt
<1>6. n \in Nat /\ \A k \in D : Below[k] \subseteq 1 .. k - 1
  OBVIOUS
<1> HIDE DEF F, Below
<1>7. Recurses(F, Below, D, Int)
  BY <1>1, <1>4, <1>5 DEF Recurses
<1>8. Solvable(F, D, Int)
  <2>1. 0 \in Int
    OBVIOUS
  <2> HIDE DEF n
  <2>2. D = 1 .. n
    OBVIOUS
  <2> QED BY <1>6, <1>7, <2>1, <2>2, Recursion
<1>9. PICK f \in [D -> Int] : \A k \in D : f[k] = F[k][f]
  BY <1>8 DEF Solvable
<1>10. Q(f)
  BY <1>1, <1>9
<1>11. StaticDepth = CHOOSE g : Q(g)
  BY DEF StaticDepth, DepthAt
<1> HIDE DEF Q
<1>12. Q(StaticDepth)
  BY <1>10, <1>11
<1>13. StaticDepth = [k \in D |-> DepthAt(StaticDepth, k)]
  BY <1>12 DEF Q
<1> DEFINE S == {k \in D : StaticDepth[k] \in Int}
<1>14. ASSUME NEW k \in 1 .. n, \A i \in 1 .. k - 1 : i \in S
       PROVE  k \in S
  <2>1. k # 1 => k - 1 \in 1 .. k - 1
    BY <1>6
  <2> QED BY <1>3, <1>13, <1>14, <2>1
<1> HIDE DEF S
<1>15. \A k \in 1 .. n : k \in S
  <2> HIDE DEF n, D
  <2> QED BY <1>6, <1>14, IntervalInduction
<1> QED BY <1>13, <1>15 DEF S

\* An instruction changes the depth by its effect, its operand by nothing.
LEMMA DepthNext ==
  ASSUME VMInv, status = "running", ip <= Len(code)
  PROVE  /\ StaticDepth[ip] \in Int
         /\ ~ TakesOperand(code[ip]) =>
              StaticDepth[ip + 1] = StaticDepth[ip] + Effect(code[ip])
         /\ TakesOperand(code[ip]) =>
              StaticDepth[ip + 2] = StaticDepth[ip] + Effect(code[ip])
<1>1. /\ code \in Seq(Nat) /\ Len(code) \in Nat /\ DOMAIN code = 1 .. Len(code)
      /\ ip \in 1 .. Len(code)
  BY LenProperties DEF VMInv, VMTypeOK, ChunkTypeOK
<1>2. ip \in starts
  BY <1>1 DEF VMInv, Aligned
<1>3. /\ StaticDepth = [p \in 1 .. Len(code) + 1 |-> DepthAt(StaticDepth, p)]
      /\ \A p \in 1 .. Len(code) + 1 : StaticDepth[p] \in Int
  BY <1>1, DepthDef
<1>4. StaticDepth[ip + 1] = DepthAt(StaticDepth, ip + 1)
  BY <1>1, <1>3
<1>5. StaticDepth[ip + 1] = StaticDepth[ip] + Effect(code[ip])
  <2>1. ip + 1 # 1 /\ (ip + 1) - 1 = ip
    BY <1>1
  <2> QED BY <1>2, <1>4, <2>1 DEF DepthAt
<1>6. ASSUME TakesOperand(code[ip])
      PROVE  StaticDepth[ip + 2] = StaticDepth[ip + 1]
  <2>1. ip + 1 \in DOMAIN code \ starts
    BY <1>2, <1>6 DEF VMInv, WellFormed
  <2>2. /\ ip + 2 \in 1 .. Len(code) + 1 /\ ip + 2 # 1 /\ (ip + 2) - 1 = ip + 1
        /\ ip + 1 \in 1 .. Len(code) + 1
    BY <1>1, <2>1
  <2>3. StaticDepth[ip + 2] = DepthAt(StaticDepth, ip + 2)
    BY <1>3, <2>2
  <2>4. StaticDepth[ip + 1] \in Int
    BY <1>3, <2>2
  <2> QED BY <2>1, <2>2, <2>3, <2>4 DEF DepthAt
<1> QED BY <1>1, <1>3, <1>5, <1>6

LEMMA SameDepth ==
  ASSUME UNCHANGED chunkVars
  PROVE  StaticDepth' = StaticDepth
BY DEF chunkVars, StaticDepth

\* A case of exec() that goes on, and one whose pop() fails.
LEMMA DepthRetire ==
  ASSUME VMInv, DepthIsStatic, status = "running", ip <= Len(code),
         UNCHANGED chunkVars,
         NEW newStack \in Seq(Value), NEW next \in {"running", "OK", "ERR"},
         Retire(IF TakesOperand(code[ip]) THEN 2 ELSE 1, newStack, next),
         next = "running" => Len(newStack) = Len(stack) + Effect(code[ip])
  PROVE  DepthIsStatic'
<1>1. status' = next \/ status' = "CRASH"
  BY DEF Retire, PrintOp
<1>2. CASE next = "running"
  <2>1. StaticDepth' = StaticDepth
    BY SameDepth
  <2>2. Len(stack) = StaticDepth[ip]
    BY DEF DepthIsStatic
  <2>3. ip' = (IF TakesOperand(code[ip]) THEN ip + 2 ELSE ip + 1) /\ stack' = newStack
    BY DEF Retire
  <2>4. Len(stack') = StaticDepth'[ip']
    BY <1>2, <2>1, <2>2, <2>3, DepthNext
  <2> QED BY <1>1, <1>2, <2>4 DEF DepthIsStatic
<1>3. CASE next # "running"
  BY <1>1, <1>3 DEF DepthIsStatic
<1> QED BY <1>2, <1>3

LEMMA DepthPopFails ==
  ASSUME VMInv, DepthIsStatic, status = "running", Die("ABORT_POP"),
         Len(stack) < (IF code[ip] \in BinaryOps THEN 2 ELSE 1)
  PROVE  DepthIsStatic'
<1>1. /\ UNCHANGED <<code, ip, stack>> /\ UNCHANGED chunkVars
      /\ status' = "ABORT_POP"
  BY DEF Die, chunkVars, execVars
<1>2. StaticDepth' = StaticDepth
  BY <1>1, SameDepth
<1>3. StaticDepth[ip] < (IF code[ip] \in BinaryOps THEN 2 ELSE 1)
  BY DEF DepthIsStatic
<1> QED BY <1>1, <1>2, <1>3 DEF DepthIsStatic

LEMMA DepthDies ==
  ASSUME NEW how \in Died \ {"ABORT_POP"}, Die(how)
  PROVE  DepthIsStatic'
BY DEF Die, DepthIsStatic, Died

LEMMA ExecDepth ==
  ASSUME VMInv, DepthIsStatic, Exec
  PROVE  DepthIsStatic'
<1> USE DEF Fetch
<1>0. stack \in Seq(Value) /\ Len(stack) \in Nat
  BY LenProperties DEF VMInv, VMTypeOK
<1>a. ASSUME NEW op, op \in {OP_NOP, OP_POP, OP_PRINT, OP_RET, OP_EOF}
                             \cup UnaryOps \cup BinaryOps
      PROVE  ~ TakesOperand(op)
  BY <1>a DEF TakesOperand, DefineOps, BinaryOps, UnaryOps, ArithOps, OP_NOP,
     OP_CONST, OP_POP, OP_NOT, OP_NEG, OP_ADD, OP_SUB, OP_MULT, OP_DIV, OP_OR,
     OP_AND, OP_CMP, OP_PRINT, OP_DEFINE_GLOBAL, OP_DEFINE_LOCAL, OP_RET, OP_EOF
<1>b. /\ Effect(OP_CONST) = 1 /\ Effect(OP_PRINT) = -1 /\ Effect(OP_NOP) = 0
      /\ \A op \in UnaryOps : Effect(op) = 0
      /\ \A op \in BinaryOps : Effect(op) = -1
  BY DEF Effect, DefineOps, BinaryOps, UnaryOps, ArithOps, OP_NOP,
     OP_CONST, OP_POP, OP_NOT, OP_NEG, OP_ADD, OP_SUB, OP_MULT, OP_DIV, OP_OR,
     OP_AND, OP_CMP, OP_PRINT, OP_DEFINE_GLOBAL, OP_DEFINE_LOCAL
<1>c. ASSUME NEW op, op \in {OP_PRINT, OP_POP} \cup DefineOps
      PROVE  op \notin BinaryOps
  BY <1>c DEF DefineOps, BinaryOps, ArithOps, OP_POP, OP_ADD, OP_SUB, OP_MULT,
     OP_DIV, OP_OR, OP_AND, OP_CMP, OP_PRINT, OP_DEFINE_GLOBAL, OP_DEFINE_LOCAL
<1>d. stack # << >> =>
        /\ Front(stack) \in Seq(Value) /\ Len(Front(stack)) = Len(stack) - 1
        /\ Len(stack) > 0
  BY <1>0, FrontLast, EmptySeq
<1>e. stack = << >> => Len(stack) < 1
  BY <1>0
<1>1. CASE ExecNop
  <2>1. Len(stack) = Len(stack) + Effect(code[ip])
    BY <1>0, <1>1, <1>b DEF ExecNop
  <2>2. ~ TakesOperand(code[ip])
    BY <1>1, <1>a DEF ExecNop
  <2> QED BY <1>0, <1>1, <2>1, <2>2, DepthRetire DEF ExecNop
<1>2. CASE ExecConst
  <2>1. /\ Operand < Len(constants) /\ constants[Operand + 1] \in Value
        /\ TakesOperand(code[ip]) /\ code[ip] = OP_CONST
    BY <1>2, Decode, OpcodeFacts DEF ExecConst, TakesOperand
  <2>2. PICK t : t = Append(stack, constants[Operand + 1])
    OBVIOUS
  <2>3. t \in Seq(Value) /\ Len(t) = Len(stack) + 1
    BY <1>0, <2>1, <2>2, AppendProperties
  <2>4. Retire(2, t, "running") /\ UNCHANGED chunkVars
    BY <1>2, <2>1, <2>2 DEF ExecConst, Require
  <2>5. Len(t) = Len(stack) + Effect(code[ip])
    BY <1>b, <2>1, <2>3
  <2> QED BY <1>2, <2>1, <2>3, <2>4, <2>5, DepthRetire DEF ExecConst
<1>3. CASE ExecUnary
  <2>1. ~ TakesOperand(code[ip]) /\ Effect(code[ip]) = 0
    BY <1>3, <1>a, <1>b DEF ExecUnary
  <2>2. PICK t : /\ t = IF stack = << >> THEN << >>
                        ELSE [stack EXCEPT ![Len(stack)] = UnaryVal(code[ip], @)]
                 /\ Retire(1, t, "running")
    BY <1>3 DEF ExecUnary
  <2>3. t \in Seq(Value) /\ Len(t) = Len(stack)
    <3>1. CASE stack = << >>
      BY <1>0, <2>2, <3>1
    <3>2. CASE stack # << >>
      <4>1. PICK k, v : k = Len(stack) /\ v = UnaryVal(code[ip], stack[Len(stack)])
        OBVIOUS
      <4>2. k \in 1 .. Len(stack) /\ stack[k] \in Value
        BY <1>0, <1>d, <3>2, <4>1, ElementOfSeq
      <4>3. v \in Value
        BY <1>3, <4>1, <4>2, UnaryValType DEF ExecUnary
      <4>4. t = [stack EXCEPT ![k] = v]
        BY <2>2, <3>2, <4>1
      <4>5. t \in Seq(Value)
        BY <1>0, <4>2, <4>3, <4>4, ExceptSeq
      <4>6. Len(t) = Len(stack)
        BY <1>0, <4>2, <4>3, <4>4, ExceptSeq
      <4> QED BY <4>5, <4>6
    <3> QED BY <3>1, <3>2
  <2>4. Len(t) = Len(stack) + Effect(code[ip])
    BY <1>0, <2>1, <2>3
  <2> QED BY <1>3, <2>1, <2>2, <2>3, <2>4, DepthRetire DEF ExecUnary
<1>4. CASE ExecBinary
  <2>1. ~ TakesOperand(code[ip]) /\ Effect(code[ip]) = -1 /\ code[ip] \in BinaryOps
    BY <1>4, <1>a, <1>b DEF ExecBinary
  <2>2. CASE Len(stack) >= 2
    <3>1. /\ stack # << >> /\ Front(stack) \in Seq(Value) /\ Last(stack) \in Value
          /\ Len(Front(stack)) = Len(stack) - 1 /\ Front(stack) # << >>
      <4>1. stack # << >>
        BY <2>2
      <4>2. /\ Front(stack) \in Seq(Value) /\ Last(stack) \in Value
            /\ Len(Front(stack)) = Len(stack) - 1
        BY <1>0, <4>1, FrontLast
      <4>3. Len(Front(stack)) > 0
        BY <1>0, <2>2, <4>2
      <4> QED BY <4>1, <4>2, <4>3
    <3>2. /\ Front(Front(stack)) \in Seq(Value) /\ Last(Front(stack)) \in Value
          /\ Len(Front(Front(stack))) = Len(stack) - 2
      <4>1. PICK f : f = Front(stack)
        OBVIOUS
      <4>2. f \in Seq(Value) /\ f # << >> /\ Len(f) = Len(stack) - 1
        BY <3>1, <4>1
      <4>3. /\ Front(f) \in Seq(Value) /\ Last(f) \in Value
            /\ Len(Front(f)) = Len(f) - 1
        BY <4>2, FrontLast
      <4>4. Len(f) - 1 = Len(stack) - 2
        BY <1>0, <4>2
      <4> QED BY <4>1, <4>2, <4>3, <4>4
    <3>3. PICK v : v = BinaryVal(code[ip], Last(Front(stack)), Last(stack))
      OBVIOUS
    <3>4. v \in Value
      BY <2>1, <3>1, <3>2, <3>3, BinaryValType
    <3>5. PICK t : t = Append(Front(Front(stack)), v)
      OBVIOUS
    <3>6. t \in Seq(Value) /\ Len(t) = Len(stack) - 1
      BY <1>0, <3>2, <3>4, <3>5, AppendProperties
    <3>7. Len(t) = Len(stack) + Effect(code[ip])
      BY <1>0, <2>1, <3>6
    <3>8. \/ Retire(1, t, "running") /\ UNCHANGED chunkVars
          \/ Die("SIGFPE")
      BY <1>4, <2>2, <3>3, <3>5 DEF ExecBinary, Require
    <3>9. CASE Die("SIGFPE")
      BY <3>9, DepthDies DEF Died
    <3> QED BY <1>4, <2>1, <3>6, <3>7, <3>8, <3>9, DepthRetire DEF ExecBinary
  <2>3. CASE ~ (Len(stack) >= 2)
    BY <1>0, <1>4, <2>1, <2>3, DepthPopFails DEF ExecBinary, Require
  <2> QED BY <2>2, <2>3
<1>5. CASE ExecPrint
  <2>1. /\ ~ TakesOperand(code[ip]) /\ Effect(code[ip]) = -1
        /\ code[ip] \notin BinaryOps
    BY <1>5, <1>a, <1>b, <1>c DEF ExecPrint
  <2>2. CASE stack = << >>
    BY <1>5, <1>e, <2>1, <2>2, DepthPopFails DEF ExecPrint, Require
  <2>3. CASE stack # << >>
    <3>1. Retire(1, Front(stack), "running") /\ UNCHANGED chunkVars
      BY <1>5, <2>3 DEF ExecPrint, Require
    <3>2. Len(Front(stack)) = Len(stack) + Effect(code[ip])
      BY <1>0, <1>d, <2>1, <2>3
    <3> QED BY <1>5, <1>d, <2>1, <2>3, <3>1, <3>2, DepthRetire DEF ExecPrint
  <2> QED BY <2>2, <2>3
<1>6. CASE ExecPop
  <2>1. ~ TakesOperand(code[ip]) /\ code[ip] \notin BinaryOps
    BY <1>6, <1>a, <1>c DEF ExecPop
  <2>2. CASE stack = << >>
    BY <1>6, <1>e, <2>1, <2>2, DepthPopFails DEF ExecPop, Require
  <2>3. CASE stack # << >>
    <3>1. Retire(1, Front(stack), "OK") /\ UNCHANGED chunkVars
      BY <1>6, <2>3 DEF ExecPop, Require
    <3> QED BY <1>6, <1>d, <2>1, <2>3, <3>1, DepthRetire DEF ExecPop
  <2> QED BY <2>2, <2>3
<1>7. CASE ExecRet
  <2>1. ~ TakesOperand(code[ip])
    BY <1>7, <1>a DEF ExecRet
  <2> QED BY <1>0, <1>7, <2>1, DepthRetire DEF ExecRet
<1>8. CASE ExecEof
  <2>1. ~ TakesOperand(code[ip])
    BY <1>8, <1>a DEF ExecEof
  <2> QED BY <1>0, <1>8, <2>1, DepthRetire DEF ExecEof
<1>9. CASE ExecDefine
  <2>1. TakesOperand(code[ip]) /\ code[ip] \notin BinaryOps
    BY <1>9, <1>c DEF ExecDefine, TakesOperand
  <2>2. \/ Die("ABORT_CONST") \/ Die("ABORT_NAME")
        \/ Die("ABORT_POP") /\ stack = << >>
        \/ stack # << >> /\ Retire(2, Front(stack), "OK") /\ UNCHANGED chunkVars
    BY <1>9 DEF ExecDefine, Require, Define
  <2>3. CASE Die("ABORT_CONST") \/ Die("ABORT_NAME")
    BY <2>3, DepthDies DEF Died
  <2>4. CASE Die("ABORT_POP") /\ stack = << >>
    BY <1>9, <1>e, <2>1, <2>4, DepthPopFails DEF ExecDefine
  <2>5. CASE stack # << >> /\ Retire(2, Front(stack), "OK") /\ UNCHANGED chunkVars
    BY <1>9, <1>d, <2>1, <2>5, DepthRetire DEF ExecDefine
  <2> QED BY <2>2, <2>3, <2>4, <2>5
<1>10. CASE ExecStop
  BY <1>10 DEF ExecStop, DepthIsStatic
<1> QED BY <1>1, <1>2, <1>3, <1>4, <1>5, <1>6, <1>7, <1>8, <1>9, <1>10 DEF Exec

LEMMA VMStepDepth ==
  ASSUME VMInv, DepthIsStatic, Construct \/ VMNext
  PROVE  DepthIsStatic'
<1>1. CASE Construct
  BY <1>1 DEF Construct, Require, Die, DepthIsStatic
<1>2. CASE ListInstr
  BY <1>2 DEF ListInstr, Require, Die, DepthIsStatic
<1>3. CASE StartExec
  <2>1. StaticDepth' = StaticDepth /\ ip' = 1 /\ stack' = <<Null>>
        /\ status' = "running"
    BY <1>3, SameDepth DEF StartExec
  <2>2. Len(code) \in Nat
    BY LenProperties DEF VMInv, VMTypeOK, ChunkTypeOK
  <2>3. StaticDepth[1] = 1
    <3>1. 1 \in 1 .. Len(code) + 1
      BY <2>2
    <3> QED BY <2>2, <3>1, DepthDef DEF DepthAt
  <2> QED BY <2>1, <2>3 DEF DepthIsStatic
<1>4. CASE Exec
  BY <1>4, ExecDepth
<1> QED BY <1>1, <1>2, <1>3, <1>4 DEF VMNext

\* A step that runs no VM.
LEMMA DepthElsewhere ==
  ASSUME status' \notin {"running", "ABORT_POP"}
  PROVE  DepthIsStatic'
BY DEF DepthIsStatic

LEMMA DepthKept ==
  ASSUME DepthIsStatic, UNCHANGED vmVars
  PROVE  DepthIsStatic'
<1>1. StaticDepth' = StaticDepth
  BY SameDepth DEF vmVars
<1> QED BY <1>1 DEF DepthIsStatic, vmVars, chunkVars, execVars
=============================================================================
