---------------------------- MODULE RunFileProofs ----------------------------
(***************************************************************************)
(* Handover, DeletedOnce and PrintsMeaning of RunFile, for sources of any  *)
(* length: what the modules of proofs say of the scanner, the parser and   *)
(* the code generator holds of their instances in run_file.  An instance's *)
(* actions and operators are defined like those of the component, but have *)
(* names of their own; the lemmas named ...Same show that they are the     *)
(* same.  Each instance is declared where it is first needed: C of the     *)
(* code generator's module, L of the scanner's, O of the parser's.         *)
(***************************************************************************)
EXTENDS RunFile, DataLemmas, FiniteSetTheorems

-----------------------------------------------------------------------------
(***************************************************************************)
(* What the destructors rely on.  The nodes of a parse that is done are a  *)
(* forest: each is a statement or a child of one other, and is so once,    *)
(* but the EmptyExprs that parseIf dropped.                                *)
(***************************************************************************)
Placed == Range(stmts) \cup UNION {Range(nodes[k].kids) : k \in DOMAIN nodes}

Unplaced == DOMAIN nodes \ Placed

Forest ==
  /\ \A k \in DOMAIN nodes : /\ nodes[k].kids \in Seq(DOMAIN nodes)
                             /\ IsInjective(nodes[k].kids)
                             /\ \A c \in Range(nodes[k].kids) : c < k
  /\ stmts \in Seq(DOMAIN nodes) /\ IsInjective(stmts)
  /\ \A j, k \in DOMAIN nodes : \A c \in Range(nodes[j].kids) :
       c \notin Range(stmts) /\ (c \in Range(nodes[k].kids) => j = k)
  /\ \A k \in DOMAIN nodes : nodes[k].kind = "Empty" => nodes[k].kids = << >>
  /\ \A k \in Unplaced : nodes[k].kind = "Empty"
  /\ Cardinality(Unplaced) = Cardinality(Dropped)

-----------------------------------------------------------------------------
(***************************************************************************)
(* The deletion.  The pointers that have been met, freed or doomed, are    *)
(* all different, and a node is met with its parent's deletion or as a     *)
(* statement, never otherwise.                                             *)
(***************************************************************************)
Met == Range(freed) \cup Range(doomed)

Deleting ==
  /\ freed \in Seq(DOMAIN nodes) /\ IsInjective(freed)
  /\ doomed \in Seq(DOMAIN nodes) /\ IsInjective(doomed)
  /\ Range(freed) \cap Range(doomed) = {}
  /\ Range(stmts) \subseteq Met
  /\ \A k \in Range(freed) : Range(nodes[k].kids) \subseteq Met
  /\ \A k \in Met : k \in Range(stmts) \/ \E p \in Range(freed) : k \in Range(nodes[p].kids)

\* The statements are the first.
LEMMA DeletionBegins ==
  ASSUME Forest, UNCHANGED <<nodes, stmts>>, doomed' = stmts, freed' = << >>
  PROVE  Deleting'
<1>1. IsInjective(freed') /\ Range(freed') = {} /\ freed' \in Seq(DOMAIN nodes)
  BY EmptyOnce
<1>2. Met' = Range(stmts)
  BY <1>1 DEF Met
<1>3. stmts \in Seq(DOMAIN nodes) /\ IsInjective(stmts)
  BY DEF Forest
<1> QED BY <1>1, <1>2, <1>3 DEF Deleting

LEMMA DeletionGoesOn == Forest /\ Deleting /\ Delete => Deleting'
<1> SUFFICES ASSUME Forest, Deleting, Delete
             PROVE  Deleting'
  OBVIOUS
<1> DEFINE h == Head(doomed)
           t == Tail(doomed)
           ks == nodes[h].kids
<1>1. /\ freed' = Append(freed, h) /\ doomed' = ks \o t
      /\ doomed # << >> /\ nodes' = nodes /\ stmts' = stmts
  BY DEF Delete, treeVars
<1>2. /\ h \in DOMAIN nodes /\ t \in Seq(DOMAIN nodes)
      /\ h \notin Range(t) /\ IsInjective(t)
      /\ Range(doomed) = {h} \cup Range(t)
  BY <1>1, HeadTailOnce DEF Deleting
<1>3. /\ ks \in Seq(DOMAIN nodes) /\ IsInjective(ks)
      /\ \A c \in Range(ks) : c < h
  BY <1>2 DEF Forest
<1> HIDE DEF h, t, ks
<1>4. h \notin Range(freed) /\ Range(t) \cap Range(freed) = {}
  BY <1>2 DEF Deleting
\* The children of h are met for the first time.
<1>5. Range(ks) \cap Met = {}
  <2> SUFFICES ASSUME NEW c \in Range(ks), c \in Met
               PROVE  FALSE
    OBVIOUS
  <2>1. c \notin Range(stmts)
    BY <1>2 DEF Forest, ks
  <2>2. PICK p \in Range(freed) : c \in Range(nodes[p].kids)
    BY <2>1 DEF Deleting
  <2>3. Range(freed) \subseteq DOMAIN nodes
    BY RangeOfSeq DEF Deleting
  <2>4. p = h
    BY <1>2, <2>2, <2>3 DEF Forest, ks
  <2> QED BY <1>4, <2>4
<1>6. h \notin Range(ks)
  BY <1>2, <1>5 DEF Met
<1>7. /\ freed' \in Seq(DOMAIN nodes) /\ IsInjective(freed')
      /\ Range(freed') = Range(freed) \cup {h}
  <2>1. /\ <<h>> \in Seq(DOMAIN nodes) /\ IsInjective(<<h>>) /\ Range(<<h>>) = {h}
    BY <1>2, OneOnce
  <2>2. Append(freed, h) = freed \o <<h>>
    BY <1>2, AppendIsConcat DEF Deleting
  <2>3. freed \in Seq(DOMAIN nodes) /\ IsInjective(freed)
    BY DEF Deleting
  <2>4. freed \o <<h>> \in Seq(DOMAIN nodes)
    BY <2>1, <2>3, ConcatProperties
  <2>5. IsInjective(freed \o <<h>>) /\ Range(freed \o <<h>>) = Range(freed) \cup Range(<<h>>)
    <3>1. Range(freed) \cap Range(<<h>>) = {}
      BY <1>4, <2>1
    <3> QED BY <2>1, <2>3, <3>1, ConcatOnce
  <2> QED BY <1>1, <2>1, <2>2, <2>4, <2>5
<1>8. /\ doomed' \in Seq(DOMAIN nodes) /\ IsInjective(doomed')
      /\ Range(doomed') = Range(ks) \cup Range(t)
  <2>1. Range(ks) \cap Range(t) = {}
    BY <1>2, <1>5 DEF Met
  <2>2. ks \o t \in Seq(DOMAIN nodes)
    BY <1>2, <1>3, ConcatProperties
  <2> QED BY <1>1, <1>2, <1>3, <2>1, <2>2, ConcatOnce
<1>9. Range(freed') \cap Range(doomed') = {}
  BY <1>2, <1>4, <1>5, <1>6, <1>7, <1>8 DEF Met
<1>10. Met' = Met \cup Range(ks)
  BY <1>2, <1>7, <1>8 DEF Met
<1>11. Range(stmts') \subseteq Met'
  BY <1>1, <1>10 DEF Deleting
<1>12. \A k \in Range(freed') : Range(nodes'[k].kids) \subseteq Met'
  BY <1>1, <1>7, <1>10 DEF Deleting, ks
<1>13. ASSUME NEW k \in Met'
       PROVE  k \in Range(stmts') \/ \E p \in Range(freed') : k \in Range(nodes'[p].kids)
  <2>1. CASE k \in Met
    BY <1>1, <1>7, <2>1 DEF Deleting
  <2>2. CASE k \in Range(ks)
    BY <1>1, <1>7, <2>2 DEF ks
  <2> QED BY <1>10, <1>13, <2>1, <2>2
<1> QED BY <1>1, <1>7, <1>8, <1>9, <1>11, <1>12, <1>13 DEF Deleting

\* When nothing is doomed any more, all that is placed has been freed: of the
\* others the one allocated last would have a parent, allocated later.
LEMMA DeletionEnds ==
  ASSUME Forest, Deleting, doomed = << >>, nodes \in Seq(Node)
  PROVE  DOMAIN nodes \ Range(freed) = Unplaced
<1>1. Met = Range(freed)
  BY EmptyOnce DEF Met
<1>2. ASSUME NEW k \in Unplaced
      PROVE  k \in DOMAIN nodes \ Range(freed)
  <2>1. k \in DOMAIN nodes /\ k \notin Placed
    BY DEF Unplaced
  <2>2. Range(freed) \subseteq Placed
    <3>1. Range(freed) \subseteq DOMAIN nodes
      BY RangeOfSeq DEF Deleting
    <3> QED BY <1>1, <3>1 DEF Deleting, Placed
  <2> QED BY <2>1, <2>2
<1> DEFINE Missed == (DOMAIN nodes \ Range(freed)) \cap Placed
<1>3. ASSUME NEW k \in Missed
      PROVE  \E p \in Missed : k < p
  <2>1. k \in DOMAIN nodes /\ k \notin Met /\ k \notin Range(stmts)
    BY <1>1 DEF Deleting
  <2>2. PICK p \in DOMAIN nodes : k \in Range(nodes[p].kids)
    BY <2>1 DEF Placed
  <2>3. k < p
    BY <2>2 DEF Forest
  <2>4. p \notin Range(freed)
    BY <2>1, <2>2 DEF Deleting
  <2>5. nodes[p].kind # "Empty"
    BY <2>2, EmptyOnce DEF Forest
  <2>6. p \in Placed
    BY <2>5 DEF Forest, Unplaced
  <2> QED BY <2>2, <2>3, <2>4, <2>6
<1>4. Missed = {}
  <2> SUFFICES ASSUME Missed # {}
               PROVE  FALSE
    OBVIOUS
  <2>1. Len(nodes) \in Nat /\ DOMAIN nodes = 1 .. Len(nodes)
    BY LenProperties
  <2>2. Missed \subseteq 1 .. Len(nodes)
    BY <2>1
  <2> HIDE DEF Missed
  <2>3. PICK m \in Missed : \A k \in Missed : k <= m
    BY <2>1, <2>2, LargestIs
  <2>4. PICK p \in Missed : m < p
    BY <1>3
  <2>5. m \in Int /\ p \in Int /\ p <= m
    BY <2>1, <2>2, <2>3
  <2> QED BY <2>4, <2>5
<1> QED BY <1>2, <1>4 DEF Unplaced

-----------------------------------------------------------------------------
C == INSTANCE CodeGenProofs WITH Programs <- {}

\* The code generator's.

LEMMA OpsSame ==
  /\ G!OP_NOP = C!OP_NOP
  /\ G!OP_CONST = C!OP_CONST
  /\ G!OP_POP = C!OP_POP
  /\ G!OP_NOT = C!OP_NOT
  /\ G!OP_NEG = C!OP_NEG
  /\ G!OP_ADD = C!OP_ADD
  /\ G!OP_SUB = C!OP_SUB
  /\ G!OP_MULT = C!OP_MULT
  /\ G!OP_DIV = C!OP_DIV
  /\ G!OP_OR = C!OP_OR
  /\ G!OP_AND = C!OP_AND
  /\ G!OP_CMP = C!OP_CMP
  /\ G!OP_PRINT = C!OP_PRINT
  /\ G!OP_DEFINE_GLOBAL = C!OP_DEFINE_GLOBAL
  /\ G!OP_DEFINE_LOCAL = C!OP_DEFINE_LOCAL
  /\ G!OP_RET = C!OP_RET
  /\ G!OP_EOF = C!OP_EOF
  /\ G!ArithOps = C!ArithOps
  /\ G!BinaryOps = C!BinaryOps
  /\ G!UnaryOps = C!UnaryOps
  /\ G!DefineOps = C!DefineOps
BY DEF G!OP_NOP, C!OP_NOP, G!OP_CONST, C!OP_CONST, G!OP_POP, C!OP_POP,
   G!OP_NOT, C!OP_NOT, G!OP_NEG, C!OP_NEG, G!OP_ADD, C!OP_ADD, G!OP_SUB,
   C!OP_SUB, G!OP_MULT, C!OP_MULT, G!OP_DIV, C!OP_DIV, G!OP_OR, C!OP_OR,
   G!OP_AND, C!OP_AND, G!OP_CMP, C!OP_CMP, G!OP_PRINT, C!OP_PRINT,
   G!OP_DEFINE_GLOBAL, C!OP_DEFINE_GLOBAL, G!OP_DEFINE_LOCAL,
   C!OP_DEFINE_LOCAL, G!OP_RET, C!OP_RET, G!OP_EOF, C!OP_EOF, G!ArithOps,
   C!ArithOps, G!BinaryOps, C!BinaryOps, G!UnaryOps, C!UnaryOps, G!DefineOps,
   C!DefineOps

LEMMA ValsSame ==
  /\ \A op, v : G!UnaryVal(op, v) = C!UnaryVal(op, v)
  /\ \A op, a, b : G!BinaryVal(op, a, b) = C!BinaryVal(op, a, b)
  /\ \A op, a, b : G!IntDivByZero(op, a, b) <=> C!IntDivByZero(op, a, b)
  /\ G!Null = C!Null /\ G!NoVars = C!NoVars
  /\ \A s : G!StrVal(s) = C!StrVal(s)
  /\ \A op : G!TakesOperand(op) <=> C!TakesOperand(op)
  /\ \A v : G!isString(v) <=> C!isString(v)
BY OpsSame DEF G!TakesOperand, C!TakesOperand, G!Null, C!Null, G!NumVal,
   C!NumVal, G!BoolVal, C!BoolVal, G!StrVal, C!StrVal, G!isNum, C!isNum,
   G!isBool, C!isBool, G!isString, C!isString, G!Truthy, C!Truthy, G!asBool,
   C!asBool, G!AsInt, C!AsInt, G!UnaryVal, C!UnaryVal, G!BoolArith,
   C!BoolArith, G!BoolLogic, C!BoolLogic, G!BinaryVal, C!BinaryVal,
   G!IntDivByZero, C!IntDivByZero, G!NoVars, C!NoVars

LEMMA ChunkSame ==
  /\ G!PoolFull <=> C!PoolFull
  /\ \A op : G!addOp(op) <=> C!addOp(op)
  /\ \A val : G!addConst(val) <=> C!addConst(val)
  /\ \A op, name : G!addDefine(op, name) <=> C!addDefine(op, name)
  /\ G!finalize <=> C!finalize
  /\ G!newChunk <=> C!newChunk
BY OpsSame, ValsSame DEF G!PoolFull, C!PoolFull, G!addOp, C!addOp,
   G!addOpWithConst, C!addOpWithConst, G!addConst, C!addConst, G!addDefine,
   C!addDefine, G!finalize, C!finalize, G!newChunk, C!newChunk, G!chunkVars,
   C!chunkVars

LEMMA VMSame ==
  /\ G!Construct <=> C!Construct
  /\ G!VMNext <=> C!VMNext
<1> USE OpsSame, ValsSame, ChunkSame
<1> USE DEF G!chunkVars, C!chunkVars, G!execVars, C!execVars, G!Operand,
   C!Operand, G!Die, C!Die, G!Require, C!Require, G!Fetch, C!Fetch, G!PrintOp,
   C!PrintOp, G!Retire, C!Retire, G!Front, C!Front, G!Last, C!Last

<1>1. G!Construct <=> C!Construct
  BY DEF G!Construct, C!Construct
<1>2. G!ListInstr <=> C!ListInstr
  BY DEF G!ListInstr, C!ListInstr
<1>3. G!StartExec <=> C!StartExec
  BY DEF G!StartExec, C!StartExec
<1>4. G!ExecNop <=> C!ExecNop
  BY DEF G!ExecNop, C!ExecNop
<1>5. G!ExecConst <=> C!ExecConst
  BY DEF G!ExecConst, C!ExecConst
<1>6. G!ExecUnary <=> C!ExecUnary
  BY DEF G!ExecUnary, C!ExecUnary
<1>7. G!ExecBinary <=> C!ExecBinary
  BY DEF G!ExecBinary, C!ExecBinary
<1>8. G!ExecPrint <=> C!ExecPrint
  BY DEF G!ExecPrint, C!ExecPrint
<1>9. G!ExecPop <=> C!ExecPop
  BY DEF G!ExecPop, C!ExecPop
<1>10. G!ExecRet <=> C!ExecRet
  BY DEF G!ExecRet, C!ExecRet
<1>11. G!ExecEof <=> C!ExecEof
  BY DEF G!ExecEof, C!ExecEof
<1>12. G!ExecDefine <=> C!ExecDefine
  BY DEF G!ExecDefine, C!ExecDefine, G!Define, C!Define, G!Put, C!Put
<1>13. G!ExecStop <=> C!ExecStop
  BY DEF G!ExecStop, C!ExecStop
<1> HIDE DEF G!chunkVars, C!chunkVars, G!execVars, C!execVars, G!Operand,
   C!Operand, G!Die, C!Die, G!Require, C!Require, G!Fetch, C!Fetch, G!PrintOp,
   C!PrintOp, G!Retire, C!Retire, G!Front, C!Front, G!Last, C!Last
<1>14. G!Exec <=> C!Exec
  BY Zenon, <1>4, <1>5, <1>6, <1>7, <1>8, <1>9, <1>10, <1>11, <1>12, <1>13 DEF
     G!Exec, C!Exec
<1> QED BY Zenon, <1>1, <1>2, <1>3, <1>14 DEF G!VMNext, C!VMNext

LEMMA GenSame == G!Next => C!Next
<1> USE OpsSame, ValsSame, ChunkSame
<1> USE DEF G!chunkVars, C!chunkVars, G!execVars, C!execVars, G!Die, C!Die,
   G!genVars, C!genVars, G!Task, C!Task, G!Gen, C!Gen, G!Add, C!Add, G!Bind,
   C!Bind, G!Bad, C!Bad, G!Doing, C!Doing, G!Visiting, C!Visiting, G!This,
   C!This, G!Kid, C!Kid, G!Replace, C!Replace, G!Descend, C!Descend, G!Emit,
   C!Emit, G!Stop, C!Stop, G!EmitConst, C!EmitConst, G!LeafKinds, C!LeafKinds,
   G!token_to_binop, C!token_to_binop, G!token_to_unaryop, C!token_to_unaryop
<1>1. G!GenLeaf => C!GenLeaf
  BY DEF G!GenLeaf, C!GenLeaf
<1>2. G!GenUnary => C!GenUnary
  BY DEF G!GenUnary, C!GenUnary
<1>3. G!GenBinary => C!GenBinary
  BY DEF G!GenBinary, C!GenBinary
<1>4. G!GenReturn => C!GenReturn
  BY DEF G!GenReturn, C!GenReturn
<1>5. G!GenPrint => C!GenPrint
  BY DEF G!GenPrint, C!GenPrint
<1>6. G!GenVarInit => C!GenVarInit
  BY DEF G!GenVarInit, C!GenVarInit
<1>7. G!GenVarNull => C!GenVarNull
  BY DEF G!GenVarNull, C!GenVarNull
<1>8. G!GenVarBad => C!GenVarBad
  BY DEF G!GenVarBad, C!GenVarBad
<1>9. G!GenUnimplemented => C!GenUnimplemented
  BY DEF G!GenUnimplemented, C!GenUnimplemented
<1>10. G!EmitOp => C!EmitOp
  BY DEF G!EmitOp, C!EmitOp
<1>11. G!EmitBind => C!EmitBind
  BY DEF G!EmitBind, C!EmitBind
<1>12. G!EmitBad => C!EmitBad
  BY DEF G!EmitBad, C!EmitBad
<1>13. G!BeginStmt => C!BeginStmt
  BY DEF G!BeginStmt, C!BeginStmt, G!AtLoopHead, C!AtLoopHead, G!Returned,
     C!Returned
<1>14. G!Finish => C!Finish
  BY DEF G!Finish, C!Finish, G!AtLoopHead, C!AtLoopHead, G!Returned,
     C!Returned
<1>15. G!RunStmt => C!RunStmt
  BY VMSame DEF G!RunStmt, C!RunStmt
<1> HIDE DEF G!chunkVars, C!chunkVars, G!execVars, C!execVars, G!Die, C!Die,
   G!genVars, C!genVars, G!Task, C!Task, G!Gen, C!Gen, G!Add, C!Add, G!Bind,
   C!Bind, G!Bad, C!Bad, G!Doing, C!Doing, G!Visiting, C!Visiting, G!This,
   C!This, G!Kid, C!Kid, G!Replace, C!Replace, G!Descend, C!Descend, G!Emit,
   C!Emit, G!Stop, C!Stop, G!EmitConst, C!EmitConst, G!LeafKinds, C!LeafKinds,
   G!token_to_binop, C!token_to_binop, G!token_to_unaryop, C!token_to_unaryop
<1>16. G!Codegen => C!Codegen
  BY Zenon, <1>1, <1>2, <1>3, <1>4, <1>5, <1>6, <1>7, <1>8, <1>9, <1>10,
     <1>11, <1>12 DEF G!Codegen, C!Codegen
<1> QED BY Zenon, <1>13, <1>14, <1>15, <1>16 DEF G!Next, C!Next

-----------------------------------------------------------------------------
\* What the code generator's say of trees and values.

LEMMA ValueSame ==
  /\ C!UnaryOps = UnaryOps /\ C!BinaryOps = BinaryOps /\ C!ArithOps = ArithOps
  /\ \A op, v : C!UnaryVal(op, v) = UnaryVal(op, v)
  /\ \A op, a, b : C!BinaryVal(op, a, b) = BinaryVal(op, a, b)
  /\ C!token_to_unaryop = token_to_unaryop /\ C!token_to_binop = token_to_binop
  /\ C!LeafKinds = LeafKinds /\ C!Value = Value
<1> USE DEF C!OP_NOT, OP_NOT, C!OP_NEG, OP_NEG, C!OP_ADD, OP_ADD, C!OP_SUB, OP_SUB,
   C!OP_MULT, OP_MULT, C!OP_DIV, OP_DIV, C!OP_OR, OP_OR, C!OP_AND, OP_AND,
   C!OP_CMP, OP_CMP, C!ArithOps, ArithOps
<1>1. /\ C!UnaryOps = UnaryOps /\ C!BinaryOps = BinaryOps /\ C!ArithOps = ArithOps
      /\ C!token_to_unaryop = token_to_unaryop /\ C!token_to_binop = token_to_binop
      /\ C!LeafKinds = LeafKinds
  BY DEF C!UnaryOps, UnaryOps, C!BinaryOps, BinaryOps, C!token_to_unaryop,
     token_to_unaryop, C!token_to_binop, token_to_binop, C!LeafKinds, LeafKinds
<1>2. C!Value = Value
  BY DEF C!Value, Value, C!Null, Null
<1> USE DEF C!NumVal, NumVal, C!BoolVal, BoolVal, C!isNum, isNum, C!isBool, isBool,
   C!Truthy, Truthy, C!asBool, asBool, C!AsInt, AsInt
<1>3. \A op, v : C!UnaryVal(op, v) = UnaryVal(op, v)
  BY DEF C!UnaryVal, UnaryVal
<1>4. \A op, a, b : C!BinaryVal(op, a, b) = BinaryVal(op, a, b)
  BY DEF C!BinaryVal, BinaryVal, C!BoolArith, BoolArith, C!BoolLogic, BoolLogic
<1> QED BY <1>1, <1>2, <1>3, <1>4

LEMMA GenAssumed ==
  /\ C!NumAssumption /\ C!MaxConstAssumption /\ C!MaxIcountAssumption
  /\ C!ProgramsAssumption
<1>1. C!NumAssumption
  BY NumAssumption, ValueSame DEF C!NumAssumption
<1> QED BY <1>1, LimitsAssumption
    DEF C!MaxConstAssumption, C!MaxIcountAssumption, C!ProgramsAssumption

LEMMA ValueTypes ==
  /\ DOMAIN token_to_unaryop = {"MINUS", "BANG"}
  /\ DOMAIN token_to_binop \subseteq BinaryTypes
  /\ \A type \in DOMAIN token_to_unaryop, v \in Value :
       UnaryVal(token_to_unaryop[type], v) \in Value
  /\ \A type \in DOMAIN token_to_binop, a, b \in Value :
       BinaryVal(token_to_binop[type], a, b) \in Value
<1>1. C!NumAssumption /\ C!MaxConstAssumption /\ C!MaxIcountAssumption /\ C!ProgramsAssumption
  BY GenAssumed
<1>2. \A op \in UnaryOps, v \in Value : UnaryVal(op, v) \in Value
  BY <1>1, ValueSame, C!UnaryValType
<1>3. \A op \in BinaryOps, a, b \in Value : BinaryVal(op, a, b) \in Value
  BY <1>1, ValueSame, C!BinaryValType
<1>4. /\ DOMAIN token_to_unaryop = {"MINUS", "BANG"}
      /\ \A type \in DOMAIN token_to_unaryop : token_to_unaryop[type] \in UnaryOps
  BY DEF token_to_unaryop, UnaryOps
<1>5. /\ DOMAIN token_to_binop \subseteq BinaryTypes
      /\ \A type \in DOMAIN token_to_binop : token_to_binop[type] \in BinaryOps
  BY DEF token_to_binop, BinaryOps, ArithOps, BinaryTypes
<1> QED BY <1>2, <1>3, <1>4, <1>5

LEMMA HeapOfGen == \A ns : C!Heap(ns) <=> Heap(ns)
<1>1. C!TokenType = TokenType
  BY DEF C!TokenType, TokenType
<1>2. \A v : C!isString(v) <=> isString(v)
  BY DEF C!isString, isString
<1>3. C!Kinds = Kinds
  BY ValueSame DEF C!Kinds, Kinds
<1>4. C!Node = Node
  BY <1>1, <1>3, ValueSame DEF C!Node, Node
<1> QED BY <1>2, <1>4, ValueSame DEF C!Heap, Heap

LEMMA NodeValue ==
  ASSUME NEW ns, Heap(ns), NEW k \in DOMAIN ns
  PROVE  /\ C!Size(ns)[k] \in Nat
         /\ ns[k].kind \in LeafKinds =>
              C!Plain(ns)[k] /\ C!Eval(ns)[k] = ns[k].lit /\ C!Size(ns)[k] = 1
         /\ \A a : /\ ns[k].kind = "UnaryOp" /\ ns[k].kids = <<a>>
                   /\ ns[k].type \in DOMAIN token_to_unaryop /\ C!Plain(ns)[a]
                   => /\ C!Plain(ns)[k] /\ C!Size(ns)[k] = 1 + C!Size(ns)[a]
                      /\ C!Eval(ns)[k] = UnaryVal(token_to_unaryop[ns[k].type],
                                                  C!Eval(ns)[a])
         /\ \A a, b : /\ ns[k].kind = "BinaryOp" /\ ns[k].kids = <<a, b>>
                      /\ ns[k].type \in DOMAIN token_to_binop
                      /\ C!Plain(ns)[a] /\ C!Plain(ns)[b]
                      => /\ C!Plain(ns)[k]
                         /\ C!Size(ns)[k] = 1 + C!Size(ns)[a] + C!Size(ns)[b]
                         /\ C!Eval(ns)[k] = BinaryVal(token_to_binop[ns[k].type],
                                                      C!Eval(ns)[a], C!Eval(ns)[b])
         /\ \A a : ns[k].kind = "Print" /\ ns[k].kids = <<a>> =>
                     C!Size(ns)[k] = 1 + C!Size(ns)[a]
<1>1. C!NumAssumption /\ C!MaxConstAssumption /\ C!MaxIcountAssumption /\ C!ProgramsAssumption
  BY GenAssumed
<1>2. C!Heap(ns)
  BY HeapOfGen
<1> HIDE DEF C!NumAssumption, C!Heap
<1> QED BY <1>1, <1>2, ValueSame, C!NodeMeaning

-----------------------------------------------------------------------------
(***************************************************************************)
(* Values is defined at every stretch of the words.                        *)
(***************************************************************************)

\* The words of a text that has values.
Valued(w) == /\ Len(w) \in Nat /\ DOMAIN w = 1 .. Len(w)
             /\ \A i \in DOMAIN w : w[i].lit \in Value

Stretches(w) == (DOMAIN w) \X (DOMAIN w)

ValueAt(w, val, s) ==
  LET lo   == s[1]
      hi   == s[2]
      ops  == OuterOps(w, lo, hi)
      root == Root(w, lo, hi)
  IN CASE ops # {} /\ w[root].type \in DOMAIN token_to_binop ->
            BinaryVal(token_to_binop[w[root].type],
                      val[<<lo, root - 1>>], val[<<root + 1, hi>>])
       [] ops = {} /\ lo < hi /\ w[lo].type \in DOMAIN token_to_unaryop ->
            UnaryVal(token_to_unaryop[w[lo].type], val[<<lo + 1, hi>>])
       [] ops = {} /\ lo < hi /\ w[lo].type = "LEFT_PAREN" ->
            val[<<lo + 1, hi - 1>>]
       [] OTHER -> w[lo].lit

\* The shorter stretches.
Shorter(w) ==
  [s \in Stretches(w) |-> {r \in Stretches(w) : r[2] - r[1] < s[2] - s[1]}]

LEMMA ShorterAre ==
  ASSUME NEW w, Valued(w), NEW lo \in 1 .. Len(w), NEW hi \in 1 .. Len(w)
  PROVE  /\ <<lo, hi>> \in Stretches(w)
         /\ lo < hi => /\ <<lo + 1, hi>> \in Shorter(w)[<<lo, hi>>]
                       /\ <<lo + 1, hi - 1>> \in Shorter(w)[<<lo, hi>>]
         /\ LET root == Root(w, lo, hi)
            IN OuterOps(w, lo, hi) # {} =>
                 /\ <<lo, root - 1>> \in Shorter(w)[<<lo, hi>>]
                 /\ <<root + 1, hi>> \in Shorter(w)[<<lo, hi>>]
<1>1. Len(w) \in Nat /\ DOMAIN w = 1 .. Len(w)
  BY DEF Valued
<1>2. \A a, b \in 1 .. Len(w) : <<a, b>> \in Stretches(w)
  BY <1>1 DEF Stretches
<1>3. \A a, b, c, d \in 1 .. Len(w) :
        d - c < b - a => <<c, d>> \in Shorter(w)[<<a, b>>]
  BY <1>2 DEF Shorter
<1>4. ASSUME OuterOps(w, lo, hi) # {}
      PROVE  Root(w, lo, hi) \in lo + 1 .. hi - 1
  <2>1. Infixes(w, Len(w), OuterOps(w, lo, hi))
    <3>1. lo + 1 .. hi - 1 \subseteq 1 .. Len(w)
      BY <1>1
    <3> QED BY <3>1 DEF Infixes, OuterOps, Operator
  <2>2. Root(w, lo, hi) = RootOf(w, OuterOps(w, lo, hi))
    BY DEF Root
  <2>3. Root(w, lo, hi) \in OuterOps(w, lo, hi)
    BY <1>1, <1>4, <2>1, <2>2, RootAmong
  <2> QED BY <2>3 DEF OuterOps
<1>5. ASSUME lo < hi
      PROVE  /\ <<lo + 1, hi>> \in Shorter(w)[<<lo, hi>>]
             /\ <<lo + 1, hi - 1>> \in Shorter(w)[<<lo, hi>>]
  <2>1. /\ lo + 1 \in 1 .. Len(w) /\ hi - 1 \in 1 .. Len(w)
        /\ hi - (lo + 1) < hi - lo /\ (hi - 1) - (lo + 1) < hi - lo
    BY <1>1, <1>5
  <2> QED BY <1>3, <2>1
<1>6. ASSUME NEW root \in lo + 1 .. hi - 1
      PROVE  /\ <<lo, root - 1>> \in Shorter(w)[<<lo, hi>>]
             /\ <<root + 1, hi>> \in Shorter(w)[<<lo, hi>>]
  <2>1. /\ root \in 1 .. Len(w) /\ root - 1 \in 1 .. Len(w)
        /\ root + 1 \in 1 .. Len(w)
        /\ (root - 1) - lo < hi - lo /\ hi - (root + 1) < hi - lo
    BY <1>1
  <2> QED BY <1>3, <2>1
<1> QED BY <1>2, <1>4, <1>5, <1>6

LEMMA ValueAtAgrees ==
  ASSUME NEW w, Valued(w), NEW s \in Stretches(w), NEW g, NEW h,
         \A r \in Shorter(w)[s] : g[r] = h[r]
  PROVE  /\ ValueAt(w, g, s) = ValueAt(w, h, s)
         /\ (\A r \in Shorter(w)[s] : g[r] \in Value) => ValueAt(w, g, s) \in Value
<1>1. PICK lo \in 1 .. Len(w), hi \in 1 .. Len(w) : s = <<lo, hi>>
  BY DEF Stretches, Valued
<1>2. s[1] = lo /\ s[2] = hi
  BY <1>1
<1> DEFINE root == Root(w, lo, hi)
           ops == OuterOps(w, lo, hi)
<1>3. CASE ops # {} /\ w[root].type \in DOMAIN token_to_binop
  <2>1. <<lo, root - 1>> \in Shorter(w)[s] /\ <<root + 1, hi>> \in Shorter(w)[s]
    BY <1>1, <1>3, ShorterAre
  <2>2. \A f : ValueAt(w, f, s) = BinaryVal(token_to_binop[w[root].type],
                                     f[<<lo, root - 1>>], f[<<root + 1, hi>>])
    BY <1>2, <1>3 DEF ValueAt
  <2> HIDE DEF root
  <2> QED BY <1>3, <2>1, <2>2, ValueTypes
<1>4. CASE ops = {} /\ lo < hi /\ w[lo].type \in DOMAIN token_to_unaryop
  <2>1. <<lo + 1, hi>> \in Shorter(w)[s]
    BY <1>1, <1>4, ShorterAre
  <2>2. \A f : ValueAt(w, f, s)
                 = UnaryVal(token_to_unaryop[w[lo].type], f[<<lo + 1, hi>>])
    <3>1. w[lo].type # "LEFT_PAREN"
      BY <1>4, ValueTypes
    <3> QED BY <1>2, <1>4, <3>1 DEF ValueAt
  <2> QED BY <1>4, <2>1, <2>2, ValueTypes
<1>5. CASE ops = {} /\ lo < hi /\ w[lo].type = "LEFT_PAREN"
  <2>1. <<lo + 1, hi - 1>> \in Shorter(w)[s]
    BY <1>1, <1>5, ShorterAre
  <2>2. "LEFT_PAREN" \notin DOMAIN token_to_unaryop
    BY ValueTypes
  <2>3. \A f : ValueAt(w, f, s) = f[<<lo + 1, hi - 1>>]
    BY <1>2, <1>5, <2>2 DEF ValueAt
  <2> QED BY <2>1, <2>3
<1>6. CASE /\ ~ (ops # {} /\ w[root].type \in DOMAIN token_to_binop)
           /\ ~ (ops = {} /\ lo < hi /\ w[lo].type \in DOMAIN token_to_unaryop)
           /\ ~ (ops = {} /\ lo < hi /\ w[lo].type = "LEFT_PAREN")
  <2>1. w[lo].lit \in Value
    BY DEF Valued
  <2>2. \A f : ValueAt(w, f, s) = w[lo].lit
    BY <1>2, <1>6 DEF ValueAt
  <2> QED BY <2>1, <2>2
<1> QED BY <1>3, <1>4, <1>5, <1>6

LEMMA ValuesAre ==
  ASSUME NEW w, Valued(w)
  PROVE  \A s \in Stretches(w) : Values(w)[s] = ValueAt(w, Values(w), s)
<1> DEFINE D == Stretches(w)
           n == Len(w)
           F == [s \in D |-> [g \in [D -> Value] |-> ValueAt(w, g, s)]]
           Q(f) == f = [s \in D |-> ValueAt(w, f, s)]
           y == Values(w)
           rank == [s \in D |-> n + (s[2] - s[1])]
           Below == Shorter(w)
<1>1. n \in Nat /\ DOMAIN w = 1 .. n
  BY DEF Valued
<1>2. \A s \in D : \A g \in [D -> Value] : F[s][g] = ValueAt(w, g, s)
  OBVIOUS
<1>3. \A s \in D : \A i \in Below[s] : i \in D
  BY DEF Shorter
<1>4. Ranked(rank, 2 * n, D, Below)
  <2>1. \A s \in D : s[1] \in 1 .. n /\ s[2] \in 1 .. n
    BY <1>1 DEF Stretches
  <2> HIDE DEF n
  <2>2. \A s \in D : n + (s[2] - s[1]) \in 1 .. 2 * n
    BY <1>1, <2>1
  <2>3. \A s \in D : \A r \in Below[s] : r \in D /\ r[2] - r[1] < s[2] - s[1]
    BY DEF Shorter
  <2>4. \A s \in D : \A r \in D :
          r[2] - r[1] < s[2] - s[1] =>
            n + (r[2] - r[1]) < n + (s[2] - s[1])
    BY <1>1, <2>1
  <2> HIDE DEF D, Below
  <2>5. rank \in [D -> 1 .. 2 * n]
    BY <2>2
  <2> QED BY <2>3, <2>4, <2>5 DEF Ranked
<1> HIDE DEF F, D, rank, Below
<1>5. Recurses(F, Below, D, Value)
  <2>1. ASSUME NEW s \in D, NEW g \in [D -> Value]
        PROVE  ValueAt(w, g, s) \in Value
    <3>1. \A r \in Below[s] : g[r] = g[r] /\ g[r] \in Value
      BY <1>3
    <3> QED BY <3>1, ValueAtAgrees DEF D, Below
  <2>2. \A s \in D : \A g, h \in [D -> Value] :
          (\A i \in Below[s] : g[i] = h[i]) => ValueAt(w, g, s) = ValueAt(w, h, s)
    BY ValueAtAgrees DEF D, Below
  <2> QED BY <1>2, <2>1, <2>2 DEF Recurses
<1>6. Solvable(F, D, Value)
  <2>1. 2 * n \in Nat
    BY <1>1
  <2>2. Null \in Value
    BY DEF Value
  <2> QED BY <1>4, <1>5, <2>1, <2>2, RankedRecursion
<1>7. PICK f \in [D -> Value] : \A s \in D : f[s] = F[s][f]
  BY <1>6 DEF Solvable
<1>8. Q(f)
  BY <1>2, <1>7
<1>9. y = CHOOSE g : Q(g)
  BY DEF Values, ValueAt, D, Stretches
<1> HIDE DEF y, Q
<1>10. Q(y)
  BY <1>8, <1>9
<1>11. \A s \in D : y[s] = ValueAt(w, y, s)
  BY <1>10 DEF Q
<1> QED BY <1>11 DEF y, D

-----------------------------------------------------------------------------
\* A node that stands for a stretch of words has its value, and as many
\* instructions as the stretch has words that are one.

\* Every operator in lo .. hi has an opcode.
Operable(w, lo, hi) ==
  \A p \in lo .. hi :
    AfterOperand(w, p) => w[p].type \in DOMAIN token_to_binop \cup {"RIGHT_PAREN"}

\* The node k computes the value of lo .. hi.
Computes(ns, w, k, lo, hi) ==
  /\ C!Plain(ns)[k] /\ ns[k].kind # "Print"
  /\ C!Eval(ns)[k] = Values(w)[<<lo, hi>>]
  /\ C!Size(ns)[k] = Cardinality(Coded(w, lo, hi))

LEMMA CodedFinite ==
  ASSUME NEW w, NEW lo \in Int, NEW hi \in Int
  PROVE  IsFiniteSet(Coded(w, lo, hi)) /\ Cardinality(Coded(w, lo, hi)) \in Nat
<1>1. IsFiniteSet(lo .. hi)
  BY FS_Interval
<1>2. Coded(w, lo, hi) \in SUBSET (lo .. hi)
  BY DEF Coded
<1>3. IsFiniteSet(Coded(w, lo, hi))
  BY <1>1, <1>2, FS_Subset
<1> QED BY <1>3, FS_CardinalityType

\* One word more, before a stretch or between two.
LEMMA CodedOne ==
  ASSUME NEW w, NEW lo \in Int, w[lo].type \notin {"LEFT_PAREN", "RIGHT_PAREN"}
  PROVE  /\ Cardinality(Coded(w, lo, lo)) = 1
         /\ \A hi \in Int : lo < hi =>
              Cardinality(Coded(w, lo, hi)) = 1 + Cardinality(Coded(w, lo + 1, hi))
<1>1. Coded(w, lo, lo) = {lo}
  BY DEF Coded
<1>2. ASSUME NEW hi \in Int, lo < hi
      PROVE  Cardinality(Coded(w, lo, hi)) = 1 + Cardinality(Coded(w, lo + 1, hi))
  <2> DEFINE Others == Coded(w, lo + 1, hi)
  <2>1. Coded(w, lo, hi) = Others \cup {lo}
    <3>1. lo .. hi = (lo + 1 .. hi) \cup {lo}
      BY <1>2
    <3> QED BY <3>1 DEF Coded
  <2>2. lo \notin Others
    BY DEF Coded
  <2>3. IsFiniteSet(Others) /\ Cardinality(Others) \in Nat
    BY CodedFinite
  <2> HIDE DEF Others
  <2>4. Cardinality(Others \cup {lo}) = Cardinality(Others) + 1
    BY <2>2, <2>3, FS_AddElement
  <2> QED BY <2>1, <2>3, <2>4 DEF Others
<1> QED BY <1>1, <1>2, FS_Singleton

LEMMA CodedTwo ==
  ASSUME NEW w, NEW lo \in Int, NEW hi \in Int, NEW m \in lo .. hi,
         w[m].type \notin {"LEFT_PAREN", "RIGHT_PAREN"}
  PROVE  Cardinality(Coded(w, lo, hi))
           = 1 + Cardinality(Coded(w, lo, m - 1)) + Cardinality(Coded(w, m + 1, hi))
<1> DEFINE A == Coded(w, lo, m - 1)
           B == Coded(w, m + 1, hi)
<1>1. Coded(w, lo, hi) = (A \cup B) \cup {m}
  <2>1. lo .. hi = ((lo .. m - 1) \cup (m + 1 .. hi)) \cup {m}
    OBVIOUS
  <2> QED BY <2>1 DEF Coded
<1>2. m \notin A \cup B /\ A \cap B = {}
  BY DEF Coded
<1>3. /\ IsFiniteSet(A) /\ Cardinality(A) \in Nat
      /\ IsFiniteSet(B) /\ Cardinality(B) \in Nat
  BY CodedFinite
<1> HIDE DEF A, B
<1>4. Cardinality(A \cap B) = 0
  BY <1>2, FS_EmptySet
<1>5. IsFiniteSet(A \cup B) /\ Cardinality(A \cup B) = Cardinality(A) + Cardinality(B)
  <2>1. /\ IsFiniteSet(A \cup B)
        /\ Cardinality(A \cup B) = Cardinality(A) + Cardinality(B) - Cardinality(A \cap B)
    BY Zenon, <1>3, FS_Union
  <2> QED BY <1>3, <1>4, <2>1
<1>6. Cardinality((A \cup B) \cup {m}) = Cardinality(A \cup B) + 1
  BY <1>2, <1>5, FS_AddElement
<1> QED BY <1>1, <1>3, <1>5, <1>6 DEF A, B

LEMMA CodedGroup ==
  ASSUME NEW w, NEW lo \in Int, NEW hi \in Int, lo < hi,
         w[lo].type = "LEFT_PAREN", w[hi].type = "RIGHT_PAREN"
  PROVE  Coded(w, lo, hi) = Coded(w, lo + 1, hi - 1)
<1>1. lo .. hi = (lo + 1 .. hi - 1) \cup {lo, hi}
  OBVIOUS
<1> QED BY <1>1 DEF Coded

LEMMA TreeValue ==
  ASSUME NEW T, NEW w \in Seq(T), Valued(w), NEW ns, Heap(ns),
         NEW k, NEW lo, NEW hi, TreeOf(ns, w, k, lo, hi), Operable(w, lo, hi)
  PROVE  Computes(ns, w, k, lo, hi)
<1> DEFINE Same(i, a, b) == Operable(w, a, b) => Computes(ns, w, i, a, b)
           R == {r \in Triples(ns, w) : Same(r[1], r[2], r[3])}
           val == Values(w)
<1>1. \A i \in DOMAIN ns, a \in 1 .. Len(w), b \in 1 .. Len(w) :
        <<i, a, b>> \in R <=> Same(i, a, b)
  BY DEF Triples
<1>2. \A r \in R : r \in Triples(ns, w)
  OBVIOUS
<1>3. \A i, a, b : <<i, a, b>> \in R => Same(i, a, b)
  OBVIOUS
<1> HIDE DEF R
<1>4. Len(w) \in Nat /\ DOMAIN w = 1 .. Len(w)
  BY LenProperties
<1>5. \A a, b \in 1 .. Len(w) :
        /\ val[<<a, b>>] = ValueAt(w, val, <<a, b>>)
        /\ Root(w, a, b) = RootOf(w, OuterOps(w, a, b))
        /\ a \in Int /\ b \in Int
  <2>1. \A a, b \in 1 .. Len(w) : <<a, b>> \in Stretches(w) /\ a \in Int /\ b \in Int
    BY <1>4 DEF Stretches
  <2> QED BY <2>1, ValuesAre DEF Root
<1> HIDE DEF val
<1>6. \A a, b, c, d \in Int : Operable(w, a, b) /\ a <= c /\ d <= b => Operable(w, c, d)
  BY DEF Operable
<1>7. ASSUME NEW i \in DOMAIN ns, NEW a \in 1 .. Len(w), LeafAt(ns, w, i, a)
      PROVE  Same(i, a, a)
  <2>1. /\ OuterOps(w, a, a) = {} /\ ~ (a < a)
        /\ ns[i].kind \in LeafKinds /\ ns[i].kind # "Print" /\ ns[i].lit = w[a].lit
    BY <1>7, LeafOuter DEF LeafAt, LeafKind, LeafKinds, LeafTypes
  <2>2. ValueAt(w, val, <<a, a>>) = w[a].lit
    BY <1>5, <2>1 DEF ValueAt
  <2>3. w[a].type \notin {"LEFT_PAREN", "RIGHT_PAREN"}
    BY <1>7, TypeSets DEF LeafAt
  <2>4. Cardinality(Coded(w, a, a)) = 1
    BY <1>5, <2>3, CodedOne
  <2>5. C!Plain(ns)[i] /\ C!Eval(ns)[i] = ns[i].lit /\ C!Size(ns)[i] = 1
    BY <2>1, NodeValue
  <2> QED BY <1>5, <2>1, <2>2, <2>4, <2>5 DEF Computes, val
<1>8. ASSUME NEW i \in DOMAIN ns, NEW j \in DOMAIN ns, NEW a \in 1 .. Len(w),
             NEW b \in 1 .. Len(w), UnaryAt(ns, w, i, j, a, b),
             Same(j, a + 1, b)
      PROVE  Same(i, a, b)
  <2> SUFFICES ASSUME Operable(w, a, b)
               PROVE  Computes(ns, w, i, a, b)
    OBVIOUS
  <2>1. OuterOps(w, a, b) = {} /\ a < b /\ w[a].type \in {"BANG", "MINUS"}
    BY <1>8, UnaryOuter
  <2>2. ns[i].kind = "UnaryOp" /\ ns[i].type = w[a].type /\ ns[i].kids = <<j>>
    BY <1>8 DEF UnaryAt
  <2>3. w[a].type \in DOMAIN token_to_unaryop /\ w[a].type # "LEFT_PAREN"
    BY <2>1, ValueTypes
  <2>4. Computes(ns, w, j, a + 1, b)
    BY <1>5, <1>6, <1>8
  <2>5. ValueAt(w, val, <<a, b>>)
          = UnaryVal(token_to_unaryop[w[a].type], val[<<a + 1, b>>])
    BY <1>5, <2>1, <2>3 DEF ValueAt
  <2>6. Cardinality(Coded(w, a, b)) = 1 + Cardinality(Coded(w, a + 1, b))
    BY <1>5, <2>1, CodedOne
  <2>7. /\ C!Plain(ns)[i] /\ C!Size(ns)[i] = 1 + C!Size(ns)[j]
        /\ C!Eval(ns)[i] = UnaryVal(token_to_unaryop[w[a].type], C!Eval(ns)[j])
    BY <2>2, <2>3, <2>4, NodeValue DEF Computes
  <2> QED BY <1>5, <2>2, <2>4, <2>5, <2>6, <2>7 DEF Computes, val
<1>9. ASSUME NEW i \in DOMAIN ns, NEW a \in 1 .. Len(w), NEW b \in 1 .. Len(w),
             GroupAt(w, a, b), Same(i, a + 1, b - 1)
      PROVE  Same(i, a, b)
  <2> SUFFICES ASSUME Operable(w, a, b)
               PROVE  Computes(ns, w, i, a, b)
    OBVIOUS
  <2>1. OuterOps(w, a, b) = {} /\ a < b /\ w[a].type = "LEFT_PAREN"
    BY <1>9, GroupOuter
  <2>2. "LEFT_PAREN" \notin DOMAIN token_to_unaryop
    BY ValueTypes
  <2>3. ValueAt(w, val, <<a, b>>) = val[<<a + 1, b - 1>>]
    BY <1>5, <2>1, <2>2 DEF ValueAt
  <2>4. Computes(ns, w, i, a + 1, b - 1)
    BY <1>5, <1>6, <1>9
  <2>5. Coded(w, a, b) = Coded(w, a + 1, b - 1)
    BY <1>5, <1>9, <2>1, CodedGroup DEF GroupAt
  <2> QED BY <1>5, <2>3, <2>4, <2>5 DEF Computes, val
<1>10. ASSUME NEW g \in DOMAIN ns, NEW i \in DOMAIN ns, NEW j \in DOMAIN ns,
              NEW a \in 1 .. Len(w), NEW m \in 1 .. Len(w), NEW b \in 1 .. Len(w),
              BinaryAt(ns, w, g, i, j, a, m, b),
              Same(i, a, m - 1), Same(j, m + 1, b)
       PROVE  Same(g, a, b)
  <2> SUFFICES ASSUME Operable(w, a, b)
               PROVE  Computes(ns, w, g, a, b)
    OBVIOUS
  <2>1. OuterOps(w, a, b) # {} /\ RootOf(w, OuterOps(w, a, b)) = m
    BY <1>10, BinaryOuter
  <2>2. ns[g].kind = "BinaryOp" /\ ns[g].type = w[m].type /\ ns[g].kids = <<i, j>>
        /\ w[m].type \in BinaryTypes
    BY <1>10 DEF BinaryAt
  <2>3. a <= m - 1 /\ m + 1 <= b /\ m \in a .. b /\ EndsOperand(w, m - 1) /\ m > 1
    BY <1>4, <1>10 DEF BinaryAt, Expression
  <2>4. /\ w[m].type \notin {"LEFT_PAREN", "RIGHT_PAREN"}
        /\ w[m].type \in DOMAIN token_to_binop
    BY <2>2, <2>3, TypeSets DEF Operable, AfterOperand
  <2>5. Computes(ns, w, i, a, m - 1) /\ Computes(ns, w, j, m + 1, b)
    BY <1>5, <1>6, <1>10, <2>3
  <2>6. Root(w, a, b) = m
    BY <1>5, <2>1
  <2>7. ValueAt(w, val, <<a, b>>)
          = BinaryVal(token_to_binop[w[m].type], val[<<a, m - 1>>], val[<<m + 1, b>>])
    BY <2>1, <2>4, <2>6 DEF ValueAt
  <2>8. Cardinality(Coded(w, a, b))
          = 1 + Cardinality(Coded(w, a, m - 1)) + Cardinality(Coded(w, m + 1, b))
    BY <1>5, <2>3, <2>4, CodedTwo
  <2>9. /\ C!Plain(ns)[g] /\ C!Size(ns)[g] = 1 + C!Size(ns)[i] + C!Size(ns)[j]
        /\ C!Eval(ns)[g] = BinaryVal(token_to_binop[w[m].type],
                                     C!Eval(ns)[i], C!Eval(ns)[j])
    BY <2>2, <2>4, <2>5, NodeValue DEF Computes
  <2> QED BY <1>5, <2>2, <2>5, <2>7, <2>8, <2>9 DEF Computes, val
<1> HIDE DEF Same
<1>11. Rules(ns, w, R)
  BY <1>1, <1>3, <1>7, <1>8, <1>9, <1>10 DEF Rules
<1>12. R \in SUBSET Triples(ns, w)
  BY <1>2
<1>13. <<k, lo, hi>> \in R
  BY <1>11, <1>12 DEF TreeOf
<1> QED BY <1>3, <1>13 DEF Same

-----------------------------------------------------------------------------
(***************************************************************************)
(* Meaning, statement by statement.                                        *)
(***************************************************************************)

\* Where a statement of expressions ends.
LEMMA StatementEndsAt ==
  ASSUME NEW T, NEW w \in Seq(T), NEW s, NEW e, PlainAt(w, s, e)
  PROVE  /\ EndOf(w, s) = e
         /\ \A p \in s .. e : w[p].type # "SEMICOLON"
         /\ s \in 1 .. Len(w) /\ e \in s .. Len(w)
<1>1. /\ Len(w) \in Nat /\ s \in 1 .. Len(w) /\ e \in s .. Len(w)
      /\ \A p \in s + 1 .. e : Regular(w, p)
      /\ w[s].type = "PRINT" \/ Regular(w, s)
      /\ e < Len(w) => w[e + 1].type = "SEMICOLON"
  BY PlainFacts DEF PlainAt, SimpleAt
<1>2. \A p \in s .. e : w[p].type # "SEMICOLON"
  <2> SUFFICES ASSUME NEW p \in s .. e
               PROVE  w[p].type # "SEMICOLON"
    OBVIOUS
  <2>1. p = s \/ p \in s + 1 .. e
    BY <1>1
  <2>2. w[p].type = "PRINT" \/ Regular(w, p)
    BY <1>1, <2>1
  <2> QED BY <2>2, TypeSets DEF Regular
<1> DEFINE Q == {p \in s .. Len(w) : w[p].type = "SEMICOLON"} \cup {Len(w) + 1}
<1>3. e + 1 \in Q
  <2>1. e = Len(w) \/ e < Len(w)
    BY <1>1
  <2>2. e < Len(w) => e + 1 \in s .. Len(w)
    BY <1>1
  <2> QED BY <1>1, <2>1, <2>2
<1>4. \A p \in Q : e + 1 <= p /\ p \in Int
  <2> SUFFICES ASSUME NEW p \in Q
               PROVE  e + 1 <= p /\ p \in Int
    OBVIOUS
  <2>1. p \in s .. Len(w) => p \notin s .. e
    BY <1>1, <1>2
  <2> QED BY <1>1, <2>1
<1> DEFINE m == CHOOSE x \in Q : \A y \in Q : x <= y
<1>5. Min(Q) = m
  BY Zenon DEF Min
<1> HIDE DEF Q
<1>6. m \in Q /\ \A y \in Q : m <= y
  BY <1>3, <1>4
<1> HIDE DEF m
<1>7. m = e + 1
  <2>1. m <= e + 1 /\ e + 1 <= m /\ m \in Int
    BY <1>3, <1>4, <1>6
  <2> QED BY <1>1, <2>1
<1>8. EndOf(w, s) = Min(Q) - 1
  BY DEF EndOf, Q
<1> QED BY <1>1, <1>2, <1>5, <1>7, <1>8

\* What is printed up to a word, from what is printed up to the one before.
LEMMA MeaningIs ==
  ASSUME NEW w, Len(w) \in Nat
  PROVE  /\ Meaning(w)[0] = << >>
         /\ \A n \in 1 .. Len(w) :
              /\ Begins(w, n) => Meaning(w)[n] = Meaning(w)[n - 1] \o Prints(w, n)
              /\ ~ Begins(w, n) => Meaning(w)[n] = Meaning(w)[n - 1]
         /\ \A n \in 0 .. Len(w) : \E V : Meaning(w)[n] \in Seq(V)
<1> DEFINE n == Len(w)
           X == {Values(w)[<<s + 1, EndOf(w, s)>>] : s \in 1 .. n}
           V == Seq(X)
           Step(p, v) == IF Begins(w, p) THEN v \o Prints(w, p) ELSE v
           StepsAt == [p \in 1 .. n |-> [v \in V |-> Step(p, v)]]
           Q(f) == f = [p \in 0 .. n |-> IF p = 0 THEN << >>
                                         ELSE IF Begins(w, p) THEN f[p - 1] \o Prints(w, p)
                                         ELSE f[p - 1]]
           d == Meaning(w)
<1>1. \A p \in 1 .. n : \A v \in V : StepsAt[p][v] = Step(p, v)
  OBVIOUS
<1>2. << >> \in V
  OBVIOUS
<1>3. \A p \in 1 .. n : \A v \in V : Step(p, v) \in V
  <2> SUFFICES ASSUME NEW p \in 1 .. n, NEW v \in V
               PROVE  Step(p, v) \in V
    OBVIOUS
  <2> DEFINE x == Values(w)[<<p + 1, EndOf(w, p)>>]
  <2>1. x \in X
    OBVIOUS
  <2>2. Prints(w, p) = <<x>> \/ Prints(w, p) = << >>
    BY DEF Prints
  <2> HIDE DEF X, x
  <2>3. <<x>> \in Seq(X) /\ << >> \in Seq(X)
    BY <2>1
  <2>4. v \o Prints(w, p) \in Seq(X)
    BY <2>2, <2>3, ConcatProperties
  <2> QED BY <2>4
<1> HIDE DEF StepsAt, n, V, X
<1>4. n \in Nat
  BY DEF n
<1>5. Chains(StepsAt, n, V)
  <2> HIDE DEF Step
  <2> QED BY <1>1, <1>3 DEF Chains
<1>6. HasChain(StepsAt, n, V, << >>)
  BY <1>2, <1>4, <1>5, Chain
<1>7. PICK f \in [0 .. n -> V] :
        f[0] = << >> /\ \A k \in 1 .. n : f[k] = StepsAt[k][f[k - 1]]
  BY <1>6 DEF HasChain
<1>8. \A k \in 1 .. n : f[k - 1] \in V /\ f[k] = Step(k, f[k - 1])
  <2> HIDE DEF Step
  <2>1. \A k \in 1 .. n : f[k - 1] \in V
    BY <1>4
  <2> QED BY <1>1, <1>7, <2>1
<1>9. Q(f)
  <2> DEFINE r == [p \in 0 .. n |-> IF p = 0 THEN << >> ELSE Step(p, f[p - 1])]
  <2>1. \A p \in 0 .. n : p # 0 => p \in 1 .. n
    BY <1>4
  <2> HIDE DEF Step
  <2>2. \A p \in 0 .. n : f[p] = r[p]
    BY <1>7, <1>8, <2>1
  <2>3. f = r
    BY <1>7, <2>2
  <2> USE DEF Step
  <2> QED BY <2>3, Zenon
<1>10. d = CHOOSE g : Q(g)
  BY DEF Meaning, n
<1> HIDE DEF d
<1>11. Q(d)
  <2> HIDE DEF Q
  <2> QED BY <1>9, <1>10
<1>12. /\ d[0] = << >>
       /\ \A p \in 1 .. n : d[p] = Step(p, d[p - 1])
  <2>1. \A p \in 0 .. n : d[p] = IF p = 0 THEN << >> ELSE Step(p, d[p - 1])
    BY <1>11, Zenon
  <2> HIDE DEF Step
  <2>2. 0 \in 0 .. n /\ \A p \in 1 .. n : p \in 0 .. n /\ p # 0
    BY <1>4
  <2> QED BY <2>1, <2>2
<1> HIDE DEF Q
<1> DEFINE Held == {p \in 0 .. n : d[p] \in V}
<1>13. 0 \in Held /\ \A p \in 1 .. n : p - 1 \in Held => p \in Held
  <2> HIDE DEF Step
  <2>1. 0 \in 0 .. n /\ \A p \in 1 .. n : p \in 0 .. n
    BY <1>4
  <2> QED BY <1>2, <1>3, <1>12, <2>1
<1>14. \A p \in 0 .. n : p \in Held
  <2> HIDE DEF Held
  <2> QED BY <1>4, <1>13, StepInduction
<1>15. \A p \in 0 .. n : \E Y : d[p] \in Seq(Y)
  BY <1>14 DEF V
<1>16. \A p \in 1 .. n : /\ Begins(w, p) => d[p] = d[p - 1] \o Prints(w, p)
                         /\ ~ Begins(w, p) => d[p] = d[p - 1]
  BY <1>12
<1> QED BY <1>12, <1>15, <1>16 DEF d, n

\* No statement begins in a stretch of words: nothing is printed there.
LEMMA NothingPrinted ==
  ASSUME NEW w, Len(w) \in Nat, NEW a \in 0 .. Len(w), NEW b \in a .. Len(w),
         \A p \in a + 1 .. b : ~ Begins(w, p)
  PROVE  Meaning(w)[b] = Meaning(w)[a]
<1> DEFINE Held == {p \in 0 .. b - a : Meaning(w)[a + p] = Meaning(w)[a]}
<1>1. b - a \in Nat /\ 0 \in Held
  OBVIOUS
<1>2. ASSUME NEW k \in 1 .. b - a, k - 1 \in Held
      PROVE  k \in Held
  <2>1. a + k \in 1 .. Len(w) /\ a + k \in a + 1 .. b /\ a + (k - 1) = (a + k) - 1
    OBVIOUS
  <2>2. Meaning(w)[a + k] = Meaning(w)[(a + k) - 1]
    BY <2>1, MeaningIs
  <2>3. Meaning(w)[a + (k - 1)] = Meaning(w)[a]
    BY <1>2
  <2> QED BY <2>1, <2>2, <2>3
<1> HIDE DEF Held
<1>3. \A k \in 0 .. b - a : k \in Held
  BY <1>1, <1>2, StepInduction
<1>4. b - a \in Held /\ a + (b - a) = b
  BY <1>3
<1> QED BY <1>4 DEF Held

\* A statement's tree prints what the statement means.
LEMMA StatementSpeaks ==
  ASSUME NEW T, NEW w \in Seq(T), Valued(w), Heap(nodes), NEW k \in DOMAIN nodes,
         NEW s, NEW e, PlainAt(w, s, e), StmtOf(nodes, w, k, s, e), IsStatement(w, s)
  PROVE  C!Fixed(k) /\ C!Utter(k) = Prints(w, s)
<1>1. EndOf(w, s) = e /\ s \in 1 .. Len(w) /\ e \in s .. Len(w) /\ Len(w) \in Nat
  BY StatementEndsAt DEF Valued
<1>2. Operable(w, First(w, s), e)
  BY <1>1 DEF IsStatement, Operable
<1>3. CASE PrintOf(nodes, w, k, s, e)
  <2>1. w[s].type = "PRINT" /\ nodes[k].kind = "Print" /\ First(w, s) = s + 1
    BY <1>3 DEF PrintOf, First
  <2>2. PICK j \in DOMAIN nodes : nodes[k].kids = <<j>> /\ Spans(nodes, w, j, s + 1, e)
    BY <1>3 DEF PrintOf
  <2>3. Computes(nodes, w, j, s + 1, e)
    BY <1>2, <2>1, <2>2, TreeValue DEF Spans
  <2>4. nodes[k].kids[1] = j
    BY <2>2
  <2>5. s < e
    BY <1>1, <2>2 DEF Spans, Expression
  <2>6. C!Size(nodes)[k] = Cardinality(Coded(w, s, e))
    <3>1. C!Size(nodes)[k] = 1 + C!Size(nodes)[j]
      BY <2>1, <2>2, NodeValue
    <3>2. Cardinality(Coded(w, s, e)) = 1 + Cardinality(Coded(w, s + 1, e))
      BY <1>1, <2>1, <2>5, CodedOne
    <3> QED BY <2>3, <3>1, <3>2 DEF Computes
  <2>7. C!Eval(nodes)[j] = Values(w)[<<s + 1, e>>] /\ C!Plain(nodes)[j]
    BY <2>3 DEF Computes
  <2>8. C!Fixed(k)
    BY <2>1, <2>4, <2>7 DEF C!Fixed
  <2> QED BY <1>1, <2>1, <2>4, <2>6, <2>7, <2>8 DEF C!Utter, Prints
<1>4. CASE First(w, s) = s /\ Spans(nodes, w, k, s, e)
  <2>1. w[s].type # "PRINT"
    BY <1>1, <1>4 DEF First
  <2>2. Computes(nodes, w, k, s, e)
    BY <1>2, <1>4, TreeValue DEF Spans
  <2> QED BY <2>1, <2>2 DEF Computes, C!Fixed, C!Utter, Prints
<1> QED BY <1>3, <1>4 DEF StmtOf

\* The trees of a program print what the program means.
LEMMA ProgramSpeaks ==
  ASSUME NEW T, NEW w \in Seq(T), Valued(w), Heap(nodes), stmts \in Seq(DOMAIN nodes),
         \A r \in DOMAIN w : Begins(w, r) => IsStatement(w, r),
         NEW s, Reached(w, s), ~ StartsAt(w, s), Laid(nodes, w, stmts, s)
  PROVE  /\ \A n \in 1 .. Len(stmts) : C!Fixed(stmts[n])
         /\ \E f : C!Utters(f) /\ f[Len(stmts)] = Meaning(w)[Len(w)]
<1> DEFINE N == Len(stmts)
           M == Meaning(w)
<1>1. Len(w) \in Nat /\ DOMAIN w = 1 .. Len(w) /\ N \in Nat
      /\ \A n \in 1 .. N : stmts[n] \in DOMAIN nodes
  BY LenProperties, ElementOfSeq
<1>2. PICK bs \in Seq(1 .. Len(w) + 1) :
        /\ Len(bs) = N + 1 /\ bs[1] = 1 /\ bs[Len(bs)] = s
        /\ \A i \in 1 .. N : /\ PlainAt(w, bs[i], bs[i + 1] - 2)
                             /\ StmtOf(nodes, w, stmts[i], bs[i], bs[i + 1] - 2)
  BY DEF Laid
<1> DEFINE f == [n \in 0 .. N |-> M[bs[n + 1] - 1]]
<1>3. \A n \in 0 .. N : n + 1 \in 1 .. N + 1 /\ bs[n + 1] \in 1 .. Len(w) + 1
  <2>1. \A n \in 0 .. N : n + 1 \in 1 .. Len(bs)
    BY <1>1, <1>2
  <2> QED BY <1>2, <2>1, ElementOfSeq
<1> HIDE DEF N, M
<1>4. f[0] = << >>
  <2>1. 0 \in 0 .. N /\ bs[0 + 1] - 1 = 0
    BY <1>1, <1>2
  <2> QED BY <1>1, <2>1, MeaningIs DEF M
<1>5. ASSUME NEW n \in 1 .. N
      PROVE  C!Fixed(stmts[n]) /\ f[n] = f[n - 1] \o C!Utter(stmts[n])
  <2> DEFINE a == bs[n]
             e == bs[n + 1] - 2
  <2>1. PlainAt(w, a, e) /\ StmtOf(nodes, w, stmts[n], a, e)
    BY <1>2
  <2>2. bs[n + 1] = e + 2 /\ bs[n + 1] \in 1 .. Len(w) + 1 /\ bs[n + 1] - 1 = e + 1
    <3>1. n \in 0 .. N
      BY <1>1
    <3>2. bs[n + 1] \in 1 .. Len(w) + 1
      BY <1>3, <3>1
    <3> QED BY <1>1, <3>2
  <2>3. f[n] = M[bs[n + 1] - 1] /\ f[n - 1] = M[a - 1]
    <3>1. n \in 0 .. N /\ n - 1 \in 0 .. N /\ (n - 1) + 1 = n
      BY <1>1
    <3> QED BY <3>1
  <2> HIDE DEF a, e, f
  <2>4. /\ a \in 1 .. Len(w) /\ e \in a .. Len(w)
        /\ \A p \in a .. e : w[p].type # "SEMICOLON"
    BY <2>1, StatementEndsAt
  <2>5. e + 1 \in 1 .. Len(w) /\ e + 1 \in a .. Len(w)
    BY <1>1, <2>2, <2>4
  <2>6. Begins(w, a)
    BY <1>1, <2>1, <2>4 DEF PlainAt, Begins
  <2>7. C!Fixed(stmts[n]) /\ C!Utter(stmts[n]) = Prints(w, a)
    <3>1. IsStatement(w, a) /\ stmts[n] \in DOMAIN nodes
      BY <1>1, <2>4, <2>6
    <3> QED BY <2>1, <3>1, StatementSpeaks
  <2>8. M[a] = M[a - 1] \o Prints(w, a)
    BY <1>1, <2>4, <2>6, MeaningIs DEF M
  <2>9. ASSUME NEW p \in a + 1 .. e + 1
        PROVE  ~ Begins(w, p)
    <3>1. p - 1 \in a .. e /\ p # 1
      BY <1>1, <2>4
    <3> QED BY <2>4, <3>1 DEF Begins, Reached, BeginsAt
  <2>10. M[e + 1] = M[a]
    <3>1. a \in 0 .. Len(w)
      BY <1>1, <2>4
    <3> QED BY <1>1, <2>5, <2>9, <3>1, NothingPrinted DEF M
  <2> QED BY <2>2, <2>3, <2>7, <2>8, <2>10
<1>6. f[N] = M[Len(w)]
  <2>1. N \in 0 .. N /\ bs[N + 1] = s /\ s \in 1 .. Len(w) + 1
    <3>1. N \in 0 .. N
      BY <1>1
    <3> QED BY <1>2, <1>3, <3>1
  <2>2. f[N] = M[s - 1]
    BY <2>1
  <2>3. s - 1 \in 0 .. Len(w) /\ Len(w) \in s - 1 .. Len(w)
        /\ (s - 1) + 1 .. Len(w) = s .. Len(w)
    BY <1>1, <2>1
  <2>4. ASSUME NEW p \in s .. Len(w)
        PROVE  ~ Begins(w, p)
    <3>1. p = s \/ s \in 1 .. p - 1
      BY <1>1, <2>1
    <3>2. BeginsAt(w, s)
      BY DEF Reached
    <3> QED BY <3>1, <3>2 DEF Begins, Reached
  <2>5. M[Len(w)] = M[s - 1]
    BY <1>1, <2>3, <2>4, NothingPrinted DEF M
  <2> QED BY <2>2, <2>5
<1> HIDE DEF f
<1>7. C!Utters(f)
  BY <1>4, <1>5 DEF C!Utters, N
<1> QED BY <1>5, <1>6, <1>7 DEF N, M

-----------------------------------------------------------------------------
L == INSTANCE ScannerProofs

LEMMA KeywordSame == S!getKeywordTokenType(word) = L!getKeywordTokenType(word)
<1>0. ASSUME NEW s PROVE S!Cardinality(s) = L!Cardinality(s)
  BY Zenon DEF S!Cardinality, L!Cardinality
<1>1. ASSUME NEW re, NEW i PROVE S!taken(re, i) = L!taken(re, i)
  BY <1>0 DEF S!taken, L!taken
<1>2. ASSUME NEW re, NEW s, NEW i PROVE S!fits(re, s, i) <=> L!fits(re, s, i)
  BY <1>1 DEF S!fits, L!fits
<1>3. ASSUME NEW re, NEW s PROVE S!bar(re, s) = L!bar(re, s)
  BY <1>1, <1>2 DEF S!bar, L!bar, S!SLRE_NO_MATCH, L!SLRE_NO_MATCH
<1>4. ASSUME NEW re, NEW s PROVE S!re_match(s, re) = L!re_match(s, re)
  BY Zenon, <1>3 DEF S!re_match, L!re_match, S!Tries, L!Tries
<1>5. S!KW_MATCH = L!KW_MATCH
  BY Zenon DEF S!KW_MATCH, L!KW_MATCH
<1>6. \A k : S!re_match(word, <<"^">> \o S!KW_MATCH[k][2] \o <<"$">>) = L!re_match(word, <<"^">> \o L!KW_MATCH[k][2] \o <<"$">>)
  BY Zenon, <1>4, <1>5
<1>7. {k \in DOMAIN S!KW_MATCH : S!re_match(word, <<"^">> \o S!KW_MATCH[k][2] \o <<"$">>)}
  = {k \in DOMAIN L!KW_MATCH : L!re_match(word, <<"^">> \o L!KW_MATCH[k][2] \o <<"$">>)}
  BY Zenon, <1>5, <1>6
<1> DEFINE hits == {k \in DOMAIN L!KW_MATCH : L!re_match(word, <<"^">> \o L!KW_MATCH[k][2] \o <<"$">>)}
<1>8. S!getKeywordTokenType(word) = IF hits = {} THEN "ID" ELSE S!KW_MATCH[CHOOSE k \in hits : \A h \in hits : k <= h][1]
  <2> DEFINE hitsS == {k \in DOMAIN S!KW_MATCH : S!re_match(word, <<"^">> \o S!KW_MATCH[k][2] \o <<"$">>)}
  <2>1. S!getKeywordTokenType(word) = IF hitsS = {} THEN "ID" ELSE S!KW_MATCH[CHOOSE k \in hitsS : \A h \in hitsS : k <= h][1]
    BY Zenon DEF S!getKeywordTokenType
  <2>2. hits = hitsS
    BY <1>7
  <2> HIDE DEF hits, hitsS
  <2> QED BY <2>1, <2>2
<1>9. L!getKeywordTokenType(word) = IF hits = {} THEN "ID" ELSE L!KW_MATCH[CHOOSE k \in hits : \A h \in hits : k <= h][1]
  BY Zenon DEF L!getKeywordTokenType
<1> HIDE DEF hits
<1> QED BY <1>5, <1>8, <1>9

LEMMA ScannerSame == S!Next => L!Next
<1> USE DEF S!NUL, L!NUL, S!Digits, L!Digits, S!Letters, L!Letters, S!Blanks,
   L!Blanks, S!SINGLE_CHAR_TOKEN, L!SINGLE_CHAR_TOKEN, S!ch, L!ch,
   S!Reading, L!Reading, S!advance, L!advance, S!tok, L!tok, S!Push, L!Push,
   S!Continue, L!Continue, S!Keep, L!Keep, S!WordChars, L!WordChars
<1>1. S!EndScan => L!EndScan
  BY DEF S!EndScan, L!EndScan
<1>2. S!Unimplemented => L!Unimplemented
  BY DEF S!Unimplemented, L!Unimplemented
<1>3. S!ReadOutside => L!ReadOutside
  BY DEF S!ReadOutside, L!ReadOutside
<1>4. S!BeginString => L!BeginString
  BY DEF S!BeginString, L!BeginString
<1>5. S!InString => L!InString
  BY DEF S!InString, L!InString
<1>6. S!EndString => L!EndString
  BY DEF S!EndString, L!EndString
<1>7. S!BeginComment => L!BeginComment
  BY DEF S!BeginComment, L!BeginComment
<1>8. S!InComment => L!InComment
  BY DEF S!InComment, L!InComment
<1>9. S!EndComment => L!EndComment
  BY DEF S!EndComment, L!EndComment
<1>10. S!BeginWord => L!BeginWord
  BY DEF S!BeginWord, L!BeginWord
<1>11. S!InWord => L!InWord
  BY DEF S!InWord, L!InWord
<1>12. S!EndWord => L!EndWord
  BY KeywordSame DEF S!EndWord, L!EndWord
<1>13. S!Blank => L!Blank
  BY DEF S!Blank, L!Blank
<1>14. S!SingleChar => L!SingleChar
  BY DEF S!SingleChar, L!SingleChar
<1> HIDE DEF S!NUL, L!NUL, S!Digits, L!Digits, S!Letters, L!Letters, S!Blanks,
   L!Blanks, S!SINGLE_CHAR_TOKEN, L!SINGLE_CHAR_TOKEN, S!ch, L!ch,
   S!Reading, L!Reading, S!advance, L!advance, S!tok, L!tok, S!Push, L!Push,
   S!Continue, L!Continue, S!Keep, L!Keep, S!WordChars, L!WordChars
<1> QED BY <1>1, <1>2, <1>3, <1>4, <1>5, <1>6, <1>7, <1>8, <1>9, <1>10, <1>11,
     <1>12, <1>13, <1>14
   DEF S!Next, L!Next

-----------------------------------------------------------------------------
\* What the scanner's say of a source.

LEMMA RolesSame ==
  /\ S!Null = L!Null /\ S!Role = L!Role
  /\ S!SINGLE_CHAR_TOKEN = L!SINGLE_CHAR_TOKEN /\ S!KW_MATCH = L!KW_MATCH
  /\ S!OpenEnd <=> L!OpenEnd
<1>1. S!Null = L!Null
  BY Zenon DEF S!Null, L!Null, S!NUL, L!NUL, S!Min, L!Min
<1>2. /\ S!Digits = L!Digits /\ S!Letters = L!Letters /\ S!Blanks = L!Blanks
      /\ S!SINGLE_CHAR_TOKEN = L!SINGLE_CHAR_TOKEN /\ S!KW_MATCH = L!KW_MATCH
  BY Zenon DEF S!Digits, L!Digits, S!Letters, L!Letters, S!Blanks, L!Blanks,
     S!SINGLE_CHAR_TOKEN, L!SINGLE_CHAR_TOKEN, S!KW_MATCH, L!KW_MATCH
<1>3. S!Role = L!Role
  BY Zenon DEF S!Role, L!Role, S!Null, L!Null, S!NUL, L!NUL, S!Min, L!Min,
     S!Digits, L!Digits, S!Letters, L!Letters, S!Blanks, L!Blanks,
     S!SINGLE_CHAR_TOKEN, L!SINGLE_CHAR_TOKEN
<1>4. S!OpenEnd <=> L!OpenEnd
  BY Zenon, <1>1, <1>3 DEF S!OpenEnd, L!OpenEnd
<1> QED BY <1>1, <1>2, <1>3, <1>4

LEMMA LexemesSame == S!Lexemes = L!Lexemes
<1>1. \A role : S!Starts(role) = L!Starts(role)
  <2>1. \A role : S!StartsUpTo(role) = L!StartsUpTo(role)
    BY Zenon DEF S!StartsUpTo, L!StartsUpTo
  <2>2. \A role : S!Unknown(role) = L!Unknown(role)
    BY Zenon DEF S!Unknown, L!Unknown
  <2>3. \A s : S!Min(s) = L!Min(s)
    BY Zenon DEF S!Min, L!Min
  <2> QED BY Zenon, <2>1, <2>2, <2>3, RolesSame DEF S!Starts, L!Starts
<1>2. \A role, p : S!LastOf(role, p) = L!LastOf(role, p)
  <2>1. \A s : S!Min(s) = L!Min(s) /\ S!Max(s) = L!Max(s)
    BY Zenon DEF S!Min, L!Min, S!Max, L!Max
  <2> QED BY Zenon, <2>1, RolesSame DEF S!LastOf, L!LastOf
<1>3. \A w : S!WordType(w) = L!WordType(w)
  BY Zenon DEF S!WordType, L!WordType, S!Range, L!Range, S!KW_MATCH, L!KW_MATCH
<1>4. \A q : S!Cardinality(S!Newlines(q)) = L!Cardinality(L!Newlines(q))
  BY Zenon DEF S!Cardinality, L!Cardinality, S!Newlines, L!Newlines
<1>5. \A role, p : S!LexemeAt(role, p) = L!LexemeAt(role, p)
  BY Zenon, <1>2, <1>3, <1>4, RolesSame DEF S!LexemeAt, L!LexemeAt
<1> QED BY Zenon, <1>1, <1>5, RolesSame DEF S!Lexemes, L!Lexemes

\* A source is read the same while the array is.
LEMMA SourceKept ==
  ASSUME buf' = buf
  PROVE  Words' = Words /\ (S!OpenEnd' <=> S!OpenEnd)
<1>1. S!Null' = S!Null
  BY DEF S!Null
<1>2. S!Role' = S!Role
  BY <1>1 DEF S!Role
<1>3. S!OpenEnd' <=> S!OpenEnd
  BY <1>1, <1>2 DEF S!OpenEnd
<1>4. S!Lexemes' = S!Lexemes
  BY <1>1, <1>2 DEF S!Lexemes, S!Starts, S!LexemeAt, S!LastOf, S!Newlines
<1>5. Words' = Words
  BY <1>4 DEF Words
<1> QED BY <1>3, <1>5

-----------------------------------------------------------------------------
O == INSTANCE ParserProofs WITH Inputs <- Seq(P!Token)

LEMMA ParserSame == P!Next => O!Next
<1> USE DEF P!PREC_NONE, O!PREC_NONE, P!PrefixPrec, O!PrefixPrec, P!BinaryTypes,
   O!BinaryTypes, P!InfixPrec, O!InfixPrec, P!AtEnd, O!AtEnd, P!TypeIn,
   O!TypeIn, P!currtype, O!currtype, P!lasttype, O!lasttype, P!Frame,
   O!Frame, P!ParseExpr, O!ParseExpr, P!InfixLoop, O!InfixLoop, P!Fn, O!Fn,
   P!Typed, O!Typed, P!Top, O!Top, P!Below, O!Below, P!Deliver, O!Deliver,
   P!New, O!New, P!NewAt, O!NewAt, P!Consume, O!Consume, P!Running,
   O!Running, P!Keep, O!Keep, P!Stop, O!Stop, P!Become, O!Become,
   P!ReturnNew, O!ReturnNew, P!Closing, O!Closing, P!Prefix, O!Prefix,
   P!CallPrefix, O!CallPrefix, P!LeafKind, O!LeafKind, P!LeafTypes, O!LeafTypes, P!Infix, O!Infix,
   P!CallInfix, O!CallInfix, P!StartsStatement, O!StartsStatement, P!Leaf,
   O!Leaf, P!Inner, O!Inner, P!Null, O!Null, P!Front, O!Front, P!Last,
   O!Last
<1>1. P!ParseNothing => O!ParseNothing
  BY DEF P!ParseNothing, O!ParseNothing
<1>2. P!ParseLeaf => O!ParseLeaf
  BY DEF P!ParseLeaf, O!ParseLeaf
<1>3. P!ParseUnaryOp => O!ParseUnaryOp
  BY DEF P!ParseUnaryOp, O!ParseUnaryOp
<1>4. P!ParseGrouping => O!ParseGrouping
  <2>1. P!Prefix({"LEFT_PAREN"})
       => O!Prefix({"LEFT_PAREN"})
    OBVIOUS
  <2>2. P!TypeIn(1) = O!TypeIn(1)
    OBVIOUS
  <2>3. P!New(<<P!Inner("Empty", "NONE", << >>)>>)
       => O!New(<<O!Inner("Empty", "NONE", << >>)>>)
    OBVIOUS
  <2>4. P!Become(<<P!InfixLoop(P!Top.prec, <<P!NewAt>>)>>)
       => O!Become(<<O!InfixLoop(O!Top.prec, <<O!NewAt>>)>>)
    OBVIOUS
  <2>5. P!Consume(2)
       => O!Consume(2)
    OBVIOUS
  <2>6. P!CallPrefix(<<P!Fn("Grouping", << >>),
                      P!ParseExpr(P!PrefixPrec("LEFT_PAREN"))>>)
       => O!CallPrefix(<<O!Fn("Grouping", << >>),
                      O!ParseExpr(O!PrefixPrec("LEFT_PAREN"))>>)
    OBVIOUS
  <2>7. P!Consume(1)
       => O!Consume(1)
    OBVIOUS
  <2>8. P!Keep
       => O!Keep
    OBVIOUS
  <2> HIDE DEF P!PREC_NONE, O!PREC_NONE, P!PrefixPrec, O!PrefixPrec, P!BinaryTypes,
     O!BinaryTypes, P!InfixPrec, O!InfixPrec, P!AtEnd, O!AtEnd, P!TypeIn,
     O!TypeIn, P!currtype, O!currtype, P!lasttype, O!lasttype, P!Frame,
     O!Frame, P!ParseExpr, O!ParseExpr, P!InfixLoop, O!InfixLoop, P!Fn,
     O!Fn, P!Typed, O!Typed, P!Top, O!Top, P!Below, O!Below, P!Deliver,
     O!Deliver, P!New, O!New, P!NewAt, O!NewAt, P!Consume, O!Consume,
     P!Running, O!Running, P!Keep, O!Keep, P!Stop, O!Stop, P!Become,
     O!Become, P!ReturnNew, O!ReturnNew, P!Closing, O!Closing, P!Prefix,
     O!Prefix, P!CallPrefix, O!CallPrefix, P!LeafKind, O!LeafKind, P!LeafTypes, O!LeafTypes, P!Infix,
     O!Infix, P!CallInfix, O!CallInfix, P!StartsStatement,
     O!StartsStatement, P!Leaf, O!Leaf, P!Inner, O!Inner, P!Null, O!Null,
     P!Front, O!Front, P!Last, O!Last
  <2> QED BY Zenon, <2>1, <2>2, <2>3, <2>4, <2>5, <2>6, <2>7, <2>8 DEF P!ParseGrouping, O!ParseGrouping
<1>5. P!ParseKeyword => O!ParseKeyword
  BY DEF P!ParseKeyword, O!ParseKeyword
<1>6. P!ParseFor => O!ParseFor
  BY DEF P!ParseFor, O!ParseFor
<1>7. P!ParseFnDef => O!ParseFnDef
  BY DEF P!ParseFnDef, O!ParseFnDef
<1>8. P!ParseBlockExpr => O!ParseBlockExpr
  BY DEF P!ParseBlockExpr, O!ParseBlockExpr
<1>9. P!PrefixBoom => O!PrefixBoom
  BY DEF P!PrefixBoom, O!PrefixBoom
<1>10. P!EndInfix => O!EndInfix
  BY DEF P!EndInfix, O!EndInfix
<1>11. P!ParseBinaryOp => O!ParseBinaryOp
  BY DEF P!ParseBinaryOp, O!ParseBinaryOp
<1>12. P!ParseCall => O!ParseCall
  <2>1. P!Infix({"LEFT_PAREN"})
       => O!Infix({"LEFT_PAREN"})
    OBVIOUS
  <2>2. P!Top = O!Top
    OBVIOUS
  <2>3. P!Stop("ABORT")
       => O!Stop("ABORT")
    OBVIOUS
  <2>4. P!TypeIn(1) = O!TypeIn(1)
    OBVIOUS
  <2>5. P!New(<<P!Inner("Empty", "NONE", << >>)>>)
       => O!New(<<O!Inner("Empty", "NONE", << >>)>>)
    OBVIOUS
  <2>6. P!CallInfix(<<P!Fn("Call", Append(P!Top.kids, P!NewAt))>>)
       => O!CallInfix(<<O!Fn("Call", Append(O!Top.kids, O!NewAt))>>)
    OBVIOUS
  <2>7. P!CallInfix(<<P!Fn("Call", P!Top.kids), P!ParseExpr(0)>>)
       => O!CallInfix(<<O!Fn("Call", O!Top.kids), O!ParseExpr(0)>>)
    OBVIOUS
  <2>8. P!Consume(1)
       => O!Consume(1)
    OBVIOUS
  <2>9. P!Keep
       => O!Keep
    OBVIOUS
  <2> HIDE DEF P!PREC_NONE, O!PREC_NONE, P!PrefixPrec, O!PrefixPrec, P!BinaryTypes,
     O!BinaryTypes, P!InfixPrec, O!InfixPrec, P!AtEnd, O!AtEnd, P!TypeIn,
     O!TypeIn, P!currtype, O!currtype, P!lasttype, O!lasttype, P!Frame,
     O!Frame, P!ParseExpr, O!ParseExpr, P!InfixLoop, O!InfixLoop, P!Fn,
     O!Fn, P!Typed, O!Typed, P!Top, O!Top, P!Below, O!Below, P!Deliver,
     O!Deliver, P!New, O!New, P!NewAt, O!NewAt, P!Consume, O!Consume,
     P!Running, O!Running, P!Keep, O!Keep, P!Stop, O!Stop, P!Become,
     O!Become, P!ReturnNew, O!ReturnNew, P!Closing, O!Closing, P!Prefix,
     O!Prefix, P!CallPrefix, O!CallPrefix, P!LeafKind, O!LeafKind, P!LeafTypes, O!LeafTypes, P!Infix,
     O!Infix, P!CallInfix, O!CallInfix, P!StartsStatement,
     O!StartsStatement, P!Leaf, O!Leaf, P!Inner, O!Inner, P!Null, O!Null,
     P!Front, O!Front, P!Last, O!Last
  <2> QED BY Zenon, <2>1, <2>2, <2>3, <2>4, <2>5, <2>6, <2>7, <2>8, <2>9 DEF P!ParseCall, O!ParseCall
<1>13. P!ParseSubscript => O!ParseSubscript
  BY DEF P!ParseSubscript, O!ParseSubscript
<1>14. P!ParseCommaList => O!ParseCommaList
  BY DEF P!ParseCommaList, O!ParseCommaList
<1>15. P!EndUnaryOp => O!EndUnaryOp
  BY DEF P!EndUnaryOp, O!EndUnaryOp
<1>16. P!EndGrouping => O!EndGrouping
  BY DEF P!EndGrouping, O!EndGrouping
<1>17. P!EndSimple => O!EndSimple
  BY DEF P!EndSimple, O!EndSimple
<1>18. P!EndCall => O!EndCall
  BY DEF P!EndCall, O!EndCall
<1>19. P!ForBody => O!ForBody
  BY DEF P!ForBody, O!ForBody
<1>20. P!FnDefBody => O!FnDefBody
  BY DEF P!FnDefBody, O!FnDefBody
<1>21. P!IfBody => O!IfBody
  BY DEF P!IfBody, O!IfBody
<1>22. P!IfElse => O!IfElse
  BY DEF P!IfElse, O!IfElse
<1>23. P!CommaListNext => O!CommaListNext
  BY DEF P!CommaListNext, O!CommaListNext
<1>24. P!ParseBlock => O!ParseBlock
  BY DEF P!ParseBlock, O!ParseBlock
<1>25. P!EndBlock => O!EndBlock
  BY DEF P!EndBlock, O!EndBlock
<1>26. P!NextStatement => O!NextStatement
  BY DEF P!NextStatement, O!NextStatement
<1>27. P!Terminator => O!Terminator
  BY DEF P!Terminator, O!Terminator
<1>28. P!EndStatements => O!EndStatements
  BY DEF P!EndStatements, O!EndStatements
<1> HIDE DEF P!PREC_NONE, O!PREC_NONE, P!PrefixPrec, O!PrefixPrec, P!BinaryTypes,
   O!BinaryTypes, P!InfixPrec, O!InfixPrec, P!AtEnd, O!AtEnd, P!TypeIn,
   O!TypeIn, P!currtype, O!currtype, P!lasttype, O!lasttype, P!Frame,
   O!Frame, P!ParseExpr, O!ParseExpr, P!InfixLoop, O!InfixLoop, P!Fn, O!Fn,
   P!Typed, O!Typed, P!Top, O!Top, P!Below, O!Below, P!Deliver, O!Deliver,
   P!New, O!New, P!NewAt, O!NewAt, P!Consume, O!Consume, P!Running,
   O!Running, P!Keep, O!Keep, P!Stop, O!Stop, P!Become, O!Become,
   P!ReturnNew, O!ReturnNew, P!Closing, O!Closing, P!Prefix, O!Prefix,
   P!CallPrefix, O!CallPrefix, P!LeafKind, O!LeafKind, P!LeafTypes, O!LeafTypes, P!Infix, O!Infix,
   P!CallInfix, O!CallInfix, P!StartsStatement, O!StartsStatement, P!Leaf,
   O!Leaf, P!Inner, O!Inner, P!Null, O!Null, P!Front, O!Front, P!Last,
   O!Last
<1> QED BY <1>1, <1>2, <1>3, <1>4, <1>5, <1>6, <1>7, <1>8, <1>9, <1>10, <1>11,
     <1>12, <1>13, <1>14, <1>15, <1>16, <1>17, <1>18, <1>19, <1>20, <1>21,
     <1>22, <1>23, <1>24, <1>25, <1>26, <1>27, <1>28
   DEF P!Next, O!Next
-----------------------------------------------------------------------------
\* What the parser's proofs say of a text.

LEMMA TablesSame ==
  /\ O!PREC_NONE = PREC_NONE /\ O!BinaryTypes = BinaryTypes
  /\ O!LeafKind = LeafKind /\ O!LeafTypes = LeafTypes /\ O!Closer = Closer
  /\ \A type : O!PrefixPrec(type) = PrefixPrec(type)
  /\ \A type : O!InfixPrec(type) = InfixPrec(type)
BY DEF O!PREC_NONE, PREC_NONE, O!BinaryTypes, BinaryTypes, O!LeafKind, LeafKind,
   O!LeafTypes, LeafTypes, O!Closer, Closer, O!PrefixPrec, PrefixPrec,
   O!InfixPrec, InfixPrec

LEMMA DueSame == \A s : O!Due(s) = Due(s)
<1>1. \A d, t : O!Meets(d, t) = Meets(d, t)
  BY TablesSame DEF O!Meets, Meets, O!Range, Range, O!Front, Front, O!Last, Last
<1> QED BY Zenon, <1>1 DEF O!Due, Due

LEMMA ExpressionSame ==
  /\ \A w, p : O!AfterOperand(w, p) <=> AfterOperand(w, p)
  /\ \A w, lo, hi : O!Expression(w, lo, hi) <=> Expression(w, lo, hi)
  /\ \A w, lo, p : O!Operator(w, lo, p) <=> Operator(w, lo, p)
  /\ \A w, p : O!Prefixed(w, p) <=> Prefixed(w, p)
  /\ \A w, s : O!Reached(w, s) <=> Reached(w, s)
  /\ \A w, s : O!StartsAt(w, s) <=> StartsAt(w, s)
  /\ \A w, s : O!First(w, s) = First(w, s)
  /\ \A w, s, e : O!SimpleAt(w, s, e) <=> SimpleAt(w, s, e)
  /\ \A w, s, e : O!PlainAt(w, s, e) <=> PlainAt(w, s, e)
  /\ \A w : O!Plainly(w) <=> Plainly(w)
<1> USE TablesSame, DueSame
<1>1. \A w, p : /\ O!EndsOperand(w, p) <=> EndsOperand(w, p)
                /\ O!AfterOperand(w, p) <=> AfterOperand(w, p)
  BY DEF O!EndsOperand, EndsOperand, O!AfterOperand, AfterOperand
<1>2. \A w, p : O!Regular(w, p) <=> Regular(w, p)
  BY <1>1 DEF O!Regular, Regular
<1>3. \A w, lo, p : O!DueIn(w, lo, p) = DueIn(w, lo, p)
  BY DEF O!DueIn, DueIn
<1>4. \A w, lo, hi : O!Expression(w, lo, hi) <=> Expression(w, lo, hi)
  BY <1>1, <1>2, <1>3 DEF O!Expression, Expression
<1>5. \A w, lo, p : O!Operator(w, lo, p) <=> Operator(w, lo, p)
  BY <1>1, <1>3 DEF O!Operator, Operator
<1>6. \A w, p : O!Prefixed(w, p) <=> Prefixed(w, p)
  BY <1>1 DEF O!Prefixed, Prefixed
<1>7. \A w, s : O!StartsAt(w, s) <=> StartsAt(w, s)
  BY DEF O!StartsAt, StartsAt
<1>8. \A w, s : O!Reached(w, s) <=> Reached(w, s)
  BY <1>7 DEF O!Reached, Reached, O!BeginsAt, BeginsAt
<1>9. \A w, s : O!First(w, s) = First(w, s)
  BY DEF O!First, First
<1>10. \A w, s, e : O!SimpleAt(w, s, e) <=> SimpleAt(w, s, e)
  BY <1>4, <1>9 DEF O!SimpleAt, SimpleAt
<1>11. \A w, s, e : O!PlainAt(w, s, e) <=> PlainAt(w, s, e)
  BY <1>7, <1>8, <1>10 DEF O!PlainAt, PlainAt
<1>12. \A w : O!Plainly(w) <=> Plainly(w)
  BY <1>7, <1>8, <1>10 DEF O!Plainly, Plainly
<1> QED BY <1>1, <1>4, <1>5, <1>6, <1>7, <1>8, <1>9, <1>10, <1>11, <1>12

LEMMA TreeSame ==
  \A ns, w, k, lo, hi : O!TreeOf(ns, w, k, lo, hi) <=> TreeOf(ns, w, k, lo, hi)
<1>1. \A w, lo, hi : O!Operators(w, lo, hi) = Operators(w, lo, hi)
  BY ExpressionSame DEF O!Operators, Operators
<1>2. /\ \A w, lo, hi, prec : O!Above(w, lo, hi, prec) <=> Above(w, lo, hi, prec)
      /\ \A w, lo, hi, prec : O!AtLeast(w, lo, hi, prec) <=> AtLeast(w, lo, hi, prec)
  BY TablesSame, <1>1 DEF O!Above, Above, O!AtLeast, AtLeast
<1>3. \A ns, w, k, lo : O!LeafAt(ns, w, k, lo) <=> LeafAt(ns, w, k, lo)
  BY TablesSame, ExpressionSame DEF O!LeafAt, LeafAt
<1>4. \A ns, w, k, j, lo, hi : O!UnaryAt(ns, w, k, j, lo, hi) <=> UnaryAt(ns, w, k, j, lo, hi)
  BY ExpressionSame, <1>1 DEF O!UnaryAt, UnaryAt
<1>5. \A w, lo, hi : O!GroupAt(w, lo, hi) <=> GroupAt(w, lo, hi)
  BY ExpressionSame DEF O!GroupAt, GroupAt
<1>6. \A ns, w, k, i, j, lo, m, hi :
        O!BinaryAt(ns, w, k, i, j, lo, m, hi) <=> BinaryAt(ns, w, k, i, j, lo, m, hi)
  BY TablesSame, ExpressionSame, <1>2 DEF O!BinaryAt, BinaryAt
<1>7. \A ns, w : O!Triples(ns, w) = Triples(ns, w)
  <2> SUFFICES ASSUME NEW ns, NEW w
               PROVE  O!Triples(ns, w) = Triples(ns, w)
    OBVIOUS
  <2> QED BY DEF O!Triples, Triples
<1>8. \A ns, w, R : O!Rules(ns, w, R) <=> Rules(ns, w, R)
  <2> SUFFICES ASSUME NEW ns, NEW w, NEW R
               PROVE  O!Rules(ns, w, R) <=> Rules(ns, w, R)
    OBVIOUS
  <2>1. ASSUME O!Rules(ns, w, R)
        PROVE  Rules(ns, w, R)
    BY <1>3, <1>4, <1>5, <1>6, <2>1 DEF O!Rules, Rules
  <2>2. ASSUME Rules(ns, w, R)
        PROVE  O!Rules(ns, w, R)
    BY <1>3, <1>4, <1>5, <1>6, <2>2 DEF O!Rules, Rules
  <2> QED BY <2>1, <2>2
<1> QED BY Zenon, <1>7, <1>8 DEF O!TreeOf, TreeOf

LEMMA LaidSame ==
  \A ns, w, ks, s : O!Laid(ns, w, ks, s) <=> Laid(ns, w, ks, s)
<1>1. \A ns, w, k, lo, hi : O!Spans(ns, w, k, lo, hi) <=> Spans(ns, w, k, lo, hi)
  BY ExpressionSame, TreeSame DEF O!Spans, Spans
<1>2. \A ns, w, k, s, e : O!PrintOf(ns, w, k, s, e) <=> PrintOf(ns, w, k, s, e)
  BY <1>1 DEF O!PrintOf, PrintOf
<1>3. \A ns, w, k, s, e : O!StmtOf(ns, w, k, s, e) <=> StmtOf(ns, w, k, s, e)
  BY <1>1, <1>2, ExpressionSame DEF O!StmtOf, StmtOf
<1>4. \A w, s, e : O!PlainAt(w, s, e) <=> PlainAt(w, s, e)
  BY ExpressionSame
<1>5. ASSUME NEW ns, NEW w, NEW ks, NEW s, O!Laid(ns, w, ks, s)
      PROVE  Laid(ns, w, ks, s)
  <2>1. PICK bs \in Seq(1 .. Len(w) + 1) :
          /\ Len(bs) = Len(ks) + 1 /\ bs[1] = 1 /\ bs[Len(bs)] = s
          /\ \A i \in 1 .. Len(ks) :
               /\ O!PlainAt(w, bs[i], bs[i + 1] - 2)
               /\ O!StmtOf(ns, w, ks[i], bs[i], bs[i + 1] - 2)
    BY Zenon, <1>5 DEF O!Laid
  <2>2. \A i \in 1 .. Len(ks) :
          /\ PlainAt(w, bs[i], bs[i + 1] - 2)
          /\ StmtOf(ns, w, ks[i], bs[i], bs[i + 1] - 2)
    BY <1>3, <1>4, <2>1
  <2> QED BY Zenon, <2>1, <2>2 DEF Laid
<1>6. ASSUME NEW ns, NEW w, NEW ks, NEW s, Laid(ns, w, ks, s)
      PROVE  O!Laid(ns, w, ks, s)
  <2>1. PICK bs \in Seq(1 .. Len(w) + 1) :
          /\ Len(bs) = Len(ks) + 1 /\ bs[1] = 1 /\ bs[Len(bs)] = s
          /\ \A i \in 1 .. Len(ks) :
               /\ PlainAt(w, bs[i], bs[i + 1] - 2)
               /\ StmtOf(ns, w, ks[i], bs[i], bs[i + 1] - 2)
    BY Zenon, <1>6 DEF Laid
  <2>2. \A i \in 1 .. Len(ks) :
          /\ O!PlainAt(w, bs[i], bs[i + 1] - 2)
          /\ O!StmtOf(ns, w, ks[i], bs[i], bs[i + 1] - 2)
    BY <1>3, <1>4, <2>1
  <2> QED BY Zenon, <2>1, <2>2 DEF O!Laid
<1> QED BY <1>5, <1>6

-----------------------------------------------------------------------------
LEMMA Assumed == L!BuffersAssumption /\ O!NumAssumption /\ O!InputsAssumption
<1>1. L!BuffersAssumption
  BY ArraysAssumption DEF L!BuffersAssumption, L!NUL, L!Range, Range
<1>2. O!NumAssumption
  BY NumAssumption DEF O!NumAssumption, O!ArithOps, O!OP_ADD, O!OP_SUB,
     O!OP_MULT, O!OP_DIV, ArithOps, OP_ADD, OP_SUB, OP_MULT, OP_DIV
<1>3. O!Token = P!Token
  <2>1. O!TokenType = P!TokenType
    BY DEF O!TokenType, P!TokenType
  <2>2. O!Value = P!Value
    BY DEF O!Value, P!Value, O!Null, P!Null
  <2>3. \A v : O!isString(v) <=> P!isString(v)
    BY DEF O!isString, P!isString
  <2> QED BY <2>1, <2>2, <2>3 DEF O!Token, P!Token
<1>4. O!InputsAssumption
  BY <1>3 DEF O!InputsAssumption
<1> QED BY <1>1, <1>2, <1>4

LEMMA ScannerFacts ==
  /\ L!Init => L!TypeInv /\ L!TextInv
  /\ L!TypeInv /\ L!TextInv /\ [L!Next]_(L!scanVars) => (L!TypeInv /\ L!TextInv)'
<1>1. L!BuffersAssumption
  BY Assumed
<1>2. L!Init => L!TypeInv
  BY <1>1, L!TypeInvInit
<1>3. L!Init => L!TextInv
  BY <1>1, L!TextInit
<1>4. L!TypeInv /\ [L!Next]_(L!scanVars) => L!TypeInv'
  BY <1>1, L!TypeInvStep
<1>5. L!TypeInv /\ L!TypeInv' /\ L!TextInv /\ [L!Next]_(L!scanVars) => L!TextInv'
  BY <1>1, L!TextStep
<1> QED BY <1>2, <1>3, <1>4, <1>5

LEMMA ParserFacts ==
  /\ O!Init => O!ParserInv
  /\ O!ParserInv /\ [O!Next]_(O!vars) => O!ParserInv'
  /\ O!ParserInv => O!TypeOK
  /\ O!Init => O!OwnerInv
  /\ O!ParserInv /\ O!OwnerInv /\ [O!Next]_(O!vars) => O!OwnerInv'
<1>1. O!NumAssumption /\ O!InputsAssumption
  BY Assumed
<1>2. O!Init => O!ParserInv
  BY <1>1, O!InitInv
<1>3. O!ParserInv /\ [O!Next]_(O!vars) => O!ParserInv'
  BY <1>1, O!ParserStep
<1>4. O!ParserInv => O!TypeOK
  BY DEF O!ParserInv
<1>5. O!Init => O!OwnerInv
  BY <1>1, O!InitOwner
<1>6. O!ParserInv /\ O!ParserInv' /\ O!OwnerInv /\ [O!Next]_(O!vars) => O!OwnerInv'
  BY <1>1, O!OwnerStep
<1> QED BY <1>2, <1>3, <1>4, <1>5, <1>6

LEMMA ParserBegins == (O!Init => O!ParserInv /\ O!OwnerInv)'
  BY ParserFacts, PTL

\* The trees of the parser are the heap that Handover speaks of.
LEMMA HeapSame == O!TypeOK => /\ \A i \in DOMAIN toks : toks[i] \in P!Token
                              /\ Heap(nodes)
                              /\ \A i \in DOMAIN stmts : stmts[i] \in DOMAIN nodes
<1> SUFFICES ASSUME O!TypeOK
             PROVE  /\ \A i \in DOMAIN toks : toks[i] \in P!Token
                    /\ Heap(nodes)
                    /\ \A i \in DOMAIN stmts : stmts[i] \in DOMAIN nodes
  OBVIOUS
<1>1. O!TokenType = TokenType /\ P!TokenType = TokenType
  BY DEF O!TokenType, P!TokenType, TokenType
<1>2. O!Value = Value /\ P!Value = Value
  BY DEF O!Value, P!Value, Value, O!Null, P!Null, Null
<1>3. \A v : (O!isString(v) <=> isString(v)) /\ (P!isString(v) <=> isString(v))
  BY DEF O!isString, P!isString, isString
<1>4. O!Kinds = Kinds /\ O!LeafKinds = LeafKinds
  BY DEF O!Kinds, Kinds, O!LeafKinds, LeafKinds
<1>5. O!Node = Node
  BY <1>1, <1>2, <1>4 DEF O!Node, Node
<1>6. Heap(nodes)
  BY <1>3, <1>4, <1>5 DEF O!TypeOK, O!Heap, Heap
<1>7. O!Token = P!Token
  BY <1>1, <1>2, <1>3 DEF O!Token, P!Token
<1>8. toks \in Seq(P!Token) /\ stmts \in Seq(DOMAIN nodes)
  BY <1>7 DEF O!TypeOK
<1>9. \A i \in DOMAIN toks : toks[i] \in P!Token
  BY <1>8, ElementOfSeq, LenProperties
<1>10. \A i \in DOMAIN stmts : stmts[i] \in DOMAIN nodes
  BY <1>8, ElementOfSeq, LenProperties
<1> QED BY <1>6, <1>9, <1>10

LEMMA ForestDone ==
  O!ParserInv /\ O!OwnerInv /\ outcome = "DONE" => Forest
<1> SUFFICES ASSUME O!ParserInv, O!OwnerInv, outcome = "DONE"
             PROVE  Forest
  OBVIOUS
<1>1. (\A s : O!Range(s) = Range(s)) /\ (\A s : O!IsInjective(s) <=> IsInjective(s))
  BY DEF O!Range, Range, O!IsInjective, IsInjective
<1>2. \A s : O!Cardinality(s) = Cardinality(s)
  BY Zenon DEF O!Cardinality, Cardinality
<1>3. calls = << >> /\ DOMAIN calls = {}
  BY DEF O!OwnerInv
<1> DEFINE H == O!Holdings(nodes, calls, stmts)
           N(k) == <<"node", k>>
           s == <<"stmts", 0>>
<1>4. /\ \A k \in DOMAIN nodes : N(k) \in DOMAIN H /\ H[N(k)] = nodes[k].kids
      /\ s \in DOMAIN H /\ H[s] = stmts
      /\ \A o \in DOMAIN H : (\E k \in DOMAIN nodes : o = N(k)) \/ o = s
      /\ \A k \in DOMAIN nodes : N(k) # s
      /\ \A j, k \in DOMAIN nodes : N(j) = N(k) => j = k
  BY <1>3 DEF O!Holdings, O!OwnersIn
<1>5. /\ \A o \in DOMAIN H : IsInjective(H[o])
      /\ \A o, p \in DOMAIN H : \A k \in Range(H[o]) : k \in Range(H[p]) => o = p
      /\ \A k \in DOMAIN nodes :
           nodes[k].kind # "Empty" => \E o \in DOMAIN H : k \in Range(H[o])
  BY <1>1 DEF O!OwnerInv, O!Owned
<1>6. O!Lost = {k \in DOMAIN nodes : \A o \in DOMAIN H : k \notin Range(H[o])}
  BY <1>1 DEF O!Lost, O!Unheld
<1>7. O!Cardinality(O!Lost) = O!Cardinality(Dropped)
  <2>1. O!Waits(calls) = {} /\ O!Elses(nodes) = Dropped
    BY <1>3 DEF O!Waits, O!Elses, Dropped
  <2>2. O!Cardinality({}) = 0
    BY <1>2, FS_EmptySet
  <2>3. O!Cardinality(Dropped) \in Nat
    <3>1. O!NumAssumption /\ O!InputsAssumption
      BY Assumed
    <3>2. O!Cardinality(O!Elses(nodes)) \in Nat
      BY <3>1, O!FiniteParts
    <3> QED BY <2>1, <3>2
  <2> QED BY <2>1, <2>2, <2>3 DEF O!OwnerInv
<1> HIDE DEF H, N, s
<1>8. \A k \in DOMAIN nodes :
        k \in Placed <=> \E o \in DOMAIN H : k \in Range(H[o])
  <2> SUFFICES ASSUME NEW k \in DOMAIN nodes
               PROVE  k \in Placed <=> \E o \in DOMAIN H : k \in Range(H[o])
    OBVIOUS
  <2>1. k \in Placed <=> \/ k \in Range(stmts)
                         \/ \E j \in DOMAIN nodes : k \in Range(nodes[j].kids)
    BY DEF Placed
  <2> QED BY <1>4, <2>1
<1>9. Unplaced = O!Lost
  BY <1>6, <1>8 DEF Unplaced
<1>10. Cardinality(Unplaced) = Cardinality(Dropped)
  BY <1>2, <1>7, <1>9
<1>11. \A k \in Unplaced : nodes[k].kind = "Empty"
  BY <1>5, <1>8 DEF Unplaced
<1>12. \A k \in DOMAIN nodes : nodes[k].kind = "Empty" => nodes[k].kids = << >>
  BY DEF O!OwnerInv
<1>13. \A j, k \in DOMAIN nodes : \A c \in Range(nodes[j].kids) :
         c \notin Range(stmts) /\ (c \in Range(nodes[k].kids) => j = k)
  BY <1>4, <1>5
<1>14. IsInjective(stmts) /\ \A k \in DOMAIN nodes : IsInjective(nodes[k].kids)
  BY <1>4, <1>5
<1>15. O!Heap(nodes) /\ stmts \in Seq(DOMAIN nodes)
  BY DEF O!ParserInv, O!TypeOK
<1>16. \A k \in DOMAIN nodes : nodes[k].kids \in Seq(DOMAIN nodes)
  <2>1. O!NumAssumption /\ O!InputsAssumption
    BY Assumed
  <2> QED BY <1>15, <2>1, O!KidsOfHeap
<1>17. \A k \in DOMAIN nodes : \A c \in Range(nodes[k].kids) : c < k
  BY <1>15 DEF O!Heap, Range
<1> QED BY <1>10, <1>11, <1>12, <1>13, <1>14, <1>15, <1>16, <1>17 DEF Forest

-----------------------------------------------------------------------------

\* What the parser starts from.
Unparsed == /\ tokit = 1 /\ calls = << >> /\ outcome = "parsing"
            /\ nodes = << >> /\ stmts = << >>

Deletion == {"cleanup", "returned"}

RunInv ==
  /\ phase = "scan" => L!TypeInv /\ L!TextInv /\ Unparsed
  /\ phase # "scan" => O!ParserInv /\ O!OwnerInv
  /\ phase \notin {"scan", "parse"} => outcome = "DONE"
  /\ phase \in Deletion => Deleting
  /\ phase = "returned" => doomed = << >>
  /\ phase \notin Deletion => freed = << >>

\* The text of a token is a string of the language, and a number for atof.
LEMMA TokensLexed ==
  ASSUME L!TypeInv, L!TextInv, NEW i \in DOMAIN tokens
  PROVE  Word(tokens[i]) \in P!Token
<1>1. tokens \in Seq(L!TokenRecord)
  BY DEF L!TypeInv
<1>2. PICK t : t = tokens[i]
  OBVIOUS
<1>3. t \in L!TokenRecord
  BY <1>1, <1>2, ElementOfSeq, LenProperties
<1>4. t.type \in L!ScanTypes
  BY <1>3 DEF L!TokenRecord
<1>5. t.str \in Str /\ Atof(t.str) \in Num
  <2>1. buf \in Buffers /\ t.str \in L!Texts
    BY <1>2 DEF L!TextInv
  <2>2. PICK k \in 1 .. Len(buf) + 1, j \in 0 .. Len(buf) :
           t.str = SubSeq(buf, k, j)
    BY <2>1 DEF L!Texts
  <2>3. SubSeq(buf, k, j) \in Str /\ Atof(SubSeq(buf, k, j)) \in Num
    BY <2>1, ArraysAssumption
  <2> QED BY <2>2, <2>3
<1>6. t.type \in P!TokenType
  <2>1. L!ScanTypes = L!Range(L!SINGLE_CHAR_TOKEN)
          \cup {L!KW_MATCH[k][1] : k \in DOMAIN L!KW_MATCH}
          \cup {"ID", "NUM", "STRING"}
    BY DEF L!ScanTypes
  <2>2. L!Range(L!SINGLE_CHAR_TOKEN) \subseteq P!TokenType
    BY Zenon DEF L!SINGLE_CHAR_TOKEN, P!TokenType, L!Range
  <2>3. \A k \in DOMAIN L!KW_MATCH : L!KW_MATCH[k][1] \in P!TokenType
    BY DEF L!KW_MATCH, P!TokenType
  <2>4. {"ID", "NUM", "STRING"} \subseteq P!TokenType
    BY DEF P!TokenType
  <2> QED BY <1>4, <2>1, <2>2, <2>3, <2>4
<1>7. LitOf(t) \in P!Value
  BY <1>5 DEF LitOf, P!Value, NumVal, StrVal, BoolVal, Null, P!Null
<1>8. t.type = "ID" => P!isString(LitOf(t))
  BY DEF LitOf, P!isString, StrVal
<1>9. Word(t) \in P!Token
  BY <1>6, <1>7, <1>8 DEF P!Token, Word
<1> QED BY <1>2, <1>9

LEMMA RunInit == Init => RunInv
<1> SUFFICES ASSUME Init
             PROVE  RunInv
  OBVIOUS
<1>1. L!Init
  BY DEF Init, S!Init, L!Init
<1>2. phase = "scan" /\ Unparsed /\ freed = << >>
  BY DEF Init, Unparsed
<1> QED BY <1>1, <1>2, ScannerFacts DEF RunInv, Deletion

\* G does not write to the trees.
LEMMA TreesKept == G!Next => UNCHANGED <<nodes, stmts>>
<1>1. G!BeginStmt => UNCHANGED <<nodes, stmts>>
  BY DEF G!BeginStmt
<1>2. G!Finish \/ G!RunStmt => UNCHANGED <<nodes, stmts>>
  BY DEF G!Finish, G!RunStmt, G!genVars
<1>3. ASSUME NEW do, G!Doing(do) PROVE UNCHANGED <<nodes, stmts>>
  BY <1>3 DEF G!Doing
<1>4. G!Codegen => \E do : G!Doing(do)
  BY Zenon DEF G!Codegen, G!GenLeaf, G!GenUnary, G!GenBinary, G!GenReturn,
     G!GenPrint, G!GenVarInit, G!GenVarNull, G!GenVarBad, G!GenUnimplemented,
     G!EmitOp, G!EmitBind, G!EmitBad, G!Visiting
<1> QED BY <1>1, <1>2, <1>3, <1>4 DEF G!Next

\* What the parser is given.
LEMMA ParseStarts == RunInv /\ StartParse => O!Init'
<1> SUFFICES ASSUME RunInv, StartParse
             PROVE  O!Init'
  OBVIOUS
<1>1. L!TypeInv /\ L!TextInv /\ Unparsed
  BY DEF StartParse, RunInv
<1>2. toks' \in Seq(P!Token)
  <2>1. tokens \in Seq(L!TokenRecord)
    BY <1>1 DEF L!TypeInv
  <2>2. Len(tokens) \in Nat /\ DOMAIN tokens = 1 .. Len(tokens)
    BY <2>1, LenProperties
  <2>3. toks' = [i \in 1 .. Len(tokens) |-> Word(tokens[i])]
    BY <2>2 DEF StartParse
  <2>4. \A i \in 1 .. Len(tokens) : Word(tokens[i]) \in P!Token
    BY <1>1, <2>2, TokensLexed
  <2> QED BY <2>2, <2>3, <2>4
<1> QED BY <1>1, <1>2
   DEF StartParse, Unparsed, O!Init, treeVars, O!Fn, P!Fn, O!Frame, P!Frame

LEMMA RunStep == RunInv /\ [Next]_vars => RunInv'
<1> SUFFICES ASSUME RunInv, [Next]_vars
             PROVE  RunInv'
  OBVIOUS
<1>1. CASE Scan
  <2>1. phase = "scan" /\ phase' = "scan" /\ L!Next
    BY <1>1, ScannerSame DEF Scan
  <2>2. L!TypeInv' /\ L!TextInv'
    BY <2>1, ScannerFacts DEF RunInv
  <2>3. Unparsed'
    BY <1>1, <2>1 DEF RunInv, Scan, parseVars, treeVars, Unparsed
  <2>4. freed' = << >>
    BY <1>1, <2>1 DEF RunInv, Scan, deleteVars, Deletion
  <2> QED BY <2>1, <2>2, <2>3, <2>4 DEF RunInv, Deletion
<1>2. CASE StartParse
  <2>1. O!ParserInv' /\ O!OwnerInv'
    BY <1>2, ParseStarts, ParserBegins
  <2>2. phase = "scan" /\ phase' = "parse"
    BY <1>2 DEF StartParse
  <2>3. freed' = << >>
    BY <1>2, <2>2 DEF RunInv, StartParse, deleteVars, Deletion
  <2> QED BY <2>1, <2>2, <2>3 DEF RunInv, Deletion
<1>3. CASE Parse
  <2>1. phase = "parse" /\ phase' = "parse" /\ O!Next
    BY <1>3, ParserSame DEF Parse
  <2>2. O!ParserInv' /\ O!OwnerInv'
    BY <2>1, ParserFacts DEF RunInv
  <2>3. freed' = << >>
    BY <1>3, <2>1 DEF RunInv, Parse, deleteVars, Deletion
  <2> QED BY <2>1, <2>2, <2>3 DEF RunInv, Deletion
<1>4. CASE StartCodegen \/ Codegen
  <2>1. /\ phase \in {"parse", "codegen"} /\ phase' = "codegen"
        /\ outcome = "DONE" /\ outcome' = "DONE"
    BY <1>4 DEF StartCodegen, Codegen, RunInv, parseVars
  <2>2. UNCHANGED O!vars
    BY <1>4, TreesKept
    DEF StartCodegen, Codegen, parseVars, treeVars, O!vars
  <2>3. freed' = << >>
    BY <1>4, <2>1 DEF StartCodegen, Codegen, deleteVars, RunInv, Deletion
  <2> QED BY <2>1, <2>2, <2>3, ParserFacts DEF RunInv, Deletion
<1>5. CASE StartCleanup \/ Delete \/ Return
  <2>1. /\ phase \notin {"scan", "parse"} /\ phase' \in Deletion
        /\ outcome = "DONE" /\ outcome' = "DONE"
    BY <1>5 DEF StartCleanup, Delete, Return, RunInv, parseVars, Deletion
  <2>2. UNCHANGED O!vars
    BY <1>5 DEF StartCleanup, Delete, Return, parseVars, treeVars, O!vars
  <2>3. O!ParserInv /\ O!OwnerInv /\ Forest
    BY <2>1, ForestDone DEF RunInv
  <2>4. O!ParserInv' /\ O!OwnerInv'
    BY <2>2, <2>3, ParserFacts
  <2>5. Deleting'
    <3>1. CASE StartCleanup
      <4>1. doomed' = stmts /\ freed' = << >> /\ UNCHANGED <<nodes, stmts>>
        BY <3>1 DEF StartCleanup, treeVars, RunInv, Deletion
      <4> QED BY <2>3, <4>1, DeletionBegins
    <3>2. CASE Delete
      <4>1. Deleting
        BY <3>2 DEF Delete, RunInv, Deletion
      <4> QED BY <2>3, <3>2, <4>1, DeletionGoesOn
    <3>3. CASE Return
      <4>1. Deleting
        BY <3>3 DEF Return, RunInv, Deletion
      <4>2. UNCHANGED <<nodes, stmts, doomed, freed>>
        BY <3>3 DEF Return, treeVars, deleteVars
      <4> QED BY <4>1, <4>2 DEF Deleting, Met
    <3> QED BY <1>5, <3>1, <3>2, <3>3
  <2>6. phase' = "returned" => doomed' = << >>
    BY <1>5 DEF StartCleanup, Delete, Return, deleteVars
  <2> QED BY <2>1, <2>4, <2>5, <2>6 DEF RunInv, Deletion
<1>6. CASE UNCHANGED vars
  <2>1. UNCHANGED <<phase, outcome, doomed, freed, nodes, stmts>>
    BY <1>6 DEF vars, parseVars, treeVars, deleteVars
  <2>2. Deleting => Deleting'
    BY <2>1 DEF Deleting, Met
  <2>3. CASE phase = "scan"
    <3>1. UNCHANGED L!scanVars
      BY <1>6 DEF vars, scanVars, L!scanVars
    <3>2. Unparsed'
      BY <1>6, <2>3 DEF vars, parseVars, treeVars, Unparsed, RunInv
    <3>3. L!TypeInv' /\ L!TextInv'
      BY <2>3, <3>1, ScannerFacts DEF RunInv
    <3> QED BY <2>1, <2>3, <3>2, <3>3 DEF RunInv, Deletion
  <2>4. CASE phase # "scan"
    <3>1. UNCHANGED O!vars
      BY <1>6 DEF vars, parseVars, treeVars, O!vars
    <3>2. O!ParserInv' /\ O!OwnerInv'
      BY <2>4, <3>1, ParserFacts DEF RunInv
    <3> QED BY <2>1, <2>2, <2>4, <3>2 DEF RunInv
  <2> QED BY <2>3, <2>4
<1> QED BY <1>1, <1>2, <1>3, <1>4, <1>5, <1>6 DEF Next

\* The composition hands over what the components are specified for: the
\* parser gets tokens of its own types, and codegen trees of the shapes that
\* its bodies dereference, whatever the source.
THEOREM RunFileHandover == Spec => []Handover
<1>1. RunInv => Handover
  BY ParserFacts, HeapSame DEF RunInv, Handover
<1> QED BY <1>1, RunInit, RunStep, PTL DEF Spec

LEMMA DeletedAll == RunInv => DeletedOnce
<1> SUFFICES ASSUME RunInv
             PROVE  DeletedOnce
  OBVIOUS
<1>1. ASSUME phase = "cleanup"
      PROVE  IsInjective(freed \o doomed)
  <2>1. Deleting
    BY <1>1 DEF RunInv, Deletion
  <2> QED BY <2>1, ConcatOnce DEF Deleting
<1>2. ASSUME phase = "returned"
      PROVE  /\ \A k \in DOMAIN nodes \ Range(freed) : nodes[k].kind = "Empty"
             /\ Cardinality(DOMAIN nodes \ Range(freed)) = Cardinality(Dropped)
  <2>1. /\ O!ParserInv /\ O!OwnerInv /\ outcome = "DONE"
        /\ Deleting /\ doomed = << >>
    BY <1>2 DEF RunInv, Deletion
  <2>2. Forest
    BY <2>1, ForestDone
  <2>3. nodes \in Seq(Node)
    BY <2>1, ParserFacts, HeapSame DEF Heap
  <2>4. DOMAIN nodes \ Range(freed) = Unplaced
    BY <2>1, <2>2, <2>3, DeletionEnds
  <2> QED BY <2>2, <2>4 DEF Forest
<1> QED BY <1>1, <1>2 DEF DeletedOnce

\* Whatever the source, run_file's deletes free no node twice, and when it
\* returns all that the parser allocated is freed but one EmptyExpr for each if
\* with an else.
THEOREM RunFileDeletes == Spec => []DeletedOnce
BY RunInit, RunStep, DeletedAll, PTL DEF Spec

-----------------------------------------------------------------------------
(***************************************************************************)
(* The output.  While the scanner reads, its tokens are the lexemes that   *)
(* were read; the parser lays trees along their words; and what the VM has *)
(* printed is what the trees of the statements that ran say.               *)
(***************************************************************************)

\* The scanner's tokens are the words of the source.
LEMMA WordsScanned ==
  ASSUME L!TypeInv, L!LexInv, scan = "DONE", ~ S!OpenEnd
  PROVE  [i \in DOMAIN tokens |-> Word(tokens[i])] = Words
<1>1. L!Seen = S!Lexemes
  <2>1. L!BuffersAssumption
    BY Assumed
  <2>2. L!LexesSource
    BY <2>1, L!LexInvLexes
  <2>3. ~ L!OpenEnd
    BY RolesSame
  <2>4. L!Seen = L!Lexemes
    BY <2>2, <2>3 DEF L!LexesSource
  <2> QED BY <2>4, LexemesSame
<1>2. DOMAIN L!Seen = DOMAIN tokens
  BY DEF L!Seen
<1>3. ASSUME NEW i \in DOMAIN tokens
      PROVE  Word(tokens[i]) = Word(L!Seen[i])
  <2>1. L!Seen[i].type = tokens[i].type /\ L!Seen[i].str = tokens[i].str
    BY DEF L!Seen
  <2> QED BY <2>1 DEF Word, LitOf
<1> HIDE DEF L!Seen
<1> QED BY <1>1, <1>2, <1>3 DEF Words

LEMMA PrecFacts ==
  /\ O!Init => O!PrecInv
  /\ O!ParserInv /\ O!PrecInv /\ [O!Next]_(O!vars) => O!PrecInv'
<1>1. O!NumAssumption /\ O!InputsAssumption
  BY Assumed
<1>2. O!Init => O!PrecInv
  BY <1>1, O!InitPrec
<1>3. O!ParserInv /\ O!ParserInv' /\ O!PrecInv /\ [O!Next]_(O!vars) => O!PrecInv'
  BY <1>1, O!PrecStep
<1> QED BY <1>2, <1>3, ParserFacts

LEMMA PrecBegins == (O!Init => O!PrecInv)'
  BY PrecFacts, PTL

LEMMA SpeechStep ==
  ASSUME C!RefInv, C!UtterInv, [C!Next]_(C!vars)
  PROVE  C!RefInv' /\ C!UtterInv'
<1>1. C!RefInv'
  BY GenAssumed, C!PositionStep
<1> QED BY <1>1, GenAssumed, C!UtterStep

\* What the code generator starts from.
Unrun == /\ G!NoVM /\ status = "idle" /\ printed = << >>
         /\ cur = 0 /\ work = << >> /\ mark = 0

LEMMA UnrunKept == Unrun /\ UNCHANGED genVars => Unrun'
  BY DEF Unrun, genVars, G!NoVM, G!EmptyChunk, G!NoVars

LEMMA SpeechBegins ==
  ASSUME Unrun, O!TypeOK
  PROVE  C!RefInv /\ C!UtterInv
<1>1. C!NoVM
  BY ValsSame DEF Unrun, G!NoVM, C!NoVM, G!EmptyChunk, C!EmptyChunk
<1>2. C!Heap(nodes) /\ stmts \in Seq(DOMAIN nodes)
  BY HeapSame, HeapOfGen DEF O!TypeOK
<1>3. C!Begun
  BY <1>1, <1>2 DEF Unrun, C!Begun
<1> QED BY <1>3, GenAssumed, C!UtterBegin

MeanInv ==
  /\ phase = "scan" => L!LexInv
  /\ phase \in {"scan", "parse"} => Unrun
  /\ phase # "scan" => O!PrecInv /\ (~ S!OpenEnd => toks = Words)
  /\ phase \notin {"scan", "parse"} => C!RefInv /\ C!UtterInv
  /\ phase \in Deletion => status = "DONE"

LEMMA MeanInit == Init => MeanInv
<1> SUFFICES ASSUME Init
             PROVE  MeanInv
  OBVIOUS
<1>1. L!Init
  BY DEF Init, S!Init, L!Init
<1>2. L!LexInv
  BY <1>1, Assumed, L!LexInvInit
<1>3. phase = "scan" /\ Unrun
  BY DEF Init, Unrun
<1> QED BY <1>2, <1>3 DEF MeanInv, Deletion

LEMMA MeanStep == RunInv /\ MeanInv /\ [Next]_vars => MeanInv'
<1> SUFFICES ASSUME RunInv, MeanInv, [Next]_vars
             PROVE  MeanInv'
  OBVIOUS
<1>1. CASE Scan
  <2>1. phase = "scan" /\ phase' = "scan" /\ L!Next
    BY <1>1, ScannerSame DEF Scan
  <2>2. L!LexInv'
    <3>1. L!TypeInv /\ L!LexInv
      BY <2>1 DEF RunInv, MeanInv
    <3> QED BY <2>1, <3>1, Assumed, L!LexInvStep
  <2>3. UNCHANGED genVars
    BY <1>1 DEF Scan
  <2>4. Unrun'
    BY <2>1, <2>3, UnrunKept DEF MeanInv
  <2> QED BY <2>1, <2>2, <2>4 DEF MeanInv, Deletion
<1>2. CASE StartParse
  <2>1. /\ phase = "scan" /\ phase' = "parse" /\ scan = "DONE" /\ buf' = buf
        /\ toks' = [i \in DOMAIN tokens |-> Word(tokens[i])]
        /\ UNCHANGED genVars
    BY <1>2 DEF StartParse, scanVars
  <2>2. L!TypeInv /\ L!LexInv /\ Unrun
    BY <2>1 DEF RunInv, MeanInv
  <2>3. O!PrecInv'
    BY <1>2, ParseStarts, PrecBegins
  <2>4. ~ S!OpenEnd' => toks' = Words'
    BY <2>1, <2>2, WordsScanned, SourceKept
  <2>5. Unrun'
    BY <2>1, <2>2, UnrunKept
  <2> QED BY <2>1, <2>3, <2>4, <2>5 DEF MeanInv, Deletion
<1>3. CASE Parse
  <2>1. phase = "parse" /\ phase' = "parse" /\ O!Next /\ buf' = buf
        /\ UNCHANGED genVars
    BY <1>3, ParserSame DEF Parse, scanVars
  <2>2. O!ParserInv /\ O!PrecInv /\ Unrun /\ (~ S!OpenEnd => toks = Words)
    BY <2>1 DEF RunInv, MeanInv
  <2>3. O!PrecInv'
    BY <2>1, <2>2, PrecFacts
  <2>4. toks' = toks
    BY <2>1, Assumed, O!NextKeeps
  <2>5. ~ S!OpenEnd' => toks' = Words'
    BY <2>1, <2>2, <2>4, SourceKept
  <2>6. Unrun'
    BY <2>1, <2>2, UnrunKept
  <2> QED BY <2>1, <2>3, <2>5, <2>6 DEF MeanInv, Deletion
<1>4. CASE \/ StartCodegen \/ Codegen \/ StartCleanup \/ Delete \/ Return
  <2>1. phase # "scan" /\ phase' \notin {"scan", "parse"} /\ buf' = buf
    BY <1>4 DEF StartCodegen, Codegen, StartCleanup, Delete, Return, scanVars
  <2>2. UNCHANGED O!vars
    BY <1>4, TreesKept
    DEF StartCodegen, Codegen, StartCleanup, Delete, Return, parseVars, treeVars,
        O!vars
  <2>3. O!ParserInv /\ O!PrecInv /\ (~ S!OpenEnd => toks = Words)
    BY <2>1 DEF RunInv, MeanInv
  <2>4. O!PrecInv'
    BY <2>2, <2>3, PrecFacts
  <2>5. ~ S!OpenEnd' => toks' = Words'
    BY <2>1, <2>2, <2>3, SourceKept DEF O!vars
  <2>6. [C!Next]_(C!vars)
    <3>1. CASE Codegen
      BY <3>1, GenSame DEF Codegen
    <3>2. CASE StartCodegen \/ StartCleanup \/ Delete \/ Return
      BY <3>2
      DEF StartCodegen, StartCleanup, Delete, Return, treeVars, genVars, C!vars,
          C!vmVars, C!chunkVars, C!execVars, C!genVars
    <3> QED BY <1>4, <3>1, <3>2
  <2>7. C!RefInv /\ C!UtterInv
    <3>1. CASE StartCodegen
      <4>1. Unrun /\ O!TypeOK
        BY <2>3, <3>1, ParserFacts DEF StartCodegen, MeanInv
      <4> QED BY <4>1, SpeechBegins
    <3>2. CASE Codegen \/ StartCleanup \/ Delete \/ Return
      BY <3>2 DEF Codegen, StartCleanup, Delete, Return, MeanInv
    <3> QED BY <1>4, <3>1, <3>2
  <2>8. C!RefInv' /\ C!UtterInv'
    BY <2>6, <2>7, SpeechStep
  <2>9. phase' \in Deletion => status' = "DONE"
    <3>1. CASE StartCodegen \/ Codegen
      BY <3>1 DEF StartCodegen, Codegen, Deletion
    <3>2. CASE StartCleanup \/ Delete \/ Return
      BY <3>2 DEF StartCleanup, Delete, Return, genVars, MeanInv, Deletion
    <3> QED BY <1>4, <3>1, <3>2
  <2> QED BY <2>1, <2>4, <2>5, <2>8, <2>9 DEF MeanInv
<1>5. CASE UNCHANGED vars
  <2>1. /\ UNCHANGED <<phase, status, toks, buf>> /\ UNCHANGED genVars
        /\ UNCHANGED L!scanVars /\ UNCHANGED O!vars /\ UNCHANGED C!vars
    BY <1>5
    DEF vars, scanVars, L!scanVars, parseVars, treeVars, O!vars, genVars, C!vars,
        C!vmVars, C!chunkVars, C!execVars, C!genVars
  <2>2. phase = "scan" => L!LexInv'
    BY <2>1, Assumed, L!LexInvStep DEF RunInv, MeanInv
  <2>3. phase \in {"scan", "parse"} => Unrun'
    BY <2>1, UnrunKept DEF MeanInv
  <2>4. phase # "scan" => O!PrecInv' /\ (~ S!OpenEnd' => toks' = Words')
    BY <2>1, PrecFacts, SourceKept DEF RunInv, MeanInv
  <2>5. phase \notin {"scan", "parse"} => C!RefInv' /\ C!UtterInv'
    BY <2>1, SpeechStep DEF MeanInv
  <2> QED BY <2>1, <2>2, <2>3, <2>4, <2>5 DEF MeanInv
<1> QED BY <1>1, <1>2, <1>3, <1>4, <1>5 DEF Next

LEMMA MeansPrinted == RunInv /\ MeanInv => PrintsMeaning
<1> SUFFICES ASSUME RunInv, MeanInv, phase = "returned", ~ S!OpenEnd,
                    \A s \in DOMAIN Words : Begins(Words, s) => IsStatement(Words, s)
             PROVE  printed = Meaning(Words)[Len(Words)]
  BY DEF PrintsMeaning
<1>1. /\ O!ParserInv /\ O!PrecInv /\ outcome = "DONE" /\ status = "DONE"
      /\ C!RefInv /\ C!UtterInv /\ toks = Words
  BY DEF RunInv, MeanInv, Deletion
<1>2. O!TypeOK
  BY <1>1, ParserFacts
<1>3. Heap(nodes) /\ stmts \in Seq(DOMAIN nodes)
  BY <1>2, HeapSame DEF O!TypeOK
<1>4. toks \in Seq(O!Token) /\ Valued(toks)
  <2>1. toks \in Seq(O!Token)
    BY <1>2 DEF O!TypeOK
  <2>2. Len(toks) \in Nat /\ DOMAIN toks = 1 .. Len(toks)
    BY <2>1, LenProperties
  <2>3. \A i \in DOMAIN toks : toks[i] \in P!Token
    BY <1>2, HeapSame
  <2>4. \A i \in DOMAIN toks : toks[i].lit \in Value
    BY <2>3 DEF P!Token, P!Value, Value, P!Null, Null
  <2> QED BY <2>1, <2>2, <2>4 DEF Valued
<1>5. \A r \in DOMAIN toks : Begins(toks, r) => IsStatement(toks, r)
  BY <1>1
<1>6. Plainly(toks)
  <2> SUFFICES ASSUME NEW s \in 1 .. Len(toks), Reached(toks, s), StartsAt(toks, s)
               PROVE  \E e \in s .. Len(toks) : SimpleAt(toks, s, e)
    BY DEF Plainly
  <2>1. IsStatement(toks, s)
    BY <1>4, <1>5 DEF Begins, Valued
  <2>2. SimpleAt(toks, s, EndOf(toks, s))
    BY <2>1 DEF IsStatement
  <2> QED BY <2>2 DEF SimpleAt
<1>7. PICK s : Reached(toks, s) /\ ~ StartsAt(toks, s) /\ Laid(nodes, toks, stmts, s)
  <2>1. O!Plainly(toks)
    BY <1>6, ExpressionSame
  <2>2. PICK s : /\ O!Reached(toks, s) /\ ~ O!StartsAt(toks, s)
                 /\ O!Laid(nodes, toks, stmts, s)
    BY <1>1, <2>1 DEF O!PrecInv
  <2> QED BY <2>2, ExpressionSame, LaidSame
<1>8. /\ \A n \in 1 .. Len(stmts) : C!Fixed(stmts[n])
      /\ \E f : C!Utters(f) /\ f[Len(stmts)] = Meaning(toks)[Len(toks)]
  BY <1>3, <1>4, <1>5, <1>7, ProgramSpeaks
<1>9. PICK f : C!Utters(f) /\ f[Len(stmts)] = Meaning(toks)[Len(toks)]
  BY <1>8
<1>10. printed = f[Len(stmts)]
  BY <1>1, <1>8, <1>9, GenAssumed, C!UtterEnd
<1> QED BY <1>1, <1>9, <1>10

\* From the characters to the output, for sources of any length: when run_file
\* returns from a source of expressions and prints, what was printed is what
\* the words of the source mean, statement by statement in their order, but for
\* the statements that do not fit the budget and those after the first token
\* that cannot start one.
THEOREM RunFilePrintsMeaning == Spec => []PrintsMeaning
<1>1. Init => RunInv /\ MeanInv
  BY RunInit, MeanInit
<1>2. RunInv /\ MeanInv /\ [Next]_vars => (RunInv /\ MeanInv)'
  BY RunStep, MeanStep
<1>3. RunInv /\ MeanInv => PrintsMeaning
  BY MeansPrinted
<1> QED BY <1>1, <1>2, <1>3, PTL DEF Spec
=============================================================================
