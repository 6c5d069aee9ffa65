------------------------------ MODULE Bytecode ------------------------------
(***************************************************************************)
(* The opcodes of opcode_def.hpp and the tagged union Value of vm.hpp,     *)
(* with the effect of UNARY_OP and BINARY_OP on values.                    *)
(*                                                                         *)
(* An opcode is its enumerator's number, because a Chunk stores constant   *)
(* indices in the same std::vector<OpCode>: a word of the instruction      *)
(* stream does not say which of the two it is.                             *)
(*                                                                         *)
(* A C++ double is a member of the set Num with IEEE arithmetic given by   *)
(* the operators FNeg, FArith and FEq; nothing below depends on what they  *)
(* compute.  -0.0 is identified with 0.0.                                  *)
(***************************************************************************)
EXTENDS Integers, Sequences

CONSTANTS
  Num,            \* the doubles
  Str,            \* string payloads: literals and names
  OfInt(_),       \* conversion int -> double, used on -1 .. 2
  FNeg(_),        \* - on doubles
  FArith(_,_,_),  \* FArith(op, a, b): + - * / on doubles
  FEq(_,_)        \* == on doubles (not reflexive: NaN)

-----------------------------------------------------------------------------

OP_NOP           == 0
OP_CONST         == 1
OP_POP           == 2
OP_NOT           == 3
OP_NEG           == 4
OP_ADD           == 5
OP_SUB           == 6
OP_MULT          == 7
OP_DIV           == 8
OP_OR            == 9
OP_AND           == 10
OP_CMP           == 11
OP_PRINT         == 12
OP_DEFINE_GLOBAL == 13
OP_DEFINE_LOCAL  == 14
OP_RET           == 15
OP_EOF           == 16

OpCode    == 0 .. 16
ArithOps  == {OP_ADD, OP_SUB, OP_MULT, OP_DIV}
BinaryOps == ArithOps \cup {OP_OR, OP_AND, OP_CMP}
UnaryOps  == {OP_NOT, OP_NEG}
DefineOps == {OP_DEFINE_GLOBAL, OP_DEFINE_LOCAL}

\* The instructions whose next word is a constant index, as list() tests it.
TakesOperand(op) == op \in {OP_CONST} \cup DefineOps

-----------------------------------------------------------------------------

Null       == [tag |-> "VAL_NULL"]
NumVal(n)  == [tag |-> "VAL_NUM", num |-> n]
BoolVal(b) == [tag |-> "VAL_BOOL", boolean |-> b]
StrVal(s)  == [tag |-> "VAL_STR", str |-> s]

Value == {Null}
         \cup [tag : {"VAL_NUM"}, num : Num]
         \cup [tag : {"VAL_BOOL"}, boolean : BOOLEAN]
         \cup [tag : {"VAL_STR"}, str : Str]

isNum(v)    == v.tag = "VAL_NUM"
isBool(v)   == v.tag = "VAL_BOOL"
isString(v) == v.tag = "VAL_STR"

Truthy(n) == n # OfInt(0)

\* Value::asBool: null and every string are false.
asBool(v) == \/ isBool(v) /\ v.boolean
             \/ isNum(v) /\ Truthy(v.num)

\* bool promoted to int, as the arithmetic operators do to asBool's result.
AsInt(b) == IF b THEN 1 ELSE 0

-----------------------------------------------------------------------------

\* UNARY_OP writes the payload in place and leaves the tag: ! on a number
\* stays a number, - on a bool goes through int and back, and a null or a
\* string is left alone.
UnaryVal(op, v) ==
  CASE isNum(v)  -> NumVal(IF op = OP_NEG THEN FNeg(v.num)
                           ELSE OfInt(AsInt(~ Truthy(v.num))))
    [] isBool(v) -> BoolVal(IF op = OP_NEG THEN v.boolean ELSE ~ v.boolean)
    [] OTHER     -> v

BoolArith(op, a, b) ==
  CASE op = OP_ADD  -> AsInt(a) + AsInt(b)
    [] op = OP_SUB  -> AsInt(a) - AsInt(b)
    [] op = OP_MULT -> AsInt(a) * AsInt(b)
    [] op = OP_DIV  -> AsInt(a)

BoolLogic(op, a, b) ==
  CASE op = OP_AND -> a /\ b
    [] op = OP_OR  -> a \/ b
    [] op = OP_CMP -> a <=> b

\* BINARY_OP on the operands it popped: A was pushed before B.  Two numbers
\* meet as doubles, every other pair as bools (promoted to int by + - * /).
BinaryVal(op, A, B) ==
  CASE isNum(A) /\ isNum(B) /\ op \in ArithOps ->
         NumVal(FArith(op, A.num, B.num))
    [] isNum(A) /\ isNum(B) /\ op = OP_CMP ->
         BoolVal(FEq(A.num, B.num))
    [] ~ (isNum(A) /\ isNum(B)) /\ op \in ArithOps ->
         NumVal(OfInt(BoolArith(op, asBool(A), asBool(B))))
    [] OTHER ->
         BoolVal(BoolLogic(op, asBool(A), asBool(B)))

\* The pairs on which BINARY_OP(/) divides two ints and the divisor is 0:
\* undefined behaviour.
IntDivByZero(op, A, B) ==
  op = OP_DIV /\ ~ (isNum(A) /\ isNum(B)) /\ ~ asBool(B)

ASSUME NumAssumption ==
  /\ \A i \in -1 .. 2 : OfInt(i) \in Num
  /\ \A a \in Num : FNeg(a) \in Num
  /\ \A op \in ArithOps : \A a, b \in Num : FArith(op, a, b) \in Num
  /\ \A a, b \in Num : FEq(a, b) \in BOOLEAN
=============================================================================
