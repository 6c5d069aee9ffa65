------------------------------ MODULE CodeGen -------------------------------
(***************************************************************************)
(* CodeGen::genCode of codegen.hpp over the statements the parser returned *)
(* (a pointer each): for every statement in turn a fresh Chunk, the        *)
(* recursive walk Expr::codegen of expr.hpp, OP_POP, and a fresh VM that   *)
(* runs the chunk.  The value run() returns is dropped.                    *)
(*                                                                         *)
(* The recursion is a list of tasks, the next one first: a node to         *)
(* generate, or what a codegen body does after its last recursive call.    *)
(***************************************************************************)
EXTENDS VM, Expr

CONSTANT Programs    \* what the parser may return: [nodes, stmts]

ASSUME ProgramsAssumption ==
  \A p \in Programs :
    /\ p = [nodes |-> p.nodes, stmts |-> p.stmts]
    /\ Heap(p.nodes)
    /\ p.stmts \in Seq(DOMAIN p.nodes)

VARIABLES
  nodes, stmts,   \* the trees and the statements, fixed
  cur,            \* the statement being compiled or run
  work,           \* the tasks of the walk
  mark            \* history: Len(printed) when statement cur began

genVars == <<nodes, stmts, cur, work, mark>>
vars    == <<vmVars, genVars>>

Task(do, arg) == [do |-> do, arg |-> arg]
Gen(k)  == Task("gen", k)     \* nodes[k]->codegen(code)
Add(op) == Task("add", op)    \* code.addOp(op)
Bind(k) == Task("bind", k)    \* OP_DEFINE_LOCAL of the name nodes[k] holds
Bad     == Task("bad", 0)     \* ERR: no opcode for the operator


Init ==
  /\ NoVM
  /\ status = "idle"
  /\ printed = << >>
  /\ \E p \in Programs : nodes = p.nodes /\ stmts = p.stmts
  /\ cur = 0
  /\ work = << >>
  /\ mark = 0

\* Mutant of AtLoopHead: only a run that returned OK is followed by another.
AtLoopHeadAfterOK == status \in {"idle", "OK"}

\* The head of genCode's loop: what a VM returned with is dropped.
AtLoopHead == status \in {"idle"} \cup Returned

\* Mutant of BeginStmt: the chunk is declared outside the loop.
BeginStmtSharedChunk ==
  /\ AtLoopHead
  /\ cur < Len(stmts)
  /\ cur' = cur + 1
  /\ work' = <<Gen(stmts[cur + 1]), Add(OP_POP)>>
  /\ mark' = Len(printed)
  /\ status' = "building"
  /\ ip' = 1
  /\ stack' = << >>
  /\ icount' = 0
  /\ globals' = NoVars
  /\ localvar_stack' = << >>
  /\ UNCHANGED <<chunkVars, nodes, stmts, printed>>

\* A fresh chunk for the next statement; the last VM is gone.
BeginStmt ==
  /\ AtLoopHead
  /\ cur < Len(stmts)
  /\ cur' = cur + 1
  /\ work' = <<Gen(stmts[cur + 1]), Add(OP_POP)>>
  /\ mark' = Len(printed)
  /\ status' = "building"
  /\ newChunk
  /\ ip' = 1
  /\ stack' = << >>
  /\ icount' = 0
  /\ globals' = NoVars
  /\ localvar_stack' = << >>
  /\ UNCHANGED <<nodes, stmts, printed>>

Finish ==
  /\ AtLoopHead
  /\ cur = Len(stmts)
  /\ status' = "DONE"
  /\ UNCHANGED <<chunkVars, execVars, genVars>>

-----------------------------------------------------------------------------

Doing(do) ==
  /\ status = "building"
  /\ work # << >>
  /\ Head(work).do = do
  /\ UNCHANGED <<nodes, stmts, cur, mark>>

Visiting(kinds) == Doing("gen") /\ nodes[Head(work).arg].kind \in kinds

This == nodes[Head(work).arg]
Kid(i) == nodes[This.kids[i]]

\* The current task is replaced by these.
Replace(tasks) == work' = tasks \o Tail(work)

Descend(tasks) ==
  Replace(tasks) /\ UNCHANGED <<chunkVars, status, execVars>>

Emit(step) ==
  /\ step
  /\ Replace(<< >>)
  /\ UNCHANGED <<status, execVars>>

Stop(how) == Die(how) /\ UNCHANGED work

EmitConst(val) ==
  IF PoolFull THEN Stop("ABORT_POOL") ELSE Emit(addConst(val))

\* NameExpr, StringExpr, NumExpr, BoolExpr: a name, too, is a string constant.
GenLeaf == Visiting(LeafKinds) /\ EmitConst(This.lit)

GenUnary ==
  /\ Visiting({"UnaryOp"})
  /\ Descend(<<Gen(This.kids[1]),
               IF This.type \in DOMAIN token_to_unaryop
               THEN Add(token_to_unaryop[This.type]) ELSE Bad>>)

\* Mutant of GenBinary: the right operand first.
GenBinarySwapped ==
  /\ Visiting({"BinaryOp"})
  /\ Descend(<<Gen(This.kids[2]), Gen(This.kids[1]),
               IF This.type \in DOMAIN token_to_binop
               THEN Add(token_to_binop[This.type]) ELSE Bad>>)

GenBinary ==
  /\ Visiting({"BinaryOp"})
  /\ Descend(<<Gen(This.kids[1]), Gen(This.kids[2]),
               IF This.type \in DOMAIN token_to_binop
               THEN Add(token_to_binop[This.type]) ELSE Bad>>)

\* ReturnExpr does not generate its value.
GenReturn ==
  /\ Visiting({"Return"})
  /\ Emit(addOp(OP_RET))

GenPrint ==
  /\ Visiting({"Print"})
  /\ Descend(<<Gen(This.kids[1]), Add(OP_PRINT)>>)

\* Mutant of GenVarInit: code is generated for the left side.
GenVarInitLeft ==
  /\ Visiting({"Var"})
  /\ Kid(1).kind = "BinaryOp"
  /\ IF Kid(1).type = "EQUALS"
     THEN Descend(<<Gen(Kid(1).kids[1]), Bind(Kid(1).kids[1])>>)
     ELSE Stop("ABORT_VAR")

\* VarExpr: "var name = value", "var name" (null), or a failed assert.
GenVarInit ==
  /\ Visiting({"Var"})
  /\ Kid(1).kind = "BinaryOp"
  /\ IF Kid(1).type = "EQUALS"
     THEN Descend(<<Gen(Kid(1).kids[2]), Bind(Kid(1).kids[1])>>)
     ELSE Stop("ABORT_VAR")

GenVarNull ==
  /\ Visiting({"Var"})
  /\ Kid(1).kind = "Name"
  /\ IF PoolFull THEN Stop("ABORT_POOL")
     ELSE /\ addConst(Null)
          /\ Replace(<<Bind(This.kids[1])>>)
          /\ UNCHANGED <<status, execVars>>

GenVarBad ==
  /\ Visiting({"Var"})
  /\ Kid(1).kind \notin {"BinaryOp", "Name"}
  /\ Stop("ABORT_VAR")

\* Expr::codegen and CommaListExpr::codegen: ERR, exit(1).
GenUnimplemented ==
  /\ Visiting({"Empty", "Call", "Subscript", "CommaList", "Block", "For",
               "FnDef", "If"})
  /\ Stop("EXIT")

EmitOp == Doing("add") /\ Emit(addOp(Head(work).arg))

\* The node of a Bind is the left side of "=", which must be a name.
EmitBind ==
  /\ Doing("bind")
  /\ IF This.kind # "Name" THEN Stop("ABORT_VAR")
     ELSE IF PoolFull THEN Stop("ABORT_POOL")
     ELSE Emit(addDefine(OP_DEFINE_LOCAL, This.lit.str))

EmitBad == Doing("bad") /\ Stop("EXIT")


Codegen ==
  \/ GenLeaf \/ GenUnary \/ GenBinary \/ GenReturn \/ GenPrint
  \/ GenVarInit \/ GenVarNull \/ GenVarBad \/ GenUnimplemented
  \/ EmitOp \/ EmitBind \/ EmitBad

\* VM vm(exprcode); vm.run();
RunStmt ==
  /\ work = << >>
  /\ Construct \/ VMNext
  /\ UNCHANGED genVars

Next == BeginStmt \/ Codegen \/ RunStmt \/ Finish

Spec == Init /\ [][Next]_vars

\* A sequential program keeps running.
FairSpec == Spec /\ WF_vars(Next)

-----------------------------------------------------------------------------

TaskOK(t) ==
  \/ t.do = "gen" /\ t.arg \in DOMAIN nodes
  \/ t.do = "bind" /\ t.arg \in DOMAIN nodes
  \/ t.do = "add" /\ t.arg \in OpCode /\ ~ TakesOperand(t.arg)
  \/ t = Bad

(***************************************************************************)
(* The type invariant: the walk only ever holds nodes of the heap and      *)
(* opcodes without operand, and is over when a VM is constructed.          *)
(***************************************************************************)
TypeOK ==
  /\ VMTypeOK
  /\ Heap(nodes)
  /\ stmts \in Seq(DOMAIN nodes)
  /\ cur \in 0 .. Len(stmts)
  /\ work \in Seq([do : {"gen", "bind", "add", "bad"}, arg : Nat])
  /\ \A i \in DOMAIN work : TaskOK(work[i])
  /\ mark \in 0 .. Len(printed)
  /\ status \notin {"building"} \cup Died => work = << >>

\* The statement being compiled or run.
Stmt == stmts[cur]

StmtKind(kind) == cur > 0 /\ nodes[Stmt].kind = kind

PlainStmt == cur > 0 /\ Plain(nodes)[Stmt]

\* "var name = value" with a plain value.
PlainVar ==
  /\ StmtKind("Var")
  /\ LET ass == nodes[nodes[Stmt].kids[1]]
     IN /\ ass.kind = "BinaryOp"
        /\ ass.type = "EQUALS"
        /\ nodes[ass.kids[1]].kind = "Name"
        /\ Plain(nodes)[ass.kids[2]]

(***************************************************************************)
(* "expr should always leave stack idx at +1": when the OP_POP of a plain  *)
(* statement is reached, the stack holds the null of the constructor and   *)
(* the value of the tree.  The stack code that BinaryOpExpr::codegen emits *)
(* and the order in which BINARY_OP pops agree with the tree, whatever the *)
(* nesting.                                                                *)
(***************************************************************************)
StmtLeavesItsValue ==
  /\ status = "running"
  /\ PlainStmt
  /\ icount < MaxIcount
  /\ code[ip] = OP_POP
  => stack = <<Null, Eval(nodes)[Stmt]>>

(***************************************************************************)
(* A plain statement never fails a pop() assert nor reads an empty stack,  *)
(* and its run returns OK exactly if its instructions, OP_POP included,    *)
(* fit the budget of exec().  One that does not fit is cut off without a   *)
(* word: run() returns INF_LOOP and genCode goes on (codegen.hpp:33).      *)
(***************************************************************************)
PlainStmtOutcome ==
  PlainStmt =>
    /\ status \notin {"ABORT_POP", "CRASH", "ERR", "ABORT_VAR", "EXIT"}
    /\ status \in Returned =>
         status = IF Size(nodes)[Stmt] < MaxIcount THEN "OK" ELSE "INF_LOOP"

\* The maps of variables that the VM holds: the globals and the frames.
Scopes == {globals} \cup Range(localvar_stack)

(***************************************************************************)
(* A definition binds its own name, and no other in any scope, to the      *)
(* value of its right side, if its instructions fit the budget.  The two   *)
(* nodes "=" and its left side emit no instruction of their own.           *)
(***************************************************************************)
VarBindsItsValue ==
  PlainVar /\ status \in Returned =>
    LET ass   == nodes[nodes[Stmt].kids[1]]
        name  == nodes[ass.kids[1]].lit.str
        value == Eval(nodes)[ass.kids[2]]
    IN IF Size(nodes)[ass.kids[2]] < MaxIcount
       THEN status = "OK" /\ Scopes = {NoVars, [n \in {name} |-> value]}
       ELSE status = "INF_LOOP" /\ Scopes = {NoVars}

(***************************************************************************)
(* Each statement is run to its end or the process stops: genCode finishes.*)
(***************************************************************************)
Terminates == <>(status \in {"DONE"} \cup Died)

-----------------------------------------------------------------------------
\* Interp's state: a statement's effect shows when its run is over.
InStmt == status \in {"building", "listing", "running"}

AbsNext    == IF InStmt \/ status \in Died THEN cur ELSE cur + 1
AbsPrinted == IF InStmt THEN SubSeq(printed, 1, mark) ELSE printed
AbsMode    == CASE status = "DONE" -> "done"
                [] status \in Died -> "dead"
                [] OTHER -> "run"

Abstract == INSTANCE Interp WITH
  next <- AbsNext, printed <- AbsPrinted, mode <- AbsMode

(***************************************************************************)
(* genCode, its walk, the chunks and the VM implement Interp: nothing but  *)
(* printed values leaves a statement, statements run in order and one      *)
(* statement's stack, constants and definitions never reach the next.      *)
(***************************************************************************)
ImplementsInterp == Abstract!Spec

-----------------------------------------------------------------------------
(***************************************************************************)
(* "... so pop at end of stmt to restore stack" (codegen.hpp:30): after    *)
(* OP_POP the stack is as the constructor of the VM left it.               *)
(***************************************************************************)
StackRestored ==
  status = "OK" /\ code[ip - 1] = OP_POP => stack = <<Null>>

(***************************************************************************)
(* "this is assuming all definitions are global atm" (expr.hpp:204),       *)
(* "store the value at tos in global map" (vm.hpp:377): a definition that  *)
(* has returned has put its name and value among the globals.              *)
(***************************************************************************)
DefinesGlobal ==
  PlainVar /\ status = "OK" =>
    LET ass == nodes[nodes[Stmt].kids[1]]
    IN globals = [n \in {nodes[ass.kids[1]].lit.str} |-> Eval(nodes)[ass.kids[2]]]
=============================================================================
