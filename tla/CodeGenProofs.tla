--------------------------- MODULE CodeGenProofs ----------------------------
(***************************************************************************)
(* The invariants of CodeGen, for every program a parser may return, every *)
(* size of its trees and every value of the constants.  The first part     *)
(* goes along the task list: its last task is the OP_POP that genCode adds *)
(* after the walk (WalkInv), so a finished chunk ends in the opcode        *)
(* OP_POP, finalize() adds RET and EOF to it, and exec() never runs off    *)
(* its end.  The second part, from KidsBelow on, shows that the compiled   *)
(* code computes what the trees mean and that genCode implements Interp.   *)
(***************************************************************************)
EXTENDS CodeGen, VMProofs

\* The tasks end in genCode's OP_POP, and so does the chunk they leave.
WalkInv ==
  status = "building" =>
    IF work = << >>
    THEN code # << >> /\ Len(code) \in starts /\ code[Len(code)] = OP_POP
    ELSE work[Len(work)] = Add(OP_POP)

GenInv == VMInv /\ EofInv /\ TypeOK /\ WalkInv /\ ChunkEndsInEof

Tasks == [do : {"gen", "bind", "add", "bad"}, arg : Nat]

-----------------------------------------------------------------------------
\* Replacing the head of a sequence by a sequence.
LEMMA ReplaceHead ==
  ASSUME NEW S, NEW a \in Seq(S), NEW w \in Seq(S), w # << >>
  PROVE  /\ a \o Tail(w) \in Seq(S)
         /\ Len(a) \in Nat /\ Len(w) \in Nat \ {0}
         /\ Len(a \o Tail(w)) = Len(a) + Len(w) - 1
         /\ DOMAIN (a \o Tail(w)) = 1 .. Len(a) + Len(w) - 1
         /\ \A i \in 1 .. Len(a) : (a \o Tail(w))[i] = a[i]
         /\ \A i \in Len(a) + 1 .. Len(a) + Len(w) - 1 :
              (a \o Tail(w))[i] = w[i - Len(a) + 1]
<1> DEFINE t == Tail(w)
<1>1. Len(a) \in Nat /\ Len(w) \in Nat \ {0}
  BY LenProperties, EmptySeq
<1>2. t \in Seq(S) /\ Len(t) = Len(w) - 1
      /\ \A i \in 1 .. Len(t) : t[i] = w[i + 1]
  BY HeadTailProperties
<1> HIDE DEF t
<1>3. a \o t \in Seq(S) /\ Len(a \o t) = Len(a) + Len(t)
      /\ \A i \in 1 .. Len(a) + Len(t) :
           (a \o t)[i] = IF i <= Len(a) THEN a[i] ELSE t[i - Len(a)]
  BY <1>2, ConcatProperties
<1>4. Len(a \o t) = Len(a) + Len(w) - 1
      /\ DOMAIN (a \o t) = 1 .. Len(a) + Len(w) - 1
  BY <1>1, <1>2, <1>3, LenProperties
<1>5. \A i \in 1 .. Len(a) : (a \o t)[i] = a[i]
  BY <1>1, <1>2, <1>3
<1>6. ASSUME NEW i \in Len(a) + 1 .. Len(a) + Len(w) - 1
      PROVE  (a \o t)[i] = w[i - Len(a) + 1]
  <2>1. (a \o t)[i] = t[i - Len(a)] /\ i - Len(a) \in 1 .. Len(t)
    BY <1>1, <1>2, <1>3, <1>6
  <2> QED BY <1>2, <2>1
<1> QED BY <1>1, <1>3, <1>4, <1>5, <1>6 DEF t

\* The nodes that a node of a heap points to are in the heap.
LEMMA HeapNode ==
  ASSUME Heap(nodes), NEW k \in DOMAIN nodes
  PROVE  /\ k \in Nat
         /\ nodes[k].lit \in Value
         /\ nodes[k].kind \in Kinds
         /\ \A i \in 1 .. Len(nodes[k].kids) :
              nodes[k].kids[i] \in DOMAIN nodes
         /\ nodes[k].kind \in {"UnaryOp", "Return", "Var", "Print"} =>
              Len(nodes[k].kids) = 1
         /\ nodes[k].kind = "BinaryOp" => Len(nodes[k].kids) = 2
         /\ nodes[k].kind = "Name" => isString(nodes[k].lit)
<1>1. nodes \in Seq(Node) /\ DOMAIN nodes = 1 .. Len(nodes) /\ Len(nodes) \in Nat
  BY LenProperties DEF Heap
<1>2. nodes[k] \in Node /\ k \in 1 .. Len(nodes)
  BY <1>1
<1>3. nodes[k].lit \in Value /\ nodes[k].kind \in Kinds
      /\ nodes[k].kids \in Seq(Nat \ {0})
  BY <1>2 DEF Node
<1>4. DOMAIN nodes[k].kids = 1 .. Len(nodes[k].kids)
  BY <1>3, LenProperties
<1>5. ASSUME NEW i \in 1 .. Len(nodes[k].kids)
      PROVE  nodes[k].kids[i] \in DOMAIN nodes
  <2>1. nodes[k].kids[i] \in Nat \ {0}
    BY <1>3, <1>5, ElementOfSeq
  <2>2. nodes[k].kids[i] < k
    BY <1>4, <1>5 DEF Heap
  <2> QED BY <1>1, <1>2, <2>1, <2>2
<1>6. /\ nodes[k].kind \in {"UnaryOp", "Return", "Var", "Print"} =>
           Len(nodes[k].kids) = 1
      /\ nodes[k].kind = "BinaryOp" => Len(nodes[k].kids) = 2
      /\ nodes[k].kind = "Name" => isString(nodes[k].lit)
  BY DEF Heap, LeafKinds
<1> QED BY <1>1, <1>2, <1>3, <1>5, <1>6

\* The operators with an opcode have one without operand.
LEMMA OperatorOps ==
  /\ \A t \in DOMAIN token_to_binop :
       /\ token_to_binop[t] \in OpCode
       /\ ~ TakesOperand(token_to_binop[t])
  /\ \A t \in DOMAIN token_to_unaryop :
       /\ token_to_unaryop[t] \in OpCode
       /\ ~ TakesOperand(token_to_unaryop[t])
BY DEF token_to_binop, token_to_unaryop, OpCode, TakesOperand, DefineOps,
  OP_CONST, OP_NOT, OP_NEG, OP_ADD, OP_SUB, OP_MULT, OP_DIV, OP_OR, OP_AND,
  OP_CMP, OP_DEFINE_GLOBAL, OP_DEFINE_LOCAL

-----------------------------------------------------------------------------
\* The steps of the walk: the head of the list is replaced by these tasks,
\* and only the last task, genCode's OP_POP, empties the list.
LEMMA WalkStep ==
  ASSUME GenInv, status = "building", status' = status, work # << >>,
         UNCHANGED <<execVars, nodes, stmts, cur, mark>>,
         ChunkInv', Len(code) <= Len(code'),
         NEW tasks \in Seq(Tasks), Replace(tasks),
         \A i \in 1 .. Len(tasks) : TaskOK(tasks[i]),
         work[1] = Add(OP_POP) =>
           Len(code') \in starts' /\ code'[Len(code')] = OP_POP,
         work[1] # Add(OP_POP) \/ tasks = << >>
  PROVE  GenInv'
<1>1. VMInv'
  BY BuilderInv DEF GenInv
<1>2. work \in Seq(Tasks) /\ DOMAIN work = 1 .. Len(work)
      /\ \A i \in 1 .. Len(work) : TaskOK(work[i])
  BY LenProperties DEF GenInv, TypeOK, Tasks
<1>3. work' = tasks \o Tail(work)
  BY DEF Replace
<1>4. /\ work' \in Seq(Tasks)
      /\ Len(tasks) \in Nat /\ Len(work) \in Nat \ {0}
      /\ Len(work') = Len(tasks) + Len(work) - 1
      /\ DOMAIN work' = 1 .. Len(tasks) + Len(work) - 1
      /\ \A i \in 1 .. Len(tasks) : work'[i] = tasks[i]
      /\ \A i \in Len(tasks) + 1 .. Len(tasks) + Len(work) - 1 :
           work'[i] = work[i - Len(tasks) + 1]
  BY <1>2, <1>3, ReplaceHead
<1>5. ASSUME NEW i \in DOMAIN work'
      PROVE  TaskOK(work[i])'
  <2>1. CASE i \in 1 .. Len(tasks)
    BY <1>4, <2>1 DEF TaskOK, Add, Bad, Task
  <2>2. CASE i \in Len(tasks) + 1 .. Len(tasks) + Len(work) - 1
    <3>1. i - Len(tasks) + 1 \in 1 .. Len(work)
      BY <1>4, <2>2
    <3> QED BY <1>2, <1>4, <2>2, <3>1 DEF TaskOK, Bad, Task
  <2> QED BY <1>4, <1>5, <2>1, <2>2
<1>6. TypeOK'
  <2>1. /\ VMTypeOK' /\ Heap(nodes)' /\ (stmts \in Seq(DOMAIN nodes))'
        /\ (cur \in 0 .. Len(stmts))' /\ (mark \in 0 .. Len(printed))'
    BY <1>1 DEF GenInv, TypeOK, VMInv, execVars
  <2>2. (work \in Seq([do : {"gen", "bind", "add", "bad"}, arg : Nat]))'
    BY <1>4 DEF Tasks
  <2>3. (\A i \in DOMAIN work : TaskOK(work[i]))'
    BY <1>5
  <2> QED BY <2>1, <2>2, <2>3 DEF TypeOK
<1>7. WalkInv'
  <2>1. work[Len(work)] = Add(OP_POP)
    BY DEF GenInv, WalkInv
  <2>2. CASE Len(work) = 1
    <3>1. work[1] = Add(OP_POP) /\ tasks = << >>
      BY <2>1, <2>2
    <3>2. Len(work') = 0
      BY <1>4, <2>2, <3>1
    <3>3. work' = << >>
      BY <1>4, <3>2, EmptySeq
    <3>4. code' # << >>
      <4>1. code' \in Seq(Nat) /\ starts' \subseteq 1 .. Len(code')
            /\ Len(code') \in starts'
        BY <3>1, LenProperties DEF ChunkInv, ChunkTypeOK
      <4> QED BY <4>1, EmptySeq
    <3> QED BY <3>1, <3>3, <3>4 DEF WalkInv
  <2>3. CASE Len(work) > 1
    <3>1. work' # << >>
      BY <1>4, <2>3, EmptySeq
    <3>2. work'[Len(work')] = work[Len(work)]
      BY <1>4, <2>3
    <3> QED BY <2>1, <3>1, <3>2 DEF WalkInv, Add, Task
  <2>4. Len(work) \in Nat /\ Len(work) # 0
    BY <1>4
  <2>5. \A n \in Nat : n # 0 => n = 1 \/ n > 1
    OBVIOUS
  <2>6. Len(work) = 1 \/ Len(work) > 1
    BY <2>4, <2>5, Zenon
  <2> QED BY <2>2, <2>3, <2>6
<1>8. EofInv' /\ ChunkEndsInEof'
  BY DEF EofInv, LoopEndsByBudget, ChunkEndsInEof, Returned
<1> QED BY <1>1, <1>6, <1>7, <1>8 DEF GenInv

\* The walk goes on without touching the chunk.
LEMMA DescendInv ==
  ASSUME GenInv, status = "building", work # << >>,
         UNCHANGED <<nodes, stmts, cur, mark>>,
         NEW tasks \in Seq(Tasks), Descend(tasks),
         \A i \in 1 .. Len(tasks) : TaskOK(tasks[i]),
         work[1] # Add(OP_POP)
  PROVE  GenInv'
<1>1. UNCHANGED <<chunkVars, status, execVars>> /\ Replace(tasks)
  BY DEF Descend
<1>2. ChunkInv' /\ Len(code) <= Len(code')
  <2>1. Len(code) \in Nat
    BY LenProperties DEF GenInv, VMInv, VMTypeOK, ChunkTypeOK
  <2> QED BY <1>1, <2>1
          DEF GenInv, VMInv, VMTypeOK, ChunkInv, ChunkTypeOK, WellFormed,
              chunkVars
<1> QED BY <1>1, <1>2, WalkStep

\* The walk stops the process.
LEMMA StopInv ==
  ASSUME GenInv, status = "building",
         UNCHANGED <<nodes, stmts, cur, mark>>,
         NEW how \in {"ABORT_POOL", "ABORT_VAR", "EXIT"}, Stop(how)
  PROVE  GenInv'
<1>1. /\ UNCHANGED <<chunkVars, execVars, work, nodes, stmts, cur, mark>>
      /\ Die(how) /\ status' = how /\ how \in Died
  BY DEF Stop, Die, Died
<1>2. VMInv'
  BY <1>1, DieInv DEF GenInv
<1>3. TypeOK'
  BY <1>1, <1>2 DEF GenInv, TypeOK, TaskOK, VMInv, execVars
<1>4. EofInv' /\ WalkInv' /\ ChunkEndsInEof'
  BY <1>1 DEF EofInv, LoopEndsByBudget, WalkInv, ChunkEndsInEof, Returned, Died
<1> QED BY <1>2, <1>3, <1>4 DEF GenInv

-----------------------------------------------------------------------------
\* The tasks a codegen body leaves behind.
LEMMA NewTasks ==
  /\ \A k \in DOMAIN nodes :
       Heap(nodes) => /\ Gen(k) \in Tasks /\ TaskOK(Gen(k))
                      /\ Bind(k) \in Tasks /\ TaskOK(Bind(k))
  /\ \A op \in OpCode :
       ~ TakesOperand(op) => Add(op) \in Tasks /\ TaskOK(Add(op))
  /\ Bad \in Tasks /\ TaskOK(Bad)
<1>1. \A k \in DOMAIN nodes : Heap(nodes) => k \in Nat
  BY HeapNode
<1> QED BY <1>1, OpcodeFacts
        DEF Tasks, TaskOK, Gen, Bind, Add, Bad, Task

\* What the walk knows of the task at the head of its list.
LEMMA HeadTask ==
  ASSUME GenInv, NEW d, Doing(d)
  PROVE  /\ status = "building" /\ work # << >>
         /\ UNCHANGED <<nodes, stmts, cur, mark>>
         /\ Heap(nodes)
         /\ Head(work) = work[1]
         /\ d \in {"gen", "bind"} =>
              work[1].arg \in DOMAIN nodes /\ work[1] # Add(OP_POP)
         /\ d = "add" => /\ work[1].arg \in OpCode
                         /\ ~ TakesOperand(work[1].arg)
                         /\ work[1] = Add(OP_POP) => work[1].arg = OP_POP
<1>1. /\ status = "building" /\ work # << >> /\ Head(work).do = d
      /\ UNCHANGED <<nodes, stmts, cur, mark>>
  BY DEF Doing
<1>2. work \in Seq(Tasks) /\ 1 \in DOMAIN work /\ Head(work) = work[1]
  <2>1. work \in Seq(Tasks)
    BY DEF GenInv, TypeOK, Tasks
  <2>2. Len(work) \in Nat \ {0} /\ DOMAIN work = 1 .. Len(work)
    BY <1>1, <2>1, LenProperties, EmptySeq
  <2> QED BY <1>1, <2>1, <2>2
<1>3. TaskOK(work[1]) /\ work[1].do = d
  BY <1>1, <1>2 DEF GenInv, TypeOK
<1> QED BY <1>1, <1>2, <1>3 DEF TaskOK, Bad, Add, Task, GenInv, TypeOK

\* A body that registers a constant: it is emitted, or the table is full.
LEMMA EmitWordsInv ==
  ASSUME GenInv, NEW d \in {"gen", "bind"}, Doing(d),
         NEW op \in DefineOps \cup {OP_CONST}, NEW val \in Value,
         op \in DefineOps => isString(val), addOpWithConst(op, val),
         NEW tasks \in Seq(Tasks), Replace(tasks),
         \A i \in 1 .. Len(tasks) : TaskOK(tasks[i]),
         UNCHANGED <<status, execVars>>
  PROVE  GenInv'
<1>1. ChunkInv /\ code \in Seq(Nat) /\ Len(constants) \in Nat
  BY LenProperties DEF GenInv, VMInv, VMTypeOK, ChunkInv, ChunkTypeOK
<1>2. ~ PoolFull /\ code' = code \o <<op, Len(constants)>>
  BY DEF addOpWithConst
<1>3. ChunkInv'
  BY <1>1, <1>2, ConstOpWellFormed
<1>4. op \in Nat
  BY OpcodeFacts
<1>5. Len(code) <= Len(code')
  BY <1>1, <1>2, <1>4, CodeAppend
<1> QED BY <1>3, <1>5, HeadTask, WalkStep

\* Nothing is left to do.
LEMMA NoTasks == << >> \in Seq(Tasks) /\ \A i \in 1 .. Len(<< >>) : FALSE
OBVIOUS

\* A leaf: its name or literal is a constant.
LEMMA LeafInv == GenInv /\ GenLeaf => GenInv'
<1> SUFFICES ASSUME GenInv, GenLeaf PROVE GenInv'
  OBVIOUS
<1>1. Doing("gen") /\ EmitConst(This.lit)
  BY DEF GenLeaf, Visiting
<1>2. This.lit \in Value
  BY <1>1, HeadTask, HeapNode DEF This
<1>3. CASE PoolFull
  BY <1>1, <1>3, HeadTask, StopInv DEF EmitConst
<1>4. CASE ~ PoolFull
  <2>1. /\ addOpWithConst(OP_CONST, This.lit) /\ Replace(<< >>)
        /\ UNCHANGED <<status, execVars>>
    BY <1>1, <1>4 DEF EmitConst, Emit, addConst
  <2>2. OP_CONST \notin DefineOps
    BY DEF OP_CONST, DefineOps, OP_DEFINE_GLOBAL, OP_DEFINE_LOCAL
  <2> QED BY <1>1, <1>2, <2>1, <2>2, NoTasks, EmitWordsInv
<1> QED BY <1>3, <1>4

\* The definition that follows the value of a "var".
LEMMA BindInv == GenInv /\ EmitBind => GenInv'
<1> SUFFICES ASSUME GenInv, EmitBind PROVE GenInv'
  OBVIOUS
<1>1. Doing("bind")
  BY DEF EmitBind
<1>2. CASE This.kind # "Name"
  BY <1>1, <1>2, HeadTask, StopInv DEF EmitBind
<1>3. CASE This.kind = "Name" /\ PoolFull
  BY <1>1, <1>3, HeadTask, StopInv DEF EmitBind
<1>4. CASE This.kind = "Name" /\ ~ PoolFull
  <2>1. This.lit \in Value /\ isString(This.lit)
    BY <1>1, <1>4, HeadTask, HeapNode DEF This
  <2>2. This.lit.str \in Str
    BY <2>1, Payload
  <2>3. StrVal(This.lit.str) \in Value /\ isString(StrVal(This.lit.str))
    BY <2>2, ValueKinds
  <2>4. /\ addOpWithConst(OP_DEFINE_LOCAL, StrVal(This.lit.str))
        /\ Replace(<< >>) /\ UNCHANGED <<status, execVars>>
    BY <1>4 DEF EmitBind, Emit, addDefine
  <2>5. OP_DEFINE_LOCAL \in DefineOps
    BY DEF DefineOps
  <2> QED BY <1>1, <2>3, <2>4, <2>5, NoTasks, EmitWordsInv
<1> QED BY <1>2, <1>3, <1>4

\* code.addOp(op) of an opcode without operand.
LEMMA EmitOpInv ==
  ASSUME GenInv, NEW d, Doing(d), NEW op \in OpCode, ~ TakesOperand(op),
         work[1] = Add(OP_POP) => op = OP_POP, Emit(addOp(op))
  PROVE  GenInv'
<1>1. ChunkInv /\ code \in Seq(Nat) /\ Len(code) \in Nat /\ op \in Nat
  BY LenProperties, OpcodeFacts
     DEF GenInv, VMInv, VMTypeOK, ChunkInv, ChunkTypeOK
<1>2. addOp(op) /\ Replace(<< >>) /\ UNCHANGED <<status, execVars>>
  BY DEF Emit
<1>3. ChunkInv'
  BY <1>1, <1>2, AddOpWellFormed
<1>4. code' = code \o <<op>> /\ starts' = starts \cup {Len(code) + 1}
  BY <1>1, <1>2, AppendIsConcat DEF addOp
<1>5. <<op>> \in Seq(Nat) /\ Len(<<op>>) = 1 /\ <<op>>[1] = op
  BY <1>1
<1>6. Len(code') = Len(code) + 1 /\ code'[Len(code) + 1] = op
  BY <1>1, <1>4, <1>5, CodeAppend
<1>7. /\ Len(code) <= Len(code')
      /\ work[1] = Add(OP_POP) =>
           Len(code') \in starts' /\ code'[Len(code')] = OP_POP
  BY <1>1, <1>4, <1>6
<1> QED BY <1>2, <1>3, <1>7, NoTasks, HeadTask, WalkStep

\* A body that only replaces itself by these tasks.
LEMMA VisitDescendInv ==
  ASSUME GenInv, Doing("gen"), NEW tasks \in Seq(Tasks), Descend(tasks),
         \A i \in 1 .. Len(tasks) : TaskOK(tasks[i])
  PROVE  GenInv'
BY HeadTask, DescendInv

\* Operands first, then the operator's opcode, or ERR if it has none.
LEMMA OperatorInv == GenInv /\ (GenUnary \/ GenBinary) => GenInv'
<1> SUFFICES ASSUME GenInv, GenUnary \/ GenBinary PROVE GenInv'
  OBVIOUS
<1>1. Doing("gen")
  BY DEF GenUnary, GenBinary, Visiting
<1>2. work[1].arg \in DOMAIN nodes /\ Heap(nodes) /\ This = nodes[work[1].arg]
  BY <1>1, HeadTask DEF This
<1>3. CASE GenUnary
  <2> DEFINE last == IF This.type \in DOMAIN token_to_unaryop
                     THEN Add(token_to_unaryop[This.type]) ELSE Bad
             tasks == <<Gen(This.kids[1]), last>>
  <2>1. This.kids[1] \in DOMAIN nodes
    BY <1>2, <1>3, HeapNode DEF GenUnary, Visiting, This
  <2>2. last \in Tasks /\ TaskOK(last)
    BY OperatorOps, NewTasks
  <2>3. Gen(This.kids[1]) \in Tasks /\ TaskOK(Gen(This.kids[1]))
    BY <1>2, <2>1, NewTasks
  <2>4. Descend(tasks)
    BY <1>3 DEF GenUnary
  <2> HIDE DEF last
  <2>5. tasks \in Seq(Tasks) /\ \A i \in 1 .. Len(tasks) : TaskOK(tasks[i])
    BY <2>2, <2>3
  <2> HIDE DEF tasks
  <2> QED BY <1>1, <2>4, <2>5, VisitDescendInv
<1>4. CASE GenBinary
  <2> DEFINE last == IF This.type \in DOMAIN token_to_binop
                     THEN Add(token_to_binop[This.type]) ELSE Bad
             tasks == <<Gen(This.kids[1]), Gen(This.kids[2]), last>>
  <2>1. This.kids[1] \in DOMAIN nodes /\ This.kids[2] \in DOMAIN nodes
    BY <1>2, <1>4, HeapNode DEF GenBinary, Visiting, This
  <2>2. last \in Tasks /\ TaskOK(last)
    BY OperatorOps, NewTasks
  <2>3. /\ Gen(This.kids[1]) \in Tasks /\ TaskOK(Gen(This.kids[1]))
        /\ Gen(This.kids[2]) \in Tasks /\ TaskOK(Gen(This.kids[2]))
    BY <1>2, <2>1, NewTasks
  <2>4. Descend(tasks)
    BY <1>4 DEF GenBinary
  <2> HIDE DEF last
  <2>5. tasks \in Seq(Tasks) /\ \A i \in 1 .. Len(tasks) : TaskOK(tasks[i])
    BY <2>2, <2>3
  <2> HIDE DEF tasks
  <2> QED BY <1>1, <2>4, <2>5, VisitDescendInv
<1> QED BY <1>3, <1>4

\* PrintExpr: its value, then OP_PRINT.
LEMMA PrintInv == GenInv /\ GenPrint => GenInv'
<1> SUFFICES ASSUME GenInv, GenPrint PROVE GenInv'
  OBVIOUS
<1> DEFINE tasks == <<Gen(This.kids[1]), Add(OP_PRINT)>>
<1>1. Doing("gen") /\ Descend(tasks)
  BY DEF GenPrint, Visiting
<1>2. This.kids[1] \in DOMAIN nodes /\ Heap(nodes)
  BY <1>1, HeadTask, HeapNode DEF GenPrint, Visiting, This
<1>3. /\ Gen(This.kids[1]) \in Tasks /\ TaskOK(Gen(This.kids[1]))
      /\ Add(OP_PRINT) \in Tasks /\ TaskOK(Add(OP_PRINT))
  BY <1>2, NewTasks, OpcodeFacts
<1>4. tasks \in Seq(Tasks) /\ \A i \in 1 .. Len(tasks) : TaskOK(tasks[i])
  BY <1>3
<1> HIDE DEF tasks
<1> QED BY <1>1, <1>4, VisitDescendInv

\* "var name = value" and "var name"; the rest of VarExpr::codegen stops.
LEMMA VarInv == GenInv /\ (GenVarInit \/ GenVarNull) => GenInv'
<1> SUFFICES ASSUME GenInv, GenVarInit \/ GenVarNull PROVE GenInv'
  OBVIOUS
<1>1. Doing("gen")
  BY DEF GenVarInit, GenVarNull, Visiting
<1>2. This = nodes[work[1].arg] /\ Heap(nodes) /\ This.kids[1] \in DOMAIN nodes
  BY <1>1, HeadTask, HeapNode DEF GenVarInit, GenVarNull, Visiting, This
<1>3. CASE GenVarInit
  <2> DEFINE tasks == <<Gen(Kid(1).kids[2]), Bind(Kid(1).kids[1])>>
  <2>1. CASE Kid(1).type = "EQUALS"
    <3>1. Kid(1) = nodes[This.kids[1]] /\ Kid(1).kind = "BinaryOp"
      BY <1>3 DEF Kid, GenVarInit
    <3>2. Kid(1).kids[1] \in DOMAIN nodes /\ Kid(1).kids[2] \in DOMAIN nodes
      BY <1>2, <3>1, HeapNode
    <3>3. /\ Gen(Kid(1).kids[2]) \in Tasks /\ TaskOK(Gen(Kid(1).kids[2]))
          /\ Bind(Kid(1).kids[1]) \in Tasks /\ TaskOK(Bind(Kid(1).kids[1]))
      BY <1>2, <3>2, NewTasks
    <3>4. Descend(tasks)
      BY <1>3, <2>1 DEF GenVarInit
    <3>5. tasks \in Seq(Tasks) /\ \A i \in 1 .. Len(tasks) : TaskOK(tasks[i])
      BY <3>3
    <3> HIDE DEF tasks
    <3> QED BY <1>1, <3>4, <3>5, VisitDescendInv
  <2>2. CASE Kid(1).type # "EQUALS"
    BY <1>1, <1>3, <2>2, HeadTask, StopInv DEF GenVarInit
  <2> QED BY <2>1, <2>2
<1>4. CASE GenVarNull
  <2> DEFINE tasks == <<Bind(This.kids[1])>>
  <2>1. CASE PoolFull
    BY <1>1, <1>4, <2>1, HeadTask, StopInv DEF GenVarNull
  <2>2. CASE ~ PoolFull
    <3>1. /\ addOpWithConst(OP_CONST, Null) /\ Replace(tasks)
          /\ UNCHANGED <<status, execVars>>
      BY <1>4, <2>2 DEF GenVarNull, addConst
    <3>2. Bind(This.kids[1]) \in Tasks /\ TaskOK(Bind(This.kids[1]))
      BY <1>2, NewTasks
    <3>3. tasks \in Seq(Tasks) /\ \A i \in 1 .. Len(tasks) : TaskOK(tasks[i])
      BY <3>2
    <3>4. OP_CONST \notin DefineOps /\ Null \in Value
      BY ValueKinds
         DEF OP_CONST, DefineOps, OP_DEFINE_GLOBAL, OP_DEFINE_LOCAL
    <3> HIDE DEF tasks
    <3> QED BY <1>1, <3>1, <3>3, <3>4, EmitWordsInv
  <2> QED BY <2>1, <2>2
<1> QED BY <1>3, <1>4

\* Every step of the walk.
LEMMA CodegenInv == GenInv /\ Codegen => GenInv'
<1> SUFFICES ASSUME GenInv, Codegen PROVE GenInv'
  OBVIOUS
<1>1. CASE GenLeaf \/ GenUnary \/ GenBinary \/ GenPrint \/ GenVarInit
           \/ GenVarNull \/ EmitBind
  BY <1>1, LeafInv, OperatorInv, PrintInv, VarInv, BindInv
<1>2. CASE GenReturn
  <2>1. Doing("gen") /\ Emit(addOp(OP_RET))
    BY <1>2 DEF GenReturn, Visiting
  <2> QED BY <2>1, HeadTask, EmitOpInv, OpcodeFacts
<1>3. CASE EmitOp
  <2>1. Doing("add") /\ Emit(addOp(work[1].arg))
    BY <1>3, HeadTask DEF EmitOp
  <2> QED BY <2>1, HeadTask, EmitOpInv
<1>4. CASE GenVarBad \/ GenUnimplemented \/ EmitBad
  <2>1. PICK d \in {"gen", "bad"}, how \in {"ABORT_VAR", "EXIT"} :
          Doing(d) /\ Stop(how)
    BY <1>4 DEF GenVarBad, GenUnimplemented, EmitBad, Visiting
  <2> QED BY <2>1, HeadTask, StopInv
<1> QED BY <1>1, <1>2, <1>3, <1>4 DEF Codegen

-----------------------------------------------------------------------------
\* genCode's loop: a fresh chunk and no VM, or the end.
LEMMA BeginInv == GenInv /\ BeginStmt => GenInv'
<1> SUFFICES ASSUME GenInv, BeginStmt PROVE GenInv'
  OBVIOUS
<1>1. /\ cur < Len(stmts) /\ cur' = cur + 1
      /\ work' = <<Gen(stmts[cur + 1]), Add(OP_POP)>>
      /\ mark' = Len(printed)
      /\ status' = "building"
      /\ code' = << >> /\ constants' = << >> /\ starts' = {}
      /\ ip' = 1 /\ stack' = << >> /\ icount' = 0 /\ globals' = NoVars
      /\ localvar_stack' = << >>
      /\ UNCHANGED <<nodes, stmts, printed>>
  BY DEF BeginStmt, newChunk
<1>2. VMInv'
  <2>1. << >> \in Seq(Value) /\ << >> \in Seq(VarFrame) /\ << >> \in Seq(Nat)
    OBVIOUS
  <2>2. NoVars \in VarFrame
    BY NoVarsType
  <2>3. 0 \in 0 .. MaxIcount /\ MaxConst >= 0
    BY MaxIcountAssumption, MaxConstAssumption
  <2>4. Len(<< >>) = 0 /\ DOMAIN << >> = {}
    OBVIOUS
  <2>5. printed \in Seq(Value)
    BY DEF GenInv, VMInv, VMTypeOK
  <2> QED BY <1>1, <2>1, <2>2, <2>3, <2>4, <2>5
          DEF VMInv, VMTypeOK, ChunkTypeOK, WellFormed, Aligned, NoBadOperand,
              VMStatus
<1>3. /\ stmts \in Seq(DOMAIN nodes) /\ Len(stmts) \in Nat
      /\ cur \in 0 .. Len(stmts) /\ Heap(nodes)
  BY LenProperties DEF GenInv, TypeOK
<1>4. stmts[cur + 1] \in DOMAIN nodes
  <2>1. cur + 1 \in 1 .. Len(stmts)
    BY <1>1, <1>3
  <2> QED BY <1>3, <2>1, ElementOfSeq
<1>5. /\ Gen(stmts[cur + 1]) \in Tasks /\ TaskOK(Gen(stmts[cur + 1]))
      /\ Add(OP_POP) \in Tasks /\ TaskOK(Add(OP_POP))
  BY <1>3, <1>4, NewTasks, OpcodeFacts
<1>6. /\ work' \in Seq(Tasks) /\ Len(work') = 2
      /\ work'[2] = Add(OP_POP) /\ work' # << >>
      /\ \A i \in DOMAIN work' : i = 1 \/ i = 2
  BY <1>1, <1>5
<1>7. ASSUME NEW i \in DOMAIN work' PROVE TaskOK(work[i])'
  <2>1. work'[i] = Gen(stmts[cur + 1]) \/ work'[i] = Add(OP_POP)
    BY <1>1, <1>6, <1>7
  <2> QED BY <1>1, <1>5, <2>1 DEF TaskOK, Bad, Task
<1>8. TypeOK'
  <2>1. cur' \in 0 .. Len(stmts)
    BY <1>1, <1>3
  <2>2. Len(printed) \in Nat
    BY LenProperties DEF GenInv, VMInv, VMTypeOK
  <2>3. (work \in Seq([do : {"gen", "bind", "add", "bad"}, arg : Nat]))'
    BY <1>6 DEF Tasks
  <2>4. (\A i \in DOMAIN work : TaskOK(work[i]))'
    BY <1>7
  <2>5. (mark \in 0 .. Len(printed))'
    BY <1>1, <2>2
  <2>6. VMTypeOK'
    BY <1>2 DEF VMInv
  <2>7. (Heap(nodes) /\ stmts \in Seq(DOMAIN nodes))'
    BY <1>1, <1>3
  <2> QED BY <1>1, <2>1, <2>3, <2>4, <2>5, <2>6, <2>7 DEF TypeOK
<1>9. EofInv' /\ ChunkEndsInEof' /\ WalkInv'
  BY <1>1, <1>6
     DEF EofInv, LoopEndsByBudget, ChunkEndsInEof, Returned, WalkInv, Add, Task
<1> QED BY <1>2, <1>8, <1>9 DEF GenInv

\* The statements are all done.
LEMMA FinishInv == GenInv /\ Finish => GenInv'
<1> SUFFICES ASSUME GenInv, Finish PROVE GenInv'
  OBVIOUS
<1>1. /\ UNCHANGED <<chunkVars, execVars, genVars>> /\ status' = "DONE"
      /\ status \in {"idle"} \cup Returned
  BY DEF Finish, AtLoopHead
<1>2. VMInv'
  BY <1>1, ChunkKept DEF GenInv, VMInv, VMTypeOK, VMStatus, execVars
<1>3. TypeOK'
  <2>1. status \notin {"building"} \cup Died
    BY <1>1 DEF Returned, Died
  <2> QED BY <1>1, <1>2, <2>1
          DEF GenInv, VMInv, TypeOK, TaskOK, genVars, execVars
<1>4. EofInv' /\ ChunkEndsInEof' /\ WalkInv'
  BY <1>1 DEF EofInv, LoopEndsByBudget, ChunkEndsInEof, Returned, WalkInv
<1> QED BY <1>2, <1>3, <1>4 DEF GenInv

-----------------------------------------------------------------------------
\* The VM of a statement: what its steps do to the rest of the state.
LEMMA VMFrame ==
  ASSUME VMInv, VMNext
  PROVE  /\ UNCHANGED chunkVars
         /\ status \in {"listing", "running"} /\ status' # "building"
         /\ Len(printed) \in Nat
         /\ printed' \in Seq(Value) /\ Len(printed) <= Len(printed')
<1>1. printed \in Seq(Value) /\ Len(printed) \in Nat /\ stack \in Seq(Value)
  BY LenProperties DEF VMInv, VMTypeOK
<1>2. CASE ExecPrint
  <2>1. CASE stack = << >>
    BY <1>1, <1>2, <2>1
       DEF ExecPrint, Require, Die, Fetch, execVars
  <2>2. CASE stack # << >>
    <3>1. printed' = Append(printed, Last(stack)) /\ Last(stack) \in Value
      BY <1>1, <1>2, <2>2, FrontLast DEF ExecPrint, Require
    <3>2. printed' \in Seq(Value) /\ Len(printed') = Len(printed) + 1
      BY <1>1, <3>1, AppendProperties
    <3> QED BY <1>1, <1>2, <2>2, <3>2
            DEF ExecPrint, Require, Fetch, Retire, PrintOp
  <2> QED BY <2>1, <2>2
<1>3. CASE ~ ExecPrint
  <2>1. printed' = printed /\ UNCHANGED chunkVars
        /\ status \in {"listing", "running"} /\ status' # "building"
    BY <1>3 DEF VMNext, Exec, ListInstr, StartExec, ExecNop, ExecConst,
         ExecUnary, ExecBinary, ExecPop, ExecRet, ExecEof, ExecDefine,
         ExecStop, Define, Fetch, Retire, PrintOp, Require, Die, execVars
  <2> QED BY <1>1, <2>1
<1> QED BY <1>2, <1>3

\* The constructor of a statement's VM: its chunk ends in the opcode OP_POP,
\* and then in the opcode OP_EOF.
LEMMA ConstructEof ==
  ASSUME GenInv, work = << >>, Construct
  PROVE  /\ Len(code') \in starts' /\ code'[Len(code')] = OP_EOF
         /\ status' = "listing" /\ printed' = printed
<1>1. code # << >> /\ code[Len(code)] = OP_POP /\ status = "building"
  BY DEF GenInv, WalkInv, Construct
<1>2. finalize /\ status' = "listing" /\ printed' = printed
  BY <1>1 DEF Construct, Require
<1>3. /\ code' = code \o <<OP_RET, OP_EOF>>
      /\ starts' = starts \cup {Len(code) + 1, Len(code) + 2}
  BY <1>1, <1>2 DEF finalize, OP_POP, OP_EOF
<1>4. /\ code \in Seq(Nat) /\ <<OP_RET, OP_EOF>> \in Seq(Nat)
      /\ Len(<<OP_RET, OP_EOF>>) = 2 /\ <<OP_RET, OP_EOF>>[2] = OP_EOF
  BY DEF GenInv, VMInv, VMTypeOK, ChunkTypeOK, OP_RET, OP_EOF
<1>5. Len(code') = Len(code) + 2 /\ code'[Len(code) + 2] = OP_EOF
  BY <1>3, <1>4, CodeAppend
<1> QED BY <1>2, <1>3, <1>5

\* A statement's VM, from its constructor to what run() returns.
LEMMA RunInv == GenInv /\ RunStmt => GenInv'
<1> SUFFICES ASSUME GenInv, RunStmt PROVE GenInv'
  OBVIOUS
<1>1. work = << >> /\ (Construct \/ VMNext)
      /\ UNCHANGED <<nodes, stmts, cur, work, mark>>
  BY DEF RunStmt, genVars
<1>2. VMInv /\ EofInv /\ VMInv' /\ EofInv'
  BY <1>1, VMStepInv, VMStepEof DEF GenInv
<1>3. /\ Len(printed) \in Nat /\ Len(printed') \in Nat
      /\ Len(printed) <= Len(printed') /\ status' # "building"
  <2>1. Len(printed) \in Nat /\ Len(printed') \in Nat
    BY <1>2, LenProperties DEF VMInv, VMTypeOK
  <2>2. CASE Construct
    BY <1>1, <2>1, <2>2, ConstructEof
  <2>3. CASE VMNext
    BY <1>2, <2>1, <2>3, VMFrame
  <2> QED BY <1>1, <2>1, <2>2, <2>3
<1>4. TypeOK'
  <2>1. mark' \in 0 .. Len(printed')
    BY <1>1, <1>3 DEF GenInv, TypeOK
  <2> QED BY <1>1, <1>2, <2>1 DEF GenInv, VMInv, TypeOK, TaskOK
<1>5. ChunkEndsInEof'
  <2>1. CASE Construct
    BY <1>1, <2>1, ConstructEof DEF ChunkEndsInEof
  <2>2. CASE VMNext
    BY <1>2, <2>2, VMFrame DEF GenInv, ChunkEndsInEof, chunkVars
  <2> QED BY <1>1, <2>1, <2>2
<1>6. WalkInv'
  BY <1>3 DEF WalkInv
<1> QED BY <1>2, <1>4, <1>5, <1>6 DEF GenInv

-----------------------------------------------------------------------------
\* What genCode starts from.
Begun ==
  /\ NoVM /\ status = "idle" /\ printed = << >>
  /\ Heap(nodes) /\ stmts \in Seq(DOMAIN nodes)
  /\ cur = 0 /\ work = << >> /\ mark = 0

LEMMA BegunInv == Begun => GenInv
<1> SUFFICES ASSUME Begun PROVE GenInv
  OBVIOUS
<1>1. Heap(nodes) /\ stmts \in Seq(DOMAIN nodes)
  BY DEF Begun
<1>2. VMInv
  BY NoVMInv DEF Begun
<1>3. TypeOK
  <2>1. Len(stmts) \in Nat /\ Len(printed) \in Nat
    BY <1>1, <1>2, LenProperties DEF VMInv, VMTypeOK
  <2>2. work \in Seq([do : {"gen", "bind", "add", "bad"}, arg : Nat])
        /\ DOMAIN work = {}
    BY DEF Begun
  <2> QED BY <1>1, <1>2, <2>1, <2>2 DEF Begun, TypeOK, VMInv
<1>4. EofInv /\ WalkInv /\ ChunkEndsInEof
  BY DEF Begun, EofInv, LoopEndsByBudget, WalkInv, ChunkEndsInEof, Returned
<1> QED BY <1>2, <1>3, <1>4 DEF GenInv

LEMMA GenInitInv == Init => GenInv
<1> SUFFICES ASSUME Init PROVE Begun
  BY BegunInv
<1>1. PICK p \in Programs : nodes = p.nodes /\ stmts = p.stmts
  BY DEF Init
<1>2. Heap(nodes) /\ stmts \in Seq(DOMAIN nodes)
  BY <1>1, ProgramsAssumption
<1> QED BY <1>2 DEF Init, Begun

LEMMA GenStepInv == GenInv /\ [Next]_vars => GenInv'
<1> SUFFICES ASSUME GenInv, [Next]_vars PROVE GenInv'
  OBVIOUS
<1>1. CASE BeginStmt
  BY <1>1, BeginInv
<1>2. CASE Codegen
  BY <1>2, CodegenInv
<1>3. CASE RunStmt
  BY <1>3, RunInv
<1>4. CASE Finish
  BY <1>4, FinishInv
<1>5. CASE UNCHANGED vars
  <2>1. VMInv'
    BY <1>5, Unchanged DEF vars, GenInv
  <2>2. TypeOK'
    BY <1>5, <2>1
       DEF vars, vmVars, execVars, genVars, GenInv, VMInv, TypeOK, TaskOK
  <2>3. EofInv' /\ WalkInv' /\ ChunkEndsInEof'
    BY <1>5 DEF vars, vmVars, chunkVars, execVars, genVars, GenInv, EofInv,
                LoopEndsByBudget, WalkInv, ChunkEndsInEof
  <2> QED BY <2>1, <2>2, <2>3 DEF GenInv
<1> QED BY <1>1, <1>2, <1>3, <1>4, <1>5 DEF Next

(***************************************************************************)
(* GenInv holds of genCode, for every list of trees of any size.           *)
(***************************************************************************)
THEOREM CodeGenInv == Spec => []GenInv
<1>1. Init => GenInv
  BY GenInitInv
<1>2. GenInv /\ [Next]_vars => GenInv'
  BY GenStepInv
<1> QED BY <1>1, <1>2, PTL DEF Spec

(***************************************************************************)
(* The type invariant of CodeGen: the walk stays in the heap, emits opcodes*)
(* that exist and is over before a VM is constructed over its chunk.       *)
(***************************************************************************)
THEOREM CodeGenTypeOK == Spec => []TypeOK
<1>1. GenInv => TypeOK
  BY DEF GenInv
<1> QED BY <1>1, CodeGenInv, PTL

(***************************************************************************)
(* The chunk is well formed in every state of the walk and of the run: each*)
(* operand indexes the constant table, the name of a definition a string.  *)
(***************************************************************************)
THEOREM CodeGenWellFormed == Spec => []WellFormed
<1>1. GenInv => WellFormed
  BY DEF GenInv, VMInv
<1> QED BY <1>1, CodeGenInv, PTL

(***************************************************************************)
(* "chunk always ends in EOF token" (vm.hpp:153) is true of the chunks that*)
(* genCode builds, because it adds OP_POP after the walk; it is not of any *)
(* chunk (see HandTestEof).                                                *)
(***************************************************************************)
THEOREM CodeGenEndsInEof == Spec => []ChunkEndsInEof
<1>1. GenInv => ChunkEndsInEof
  BY DEF GenInv
<1> QED BY <1>1, CodeGenInv, PTL

(***************************************************************************)
(* In genCode, run() returns INF_LOOP only when the budget of exec() is    *)
(* spent: exec() never runs off a chunk.  And an instruction is listed and *)
(* executed where it was emitted, with a constant that is in the table.    *)
(***************************************************************************)
THEOREM CodeGenDecodes ==
  Spec => []((status = "INF_LOOP" => icount = MaxIcount)
             /\ Aligned /\ NoBadOperand)
<1>1. GenInv => /\ status = "INF_LOOP" => icount = MaxIcount
                /\ Aligned /\ NoBadOperand
  BY DEF GenInv, VMInv, EofInv, LoopEndsByBudget, ChunkEndsInEof, Returned
<1> QED BY <1>1, CodeGenInv, PTL

(***************************************************************************)
(* The stack of a statement's VM is as deep at each of its instructions as *)
(* the opcodes before it make it: no operator of a tree takes an operand of*)
(* another, whatever the statement.                                        *)
(***************************************************************************)
THEOREM CodeGenDepth == Spec => []DepthIsStatic
<1>1. Init => DepthIsStatic
  BY DEF Init, DepthIsStatic
<1>2. GenInv /\ DepthIsStatic /\ [Next]_vars => DepthIsStatic'
  <2> SUFFICES ASSUME GenInv, DepthIsStatic, [Next]_vars
               PROVE  DepthIsStatic'
    OBVIOUS
  <2>1. CASE BeginStmt \/ Finish
    <3>1. status' \notin {"running", "ABORT_POP"}
      BY <2>1 DEF BeginStmt, Finish
    <3> QED BY <3>1, DepthElsewhere
  <2>2. CASE Codegen
    <3>1. status' \in {"building", "ABORT_POOL", "ABORT_VAR", "EXIT"}
      <4>1. status = "building"
        BY <2>2 DEF Codegen, GenLeaf, GenUnary, GenBinary, GenReturn, GenPrint,
                    GenVarInit, GenVarNull, GenVarBad, GenUnimplemented, EmitOp,
                    EmitBind, EmitBad, Visiting, Doing
      <4>2. \/ UNCHANGED status
            \/ \E how \in {"ABORT_POOL", "ABORT_VAR", "EXIT"} : status' = how
        BY <2>2 DEF Codegen, GenLeaf, GenUnary, GenBinary, GenReturn, GenPrint,
                    GenVarInit, GenVarNull, GenVarBad, GenUnimplemented, EmitOp,
                    EmitBind, EmitBad, EmitConst, Emit, Descend, Stop, Die
      <4> QED BY <4>1, <4>2
    <3> QED BY <3>1, DepthElsewhere
  <2>3. CASE RunStmt
    BY <2>3, VMStepDepth DEF RunStmt, GenInv
  <2>4. CASE UNCHANGED vars
    BY <2>4, DepthKept DEF vars
  <2> QED BY <2>1, <2>2, <2>3, <2>4 DEF Next
<1> QED BY <1>1, <1>2, CodeGenInv, PTL DEF Spec


-----------------------------------------------------------------------------
\* The recursive definitions of Expr on a heap: each satisfies its equation,
\* because a node's value depends on those of its children.

LEMMA KidsBelow ==
  ASSUME NEW ns, Heap(ns), NEW k \in DOMAIN ns
  PROVE  /\ Len(ns) \in Nat /\ DOMAIN ns = 1 .. Len(ns)
         /\ DOMAIN ns[k].kids = 1 .. Len(ns[k].kids) /\ Len(ns[k].kids) \in Nat
         /\ \A i \in DOMAIN ns[k].kids :
              ns[k].kids[i] \in 1 .. k - 1 /\ ns[k].kids[i] \in DOMAIN ns
         /\ Len(ns[k].kids) # 0 => 1 \in DOMAIN ns[k].kids
         /\ Len(ns[k].kids) \notin {0, 1} => 2 \in DOMAIN ns[k].kids
         /\ ns[k].kind \in LeafKinds => Len(ns[k].kids) = 0
         /\ ns[k].kind \in {"UnaryOp", "Return", "Var", "Print"} =>
              Len(ns[k].kids) = 1 /\ 1 \in DOMAIN ns[k].kids
         /\ ns[k].kind = "BinaryOp" =>
              Len(ns[k].kids) = 2 /\ 1 \in DOMAIN ns[k].kids
                                    /\ 2 \in DOMAIN ns[k].kids
         /\ ns[k].lit \in Value
<1>1. ns \in Seq(Node)
  BY DEF Heap
<1>2. Len(ns) \in Nat /\ DOMAIN ns = 1 .. Len(ns)
  BY <1>1, LenProperties
<1>3. ns[k] \in Node
  BY <1>1, <1>2, ElementOfSeq
<1>4. ns[k].kids \in Seq(Nat \ {0}) /\ ns[k].lit \in Value
  BY <1>3 DEF Node
<1>5. DOMAIN ns[k].kids = 1 .. Len(ns[k].kids) /\ Len(ns[k].kids) \in Nat
  BY <1>4, LenProperties
<1>6. \A i \in DOMAIN ns[k].kids : ns[k].kids[i] \in Nat \ {0}
  BY <1>4, <1>5, ElementOfSeq
<1>7. \A i \in DOMAIN ns[k].kids : ns[k].kids[i] < k
  BY DEF Heap
<1>8. ns[k].kind \in LeafKinds => Len(ns[k].kids) = 0
  BY EmptySeq DEF Heap
<1>9. ns[k].kind \in {"UnaryOp", "Return", "Var", "Print"} => Len(ns[k].kids) = 1
  BY DEF Heap
<1>10. ns[k].kind = "BinaryOp" => Len(ns[k].kids) = 2
  BY DEF Heap
<1>11. k \in Nat /\ k <= Len(ns)
  BY <1>2
<1>12. \A i \in DOMAIN ns[k].kids :
         ns[k].kids[i] \in 1 .. k - 1 /\ ns[k].kids[i] \in 1 .. Len(ns)
  <2> TAKE i \in DOMAIN ns[k].kids
  <2>1. ns[k].kids[i] \in Nat \ {0} /\ ns[k].kids[i] < k
    BY <1>6, <1>7
  <2> QED BY <1>2, <1>11, <2>1
<1>13. /\ Len(ns[k].kids) # 0 => 1 \in DOMAIN ns[k].kids
       /\ Len(ns[k].kids) \notin {0, 1} => 2 \in DOMAIN ns[k].kids
  <2> DEFINE m == Len(ns[k].kids)
  <2>1. m \in Nat /\ DOMAIN ns[k].kids = 1 .. m
    BY <1>5
  <2> HIDE DEF m
  <2>2. (m # 0 => 1 \in 1 .. m) /\ (m \notin {0, 1} => 2 \in 1 .. m)
    BY <2>1
  <2> QED BY <2>1, <2>2 DEF m
<1>14. /\ ns[k].kind \in {"UnaryOp", "Return", "Var", "Print"} =>
            1 \in DOMAIN ns[k].kids
       /\ ns[k].kind = "BinaryOp" =>
            1 \in DOMAIN ns[k].kids /\ 2 \in DOMAIN ns[k].kids
  <2>1. 1 \notin {0} /\ 2 \notin {0, 1}
    OBVIOUS
  <2> QED BY <1>9, <1>10, <1>13, <2>1
<1> QED BY <1>2, <1>4, <1>5, <1>8, <1>9, <1>10, <1>12, <1>13, <1>14

\* The children of each node, for Recursion.
KidsOf(ns) == [k \in DOMAIN ns |-> {ns[k].kids[i] : i \in DOMAIN ns[k].kids}]

LEMMA HeapRecursion ==
  ASSUME NEW ns, Heap(ns), NEW V, NEW v, v \in V, NEW F,
         Recurses(F, KidsOf(ns), DOMAIN ns, V)
  PROVE  Solvable(F, DOMAIN ns, V)
<1>1. Len(ns) \in Nat /\ DOMAIN ns = 1 .. Len(ns)
  BY LenProperties DEF Heap
<1>2. \A k \in DOMAIN ns : KidsOf(ns)[k] \subseteq 1 .. k - 1
  BY KidsBelow DEF KidsOf
<1> QED BY <1>1, <1>2, Recursion

\* Induction over the nodes of a heap.
LEMMA HeapInduction ==
  ASSUME NEW ns, Heap(ns), NEW S,
         \A k \in DOMAIN ns :
           (\A i \in DOMAIN ns[k].kids : ns[k].kids[i] \in S) => k \in S
  PROVE  \A k \in DOMAIN ns : k \in S
<1>1. Len(ns) \in Nat /\ DOMAIN ns = 1 .. Len(ns)
  BY LenProperties DEF Heap
<1>2. ASSUME NEW k \in 1 .. Len(ns), \A i \in 1 .. k - 1 : i \in S
      PROVE  k \in S
  BY <1>1, <1>2, KidsBelow
<1> QED BY <1>1, <1>2, IntervalInduction

PlainOf(ns, f, k) ==
  \/ ns[k].kind \in LeafKinds
  \/ /\ ns[k].kind = "UnaryOp"
     /\ ns[k].type \in DOMAIN token_to_unaryop
     /\ f[ns[k].kids[1]]
  \/ /\ ns[k].kind = "BinaryOp"
     /\ ns[k].type \in DOMAIN token_to_binop
     /\ f[ns[k].kids[1]]
     /\ f[ns[k].kids[2]]

LEMMA PlainDef ==
  ASSUME NEW ns, Heap(ns)
  PROVE  /\ Plain(ns) = [k \in DOMAIN ns |-> PlainOf(ns, Plain(ns), k)]
         /\ \A k \in DOMAIN ns : Plain(ns)[k] \in BOOLEAN
<1> DEFINE D == DOMAIN ns
           F == [k \in D |-> [g \in [D -> BOOLEAN] |-> PlainOf(ns, g, k)]]
           Q(f) == f = [k \in D |-> PlainOf(ns, f, k)]
<1>1. \A k \in D : \A g \in [D -> BOOLEAN] : F[k][g] = PlainOf(ns, g, k)
  OBVIOUS
<1>2. ASSUME NEW k \in D, NEW g,
             \A i \in DOMAIN ns[k].kids : g[ns[k].kids[i]] \in BOOLEAN
      PROVE  PlainOf(ns, g, k) \in BOOLEAN
  BY <1>2, KidsBelow DEF PlainOf
<1>3. ASSUME NEW k \in D, NEW g \in [D -> BOOLEAN], NEW h \in [D -> BOOLEAN],
             \A i \in KidsOf(ns)[k] : g[i] = h[i]
      PROVE  PlainOf(ns, g, k) = PlainOf(ns, h, k)
  <2>1. \A i \in DOMAIN ns[k].kids : g[ns[k].kids[i]] = h[ns[k].kids[i]]
    BY <1>3 DEF KidsOf
  <2> QED BY <2>1, KidsBelow DEF PlainOf
<1>4. \A k \in D : \A g \in [D -> BOOLEAN] : PlainOf(ns, g, k) \in BOOLEAN
  BY <1>2, KidsBelow
<1> HIDE DEF F
<1>5. Recurses(F, KidsOf(ns), D, BOOLEAN)
  BY <1>1, <1>3, <1>4 DEF Recurses
<1>6. Solvable(F, D, BOOLEAN)
  BY <1>5, HeapRecursion, TRUE \in BOOLEAN
<1>7. PICK f \in [D -> BOOLEAN] : \A k \in D : f[k] = F[k][f]
  BY <1>6 DEF Solvable
<1>8. Q(f)
  BY <1>1, <1>7
<1>9. Plain(ns) = CHOOSE g : Q(g)
  BY DEF Plain, PlainOf
<1> HIDE DEF Q
<1>10. Q(Plain(ns))
  BY <1>8, <1>9
<1>11. Plain(ns) = [k \in D |-> PlainOf(ns, Plain(ns), k)]
  BY <1>10 DEF Q
<1> DEFINE S == {k \in D : Plain(ns)[k] \in BOOLEAN}
<1>12. ASSUME NEW k \in D, \A i \in DOMAIN ns[k].kids : ns[k].kids[i] \in S
       PROVE  k \in S
  BY <1>2, <1>11, <1>12
<1> HIDE DEF S
<1>13. \A k \in D : k \in S
  BY <1>12, HeapInduction
<1> QED BY <1>11, <1>13 DEF S

\* The shape of a plain node.
LEMMA PlainKinds ==
  ASSUME NEW ns, Heap(ns), NEW k \in DOMAIN ns, Plain(ns)[k]
  PROVE  \/ ns[k].kind \in LeafKinds
         \/ /\ ns[k].kind = "UnaryOp"
            /\ ns[k].type \in DOMAIN token_to_unaryop
            /\ token_to_unaryop[ns[k].type] \in UnaryOps
            /\ ns[k].kids[1] \in DOMAIN ns /\ Plain(ns)[ns[k].kids[1]]
         \/ /\ ns[k].kind = "BinaryOp"
            /\ ns[k].type \in DOMAIN token_to_binop
            /\ token_to_binop[ns[k].type] \in BinaryOps
            /\ ns[k].kids[1] \in DOMAIN ns /\ Plain(ns)[ns[k].kids[1]]
            /\ ns[k].kids[2] \in DOMAIN ns /\ Plain(ns)[ns[k].kids[2]]
<1>1. /\ \A t \in DOMAIN token_to_binop : token_to_binop[t] \in BinaryOps
      /\ \A t \in DOMAIN token_to_unaryop : token_to_unaryop[t] \in UnaryOps
  BY DEF token_to_binop, token_to_unaryop, BinaryOps, UnaryOps, ArithOps
<1>2. PlainOf(ns, Plain(ns), k)
  BY PlainDef
<1> QED BY <1>1, <1>2, KidsBelow DEF PlainOf

\* What the shape of a node says, plain or not.
EvalOf(ns, f, k) ==
  IF ~ Plain(ns)[k] THEN Null
  ELSE CASE ns[k].kind = "UnaryOp" ->
              UnaryVal(token_to_unaryop[ns[k].type], f[ns[k].kids[1]])
         [] ns[k].kind = "BinaryOp" ->
              BinaryVal(token_to_binop[ns[k].type],
                        f[ns[k].kids[1]], f[ns[k].kids[2]])
         [] OTHER -> ns[k].lit

LEMMA EvalDef ==
  ASSUME NEW ns, Heap(ns)
  PROVE  /\ Eval(ns) = [k \in DOMAIN ns |-> EvalOf(ns, Eval(ns), k)]
         /\ \A k \in DOMAIN ns : Eval(ns)[k] \in Value
<1> DEFINE D == DOMAIN ns
           F == [k \in D |-> [g \in [D -> Value] |-> EvalOf(ns, g, k)]]
           Q(f) == f = [k \in D |-> EvalOf(ns, f, k)]
<1>1. \A k \in D : \A g \in [D -> Value] : F[k][g] = EvalOf(ns, g, k)
  OBVIOUS
<1>2. ASSUME NEW k \in D, NEW g,
             \A i \in DOMAIN ns[k].kids : g[ns[k].kids[i]] \in Value
      PROVE  EvalOf(ns, g, k) \in Value
  <2>1. CASE ~ Plain(ns)[k]
    BY <2>1, ValueKinds DEF EvalOf
  <2>2. CASE Plain(ns)[k] /\ ns[k].kind = "UnaryOp"
    <3>1. g[ns[k].kids[1]] \in Value
      BY <1>2, <2>2, KidsBelow
    <3>2. token_to_unaryop[ns[k].type] \in UnaryOps
      BY <2>2, PlainKinds DEF LeafKinds
    <3>3. EvalOf(ns, g, k) = UnaryVal(token_to_unaryop[ns[k].type],
                                      g[ns[k].kids[1]])
      BY <2>2 DEF EvalOf
    <3> QED BY <3>1, <3>2, <3>3, UnaryValType
  <2>3. CASE Plain(ns)[k] /\ ns[k].kind = "BinaryOp"
    <3>1. g[ns[k].kids[1]] \in Value /\ g[ns[k].kids[2]] \in Value
      BY <1>2, <2>3, KidsBelow
    <3>2. token_to_binop[ns[k].type] \in BinaryOps
      BY <2>3, PlainKinds DEF LeafKinds
    <3>3. EvalOf(ns, g, k) = BinaryVal(token_to_binop[ns[k].type],
                               g[ns[k].kids[1]], g[ns[k].kids[2]])
      BY <2>3 DEF EvalOf
    <3> QED BY <3>1, <3>2, <3>3, BinaryValType
  <2>4. CASE Plain(ns)[k] /\ ns[k].kind \notin {"UnaryOp", "BinaryOp"}
    BY <2>4, KidsBelow DEF EvalOf
  <2> QED BY <2>1, <2>2, <2>3, <2>4
<1>3. ASSUME NEW k \in D, NEW g \in [D -> Value], NEW h \in [D -> Value],
             \A i \in KidsOf(ns)[k] : g[i] = h[i]
      PROVE  EvalOf(ns, g, k) = EvalOf(ns, h, k)
  <2>1. \A i \in DOMAIN ns[k].kids : g[ns[k].kids[i]] = h[ns[k].kids[i]]
    BY <1>3 DEF KidsOf
  <2>2. CASE ~ Plain(ns)[k]
    BY <2>2 DEF EvalOf
  <2>3. CASE Plain(ns)[k]
    BY <2>1, <2>3, PlainKinds, KidsBelow DEF EvalOf, LeafKinds
  <2> QED BY <2>2, <2>3
<1>4. \A k \in D : \A g \in [D -> Value] : EvalOf(ns, g, k) \in Value
  BY <1>2, KidsBelow
<1> HIDE DEF F
<1>5. Recurses(F, KidsOf(ns), D, Value)
  BY <1>1, <1>3, <1>4 DEF Recurses
<1>6. Solvable(F, D, Value)
  BY <1>5, HeapRecursion, ValueKinds
<1>7. PICK f \in [D -> Value] : \A k \in D : f[k] = F[k][f]
  BY <1>6 DEF Solvable
<1>8. Q(f)
  BY <1>1, <1>7
<1>9. Eval(ns) = CHOOSE g : Q(g)
  BY DEF Eval, EvalOf
<1> HIDE DEF Q
<1>10. Q(Eval(ns))
  BY <1>8, <1>9
<1>11. Eval(ns) = [k \in D |-> EvalOf(ns, Eval(ns), k)]
  BY <1>10 DEF Q
<1> DEFINE S == {k \in D : Eval(ns)[k] \in Value}
<1>12. ASSUME NEW k \in D, \A i \in DOMAIN ns[k].kids : ns[k].kids[i] \in S
       PROVE  k \in S
  BY <1>2, <1>11, <1>12
<1> HIDE DEF S
<1>13. \A k \in D : k \in S
  BY <1>12, HeapInduction
<1> QED BY <1>11, <1>13 DEF S

SizeOf(ns, f, k) ==
  CASE Len(ns[k].kids) = 0 -> 1
    [] Len(ns[k].kids) = 1 -> 1 + f[ns[k].kids[1]]
    [] OTHER -> 1 + f[ns[k].kids[1]] + f[ns[k].kids[2]]

LEMMA SizeDef ==
  ASSUME NEW ns, Heap(ns)
  PROVE  /\ Size(ns) = [k \in DOMAIN ns |-> SizeOf(ns, Size(ns), k)]
         /\ \A k \in DOMAIN ns : Size(ns)[k] \in Nat \ {0}
<1> DEFINE D == DOMAIN ns
           F == [k \in D |-> [g \in [D -> Nat \ {0}] |-> SizeOf(ns, g, k)]]
           Q(f) == f = [k \in D |-> SizeOf(ns, f, k)]
<1>1. \A k \in D : \A g \in [D -> Nat \ {0}] : F[k][g] = SizeOf(ns, g, k)
  OBVIOUS
<1>2. ASSUME NEW k \in D, NEW g,
             \A i \in DOMAIN ns[k].kids : g[ns[k].kids[i]] \in Nat \ {0}
      PROVE  SizeOf(ns, g, k) \in Nat \ {0}
  <2>1. /\ Len(ns[k].kids) \in Nat /\ DOMAIN ns[k].kids = 1 .. Len(ns[k].kids)
        /\ Len(ns[k].kids) # 0 => 1 \in DOMAIN ns[k].kids
        /\ Len(ns[k].kids) \notin {0, 1} => 2 \in DOMAIN ns[k].kids
    BY KidsBelow
  <2> QED BY <1>2, <2>1 DEF SizeOf
<1>3. ASSUME NEW k \in D, NEW g \in [D -> Nat \ {0}], NEW h \in [D -> Nat \ {0}],
             \A i \in KidsOf(ns)[k] : g[i] = h[i]
      PROVE  SizeOf(ns, g, k) = SizeOf(ns, h, k)
  <2>1. \A i \in DOMAIN ns[k].kids : g[ns[k].kids[i]] = h[ns[k].kids[i]]
    BY <1>3 DEF KidsOf
  <2>2. /\ Len(ns[k].kids) \in Nat /\ DOMAIN ns[k].kids = 1 .. Len(ns[k].kids)
        /\ Len(ns[k].kids) # 0 => 1 \in DOMAIN ns[k].kids
        /\ Len(ns[k].kids) \notin {0, 1} => 2 \in DOMAIN ns[k].kids
    BY KidsBelow
  <2>3. CASE Len(ns[k].kids) = 0
    BY <2>3 DEF SizeOf
  <2>4. CASE Len(ns[k].kids) = 1
    BY <2>1, <2>2, <2>4 DEF SizeOf
  <2>5. CASE Len(ns[k].kids) \notin {0, 1}
    BY <2>1, <2>2, <2>5 DEF SizeOf
  <2> QED BY <2>3, <2>4, <2>5
<1>4. \A k \in D : \A g \in [D -> Nat \ {0}] : SizeOf(ns, g, k) \in Nat \ {0}
  BY <1>2, KidsBelow
<1> HIDE DEF F
<1>5. Recurses(F, KidsOf(ns), D, Nat \ {0})
  BY <1>1, <1>3, <1>4 DEF Recurses
<1>6. Solvable(F, D, Nat \ {0})
  BY <1>5, HeapRecursion, 1 \in Nat \ {0}
<1>7. PICK f \in [D -> Nat \ {0}] : \A k \in D : f[k] = F[k][f]
  BY <1>6 DEF Solvable
<1>8. Q(f)
  BY <1>1, <1>7
<1>9. Size(ns) = CHOOSE g : Q(g)
  BY DEF Size, SizeOf
<1> HIDE DEF Q
<1>10. Q(Size(ns))
  BY <1>8, <1>9
<1>11. Size(ns) = [k \in D |-> SizeOf(ns, Size(ns), k)]
  BY <1>10 DEF Q
<1> DEFINE S == {k \in D : Size(ns)[k] \in Nat \ {0}}
<1>12. ASSUME NEW k \in D, \A i \in DOMAIN ns[k].kids : ns[k].kids[i] \in S
       PROVE  k \in S
  BY <1>2, <1>11, <1>12
<1> HIDE DEF S
<1>13. \A k \in D : k \in S
  BY <1>12, HeapInduction
<1> QED BY <1>11, <1>13 DEF S

LeavesOf(ns, f, k) ==
  CASE Len(ns[k].kids) = 0 -> 1
    [] Len(ns[k].kids) = 1 -> f[ns[k].kids[1]]
    [] OTHER -> f[ns[k].kids[1]] + f[ns[k].kids[2]]

LEMMA LeavesDef ==
  ASSUME NEW ns, Heap(ns)
  PROVE  /\ Leaves(ns) = [k \in DOMAIN ns |-> LeavesOf(ns, Leaves(ns), k)]
         /\ \A k \in DOMAIN ns : Leaves(ns)[k] \in Nat \ {0}
<1> DEFINE D == DOMAIN ns
           F == [k \in D |-> [g \in [D -> Nat \ {0}] |-> LeavesOf(ns, g, k)]]
           Q(f) == f = [k \in D |-> LeavesOf(ns, f, k)]
<1>1. \A k \in D : \A g \in [D -> Nat \ {0}] : F[k][g] = LeavesOf(ns, g, k)
  OBVIOUS
<1>2. ASSUME NEW k \in D, NEW g,
             \A i \in DOMAIN ns[k].kids : g[ns[k].kids[i]] \in Nat \ {0}
      PROVE  LeavesOf(ns, g, k) \in Nat \ {0}
  <2>1. /\ Len(ns[k].kids) \in Nat /\ DOMAIN ns[k].kids = 1 .. Len(ns[k].kids)
        /\ Len(ns[k].kids) # 0 => 1 \in DOMAIN ns[k].kids
        /\ Len(ns[k].kids) \notin {0, 1} => 2 \in DOMAIN ns[k].kids
    BY KidsBelow
  <2> QED BY <1>2, <2>1 DEF LeavesOf
<1>3. ASSUME NEW k \in D, NEW g \in [D -> Nat \ {0}], NEW h \in [D -> Nat \ {0}],
             \A i \in KidsOf(ns)[k] : g[i] = h[i]
      PROVE  LeavesOf(ns, g, k) = LeavesOf(ns, h, k)
  <2>1. \A i \in DOMAIN ns[k].kids : g[ns[k].kids[i]] = h[ns[k].kids[i]]
    BY <1>3 DEF KidsOf
  <2>2. /\ Len(ns[k].kids) \in Nat /\ DOMAIN ns[k].kids = 1 .. Len(ns[k].kids)
        /\ Len(ns[k].kids) # 0 => 1 \in DOMAIN ns[k].kids
        /\ Len(ns[k].kids) \notin {0, 1} => 2 \in DOMAIN ns[k].kids
    BY KidsBelow
  <2> QED BY <2>1, <2>2 DEF LeavesOf
<1>4. \A k \in D : \A g \in [D -> Nat \ {0}] : LeavesOf(ns, g, k) \in Nat \ {0}
  BY <1>2, KidsBelow
<1> HIDE DEF F
<1>5. Recurses(F, KidsOf(ns), D, Nat \ {0})
  BY <1>1, <1>3, <1>4 DEF Recurses
<1>6. Solvable(F, D, Nat \ {0})
  BY <1>5, HeapRecursion, 1 \in Nat \ {0}
<1>7. PICK f \in [D -> Nat \ {0}] : \A k \in D : f[k] = F[k][f]
  BY <1>6 DEF Solvable
<1>8. Q(f)
  BY <1>1, <1>7
<1>9. Leaves(ns) = CHOOSE g : Q(g)
  BY DEF Leaves, LeavesOf
<1> HIDE DEF Q
<1>10. Q(Leaves(ns))
  BY <1>8, <1>9
<1>11. Leaves(ns) = [k \in D |-> LeavesOf(ns, Leaves(ns), k)]
  BY <1>10 DEF Q
<1> DEFINE S == {k \in D : Leaves(ns)[k] \in Nat \ {0}}
<1>12. ASSUME NEW k \in D, \A i \in DOMAIN ns[k].kids : ns[k].kids[i] \in S
       PROVE  k \in S
  BY <1>2, <1>11, <1>12
<1> HIDE DEF S
<1>13. \A k \in D : k \in S
  BY <1>12, HeapInduction
<1> QED BY <1>11, <1>13 DEF S

MayTrapOf(ns, f, k) ==
  /\ ns[k].kind \in {"UnaryOp", "BinaryOp"}
  /\ \/ \E i \in DOMAIN ns[k].kids : f[ns[k].kids[i]]
     \/ /\ ns[k].type = "DIV"
        /\ IntDivByZero(OP_DIV, Eval(ns)[ns[k].kids[1]],
                                Eval(ns)[ns[k].kids[2]])

LEMMA MayTrapDef ==
  ASSUME NEW ns, Heap(ns)
  PROVE  /\ MayTrap(ns) = [k \in DOMAIN ns |-> MayTrapOf(ns, MayTrap(ns), k)]
         /\ \A k \in DOMAIN ns : MayTrap(ns)[k] \in BOOLEAN
<1> DEFINE D == DOMAIN ns
           F == [k \in D |-> [g \in [D -> BOOLEAN] |-> MayTrapOf(ns, g, k)]]
           Q(f) == f = [k \in D |-> MayTrapOf(ns, f, k)]
<1>1. \A k \in D : \A g \in [D -> BOOLEAN] : F[k][g] = MayTrapOf(ns, g, k)
  OBVIOUS
<1>2. ASSUME NEW k \in D, NEW g,
             \A i \in DOMAIN ns[k].kids : g[ns[k].kids[i]] \in BOOLEAN
      PROVE  MayTrapOf(ns, g, k) \in BOOLEAN
  BY DEF MayTrapOf
<1>3. ASSUME NEW k \in D, NEW g \in [D -> BOOLEAN], NEW h \in [D -> BOOLEAN],
             \A i \in KidsOf(ns)[k] : g[i] = h[i]
      PROVE  MayTrapOf(ns, g, k) = MayTrapOf(ns, h, k)
  <2>1. \A i \in DOMAIN ns[k].kids : g[ns[k].kids[i]] = h[ns[k].kids[i]]
    BY <1>3 DEF KidsOf
  <2> QED BY <2>1 DEF MayTrapOf
<1>4. \A k \in D : \A g \in [D -> BOOLEAN] : MayTrapOf(ns, g, k) \in BOOLEAN
  BY <1>2, KidsBelow
<1> HIDE DEF F
<1>5. Recurses(F, KidsOf(ns), D, BOOLEAN)
  BY <1>1, <1>3, <1>4 DEF Recurses
<1>6. Solvable(F, D, BOOLEAN)
  BY <1>5, HeapRecursion, TRUE \in BOOLEAN
<1>7. PICK f \in [D -> BOOLEAN] : \A k \in D : f[k] = F[k][f]
  BY <1>6 DEF Solvable
<1>8. Q(f)
  BY <1>1, <1>7
<1>9. MayTrap(ns) = CHOOSE g : Q(g)
  BY DEF MayTrap, MayTrapOf
<1> HIDE DEF Q
<1>10. Q(MayTrap(ns))
  BY <1>8, <1>9
<1>11. MayTrap(ns) = [k \in D |-> MayTrapOf(ns, MayTrap(ns), k)]
  BY <1>10 DEF Q
<1> DEFINE S == {k \in D : MayTrap(ns)[k] \in BOOLEAN}
<1>12. ASSUME NEW k \in D, \A i \in DOMAIN ns[k].kids : ns[k].kids[i] \in S
       PROVE  k \in S
  BY <1>2, <1>11, <1>12
<1> HIDE DEF S
<1>13. \A k \in D : k \in S
  BY <1>12, HeapInduction
<1> QED BY <1>11, <1>13 DEF S

\* A plain node, by its kind.
LEMMA PlainLeaf ==
  ASSUME NEW ns, Heap(ns), NEW k \in DOMAIN ns, ns[k].kind \in LeafKinds
  PROVE  /\ Plain(ns)[k] /\ Eval(ns)[k] = ns[k].lit
         /\ Size(ns)[k] = 1 /\ Leaves(ns)[k] = 1
<1>1. Plain(ns)[k]
  BY PlainDef DEF PlainOf
<1>2. Eval(ns)[k] = EvalOf(ns, Eval(ns), k)
  BY EvalDef
<1>3. Eval(ns)[k] = ns[k].lit
  BY <1>1, <1>2 DEF EvalOf, LeafKinds
<1>4. Size(ns)[k] = SizeOf(ns, Size(ns), k)
      /\ Leaves(ns)[k] = LeavesOf(ns, Leaves(ns), k)
  BY SizeDef, LeavesDef
<1>5. Len(ns[k].kids) = 0
  BY KidsBelow
<1> QED BY <1>1, <1>3, <1>4, <1>5 DEF SizeOf, LeavesOf

LEMMA PlainUnary ==
  ASSUME NEW ns, Heap(ns), NEW k \in DOMAIN ns, Plain(ns)[k],
         ns[k].kind = "UnaryOp"
  PROVE  LET a == ns[k].kids[1] IN
         /\ a \in DOMAIN ns /\ Plain(ns)[a]
         /\ ns[k].type \in DOMAIN token_to_unaryop
         /\ token_to_unaryop[ns[k].type] \in UnaryOps
         /\ Eval(ns)[k] = UnaryVal(token_to_unaryop[ns[k].type], Eval(ns)[a])
         /\ Size(ns)[k] = 1 + Size(ns)[a]
         /\ Leaves(ns)[k] = Leaves(ns)[a]
         /\ MayTrap(ns)[a] => MayTrap(ns)[k]
<1>1. /\ ns[k].kids[1] \in DOMAIN ns /\ Plain(ns)[ns[k].kids[1]]
      /\ ns[k].type \in DOMAIN token_to_unaryop
      /\ token_to_unaryop[ns[k].type] \in UnaryOps
  BY PlainKinds DEF LeafKinds
<1>2. Eval(ns)[k] = EvalOf(ns, Eval(ns), k)
  BY EvalDef
<1>3. Size(ns)[k] = SizeOf(ns, Size(ns), k)
      /\ Leaves(ns)[k] = LeavesOf(ns, Leaves(ns), k)
  BY SizeDef, LeavesDef
<1>4. MayTrap(ns)[k] = MayTrapOf(ns, MayTrap(ns), k)
  BY MayTrapDef
<1>5. Len(ns[k].kids) = 1 /\ 1 \in DOMAIN ns[k].kids
  BY KidsBelow
<1>6. Eval(ns)[k] = UnaryVal(token_to_unaryop[ns[k].type],
                             Eval(ns)[ns[k].kids[1]])
  BY <1>2 DEF EvalOf
<1>7. /\ Size(ns)[k] = 1 + Size(ns)[ns[k].kids[1]]
      /\ Leaves(ns)[k] = Leaves(ns)[ns[k].kids[1]]
  BY <1>3, <1>5 DEF SizeOf, LeavesOf
<1>8. MayTrap(ns)[ns[k].kids[1]] => MayTrap(ns)[k]
  BY <1>4, <1>5 DEF MayTrapOf
<1> QED BY <1>1, <1>6, <1>7, <1>8

LEMMA PlainBinary ==
  ASSUME NEW ns, Heap(ns), NEW k \in DOMAIN ns, Plain(ns)[k],
         ns[k].kind = "BinaryOp"
  PROVE  LET a  == ns[k].kids[1]
             b  == ns[k].kids[2]
             op == token_to_binop[ns[k].type] IN
         /\ a \in DOMAIN ns /\ Plain(ns)[a] /\ b \in DOMAIN ns /\ Plain(ns)[b]
         /\ ns[k].type \in DOMAIN token_to_binop /\ op \in BinaryOps
         /\ Eval(ns)[k] = BinaryVal(op, Eval(ns)[a], Eval(ns)[b])
         /\ Size(ns)[k] = 1 + Size(ns)[a] + Size(ns)[b]
         /\ Leaves(ns)[k] = Leaves(ns)[a] + Leaves(ns)[b]
         /\ MayTrap(ns)[a] => MayTrap(ns)[k]
         /\ MayTrap(ns)[b] => MayTrap(ns)[k]
         /\ IntDivByZero(op, Eval(ns)[a], Eval(ns)[b]) => MayTrap(ns)[k]
<1> DEFINE a  == ns[k].kids[1]
           b  == ns[k].kids[2]
           op == token_to_binop[ns[k].type]
<1>1. /\ a \in DOMAIN ns /\ Plain(ns)[a] /\ b \in DOMAIN ns /\ Plain(ns)[b]
      /\ ns[k].type \in DOMAIN token_to_binop /\ op \in BinaryOps
  BY PlainKinds DEF LeafKinds
<1>2. Eval(ns)[k] = EvalOf(ns, Eval(ns), k)
  BY EvalDef
<1>3. Size(ns)[k] = SizeOf(ns, Size(ns), k)
      /\ Leaves(ns)[k] = LeavesOf(ns, Leaves(ns), k)
  BY SizeDef, LeavesDef
<1>4. MayTrap(ns)[k] = MayTrapOf(ns, MayTrap(ns), k)
  BY MayTrapDef
<1>5. Len(ns[k].kids) = 2 /\ 1 \in DOMAIN ns[k].kids /\ 2 \in DOMAIN ns[k].kids
  BY KidsBelow
<1>6. Eval(ns)[k] = BinaryVal(op, Eval(ns)[a], Eval(ns)[b])
  BY <1>2, <1>1 DEF EvalOf
<1>7. /\ Size(ns)[k] = 1 + Size(ns)[a] + Size(ns)[b]
      /\ Leaves(ns)[k] = Leaves(ns)[a] + Leaves(ns)[b]
  BY <1>3, <1>5 DEF SizeOf, LeavesOf
<1>8. (MayTrap(ns)[a] => MayTrap(ns)[k]) /\ (MayTrap(ns)[b] => MayTrap(ns)[k])
  BY <1>4, <1>5 DEF MayTrapOf
<1>9. IntDivByZero(op, Eval(ns)[a], Eval(ns)[b]) => MayTrap(ns)[k]
  <2>1. op = OP_DIV => ns[k].type = "DIV"
    BY <1>1 DEF token_to_binop, OP_ADD, OP_SUB, OP_MULT, OP_DIV, OP_OR,
      OP_AND, OP_CMP
  <2>2. IntDivByZero(op, Eval(ns)[a], Eval(ns)[b]) => op = OP_DIV
    BY DEF IntDivByZero
  <2> QED BY <1>4, <2>1, <2>2 DEF MayTrapOf
<1> QED BY <1>1, <1>6, <1>7, <1>8, <1>9


-----------------------------------------------------------------------------
\* The instructions of a plain expression as a relation between stacks.  e is
\* the tree that is computed: where a division may trap, MayTrap says so of e.

Applies(ns, e, op, s, t) ==
  \/ /\ op \in UnaryOps
     /\ \E r \in Seq(Value), A \in Value :
          s = Append(r, A) /\ t = Append(r, UnaryVal(op, A))
  \/ /\ op \in BinaryOps
     /\ \E r \in Seq(Value), A, B \in Value :
          /\ s = Append(Append(r, A), B)
          /\ t = Append(r, BinaryVal(op, A, B))
          /\ IntDivByZero(op, A, B) => MayTrap(ns)[e]

\* The instruction at p of the code takes ip to q and the stack from s to t.
Instr(cd, cs, ns, e, p, s, q, t) ==
  /\ p \in 1 .. Len(cd)
  /\ \/ /\ cd[p] = OP_CONST
        /\ p + 1 \in 1 .. Len(cd)
        /\ cd[p + 1] + 1 \in 1 .. Len(cs)
        /\ q = p + 2
        /\ t = Append(s, cs[cd[p + 1] + 1])
     \/ /\ q = p + 1
        /\ Applies(ns, e, cd[p], s, t)

\* The first n instructions: at[i] and stk[i] are ip and stack after i.
Trace(cd, cs, ns, e, n, at, stk) ==
  /\ at \in [0 .. n -> Nat \ {0}]
  /\ stk \in [0 .. n -> Seq(Value)]
  /\ at[0] = 1 /\ stk[0] = <<Null>>
  /\ \A i \in 0 .. n - 1 :
       Instr(cd, cs, ns, e, at[i], stk[i], at[i + 1], stk[i + 1])

Reaches(cd, cs, ns, e, n, q, t) ==
  \E at, stk : Trace(cd, cs, ns, e, n, at, stk) /\ at[n] = q /\ stk[n] = t

Extends(b, a) == Len(a) <= Len(b) /\ \A i \in 1 .. Len(a) : b[i] = a[i]

LEMMA InstrKept ==
  ASSUME NEW cd \in Seq(Nat), NEW cd2 \in Seq(Nat), Extends(cd2, cd),
         NEW cs \in Seq(Value), NEW cs2 \in Seq(Value), Extends(cs2, cs),
         NEW ns, NEW e, NEW p, NEW s, NEW q, NEW t,
         Instr(cd, cs, ns, e, p, s, q, t)
  PROVE  Instr(cd2, cs2, ns, e, p, s, q, t)
<1>1. Len(cd) \in Nat /\ Len(cd2) \in Nat /\ Len(cs) \in Nat /\ Len(cs2) \in Nat
  BY LenProperties
<1>2. /\ p \in 1 .. Len(cd2) /\ cd2[p] = cd[p]
      /\ p + 1 \in 1 .. Len(cd) =>
           p + 1 \in 1 .. Len(cd2) /\ cd2[p + 1] = cd[p + 1]
  BY <1>1 DEF Instr, Extends
<1>3. \A i \in 1 .. Len(cs) : i \in 1 .. Len(cs2) /\ cs2[i] = cs[i]
  BY <1>1 DEF Extends
<1> QED BY <1>2, <1>3 DEF Instr

LEMMA ReachesKept ==
  ASSUME NEW cd \in Seq(Nat), NEW cd2 \in Seq(Nat), Extends(cd2, cd),
         NEW cs \in Seq(Value), NEW cs2 \in Seq(Value), Extends(cs2, cs),
         NEW ns, NEW e, NEW n, NEW q, NEW t,
         Reaches(cd, cs, ns, e, n, q, t)
  PROVE  Reaches(cd2, cs2, ns, e, n, q, t)
<1>1. PICK at, stk : Trace(cd, cs, ns, e, n, at, stk) /\ at[n] = q /\ stk[n] = t
  BY DEF Reaches
<1>2. Trace(cd2, cs2, ns, e, n, at, stk)
  BY <1>1, InstrKept DEF Trace
<1> QED BY <1>1, <1>2 DEF Reaches

LEMMA ReachesNext ==
  ASSUME NEW cd, NEW cs, NEW ns, NEW e, NEW n \in Nat, NEW p, NEW s,
         Reaches(cd, cs, ns, e, n, p, s),
         NEW q \in Nat \ {0}, NEW t \in Seq(Value),
         Instr(cd, cs, ns, e, p, s, q, t)
  PROVE  Reaches(cd, cs, ns, e, n + 1, q, t)
<1>1. PICK at, stk : Trace(cd, cs, ns, e, n, at, stk) /\ at[n] = p /\ stk[n] = s
  BY DEF Reaches
<1> DEFINE at2  == [i \in 0 .. n + 1 |-> IF i = n + 1 THEN q ELSE at[i]]
           stk2 == [i \in 0 .. n + 1 |-> IF i = n + 1 THEN t ELSE stk[i]]
<1>2. /\ at \in [0 .. n -> Nat \ {0}] /\ stk \in [0 .. n -> Seq(Value)]
      /\ at[0] = 1 /\ stk[0] = <<Null>>
      /\ \A i \in 0 .. n - 1 :
           Instr(cd, cs, ns, e, at[i], stk[i], at[i + 1], stk[i + 1])
  BY <1>1 DEF Trace
<1>3. \A i \in 0 .. n : at2[i] = at[i] /\ stk2[i] = stk[i]
  OBVIOUS
<1>4. at2[n + 1] = q /\ stk2[n + 1] = t
  OBVIOUS
<1>5. at2 \in [0 .. n + 1 -> Nat \ {0}] /\ stk2 \in [0 .. n + 1 -> Seq(Value)]
  BY <1>2
<1> HIDE DEF at2, stk2
<1>6. ASSUME NEW i \in 0 .. (n + 1) - 1
      PROVE  Instr(cd, cs, ns, e, at2[i], stk2[i], at2[i + 1], stk2[i + 1])
  <2>1. CASE i = n
    BY <1>1, <1>3, <1>4, <2>1
  <2>2. CASE i # n
    <3>1. i \in 0 .. n - 1 /\ i \in 0 .. n /\ i + 1 \in 0 .. n
      BY <2>2
    <3> QED BY <1>2, <1>3, <3>1
  <2> QED BY <2>1, <2>2
<1>7. at2[0] = 1 /\ stk2[0] = <<Null>>
  BY <1>2, <1>3
<1>8. Trace(cd, cs, ns, e, n + 1, at2, stk2)
  BY <1>5, <1>6, <1>7 DEF Trace
<1> QED BY <1>4, <1>8 DEF Reaches

-----------------------------------------------------------------------------
\* What the tasks of the walk will compute: the stack, the number of
\* instructions and the number of constants, from task to task.

PState == [stk : Seq(Value), n : Nat, c : Nat]

Does(ns, e, task, a, b) ==
  /\ b.c <= Leaves(ns)[e]
  /\ \/ \E k \in DOMAIN ns :
          /\ task = Gen(k)
          /\ Plain(ns)[k]
          /\ b.stk = Append(a.stk, Eval(ns)[k])
          /\ b.n = a.n + Size(ns)[k]
          /\ b.c = a.c + Leaves(ns)[k]
          /\ MayTrap(ns)[k] => MayTrap(ns)[e]
     \/ \E op \in UnaryOps \cup BinaryOps :
          /\ task = Add(op)
          /\ Applies(ns, e, op, a.stk, b.stk)
          /\ b.n = a.n + 1
          /\ b.c = a.c

\* The first m tasks of w lead from a to the value of e.
Plan(ns, e, w, m, a) ==
  \E h \in [0 .. m -> PState] :
    /\ h[0] = a
    /\ h[m] = [stk |-> <<Null, Eval(ns)[e]>>, n |-> Size(ns)[e],
               c |-> Leaves(ns)[e]]
    /\ \A j \in 1 .. m : Does(ns, e, w[j], h[j - 1], h[j])

\* The n members of v after i are those of w after j.
Same(v, i, w, j, n) == \A x \in 1 .. n : v[i + x] = w[j + x]

LEMMA PlanFirst ==
  ASSUME NEW ns, NEW e, NEW w, NEW m \in Nat \ {0}, NEW a, Plan(ns, e, w, m, a),
         NEW v, Same(v, 0, w, 1, m - 1)
  PROVE  \E b \in PState : Does(ns, e, w[1], a, b) /\ Plan(ns, e, v, m - 1, b)
<1>1. PICK h \in [0 .. m -> PState] :
        /\ h[0] = a
        /\ h[m] = [stk |-> <<Null, Eval(ns)[e]>>, n |-> Size(ns)[e],
                   c |-> Leaves(ns)[e]]
        /\ \A j \in 1 .. m : Does(ns, e, w[j], h[j - 1], h[j])
  BY DEF Plan
<1> DEFINE g == [j \in 0 .. m - 1 |-> h[j + 1]]
<1>2. g \in [0 .. m - 1 -> PState] /\ g[0] = h[1] /\ g[m - 1] = h[m]
  OBVIOUS
<1>3. ASSUME NEW j \in 1 .. m - 1
      PROVE  Does(ns, e, v[j], g[j - 1], g[j])
  <2>1. j + 1 \in 1 .. m /\ (j + 1) - 1 = j /\ g[j - 1] = h[j] /\ g[j] = h[j + 1]
    OBVIOUS
  <2>2. v[j] = w[j + 1]
    BY DEF Same
  <2> QED BY <1>1, <2>1, <2>2
<1> HIDE DEF g
<1>4. Plan(ns, e, v, m - 1, h[1])
  BY <1>1, <1>2, <1>3 DEF Plan
<1>5. Does(ns, e, w[1], a, h[1]) /\ h[1] \in PState
  <2>1. 1 \in 1 .. m /\ 1 \in 0 .. m /\ 1 - 1 = 0
    OBVIOUS
  <2> QED BY <1>1, <2>1
<1> QED BY <1>4, <1>5

LEMMA PlanMore ==
  ASSUME NEW ns, NEW e, NEW w, NEW m \in Nat, NEW b, Plan(ns, e, w, m, b),
         NEW v, Same(v, 1, w, 0, m),
         NEW a \in PState, Does(ns, e, v[1], a, b)
  PROVE  Plan(ns, e, v, m + 1, a)
<1>1. PICK h \in [0 .. m -> PState] :
        /\ h[0] = b
        /\ h[m] = [stk |-> <<Null, Eval(ns)[e]>>, n |-> Size(ns)[e],
                   c |-> Leaves(ns)[e]]
        /\ \A j \in 1 .. m : Does(ns, e, w[j], h[j - 1], h[j])
  BY DEF Plan
<1> DEFINE g == [j \in 0 .. m + 1 |-> IF j = 0 THEN a ELSE h[j - 1]]
<1>2. g \in [0 .. m + 1 -> PState] /\ g[0] = a /\ g[m + 1] = h[m]
  OBVIOUS
<1>3. ASSUME NEW j \in 1 .. m + 1
      PROVE  Does(ns, e, v[j], g[j - 1], g[j])
  <2>1. CASE j = 1
    <3>1. g[j - 1] = a /\ g[j] = h[0]
      BY <2>1
    <3> QED BY <1>1, <2>1, <3>1
  <2>2. CASE j # 1
    <3>1. j - 1 \in 1 .. m /\ g[j - 1] = h[(j - 1) - 1] /\ g[j] = h[j - 1]
          /\ 1 + (j - 1) = j /\ 0 + (j - 1) = j - 1
      BY <2>2
    <3>2. v[j] = w[j - 1]
      BY <3>1 DEF Same
    <3> QED BY <1>1, <3>1, <3>2
  <2> QED BY <2>1, <2>2
<1> HIDE DEF g
<1> QED BY <1>1, <1>2, <1>3 DEF Plan


LEMMA DoesGen ==
  ASSUME NEW ns, NEW e, NEW k, NEW a, NEW b, Does(ns, e, Gen(k), a, b)
  PROVE  /\ k \in DOMAIN ns /\ Plain(ns)[k]
         /\ b.stk = Append(a.stk, Eval(ns)[k])
         /\ b.n = a.n + Size(ns)[k] /\ b.c = a.c + Leaves(ns)[k]
         /\ b.c <= Leaves(ns)[e]
         /\ MayTrap(ns)[k] => MayTrap(ns)[e]
BY DEF Does, Gen, Add, Task

LEMMA DoesAdd ==
  ASSUME NEW ns, NEW e, NEW op, NEW a, NEW b, Does(ns, e, Add(op), a, b)
  PROVE  /\ op \in UnaryOps \cup BinaryOps
         /\ Applies(ns, e, op, a.stk, b.stk)
         /\ b.n = a.n + 1 /\ b.c = a.c /\ b.c <= Leaves(ns)[e]
BY DEF Does, Gen, Add, Task

\* Instead of an operator node, its operands and its opcode.
LEMMA PlanUnary ==
  ASSUME NEW ns, Heap(ns), NEW e \in DOMAIN ns, NEW w, NEW m \in Nat \ {0},
         NEW a \in PState, Plan(ns, e, w, m, a),
         NEW k, w[1] = Gen(k), ns[k].kind = "UnaryOp",
         NEW v, v[1] = Gen(ns[k].kids[1]),
         v[2] = Add(token_to_unaryop[ns[k].type]),
         Same(v, 2, w, 1, m - 1)
  PROVE  ns[k].type \in DOMAIN token_to_unaryop /\ Plan(ns, e, v, m + 1, a)
<1> DEFINE l  == ns[k].kids[1]
           u1 == [j \in 1 .. m - 1 |-> w[j + 1]]
           u2 == [j \in 1 .. m |-> v[j + 1]]
           am == [stk |-> Append(a.stk, Eval(ns)[l]),
                  n |-> a.n + Size(ns)[l], c |-> a.c + Leaves(ns)[l]]
<1>1. PICK b \in PState : Does(ns, e, Gen(k), a, b) /\ Plan(ns, e, u1, m - 1, b)
  <2>1. Same(u1, 0, w, 1, m - 1)
    BY DEF Same
  <2> HIDE DEF u1
  <2> QED BY <2>1, PlanFirst
<1>2. /\ k \in DOMAIN ns /\ Plain(ns)[k]
      /\ b.stk = Append(a.stk, Eval(ns)[k])
      /\ b.n = a.n + Size(ns)[k] /\ b.c = a.c + Leaves(ns)[k]
      /\ b.c <= Leaves(ns)[e] /\ (MayTrap(ns)[k] => MayTrap(ns)[e])
  BY <1>1, DoesGen
<1>3. /\ l \in DOMAIN ns /\ Plain(ns)[l]
      /\ ns[k].type \in DOMAIN token_to_unaryop
      /\ token_to_unaryop[ns[k].type] \in UnaryOps
      /\ Eval(ns)[k] = UnaryVal(token_to_unaryop[ns[k].type], Eval(ns)[l])
      /\ Size(ns)[k] = 1 + Size(ns)[l] /\ Leaves(ns)[k] = Leaves(ns)[l]
      /\ MayTrap(ns)[l] => MayTrap(ns)[k]
  BY <1>2, PlainUnary
<1>4. /\ Eval(ns)[l] \in Value /\ Size(ns)[l] \in Nat \ {0}
      /\ Leaves(ns)[l] \in Nat \ {0}
  BY <1>3, EvalDef, SizeDef, LeavesDef
<1>5. a.stk \in Seq(Value) /\ a.n \in Nat /\ a.c \in Nat
  BY DEF PState
<1>6. am \in PState
  <2>1. Append(a.stk, Eval(ns)[l]) \in Seq(Value)
    BY <1>4, <1>5, AppendProperties
  <2>2. a.n + Size(ns)[l] \in Nat /\ a.c + Leaves(ns)[l] \in Nat
    BY <1>4, <1>5
  <2> QED BY <2>1, <2>2 DEF PState
<1>7. /\ am.stk = Append(a.stk, Eval(ns)[l]) /\ am.n = a.n + Size(ns)[l]
      /\ am.c = a.c + Leaves(ns)[l]
  OBVIOUS
<1> HIDE DEF l, am
<1>8. Does(ns, e, Gen(l), a, am)
  BY <1>2, <1>3, <1>7 DEF Does
<1>9. Does(ns, e, Add(token_to_unaryop[ns[k].type]), am, b)
  <2>1. Applies(ns, e, token_to_unaryop[ns[k].type], am.stk, b.stk)
    BY <1>2, <1>3, <1>4, <1>5, <1>7 DEF Applies
  <2>2. b.n = am.n + 1 /\ b.c = am.c
    BY <1>2, <1>3, <1>4, <1>5, <1>7
  <2> QED BY <1>2, <1>3, <2>1, <2>2 DEF Does
<1>10. Plan(ns, e, u2, m, am)
  <2>1. Same(u2, 1, u1, 0, m - 1)
    <3> SUFFICES ASSUME NEW j \in 1 .. m - 1
                 PROVE  u2[1 + j] = u1[0 + j]
      BY DEF Same
    <3>1. u2[1 + j] = v[2 + j] /\ u1[0 + j] = w[1 + j]
      OBVIOUS
    <3> QED BY <3>1 DEF Same
  <2>2. u2[1] = Add(token_to_unaryop[ns[k].type])
    <3>1. 1 \in 1 .. m
      OBVIOUS
    <3> QED BY <3>1
  <2>3. m - 1 \in Nat /\ (m - 1) + 1 = m
    OBVIOUS
  <2> HIDE DEF u1, u2
  <2>4. Plan(ns, e, u2, (m - 1) + 1, am)
    BY <1>1, <1>6, <1>9, <2>1, <2>2, <2>3, PlanMore
  <2> QED BY <2>3, <2>4
<1>11. Same(v, 1, u2, 0, m)
  BY DEF Same
<1>12. v[1] = Gen(l)
  BY DEF l
<1> HIDE DEF u1, u2
<1>13. Plan(ns, e, v, m + 1, a)
  BY <1>8, <1>10, <1>11, <1>12, PlanMore
<1> QED BY <1>3, <1>13

LEMMA PlanBinary ==
  ASSUME NEW ns, Heap(ns), NEW e \in DOMAIN ns, NEW w, NEW m \in Nat \ {0},
         NEW a \in PState, Plan(ns, e, w, m, a),
         NEW k, w[1] = Gen(k), ns[k].kind = "BinaryOp",
         NEW v, v[1] = Gen(ns[k].kids[1]), v[2] = Gen(ns[k].kids[2]),
         v[3] = Add(token_to_binop[ns[k].type]),
         Same(v, 3, w, 1, m - 1)
  PROVE  ns[k].type \in DOMAIN token_to_binop /\ Plan(ns, e, v, m + 2, a)
<1> DEFINE l  == ns[k].kids[1]
           r  == ns[k].kids[2]
           op == token_to_binop[ns[k].type]
           u1 == [j \in 1 .. m - 1 |-> w[j + 1]]
           u2 == [j \in 1 .. m |-> v[j + 2]]
           u3 == [j \in 1 .. m + 1 |-> v[j + 1]]
           am == [stk |-> Append(a.stk, Eval(ns)[l]),
                  n |-> a.n + Size(ns)[l], c |-> a.c + Leaves(ns)[l]]
           bm == [stk |-> Append(am.stk, Eval(ns)[r]),
                  n |-> am.n + Size(ns)[r], c |-> am.c + Leaves(ns)[r]]
<1>1. PICK b \in PState : Does(ns, e, Gen(k), a, b) /\ Plan(ns, e, u1, m - 1, b)
  <2>1. Same(u1, 0, w, 1, m - 1)
    BY DEF Same
  <2> HIDE DEF u1
  <2> QED BY <2>1, PlanFirst
<1>2. /\ k \in DOMAIN ns /\ Plain(ns)[k]
      /\ b.stk = Append(a.stk, Eval(ns)[k])
      /\ b.n = a.n + Size(ns)[k] /\ b.c = a.c + Leaves(ns)[k]
      /\ b.c <= Leaves(ns)[e] /\ (MayTrap(ns)[k] => MayTrap(ns)[e])
  BY <1>1, DoesGen
<1>3. /\ l \in DOMAIN ns /\ Plain(ns)[l] /\ r \in DOMAIN ns /\ Plain(ns)[r]
      /\ ns[k].type \in DOMAIN token_to_binop /\ op \in BinaryOps
      /\ Eval(ns)[k] = BinaryVal(op, Eval(ns)[l], Eval(ns)[r])
      /\ Size(ns)[k] = 1 + Size(ns)[l] + Size(ns)[r]
      /\ Leaves(ns)[k] = Leaves(ns)[l] + Leaves(ns)[r]
      /\ MayTrap(ns)[l] => MayTrap(ns)[k]
      /\ MayTrap(ns)[r] => MayTrap(ns)[k]
      /\ IntDivByZero(op, Eval(ns)[l], Eval(ns)[r]) => MayTrap(ns)[k]
  BY <1>2, PlainBinary
<1>4. /\ Eval(ns)[l] \in Value /\ Size(ns)[l] \in Nat \ {0}
      /\ Leaves(ns)[l] \in Nat \ {0}
      /\ Eval(ns)[r] \in Value /\ Size(ns)[r] \in Nat \ {0}
      /\ Leaves(ns)[r] \in Nat \ {0} /\ Leaves(ns)[e] \in Nat \ {0}
  BY <1>3, EvalDef, SizeDef, LeavesDef
<1>5. a.stk \in Seq(Value) /\ a.n \in Nat /\ a.c \in Nat
  BY DEF PState
<1>6. am \in PState
  <2>1. Append(a.stk, Eval(ns)[l]) \in Seq(Value)
    BY <1>4, <1>5, AppendProperties
  <2>2. a.n + Size(ns)[l] \in Nat /\ a.c + Leaves(ns)[l] \in Nat
    <3> HIDE DEF l
    <3> QED BY <1>4, <1>5
  <2> QED BY <2>1, <2>2 DEF PState
<1>7. /\ am.stk = Append(a.stk, Eval(ns)[l]) /\ am.n = a.n + Size(ns)[l]
      /\ am.c = a.c + Leaves(ns)[l]
  OBVIOUS
<1> HIDE DEF am
<1>8. am.stk \in Seq(Value) /\ am.n \in Nat /\ am.c \in Nat
  BY <1>6 DEF PState
<1>9. bm \in PState
  <2>1. Append(am.stk, Eval(ns)[r]) \in Seq(Value)
    BY <1>4, <1>8, AppendProperties
  <2>2. am.n + Size(ns)[r] \in Nat /\ am.c + Leaves(ns)[r] \in Nat
    <3>1. /\ am.n \in Nat /\ am.c \in Nat
          /\ Size(ns)[r] \in Nat /\ Leaves(ns)[r] \in Nat
      BY <1>4, <1>8
    <3> HIDE DEF r
    <3> QED BY <3>1
  <2> QED BY <2>1, <2>2 DEF PState
<1>10. /\ bm.stk = Append(am.stk, Eval(ns)[r]) /\ bm.n = am.n + Size(ns)[r]
       /\ bm.c = am.c + Leaves(ns)[r]
  OBVIOUS
<1> HIDE DEF l, r, op, bm
<1>11. am.c <= Leaves(ns)[e] /\ bm.c <= Leaves(ns)[e]
  <2>1. /\ a.c \in Nat /\ Leaves(ns)[l] \in Nat /\ Leaves(ns)[r] \in Nat
        /\ Leaves(ns)[e] \in Nat
    BY <1>4, <1>5
  <2>2. a.c + (Leaves(ns)[l] + Leaves(ns)[r]) <= Leaves(ns)[e]
    BY <1>2, <1>3
  <2>3. bm.c = (a.c + Leaves(ns)[l]) + Leaves(ns)[r]
    BY <1>7, <1>10
  <2> QED BY <1>7, <2>1, <2>2, <2>3
<1>12. Does(ns, e, Gen(l), a, am)
  BY <1>2, <1>3, <1>7, <1>11 DEF Does
<1>13. Does(ns, e, Gen(r), am, bm)
  BY <1>2, <1>3, <1>10, <1>11 DEF Does
<1>14. Does(ns, e, Add(op), bm, b)
  <2>1. bm.stk = Append(Append(a.stk, Eval(ns)[l]), Eval(ns)[r])
    BY <1>7, <1>10
  <2>2. Applies(ns, e, op, bm.stk, b.stk)
    BY <1>2, <1>3, <1>4, <1>5, <2>1 DEF Applies
  <2>3. b.n = bm.n + 1
    <3>1. bm.n = (a.n + Size(ns)[l]) + Size(ns)[r]
      BY <1>7, <1>10
    <3>2. b.n = a.n + (1 + Size(ns)[l] + Size(ns)[r])
      BY <1>2, <1>3
    <3>3. \A x, y, z \in Nat : x + (1 + y + z) = ((x + y) + z) + 1
      OBVIOUS
    <3>4. a.n \in Nat /\ Size(ns)[l] \in Nat /\ Size(ns)[r] \in Nat
      BY <1>4, <1>5
    <3> QED BY <3>1, <3>2, <3>3, <3>4
  <2>4. b.c = bm.c
    <3>1. bm.c = (a.c + Leaves(ns)[l]) + Leaves(ns)[r]
      BY <1>7, <1>10
    <3>2. b.c = a.c + (Leaves(ns)[l] + Leaves(ns)[r])
      BY <1>2, <1>3
    <3> QED BY <1>4, <1>5, <3>1, <3>2
  <2> QED BY <1>2, <1>3, <2>2, <2>3, <2>4 DEF Does
<1>15. Plan(ns, e, u2, m, bm)
  <2>1. Same(u2, 1, u1, 0, m - 1)
    <3> SUFFICES ASSUME NEW j \in 1 .. m - 1
                 PROVE  u2[1 + j] = u1[0 + j]
      BY DEF Same
    <3>1. u2[1 + j] = v[3 + j] /\ u1[0 + j] = w[1 + j]
      OBVIOUS
    <3> QED BY <3>1 DEF Same
  <2>2. u2[1] = Add(op)
    <3>1. 1 \in 1 .. m
      OBVIOUS
    <3> QED BY <3>1 DEF op
  <2>3. m - 1 \in Nat /\ (m - 1) + 1 = m
    OBVIOUS
  <2> HIDE DEF u1, u2
  <2>4. Plan(ns, e, u2, (m - 1) + 1, bm)
    BY <1>1, <1>9, <1>14, <2>1, <2>2, <2>3, PlanMore
  <2> QED BY <2>3, <2>4
<1>16. Plan(ns, e, u3, m + 1, am)
  <2>1. Same(u3, 1, u2, 0, m)
    BY DEF Same
  <2>2. u3[1] = Gen(r)
    <3>1. 1 \in 1 .. m + 1
      OBVIOUS
    <3> QED BY <3>1 DEF r
  <2> HIDE DEF u2, u3
  <2> QED BY <1>6, <1>13, <1>15, <2>1, <2>2, PlanMore
<1>17. Same(v, 1, u3, 0, m + 1)
  BY DEF Same
<1>18. v[1] = Gen(l)
  BY DEF l
<1> HIDE DEF u1, u2, u3
<1>19. Plan(ns, e, v, (m + 1) + 1, a)
  BY <1>12, <1>16, <1>17, <1>18, PlanMore
<1>20. (m + 1) + 1 = m + 2
  OBVIOUS
<1> QED BY <1>3, <1>19, <1>20

-----------------------------------------------------------------------------
\* What the walk emits continues the trace.

LEMMA ReachesConst ==
  ASSUME NEW cd \in Seq(Nat), NEW cs \in Seq(Value), NEW val \in Value,
         NEW ns, NEW e, NEW n \in Nat, NEW s \in Seq(Value),
         Reaches(cd, cs, ns, e, n, Len(cd) + 1, s)
  PROVE  Reaches(cd \o <<OP_CONST, Len(cs)>>, Append(cs, val), ns, e, n + 1,
                 Len(cd \o <<OP_CONST, Len(cs)>>) + 1, Append(s, val))
<1> DEFINE w   == <<OP_CONST, Len(cs)>>
           cd2 == cd \o w
           cs2 == Append(cs, val)
<1>1. w \in Seq(Nat) /\ Len(w) = 2 /\ w[1] = OP_CONST /\ w[2] = Len(cs)
      /\ Len(cs) \in Nat /\ Len(cd) \in Nat
  BY LenProperties DEF OP_CONST
<1>2. cs2 \in Seq(Value) /\ Len(cs2) = Len(cs) + 1
      /\ (\A i \in 1 .. Len(cs) : cs2[i] = cs[i]) /\ cs2[Len(cs) + 1] = val
  BY AppendProperties
<1> HIDE DEF w, cs2
<1>3. cd2 \in Seq(Nat) /\ Len(cd2) = Len(cd) + 2
      /\ (\A p \in 1 .. Len(cd) : cd2[p] = cd[p])
      /\ cd2[Len(cd) + 1] = OP_CONST /\ cd2[Len(cd) + 2] = Len(cs)
  <2>1. cd2 \in Seq(Nat) /\ Len(cd2) = Len(cd) + Len(w)
        /\ (\A p \in 1 .. Len(cd) : cd2[p] = cd[p])
        /\ \A p \in 1 .. Len(w) : cd2[Len(cd) + p] = w[p]
    BY <1>1, CodeAppend
  <2> QED BY <1>1, <2>1
<1> HIDE DEF cd2
<1>4. Extends(cd2, cd) /\ Extends(cs2, cs)
  BY <1>1, <1>2, <1>3 DEF Extends
<1>5. Reaches(cd2, cs2, ns, e, n, Len(cd) + 1, s)
  BY <1>2, <1>3, <1>4, ReachesKept
<1>6. Instr(cd2, cs2, ns, e, Len(cd) + 1, s, Len(cd) + 3, Append(s, val))
  <2>1. Len(cd) + 1 \in 1 .. Len(cd2) /\ (Len(cd) + 1) + 1 \in 1 .. Len(cd2)
        /\ (Len(cd) + 1) + 1 = Len(cd) + 2 /\ (Len(cd) + 1) + 2 = Len(cd) + 3
        /\ Len(cs) + 1 \in 1 .. Len(cs2)
    BY <1>1, <1>2, <1>3
  <2> QED BY <1>2, <1>3, <2>1 DEF Instr
<1>7. Append(s, val) \in Seq(Value) /\ Len(cd) + 3 \in Nat \ {0}
  BY <1>1, AppendProperties
<1>8. Reaches(cd2, cs2, ns, e, n + 1, Len(cd) + 3, Append(s, val))
  BY <1>5, <1>6, <1>7, ReachesNext
<1>9. Len(cd2) + 1 = Len(cd) + 3
  BY <1>1, <1>3
<1> QED BY <1>8, <1>9 DEF cd2, cs2, w

LEMMA ReachesOp ==
  ASSUME NEW cd \in Seq(Nat), NEW cs \in Seq(Value), NEW op \in Nat,
         NEW ns, NEW e, NEW n \in Nat, NEW s, NEW t \in Seq(Value),
         Reaches(cd, cs, ns, e, n, Len(cd) + 1, s), Applies(ns, e, op, s, t)
  PROVE  Reaches(Append(cd, op), cs, ns, e, n + 1, Len(Append(cd, op)) + 1, t)
<1> DEFINE cd2 == Append(cd, op)
<1>1. cd2 \in Seq(Nat) /\ Len(cd2) = Len(cd) + 1 /\ Len(cd) \in Nat
      /\ (\A i \in 1 .. Len(cd) : cd2[i] = cd[i]) /\ cd2[Len(cd) + 1] = op
  BY AppendProperties, LenProperties
<1> HIDE DEF cd2
<1>2. Extends(cd2, cd) /\ Extends(cs, cs)
  BY <1>1, LenProperties DEF Extends
<1>3. Reaches(cd2, cs, ns, e, n, Len(cd) + 1, s)
  BY <1>1, <1>2, ReachesKept
<1>4. Instr(cd2, cs, ns, e, Len(cd) + 1, s, Len(cd2) + 1, t)
  BY <1>1 DEF Instr
<1>5. Len(cd2) + 1 \in Nat \ {0}
  BY <1>1
<1>6. Reaches(cd2, cs, ns, e, n + 1, Len(cd2) + 1, t)
  BY <1>3, <1>4, <1>5, ReachesNext
<1> QED BY <1>6 DEF cd2

\* Words that follow leave a trace as it is.
LEMMA ReachesMore ==
  ASSUME NEW cd \in Seq(Nat), NEW w \in Seq(Nat), NEW cs \in Seq(Value),
         NEW ns, NEW e, NEW n, NEW q, NEW t, Reaches(cd, cs, ns, e, n, q, t)
  PROVE  Reaches(cd \o w, cs, ns, e, n, q, t)
<1> DEFINE cd2 == cd \o w
<1>1. cd2 \in Seq(Nat) /\ Len(cd2) = Len(cd) + Len(w) /\ Len(cd) \in Nat
      /\ Len(w) \in Nat /\ \A i \in 1 .. Len(cd) : cd2[i] = cd[i]
  BY CodeAppend
<1> HIDE DEF cd2
<1>2. Extends(cd2, cd) /\ Extends(cs, cs)
  BY <1>1, LenProperties DEF Extends
<1>3. Reaches(cd2, cs, ns, e, n, q, t)
  BY <1>1, <1>2, ReachesKept
<1> QED BY <1>3 DEF cd2

-----------------------------------------------------------------------------
\* The walk over a tree e whose value the tasks in after will use.

WalkAt(e, after, m, n, s) ==
  /\ m \in Nat /\ n \in Nat /\ s \in Seq(Value)
  /\ Len(work) = m + Len(after)
  /\ Same(work, m, after, 0, Len(after))
  /\ Plan(nodes, e, work, m, [stk |-> s, n |-> n, c |-> Len(constants)])
  /\ Reaches(code, constants, nodes, e, n, Len(code) + 1, s)

Walking(e, after) == \E m, n, s : WalkAt(e, after, m, n, s)

\* The trees a plain task visits.
LEMMA PlainVisit ==
  ASSUME GenInv, Codegen, NEW k, work # << >>, work[1] = Gen(k),
         k \in DOMAIN nodes, Plain(nodes)[k]
  PROVE  GenLeaf \/ GenUnary \/ GenBinary
<1>1. Head(work) = work[1] /\ work[1].do = "gen" /\ This = nodes[k]
  BY HeadTask, HeadTailProperties DEF Gen, Task, This, GenInv, TypeOK
<1>2. nodes[k].kind \in LeafKinds \cup {"UnaryOp", "BinaryOp"}
  BY PlainKinds DEF GenInv, TypeOK
<1> QED BY <1>1, <1>2 DEF Codegen, GenReturn, GenPrint, GenVarInit,
           GenVarNull, GenVarBad, GenUnimplemented, EmitOp, EmitBind, EmitBad,
           Visiting, Doing, This, LeafKinds

LEMMA AddVisit ==
  ASSUME GenInv, Codegen, NEW op, work # << >>, work[1] = Add(op)
  PROVE  EmitOp
<1>1. Head(work) = work[1] /\ work[1].do = "add"
  BY HeadTailProperties DEF Add, Task, GenInv, TypeOK
<1> QED BY <1>1 DEF Codegen, GenLeaf, GenUnary, GenBinary, GenReturn, GenPrint,
           GenVarInit, GenVarNull, GenVarBad, GenUnimplemented, EmitOp,
           EmitBind, EmitBad, Visiting, Doing

LEMMA BuildTypes ==
  ASSUME GenInv
  PROVE  /\ code \in Seq(Nat) /\ constants \in Seq(Value) /\ Heap(nodes)
         /\ Len(code) \in Nat /\ Len(constants) \in Nat
         /\ Len(constants) <= MaxConst /\ MaxConst \in Nat
         /\ work \in Seq(Tasks) /\ Len(work) \in Nat
         /\ stmts \in Seq(DOMAIN nodes) /\ Len(stmts) \in Nat
         /\ \A i \in 1 .. Len(stmts) : stmts[i] \in DOMAIN nodes
         /\ cur \in 0 .. Len(stmts)
<1>1. code \in Seq(Nat) /\ constants \in Seq(Value) /\ Len(constants) <= MaxConst
  BY DEF GenInv, VMInv, VMTypeOK, ChunkTypeOK
<1>2. Heap(nodes) /\ work \in Seq(Tasks) /\ stmts \in Seq(DOMAIN nodes)
      /\ cur \in 0 .. Len(stmts)
  BY DEF GenInv, TypeOK, Tasks
<1> QED BY <1>1, <1>2, LenProperties, ElementOfSeq, MaxConstAssumption

\* Replacing the head of the list keeps what follows it.
LEMMA WorkAfter ==
  ASSUME NEW w \in Seq(Tasks), NEW a \in Seq(Tasks), NEW after \in Seq(Tasks),
         NEW m \in Nat \ {0}, Len(w) = m + Len(after),
         Same(w, m, after, 0, Len(after))
  PROVE  LET v  == a \o Tail(w)
             m2 == m + Len(a) - 1 IN
         /\ w # << >> /\ Len(a) \in Nat /\ m2 \in Nat
         /\ Len(v) = m2 + Len(after)
         /\ Same(v, m2, after, 0, Len(after))
         /\ \A j \in 1 .. Len(a) : v[j] = a[j]
         /\ Same(v, Len(a), w, 1, m - 1)
<1>0. PICK v : v = a \o Tail(w)
  OBVIOUS
<1>1. Len(after) \in Nat /\ Len(a) \in Nat /\ Len(w) \in Nat
  BY LenProperties
<1>2. w # << >>
  BY <1>1, EmptySeq
<1>3. /\ Len(v) = Len(a) + Len(w) - 1
      /\ \A i \in 1 .. Len(a) : v[i] = a[i]
      /\ \A i \in Len(a) + 1 .. Len(a) + Len(w) - 1 : v[i] = w[i - Len(a) + 1]
  <2>1. Len(a \o Tail(w)) = Len(a) + Len(w) - 1
    BY <1>2, ReplaceHead
  <2>2. \A i \in 1 .. Len(a) : (a \o Tail(w))[i] = a[i]
    BY <1>2, ReplaceHead
  <2>3. \A i \in Len(a) + 1 .. Len(a) + Len(w) - 1 :
          (a \o Tail(w))[i] = w[i - Len(a) + 1]
    BY <1>2, ReplaceHead
  <2> QED BY <1>0, <2>1, <2>2, <2>3
<1>4. ASSUME NEW j \in 1 .. Len(w) - 1
      PROVE  v[Len(a) + j] = w[1 + j]
  <2>1. Len(a) + j \in Len(a) + 1 .. Len(a) + Len(w) - 1
        /\ (Len(a) + j) - Len(a) + 1 = 1 + j
    BY <1>1
  <2> QED BY <1>3, <2>1
<1>5. ASSUME NEW i \in 1 .. Len(after)
      PROVE  v[(m + Len(a) - 1) + i] = after[0 + i]
  <2>1. /\ m - 1 + i \in 1 .. Len(w) - 1
        /\ Len(a) + (m - 1 + i) = (m + Len(a) - 1) + i
        /\ 1 + (m - 1 + i) = m + i
    BY <1>1
  <2>2. v[(m + Len(a) - 1) + i] = w[m + i]
    BY <1>4, <2>1
  <2> QED BY <2>2 DEF Same
<1>6. Same(v, m + Len(a) - 1, after, 0, Len(after))
  BY <1>5 DEF Same
<1>7. Same(v, Len(a), w, 1, m - 1)
  <2>1. \A j \in 1 .. m - 1 : j \in 1 .. Len(w) - 1
    BY <1>1
  <2> QED BY <1>4, <2>1 DEF Same
<1>8. Len(v) = (m + Len(a) - 1) + Len(after) /\ m + Len(a) - 1 \in Nat
  BY <1>1, <1>3
<1> QED BY <1>0, <1>1, <1>2, <1>3, <1>6, <1>7, <1>8

LEMMA WalkUnary ==
  ASSUME GenInv, GenUnary, NEW e \in DOMAIN nodes, NEW after \in Seq(Tasks),
         NEW m \in Nat \ {0}, NEW n, NEW s, WalkAt(e, after, m, n, s)
  PROVE  Walking(e, after)'
<1> DEFINE k    == Head(work).arg
           last == IF nodes[k].type \in DOMAIN token_to_unaryop
                   THEN Add(token_to_unaryop[nodes[k].type]) ELSE Bad
           a    == <<Gen(nodes[k].kids[1]), last>>
           st   == [stk |-> s, n |-> n, c |-> Len(constants)]
<1>1. /\ m \in Nat /\ n \in Nat /\ s \in Seq(Value)
      /\ Len(work) = m + Len(after)
      /\ Same(work, m, after, 0, Len(after))
      /\ Plan(nodes, e, work, m, st)
      /\ Reaches(code, constants, nodes, e, n, Len(code) + 1, s)
  BY DEF WalkAt
<1>2. code \in Seq(Nat) /\ constants \in Seq(Value) /\ Heap(nodes)
      /\ work \in Seq(Tasks) /\ Len(constants) \in Nat
  BY BuildTypes
<1>3. /\ Doing("gen") /\ nodes[k].kind = "UnaryOp" /\ work # << >>
      /\ work' = a \o Tail(work)
      /\ UNCHANGED <<code, constants, nodes>>
  BY DEF GenUnary, Visiting, Doing, Descend, Replace, This, chunkVars
<1>4. work[1] = Gen(k) /\ k \in DOMAIN nodes
  <2>1. Head(work) = work[1] /\ work[1].arg \in DOMAIN nodes
    BY <1>3, HeadTask
  <2>2. work[1] \in Tasks /\ work[1].do = "gen"
    BY <1>2, <1>3, <2>1, ElementOfSeq, EmptySeq DEF Doing
  <2> QED BY <2>1, <2>2 DEF Tasks, Gen, Task
<1>5. a \in Seq(Tasks) /\ Len(a) = 2 /\ a[1] = Gen(nodes[k].kids[1]) /\ a[2] = last
  <2>1. nodes[k].kids[1] \in DOMAIN nodes
    BY <1>2, <1>3, <1>4, KidsBelow
  <2>2. Gen(nodes[k].kids[1]) \in Tasks /\ last \in Tasks
    BY <1>2, <2>1, NewTasks, OperatorOps
  <2> HIDE DEF last
  <2> QED BY <2>2
<1> HIDE DEF a
<1>6. /\ Len(work') = (m + 1) + Len(after)
      /\ Same(work', m + 1, after, 0, Len(after))
      /\ work'[1] = Gen(nodes[k].kids[1]) /\ work'[2] = last
      /\ Same(work', 2, work, 1, m - 1)
  <2>1. m + Len(a) - 1 = m + 1
    BY <1>5
  <2>2. /\ work \in Seq(Tasks) /\ a \in Seq(Tasks)
        /\ Len(work) = m + Len(after) /\ Same(work, m, after, 0, Len(after))
    BY <1>1, <1>2, <1>5
  <2>3. Len(a \o Tail(work)) = (m + Len(a) - 1) + Len(after)
    <3>1. Len(a \o Tail(work)) = Len(a) + Len(work) - 1
      BY <1>3, <2>2, ReplaceHead
    <3> QED BY <1>5, <2>2, <3>1, LenProperties
  <2>4. Same(a \o Tail(work), m + Len(a) - 1, after, 0, Len(after))
    BY <2>2, WorkAfter
  <2>5. \A j \in 1 .. Len(a) : (a \o Tail(work))[j] = a[j]
    BY <2>2, WorkAfter
  <2>6. Same(a \o Tail(work), Len(a), work, 1, m - 1)
    BY <2>2, WorkAfter
  <2> QED BY <1>3, <1>5, <2>1, <2>3, <2>4, <2>5, <2>6
<1>7. st \in PState
  BY <1>1, <1>2 DEF PState
<1> HIDE DEF st, k
<1>8. nodes[k].type \in DOMAIN token_to_unaryop
  <2>1. PICK b \in PState : Does(nodes, e, work[1], st, b)
    <3> DEFINE u == [i \in 1 .. m - 1 |-> work[i + 1]]
    <3>1. Same(u, 0, work, 1, m - 1)
      BY DEF Same
    <3> HIDE DEF u
    <3> QED BY <1>1, <3>1, PlanFirst
  <2> QED BY <1>2, <1>3, <1>4, <2>1, DoesGen, PlainUnary
<1>9. work'[2] = Add(token_to_unaryop[nodes[k].type])
  BY <1>6, <1>8
<1>10. Plan(nodes, e, work', m + 1, st)
  BY <1>1, <1>2, <1>3, <1>4, <1>6, <1>7, <1>9, PlanUnary
<1>11. m + 1 \in Nat
  OBVIOUS
<1>12. WalkAt(e, after, m + 1, n, s)'
  BY <1>1, <1>3, <1>6, <1>10, <1>11 DEF WalkAt, st
<1> QED BY <1>12 DEF Walking

LEMMA WalkBinary ==
  ASSUME GenInv, GenBinary, NEW e \in DOMAIN nodes, NEW after \in Seq(Tasks),
         NEW m \in Nat \ {0}, NEW n, NEW s, WalkAt(e, after, m, n, s)
  PROVE  Walking(e, after)'
<1> DEFINE k    == Head(work).arg
           last == IF nodes[k].type \in DOMAIN token_to_binop
                   THEN Add(token_to_binop[nodes[k].type]) ELSE Bad
           a    == <<Gen(nodes[k].kids[1]), Gen(nodes[k].kids[2]), last>>
           st   == [stk |-> s, n |-> n, c |-> Len(constants)]
<1>1. /\ m \in Nat /\ n \in Nat /\ s \in Seq(Value)
      /\ Len(work) = m + Len(after)
      /\ Same(work, m, after, 0, Len(after))
      /\ Plan(nodes, e, work, m, st)
      /\ Reaches(code, constants, nodes, e, n, Len(code) + 1, s)
  BY DEF WalkAt
<1>2. code \in Seq(Nat) /\ constants \in Seq(Value) /\ Heap(nodes)
      /\ work \in Seq(Tasks) /\ Len(constants) \in Nat
  BY BuildTypes
<1>3. /\ Doing("gen") /\ nodes[k].kind = "BinaryOp" /\ work # << >>
      /\ work' = a \o Tail(work)
      /\ UNCHANGED <<code, constants, nodes>>
  BY DEF GenBinary, Visiting, Doing, Descend, Replace, This, chunkVars
<1>4. work[1] = Gen(k) /\ k \in DOMAIN nodes
  <2>1. Head(work) = work[1] /\ work[1].arg \in DOMAIN nodes
    BY <1>3, HeadTask
  <2>2. work[1] \in Tasks /\ work[1].do = "gen"
    BY <1>2, <1>3, <2>1, ElementOfSeq, EmptySeq DEF Doing
  <2> QED BY <2>1, <2>2 DEF Tasks, Gen, Task
<1>5. /\ a \in Seq(Tasks) /\ Len(a) = 3 /\ a[1] = Gen(nodes[k].kids[1])
      /\ a[2] = Gen(nodes[k].kids[2]) /\ a[3] = last
  <2>1. nodes[k].kids[1] \in DOMAIN nodes /\ nodes[k].kids[2] \in DOMAIN nodes
    BY <1>2, <1>3, <1>4, KidsBelow
  <2>2. /\ Gen(nodes[k].kids[1]) \in Tasks /\ Gen(nodes[k].kids[2]) \in Tasks
        /\ last \in Tasks
    BY <1>2, <2>1, NewTasks, OperatorOps
  <2> HIDE DEF last
  <2> QED BY <2>2
<1> HIDE DEF a
<1>6. /\ Len(work') = (m + 2) + Len(after)
      /\ Same(work', m + 2, after, 0, Len(after))
      /\ work'[1] = Gen(nodes[k].kids[1]) /\ work'[2] = Gen(nodes[k].kids[2])
      /\ work'[3] = last
      /\ Same(work', 3, work, 1, m - 1)
  <2>1. m + Len(a) - 1 = m + 2
    BY <1>5
  <2>2. /\ work \in Seq(Tasks) /\ a \in Seq(Tasks)
        /\ Len(work) = m + Len(after) /\ Same(work, m, after, 0, Len(after))
    BY <1>1, <1>2, <1>5
  <2>3. Len(a \o Tail(work)) = (m + Len(a) - 1) + Len(after)
    <3>1. Len(a \o Tail(work)) = Len(a) + Len(work) - 1
      BY <1>3, <2>2, ReplaceHead
    <3> QED BY <1>5, <2>2, <3>1, LenProperties
  <2>4. Same(a \o Tail(work), m + Len(a) - 1, after, 0, Len(after))
    BY <2>2, WorkAfter
  <2>5. \A j \in 1 .. Len(a) : (a \o Tail(work))[j] = a[j]
    BY <2>2, WorkAfter
  <2>6. Same(a \o Tail(work), Len(a), work, 1, m - 1)
    BY <2>2, WorkAfter
  <2> QED BY <1>3, <1>5, <2>1, <2>3, <2>4, <2>5, <2>6
<1>7. st \in PState
  BY <1>1, <1>2 DEF PState
<1> HIDE DEF st, k
<1>8. nodes[k].type \in DOMAIN token_to_binop
  <2>1. PICK b \in PState : Does(nodes, e, work[1], st, b)
    <3> DEFINE u == [i \in 1 .. m - 1 |-> work[i + 1]]
    <3>1. Same(u, 0, work, 1, m - 1)
      BY DEF Same
    <3> HIDE DEF u
    <3> QED BY <1>1, <3>1, PlanFirst
  <2> QED BY <1>2, <1>3, <1>4, <2>1, DoesGen, PlainBinary
<1>9. work'[3] = Add(token_to_binop[nodes[k].type])
  BY <1>6, <1>8
<1>10. Plan(nodes, e, work', m + 2, st)
  BY <1>1, <1>2, <1>3, <1>4, <1>6, <1>7, <1>9, PlanBinary
<1>11. m + 2 \in Nat
  OBVIOUS
<1>12. WalkAt(e, after, m + 2, n, s)'
  BY <1>1, <1>3, <1>6, <1>10, <1>11 DEF WalkAt, st
<1> QED BY <1>12 DEF Walking


\* A task is done: what it emitted takes the trace to where the plan is.
LEMMA WalkEmit ==
  ASSUME GenInv, NEW e, NEW after \in Seq(Tasks),
         NEW m \in Nat \ {0}, NEW n, NEW s, WalkAt(e, after, m, n, s),
         work' = << >> \o Tail(work), UNCHANGED nodes,
         NEW b \in PState, Plan(nodes, e, work', m - 1, b),
         b.c = Len(constants'),
         Reaches(code', constants', nodes, e, b.n, Len(code') + 1, b.stk)
  PROVE  Walking(e, after)'
<1>1. /\ m \in Nat /\ Len(work) = m + Len(after)
      /\ Same(work, m, after, 0, Len(after))
  BY DEF WalkAt
<1>2. work \in Seq(Tasks) /\ work # << >> /\ << >> \in Seq(Tasks) /\ Len(<< >>) = 0
  <2>1. work \in Seq(Tasks) /\ Len(after) \in Nat
    BY BuildTypes, LenProperties
  <2> QED BY <1>1, <2>1, EmptySeq
<1>3. m + Len(<< >>) - 1 = m - 1 /\ m - 1 \in Nat
  BY <1>2
<1>4. Same(<< >> \o Tail(work), m + Len(<< >>) - 1, after, 0, Len(after))
  BY <1>1, <1>2, WorkAfter
<1>5. Same(work', m - 1, after, 0, Len(after))
  BY <1>3, <1>4
<1>6. Len(work') = (m - 1) + Len(after)
  <2>1. Len(<< >> \o Tail(work)) = Len(<< >>) + Len(work) - 1
    BY <1>2, ReplaceHead
  <2> QED BY <1>1, <1>2, <2>1, LenProperties
<1>7. /\ b.stk \in Seq(Value) /\ b.n \in Nat
      /\ b = [stk |-> b.stk, n |-> b.n, c |-> Len(constants')]
  BY DEF PState
<1>8. WalkAt(e, after, m - 1, b.n, b.stk)'
  BY <1>3, <1>5, <1>6, <1>7 DEF WalkAt
<1> QED BY <1>8 DEF Walking

\* The plan for the first task, and for those that are left when it is done.
LEMMA WalkFirst ==
  ASSUME GenInv, NEW e, NEW after \in Seq(Tasks),
         NEW m \in Nat \ {0}, NEW n, NEW s, WalkAt(e, after, m, n, s)
  PROVE  /\ work # << >>
         /\ \E b \in PState :
              /\ Does(nodes, e, work[1],
                      [stk |-> s, n |-> n, c |-> Len(constants)], b)
              /\ Plan(nodes, e, << >> \o Tail(work), m - 1, b)
<1>1. /\ m \in Nat /\ Len(work) = m + Len(after)
      /\ Same(work, m, after, 0, Len(after))
      /\ Plan(nodes, e, work, m, [stk |-> s, n |-> n, c |-> Len(constants)])
  BY DEF WalkAt
<1>2. work \in Seq(Tasks) /\ work # << >> /\ << >> \in Seq(Tasks) /\ Len(<< >>) = 0
  <2>1. work \in Seq(Tasks) /\ Len(after) \in Nat
    BY BuildTypes, LenProperties
  <2> QED BY <1>1, <2>1, EmptySeq
<1>3. Same(<< >> \o Tail(work), Len(<< >>), work, 1, m - 1)
  BY <1>1, <1>2, WorkAfter
<1>4. Same(<< >> \o Tail(work), 0, work, 1, m - 1)
  BY <1>2, <1>3
<1> QED BY <1>1, <1>2, <1>4, PlanFirst

LEMMA WalkLeaf ==
  ASSUME GenInv, GenLeaf, NEW e \in DOMAIN nodes, NEW after \in Seq(Tasks),
         NEW m \in Nat \ {0}, NEW n, NEW s, WalkAt(e, after, m, n, s)
  PROVE  \/ Walking(e, after)' /\ status' = status
         \/ status' = "ABORT_POOL" /\ Leaves(nodes)[e] > MaxConst
<1> DEFINE k == Head(work).arg
<1> DEFINE st == [stk |-> s, n |-> n, c |-> Len(constants)]
<1>1. /\ m \in Nat /\ n \in Nat /\ s \in Seq(Value)
      /\ Len(work) = m + Len(after)
      /\ Same(work, m, after, 0, Len(after))
      /\ Plan(nodes, e, work, m, st)
      /\ Reaches(code, constants, nodes, e, n, Len(code) + 1, s)
  BY DEF WalkAt
<1>2. /\ code \in Seq(Nat) /\ constants \in Seq(Value) /\ Heap(nodes)
      /\ work \in Seq(Tasks) /\ Len(constants) \in Nat
      /\ Len(constants) <= MaxConst /\ MaxConst \in Nat
  BY BuildTypes
<1>3. /\ Doing("gen") /\ nodes[k].kind \in LeafKinds /\ work # << >>
      /\ UNCHANGED nodes
      /\ EmitConst(nodes[k].lit)
  BY DEF GenLeaf, Visiting, Doing, This
<1>4. work[1] = Gen(k) /\ k \in DOMAIN nodes
  <2>1. Head(work) = work[1] /\ work[1].arg \in DOMAIN nodes
    BY <1>3, HeadTask
  <2>2. work[1] \in Tasks /\ work[1].do = "gen"
    BY <1>2, <1>3, <2>1, ElementOfSeq, EmptySeq DEF Doing
  <2> QED BY <2>1, <2>2 DEF Tasks, Gen, Task
<1>5. PICK b \in PState : /\ Does(nodes, e, work[1], st, b)
                          /\ Plan(nodes, e, << >> \o Tail(work), m - 1, b)
  BY WalkFirst
<1> HIDE DEF k
<1>6. /\ b.stk = Append(s, nodes[k].lit) /\ b.n = n + 1
      /\ b.c = Len(constants) + 1 /\ b.c <= Leaves(nodes)[e]
  <2>1. /\ b.stk = Append(st.stk, Eval(nodes)[k])
        /\ b.n = st.n + Size(nodes)[k] /\ b.c = st.c + Leaves(nodes)[k]
        /\ b.c <= Leaves(nodes)[e]
    BY <1>4, <1>5, DoesGen
  <2>2. /\ Eval(nodes)[k] = nodes[k].lit /\ Size(nodes)[k] = 1
        /\ Leaves(nodes)[k] = 1
    BY <1>2, <1>3, <1>4, PlainLeaf
  <2> QED BY <2>1, <2>2
<1>7. CASE PoolFull
  <2>1. status' = "ABORT_POOL"
    BY <1>3, <1>7 DEF EmitConst, Stop, Die
  <2>2. Len(constants) >= MaxConst
    BY <1>7 DEF PoolFull
  <2>3. Leaves(nodes)[e] \in Nat
    BY <1>2, LeavesDef
  <2>4. Leaves(nodes)[e] > MaxConst
    BY <1>2, <1>6, <2>2, <2>3
  <2> QED BY <2>1, <2>4
<1>8. CASE ~ PoolFull
  <2>1. /\ constants' = Append(constants, nodes[k].lit)
        /\ code' = code \o <<OP_CONST, Len(constants)>>
        /\ work' = << >> \o Tail(work)
        /\ status' = status
    BY <1>3, <1>8 DEF EmitConst, Emit, addConst, addOpWithConst, Replace
  <2>2. nodes[k].lit \in Value
    BY <1>2, <1>4, HeapNode
  <2>3. Reaches(code', constants', nodes, e, n + 1, Len(code') + 1,
                Append(s, nodes[k].lit))
    BY <1>1, <1>2, <2>1, <2>2, ReachesConst
  <2>4. Len(constants') = Len(constants) + 1
    BY <1>2, <2>1, <2>2, AppendProperties
  <2>5. Walking(e, after)'
    BY <1>3, <1>5, <1>6, <2>1, <2>3, <2>4, WalkEmit
  <2> QED BY <2>1, <2>5
<1> QED BY <1>7, <1>8

LEMMA WalkOp ==
  ASSUME GenInv, EmitOp, NEW e \in DOMAIN nodes, NEW after \in Seq(Tasks),
         NEW m \in Nat \ {0}, NEW n, NEW s, WalkAt(e, after, m, n, s)
  PROVE  Walking(e, after)' /\ status' = status
<1> DEFINE op == Head(work).arg
<1> DEFINE st == [stk |-> s, n |-> n, c |-> Len(constants)]
<1>1. /\ m \in Nat /\ n \in Nat /\ s \in Seq(Value)
      /\ Len(work) = m + Len(after)
      /\ Same(work, m, after, 0, Len(after))
      /\ Plan(nodes, e, work, m, st)
      /\ Reaches(code, constants, nodes, e, n, Len(code) + 1, s)
  BY DEF WalkAt
<1>2. /\ code \in Seq(Nat) /\ constants \in Seq(Value) /\ Heap(nodes)
      /\ work \in Seq(Tasks) /\ Len(constants) \in Nat
      /\ Len(constants) <= MaxConst /\ MaxConst \in Nat
  BY BuildTypes
<1>3. /\ Doing("add") /\ work # << >> /\ UNCHANGED <<nodes, constants, status>>
      /\ code' = Append(code, op) /\ work' = << >> \o Tail(work)
  BY DEF EmitOp, Doing, Emit, addOp, Replace
<1>4. work[1] = Add(op) /\ op \in Nat
  <2>1. Head(work) = work[1]
    BY <1>3, HeadTask
  <2>2. work[1] \in Tasks /\ work[1].do = "add"
    BY <1>2, <1>3, <2>1, ElementOfSeq, EmptySeq DEF Doing
  <2> QED BY <2>1, <2>2 DEF Tasks, Add, Task
<1>5. PICK b \in PState : /\ Does(nodes, e, work[1], st, b)
                          /\ Plan(nodes, e, << >> \o Tail(work), m - 1, b)
  BY WalkFirst
<1> HIDE DEF op
<1>6. /\ Applies(nodes, e, op, s, b.stk) /\ b.n = n + 1
      /\ b.c = Len(constants)
  BY <1>4, <1>5, DoesAdd
<1>7. b.stk \in Seq(Value)
  BY DEF PState
<1>8. Reaches(code', constants', nodes, e, n + 1, Len(code') + 1, b.stk)
  BY <1>1, <1>2, <1>3, <1>4, <1>6, <1>7, ReachesOp
<1>9. Walking(e, after)'
  BY <1>3, <1>5, <1>6, <1>8, WalkEmit
<1> QED BY <1>3, <1>9

\* A step of the walk over e, while tasks of e are left.
LEMMA WalkNext ==
  ASSUME GenInv, Codegen, NEW e \in DOMAIN nodes, NEW after \in Seq(Tasks),
         NEW m \in Nat \ {0}, NEW n, NEW s, WalkAt(e, after, m, n, s)
  PROVE  \/ Walking(e, after)' /\ status' = status
         \/ status' = "ABORT_POOL" /\ Leaves(nodes)[e] > MaxConst
<1>1. PICK b \in PState :
        Does(nodes, e, work[1], [stk |-> s, n |-> n, c |-> Len(constants)], b)
  BY WalkFirst
<1>2. work # << >>
  BY WalkFirst
<1>3. CASE \E k \in DOMAIN nodes : work[1] = Gen(k) /\ Plain(nodes)[k]
  <2>1. GenLeaf \/ GenUnary \/ GenBinary
    BY <1>2, <1>3, PlainVisit
  <2>2. GenUnary \/ GenBinary => status' = status
    BY DEF GenUnary, GenBinary, Descend
  <2> QED BY <2>1, <2>2, WalkLeaf, WalkUnary, WalkBinary
<1>4. CASE \E op : work[1] = Add(op)
  <2>1. EmitOp
    BY <1>2, <1>4, AddVisit
  <2> QED BY <2>1, WalkOp
<1> QED BY <1>1, <1>3, <1>4 DEF Does


LEMMA WalkBegin ==
  ASSUME NEW ns, Heap(ns), NEW e \in DOMAIN ns, Plain(ns)[e],
         NEW w, w[1] = Gen(e)
  PROVE  /\ Plan(ns, e, w, 1, [stk |-> <<Null>>, n |-> 0, c |-> 0])
         /\ Reaches(<< >>, << >>, ns, e, 0, 1, <<Null>>)
<1> DEFINE a == [stk |-> <<Null>>, n |-> 0, c |-> 0]
           b == [stk |-> <<Null, Eval(ns)[e]>>, n |-> Size(ns)[e],
                 c |-> Leaves(ns)[e]]
           h == [j \in 0 .. 1 |-> IF j = 0 THEN a ELSE b]
<1>1. /\ Eval(ns)[e] \in Value /\ Size(ns)[e] \in Nat \ {0}
      /\ Leaves(ns)[e] \in Nat \ {0}
  BY EvalDef, SizeDef, LeavesDef
<1>2. a \in PState /\ b \in PState
  <2>1. <<Null>> \in Seq(Value) /\ <<Null, Eval(ns)[e]>> \in Seq(Value)
    BY <1>1, ValueKinds
  <2> QED BY <1>1, <2>1 DEF PState
<1>3. Does(ns, e, Gen(e), a, b)
  <2>1. b.stk = Append(a.stk, Eval(ns)[e])
    OBVIOUS
  <2>2. b.n = a.n + Size(ns)[e] /\ b.c = a.c + Leaves(ns)[e]
        /\ b.c <= Leaves(ns)[e]
    BY <1>1
  <2> QED BY <2>1, <2>2 DEF Does
<1>4. h \in [0 .. 1 -> PState] /\ h[0] = a /\ h[1] = b
  BY <1>2
<1> HIDE DEF h, a
<1>5. \A j \in 1 .. 1 : Does(ns, e, w[j], h[j - 1], h[j])
  BY <1>3, <1>4
<1>6. Plan(ns, e, w, 1, a)
  BY <1>4, <1>5 DEF Plan
<1>7. Reaches(<< >>, << >>, ns, e, 0, 1, <<Null>>)
  <2> DEFINE at  == [i \in 0 .. 0 |-> 1]
             stk == [i \in 0 .. 0 |-> <<Null>>]
  <2>1. <<Null>> \in Seq(Value) /\ 1 \in Nat \ {0}
    BY ValueKinds
  <2>2. at \in [0 .. 0 -> Nat \ {0}] /\ stk \in [0 .. 0 -> Seq(Value)]
        /\ at[0] = 1 /\ stk[0] = <<Null>>
    BY <2>1
  <2> HIDE DEF at, stk
  <2>3. \A i \in 0 .. 0 - 1 : FALSE
    OBVIOUS
  <2>4. Trace(<< >>, << >>, ns, e, 0, at, stk)
    BY <2>2, <2>3 DEF Trace
  <2> QED BY <2>2, <2>4 DEF Reaches
<1> QED BY <1>6, <1>7 DEF a

\* The code for e is complete: its value is on the stack.
Computed(e, p) ==
  Reaches(code, constants, nodes, e, Size(nodes)[e], p, <<Null, Eval(nodes)[e]>>)

LEMMA WalkEnd ==
  ASSUME NEW e, NEW after, NEW n, NEW s, WalkAt(e, after, 0, n, s)
  PROVE  /\ Computed(e, Len(code) + 1)
         /\ Len(constants) = Leaves(nodes)[e]
         /\ Len(work) = 0 + Len(after)
         /\ \A i \in 1 .. Len(after) : work[0 + i] = after[0 + i]
<1> DEFINE st == [stk |-> s, n |-> n, c |-> Len(constants)]
           goal == [stk |-> <<Null, Eval(nodes)[e]>>, n |-> Size(nodes)[e],
                    c |-> Leaves(nodes)[e]]
<1>1. /\ Len(work) = 0 + Len(after) /\ Same(work, 0, after, 0, Len(after))
      /\ Plan(nodes, e, work, 0, st)
      /\ Reaches(code, constants, nodes, e, n, Len(code) + 1, s)
  BY DEF WalkAt
<1>2. st = goal
  BY <1>1 DEF Plan
<1>3. s = <<Null, Eval(nodes)[e]>> /\ n = Size(nodes)[e]
      /\ Len(constants) = Leaves(nodes)[e]
  BY <1>2
<1> QED BY <1>1, <1>3 DEF Computed, Same

-----------------------------------------------------------------------------
\* The statements built around one plain tree e, and what genCode emits after
\* the code of e.

Forms == {"pop", "print", "bind"}

Ass == nodes[nodes[Stmt].kids[1]]

Simple(form, e) ==
  /\ cur > 0
  /\ e \in DOMAIN nodes
  /\ Plain(nodes)[e]
  /\ \/ form = "pop" /\ e = Stmt
     \/ /\ form = "print"
        /\ nodes[Stmt].kind = "Print"
        /\ e = nodes[Stmt].kids[1]
     \/ /\ form = "bind"
        /\ nodes[Stmt].kind = "Var"
        /\ Ass.kind = "BinaryOp" /\ Ass.type = "EQUALS"
        /\ nodes[Ass.kids[1]].kind = "Name"
        /\ e = Ass.kids[2]

After(form) ==
  CASE form = "pop"   -> <<Add(OP_POP)>>
    [] form = "print" -> <<Add(OP_PRINT), Add(OP_POP)>>
    [] form = "bind"  -> <<Bind(Ass.kids[1]), Add(OP_POP)>>

\* The words that pop, print or bind the value, from p on.
Uses(form, p) ==
  /\ p \in 1 .. Len(code)
  /\ form = "pop" => code[p] = OP_POP
  /\ form = "print" =>
       code[p] = OP_PRINT /\ p + 1 \in 1 .. Len(code) /\ code[p + 1] = OP_POP
  /\ form = "bind" =>
       /\ code[p] = OP_DEFINE_LOCAL
       /\ p + 1 \in 1 .. Len(code)
       /\ code[p + 1] + 1 \in 1 .. Len(constants)
       /\ constants[code[p + 1] + 1] = nodes[Ass.kids[1]].lit

Ready(form, e) ==
  /\ Leaves(nodes)[e] <= MaxConst
  /\ \E p : Computed(e, p) /\ Uses(form, p)

\* All but genCode's OP_POP is emitted.
UsesNearly(form, p) ==
  /\ form # "pop"
  /\ p \in 1 .. Len(code)
  /\ form = "print" => code[p] = OP_PRINT /\ p = Len(code)
  /\ form = "bind" => Uses(form, p)

Built(form, e) ==
  \/ work = <<Gen(Stmt), Add(OP_POP)>> /\ code = << >> /\ constants = << >>
  \/ Walking(e, After(form))
  \/ /\ work = <<Add(OP_POP)>>
     /\ Leaves(nodes)[e] <= MaxConst
     /\ \E p : Computed(e, p) /\ UsesNearly(form, p)
  \/ work = << >> /\ Ready(form, e)

\* The run has come i instructions along the trace that computes e.
OnTrack(e, i, p) ==
  \E at, stk :
    /\ Trace(code, constants, nodes, e, Size(nodes)[e], at, stk)
    /\ at[Size(nodes)[e]] = p
    /\ stk[Size(nodes)[e]] = <<Null, Eval(nodes)[e]>>
    /\ i \in 0 .. Size(nodes)[e]
    /\ ip = at[i]
    /\ stack = stk[i]

Quiet  == Len(printed) = mark
Spoken(val) == Len(printed) = mark + 1 /\ printed[mark + 1] = val

Running(form, e) ==
  /\ Leaves(nodes)[e] <= MaxConst
  /\ \/ /\ Quiet /\ globals = NoVars /\ localvar_stack = <<NoVars>>
        /\ \E p : OnTrack(e, icount, p) /\ Uses(form, p)
     \/ /\ form = "print"
        /\ icount = Size(nodes)[e] + 1
        /\ stack = <<Null>>
        /\ ip \in 1 .. Len(code) /\ code[ip] = OP_POP
        /\ Spoken(Eval(nodes)[e])

Outcome(form, e) ==
  /\ status \notin {"ERR", "ABORT_EMPTY", "ABORT_CONST", "ABORT_NAME",
                    "ABORT_POP", "ABORT_VAR", "EXIT"}
  /\ status = "ABORT_POOL" =>
       Quiet /\ (form # "bind" => Leaves(nodes)[e] > MaxConst)
  /\ status = "SIGFPE" => Quiet /\ MayTrap(nodes)[e]
  /\ status \in Returned => Leaves(nodes)[e] <= MaxConst
  /\ status = "CRASH" =>
       /\ form = "print" /\ Size(nodes)[e] + 1 < MaxIcount
       /\ Spoken(Eval(nodes)[e])
  /\ status = "OK" =>
       /\ Size(nodes)[e] < MaxIcount
       /\ form = "print" =>
            Size(nodes)[e] + 1 < MaxIcount /\ Spoken(Eval(nodes)[e])
       /\ form # "print" => Quiet
       /\ form = "bind" =>
            /\ localvar_stack =
                 <<[n \in {nodes[Ass.kids[1]].lit.str} |-> Eval(nodes)[e]]>>
            /\ globals = NoVars
  /\ status = "INF_LOOP" =>
       \/ /\ Size(nodes)[e] >= MaxIcount /\ Quiet
          /\ globals = NoVars /\ localvar_stack = <<NoVars>>
       \/ /\ form = "print" /\ Size(nodes)[e] + 1 = MaxIcount
          /\ Spoken(Eval(nodes)[e])

Phase(form, e) ==
  /\ status = "building" => Quiet /\ Built(form, e)
  /\ status = "listing" => Quiet /\ Ready(form, e)
  /\ status = "running" => Running(form, e)
  /\ status \in Returned \cup Died => Outcome(form, e)

SimpleInv ==
  \A form \in Forms : \A e : Simple(form, e) => Phase(form, e)


LEMMA CodegenFrame ==
  ASSUME GenInv, Codegen
  PROVE  /\ status = "building" /\ work # << >> /\ Head(work) = work[1]
         /\ UNCHANGED <<nodes, stmts, cur, mark, printed>>
<1>1. \E d \in {"gen", "add", "bind", "bad"} : Doing(d)
  BY DEF Codegen, GenLeaf, GenUnary, GenBinary, GenReturn, GenPrint, GenVarInit,
    GenVarNull, GenVarBad, GenUnimplemented, EmitOp, EmitBind, EmitBad, Visiting
<1>2. status = "building" /\ work # << >> /\ UNCHANGED <<nodes, stmts, cur, mark>>
  BY <1>1 DEF Doing
<1>3. UNCHANGED printed
  BY DEF Codegen, GenLeaf, GenUnary, GenBinary, GenReturn, GenPrint, GenVarInit,
    GenVarNull, GenVarBad, GenUnimplemented, EmitOp, EmitBind, EmitBad,
    EmitConst, Emit, Stop, Die, Descend, execVars
<1> QED BY <1>2, <1>3, HeadTailProperties DEF GenInv, TypeOK

LEMMA SimpleFacts ==
  ASSUME GenInv, NEW form \in Forms, NEW e, Simple(form, e)
  PROVE  /\ Stmt \in DOMAIN nodes
         /\ Leaves(nodes)[e] \in Nat \ {0} /\ Size(nodes)[e] \in Nat \ {0}
         /\ Eval(nodes)[e] \in Value
         /\ After(form) \in Seq(Tasks)
         /\ form = "pop" => /\ Len(After(form)) = 1
                            /\ After(form)[1] = Add(OP_POP)
         /\ form = "print" => /\ Len(After(form)) = 2
                              /\ After(form)[1] = Add(OP_PRINT)
                              /\ After(form)[2] = Add(OP_POP)
         /\ form = "bind" => /\ Len(After(form)) = 2
                             /\ After(form)[1] = Bind(Ass.kids[1])
                             /\ After(form)[2] = Add(OP_POP)
                             /\ Ass.kids[1] \in DOMAIN nodes
                             /\ nodes[Stmt].kids[1] \in DOMAIN nodes
<1>1. /\ Heap(nodes) /\ cur \in 0 .. Len(stmts) /\ Len(stmts) \in Nat
      /\ \A i \in 1 .. Len(stmts) : stmts[i] \in DOMAIN nodes
  BY BuildTypes
<1>2. cur > 0 /\ e \in DOMAIN nodes
  BY DEF Simple
<1>3. Stmt \in DOMAIN nodes
  <2>1. cur \in 1 .. Len(stmts)
    BY <1>1, <1>2
  <2> QED BY <1>1, <2>1 DEF Stmt
<1>4. /\ Leaves(nodes)[e] \in Nat \ {0} /\ Size(nodes)[e] \in Nat \ {0}
      /\ Eval(nodes)[e] \in Value
  BY <1>1, <1>2, LeavesDef, SizeDef, EvalDef
<1>5. Add(OP_POP) \in Tasks /\ Add(OP_PRINT) \in Tasks
  BY NewTasks, OpcodeFacts
<1>6. CASE form = "pop"
  <2>1. After(form) = <<Add(OP_POP)>>
    BY <1>6 DEF After
  <2>2. /\ After(form) \in Seq(Tasks) /\ Len(After(form)) = 1
        /\ After(form)[1] = Add(OP_POP)
    BY <1>5, <2>1
  <2> QED BY <1>3, <1>4, <1>6, <2>2
<1>7. CASE form = "print"
  <2>1. After(form) = <<Add(OP_PRINT), Add(OP_POP)>>
    BY <1>7 DEF After
  <2>2. /\ After(form) \in Seq(Tasks) /\ Len(After(form)) = 2
        /\ After(form)[1] = Add(OP_PRINT) /\ After(form)[2] = Add(OP_POP)
    BY <1>5, <2>1
  <2> QED BY <1>3, <1>4, <1>7, <2>2
<1>8. CASE form = "bind"
  <2>1. After(form) = <<Bind(Ass.kids[1]), Add(OP_POP)>>
    BY <1>8 DEF After
  <2>2. /\ nodes[Stmt].kind = "Var" /\ Ass.kind = "BinaryOp"
    BY <1>8 DEF Simple
  <2>3. nodes[Stmt].kids[1] \in DOMAIN nodes
    BY <1>1, <1>3, <2>2, KidsBelow
  <2>4. Ass.kids[1] \in DOMAIN nodes
    BY <1>1, <2>2, <2>3, KidsBelow DEF Ass
  <2>5. Bind(Ass.kids[1]) \in Tasks
    BY <1>1, <2>4, NewTasks
  <2>6. /\ After(form) \in Seq(Tasks) /\ Len(After(form)) = 2
        /\ After(form)[1] = Bind(Ass.kids[1]) /\ After(form)[2] = Add(OP_POP)
    BY <1>5, <2>1, <2>5
  <2> QED BY <1>3, <1>4, <1>8, <2>3, <2>4, <2>6
<1> QED BY <1>6, <1>7, <1>8 DEF Forms

LEMMA PhaseBuilt ==
  ASSUME NEW form, NEW e, status' = "building", Quiet,
         UNCHANGED <<printed, mark>>, Built(form, e)'
  PROVE  Phase(form, e)'
BY DEF Phase, Quiet, Returned, Died

LEMMA PhasePool ==
  ASSUME NEW form, NEW e, status' = "ABORT_POOL", Quiet,
         UNCHANGED <<printed, mark, nodes>>,
         form # "bind" => Leaves(nodes)[e] > MaxConst
  PROVE  Phase(form, e)'
BY DEF Phase, Outcome, Quiet, Returned, Died

\* The walk over e.
LEMMA WalkPhase ==
  ASSUME GenInv, Codegen, NEW form \in Forms, NEW e, Simple(form, e), Quiet,
         NEW m \in Nat \ {0}, NEW n, NEW s, WalkAt(e, After(form), m, n, s)
  PROVE  Phase(form, e)'
<1> DEFINE after == After(form)
<1>1. e \in DOMAIN nodes /\ after \in Seq(Tasks)
  BY SimpleFacts DEF Simple
<1>2. after' = after
  BY CodegenFrame DEF After, Ass, Stmt
<1>3. PICK x : x = after
  OBVIOUS
<1>4. \/ Walking(e, x)' /\ status' = status
      \/ status' = "ABORT_POOL" /\ Leaves(nodes)[e] > MaxConst
  BY <1>1, <1>3, WalkNext
<1>5. /\ status = "building" /\ UNCHANGED <<printed, mark, nodes>>
  BY CodegenFrame
<1>6. CASE Walking(e, x)' /\ status' = status
  <2>1. x = After(form)'
    BY <1>2, <1>3
  <2>2. Built(form, e)'
    BY <1>6, <2>1 DEF Built
  <2> QED BY <1>5, <1>6, <2>2, PhaseBuilt
<1>7. CASE status' = "ABORT_POOL" /\ Leaves(nodes)[e] > MaxConst
  BY <1>5, <1>7, PhasePool
<1> QED BY <1>4, <1>6, <1>7

\* Its first step.
LEMMA StartPhase ==
  ASSUME GenInv, Codegen, NEW form \in Forms, NEW e, Simple(form, e), Quiet,
         work = <<Gen(Stmt), Add(OP_POP)>>, code = << >>, constants = << >>
  PROVE  Phase(form, e)'
<1>1. /\ status = "building" /\ UNCHANGED <<nodes, stmts, cur, mark, printed>>
      /\ Head(work) = work[1] /\ Heap(nodes) /\ work[1] = Gen(Stmt)
      /\ work[1].do = "gen" /\ work[1].arg = Stmt
      /\ Len(<< >>) = 0 /\ << >> \in Seq(Value)
  BY CodegenFrame, BuildTypes DEF Gen, Task
<1>2. /\ e \in DOMAIN nodes /\ Plain(nodes)[e] /\ After(form) \in Seq(Tasks)
      /\ Stmt \in DOMAIN nodes
  BY SimpleFacts DEF Simple
<1>3. ASSUME work' = <<Gen(e)>> \o After(form), code' = << >>,
             constants' = << >>, status' = status
      PROVE  Phase(form, e)'
  <2> DEFINE after == After(form)
  <2>1. after' = after
    BY <1>1 DEF After, Ass, Stmt
  <2>2. /\ Len(work') = 1 + Len(after) /\ work'[1] = Gen(e)
        /\ \A i \in 1 .. Len(after) : work'[1 + i] = after[i]
    <3>1. <<Gen(e)>> \in Seq(Tasks) /\ Len(<<Gen(e)>>) = 1 /\ <<Gen(e)>>[1] = Gen(e)
      BY <1>1, <1>2, NewTasks
    <3> HIDE DEF after
    <3> QED BY <1>2, <1>3, <3>1, ConcatProperties, LenProperties DEF after
  <2>3. Same(work', 1, after, 0, Len(after))
    BY <1>2, <2>2, LenProperties DEF Same
  <2>4. /\ Plan(nodes, e, work', 1, [stk |-> <<Null>>, n |-> 0, c |-> 0])
        /\ Reaches(<< >>, << >>, nodes, e, 0, 1, <<Null>>)
    BY <1>1, <1>2, <2>2, WalkBegin
  <2>5. <<Null>> \in Seq(Value)
    BY ValueKinds
  <2>6. WalkAt(e, After(form), 1, 0, <<Null>>)'
    BY <1>1, <1>3, <2>1, <2>2, <2>3, <2>4, <2>5 DEF WalkAt
  <2>7. Built(form, e)'
    BY <2>6 DEF Built, Walking
  <2> QED BY <1>1, <1>3, <2>7, PhaseBuilt
<1>4. CASE form = "pop"
  <2>1. e = Stmt /\ After(form) = <<Add(OP_POP)>>
    BY <1>4 DEF Simple, After
  <2>2. Same(work, 1, After(form), 0, Len(After(form))) /\ Len(After(form)) = 1
    BY <2>1 DEF Same
  <2>3. /\ Plan(nodes, e, work, 1, [stk |-> <<Null>>, n |-> 0, c |-> 0])
        /\ Reaches(<< >>, << >>, nodes, e, 0, 1, <<Null>>)
    BY <1>1, <1>2, <2>1, WalkBegin
  <2>4. <<Null>> \in Seq(Value)
    BY ValueKinds
  <2>5. WalkAt(e, After(form), 1, 0, <<Null>>)
    BY <1>1, <2>2, <2>3, <2>4 DEF WalkAt
  <2> QED BY <2>5, WalkPhase
<1>5. CASE form = "print"
  <2>1. nodes[Stmt].kind = "Print" /\ e = nodes[Stmt].kids[1]
        /\ After(form) = <<Add(OP_PRINT), Add(OP_POP)>>
    BY <1>5 DEF Simple, After
  <2>2. GenPrint
    BY <1>1, <2>1 DEF Codegen, GenLeaf, GenUnary, GenBinary, GenReturn,
      GenPrint, GenVarInit, GenVarNull, GenVarBad, GenUnimplemented, EmitOp,
      EmitBind, EmitBad, Visiting, Doing, This, LeafKinds
  <2>3. /\ work' = <<Gen(e), Add(OP_PRINT)>> \o Tail(work)
        /\ UNCHANGED <<code, constants, status>>
    BY <1>1, <2>1, <2>2 DEF GenPrint, Descend, Replace, This, chunkVars
  <2>4. Tail(work) = <<Add(OP_POP)>>
    OBVIOUS
  <2>5. work' = <<Gen(e)>> \o After(form)
    BY <2>1, <2>3, <2>4
  <2> QED BY <1>3, <2>3, <2>5
<1>6. CASE form = "bind"
  <2>1. /\ nodes[Stmt].kind = "Var" /\ Ass.kind = "BinaryOp"
        /\ Ass.type = "EQUALS" /\ e = Ass.kids[2]
        /\ After(form) = <<Bind(Ass.kids[1]), Add(OP_POP)>>
    BY <1>6 DEF Simple, After
  <2>2. This = nodes[Stmt] /\ Kid(1) = Ass
    BY <1>1 DEF This, Kid, Ass
  <2>3. GenVarInit
    BY <1>1, <2>1, <2>2 DEF Codegen, GenLeaf, GenUnary, GenBinary, GenReturn,
      GenPrint, GenVarInit, GenVarNull, GenVarBad, GenUnimplemented, EmitOp,
      EmitBind, EmitBad, Visiting, Doing, This, LeafKinds
  <2>4. /\ work' = <<Gen(e), Bind(Ass.kids[1])>> \o Tail(work)
        /\ UNCHANGED <<code, constants, status>>
    BY <2>1, <2>2, <2>3 DEF GenVarInit, Descend, Replace, chunkVars
  <2>5. Tail(work) = <<Add(OP_POP)>>
    OBVIOUS
  <2>6. work' = <<Gen(e)>> \o After(form)
    BY <2>1, <2>4, <2>5
  <2> QED BY <1>3, <2>4, <2>6
<1> QED BY <1>4, <1>5, <1>6 DEF Forms

-----------------------------------------------------------------------------
\* After the walk over e: the words that use its value.

LEMMA StrOf ==
  ASSUME NEW v \in Value, isString(v)
  PROVE  v = StrVal(v.str) /\ v.str \in Str
BY DEF Value, Null, isString, StrVal

LEMMA GrowsBy ==
  ASSUME NEW S, NEW c \in Seq(S), NEW w \in Seq(S)
  PROVE  /\ c \o w \in Seq(S) /\ Len(c \o w) = Len(c) + Len(w)
         /\ Len(c) \in Nat /\ Len(w) \in Nat
         /\ \A i \in 1 .. Len(w) : (c \o w)[Len(c) + i] = w[i]
         /\ Extends(c \o w, c)
<1>1. Len(c) \in Nat /\ Len(w) \in Nat
  BY LenProperties
<1>2. /\ c \o w \in Seq(S) /\ Len(c \o w) = Len(c) + Len(w)
      /\ \A i \in 1 .. Len(c) + Len(w) :
           (c \o w)[i] = IF i <= Len(c) THEN c[i] ELSE w[i - Len(c)]
  BY ConcatProperties
<1>3. PICK d : d = c \o w
  OBVIOUS
<1>4. \A i \in 1 .. Len(w) : d[Len(c) + i] = w[i]
  <2> TAKE i \in 1 .. Len(w)
  <2>1. Len(c) + i \in 1 .. Len(c) + Len(w) /\ ~ (Len(c) + i <= Len(c))
        /\ (Len(c) + i) - Len(c) = i
    BY <1>1
  <2> QED BY <1>2, <1>3, <2>1
<1>5. Extends(d, c)
  <2>1. \A i \in 1 .. Len(c) : i \in 1 .. Len(c) + Len(w) /\ i <= Len(c)
    BY <1>1
  <2> QED BY <1>1, <1>2, <1>3, <2>1 DEF Extends
<1> QED BY <1>1, <1>2, <1>3, <1>4, <1>5

LEMMA ComputedKept ==
  ASSUME GenInv, GenInv', UNCHANGED nodes, NEW e, NEW p, Computed(e, p),
         Extends(code', code), Extends(constants', constants)
  PROVE  Computed(e, p)'
<1>1. /\ code \in Seq(Nat) /\ constants \in Seq(Value)
      /\ code' \in Seq(Nat) /\ constants' \in Seq(Value)
  BY BuildTypes DEF GenInv, VMInv, VMTypeOK, ChunkTypeOK
<1>2. Reaches(code', constants', nodes, e, Size(nodes)[e], p,
              <<Null, Eval(nodes)[e]>>)
  BY <1>1, ReachesKept DEF Computed
<1> QED BY <1>2 DEF Computed

\* An opcode without operand at the end of the chunk.
LEMMA OpEmitted ==
  ASSUME GenInv, Codegen, NEW op, work # << >>, work[1] = Add(op)
  PROVE  /\ code' = code \o <<op>> /\ UNCHANGED <<constants, status>>
         /\ work' = << >> \o Tail(work)
         /\ Len(code') = Len(code) + 1 /\ code'[Len(code) + 1] = op
         /\ Len(code) \in Nat
         /\ Extends(code', code) /\ Extends(constants', constants)
<1>1. EmitOp
  BY AddVisit
<1>2. Head(work) = work[1] /\ work[1].arg = op
  BY CodegenFrame DEF Add, Task
<1>3. /\ code' = Append(code, op) /\ UNCHANGED <<constants, status>>
      /\ work' = << >> \o Tail(work)
  BY <1>1, <1>2 DEF EmitOp, Emit, addOp, Replace
<1>4. op \in Nat
  BY <1>1, <1>2, HeadTask, OpcodeFacts DEF EmitOp
<1>5. code \in Seq(Nat) /\ constants \in Seq(Value)
  BY BuildTypes
<1>6. <<op>> \in Seq(Nat) /\ Len(<<op>>) = 1 /\ <<op>>[1] = op
      /\ Append(code, op) = code \o <<op>>
  BY <1>4, <1>5
<1>7. /\ Len(code \o <<op>>) = Len(code) + 1 /\ Len(code) \in Nat
      /\ (code \o <<op>>)[Len(code) + 1] = op
      /\ Extends(code \o <<op>>, code)
  <2>1. PICK w : w = <<op>>
    OBVIOUS
  <2>2. w \in Seq(Nat) /\ Len(w) = 1 /\ w[1] = op
    BY <1>6, <2>1
  <2>3. /\ Len(code \o w) = Len(code) + Len(w) /\ Len(code) \in Nat
        /\ \A i \in 1 .. Len(w) : (code \o w)[Len(code) + i] = w[i]
        /\ Extends(code \o w, code)
    BY <1>5, <2>2, GrowsBy
  <2> QED BY <2>1, <2>2, <2>3
<1>8. Extends(constants, constants)
  BY <1>5, LenProperties DEF Extends
<1> QED BY <1>3, <1>6, <1>7, <1>8

\* The lists of one and of two tasks.
LEMMA ShortWork ==
  ASSUME NEW w \in Seq(Tasks)
  PROVE  /\ Len(w) = 1 => w # << >> /\ << >> \o Tail(w) = << >>
         /\ Len(w) = 2 => w # << >> /\ << >> \o Tail(w) = <<w[2]>>
<1>1. PICK v : v = << >> \o Tail(w)
  OBVIOUS
<1>2. ASSUME w # << >>
      PROVE  /\ v \in Seq(Tasks) /\ Len(v) = Len(w) - 1
             /\ \A i \in 1 .. Len(w) - 1 : v[i] = w[i + 1]
  <2>1. PICK t : t = Tail(w)
    OBVIOUS
  <2>2. /\ t \in Seq(Tasks) /\ Len(t) = Len(w) - 1
        /\ \A i \in 1 .. Len(t) : t[i] = w[i + 1]
    BY <1>2, <2>1, HeadTailProperties
  <2>3. v = t
    BY <1>1, <2>1, <2>2
  <2> QED BY <2>2, <2>3
<1>3. ASSUME Len(w) = 1
      PROVE  w # << >> /\ v = << >>
  <2>1. w # << >>
    BY <1>3
  <2>2. v \in Seq(Tasks) /\ Len(v) = 0
    BY <1>2, <1>3, <2>1
  <2> QED BY <2>1, <2>2, EmptySeq
<1>4. ASSUME Len(w) = 2
      PROVE  w # << >> /\ v = <<w[2]>>
  <2>1. w # << >> /\ w[2] \in Tasks
    BY <1>4, ElementOfSeq
  <2>2. v \in Seq(Tasks) /\ Len(v) = 1 /\ v[1] = w[2]
    BY <1>2, <1>4, <2>1
  <2>3. <<w[2]>> \in Seq(Tasks) /\ Len(<<w[2]>>) = 1 /\ <<w[2]>>[1] = w[2]
    BY <2>1
  <2>4. v = <<w[2]>>
    BY <2>2, <2>3, SeqEqual
  <2> QED BY <2>1, <2>4
<1> QED BY <1>1, <1>3, <1>4


LEMMA UsesKept ==
  ASSUME NEW form \in Forms, NEW p, Uses(form, p),
         UNCHANGED <<nodes, stmts, cur>>,
         Len(code) \in Nat, Len(code') \in Nat,
         Len(constants) \in Nat, Len(constants') \in Nat,
         Extends(code', code), Extends(constants', constants)
  PROVE  Uses(form, p)'
<1>1. Ass' = Ass
  BY DEF Ass, Stmt
<1>2. /\ \A i \in 1 .. Len(code) : i \in 1 .. Len(code') /\ code'[i] = code[i]
      /\ \A i \in 1 .. Len(constants) :
           i \in 1 .. Len(constants') /\ constants'[i] = constants[i]
  BY DEF Extends
<1> QED BY <1>1, <1>2 DEF Uses

\* The value is computed, the tasks that use it are next.
LEMMA UsePhase ==
  ASSUME GenInv, GenInv', Codegen, NEW form \in Forms, NEW e, Simple(form, e),
         Quiet, NEW n, NEW s, WalkAt(e, After(form), 0, n, s)
  PROVE  Phase(form, e)'
<1> DEFINE after == After(form)
<1>0. PICK p : p = Len(code) + 1
  OBVIOUS
<1>1. /\ Computed(e, p) /\ Len(constants) = Leaves(nodes)[e]
      /\ Len(work) = 0 + Len(after)
      /\ \A i \in 1 .. Len(after) : work[0 + i] = after[0 + i]
  BY <1>0, WalkEnd
<1>2. /\ status = "building" /\ work # << >> /\ Head(work) = work[1]
      /\ UNCHANGED <<nodes, stmts, cur, mark, printed>>
  BY CodegenFrame
<1>3. /\ work \in Seq(Tasks) /\ Len(constants) <= MaxConst /\ MaxConst \in Nat
      /\ Len(constants) \in Nat /\ constants \in Seq(Value)
      /\ code \in Seq(Nat) /\ Len(code) \in Nat /\ Heap(nodes)
  BY BuildTypes
<1>4. Leaves(nodes)[e] <= MaxConst
  BY <1>1, <1>3
<1>5. CASE form = "pop"
  <2>1. Len(work) = 1 /\ work[1] = Add(OP_POP)
    BY <1>1, <1>5, SimpleFacts
  <2>2. /\ UNCHANGED <<constants, status>> /\ work' = << >> \o Tail(work)
        /\ Len(code') = Len(code) + 1 /\ code'[Len(code) + 1] = OP_POP
        /\ Extends(code', code) /\ Extends(constants', constants)
    BY <1>2, <2>1, OpEmitted
  <2>3. work' = << >>
    BY <1>3, <2>1, <2>2, ShortWork
  <2>4. Computed(e, p)'
    BY <1>1, <1>2, <2>2, ComputedKept
  <2>5. Uses(form, p)'
    BY <1>0, <1>3, <1>5, <2>2 DEF Uses
  <2>6. Ready(form, e)'
    BY <1>2, <1>4, <2>4, <2>5 DEF Ready
  <2>7. Built(form, e)'
    BY <2>3, <2>6 DEF Built
  <2> QED BY <1>2, <2>2, <2>7, PhaseBuilt
<1>6. CASE form = "print"
  <2>1. Len(work) = 2 /\ work[1] = Add(OP_PRINT) /\ work[2] = Add(OP_POP)
    BY <1>1, <1>6, SimpleFacts
  <2>2. /\ UNCHANGED <<constants, status>> /\ work' = << >> \o Tail(work)
        /\ Len(code') = Len(code) + 1 /\ code'[Len(code) + 1] = OP_PRINT
        /\ Extends(code', code) /\ Extends(constants', constants)
    BY <1>2, <2>1, OpEmitted
  <2>3. work' = <<Add(OP_POP)>>
    BY <1>3, <2>1, <2>2, ShortWork
  <2>4. Computed(e, p)'
    BY <1>1, <1>2, <2>2, ComputedKept
  <2>5. UsesNearly(form, p)'
    BY <1>0, <1>3, <1>6, <2>2 DEF UsesNearly
  <2>6. Built(form, e)'
    BY <1>2, <1>4, <2>3, <2>4, <2>5 DEF Built
  <2> QED BY <1>2, <2>2, <2>6, PhaseBuilt
<1>7. CASE form = "bind"
  <2> DEFINE k    == Ass.kids[1]
             name == nodes[k].lit
  <2>1. /\ Len(work) = 2 /\ work[1] = Bind(k) /\ work[2] = Add(OP_POP)
        /\ k \in DOMAIN nodes
    BY <1>1, <1>7, SimpleFacts
  <2>2. nodes[k].kind = "Name" /\ This = nodes[k] /\ work[1].do = "bind"
    BY <1>2, <1>7, <2>1 DEF Simple, This, Bind, Task
  <2>3. name \in Value /\ name = StrVal(name.str)
    BY <1>3, <2>1, <2>2, HeapNode, StrOf
  <2>4. EmitBind
    BY <1>2, <2>2 DEF Codegen, GenLeaf, GenUnary, GenBinary, GenReturn,
      GenPrint, GenVarInit, GenVarNull, GenVarBad, GenUnimplemented, EmitOp,
      EmitBind, EmitBad, Visiting, Doing
  <2>5. CASE PoolFull
    <3>1. status' = "ABORT_POOL"
      BY <2>2, <2>4, <2>5 DEF EmitBind, Stop, Die
    <3> QED BY <1>2, <1>7, <3>1, PhasePool
  <2>6. CASE ~ PoolFull
    <3> DEFINE w == <<OP_DEFINE_LOCAL, Len(constants)>>
    <3>1. /\ constants' = Append(constants, name) /\ code' = code \o w
          /\ work' = << >> \o Tail(work) /\ status' = status
      BY <2>2, <2>3, <2>4, <2>6 DEF EmitBind, Emit, addDefine, addOpWithConst,
         Replace
    <3>2. w \in Seq(Nat) /\ Len(w) = 2 /\ w[1] = OP_DEFINE_LOCAL
          /\ w[2] = Len(constants)
      BY <1>3 DEF OP_DEFINE_LOCAL
    <3> HIDE DEF w, k, name
    <3>3. /\ Len(code') = Len(code) + 2 /\ code'[Len(code) + 1] = OP_DEFINE_LOCAL
          /\ code'[(Len(code) + 1) + 1] = Len(constants)
          /\ Extends(code', code)
      <4>1. /\ Len(code \o w) = Len(code) + Len(w)
            /\ \A i \in 1 .. Len(w) : (code \o w)[Len(code) + i] = w[i]
            /\ Extends(code \o w, code)
        <5>1. code \in Seq(Nat) /\ w \in Seq(Nat)
          BY <1>3, <3>2
        <5> QED BY <5>1, GrowsBy
      <4>2. Len(code) + 2 = (Len(code) + 1) + 1 /\ 1 \in 1 .. 2 /\ 2 \in 1 .. 2
        BY <1>3
      <4> QED BY <3>1, <3>2, <4>1, <4>2
    <3>4. /\ Len(constants') = Len(constants) + 1
          /\ constants'[Len(constants) + 1] = name
          /\ Extends(constants', constants)
      BY <1>3, <2>3, <3>1, AppendProperties DEF Extends
    <3>5. work' = <<Add(OP_POP)>>
      BY <1>3, <2>1, <3>1, ShortWork
    <3>6. Computed(e, p)'
      BY <1>1, <1>2, <3>3, <3>4, ComputedKept
    <3>7. Uses(form, p)'
      <4>1. nodes'[Ass'.kids[1]].lit = name
        BY <1>2 DEF Ass, Stmt, k, name
      <4>2. /\ p \in 1 .. Len(code') /\ p + 1 \in 1 .. Len(code')
            /\ Len(constants) + 1 \in 1 .. Len(constants')
        BY <1>0, <1>3, <3>3, <3>4
      <4> QED BY <1>0, <1>7, <3>3, <3>4, <4>1, <4>2 DEF Uses
    <3>8. UsesNearly(form, p)'
      BY <1>7, <3>7 DEF UsesNearly, Uses
    <3>9. Built(form, e)'
      BY <1>2, <1>4, <3>5, <3>6, <3>8 DEF Built
    <3> QED BY <1>2, <3>1, <3>9, PhaseBuilt
  <2> QED BY <2>5, <2>6
<1> QED BY <1>5, <1>6, <1>7 DEF Forms

\* genCode's OP_POP.
LEMMA LastPhase ==
  ASSUME GenInv, GenInv', Codegen, NEW form \in Forms, NEW e, Simple(form, e),
         Quiet, work = <<Add(OP_POP)>>, Leaves(nodes)[e] <= MaxConst,
         NEW p, Computed(e, p), UsesNearly(form, p)
  PROVE  Phase(form, e)'
<1>1. /\ status = "building" /\ work # << >>
      /\ UNCHANGED <<nodes, stmts, cur, mark, printed>>
  BY CodegenFrame
<1>2. work \in Seq(Tasks) /\ Len(constants) \in Nat /\ Len(code) \in Nat
  BY BuildTypes
<1>3. Len(work) = 1 /\ work[1] = Add(OP_POP)
  OBVIOUS
<1>4. /\ UNCHANGED <<constants, status>> /\ work' = << >> \o Tail(work)
      /\ Len(code') = Len(code) + 1 /\ code'[Len(code) + 1] = OP_POP
      /\ Extends(code', code) /\ Extends(constants', constants)
  BY <1>1, <1>3, OpEmitted
<1>5. work' = << >>
  BY <1>2, <1>3, <1>4, ShortWork
<1>6. Computed(e, p)'
  BY <1>1, <1>4, ComputedKept
<1>7. Uses(form, p)'
  <2>1. CASE form = "print"
    <3>1. p = Len(code) /\ code[p] = OP_PRINT /\ p \in 1 .. Len(code)
      BY <2>1 DEF UsesNearly
    <3>2. code'[p] = OP_PRINT /\ code'[p + 1] = OP_POP
          /\ p \in 1 .. Len(code') /\ p + 1 \in 1 .. Len(code')
      BY <1>2, <1>4, <3>1 DEF Extends
    <3> QED BY <2>1, <3>2 DEF Uses
  <2>2. CASE form = "bind"
    <3>1. Uses(form, p)
      BY <2>2 DEF UsesNearly
    <3> QED BY <1>1, <1>2, <1>4, <3>1, UsesKept
  <2> QED BY <2>1, <2>2 DEF UsesNearly, Forms
<1>8. Ready(form, e)'
  BY <1>1, <1>6, <1>7 DEF Ready
<1>9. Built(form, e)'
  BY <1>5, <1>8 DEF Built
<1> QED BY <1>1, <1>4, <1>9, PhaseBuilt

LEMMA BuildPhase ==
  ASSUME GenInv, GenInv', Codegen, NEW form \in Forms, NEW e, Simple(form, e),
         Phase(form, e)
  PROVE  Phase(form, e)'
<1>1. status = "building" /\ work # << >>
  BY CodegenFrame
<1>2. Quiet /\ Built(form, e)
  BY <1>1 DEF Phase
<1>3. CASE work = <<Gen(Stmt), Add(OP_POP)>> /\ code = << >> /\ constants = << >>
  BY <1>2, <1>3, StartPhase
<1>4. CASE Walking(e, After(form))
  <2>1. PICK m, n, s : WalkAt(e, After(form), m, n, s)
    BY <1>4 DEF Walking
  <2>2. m \in Nat
    BY <2>1 DEF WalkAt
  <2>3. CASE m = 0
    BY <1>2, <2>1, <2>3, UsePhase
  <2>4. CASE m # 0
    BY <1>2, <2>1, <2>2, <2>4, WalkPhase
  <2> QED BY <2>3, <2>4
<1>5. CASE /\ work = <<Add(OP_POP)>>
           /\ Leaves(nodes)[e] <= MaxConst
           /\ \E p : Computed(e, p) /\ UsesNearly(form, p)
  BY <1>2, <1>5, LastPhase
<1> QED BY <1>1, <1>2, <1>3, <1>4, <1>5 DEF Built


-----------------------------------------------------------------------------
\* The VM runs the trace.

LEMMA ExecWhich ==
  ASSUME Exec
  PROVE  /\ status = "running"
         /\ code[ip] = OP_CONST => ExecConst \/ ExecStop
         /\ code[ip] \in UnaryOps => ExecUnary \/ ExecStop
         /\ code[ip] \in BinaryOps => ExecBinary \/ ExecStop
         /\ code[ip] = OP_PRINT => ExecPrint \/ ExecStop
         /\ code[ip] = OP_POP => ExecPop \/ ExecStop
         /\ code[ip] = OP_DEFINE_LOCAL => ExecDefine \/ ExecStop
<1>1. PICK op : op = code[ip]
  OBVIOUS
<1>2. /\ ExecNop => op = OP_NOP
      /\ ExecConst => op = OP_CONST
      /\ ExecUnary => op \in UnaryOps
      /\ ExecBinary => op \in BinaryOps
      /\ ExecPrint => op = OP_PRINT
      /\ ExecPop => op = OP_POP
      /\ ExecRet => op = OP_RET
      /\ ExecEof => op = OP_EOF
      /\ ExecDefine => op \in DefineOps
  BY <1>1 DEF ExecNop, ExecConst, ExecUnary, ExecBinary, ExecPrint, ExecPop,
     ExecRet, ExecEof, ExecDefine, Fetch
<1>3. status = "running"
  BY DEF Exec, ExecNop, ExecConst, ExecUnary, ExecBinary, ExecPrint, ExecPop,
     ExecRet, ExecEof, ExecDefine, ExecStop, Fetch
<1>4. ASSUME op = OP_CONST
      PROVE  ExecConst \/ ExecStop
  <2>1. /\ op # OP_NOP /\ op # OP_PRINT /\ op # OP_POP /\ op # OP_RET /\ op # OP_EOF
        /\ op \notin UnaryOps /\ op \notin BinaryOps /\ op \notin DefineOps
    BY <1>4 DEF OP_NOP, OP_CONST, OP_POP, OP_NOT, OP_NEG, OP_ADD, OP_SUB,
       OP_MULT, OP_DIV, OP_OR, OP_AND, OP_CMP, OP_PRINT, OP_DEFINE_GLOBAL,
       OP_DEFINE_LOCAL, OP_RET, OP_EOF, UnaryOps, BinaryOps, ArithOps, DefineOps
  <2> QED BY <1>2, <2>1, Zenon DEF Exec
<1>5. ASSUME op \in UnaryOps
      PROVE  ExecUnary \/ ExecStop
  <2>1. /\ op # OP_NOP /\ op # OP_CONST /\ op # OP_PRINT /\ op # OP_POP /\ op # OP_RET
        /\ op # OP_EOF /\ op \notin BinaryOps /\ op \notin DefineOps
    BY <1>5 DEF OP_NOP, OP_CONST, OP_POP, OP_NOT, OP_NEG, OP_ADD, OP_SUB,
       OP_MULT, OP_DIV, OP_OR, OP_AND, OP_CMP, OP_PRINT, OP_DEFINE_GLOBAL,
       OP_DEFINE_LOCAL, OP_RET, OP_EOF, UnaryOps, BinaryOps, ArithOps, DefineOps
  <2> QED BY <1>2, <2>1, Zenon DEF Exec
<1>6. ASSUME op \in BinaryOps
      PROVE  ExecBinary \/ ExecStop
  <2>1. /\ op # OP_NOP /\ op # OP_CONST /\ op # OP_PRINT /\ op # OP_POP /\ op # OP_RET
        /\ op # OP_EOF /\ op \notin UnaryOps /\ op \notin DefineOps
    BY <1>6 DEF OP_NOP, OP_CONST, OP_POP, OP_NOT, OP_NEG, OP_ADD, OP_SUB,
       OP_MULT, OP_DIV, OP_OR, OP_AND, OP_CMP, OP_PRINT, OP_DEFINE_GLOBAL,
       OP_DEFINE_LOCAL, OP_RET, OP_EOF, UnaryOps, BinaryOps, ArithOps, DefineOps
  <2> QED BY <1>2, <2>1, Zenon DEF Exec
<1>7. ASSUME op = OP_PRINT
      PROVE  ExecPrint \/ ExecStop
  <2>1. /\ op # OP_NOP /\ op # OP_CONST /\ op # OP_POP /\ op # OP_RET /\ op # OP_EOF
        /\ op \notin UnaryOps /\ op \notin BinaryOps /\ op \notin DefineOps
    BY <1>7 DEF OP_NOP, OP_CONST, OP_POP, OP_NOT, OP_NEG, OP_ADD, OP_SUB,
       OP_MULT, OP_DIV, OP_OR, OP_AND, OP_CMP, OP_PRINT, OP_DEFINE_GLOBAL,
       OP_DEFINE_LOCAL, OP_RET, OP_EOF, UnaryOps, BinaryOps, ArithOps, DefineOps
  <2> QED BY <1>2, <2>1, Zenon DEF Exec
<1>8. ASSUME op = OP_POP
      PROVE  ExecPop \/ ExecStop
  <2>1. /\ op # OP_NOP /\ op # OP_CONST /\ op # OP_PRINT /\ op # OP_RET /\ op # OP_EOF
        /\ op \notin UnaryOps /\ op \notin BinaryOps /\ op \notin DefineOps
    BY <1>8 DEF OP_NOP, OP_CONST, OP_POP, OP_NOT, OP_NEG, OP_ADD, OP_SUB,
       OP_MULT, OP_DIV, OP_OR, OP_AND, OP_CMP, OP_PRINT, OP_DEFINE_GLOBAL,
       OP_DEFINE_LOCAL, OP_RET, OP_EOF, UnaryOps, BinaryOps, ArithOps, DefineOps
  <2> QED BY <1>2, <2>1, Zenon DEF Exec
<1>9. ASSUME op = OP_DEFINE_LOCAL
      PROVE  ExecDefine \/ ExecStop
  <2>1. /\ op # OP_NOP /\ op # OP_CONST /\ op # OP_PRINT /\ op # OP_POP /\ op # OP_RET
        /\ op # OP_EOF /\ op \notin UnaryOps /\ op \notin BinaryOps
    BY <1>9 DEF OP_NOP, OP_CONST, OP_POP, OP_NOT, OP_NEG, OP_ADD, OP_SUB,
       OP_MULT, OP_DIV, OP_OR, OP_AND, OP_CMP, OP_PRINT, OP_DEFINE_GLOBAL,
       OP_DEFINE_LOCAL, OP_RET, OP_EOF, UnaryOps, BinaryOps, ArithOps, DefineOps
  <2> QED BY <1>2, <2>1, Zenon DEF Exec
<1> QED BY <1>1, <1>3, <1>4, <1>5, <1>6, <1>7, <1>8, <1>9, Zenon

\* The top of a stack is replaced.
LEMMA TopReplaced ==
  ASSUME NEW S, NEW r \in Seq(S), NEW a \in S, NEW b \in S,
         NEW s, s = Append(r, a)
  PROVE  [s EXCEPT ![Len(s)] = b] = Append(r, b)
<1>1. /\ s \in Seq(S) /\ Len(s) = Len(r) + 1 /\ Len(r) \in Nat
      /\ \A i \in 1 .. Len(r) : s[i] = r[i]
  BY AppendProperties, LenProperties
<1>2. PICK t : t = [s EXCEPT ![Len(s)] = b]
  OBVIOUS
<1>3. PICK u : u = Append(r, b)
  OBVIOUS
<1>4. /\ u \in Seq(S) /\ Len(u) = Len(r) + 1
      /\ (\A i \in 1 .. Len(r) : u[i] = r[i]) /\ u[Len(r) + 1] = b
  BY <1>3, AppendProperties
<1>5. t \in Seq(S) /\ Len(t) = Len(s)
      /\ (\A i \in 1 .. Len(r) : t[i] = s[i]) /\ t[Len(r) + 1] = b
  <2>1. PICK k : k = Len(s)
    OBVIOUS
  <2>2. s \in Seq(S) /\ k \in 1 .. Len(s) /\ t = [s EXCEPT ![k] = b]
    BY <1>1, <1>2, <2>1
  <2>5. DOMAIN s = 1 .. Len(s)
    BY <2>2
  <2>3. /\ t \in Seq(S) /\ Len(t) = Len(s)
        /\ \A j \in 1 .. Len(s) : t[j] = IF j = k THEN b ELSE s[j]
    <3>1. t \in Seq(S)
      BY <2>2, ExceptSeq
    <3>2. Len(t) = Len(s)
      BY <2>2, ExceptSeq
    <3>3. \A j \in 1 .. Len(s) : t[j] = IF j = k THEN b ELSE s[j]
      BY <2>2, <2>5
    <3> QED BY <3>1, <3>2, <3>3
  <2>4. \A i \in 1 .. Len(r) : i \in 1 .. Len(s) /\ i # k
    BY <1>1, <2>1
  <2> QED BY <1>1, <2>1, <2>2, <2>3, <2>4
<1>6. \A i \in 1 .. Len(u) : t[i] = u[i]
  BY <1>1, <1>4, <1>5
<1>7. t = u
  BY <1>1, <1>4, <1>5, <1>6, SeqEqual
<1> QED BY <1>2, <1>3, <1>7

LEMMA InstrStep ==
  ASSUME GenInv, Exec, NEW e, NEW q, NEW t,
         Instr(code, constants, nodes, e, ip, stack, q, t)
  PROVE  \/ /\ status' = "running" /\ ip' = q /\ stack' = t
            /\ icount' = icount + 1 /\ icount < MaxIcount
            /\ UNCHANGED <<chunkVars, globals, localvar_stack, printed>>
         \/ /\ status' = "SIGFPE" /\ MayTrap(nodes)[e]
            /\ UNCHANGED <<chunkVars, execVars>>
         \/ /\ status' = "INF_LOOP" /\ icount >= MaxIcount
            /\ UNCHANGED <<chunkVars, execVars>>
<1>1. /\ code \in Seq(Nat) /\ constants \in Seq(Value)
      /\ Len(code) \in Nat /\ Len(constants) \in Nat
  BY BuildTypes
<1>2. stack \in Seq(Value) /\ icount \in Nat /\ MaxIcount \in Nat /\ ip \in 1 .. Len(code)
  BY MaxIcountAssumption DEF Instr, GenInv, VMInv, VMTypeOK
<1>3. CASE ExecStop
  <2>1. ~ (ip > Len(code))
    BY <1>1, <1>2
  <2> QED BY <1>3, <2>1 DEF ExecStop
<1>4. CASE ~ ExecStop /\ code[ip] = OP_CONST
  <2>1. ExecConst /\ icount < MaxIcount
    BY <1>4, ExecWhich DEF ExecConst, Fetch
  <2>2. /\ ip + 1 \in 1 .. Len(code) /\ code[ip + 1] + 1 \in 1 .. Len(constants)
        /\ q = ip + 2 /\ t = Append(stack, constants[code[ip + 1] + 1])
    BY <1>4 DEF Instr, Applies, OP_CONST, UnaryOps, BinaryOps, ArithOps, OP_NOT,
       OP_NEG, OP_ADD, OP_SUB, OP_MULT, OP_DIV, OP_OR, OP_AND, OP_CMP
  <2>3. Operand < Len(constants)
    <3>1. code[ip + 1] \in Nat
      BY <1>1, <2>2, ElementOfSeq
    <3> QED BY <1>1, <2>2, <3>1 DEF Operand
  <2>4. t # << >>
    <3>1. constants[code[ip + 1] + 1] \in Value
      BY <1>1, <2>2, ElementOfSeq
    <3> QED BY <1>2, <2>2, <3>1, FrontLastAppend
  <2> QED BY <2>1, <2>2, <2>3, <2>4 DEF ExecConst, Require, Retire, PrintOp,
       Operand
<1>5. CASE ~ ExecStop /\ code[ip] # OP_CONST
  <2>1. q = ip + 1 /\ Applies(nodes, e, code[ip], stack, t)
    BY <1>5 DEF Instr
  <2>2. CASE code[ip] \in UnaryOps
    <3>1. ExecUnary /\ icount < MaxIcount
      BY <1>5, <2>2, ExecWhich DEF ExecUnary, Fetch
    <3>2. code[ip] \notin BinaryOps
      BY <2>2 DEF UnaryOps, BinaryOps, ArithOps, OP_NOT, OP_NEG, OP_ADD, OP_SUB,
         OP_MULT, OP_DIV, OP_OR, OP_AND, OP_CMP
    <3>3. PICK r \in Seq(Value), A \in Value :
            stack = Append(r, A) /\ t = Append(r, UnaryVal(code[ip], A))
      BY <2>1, <3>2 DEF Applies
    <3>4. UnaryVal(code[ip], A) \in Value
      BY <2>2, UnaryValType
    <3>5. stack # << >> /\ stack[Len(stack)] = A
      BY <3>3, FrontLastAppend DEF Last
    <3>6. [stack EXCEPT ![Len(stack)] = UnaryVal(code[ip], @)] = t
      <4>1. PICK b : b = UnaryVal(code[ip], A)
        OBVIOUS
      <4>2. [stack EXCEPT ![Len(stack)] = b] = Append(r, b)
        BY <3>3, <3>4, <4>1, TopReplaced
      <4> QED BY <3>3, <3>5, <4>1, <4>2
    <3>7. t # << >>
      BY <3>3, <3>4, FrontLastAppend
    <3> QED BY <2>1, <3>1, <3>5, <3>6, <3>7 DEF ExecUnary, Retire, PrintOp
  <2>3. CASE code[ip] \in BinaryOps
    <3>1. ExecBinary /\ icount < MaxIcount
      BY <1>5, <2>3, ExecWhich DEF ExecBinary, Fetch
    <3>2. code[ip] \notin UnaryOps
      BY <2>3 DEF UnaryOps, BinaryOps, ArithOps, OP_NOT, OP_NEG, OP_ADD, OP_SUB,
         OP_MULT, OP_DIV, OP_OR, OP_AND, OP_CMP
    <3>3. PICK r \in Seq(Value), A \in Value, B \in Value :
            /\ stack = Append(Append(r, A), B)
            /\ t = Append(r, BinaryVal(code[ip], A, B))
            /\ IntDivByZero(code[ip], A, B) => MayTrap(nodes)[e]
      BY <2>1, <3>2 DEF Applies
    <3>4. BinaryVal(code[ip], A, B) \in Value
      BY <2>3, BinaryValType
    <3>5. /\ Front(stack) = Append(r, A) /\ Last(stack) = B
          /\ Front(Append(r, A)) = r /\ Last(Append(r, A)) = A
          /\ Len(stack) >= 2
      <4>1. /\ Append(r, A) \in Seq(Value) /\ Len(Append(r, A)) = Len(r) + 1
            /\ Front(Append(r, A)) = r /\ Last(Append(r, A)) = A
            /\ Len(r) \in Nat
        BY FrontLastAppend, LenProperties
      <4>2. /\ Front(stack) = Append(r, A) /\ Last(stack) = B
            /\ Len(stack) = Len(Append(r, A)) + 1
        BY <3>3, <4>1, FrontLastAppend
      <4> QED BY <4>1, <4>2
    <3>6. t # << >>
      BY <3>3, <3>4, FrontLastAppend
    <3>7. \/ /\ Retire(1, t, "running")
             /\ UNCHANGED <<chunkVars, globals, localvar_stack, printed>>
          \/ IntDivByZero(code[ip], A, B) /\ Die("SIGFPE")
      BY <3>1, <3>3, <3>5 DEF ExecBinary, Require
    <3> QED BY <2>1, <3>1, <3>3, <3>6, <3>7 DEF Retire, PrintOp, Die
  <2> QED BY <2>1, <2>2, <2>3 DEF Applies
<1> QED BY <1>3, <1>4, <1>5

-----------------------------------------------------------------------------
\* The phases of a statement that its VM goes through.

\* What stays while a statement runs.
LEMMA SameStmt ==
  ASSUME UNCHANGED genVars
  PROVE  /\ UNCHANGED <<nodes, stmts, cur, work, mark>>
         /\ Ass' = Ass
         /\ \A form, e : Simple(form, e)' <=> Simple(form, e)
<1>1. UNCHANGED <<nodes, stmts, cur, work, mark>>
  BY DEF genVars
<1>2. Ass' = Ass /\ Stmt' = Stmt
  BY <1>1 DEF Ass, Stmt
<1> QED BY <1>1, <1>2 DEF Simple

LEMMA ReadyKept ==
  ASSUME GenInv, GenInv', UNCHANGED genVars, NEW form \in Forms, NEW e,
         Ready(form, e), Extends(code', code), Extends(constants', constants)
  PROVE  Ready(form, e)'
<1>1. PICK p : Computed(e, p) /\ Uses(form, p)
  BY DEF Ready
<1>2. /\ Len(code) \in Nat /\ Len(constants) \in Nat
      /\ Len(code') \in Nat /\ Len(constants') \in Nat
  <2>1. /\ code' \in Seq(Nat) /\ constants' \in Seq(Value)
    BY DEF GenInv, VMInv, VMTypeOK, ChunkTypeOK
  <2> QED BY <2>1, BuildTypes, LenProperties
<1>3. UNCHANGED <<nodes, stmts, cur>>
  BY SameStmt
<1>4. Computed(e, p)'
  BY <1>1, <1>3, ComputedKept
<1>5. Uses(form, p)'
  BY <1>1, <1>2, <1>3, UsesKept
<1>6. Leaves(nodes')[e] <= MaxConst
  BY <1>3 DEF Ready
<1> QED BY <1>3, <1>4, <1>5, <1>6 DEF Ready

LEMMA SameExtends ==
  ASSUME GenInv, UNCHANGED <<code, constants>>
  PROVE  Extends(code', code) /\ Extends(constants', constants)
BY BuildTypes DEF Extends

\* VM vm(exprcode): finalize only adds words.
LEMMA ConstructPhase ==
  ASSUME GenInv, GenInv', Construct, work = << >>, UNCHANGED genVars,
         NEW form \in Forms, NEW e, Simple(form, e), Phase(form, e)
  PROVE  Phase(form, e)'
<1>1. status = "building" /\ Quiet /\ Built(form, e)
  BY DEF Construct, Phase
<1>2. Len(work) = 0
  OBVIOUS
<1>3. ~ Walking(e, After(form))
  <2>1. Len(After(form)) \in Nat \ {0}
    BY SimpleFacts DEF Forms
  <2>2. ASSUME NEW m, NEW n, NEW s, WalkAt(e, After(form), m, n, s)
        PROVE  FALSE
    <3>1. m \in Nat /\ Len(work) = m + Len(After(form))
      BY <2>2 DEF WalkAt
    <3> QED BY <1>2, <2>1, <3>1
  <2> QED BY <2>2 DEF Walking
<1>4. Ready(form, e)
  <2>1. << >> # <<Gen(Stmt), Add(OP_POP)>> /\ << >> # <<Add(OP_POP)>>
    OBVIOUS
  <2> QED BY <1>1, <1>3, <2>1 DEF Built
<1>5. code # << >>
  <2>1. PICK p : Uses(form, p)
    BY <1>4 DEF Ready
  <2> QED BY <2>1 DEF Uses
<1>6. /\ finalize /\ status' = "listing" /\ UNCHANGED printed
  BY <1>5 DEF Construct, Require
<1>7. UNCHANGED constants /\ Extends(constants', constants)
  BY <1>6, BuildTypes DEF finalize, Extends
<1>8. Extends(code', code)
  <2>1. CASE code' = code \o <<OP_RET, OP_EOF>>
    <3>1. <<OP_RET, OP_EOF>> \in Seq(Nat)
      BY DEF OP_RET, OP_EOF
    <3> QED BY <2>1, <3>1, BuildTypes, GrowsBy
  <2>2. CASE code' = code
    BY <2>2, BuildTypes DEF Extends
  <2> QED BY <1>6, <2>1, <2>2 DEF finalize
<1>9. Ready(form, e)'
  BY <1>4, <1>7, <1>8, ReadyKept
<1>10. Quiet'
  BY <1>1, <1>6, SameStmt DEF Quiet
<1> QED BY <1>6, <1>9, <1>10 DEF Phase, Returned, Died

\* list() only reads.
LEMMA ListPhase ==
  ASSUME GenInv, GenInv', ListInstr, UNCHANGED genVars,
         NEW form \in Forms, NEW e, Simple(form, e), Phase(form, e)
  PROVE  Phase(form, e)'
<1>1. status = "listing" /\ ip <= Len(code) /\ Quiet /\ Ready(form, e)
  BY DEF ListInstr, Phase
<1>2. TakesOperand(code[ip]) => Operand < Len(constants)
  BY <1>1, Decode DEF GenInv
<1>3. UNCHANGED <<code, constants, status, printed>>
  BY <1>2 DEF ListInstr, Require, chunkVars
<1>4. Ready(form, e)'
  BY <1>1, <1>3, ReadyKept, SameExtends
<1>5. Quiet'
  BY <1>1, <1>3, SameStmt DEF Quiet
<1> QED BY <1>1, <1>3, <1>4, <1>5 DEF Phase, Returned, Died

\* run() starts at the first word, with the null on the stack.
LEMMA StartExecPhase ==
  ASSUME GenInv, GenInv', StartExec, UNCHANGED genVars,
         NEW form \in Forms, NEW e, Simple(form, e), Phase(form, e)
  PROVE  Phase(form, e)'
<1>1. status = "listing" /\ Quiet /\ Ready(form, e)
  BY DEF StartExec, Phase
<1>2. /\ status' = "running" /\ ip' = 1 /\ icount' = 0 /\ stack' = <<Null>>
      /\ globals' = NoVars /\ localvar_stack' = <<NoVars>>
      /\ UNCHANGED <<code, constants, printed>>
  BY DEF StartExec, chunkVars
<1>3. Ready(form, e)'
  BY <1>1, <1>2, ReadyKept, SameExtends
<1>4. PICK p : Computed(e, p)' /\ Uses(form, p)'
  BY <1>3 DEF Ready
<1>5. OnTrack(e, 0, p)'
  <2>1. PICK at, stk :
          /\ Trace(code', constants', nodes', e, Size(nodes')[e], at, stk)
          /\ at[Size(nodes')[e]] = p
          /\ stk[Size(nodes')[e]] = <<Null, Eval(nodes')[e]>>
    BY <1>4 DEF Computed, Reaches
  <2>2. at[0] = 1 /\ stk[0] = <<Null>>
    BY <2>1 DEF Trace
  <2>3. Size(nodes')[e] \in Nat
    BY SimpleFacts, SameStmt
  <2>4. 0 \in 0 .. Size(nodes')[e] /\ ip' = at[0] /\ stack' = stk[0]
    BY <1>2, <2>2, <2>3
  <2> QED BY <2>1, <2>4 DEF OnTrack
<1>6. Quiet'
  BY <1>1, <1>2, SameStmt DEF Quiet
<1>7. OnTrack(e, icount, p)'
  BY <1>2, <1>5 DEF OnTrack
<1>8. Running(form, e)'
  BY <1>2, <1>3, <1>4, <1>6, <1>7 DEF Running, Ready
<1> QED BY <1>2, <1>8 DEF Phase, Returned, Died

LEMMA SameUses ==
  ASSUME UNCHANGED genVars, UNCHANGED chunkVars, NEW form, NEW e, NEW i, NEW p
  PROVE  /\ Uses(form, p)' <=> Uses(form, p)
         /\ Leaves(nodes')[e] = Leaves(nodes)[e]
         /\ Size(nodes')[e] = Size(nodes)[e]
         /\ Eval(nodes')[e] = Eval(nodes)[e]
         /\ MayTrap(nodes')[e] = MayTrap(nodes)[e]
<1>1. Ass' = Ass /\ UNCHANGED <<code, constants, nodes>>
  BY SameStmt DEF chunkVars
<1> QED BY <1>1 DEF Uses

\* A step along the trace.
LEMMA TrackPhase ==
  ASSUME GenInv, GenInv', Exec, UNCHANGED genVars,
         NEW form \in Forms, NEW e, Simple(form, e),
         Leaves(nodes)[e] <= MaxConst, Quiet,
         globals = NoVars, localvar_stack = <<NoVars>>,
         NEW p, OnTrack(e, icount, p), Uses(form, p),
         icount < Size(nodes)[e]
  PROVE  Phase(form, e)'
<1> DEFINE n == Size(nodes)[e]
<1>1. PICK at, stk :
        /\ Trace(code, constants, nodes, e, n, at, stk)
        /\ at[n] = p /\ stk[n] = <<Null, Eval(nodes)[e]>>
        /\ icount \in 0 .. n /\ ip = at[icount] /\ stack = stk[icount]
  BY DEF OnTrack
<1>2. n \in Nat \ {0}
  BY SimpleFacts
<1> HIDE DEF n
<1>3. icount \in 0 .. n - 1 /\ icount \in Nat /\ icount < n
      /\ icount + 1 \in 0 .. n
  BY <1>1, <1>2 DEF n
<1>4. Instr(code, constants, nodes, e, ip, stack, at[icount + 1], stk[icount + 1])
  BY <1>1, <1>3 DEF Trace
<1>5. \/ /\ status' = "running" /\ ip' = at[icount + 1]
         /\ stack' = stk[icount + 1] /\ icount' = icount + 1
         /\ UNCHANGED <<chunkVars, globals, localvar_stack, printed>>
      \/ /\ status' = "SIGFPE" /\ MayTrap(nodes)[e]
         /\ UNCHANGED <<chunkVars, execVars>>
      \/ /\ status' = "INF_LOOP" /\ icount >= MaxIcount
         /\ UNCHANGED <<chunkVars, execVars>>
  BY <1>4, InstrStep
<1>6. UNCHANGED chunkVars /\ UNCHANGED <<globals, localvar_stack, printed>>
  BY <1>5 DEF execVars
<1>7. Quiet' /\ UNCHANGED nodes
  BY <1>6, SameStmt DEF Quiet
<1>8. CASE /\ status' = "running" /\ ip' = at[icount + 1]
           /\ stack' = stk[icount + 1] /\ icount' = icount + 1
  <2>1. OnTrack(e, icount, p)'
    <3>1. UNCHANGED <<code, constants>>
      BY <1>6 DEF chunkVars
    <3>2. PICK i : i = icount'
      OBVIOUS
    <3>3. i \in 0 .. n /\ ip' = at[i] /\ stack' = stk[i]
      BY <1>3, <1>8, <3>2
    <3> QED BY <1>1, <1>7, <3>1, <3>2, <3>3 DEF OnTrack, n
  <2>2. Uses(form, p)' /\ Leaves(nodes')[e] <= MaxConst
    BY <1>6, SameUses
  <2>3. Running(form, e)'
    BY <1>6, <1>7, <2>1, <2>2 DEF Running
  <2> QED BY <1>8, <2>3 DEF Phase, Returned, Died
<1>9. CASE status' = "SIGFPE" /\ MayTrap(nodes)[e]
  BY <1>6, <1>7, <1>9, SameUses DEF Phase, Outcome, Returned, Died
<1>10. CASE status' = "INF_LOOP" /\ icount >= MaxIcount
  <2>1. n >= MaxIcount
    BY <1>2, <1>3, <1>10, MaxIcountAssumption
  <2> QED BY <1>6, <1>7, <1>10, <2>1, SameUses
          DEF Phase, Outcome, Returned, Died, n
<1> QED BY <1>5, <1>8, <1>9, <1>10

\* The budget is spent.
LEMMA CutOffPhase ==
  ASSUME GenInv, GenInv', ExecStop, UNCHANGED genVars,
         NEW form \in Forms, NEW e, Simple(form, e), Running(form, e)
  PROVE  Phase(form, e)'
<1>1. /\ Size(nodes)[e] \in Nat /\ icount \in 0 .. MaxIcount /\ MaxIcount \in Nat
      /\ Len(code) \in Nat
  BY SimpleFacts, MaxIcountAssumption, BuildTypes DEF GenInv, VMInv, VMTypeOK
<1>2. ip \in 1 .. Len(code)
  <2>1. CASE \E p : OnTrack(e, icount, p) /\ Uses(form, p)
    <3>1. PICK p : OnTrack(e, icount, p) /\ Uses(form, p)
      BY <2>1
    <3>2. PICK at, stk :
            /\ Trace(code, constants, nodes, e, Size(nodes)[e], at, stk)
            /\ at[Size(nodes)[e]] = p
            /\ icount \in 0 .. Size(nodes)[e] /\ ip = at[icount]
            /\ stack = stk[icount]
      BY <3>1 DEF OnTrack
    <3>3. CASE icount = Size(nodes)[e]
      BY <3>1, <3>2, <3>3 DEF Uses
    <3>4. CASE icount # Size(nodes)[e]
      <4>1. icount \in 0 .. Size(nodes)[e] - 1
        BY <1>1, <3>2, <3>4
      <4> QED BY <3>2, <4>1 DEF Trace, Instr
    <3> QED BY <3>3, <3>4
  <2> QED BY <2>1 DEF Running
<1>3. /\ status' = "INF_LOOP" /\ icount = MaxIcount
      /\ UNCHANGED <<chunkVars, globals, localvar_stack, printed>>
  BY <1>1, <1>2 DEF ExecStop, execVars
<1>4. CASE /\ Quiet /\ globals = NoVars /\ localvar_stack = <<NoVars>>
           /\ \E p : OnTrack(e, icount, p)
  <2>1. icount \in 0 .. Size(nodes)[e]
    BY <1>4 DEF OnTrack
  <2>2. Size(nodes)[e] >= MaxIcount
    BY <1>1, <1>3, <2>1
  <2>3. Quiet'
    BY <1>3, <1>4, SameStmt DEF Quiet
  <2> QED BY <1>3, <1>4, <2>2, <2>3, SameUses
          DEF Running, Phase, Outcome, Returned, Died
<1>5. CASE /\ form = "print" /\ icount = Size(nodes)[e] + 1
           /\ Spoken(Eval(nodes)[e])
  <2>1. Spoken(Eval(nodes)[e])'
    BY <1>3, <1>5, SameStmt DEF Spoken
  <2> QED BY <1>3, <1>5, <2>1, SameUses
          DEF Running, Phase, Outcome, Returned, Died
<1> QED BY <1>4, <1>5 DEF Running

\* The value is on the stack and ip at the words that use it.
LEMMA AtItsUse ==
  ASSUME GenInv, NEW form \in Forms, NEW e, Simple(form, e), NEW p,
         OnTrack(e, icount, p), Uses(form, p), icount >= Size(nodes)[e]
  PROVE  /\ icount = Size(nodes)[e] /\ ip = p
         /\ stack = <<Null, Eval(nodes)[e]>>
         /\ stack # << >> /\ Front(stack) = <<Null>> /\ <<Null>> # << >>
         /\ Last(stack) = Eval(nodes)[e]
<1>1. Size(nodes)[e] \in Nat /\ Eval(nodes)[e] \in Value /\ Null \in Value
  BY SimpleFacts, ValueKinds
<1>2. icount \in 0 .. Size(nodes)[e]
  BY DEF OnTrack
<1>3. icount = Size(nodes)[e]
  BY <1>1, <1>2
<1>4. ip = p /\ stack = <<Null, Eval(nodes)[e]>>
  BY <1>3 DEF OnTrack
<1>5. <<Null, Eval(nodes)[e]>> = Append(<<Null>>, Eval(nodes)[e])
  BY <1>1
<1>6. /\ Front(Append(<<Null>>, Eval(nodes)[e])) = <<Null>>
      /\ Last(Append(<<Null>>, Eval(nodes)[e])) = Eval(nodes)[e]
      /\ Append(<<Null>>, Eval(nodes)[e]) # << >>
  <2>1. <<Null>> \in Seq(Value)
    BY <1>1
  <2> QED BY <1>1, <2>1, FrontLastAppend
<1> QED BY <1>3, <1>4, <1>5, <1>6

LEMMA PopPhase ==
  ASSUME GenInv, GenInv', Exec, ~ ExecStop, UNCHANGED genVars,
         NEW e, Simple("pop", e), Leaves(nodes)[e] <= MaxConst, Quiet,
         NEW p, OnTrack(e, icount, p), Uses("pop", p),
         icount >= Size(nodes)[e]
  PROVE  Phase("pop", e)'
<1>1. /\ icount = Size(nodes)[e] /\ ip = p /\ stack # << >>
      /\ Front(stack) = <<Null>> /\ <<Null>> # << >>
  BY AtItsUse DEF Forms
<1>2. ExecPop
  BY <1>1, ExecWhich DEF Uses
<1>3. /\ status' = "OK" /\ icount < MaxIcount
      /\ UNCHANGED <<chunkVars, globals, localvar_stack, printed>>
  BY <1>1, <1>2 DEF ExecPop, Fetch, Require, Retire, PrintOp
<1>4. Quiet'
  BY <1>3, SameStmt DEF Quiet
<1> QED BY <1>1, <1>3, <1>4, SameUses DEF Phase, Outcome, Returned, Died

LEMMA PrintPhase ==
  ASSUME GenInv, GenInv', Exec, ~ ExecStop, UNCHANGED genVars,
         NEW e, Simple("print", e), Leaves(nodes)[e] <= MaxConst, Quiet,
         NEW p, OnTrack(e, icount, p), Uses("print", p),
         icount >= Size(nodes)[e]
  PROVE  Phase("print", e)'
<1>1. /\ icount = Size(nodes)[e] /\ ip = p /\ stack # << >>
      /\ Front(stack) = <<Null>> /\ <<Null>> # << >>
      /\ Last(stack) = Eval(nodes)[e]
  BY AtItsUse DEF Forms
<1>2. ExecPrint
  BY <1>1, ExecWhich DEF Uses
<1>3. /\ status' = "running" /\ icount' = icount + 1 /\ ip' = ip + 1
      /\ stack' = <<Null>> /\ printed' = Append(printed, Eval(nodes)[e])
      /\ UNCHANGED chunkVars
  BY <1>1, <1>2 DEF ExecPrint, Fetch, Require, Retire, PrintOp
<1>4. Spoken(Eval(nodes)[e])'
  <2>1. printed \in Seq(Value) /\ Eval(nodes)[e] \in Value
    BY SimpleFacts DEF GenInv, VMInv, VMTypeOK, Forms
  <2>2. /\ Len(Append(printed, Eval(nodes)[e])) = Len(printed) + 1
        /\ Append(printed, Eval(nodes)[e])[Len(printed) + 1] = Eval(nodes)[e]
    BY <2>1, AppendProperties
  <2>3. mark' = mark /\ mark = Len(printed) /\ Eval(nodes')[e] = Eval(nodes)[e]
    BY SameStmt DEF Quiet
  <2> QED BY <1>3, <2>2, <2>3 DEF Spoken
<1>5. ip' \in 1 .. Len(code') /\ code'[ip'] = OP_POP
  BY <1>1, <1>3 DEF Uses, chunkVars
<1>6. icount' = Size(nodes')[e] + 1 /\ Leaves(nodes')[e] <= MaxConst
  BY <1>1, <1>3, SameUses
<1>7. Running("print", e)'
  BY <1>3, <1>4, <1>5, <1>6 DEF Running
<1> QED BY <1>3, <1>7 DEF Phase, Returned, Died

\* The OP_POP after an OP_PRINT: nothing is left, printOp() reads garbage.
LEMMA PrintedPhase ==
  ASSUME GenInv, GenInv', Exec, ~ ExecStop, UNCHANGED genVars,
         NEW e, Simple("print", e), Leaves(nodes)[e] <= MaxConst,
         icount = Size(nodes)[e] + 1, stack = <<Null>>,
         ip \in 1 .. Len(code), code[ip] = OP_POP, Spoken(Eval(nodes)[e])
  PROVE  Phase("print", e)'
<1>1. ExecPop
  BY ExecWhich
<1>2. /\ status' \in {"OK", "CRASH"} /\ icount < MaxIcount
      /\ UNCHANGED <<chunkVars, globals, localvar_stack, printed>>
  <2>1. stack # << >>
    OBVIOUS
  <2> QED BY <1>1, <2>1 DEF ExecPop, Fetch, Require, Retire, PrintOp
<1>3. Spoken(Eval(nodes)[e])'
  BY <1>2, SameStmt DEF Spoken
<1>4. Size(nodes)[e] < MaxIcount /\ Size(nodes)[e] + 1 < MaxIcount
  <2>1. Size(nodes)[e] \in Nat
    BY SimpleFacts DEF Forms
  <2> QED BY <1>2, <2>1, MaxIcountAssumption
<1> QED BY <1>2, <1>3, <1>4, SameUses DEF Phase, Outcome, Returned, Died

LEMMA FirstFrame ==
  ASSUME NEW name, NEW val
  PROVE  Put(NoVars, name, val) = [n \in {name} |-> val]
<1>1. DOMAIN NoVars = {}
  BY DEF NoVars
<1>2. {} \cup {name} = {name}
  OBVIOUS
<1> QED BY <1>1, <1>2 DEF Put

LEMMA BindPhase ==
  ASSUME GenInv, GenInv', Exec, ~ ExecStop, UNCHANGED genVars,
         NEW e, Simple("bind", e), Leaves(nodes)[e] <= MaxConst, Quiet,
         globals = NoVars, localvar_stack = <<NoVars>>,
         NEW p, OnTrack(e, icount, p), Uses("bind", p),
         icount >= Size(nodes)[e]
  PROVE  Phase("bind", e)'
<1> DEFINE name == nodes[Ass.kids[1]].lit.str
<1>1. /\ icount = Size(nodes)[e] /\ ip = p /\ stack # << >>
      /\ Front(stack) = <<Null>> /\ <<Null>> # << >>
      /\ Last(stack) = Eval(nodes)[e]
  BY AtItsUse DEF Forms
<1>2. /\ code[ip] = OP_DEFINE_LOCAL /\ Operand + 1 \in 1 .. Len(constants)
      /\ constants[Operand + 1] = nodes[Ass.kids[1]].lit
  BY <1>1 DEF Uses, Operand
<1>3. isString(nodes[Ass.kids[1]].lit)
  <2>1. Ass.kids[1] \in DOMAIN nodes /\ nodes[Ass.kids[1]].kind = "Name"
    BY SimpleFacts DEF Forms, Simple
  <2> QED BY <2>1, BuildTypes DEF Heap, LeafKinds
<1>4. Operand < Len(constants)
  <2>1. ip \in 1 .. Len(code)
    BY <1>1 DEF Uses
  <2>2. status = "running" /\ TakesOperand(code[ip])
    BY <1>2, ExecWhich DEF TakesOperand, DefineOps
  <2> QED BY <2>1, <2>2, BuildTypes, Decode DEF GenInv
<1>5. ExecDefine
  BY <1>2, ExecWhich
<1>6. Define(name) /\ icount < MaxIcount
  BY <1>1, <1>2, <1>3, <1>4, <1>5 DEF ExecDefine, Require, Fetch
<1>7. PICK nm, v : nm = name /\ v = Eval(nodes)[e]
  OBVIOUS
<1>8. /\ status' = "OK" /\ UNCHANGED <<globals, printed, chunkVars>>
      /\ localvar_stack' =
           [localvar_stack EXCEPT ![Len(localvar_stack)] = Put(@, nm, v)]
  BY <1>1, <1>2, <1>6, <1>7
     DEF Define, Retire, PrintOp, OP_DEFINE_LOCAL, OP_DEFINE_GLOBAL
<1>9. localvar_stack' = <<[n \in {nm} |-> v]>>
  <2>1. PICK w : w = Put(NoVars, nm, v)
    OBVIOUS
  <2>2. Len(localvar_stack) = 1 /\ localvar_stack[1] = NoVars
    OBVIOUS
  <2>3. localvar_stack' = [localvar_stack EXCEPT ![1] = w]
    BY <1>8, <2>1, <2>2
  <2>4. localvar_stack' = <<w>>
    BY <2>3
  <2> QED BY <2>1, <2>4, FirstFrame
<1>10. Quiet' /\ Ass' = Ass /\ UNCHANGED nodes
  BY <1>8, SameStmt DEF Quiet
<1>11. localvar_stack' =
         <<[n \in {nodes'[Ass'.kids[1]].lit.str} |-> Eval(nodes')[e]]>>
  BY <1>7, <1>9, <1>10
<1>12. globals' = NoVars /\ Size(nodes')[e] < MaxIcount
       /\ Leaves(nodes')[e] <= MaxConst
  BY <1>1, <1>6, <1>8, <1>10
<1> QED BY <1>8, <1>10, <1>11, <1>12 DEF Phase, Outcome, Returned, Died

LEMMA ExecPhase ==
  ASSUME GenInv, GenInv', Exec, UNCHANGED genVars,
         NEW form \in Forms, NEW e, Simple(form, e), Phase(form, e)
  PROVE  Phase(form, e)'
<1>1. Running(form, e)
  BY ExecWhich DEF Phase
<1>2. CASE ExecStop
  BY <1>1, <1>2, CutOffPhase
<1>3. CASE /\ ~ ExecStop /\ Quiet /\ globals = NoVars
           /\ localvar_stack = <<NoVars>>
           /\ \E p : OnTrack(e, icount, p) /\ Uses(form, p)
  <2>1. PICK p : OnTrack(e, icount, p) /\ Uses(form, p)
    BY <1>3
  <2>2. CASE icount < Size(nodes)[e]
    BY <1>1, <1>3, <2>1, <2>2, TrackPhase DEF Running
  <2>3. CASE ~ (icount < Size(nodes)[e])
    <3>1. icount >= Size(nodes)[e]
      <4>1. Size(nodes)[e] \in Nat /\ icount \in Nat
        BY SimpleFacts, MaxIcountAssumption DEF GenInv, VMInv, VMTypeOK
      <4> QED BY <2>3, <4>1
    <3>2. CASE form = "pop"
      BY <1>1, <1>3, <2>1, <3>1, <3>2, PopPhase DEF Running
    <3>3. CASE form = "print"
      BY <1>1, <1>3, <2>1, <3>1, <3>3, PrintPhase DEF Running
    <3>4. CASE form = "bind"
      BY <1>1, <1>3, <2>1, <3>1, <3>4, BindPhase DEF Running
    <3> QED BY <3>2, <3>3, <3>4 DEF Forms
  <2> QED BY <2>2, <2>3
<1>4. CASE /\ ~ ExecStop /\ form = "print"
           /\ icount = Size(nodes)[e] + 1 /\ stack = <<Null>>
           /\ ip \in 1 .. Len(code) /\ code[ip] = OP_POP
           /\ Spoken(Eval(nodes)[e])
  BY <1>1, <1>4, PrintedPhase DEF Running
<1> QED BY <1>1, <1>2, <1>3, <1>4 DEF Running

-----------------------------------------------------------------------------
\* The phases are an invariant of genCode.

LEMMA BeginPhase ==
  ASSUME GenInv, BeginStmt, NEW form \in Forms, NEW e
  PROVE  Phase(form, e)'
<1>1. /\ status' = "building" /\ code' = << >> /\ constants' = << >>
      /\ work' = <<Gen(stmts[cur + 1]), Add(OP_POP)>>
      /\ mark' = Len(printed) /\ UNCHANGED <<printed, stmts>> /\ cur' = cur + 1
  BY DEF BeginStmt, newChunk
<1>2. Quiet' /\ Built(form, e)'
  BY <1>1 DEF Quiet, Built, Stmt
<1> QED BY <1>1, <1>2 DEF Phase, Returned, Died

LEMMA RunStmtSplit ==
  ASSUME GenInv, RunStmt
  PROVE  /\ work = << >> /\ UNCHANGED genVars
         /\ Construct \/ ListInstr \/ StartExec \/ Exec
BY DEF RunStmt, VMNext

LEMMA StepSimple ==
  ASSUME GenInv, GenInv', SimpleInv, [Next]_vars
  PROVE  SimpleInv'
<1> SUFFICES ASSUME NEW form \in Forms, NEW e, Simple(form, e)'
             PROVE  Phase(form, e)'
  BY DEF SimpleInv
<1>1. CASE BeginStmt
  BY <1>1, BeginPhase
<1>2. CASE Codegen
  <2>1. Simple(form, e)
    <3>1. UNCHANGED <<nodes, stmts, cur>>
      BY <1>2, CodegenFrame
    <3>2. Ass' = Ass /\ Stmt' = Stmt
      BY <3>1 DEF Ass, Stmt
    <3> QED BY <3>1, <3>2 DEF Simple
  <2>2. Phase(form, e)
    BY <2>1 DEF SimpleInv
  <2> QED BY <1>2, <2>1, <2>2, BuildPhase
<1>3. CASE RunStmt
  <2>1. /\ work = << >> /\ UNCHANGED genVars
        /\ Construct \/ ListInstr \/ StartExec \/ Exec
    BY <1>3, RunStmtSplit
  <2>2. Simple(form, e)
    BY <2>1, SameStmt
  <2>3. Phase(form, e)
    BY <2>2 DEF SimpleInv
  <2> QED BY <2>1, <2>2, <2>3, ConstructPhase, ListPhase, StartExecPhase, ExecPhase
<1>4. CASE Finish
  BY <1>4 DEF Finish, Phase, Returned, Died
<1>5. CASE UNCHANGED vars
  <2>1. /\ UNCHANGED <<code, constants, starts, status, ip, stack, icount>>
        /\ UNCHANGED <<globals, localvar_stack, printed>>
        /\ UNCHANGED <<nodes, stmts, cur, work, mark>> /\ UNCHANGED genVars
    BY <1>5 DEF vars, vmVars, chunkVars, execVars, genVars
  <2>2. Simple(form, e) /\ Ass' = Ass /\ Stmt' = Stmt
    BY <2>1, SameStmt DEF Stmt
  <2>3. Phase(form, e)
    BY <2>2 DEF SimpleInv
  <2>4. /\ Quiet' <=> Quiet
        /\ Built(form, e)' <=> Built(form, e)
        /\ Ready(form, e)' <=> Ready(form, e)
    BY <2>1, <2>2 DEF Quiet, Built, Ready, Computed, Uses, UsesNearly,
       Walking, WalkAt, After
  <2>5. Running(form, e)' <=> Running(form, e)
    BY <2>1, <2>2 DEF Running, OnTrack, Uses, Quiet, Spoken
  <2>6. Outcome(form, e)' <=> Outcome(form, e)
    BY <2>1, <2>2 DEF Outcome, Quiet, Spoken
  <2> QED BY <2>1, <2>3, <2>4, <2>5, <2>6 DEF Phase
<1> QED BY <1>1, <1>2, <1>3, <1>4, <1>5 DEF Next

(***************************************************************************)
(* The phases of a statement around a plain tree (SimpleInv) hold in every *)
(* state of genCode's run, for every program, budget and size of the       *)
(* constant table.                                                         *)
(***************************************************************************)
THEOREM CompilerInv == Spec => [](GenInv /\ SimpleInv)
<1>1. Init => SimpleInv
  <2>1. ASSUME Init PROVE cur = 0
    BY <2>1 DEF Init
  <2> QED BY <2>1 DEF SimpleInv, Simple
<1>2. Init => GenInv
  BY GenInitInv
<1>3. GenInv /\ SimpleInv /\ [Next]_vars => GenInv' /\ SimpleInv'
  BY GenStepInv, StepSimple
<1> QED BY <1>1, <1>2, <1>3, PTL DEF Spec

\* Where a plain statement's run stands when ip is at its OP_POP.
LEMMA PopIsLast ==
  ASSUME GenInv, SimpleInv
  PROVE  StmtLeavesItsValue
<1> SUFFICES ASSUME status = "running", PlainStmt, code[ip] = OP_POP
             PROVE  stack = <<Null, Eval(nodes)[Stmt]>>
  BY DEF StmtLeavesItsValue
<1> DEFINE n == Size(nodes)[Stmt]
<1>1. Simple("pop", Stmt) /\ "pop" \in Forms
  <2>1. cur \in 1 .. Len(stmts)
    BY BuildTypes DEF PlainStmt
  <2>2. Stmt \in DOMAIN nodes
    BY <2>1, BuildTypes DEF Stmt
  <2> QED BY <2>1, <2>2 DEF Simple, Forms, PlainStmt
<1>2. Running("pop", Stmt)
  BY <1>1 DEF SimpleInv, Phase
<1>3. PICK p : OnTrack(Stmt, icount, p) /\ Uses("pop", p)
  BY <1>2 DEF Running
<1>4. n \in Nat /\ icount \in Nat
  BY <1>1, SimpleFacts, MaxIcountAssumption DEF GenInv, VMInv, VMTypeOK
<1>5. CASE icount < n
  <2>1. PICK at, stk :
          /\ Trace(code, constants, nodes, Stmt, n, at, stk)
          /\ icount \in 0 .. n /\ ip = at[icount] /\ stack = stk[icount]
    BY <1>3 DEF OnTrack
  <2>2. icount \in 0 .. n - 1
    BY <1>4, <1>5
  <2>3. code[ip] = OP_CONST \/ code[ip] \in UnaryOps \/ code[ip] \in BinaryOps
    BY <2>1, <2>2 DEF Trace, Instr, Applies
  <2> QED BY <2>3 DEF OP_CONST, OP_POP, UnaryOps, BinaryOps, ArithOps, OP_NOT,
          OP_NEG, OP_ADD, OP_SUB, OP_MULT, OP_DIV, OP_OR, OP_AND, OP_CMP
<1>6. CASE icount >= n
  BY <1>1, <1>3, <1>6, AtItsUse
<1> QED BY <1>4, <1>5, <1>6

LEMMA OutcomeOfPlain ==
  ASSUME GenInv, SimpleInv
  PROVE  PlainStmtOutcome
<1> SUFFICES ASSUME PlainStmt
             PROVE  /\ status \notin {"ABORT_POP", "CRASH", "ERR", "ABORT_VAR",
                                      "EXIT"}
                    /\ status \in Returned =>
                         status = IF Size(nodes)[Stmt] < MaxIcount
                                  THEN "OK" ELSE "INF_LOOP"
  BY DEF PlainStmtOutcome
<1>1. Simple("pop", Stmt) /\ "pop" \in Forms
  <2>1. cur \in 1 .. Len(stmts)
    BY BuildTypes DEF PlainStmt
  <2>2. Stmt \in DOMAIN nodes
    BY <2>1, BuildTypes DEF Stmt
  <2> QED BY <2>1, <2>2 DEF Simple, Forms, PlainStmt
<1>2. status \in Returned \cup Died => Outcome("pop", Stmt)
  BY <1>1 DEF SimpleInv, Phase
<1>3. Size(nodes)[Stmt] \in Nat /\ MaxIcount \in Nat
  BY <1>1, SimpleFacts, MaxIcountAssumption
<1> QED BY <1>2, <1>3 DEF Outcome, Returned, Died

LEMMA OutcomeOfVar ==
  ASSUME GenInv, SimpleInv
  PROVE  VarBindsItsValue
<1> DEFINE e == Ass.kids[2]
           bound == [n \in {nodes[Ass.kids[1]].lit.str} |-> Eval(nodes)[e]]
<1> SUFFICES ASSUME PlainVar, status \in Returned
             PROVE  IF Size(nodes)[e] < MaxIcount
                    THEN status = "OK" /\ Scopes = {NoVars, bound}
                    ELSE status = "INF_LOOP" /\ Scopes = {NoVars}
  BY DEF VarBindsItsValue, Ass
<1>1. /\ cur > 0 /\ nodes[Stmt].kind = "Var"
      /\ Ass.kind = "BinaryOp" /\ Ass.type = "EQUALS"
      /\ nodes[Ass.kids[1]].kind = "Name" /\ Plain(nodes)[e]
  BY DEF PlainVar, StmtKind, Ass
<1>2. Stmt \in DOMAIN nodes
  <2>1. cur \in 1 .. Len(stmts)
    BY <1>1, BuildTypes
  <2> QED BY <2>1, BuildTypes DEF Stmt
<1>3. Heap(nodes)
  BY BuildTypes
<1>4. nodes[Stmt].kids[1] \in DOMAIN nodes
  BY <1>1, <1>2, <1>3, KidsBelow
<1>5. e \in DOMAIN nodes
  BY <1>1, <1>3, <1>4, KidsBelow DEF Ass
<1>6. Simple("bind", e) /\ "bind" \in Forms
  BY <1>1, <1>5 DEF Simple, Forms
<1>7. Outcome("bind", e)
  BY <1>6 DEF SimpleInv, Phase
<1>8. Size(nodes)[e] \in Nat /\ MaxIcount \in Nat
  BY <1>6, SimpleFacts, MaxIcountAssumption
<1>9. status \in {"OK", "INF_LOOP"}
  BY <1>7 DEF Outcome, Returned
<1>10. ASSUME NEW frame, localvar_stack = <<frame>>, globals = NoVars
       PROVE  Scopes = {NoVars, frame}
  <2>1. Range(<<frame>>) = {frame}
    BY DEF Range
  <2> QED BY <1>10, <2>1 DEF Scopes
<1>11. CASE status = "OK"
  <2>1. Size(nodes)[e] < MaxIcount
    BY <1>7, <1>8, <1>11 DEF Outcome
  <2>2. localvar_stack = <<bound>> /\ globals = NoVars
    BY <1>7, <1>11 DEF Outcome
  <2> QED BY <1>10, <1>11, <2>1, <2>2
<1>12. CASE status = "INF_LOOP"
  <2>1. Size(nodes)[e] >= MaxIcount
    BY <1>7, <1>12 DEF Outcome
  <2>2. localvar_stack = <<NoVars>> /\ globals = NoVars
    BY <1>7, <1>12 DEF Outcome
  <2>3. ~ (Size(nodes)[e] < MaxIcount)
    BY <1>8, <2>1
  <2> QED BY <1>10, <1>12, <2>2, <2>3
<1> QED BY <1>9, <1>11, <1>12

(***************************************************************************)
(* "expr should always leave stack idx at +1" (codegen.hpp:30), for every  *)
(* tree: when ip reaches the OP_POP of a plain statement the stack holds   *)
(* the null of the constructor and the value of the tree.  The code that   *)
(* Expr::codegen emits computes what the tree means.                       *)
(***************************************************************************)
THEOREM CompilerIsCorrect == Spec => []StmtLeavesItsValue
<1>1. GenInv /\ SimpleInv => StmtLeavesItsValue
  BY PopIsLast
<1> QED BY <1>1, CompilerInv, PTL

(***************************************************************************)
(* A plain statement never fails an assert of pop() nor reads an empty     *)
(* stack, and run() returns OK exactly if the tree has fewer nodes than    *)
(* exec()'s budget (vm.hpp:166), INF_LOOP otherwise.                       *)
(***************************************************************************)
THEOREM PlainStmtsReturn == Spec => []PlainStmtOutcome
<1>1. GenInv /\ SimpleInv => PlainStmtOutcome
  BY OutcomeOfPlain
<1> QED BY <1>1, CompilerInv, PTL

(***************************************************************************)
(* "var name = value" leaves name, and no other name in any scope, bound   *)
(* to the value of its plain right side, or is cut off with all scopes     *)
(* empty (VarExpr::codegen and exec()'s definitions).                      *)
(***************************************************************************)
THEOREM VarsBind == Spec => []VarBindsItsValue
<1>1. GenInv /\ SimpleInv => VarBindsItsValue
  BY OutcomeOfVar
<1> QED BY <1>1, CompilerInv, PTL

-----------------------------------------------------------------------------
\* What a statement has printed since mark.

LEMMA PrintedSoFar ==
  ASSUME NEW S, NEW s \in Seq(S), NEW m \in 0 .. Len(s)
  PROVE  /\ SubSeq(s, 1, m) \in Seq(S) /\ Len(SubSeq(s, 1, m)) = m
         /\ \A i \in 1 .. m : SubSeq(s, 1, m)[i] = s[i]
         /\ Len(s) = m => SubSeq(s, 1, m) = s
         /\ Len(s) = m + 1 => s = SubSeq(s, 1, m) \o <<s[m + 1]>>
         /\ \A v \in S : SubSeq(Append(s, v), 1, m) = SubSeq(s, 1, m)
         /\ SubSeq(s, 1, m) = SubSeq(s, 1, Len(SubSeq(s, 1, m)))
<1>1. m \in Nat /\ m \in Int /\ Len(s) \in Nat /\ m <= Len(s) /\ 1 \in Int
  BY LenProperties
<1>2. PICK t : t = SubSeq(s, 1, m)
  OBVIOUS
<1>3. /\ t \in Seq(S) /\ Len(t) = m
      /\ \A i \in 1 .. m : t[i] = s[i]
  <2>1. \A i \in 1 .. m : s[i] \in S
    BY <1>1, ElementOfSeq
  <2> QED BY <1>1, <1>2, <2>1, SubSeqProperties
<1>4. Len(s) = m => t = s
  BY <1>2, SubSeqFull
<1>5. ASSUME Len(s) = m + 1
      PROVE  s = t \o <<s[m + 1]>>
  <2>1. PICK w : w = <<s[m + 1]>>
    OBVIOUS
  <2>2. s[m + 1] \in S
    BY <1>1, <1>5, ElementOfSeq
  <2>3. w \in Seq(S) /\ Len(w) = 1 /\ w[1] = s[m + 1]
    BY <2>1, <2>2
  <2>4. PICK u : u = t \o w
    OBVIOUS
  <2>5. /\ u \in Seq(S) /\ Len(u) = m + 1
        /\ \A i \in 1 .. m + 1 : u[i] = IF i <= m THEN t[i] ELSE w[i - m]
    <3>1. /\ t \o w \in Seq(S) /\ Len(t \o w) = Len(t) + Len(w)
          /\ \A i \in 1 .. Len(t) + Len(w) :
               (t \o w)[i] = IF i <= Len(t) THEN t[i] ELSE w[i - Len(t)]
      BY <1>3, <2>3, ConcatProperties
    <3> QED BY <1>3, <2>3, <2>4, <3>1
  <2>6. \A i \in 1 .. Len(u) : u[i] = s[i]
    <3> TAKE i \in 1 .. Len(u)
    <3>1. CASE i <= m
      BY <1>1, <1>3, <2>5, <3>1
    <3>2. CASE ~ (i <= m)
      <4>1. i = m + 1 /\ i - m = 1
        BY <1>1, <2>5, <3>2
      <4> QED BY <2>3, <2>5, <3>2, <4>1
    <3> QED BY <3>1, <3>2
  <2>7. u = s
    BY <1>5, <2>5, <2>6, SeqEqual
  <2> QED BY <2>1, <2>4, <2>7
<1>6. ASSUME NEW v \in S
      PROVE  SubSeq(Append(s, v), 1, m) = t
  <2>1. PICK a : a = Append(s, v)
    OBVIOUS
  <2>2. /\ a \in Seq(S) /\ Len(a) = Len(s) + 1
        /\ \A i \in 1 .. Len(s) : a[i] = s[i]
    BY <2>1, AppendProperties
  <2>3. PICK u : u = SubSeq(a, 1, m)
    OBVIOUS
  <2>4. u \in Seq(S) /\ Len(u) = m /\ \A i \in 1 .. m : u[i] = a[i]
    <3>1. \A i \in 1 .. m : a[i] \in S
      BY <1>1, <2>2, ElementOfSeq
    <3> QED BY <1>1, <2>3, <3>1, SubSeqProperties
  <2>5. \A i \in 1 .. Len(u) : u[i] = t[i]
    BY <1>1, <1>3, <2>2, <2>4
  <2>6. u = t
    BY <1>3, <2>4, <2>5, SeqEqual
  <2> QED BY <2>1, <2>3, <2>6
<1> QED BY <1>2, <1>3, <1>4, <1>5, <1>6

\* A step of a statement prints at most one value.
LEMMA PrintsOne ==
  ASSUME GenInv, Codegen \/ RunStmt
  PROVE  /\ UNCHANGED <<nodes, stmts, cur, mark>>
         /\ status \in {"building", "listing", "running"}
         /\ printed' = printed \/ \E v \in Value : printed' = Append(printed, v)
         /\ Codegen => printed' = printed
<1>1. CASE Codegen
  BY <1>1, CodegenFrame
<1>2. CASE RunStmt
  <2>1. UNCHANGED genVars /\ (Construct \/ ListInstr \/ StartExec \/ Exec)
    BY <1>2, RunStmtSplit
  <2>2. /\ status \in {"building", "listing", "running"}
    BY <2>1, ExecWhich DEF Construct, ListInstr, StartExec
  <2>3. CASE ExecPrint /\ stack # << >>
    <3>1. printed' = Append(printed, Last(stack))
      BY <2>3 DEF ExecPrint, Require
    <3>2. Last(stack) \in Value
      BY <2>3, FrontLast DEF GenInv, VMInv, VMTypeOK
    <3> QED BY <2>1, <2>2, <3>1, <3>2, CodegenFrame, SameStmt, RunStmtSplit, <1>2
  <2>4. CASE ~ (ExecPrint /\ stack # << >>)
    <3>1. printed' = printed
      BY <2>1, <2>4 DEF Construct, Exec, ListInstr, StartExec, ExecNop,
         ExecConst, ExecUnary, ExecBinary, ExecPrint, ExecPop, ExecRet, ExecEof,
         ExecDefine, ExecStop, Define, Fetch, Retire, PrintOp, Require, Die,
         execVars
    <3> QED BY <2>1, <2>2, <3>1, SameStmt
  <2> QED BY <2>3, <2>4
<1> QED BY <1>1, <1>2

-----------------------------------------------------------------------------
\* genCode implements Interp.

RefInv ==
  /\ GenInv
  /\ SimpleInv
  /\ InStmt => cur > 0

\* The instance's operators on trees are those of Expr.
LEMMA SameMeaning ==
  ASSUME NEW ns
  PROVE  /\ Abstract!Plain(ns) = Plain(ns)
         /\ Abstract!Eval(ns) = Eval(ns)
         /\ Abstract!Size(ns) = Size(ns)
         /\ Abstract!Leaves(ns) = Leaves(ns)
         /\ Abstract!MayTrap(ns) = MayTrap(ns)
<1>1. Abstract!Plain(ns) = Plain(ns)
  BY DEF LeafKinds, token_to_unaryop, token_to_binop, Plain, OP_NOT, OP_NEG,
        OP_ADD, OP_SUB, OP_MULT, OP_DIV, OP_OR, OP_AND, OP_CMP,
        Abstract!LeafKinds, Abstract!token_to_unaryop, Abstract!token_to_binop,
        Abstract!Plain, Abstract!OP_NOT, Abstract!OP_NEG, Abstract!OP_ADD,
        Abstract!OP_SUB, Abstract!OP_MULT, Abstract!OP_DIV, Abstract!OP_OR,
        Abstract!OP_AND, Abstract!OP_CMP
<1>2. Abstract!Eval(ns) = Eval(ns)
  BY DEF Eval, LeafKinds, token_to_unaryop, token_to_binop, Plain, OP_NOT,
        OP_NEG, OP_ADD, OP_SUB, OP_MULT, OP_DIV, OP_OR, OP_AND, OP_CMP, Null,
        NumVal, BoolVal, isNum, isBool, asBool, AsInt, Truthy, UnaryVal,
        BoolArith, BoolLogic, BinaryVal, ArithOps, Abstract!Eval,
        Abstract!LeafKinds, Abstract!token_to_unaryop, Abstract!token_to_binop,
        Abstract!Plain, Abstract!OP_NOT, Abstract!OP_NEG, Abstract!OP_ADD,
        Abstract!OP_SUB, Abstract!OP_MULT, Abstract!OP_DIV, Abstract!OP_OR,
        Abstract!OP_AND, Abstract!OP_CMP, Abstract!Null, Abstract!NumVal,
        Abstract!BoolVal, Abstract!isNum, Abstract!isBool, Abstract!asBool,
        Abstract!AsInt, Abstract!Truthy, Abstract!UnaryVal, Abstract!BoolArith,
        Abstract!BoolLogic, Abstract!BinaryVal, Abstract!ArithOps
<1>3. Abstract!Size(ns) = Size(ns)
  BY DEF Abstract!Size, Size
<1>4. Abstract!Leaves(ns) = Leaves(ns)
  BY DEF Abstract!Leaves, Leaves
<1>5. Abstract!MayTrap(ns) = MayTrap(ns)
  BY DEF MayTrap, IntDivByZero, Eval, LeafKinds, token_to_unaryop,
        token_to_binop, Plain, OP_NOT, OP_NEG, OP_ADD, OP_SUB, OP_MULT, OP_DIV,
        OP_OR, OP_AND, OP_CMP, Null, NumVal, BoolVal, isNum, isBool, asBool,
        AsInt, Truthy, UnaryVal, BoolArith, BoolLogic, BinaryVal, ArithOps,
        Abstract!MayTrap, Abstract!IntDivByZero, Abstract!Eval,
        Abstract!LeafKinds, Abstract!token_to_unaryop, Abstract!token_to_binop,
        Abstract!Plain, Abstract!OP_NOT, Abstract!OP_NEG, Abstract!OP_ADD,
        Abstract!OP_SUB, Abstract!OP_MULT, Abstract!OP_DIV, Abstract!OP_OR,
        Abstract!OP_AND, Abstract!OP_CMP, Abstract!Null, Abstract!NumVal,
        Abstract!BoolVal, Abstract!isNum, Abstract!isBool, Abstract!asBool,
        Abstract!AsInt, Abstract!Truthy, Abstract!UnaryVal, Abstract!BoolArith,
        Abstract!BoolLogic, Abstract!BinaryVal, Abstract!ArithOps
<1> QED BY <1>1, <1>2, <1>3, <1>4, <1>5

LEMMA PositionStep ==
  ASSUME RefInv, [Next]_vars
  PROVE  RefInv'
<1>1. GenInv' /\ SimpleInv'
  BY GenStepInv, StepSimple DEF RefInv
<1>2. CASE BeginStmt
  <2>1. cur \in Nat /\ cur' = cur + 1
    BY <1>2, BuildTypes DEF BeginStmt, RefInv
  <2> QED BY <1>1, <2>1 DEF RefInv
<1>3. CASE Codegen \/ RunStmt
  <2>1. InStmt /\ cur' = cur
    BY <1>3, PrintsOne DEF InStmt, RefInv
  <2> QED BY <1>1, <2>1 DEF RefInv
<1>4. CASE Finish
  BY <1>1, <1>4 DEF Finish, InStmt, RefInv
<1>5. CASE UNCHANGED vars
  BY <1>1, <1>5 DEF vars, vmVars, genVars, InStmt, RefInv
<1> QED BY <1>2, <1>3, <1>4, <1>5 DEF Next

\* The tree a statement with a fixed meaning is built around.
LEMMA FixedMeaning ==
  ASSUME RefInv, InStmt
  PROVE  /\ cur \in 1 .. Len(stmts) /\ Stmt \in DOMAIN nodes
         /\ Plain(nodes)[Stmt] => Simple("pop", Stmt)
         /\ ~ (Plain(nodes)[Stmt] /\ nodes[Stmt].kind = "Print")
         /\ nodes[Stmt].kind = "Print" =>
              LET kid == nodes[Stmt].kids[1] IN
              /\ kid \in DOMAIN nodes
              /\ Plain(nodes)[kid] => Simple("print", kid)
              /\ Size(nodes)[Stmt] = 1 + Size(nodes)[kid]
              /\ Size(nodes)[kid] \in Nat
              /\ Leaves(nodes)[Stmt] = Leaves(nodes)[kid]
<1>1. cur \in 1 .. Len(stmts) /\ cur > 0
  BY BuildTypes DEF RefInv
<1>2. Stmt \in DOMAIN nodes /\ Heap(nodes)
  BY <1>1, BuildTypes DEF Stmt, RefInv
<1>3. Plain(nodes)[Stmt] => Simple("pop", Stmt)
  BY <1>1, <1>2 DEF Simple
<1>4. ~ (Plain(nodes)[Stmt] /\ nodes[Stmt].kind = "Print")
  BY <1>2, PlainKinds DEF LeafKinds
<1>5. ASSUME nodes[Stmt].kind = "Print", NEW kid, kid = nodes[Stmt].kids[1]
      PROVE  /\ kid \in DOMAIN nodes
             /\ Plain(nodes)[kid] => Simple("print", kid)
             /\ Size(nodes)[Stmt] = 1 + Size(nodes)[kid]
             /\ Size(nodes)[kid] \in Nat
             /\ Leaves(nodes)[Stmt] = Leaves(nodes)[kid]
  <2>1. Len(nodes[Stmt].kids) = 1 /\ kid \in DOMAIN nodes
    BY <1>2, <1>5, KidsBelow
  <2>2. Plain(nodes)[kid] => Simple("print", kid)
    BY <1>1, <1>5, <2>1 DEF Simple
  <2>3. Size(nodes)[Stmt] = SizeOf(nodes, Size(nodes), Stmt)
        /\ Size(nodes)[kid] \in Nat
    BY <1>2, <2>1, SizeDef
  <2>4. Leaves(nodes)[Stmt] = LeavesOf(nodes, Leaves(nodes), Stmt)
    BY <1>2, LeavesDef
  <2> QED BY <1>5, <2>1, <2>2, <2>3, <2>4 DEF SizeOf, LeavesOf
<1> QED BY <1>1, <1>2, <1>3, <1>4, <1>5

\* A statement with a fixed meaning ends as Interp says.
LEMMA EndOfPlain ==
  ASSUME RefInv, RefInv', InStmt, UNCHANGED <<nodes, stmts, cur, mark>>,
         status' \in Returned \cup Died, Plain(nodes)[Stmt],
         NEW before, before = SubSeq(printed', 1, mark)
  PROVE  /\ Abstract!Output(Stmt) = << >>
         /\ printed' = before \o Abstract!Output(Stmt) /\ printed' = before
         /\ status' \in Returned => Leaves(nodes)[Stmt] <= MaxConst
         /\ status' \in Died => Abstract!MayDie(Stmt)
<1>1. Simple("pop", Stmt)
  BY FixedMeaning
<1>2. Simple("pop", Stmt)' /\ Stmt' = Stmt
  BY <1>1 DEF Simple, Stmt, Ass
<1>3. Outcome("pop", Stmt)'
  BY <1>2 DEF RefInv, SimpleInv, Phase, Forms
<1>4. /\ printed' \in Seq(Value) /\ mark' \in 0 .. Len(printed') /\ mark' = mark
  BY DEF RefInv, GenInv, VMInv, VMTypeOK, TypeOK
<1>5. Quiet'
  BY <1>3 DEF Outcome, Returned, Died
<1>6. printed' = before
  BY <1>4, <1>5, PrintedSoFar DEF Quiet
<1>7. ~ Abstract!IsPrintOfPlain(Stmt)
  BY FixedMeaning DEF Abstract!IsPrintOfPlain
<1>8. Abstract!Output(Stmt) = << >> /\ printed' \o << >> = printed'
  <2>1. printed' \o << >> = printed'
    BY <1>4, ConcatEmptySeq
  <2> QED BY <1>7, <2>1 DEF Abstract!Output
<1>9. status' \in Returned => Leaves(nodes)[Stmt] <= MaxConst
  BY <1>2, <1>3 DEF Outcome
<1>10. ASSUME status' \in Died
       PROVE  Abstract!MayDie(Stmt)
  <2>1. \/ status' = "ABORT_POOL" /\ Leaves(nodes)[Stmt] > MaxConst
        \/ status' = "SIGFPE" /\ MayTrap(nodes)[Stmt]
    BY <1>2, <1>3, <1>10 DEF Outcome, Died
  <2> QED BY <1>7, <2>1, SameMeaning DEF Abstract!MayDie
<1> QED BY <1>6, <1>8, <1>9, <1>10

LEMMA EndOfPrint ==
  ASSUME RefInv, RefInv', InStmt, UNCHANGED <<nodes, stmts, cur, mark>>,
         status' \in Returned \cup Died, Abstract!IsPrintOfPlain(Stmt),
         NEW before, before = SubSeq(printed', 1, mark)
  PROVE  /\ status' \in Returned => /\ Leaves(nodes)[Stmt] <= MaxConst
                                    /\ printed' = before \o Abstract!Output(Stmt)
         /\ status' \in Died =>
              /\ Abstract!MayDie(Stmt)
              /\ printed' \in {before, before \o Abstract!Output(Stmt)}
<1>1. PICK e : e = nodes[Stmt].kids[1]
  OBVIOUS
<1>2. nodes[Stmt].kind = "Print" /\ Plain(nodes)[e]
  BY <1>1, SameMeaning DEF Abstract!IsPrintOfPlain
<1>3. /\ Simple("print", e) /\ Size(nodes)[Stmt] = 1 + Size(nodes)[e]
      /\ Size(nodes)[e] \in Nat /\ Leaves(nodes)[Stmt] = Leaves(nodes)[e]
  BY <1>1, <1>2, FixedMeaning
<1>4. Simple("print", e)'
  BY <1>3 DEF Simple, Stmt, Ass
<1>5. Outcome("print", e)' /\ MaxIcount \in Nat
  BY <1>4, MaxIcountAssumption DEF RefInv, SimpleInv, Phase, Forms
<1>6. /\ printed' \in Seq(Value) /\ mark' \in 0 .. Len(printed') /\ mark' = mark
      /\ Eval(nodes')[e] = Eval(nodes)[e]
  BY DEF RefInv, GenInv, VMInv, VMTypeOK, TypeOK
<1>7. Quiet' => printed' = before
  BY <1>6, PrintedSoFar DEF Quiet
<1>8. Spoken(Eval(nodes)[e])' => printed' = before \o <<Eval(nodes)[e]>>
  BY <1>6, PrintedSoFar DEF Spoken
<1>9. before \o << >> = before
  <2>1. before \in Seq(Value)
    BY <1>6, PrintedSoFar
  <2> QED BY <2>1, ConcatEmptySeq
<1>10. Abstract!Output(Stmt) =
         IF Size(nodes)[e] + 1 <= MaxIcount THEN <<Eval(nodes)[e]>> ELSE << >>
  BY <1>1, <1>3, SameMeaning DEF Abstract!Output
<1>11. ASSUME status' \in Returned
       PROVE  printed' = before \o Abstract!Output(Stmt)
  <2>1. \/ Size(nodes)[e] + 1 < MaxIcount /\ Spoken(Eval(nodes)[e])'
        \/ Size(nodes)[e] >= MaxIcount /\ Quiet'
        \/ Size(nodes)[e] + 1 = MaxIcount /\ Spoken(Eval(nodes)[e])'
    BY <1>5, <1>6, <1>11 DEF Outcome, Returned
  <2>2. CASE Spoken(Eval(nodes)[e])' /\ Size(nodes)[e] + 1 <= MaxIcount
    BY <1>8, <1>10, <2>2
  <2>3. CASE Size(nodes)[e] >= MaxIcount /\ Quiet'
    <3>1. ~ (Size(nodes)[e] + 1 <= MaxIcount)
      BY <1>3, <1>5, <2>3
    <3>2. Abstract!Output(Stmt) = << >>
      BY <1>10, <3>1
    <3>3. printed' = before \o << >>
      BY <1>7, <1>9, <2>3
    <3> QED BY <3>2, <3>3
  <2>4. Size(nodes)[e] + 1 < MaxIcount \/ Size(nodes)[e] + 1 = MaxIcount =>
          Size(nodes)[e] + 1 <= MaxIcount
    BY <1>3, <1>5
  <2> QED BY <2>1, <2>2, <2>3, <2>4
<1>12. status' \in Returned => Leaves(nodes)[Stmt] <= MaxConst
  BY <1>3, <1>5 DEF Outcome
<1>13. ASSUME status' \in Died
       PROVE  /\ Abstract!MayDie(Stmt)
              /\ printed' \in {before, before \o Abstract!Output(Stmt)}
  <2>1. \/ status' = "ABORT_POOL" /\ Leaves(nodes)[e] > MaxConst /\ Quiet'
        \/ status' = "SIGFPE" /\ MayTrap(nodes)[e] /\ Quiet'
        \/ /\ status' = "CRASH" /\ Size(nodes)[e] + 1 < MaxIcount
           /\ Spoken(Eval(nodes)[e])'
    BY <1>5, <1>6, <1>13 DEF Outcome, Died
  <2>2. Abstract!MayDie(Stmt)
    BY <1>1, <1>3, <1>5, <2>1, SameMeaning DEF Abstract!MayDie
  <2>3. printed' \in {before, before \o Abstract!Output(Stmt)}
    <3>1. CASE Quiet'
      BY <1>7, <3>1
    <3>2. CASE Size(nodes)[e] + 1 < MaxIcount /\ Spoken(Eval(nodes)[e])'
      <4>1. Size(nodes)[e] + 1 <= MaxIcount
        BY <1>3, <1>5, <3>2
      <4> QED BY <1>8, <1>10, <3>2, <4>1
    <3> QED BY <2>1, <3>1, <3>2
  <2> QED BY <2>2, <2>3
<1> QED BY <1>11, <1>12, <1>13

\* Other statements: what was printed before them stays.
LEMMA PrintedPrefix ==
  ASSUME NEW S, NEW s \in Seq(S), NEW m \in 0 .. Len(s),
         NEW before, before = SubSeq(s, 1, m)
  PROVE  Abstract!IsPrefix(before, s)
<1>1. Len(before) = m /\ before = SubSeq(s, 1, Len(before))
  BY PrintedSoFar
<1>2. before \in Seq(S)
  BY PrintedSoFar
<1>3. SubSeq(before, 1, Len(before)) = before
  BY <1>2, SubSeqFull
<1>4. Len(before) <= Len(s)
  BY <1>1, LenProperties
<1> QED BY <1>1, <1>3, <1>4 DEF Abstract!IsPrefix

\* What Interp's variables are in each state.
Mapped ==
  /\ InStmt => /\ AbsNext = cur /\ AbsMode = "run"
               /\ AbsPrinted = SubSeq(printed, 1, mark)
  /\ AtLoopHead => AbsNext = cur + 1 /\ AbsMode = "run" /\ AbsPrinted = printed
  /\ status \in Died => AbsNext = cur /\ AbsMode = "dead" /\ AbsPrinted = printed
  /\ status = "DONE" =>
       AbsNext = cur + 1 /\ AbsMode = "done" /\ AbsPrinted = printed

LEMMA Mapping == Mapped /\ Mapped'
BY DEF Mapped, AbsNext, AbsMode, AbsPrinted, InStmt, AtLoopHead, Returned, Died

\* A statement that ends takes one step of Interp.
LEMMA RefineEnd ==
  ASSUME RefInv, RefInv', InStmt, UNCHANGED <<nodes, stmts, cur, mark>>,
         SubSeq(printed', 1, mark) = SubSeq(printed, 1, mark)
  PROVE  /\ status' \in Returned => Abstract!RunStmt
         /\ status' \in Died => Abstract!Die
<1>1. PICK before : before = SubSeq(printed', 1, mark)
  OBVIOUS
<1>2. AbsNext = cur /\ AbsMode = "run" /\ AbsPrinted = before
  BY <1>1, Mapping DEF Mapped
<1>3. cur \in 1 .. Len(stmts) /\ Len(stmts) \in Nat /\ Stmt = stmts[cur]
  BY FixedMeaning, BuildTypes DEF Stmt, RefInv
<1>4. /\ printed' \in Seq(Value) /\ mark \in 0 .. Len(printed')
  BY DEF RefInv, GenInv, VMInv, VMTypeOK, TypeOK
<1>5. Abstract!IsPrefix(before, printed')
  BY <1>1, <1>4, PrintedPrefix
<1>6. Abstract!Simple(Stmt) <=>
        Plain(nodes)[Stmt] \/ Abstract!IsPrintOfPlain(Stmt)
  BY SameMeaning DEF Abstract!Simple
<1>7. Abstract!Leaves(nodes) = Leaves(nodes)
  BY SameMeaning
<1>8. ASSUME status' \in Returned
      PROVE  Abstract!RunStmt
  <2>1. Abstract!Simple(Stmt) =>
          /\ Leaves(nodes)[Stmt] <= MaxConst
          /\ printed' = before \o Abstract!Output(Stmt)
    BY <1>1, <1>6, <1>8, EndOfPlain, EndOfPrint
  <2>2. AbsNext' = cur + 1 /\ AbsMode' = "run" /\ AbsPrinted' = printed'
    BY <1>8, Mapping DEF Mapped, AtLoopHead
  <2> QED BY <1>2, <1>3, <1>5, <1>7, <2>1, <2>2 DEF Abstract!RunStmt
<1>9. ASSUME status' \in Died
      PROVE  Abstract!Die
  <2>1. Abstract!Simple(Stmt) =>
          /\ Abstract!MayDie(Stmt)
          /\ printed' \in {before, before \o Abstract!Output(Stmt)}
    BY <1>1, <1>6, <1>9, EndOfPlain, EndOfPrint
  <2>2. AbsNext' = cur /\ AbsMode' = "dead" /\ AbsPrinted' = printed'
    BY <1>9, Mapping DEF Mapped
  <2> QED BY <1>2, <1>3, <1>5, <2>1, <2>2 DEF Abstract!Die
<1> QED BY <1>8, <1>9

\* A step within a statement is none of Interp's unless it ends it.
LEMMA RefineInside ==
  ASSUME RefInv, RefInv', Codegen \/ RunStmt
  PROVE  [Abstract!Next]_(Abstract!vars)
<1>1. /\ UNCHANGED <<nodes, stmts, cur, mark>> /\ InStmt
      /\ printed' = printed \/ \E v \in Value : printed' = Append(printed, v)
  BY PrintsOne DEF InStmt, RefInv
<1>2. printed \in Seq(Value) /\ mark \in 0 .. Len(printed) /\ status' \in VMStatus
  BY DEF RefInv, GenInv, VMInv, VMTypeOK, TypeOK
<1>3. SubSeq(printed', 1, mark) = SubSeq(printed, 1, mark)
  BY <1>1, <1>2, PrintedSoFar
<1>4. status' # "idle" /\ status' # "DONE"
  BY DEF Codegen, GenLeaf, GenUnary, GenBinary, GenReturn, GenPrint, GenVarInit,
     GenVarNull, GenVarBad, GenUnimplemented, EmitOp, EmitBind, EmitBad,
     EmitConst, Emit, Stop, Die, Descend, Visiting, Doing,
     RunStmt, VMNext, Construct, Exec, ListInstr, StartExec, ExecNop,
     ExecConst, ExecUnary, ExecBinary, ExecPrint, ExecPop, ExecRet, ExecEof,
     ExecDefine, ExecStop, Define, Fetch, Retire, PrintOp, Require
<1>5. CASE InStmt'
  <2>1. AbsNext' = AbsNext /\ AbsMode' = AbsMode /\ AbsPrinted' = AbsPrinted
    BY <1>1, <1>3, <1>5, Mapping DEF Mapped
  <2> QED BY <1>1, <2>1 DEF Abstract!vars
<1>6. CASE ~ InStmt'
  <2>1. status' \in Returned \cup Died
    BY <1>2, <1>4, <1>6 DEF VMStatus, InStmt
  <2> QED BY <1>1, <1>3, <2>1, RefineEnd DEF Abstract!Next
<1> QED BY <1>5, <1>6

LEMMA RefineStep ==
  ASSUME RefInv, RefInv', [Next]_vars
  PROVE  [Abstract!Next]_(Abstract!vars)
<1>1. CASE BeginStmt
  <2>1. /\ AtLoopHead /\ status' = "building" /\ mark' = Len(printed)
        /\ UNCHANGED <<nodes, stmts, printed>> /\ cur' = cur + 1
    BY <1>1 DEF BeginStmt
  <2>2. SubSeq(printed, 1, Len(printed)) = printed
    BY SubSeqFull DEF RefInv, GenInv, VMInv, VMTypeOK
  <2>3. AbsNext = cur + 1 /\ AbsMode = "run" /\ AbsPrinted = printed
    BY <2>1, Mapping DEF Mapped
  <2>4. AbsNext' = cur' /\ AbsMode' = "run" /\ AbsPrinted' = SubSeq(printed', 1, mark')
    BY <2>1, Mapping DEF Mapped, InStmt
  <2> QED BY <2>1, <2>2, <2>3, <2>4 DEF Abstract!vars
<1>2. CASE Codegen \/ RunStmt
  BY <1>2, RefineInside
<1>3. CASE Finish
  <2>1. /\ AtLoopHead /\ status' = "DONE" /\ cur = Len(stmts)
        /\ UNCHANGED <<nodes, stmts, printed, cur>>
    BY <1>3 DEF Finish, execVars, genVars
  <2>2. Len(stmts) \in Nat
    BY BuildTypes DEF RefInv
  <2>3. AbsNext = cur + 1 /\ AbsMode = "run" /\ AbsPrinted = printed
    BY <2>1, Mapping DEF Mapped
  <2>4. AbsNext' = cur' + 1 /\ AbsMode' = "done" /\ AbsPrinted' = printed'
    BY <2>1, Mapping DEF Mapped
  <2>5. Abstract!Finish
    BY <2>1, <2>2, <2>3, <2>4 DEF Abstract!Finish
  <2> QED BY <2>5 DEF Abstract!Next
<1>4. CASE UNCHANGED vars
  BY <1>4 DEF vars, vmVars, execVars, genVars, Abstract!vars, AbsNext, AbsMode,
     AbsPrinted, InStmt
<1> QED BY <1>1, <1>2, <1>3, <1>4 DEF Next

LEMMA RefineInit ==
  ASSUME Init
  PROVE  Abstract!Init /\ RefInv
<1>1. /\ status = "idle" /\ printed = << >> /\ cur = 0
      /\ \E p \in Programs : nodes = p.nodes /\ stmts = p.stmts
  BY DEF Init
<1>4. [nodes |-> nodes, stmts |-> stmts] \in Programs
  BY <1>1, ProgramsAssumption
<1>2. AbsNext = 1 /\ AbsMode = "run" /\ AbsPrinted = << >>
  BY <1>1, Mapping DEF Mapped, AtLoopHead
<1>3. RefInv
  BY <1>1, GenInitInv DEF RefInv, SimpleInv, Simple, InStmt
<1> QED BY <1>1, <1>2, <1>3, <1>4 DEF Abstract!Init

(***************************************************************************)
(* genCode, its walk, the chunks and the VM implement Interp: each step is *)
(* a step of Interp or none.  Statements run in order, each on its own, and*)
(* a statement with a plain value prints that value, in one piece, or dies *)
(* where Interp says it may.                                               *)
(***************************************************************************)
THEOREM CodeGenRefines == Spec => ImplementsInterp
<1>1. Init => Abstract!Init /\ RefInv
  BY RefineInit
<1>2. RefInv /\ [Next]_vars => RefInv'
  BY PositionStep
<1>3. RefInv /\ RefInv' /\ [Next]_vars => [Abstract!Next]_(Abstract!vars)
  BY RefineStep
<1> QED BY <1>1, <1>2, <1>3, PTL DEF Spec, ImplementsInterp, Abstract!Spec

-----------------------------------------------------------------------------
(***************************************************************************)
(* What a program of statements with a fixed meaning prints.               *)
(***************************************************************************)

\* The value and the size of a node, from those of its children.
LEMMA NodeMeaning ==
  ASSUME NEW ns, Heap(ns), NEW k \in DOMAIN ns
  PROVE  /\ Size(ns)[k] \in Nat
         /\ ns[k].kind \in LeafKinds =>
              Plain(ns)[k] /\ Eval(ns)[k] = ns[k].lit /\ Size(ns)[k] = 1
         /\ \A a : /\ ns[k].kind = "UnaryOp" /\ ns[k].kids = <<a>>
                   /\ ns[k].type \in DOMAIN token_to_unaryop /\ Plain(ns)[a]
                   => /\ Plain(ns)[k] /\ Size(ns)[k] = 1 + Size(ns)[a]
                      /\ Eval(ns)[k] = UnaryVal(token_to_unaryop[ns[k].type], Eval(ns)[a])
         /\ \A a, b : /\ ns[k].kind = "BinaryOp" /\ ns[k].kids = <<a, b>>
                      /\ ns[k].type \in DOMAIN token_to_binop
                      /\ Plain(ns)[a] /\ Plain(ns)[b]
                      => /\ Plain(ns)[k]
                         /\ Size(ns)[k] = 1 + Size(ns)[a] + Size(ns)[b]
                         /\ Eval(ns)[k] = BinaryVal(token_to_binop[ns[k].type],
                                                    Eval(ns)[a], Eval(ns)[b])
         /\ \A a : ns[k].kind = "Print" /\ ns[k].kids = <<a>> =>
                     Size(ns)[k] = 1 + Size(ns)[a]
<1>1. Plain(ns)[k] = PlainOf(ns, Plain(ns), k)
  BY PlainDef
<1>2. Eval(ns)[k] = EvalOf(ns, Eval(ns), k)
  BY EvalDef
<1>3. Size(ns)[k] = SizeOf(ns, Size(ns), k) /\ Size(ns)[k] \in Nat
  BY SizeDef
<1>4. ASSUME ns[k].kind \in LeafKinds
      PROVE  Plain(ns)[k] /\ Eval(ns)[k] = ns[k].lit /\ Size(ns)[k] = 1
  <2>1. Plain(ns)[k]
    BY <1>1, <1>4 DEF PlainOf
  <2>2. Len(ns[k].kids) = 0
    BY <1>4 DEF Heap
  <2>3. Size(ns)[k] = 1
    BY <1>3, <2>2 DEF SizeOf
  <2> QED BY <1>2, <1>4, <2>1, <2>3 DEF EvalOf, LeafKinds
<1>5. ASSUME NEW a, ns[k].kind = "UnaryOp", ns[k].kids = <<a>>,
             ns[k].type \in DOMAIN token_to_unaryop, Plain(ns)[a]
      PROVE  /\ Plain(ns)[k] /\ Size(ns)[k] = 1 + Size(ns)[a]
             /\ Eval(ns)[k] = UnaryVal(token_to_unaryop[ns[k].type], Eval(ns)[a])
  <2>1. Plain(ns)[k]
    BY <1>1, <1>5 DEF PlainOf
  <2>2. ns[k].kids[1] = a
    BY <1>5
  <2> QED BY <1>5, <2>1, <2>2, PlainUnary
<1>6. ASSUME NEW a, NEW b, ns[k].kind = "BinaryOp", ns[k].kids = <<a, b>>,
             ns[k].type \in DOMAIN token_to_binop, Plain(ns)[a], Plain(ns)[b]
      PROVE  /\ Plain(ns)[k] /\ Size(ns)[k] = 1 + Size(ns)[a] + Size(ns)[b]
             /\ Eval(ns)[k] = BinaryVal(token_to_binop[ns[k].type],
                                        Eval(ns)[a], Eval(ns)[b])
  <2>1. ns[k].kids[1] = a /\ ns[k].kids[2] = b
    BY <1>6
  <2>2. Plain(ns)[k]
    BY <1>1, <1>6, <2>1 DEF PlainOf
  <2> QED BY <1>6, <2>1, <2>2, PlainBinary
<1>7. ASSUME NEW a, ns[k].kind = "Print", ns[k].kids = <<a>>
      PROVE  Size(ns)[k] = 1 + Size(ns)[a]
  <2>1. Len(ns[k].kids) = 1 /\ ns[k].kids[1] = a
    BY <1>7
  <2> QED BY <1>3, <2>1 DEF SizeOf
<1> QED BY <1>3, <1>4, <1>5, <1>6, <1>7

Fixed(k) ==
  \/ Plain(nodes)[k]
  \/ nodes[k].kind = "Print" /\ Plain(nodes)[nodes[k].kids[1]]

Utter(k) ==
  IF nodes[k].kind = "Print" /\ Size(nodes)[k] <= MaxIcount
  THEN <<Eval(nodes)[nodes[k].kids[1]]>>
  ELSE << >>

\* f[n] is what the first n statements print.
Utters(f) ==
  /\ f[0] = << >>
  /\ \A n \in 1 .. Len(stmts) : f[n] = f[n - 1] \o Utter(stmts[n])

UtterInv ==
  /\ AbsMode = "done" => AbsNext > Len(stmts)
  /\ (\A n \in 1 .. Len(stmts) : Fixed(stmts[n])) =>
       \A f : Utters(f) /\ AbsMode # "dead" => AbsPrinted = f[AbsNext - 1]

LEMMA UtterBegin == Begun => RefInv /\ UtterInv
<1> SUFFICES ASSUME Begun
             PROVE  RefInv /\ UtterInv
  OBVIOUS
<1>1. status = "idle" /\ printed = << >> /\ cur = 0
  BY DEF Begun
<1>2. AbsNext = 1 /\ AbsMode = "run" /\ AbsPrinted = << >>
  BY <1>1, Mapping DEF Mapped, AtLoopHead
<1>3. RefInv
  BY <1>1, BegunInv DEF RefInv, SimpleInv, Simple, InStmt
<1>4. UtterInv
  <2>1. ASSUME NEW f, Utters(f)
        PROVE  AbsPrinted = f[AbsNext - 1]
    <3>1. AbsNext - 1 = 0
      BY <1>2
    <3>2. f[0] = << >>
      BY <2>1 DEF Utters
    <3> QED BY <1>2, <3>1, <3>2
  <2>2. AbsMode # "done"
    BY <1>2
  <2> HIDE DEF AbsMode, AbsNext, AbsPrinted
  <2> QED BY <2>1, <2>2 DEF UtterInv
<1> QED BY <1>3, <1>4

LEMMA SaysUtter ==
  ASSUME Heap(nodes), NEW k \in DOMAIN nodes, Fixed(k)
  PROVE  Abstract!Simple(k) /\ Abstract!Output(k) = Utter(k)
<1>1. Plain(nodes)[k] => nodes[k].kind # "Print"
  BY PlainKinds DEF LeafKinds
<1>2. Abstract!IsPrintOfPlain(k) <=> nodes[k].kind = "Print"
  BY <1>1, SameMeaning DEF Fixed, Abstract!IsPrintOfPlain
<1>3. Abstract!Simple(k)
  BY <1>2, SameMeaning DEF Fixed, Abstract!Simple
<1> QED BY <1>2, <1>3, SameMeaning DEF Abstract!Output, Utter

\* Interp's output is as far as its next statement.
LEMMA UtterStep ==
  ASSUME RefInv, RefInv', UtterInv, [Next]_vars
  PROVE  UtterInv'
<1>1. [Abstract!Next]_(Abstract!vars)
  BY RefineStep
<1>2. /\ Len(stmts) \in Nat /\ cur \in Nat /\ AbsNext \in Nat
      /\ AbsMode = "run" => AbsNext \in 1 .. cur + 1
  <2>1. Len(stmts) \in Nat /\ cur \in Nat
    BY BuildTypes DEF RefInv
  <2> QED BY <2>1 DEF RefInv, AbsNext, AbsMode, InStmt
<1>3. UNCHANGED <<nodes, stmts>>
  BY <1>1 DEF Abstract!vars, Abstract!Next, Abstract!RunStmt, Abstract!Die,
     Abstract!Finish
<1>4. \A f : Utters(f)' <=> Utters(f)
  BY <1>3 DEF Utters, Utter
<1>5. (\A n \in 1 .. Len(stmts) : Fixed(stmts[n]))' <=>
        \A n \in 1 .. Len(stmts) : Fixed(stmts[n])
  BY <1>3 DEF Fixed
<1>6. CASE Abstract!RunStmt
  <2>1. /\ AbsMode = "run" /\ AbsMode' = "run" /\ AbsNext <= Len(stmts)
        /\ AbsNext' = AbsNext + 1
        /\ Abstract!Simple(stmts[AbsNext]) =>
             AbsPrinted' = AbsPrinted \o Abstract!Output(stmts[AbsNext])
    BY <1>6 DEF Abstract!RunStmt
  <2>2. AbsNext \in 1 .. Len(stmts)
    BY <1>2, <2>1
  <2>3. ASSUME \A n \in 1 .. Len(stmts) : Fixed(stmts[n]), NEW f, Utters(f)
        PROVE  AbsPrinted' = f[AbsNext]
    <3>1. AbsPrinted = f[AbsNext - 1]
      BY <2>1, <2>3 DEF UtterInv
    <3>2. Heap(nodes) /\ stmts[AbsNext] \in DOMAIN nodes
      BY <2>2, BuildTypes DEF RefInv
    <3>3. AbsPrinted' = AbsPrinted \o Utter(stmts[AbsNext])
      BY <2>1, <2>2, <2>3, <3>2, SaysUtter
    <3> QED BY <2>2, <2>3, <3>1, <3>3 DEF Utters
  <2>4. AbsNext' - 1 = AbsNext
    BY <1>2, <2>1
  <2> QED BY <1>4, <1>5, <2>1, <2>3, <2>4 DEF UtterInv
<1>7. CASE Abstract!Die
  BY <1>7 DEF Abstract!Die, UtterInv
<1>8. CASE Abstract!Finish
  <2>1. /\ AbsMode = "run" /\ AbsNext > Len(stmts)
        /\ AbsNext' = AbsNext /\ AbsPrinted' = AbsPrinted
    BY <1>8 DEF Abstract!Finish
  <2> QED BY <1>3, <1>4, <1>5, <2>1 DEF UtterInv
<1>9. CASE UNCHANGED Abstract!vars
  <2>1. AbsNext' = AbsNext /\ AbsPrinted' = AbsPrinted /\ AbsMode' = AbsMode
    BY <1>9 DEF Abstract!vars
  <2> QED BY <1>3, <1>4, <1>5, <2>1 DEF UtterInv
<1> QED BY <1>1, <1>6, <1>7, <1>8, <1>9 DEF Abstract!Next

\* When genCode is done, all of them have run.
LEMMA UtterEnd ==
  ASSUME RefInv, UtterInv, status = "DONE",
         \A n \in 1 .. Len(stmts) : Fixed(stmts[n]), NEW f, Utters(f)
  PROVE  printed = f[Len(stmts)]
<1>1. AbsMode = "done" /\ AbsNext = cur + 1 /\ AbsPrinted = printed
  BY Mapping DEF Mapped
<1>2. cur \in 0 .. Len(stmts) /\ Len(stmts) \in Nat
  BY BuildTypes DEF RefInv
<1>3. AbsNext - 1 = Len(stmts)
  BY <1>1, <1>2 DEF UtterInv
<1> QED BY <1>1, <1>3 DEF UtterInv

=============================================================================
