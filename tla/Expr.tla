-------------------------------- MODULE Expr --------------------------------
(***************************************************************************)
(* The expression nodes of expr.hpp.  A tree lives in a heap, a sequence   *)
(* of nodes in allocation order, and a pointer is an index into it: the    *)
(* parser builds children before their parent, so a child's index is       *)
(* smaller.  type is the TokenType of an operator node; lit is the literal *)
(* or the name of a leaf.                                                  *)
(***************************************************************************)
EXTENDS Bytecode

LeafKinds == {"Name", "String", "Num", "Bool"}

Kinds == LeafKinds \cup
         {"Empty", "UnaryOp", "BinaryOp", "Call", "Return", "Var", "Print",
          "Subscript", "CommaList", "Block", "For", "FnDef", "If"}

TokenType ==
  {"ID", "NUM", "STRING", "AND", "OR", "PLUS", "MINUS", "DIV", "MULT",
   "EQUALS", "BANG", "COMMA", "PRINT", "FN", "VAR", "IF", "ELSE", "FOR",
   "RET", "TO", "CMP", "COLON", "TRUE", "FALSE", "SEMICOLON", "LEFT_PAREN",
   "RIGHT_PAREN", "LEFT_BRACE", "RIGHT_BRACE", "LEFT_BRACKET",
   "RIGHT_BRACKET", "NONE"}

Node == [kind : Kinds, type : TokenType, kids : Seq(Nat \ {0}), lit : Value]

Leaf(kind, val)       == [kind |-> kind, type |-> "NONE", kids |-> << >>,
                          lit |-> val]
Inner(kind, type, ks) == [kind |-> kind, type |-> type, kids |-> ks,
                          lit |-> Null]

\* token_to_binop and token_to_unaryop
token_to_binop ==
  [PLUS |-> OP_ADD, MINUS |-> OP_SUB, MULT |-> OP_MULT, DIV |-> OP_DIV,
   OR |-> OP_OR, AND |-> OP_AND, CMP |-> OP_CMP]

token_to_unaryop == [MINUS |-> OP_NEG, BANG |-> OP_NOT]

\* A heap of well-shaped nodes, each kind with the children codegen reads.
Heap(nodes) ==
  /\ nodes \in Seq(Node)
  /\ \A k \in DOMAIN nodes :
       /\ \A i \in DOMAIN nodes[k].kids : nodes[k].kids[i] < k
       /\ nodes[k].kind \in LeafKinds =>
            /\ nodes[k].kids = << >>
            /\ nodes[k].kind = "Name" => isString(nodes[k].lit)
       /\ nodes[k].kind = "BinaryOp" => Len(nodes[k].kids) = 2
       /\ nodes[k].kind \in {"UnaryOp", "Return", "Var", "Print"} =>
            Len(nodes[k].kids) = 1
       /\ nodes[k].kind = "UnaryOp" =>
            nodes[nodes[k].kids[1]].kind # "Name"

-----------------------------------------------------------------------------
(***************************************************************************)
(* What an expression means, by structure.  Plain expressions are built    *)
(* from literals, names and the operators that have an opcode; the         *)
(* language gives each a value.                                            *)
(***************************************************************************)

Plain(nodes) ==
  LET plain[k \in DOMAIN nodes] ==
        LET n == nodes[k] IN
        \/ n.kind \in LeafKinds
        \/ /\ n.kind = "UnaryOp"
           /\ n.type \in DOMAIN token_to_unaryop
           /\ plain[n.kids[1]]
        \/ /\ n.kind = "BinaryOp"
           /\ n.type \in DOMAIN token_to_binop
           /\ plain[n.kids[1]]
           /\ plain[n.kids[2]]
  IN plain

\* The value of each plain node (of the others, no meaning).
Eval(nodes) ==
  LET eval[k \in DOMAIN nodes] ==
        LET n == nodes[k] IN
        IF ~ Plain(nodes)[k] THEN Null
        ELSE CASE n.kind = "UnaryOp" ->
                    UnaryVal(token_to_unaryop[n.type], eval[n.kids[1]])
               [] n.kind = "BinaryOp" ->
                    BinaryVal(token_to_binop[n.type],
                              eval[n.kids[1]], eval[n.kids[2]])
               [] OTHER -> n.lit
  IN eval

\* The nodes in the tree under each node: for a plain expression, also the
\* number of instructions that compute it.
Size(nodes) ==
  LET size[k \in DOMAIN nodes] ==
        CASE Len(nodes[k].kids) = 0 -> 1
          [] Len(nodes[k].kids) = 1 -> 1 + size[nodes[k].kids[1]]
          [] OTHER -> 1 + size[nodes[k].kids[1]] + size[nodes[k].kids[2]]
  IN size

\* The constants a plain tree registers.
Leaves(nodes) ==
  LET leaves[k \in DOMAIN nodes] ==
        CASE Len(nodes[k].kids) = 0 -> 1
          [] Len(nodes[k].kids) = 1 -> leaves[nodes[k].kids[1]]
          [] OTHER -> leaves[nodes[k].kids[1]] + leaves[nodes[k].kids[2]]
  IN leaves

\* Some division in the tree under k is undefined.
MayTrap(nodes) ==
  LET trap[k \in DOMAIN nodes] ==
        LET n == nodes[k] IN
        /\ n.kind \in {"UnaryOp", "BinaryOp"}
        /\ \/ \E i \in DOMAIN n.kids : trap[n.kids[i]]
           \/ /\ n.type = "DIV"
              /\ IntDivByZero(OP_DIV, Eval(nodes)[n.kids[1]],
                              Eval(nodes)[n.kids[2]])
  IN trap
=============================================================================
