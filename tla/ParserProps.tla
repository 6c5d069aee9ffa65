---------------------------- MODULE ParserProps -----------------------------
(***************************************************************************)
(* What makes the parser correct, stated on Parser's states.               *)
(***************************************************************************)
EXTENDS Parser

FnNames == {"ParseExpr", "InfixLoop", "UnaryOp", "Grouping", "Print", "Var",
            "If", "Return", "For", "FnDef", "Block", "EndBlock", "BinaryOp",
            "Call", "Subscript", "CommaList", "Statements", "Terminator"}

\* The frames whose kids are nodes of the heap ns.
Frames(ns) ==
  [fn : FnNames, prec : 0 .. 100, type : TokenType, kids : Seq(DOMAIN ns)]

(***************************************************************************)
(* The type invariant: above all, tokit stays between begin() and end(),   *)
(* every frame holds nodes of the heap, and the heap has the shapes that   *)
(* codegen expects.                                                        *)
(***************************************************************************)
TypeOK ==
  /\ toks \in Seq(Token)
  /\ tokit \in 1 .. Len(toks) + 1
  /\ calls \in Seq(Frames(nodes))
  /\ Heap(nodes)
  /\ stmts \in Seq(DOMAIN nodes)
  /\ outcome \in {"parsing", "DONE"} \cup Stopped
  /\ outcome = "parsing" => calls # << >>

-----------------------------------------------------------------------------

\* Who keeps pointers to nodes: the nodes, the frames of the C++ stack and
\* the result.
Owners ==
  ({"node"} \X DOMAIN nodes) \cup ({"call"} \X DOMAIN calls) \cup {<<"stmts", 0>>}

Held(o) ==
  CASE o[1] = "node" -> nodes[o[2]].kids
    [] o[1] = "call" -> calls[o[2]].kids
    [] OTHER         -> stmts

HoldersOf(k) == {o \in Owners : k \in Range(Held(o))}

(***************************************************************************)
(* The destructors of expr.hpp delete through raw pointers, so no node may *)
(* have two owners (deleted twice) nor be lost while the parser runs       *)
(* (leaked).  The exception is the EmptyExpr that parseIf allocates for an *)
(* else body before it looks for one (parse.hpp:222).                      *)
(***************************************************************************)
SingleOwner ==
  /\ \A o \in Owners : IsInjective(Held(o))
  /\ \A k \in DOMAIN nodes :
       /\ \A o, p \in HoldersOf(k) : o = p
       /\ nodes[k].kind # "Empty" => HoldersOf(k) # {}

-----------------------------------------------------------------------------

Consumed == SubSeq(toks, 1, tokit - 1)

\* The literals and names of the tree under each node, left to right.
Yield(ns) ==
  LET yield[k \in DOMAIN ns] ==
        IF ns[k].kind \in LeafKinds
        THEN <<ns[k].lit>>
        ELSE FlattenSeq([i \in DOMAIN ns[k].kids |-> yield[ns[k].kids[i]]])
  IN yield

YieldOf(ns, ks) == FlattenSeq([i \in DOMAIN ks |-> Yield(ns)[ks[i]]])

\* Those among the tokens s.
LiteralOf(t) == IF t.type \in LeafTypes THEN <<t.lit>> ELSE << >>

Literals(s) == FlattenSeq([i \in DOMAIN s |-> LiteralOf(s[i])])

(***************************************************************************)
(* A parse that succeeds on source whose brackets match loses, repeats and *)
(* reorders nothing: the literals and names of the statements are those of *)
(* the consumed tokens, in order.                                          *)
(***************************************************************************)
YieldIsSource ==
  outcome = "DONE" /\ Balanced(Consumed) =>
    YieldOf(nodes, stmts) = Literals(Consumed)

(***************************************************************************)
(* The recursion is as deep as the source: no call chain runs on without   *)
(* consuming tokens.                                                       *)
(***************************************************************************)
DepthBySource == Len(calls) <= 3 * tokit

(***************************************************************************)
(* consume() has no end test (parse.hpp:377), but a source that closes     *)
(* what it opens is not read past its end: every function that takes a     *)
(* closing token unseen has consumed an opening one.  The exceptions are   *)
(* the block of an if, which takes any token for its brace (parse.hpp:179),*)
(* and a source that ends in "fn name".                                    *)
(***************************************************************************)
OverrunsOnlyIfOpen ==
  outcome = "UNDEFINED" =>
    \/ ~ Balanced(toks)
    \/ \E i \in DOMAIN toks :
         \/ toks[i].type = "IF"
         \/ toks[i].type = "FN" /\ i = Len(toks) - 1

(***************************************************************************)
(* Every input is parsed, rejected or stops the process; no loop of        *)
(* ParseExpr, ParseStatements or parseCommaList spins.                     *)
(***************************************************************************)
Terminates == <>(outcome # "parsing")

-----------------------------------------------------------------------------
\* Trees are compared fully parenthesised: parentheses and operators, as
\* elements of a sequence of literals.
Mark(s) == [tag |-> s]

\* The tree of the tokens lo .. hi, if they are an expression, at <<lo, hi>>.
PrecedenceTree ==
  LET tree[s \in (DOMAIN toks) \X (DOMAIN toks)] ==
        LET lo   == s[1]
            hi   == s[2]
            root == Root(toks, lo, hi)
            type == toks[lo].type
        IN CASE OuterOps(toks, lo, hi) # {} ->
                  <<Mark("(")>> \o tree[<<lo, root - 1>>] \o <<Mark(toks[root].type)>>
                                \o tree[<<root + 1, hi>>] \o <<Mark(")")>>
             [] OuterOps(toks, lo, hi) = {} /\ lo < hi /\ type \in {"BANG", "MINUS"} ->
                  <<Mark("("), Mark(type)>> \o tree[<<lo + 1, hi>>] \o <<Mark(")")>>
             [] OuterOps(toks, lo, hi) = {} /\ lo < hi /\ type = "LEFT_PAREN" ->
                  tree[<<lo + 1, hi - 1>>]
             [] OTHER -> <<toks[lo].lit>>
  IN tree

ByPrecedence == PrecedenceTree[<<1, Len(toks) - 1>>]

Parenthesised(ns) ==
  LET text[k \in DOMAIN ns] ==
        LET n == ns[k] IN
        CASE n.kind = "BinaryOp" ->
               <<Mark("(")>> \o text[n.kids[1]] \o <<Mark(n.type)>>
                             \o text[n.kids[2]] \o <<Mark(")")>>
          [] n.kind = "UnaryOp" ->
               <<Mark("("), Mark(n.type)>> \o text[n.kids[1]] \o <<Mark(")")>>
          [] OTHER -> <<n.lit>>
  IN text

(***************************************************************************)
(* The recursion of ParseExpr with its precedence argument finds the tree  *)
(* that the table of infix precedences defines: operators of equal         *)
(* precedence associate to the left, unary ones bind tightest, and a       *)
(* parenthesised expression is an operand.  The assert on the operand of a *)
(* unary operator stops the process on a name and on nothing else.         *)
(***************************************************************************)
ParsesByPrecedence ==
  outcome # "parsing" /\ IsExprStatement(toks) =>
    \/ NegatesName(toks) /\ outcome = "ABORT"
    \/ /\ ~ NegatesName(toks) /\ outcome = "DONE"
       /\ Len(stmts) = 1
       /\ Parenthesised(nodes)[stmts[1]] = ByPrecedence

-----------------------------------------------------------------------------
(***************************************************************************)
(* "expected paren when parsing call expr" (parse.hpp:161 and 257),        *)
(* "expected closing right-bracket when parsing subscript expr" (307): a   *)
(* parse succeeds only on source whose brackets match.                     *)
(***************************************************************************)
BracketsMatch == outcome = "DONE" => Balanced(Consumed)
=============================================================================
