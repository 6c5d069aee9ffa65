------------------------------- MODULE Parser -------------------------------
(***************************************************************************)
(* The Pratt parser of parse.hpp.  The C++ call stack is the sequence      *)
(* calls, innermost call last; a frame's kids are the nodes its callees    *)
(* returned so far, which tell how far its function got.  Every node that  *)
(* new allocates is appended to nodes and never removed.                   *)
(*                                                                         *)
(* consume() past the last token dereferences end(): undefined, and the    *)
(* model stops there.                                                      *)
(***************************************************************************)
EXTENDS Expr, Grammar, SequencesExt

CONSTANT Inputs      \* the token vectors the scanner may return

\* A name carries its characters.
Token == {t \in [type : TokenType, lit : Value] :
            t.type = "ID" => isString(t.lit)}

ASSUME InputsAssumption == Inputs \subseteq Seq(Token)

VARIABLES
  toks, tokit,       \* tokit counts from 1; end() is Len(toks) + 1
  calls,
  nodes,
  stmts,             \* what the outermost ParseStatements returned
  outcome

vars == <<toks, tokit, calls, nodes, stmts, outcome>>

\* A failed assert, exit(1), undefined behaviour.
Stopped == {"ABORT", "EXIT", "UNDEFINED"}

-----------------------------------------------------------------------------
\* endoftokens(), currtype() as seen after n consumed tokens, lasttype().
AtEnd     == tokit = Len(toks) + 1
TypeIn(n) == IF tokit + n <= Len(toks) THEN toks[tokit + n].type ELSE "NONE"
currtype  == TypeIn(0)
lasttype  == toks[tokit - 1].type

-----------------------------------------------------------------------------

Frame(fn, prec, type, kids) ==
  [fn |-> fn, prec |-> prec, type |-> type, kids |-> kids]

ParseExpr(prec)  == Frame("ParseExpr", prec, "NONE", << >>)
InfixLoop(prec, kids) == Frame("InfixLoop", prec, "NONE", kids)
Fn(fn, kids)     == Frame(fn, 0, "NONE", kids)
Typed(fn, type, kids) == Frame(fn, 0, type, kids)

Top   == Last(calls)
Below == Front(calls)

Deliver(frames, ks) ==
  [frames EXCEPT ![Len(frames)].kids = @ \o ks]

New(more) == nodes' = nodes \o more
NewAt     == Len(nodes) + 1

Consume(n) == tokit' = tokit + n

Running(fn) == outcome = "parsing" /\ Top.fn = fn

Keep == UNCHANGED <<toks, stmts, outcome>>

Stop(how) == outcome' = how /\ UNCHANGED <<toks, tokit, calls, nodes, stmts>>

\* Replace the innermost frame.
Become(frames) == calls' = Below \o frames

\* The innermost function returns the node it allocates.
ReturnNew(kind, type, kids) ==
  /\ New(<<Inner(kind, type, kids)>>)
  /\ calls' = Deliver(Below, <<NewAt>>)

\* ... after consuming a closing token, of which the assert only checks that
\* it is not the type of value 0, ID.
Closing(step) ==
  CASE AtEnd           -> Stop("UNDEFINED")
    [] currtype = "ID" -> Stop("ABORT")
    [] OTHER           -> step /\ Consume(1) /\ Keep

Init ==
  /\ toks \in Inputs
  /\ tokit = 1
  /\ calls = <<Fn("Statements", << >>)>>
  /\ nodes = << >>
  /\ stmts = << >>
  /\ outcome = "parsing"

-----------------------------------------------------------------------------
\* ParseExpr: the prefix function of the token, then the loop over infixes.

Prefix(types) == Running("ParseExpr") /\ currtype \in types

\* The prefix function is called: its frame, and the calls it makes first.
CallPrefix(frames) ==
  Become(<<InfixLoop(Top.prec, << >>)>> \o frames)

ParseNothing ==
  /\ Running("ParseExpr")
  /\ AtEnd
  /\ ReturnNew("Empty", "NONE", << >>)
  /\ UNCHANGED tokit
  /\ Keep

ParseLeaf ==
  /\ Prefix(LeafTypes)
  /\ New(<<Leaf(LeafKind[currtype], toks[tokit].lit)>>)
  /\ Become(<<InfixLoop(Top.prec, <<NewAt>>)>>)
  /\ Consume(1)
  /\ Keep

\* Mutant of ParseUnaryOp: the operator is not consumed.
ParseUnaryOpInPlace ==
  /\ Prefix({"BANG", "MINUS"})
  /\ CallPrefix(<<Typed("UnaryOp", currtype, << >>),
                  ParseExpr(PrefixPrec(currtype))>>)
  /\ UNCHANGED <<tokit, nodes>>
  /\ Keep

ParseUnaryOp ==
  /\ Prefix({"BANG", "MINUS"})
  /\ CallPrefix(<<Typed("UnaryOp", currtype, << >>),
                  ParseExpr(PrefixPrec(currtype))>>)
  /\ Consume(1)
  /\ UNCHANGED nodes
  /\ Keep

ParseGrouping ==
  /\ Prefix({"LEFT_PAREN"})
  /\ IF TypeIn(1) = "RIGHT_PAREN"
     THEN /\ New(<<Inner("Empty", "NONE", << >>)>>)
          /\ Become(<<InfixLoop(Top.prec, <<NewAt>>)>>)
          /\ Consume(2)
     ELSE /\ CallPrefix(<<Fn("Grouping", << >>),
                          ParseExpr(PrefixPrec("LEFT_PAREN"))>>)
          /\ Consume(1)
          /\ UNCHANGED nodes
  /\ Keep

ParseKeyword ==
  /\ Prefix({"PRINT", "RET", "VAR", "IF"})
  /\ CallPrefix(
       CASE currtype = "PRINT" -> <<Fn("Print", << >>), ParseExpr(0)>>
         [] currtype = "VAR"   -> <<Fn("Var", << >>), ParseExpr(0)>>
         [] currtype = "IF"    -> <<Fn("If", << >>), ParseExpr(0)>>
         [] currtype = "RET"   -> <<Fn("Return", << >>),
                                    ParseExpr(PrefixPrec("RET"))>>)
  /\ Consume(1)
  /\ UNCHANGED nodes
  /\ Keep

ParseFor ==
  /\ Prefix({"FOR"})
  /\ IF TypeIn(1) # "ID" \/ TypeIn(2) # "COLON"
     THEN Stop("ABORT")
     ELSE /\ New(<<Leaf("Name", toks[tokit + 1].lit)>>)
          /\ CallPrefix(<<Fn("For", <<NewAt>>), ParseExpr(0)>>)
          /\ Consume(3)
          /\ Keep

ParseFnDef ==
  /\ Prefix({"FN"})
  /\ CASE TypeIn(1) # "ID" -> Stop("ABORT")
       [] TypeIn(1) = "ID" /\ tokit + 2 > Len(toks) -> Stop("UNDEFINED")
       [] TypeIn(1) = "ID" /\ tokit + 2 <= Len(toks)
            /\ TypeIn(2) # "LEFT_PAREN" -> Stop("ABORT")
       [] OTHER ->
            LET name == Leaf("Name", toks[tokit + 1].lit) IN
            /\ IF TypeIn(3) = "RIGHT_PAREN"
               THEN /\ New(<<name, Inner("Empty", "NONE", << >>)>>)
                    /\ CallPrefix(<<Fn("FnDef", <<NewAt, NewAt + 1>>)>>)
               ELSE /\ New(<<name>>)
                    /\ CallPrefix(<<Fn("FnDef", <<NewAt>>), ParseExpr(0)>>)
            /\ Consume(3)
            /\ Keep

ParseBlockExpr ==
  /\ Prefix({"LEFT_BRACE"})
  /\ CallPrefix(<<Fn("Block", << >>)>>)
  /\ UNCHANGED <<tokit, nodes>>
  /\ Keep

PrefixBoom ==
  /\ Running("ParseExpr")
  /\ ~ AtEnd
  /\ PrefixPrec(currtype) = PREC_NONE
  /\ Stop("EXIT")

-----------------------------------------------------------------------------

\* The loop goes on with an infix of these types.
Infix(types) ==
  /\ Running("InfixLoop")
  /\ Top.prec < InfixPrec(currtype)
  /\ currtype \in types

\* The infix function takes the loop's expression, and calls.
CallInfix(frames) ==
  Become(<<InfixLoop(Top.prec, << >>)>> \o frames)

EndInfix ==
  /\ Running("InfixLoop")
  /\ Top.prec >= InfixPrec(currtype)
  /\ calls' = Deliver(Below, Top.kids)
  /\ UNCHANGED <<tokit, nodes>>
  /\ Keep

\* Mutant of ParseBinaryOp: the right side takes operators of the same
\* precedence.
ParseBinaryOpToRight ==
  /\ Infix(BinaryTypes)
  /\ CallInfix(<<Typed("BinaryOp", currtype, Top.kids),
                 ParseExpr(InfixPrec(currtype) - 1)>>)
  /\ Consume(1)
  /\ UNCHANGED nodes
  /\ Keep

ParseBinaryOp ==
  /\ Infix(BinaryTypes)
  /\ CallInfix(<<Typed("BinaryOp", currtype, Top.kids),
                 ParseExpr(InfixPrec(currtype))>>)
  /\ Consume(1)
  /\ UNCHANGED nodes
  /\ Keep

\* Mutant of ParseCall: the parenthesis of an empty argument list is consumed
\* as parseGrouping does, and again at the end.
ParseCallTakesBoth ==
  /\ Infix({"LEFT_PAREN"})
  /\ IF nodes[Top.kids[1]].kind # "Name"
     THEN Stop("ABORT")
     ELSE /\ IF TypeIn(1) = "RIGHT_PAREN"
             THEN /\ New(<<Inner("Empty", "NONE", << >>)>>)
                  /\ CallInfix(<<Fn("Call", Append(Top.kids, NewAt))>>)
                  /\ Consume(2)
             ELSE /\ CallInfix(<<Fn("Call", Top.kids), ParseExpr(0)>>)
                  /\ Consume(1)
                  /\ UNCHANGED nodes
          /\ Keep

ParseCall ==
  /\ Infix({"LEFT_PAREN"})
  /\ IF nodes[Top.kids[1]].kind # "Name"
     THEN Stop("ABORT")
     ELSE /\ IF TypeIn(1) = "RIGHT_PAREN"
             THEN /\ New(<<Inner("Empty", "NONE", << >>)>>)
                  /\ CallInfix(<<Fn("Call", Append(Top.kids, NewAt))>>)
             ELSE /\ CallInfix(<<Fn("Call", Top.kids), ParseExpr(0)>>)
                  /\ UNCHANGED nodes
          /\ Consume(1)
          /\ Keep

ParseSubscript ==
  /\ Infix({"LEFT_BRACKET"})
  /\ IF TypeIn(1) = "RIGHT_BRACKET"
     THEN Stop("ABORT")
     ELSE /\ CallInfix(<<Fn("Subscript", Top.kids), ParseExpr(0)>>)
          /\ Consume(1)
          /\ UNCHANGED nodes
          /\ Keep

\* Mutant of ParseCommaList: the first element is not put in the list.
ParseCommaListNoFirst ==
  /\ Infix({"COMMA"})
  /\ CallInfix(<<Fn("CommaList", << >>), ParseExpr(InfixPrec("COMMA"))>>)
  /\ Consume(1)
  /\ UNCHANGED nodes
  /\ Keep

ParseCommaList ==
  /\ Infix({"COMMA"})
  /\ CallInfix(<<Fn("CommaList", Top.kids), ParseExpr(InfixPrec("COMMA"))>>)
  /\ Consume(1)
  /\ UNCHANGED nodes
  /\ Keep

-----------------------------------------------------------------------------
\* The functions go on when a callee has returned.

\* Mutant of EndUnaryOp: the assert of UnaryOpExpr's constructor is gone.
EndUnaryOpUnchecked ==
  /\ Running("UnaryOp")
  /\ ReturnNew("UnaryOp", Top.type, Top.kids)
  /\ UNCHANGED tokit
  /\ Keep

EndUnaryOp ==
  /\ Running("UnaryOp")
  /\ IF nodes[Top.kids[1]].kind = "Name"
     THEN Stop("ABORT")
     ELSE /\ ReturnNew("UnaryOp", Top.type, Top.kids)
          /\ UNCHANGED tokit
          /\ Keep

EndGrouping ==
  /\ Running("Grouping")
  /\ Closing(calls' = Deliver(Below, Top.kids) /\ UNCHANGED nodes)

EndSimple ==
  /\ outcome = "parsing"
  /\ \/ Top.fn \in {"Print", "Return", "Var", "BinaryOp"}
     \/ Top.fn \in {"For", "FnDef", "If"} /\ Len(Top.kids) = 3
  /\ ReturnNew(Top.fn, Top.type, Top.kids)
  /\ UNCHANGED tokit
  /\ Keep

\* Mutant of EndCall: the two children change places.
EndCallSwapped ==
  /\ \/ Running("Call")
     \/ Running("Subscript")
  /\ Closing(ReturnNew(Top.fn, "NONE", Reverse(Top.kids)))

EndCall ==
  /\ \/ Running("Call")
     \/ Running("Subscript")
  /\ Closing(ReturnNew(Top.fn, "NONE", Top.kids))

\* After the range, the body.
ForBody ==
  /\ Running("For")
  /\ Len(Top.kids) = 2
  /\ calls' = Append(calls, ParseExpr(0))
  /\ UNCHANGED <<tokit, nodes>>
  /\ Keep

\* After the arguments, the parenthesis and the body, of which the asserts
\* only check that neither starts with an ID.
FnDefBody ==
  /\ Running("FnDef")
  /\ Len(Top.kids) = 2
  /\ IF ~ AtEnd /\ TypeIn(1) = "ID"
     THEN Stop("ABORT")
     ELSE Closing(calls' = Append(calls, ParseExpr(0)) /\ UNCHANGED nodes)

\* After the condition, parseBlock.
IfBody ==
  /\ Running("If")
  /\ Len(Top.kids) = 1
  /\ calls' = Append(calls, Fn("Block", << >>))
  /\ UNCHANGED <<tokit, nodes>>
  /\ Keep

\* An EmptyExpr is allocated for the else body in any case.
IfElse ==
  /\ Running("If")
  /\ Len(Top.kids) = 2
  /\ New(<<Inner("Empty", "NONE", << >>)>>)
  /\ IF currtype = "ELSE"
     THEN /\ Become(<<Typed("If", "ELSE", Top.kids), Fn("Block", << >>)>>)
          /\ Consume(1)
     ELSE /\ Become(<<Fn("If", Append(Top.kids, NewAt))>>)
          /\ UNCHANGED tokit
  /\ Keep

CommaListNext ==
  /\ Running("CommaList")
  /\ IF currtype = "COMMA"
     THEN /\ calls' = Append(calls, ParseExpr(0))
          /\ Consume(1)
          /\ UNCHANGED nodes
     ELSE /\ ReturnNew("CommaList", "NONE", Top.kids)
          /\ UNCHANGED tokit
  /\ Keep

\* parseBlock consumes the token it is called on, whatever it is.
ParseBlock ==
  /\ Running("Block")
  /\ IF AtEnd
     THEN Stop("UNDEFINED")
     ELSE /\ Become(IF TypeIn(1) = "RIGHT_BRACE"
                    THEN <<Fn("EndBlock", << >>)>>
                    ELSE <<Fn("EndBlock", << >>), Fn("Statements", << >>)>>)
          /\ Consume(1)
          /\ UNCHANGED nodes
          /\ Keep

\* Mutant of EndBlock: statements are parsed until there is a right brace.
EndBlockRetries ==
  /\ Running("EndBlock")
  /\ CASE AtEnd                    -> Stop("UNDEFINED")
       [] currtype = "RIGHT_BRACE" -> /\ ReturnNew("Block", "NONE", Top.kids)
                                      /\ Consume(1)
                                      /\ Keep
       [] OTHER -> /\ calls' = Append(calls, Fn("Statements", << >>))
                   /\ UNCHANGED <<tokit, nodes>>
                   /\ Keep

EndBlock ==
  /\ Running("EndBlock")
  /\ CASE AtEnd                    -> Stop("UNDEFINED")
       [] currtype = "RIGHT_BRACE" -> /\ ReturnNew("Block", "NONE", Top.kids)
                                      /\ Consume(1)
                                      /\ Keep
       [] OTHER                    -> Stop("ABORT")

-----------------------------------------------------------------------------
\* ParseStatements.

StartsStatement == ~ AtEnd /\ 0 < PrefixPrec(currtype)

NextStatement ==
  /\ Running("Statements")
  /\ StartsStatement
  /\ Become(<<Fn("Terminator", Top.kids), ParseExpr(0)>>)
  /\ UNCHANGED <<tokit, nodes>>
  /\ Keep

\* Mutant of Terminator: a token is consumed after a right brace, too.
TerminatorConsumes ==
  /\ Running("Terminator")
  /\ IF currtype # "SEMICOLON" /\ lasttype # "RIGHT_BRACE"
     THEN Stop("EXIT")
     ELSE /\ Become(<<Fn("Statements", Top.kids)>>)
          /\ Consume(1)
          /\ UNCHANGED nodes
          /\ Keep

Terminator ==
  /\ Running("Terminator")
  /\ IF currtype # "SEMICOLON" /\ lasttype # "RIGHT_BRACE"
     THEN Stop("EXIT")
     ELSE /\ Become(<<Fn("Statements", Top.kids)>>)
          /\ tokit' = IF currtype = "SEMICOLON" THEN tokit + 1 ELSE tokit
          /\ UNCHANGED nodes
          /\ Keep

EndStatements ==
  /\ Running("Statements")
  /\ ~ StartsStatement
  /\ IF Len(calls) = 1
     THEN /\ stmts' = Top.kids
          /\ outcome' = "DONE"
          /\ calls' = << >>
     ELSE /\ calls' = Deliver(Below, Top.kids)
          /\ UNCHANGED <<stmts, outcome>>
  /\ UNCHANGED <<toks, tokit, nodes>>

-----------------------------------------------------------------------------

Next ==
  \/ ParseNothing \/ ParseLeaf \/ ParseUnaryOp \/ ParseGrouping
  \/ ParseKeyword \/ ParseFor \/ ParseFnDef \/ ParseBlockExpr \/ PrefixBoom
  \/ EndInfix \/ ParseBinaryOp \/ ParseCall \/ ParseSubscript
  \/ ParseCommaList \/ EndUnaryOp \/ EndGrouping \/ EndSimple \/ EndCall
  \/ ForBody \/ FnDefBody \/ IfBody \/ IfElse \/ CommaListNext
  \/ ParseBlock \/ EndBlock \/ NextStatement \/ Terminator \/ EndStatements

Spec == Init /\ [][Next]_vars

\* A sequential program keeps running.
FairSpec == Spec /\ WF_vars(Next)
=============================================================================
