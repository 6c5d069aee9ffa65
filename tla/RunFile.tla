------------------------------ MODULE RunFile -------------------------------
(***************************************************************************)
(* run_file of main.cpp after slurpFile (module Slurp) has filled the      *)
(* array: scanner, parser, code generator and VM one after the other on    *)
(* each other's results, and then the deletion of the trees through the    *)
(* destructors of expr.hpp.  The components' variables are declared here   *)
(* and their modules instantiated on them; Parser and CodeGen share the    *)
(* heap.                                                                   *)
(***************************************************************************)
EXTENDS Expr, Grammar, SequencesExt

CONSTANTS
  Buffers, MaxConst, MaxIcount,
  Atof(_)              \* atof, on the digits of a token

\* A string may hold any text of a source, and atof returns for any text.
ASSUME ArraysAssumption ==
  \A b \in Buffers :
    /\ b \in Seq(STRING) /\ "NUL" \in Range(b)
    /\ \A i \in 1 .. Len(b) + 1, j \in 0 .. Len(b) :
         SubSeq(b, i, j) \in Str /\ Atof(SubSeq(b, i, j)) \in Num

ASSUME LimitsAssumption == MaxConst \in Nat /\ MaxIcount \in Nat

VARIABLES
  buf, srcbuf, lineno, linepos, tokens, in, word, scan,       \* Scanner
  toks, tokit, calls, outcome,                                \* Parser
  nodes, stmts,                                               \* ... and CodeGen
  cur, work, mark,                                            \* CodeGen
  code, constants, starts,                                    \* ... its Chunk
  status, ip, stack, icount, globals, localvar_stack, printed,    \* ... its VM
  phase,
  doomed,              \* the pointers still to be passed to delete, next first
  freed                \* the pointers that were, in order

S == INSTANCE ScannerProps
P == INSTANCE ParserProps WITH Inputs <- {}
G == INSTANCE CodeGen WITH Programs <- {}

scanVars   == <<buf, srcbuf, lineno, linepos, tokens, in, word, scan>>
parseVars  == <<toks, tokit, calls, outcome>>
treeVars   == <<nodes, stmts>>
genVars    == <<cur, work, mark, code, constants, starts, status, ip, stack,
                icount, globals, localvar_stack, printed>>
deleteVars == <<doomed, freed>>

vars == <<scanVars, parseVars, treeVars, genVars, phase, deleteVars>>

Init ==
  /\ S!Init
  /\ toks = << >> /\ tokit = 1 /\ calls = << >> /\ outcome = "parsing"
  /\ nodes = << >> /\ stmts = << >>
  /\ G!NoVM /\ status = "idle" /\ printed = << >>
  /\ cur = 0 /\ work = << >> /\ mark = 0
  /\ phase = "scan"
  /\ doomed = << >> /\ freed = << >>

-----------------------------------------------------------------------------

Scan ==
  /\ phase = "scan"
  /\ S!Next
  /\ UNCHANGED <<parseVars, treeVars, genVars, phase, deleteVars>>

\* What parseID, parseNum, parseString and parseBool make of a token.
LitOf(t) ==
  CASE t.type = "NUM"             -> NumVal(Atof(t.str))
    [] t.type \in {"ID", "STRING"} -> StrVal(t.str)
    [] t.type \in {"TRUE", "FALSE"} -> BoolVal(t.type = "TRUE")
    [] OTHER                      -> Null

\* What the parser sees of a token.
Word(t) == [type |-> t.type, lit |-> LitOf(t)]

\* Parser parser(tokens), and the call of ParseStatements.
StartParse ==
  /\ phase = "scan"
  /\ scan = "DONE"
  /\ phase' = "parse"
  /\ toks' = [i \in DOMAIN tokens |-> Word(tokens[i])]
  /\ calls' = <<P!Fn("Statements", << >>)>>
  /\ UNCHANGED <<scanVars, tokit, outcome, treeVars, genVars, deleteVars>>

Parse ==
  /\ phase = "parse"
  /\ P!Next
  /\ UNCHANGED <<scanVars, genVars, phase, deleteVars>>

StartCodegen ==
  /\ phase = "parse"
  /\ outcome = "DONE"
  /\ phase' = "codegen"
  /\ UNCHANGED <<scanVars, parseVars, treeVars, genVars, deleteVars>>

Codegen ==
  /\ phase = "codegen"
  /\ G!Next
  /\ UNCHANGED <<scanVars, parseVars, phase, deleteVars>>

StartCleanup ==
  /\ phase = "codegen"
  /\ status = "DONE"
  /\ phase' = "cleanup"
  /\ doomed' = stmts
  /\ UNCHANGED <<scanVars, parseVars, treeVars, genVars, freed>>

\* Mutant of Delete: the destructors of lists and blocks do nothing.
DeleteNoLists ==
  /\ phase = "cleanup"
  /\ doomed # << >>
  /\ freed' = Append(freed, Head(doomed))
  /\ doomed' = (IF nodes[Head(doomed)].kind \in {"CommaList", "Block"} THEN << >>
                ELSE nodes[Head(doomed)].kids) \o Tail(doomed)
  /\ UNCHANGED <<scanVars, parseVars, treeVars, genVars, phase>>

\* delete expr: every destructor deletes all the children.  (That a subscript
\* deletes its second child first makes no difference.)
Delete ==
  /\ phase = "cleanup"
  /\ doomed # << >>
  /\ freed' = Append(freed, Head(doomed))
  /\ doomed' = nodes[Head(doomed)].kids \o Tail(doomed)
  /\ UNCHANGED <<scanVars, parseVars, treeVars, genVars, phase>>

Return ==
  /\ phase = "cleanup"
  /\ doomed = << >>
  /\ phase' = "returned"
  /\ UNCHANGED <<scanVars, parseVars, treeVars, genVars, deleteVars>>

Next ==
  \/ Scan \/ StartParse \/ Parse \/ StartCodegen \/ Codegen
  \/ StartCleanup \/ Delete \/ Return

Spec == Init /\ [][Next]_vars

\* A sequential program keeps running.
FairSpec == Spec /\ WF_vars(Next)

-----------------------------------------------------------------------------
(***************************************************************************)
(* What each phase passes on is what the next one is specified for: the    *)
(* token types of the scanner are the parser's, and the trees of the       *)
(* parser have the shapes that the codegen bodies dereference.             *)
(***************************************************************************)
Handover ==
  /\ phase # "scan" => \A i \in DOMAIN toks : toks[i] \in P!Token
  /\ phase \notin {"scan", "parse"} =>
       Heap(nodes) /\ \A i \in DOMAIN stmts : stmts[i] \in DOMAIN nodes

\* The EmptyExprs that parseIf drops (parse.hpp:222 and 227).
Dropped == {k \in DOMAIN nodes : nodes[k].kind = "If" /\ nodes[k].type = "ELSE"}

(***************************************************************************)
(* Deleting the statements deletes no node twice, and when run_file        *)
(* returns every node has been deleted but one EmptyExpr for each if with  *)
(* an else.                                                                *)
(***************************************************************************)
DeletedOnce ==
  /\ phase = "cleanup" => IsInjective(freed \o doomed)
  /\ phase = "returned" =>
       LET leaked == DOMAIN nodes \ Range(freed)
       IN /\ \A k \in leaked : nodes[k].kind = "Empty"
          /\ Cardinality(leaked) = Cardinality(Dropped)

-----------------------------------------------------------------------------
(***************************************************************************)
(* What a source of expressions and prints means, from its words alone: a  *)
(* statement is what stands between two semicolons, and the program ends   *)
(* before the first token that cannot start a statement.                   *)
(***************************************************************************)

\* The words of the source, as the parser would see them.
Words ==
  LET lexemes == S!Lexemes
  IN [i \in DOMAIN lexemes |-> Word(lexemes[i])]

\* A statement that is run begins at s.
Begins(w, s) == s \in DOMAIN w /\ Reached(w, s) /\ StartsAt(w, s)

\* The last word of the statement that begins at s.
EndOf(w, s) ==
  Min({p \in s .. Len(w) : w[p].type = "SEMICOLON"} \cup {Len(w) + 1}) - 1

\* It is an expression whose operators have an opcode, or prints one.
IsStatement(w, s) ==
  /\ SimpleAt(w, s, EndOf(w, s))
  /\ \A p \in First(w, s) .. EndOf(w, s) :
       AfterOperand(w, p) => w[p].type \in DOMAIN token_to_binop \cup {"RIGHT_PAREN"}

\* The value of the expression between each two words: the last of the
\* weakest operators outside parentheses is the root.
Values(w) ==
  LET val[s \in (DOMAIN w) \X (DOMAIN w)] ==
        LET lo   == s[1]
            hi   == s[2]
            ops  == OuterOps(w, lo, hi)
            root == Root(w, lo, hi)
        IN CASE ops # {} /\ w[root].type \in DOMAIN token_to_binop ->
                  BinaryVal(token_to_binop[w[root].type],
                            val[<<lo, root - 1>>], val[<<root + 1, hi>>])
             [] ops = {} /\ lo < hi /\ w[lo].type \in DOMAIN token_to_unaryop ->
                  UnaryVal(token_to_unaryop[w[lo].type], val[<<lo + 1, hi>>])
             [] ops = {} /\ lo < hi /\ w[lo].type = "LEFT_PAREN" ->
                  val[<<lo + 1, hi - 1>>]
             [] OTHER -> w[lo].lit
  IN val

\* The words lo .. hi that are an instruction.
Coded(w, lo, hi) ==
  {p \in lo .. hi : w[p].type \notin {"LEFT_PAREN", "RIGHT_PAREN"}}

\* What the statement that begins at s prints, if it fits the budget.
Prints(w, s) ==
  IF w[s].type = "PRINT" /\ Cardinality(Coded(w, s, EndOf(w, s))) <= MaxIcount
  THEN <<Values(w)[<<s + 1, EndOf(w, s)>>]>>
  ELSE << >>

\* What the program prints, up to each of its words.
Meaning(w) ==
  LET out[n \in 0 .. Len(w)] ==
        IF n = 0 THEN << >>
        ELSE IF Begins(w, n) THEN out[n - 1] \o Prints(w, n)
        ELSE out[n - 1]
  IN out

(***************************************************************************)
(* From the characters to the output, through all components: if run_file  *)
(* returns, the program printed the values of its print statements in      *)
(* their order, but those that do not fit the budget, and those after the  *)
(* first token that cannot start a statement ("1;;print 2;" prints         *)
(* nothing and says nothing, parse.hpp:94).                                *)
(***************************************************************************)
PrintsMeaning ==
  phase = "returned" /\ ~ S!OpenEnd =>
    LET w == Words
    IN (\A s \in DOMAIN w : Begins(w, s) => IsStatement(w, s))
         => printed = Meaning(w)[Len(w)]

Ended ==
  \/ phase = "returned"
  \/ scan \in {"EXIT", "UNDEFINED"}
  \/ outcome \in P!Stopped
  \/ status \in G!Died

(***************************************************************************)
(* Whatever the file holds, run_file returns or the process ends.          *)
(***************************************************************************)
Terminates == <>Ended
=============================================================================
