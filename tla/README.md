# A verification development of allgasnobrakes

allgasnobrakes is an interpreter for a small language: a scanner, a Pratt
parser, a code generator and a stack machine, in C++ headers included by
`main.cpp`. It is a sequential program: one process runs the phases one after
the other. What makes it hard to test is not scheduling but long chains of small
conventions between its parts: which words of a chunk are instructions, how deep
the stack is where, who owns a tree node, who consumes which token.

Paths below are relative to the repository; `vm.hpp` stands for `src/vm.hpp`.

## 1. The system

| component | state | operations | interacts with |
|---|---|---|---|
| File input, `fs.cpp` | the array of 200000 bytes, the stream | `slurpFile`: test, measure, read, terminate | the file system; fills the array of `run_file` |
| Scanner, `scan.hpp` | pointer into the array, line and position, tokens | `scan` with its inner loops, `consumeId`, `consumeNum` | returns the tokens; asks `re.cpp` whether a word is a keyword |
| Keywords, `re.cpp`, `slre.cpp` | none | `getKeywordTokenType`, `re_match` with an anchored pattern; `slre` is vendored | called by the scanner |
| Parser, `parse.hpp` | token iterator, C++ call stack, nodes | `ParseStatements`, `ParseExpr`, 13 prefix and 4 infix functions, tables of precedences | returns raw pointers to trees |
| Trees, `expr.hpp` | children, owned through raw pointers | `codegen` of every node class, destructors, `str` | `codegen` appends to a `Chunk` |
| Code generation, `codegen.hpp` | the statement being run | `genCode`: for each statement a fresh chunk, `codegen`, `OP_POP`, a fresh VM, `run` | drives trees, chunk and VM |
| Chunk, `vm.hpp` | code words, constants | `addOp`, `addConst*`, `regConstVal`, `finalize`, `getConst`, `list` | copied into a VM |
| VM, `vm.hpp` | `ip`, stack, globals, stack of local frames | constructor, `run`, `exec` with 17 opcodes and a budget of 50 instructions | prints; returns a status that `genCode` drops |
| Driver, `main.cpp` | the trees | `run_file`: slurp, scan, parse, print, `genCode`, delete | everything |

Control flows down this table's phases; data flows as an array of characters, a
vector of tokens, a vector of tree pointers and, per statement, a chunk. There are
no threads, no callbacks and nothing is persisted. The one foreign actor is another
process changing the input file while `slurpFile` reads it.

What is hard, and what makes each part correct (PROJECT.json lists every hazard
with its line):

* **File input.** Several system calls on a file that may change between them; a
  null that has to fit behind what was measured, not behind what was read.
* **Scanner.** One pointer moved forwards and backwards by five loops; the end of
  the array inside a comment or a string; line and position counts; keywords are
  whole words only because of both anchors of a pattern.
* **Parser.** Precedence by mutual recursion; one owner per node; the leaves of
  the trees are those of the source in order; every loop consumes; closing
  tokens are hardly tested.
* **Trees and code generation.** The stack code must compute the value of the
  tree; a statement must leave the stack as it found it; nothing but output may
  pass from one statement to the next; statements before a failing one have run.
* **Chunk and VM.** Opcodes and constant indices share one stream of words, and
  `list` and `exec` decode it separately: both must stay on instruction
  boundaries. `finalize` looks at the last *word*. There are no jumps, so the
  depth of the stack is a function of the position; every assert of `pop` and
  every read of an empty stack follows from it. The budget cuts statements off.
* **Driver.** Each phase relies on what the one before it left, down to the
  shapes that the codegen bodies dereference; fifteen destructors have to delete
  each node once.

## 2. The modules

| module | models | role |
|---|---|---|
| `Slurp` | `fs.cpp` | `slurpFile` beside another process |
| `Keywords` | `re.cpp`, part of `slre.cpp`, `getKeywordTokenType` | pure definitions |
| `Scanner` | `scan.hpp` | the scanner, one action per turn of a loop |
| `ScannerProps` | | the properties of `Scanner`, the lexemes of a source |
| `Grammar` | the parser's tables | pure definitions: the precedences, and what they say of a text without a parser |
| `Parser` | `parse.hpp` | the parser as an explicit call stack |
| `ParserProps` | | the properties of `Parser` |
| `Bytecode` | `OpCode`, `Value`, `UNARY_OP`, `BINARY_OP` | pure definitions |
| `Chunk` | `struct Chunk` | state and methods of the builder |
| `VM` | `struct VM` | constructor, `list`, one action per case of `exec` |
| `HandTest` | `dumpCode` | a client that builds any chunk by hand and runs it |
| `Expr` | `expr.hpp`'s nodes | heaps of nodes; the meaning of plain expressions |
| `CodeGen` | `codegen.hpp`, the `codegen` bodies | composes `Expr`, `Chunk` and `VM` |
| `Interp` | | abstract: statements run one by one, without chunks or stacks |
| `RunFile` | `run_file`, the destructors | composes `Scanner`, `Parser`, `CodeGen` and the deletion |
| `MCHandTest`, `MCCodeGen`, `MCParser`, `MCScanner`, `MCSlurp`, `MCRunFile`, `MCNumbers` | | small instances |
| `DataLemmas`, `VMProofs`, `HandTestProofs`, `CodeGenProofs`, `ParserProofs`, `ScannerProofs`, `SlurpProofs`, `RunFileProofs` | | theorems |

How state and actions correspond to the code:

* **The file.** `path` names an inode or nothing, `data` holds the content of each
  inode, and an open stream keeps its inode whatever becomes of the path. The other
  process may `Write` in place, `Replace` the file or `Unlink` it between any two
  calls of `slurpFile`; each call is an action, and `fread` may take several.
  `had`, a history variable, is every content of the open file since it was opened.
  A failed `fopen` is not tested by the code: `CRASH`.
* **Characters** are strings of one letter, the null is `"NUL"`; what follows it
  in the array is part of `buf`, since `slurpFile` fills only the front. `in` tells
  which loop runs (`"switch"` the outer one), and `word` what the inner one has
  collected. `EndWord` is `stepback()`, the token and `advance()`. The regular
  expression of a keyword is matched as `slre`'s `bar` does, character by character.
* **Tokens** are types with a literal; a literal is the `Value` the leaf's parsing
  function makes of the text (`LitOf` of `RunFile`, where `atof` is a parameter).
* **The recursion of the parser** is the sequence `calls` of frames. A frame's
  `kids` are the nodes its callees have returned, which tells how far it got; an
  action runs a function from one call of `ParseExpr` or `ParseStatements` to the
  next. `new` appends to `nodes`, which is never shortened, so that a lost pointer
  can be seen.
* **The recursion of `codegen`** is the sequence `work` of tasks still to do: a
  node to generate, or what a body does after its last recursive call. The bodies
  generate children first and then append, so a body is one action (`GenBinary`
  and so on) that replaces its task by those it leads to.
* **Words and positions.** A word of `code` is a number: an opcode is its
  enumerator's value, because `addOp(OpCode(idx))` stores constant indices among
  them. Positions count from 1, so `code.end()` is `Len(code) + 1`; constant
  indices count from 0 as in the code. `metadata` is left out: it is always -1
  and nothing reads it but an assert on its length.
* **Doubles** are the members of a set `Num` with IEEE operations as operator
  constants. Nothing in the models depends on what they compute. A NaN unequal to
  itself is allowed, -0.0 is 0.0.
* **`starts`, `printed`, `mark`** are history variables: the positions appended
  as opcodes, the values printed, and how many had been printed when the
  statement began. No guard reads them.
* **The process's end.** `status` (in the parser `outcome`, in the scanner `scan`)
  names the assert that failed, `EXIT`, a trap, or `CRASH`. Asserts are kept by the
  makefile's flags. Undefined behaviour is a choice between the outcomes of the
  makefile's builds (with and without `-O3`): reading `tos()` of an empty vector
  yields garbage that is only printed, or kills the process; an integer division by
  zero goes on with a value or kills the process with SIGFPE. `consume()` past the
  last token, and reading past the array, are where the models stop, with the
  outcome `UNDEFINED`.
* **DEBUG output** is on in `cfg.hpp`, so `printOp` reads the top of the stack
  after every instruction; that read is modelled, what it prints is not.
* **The driver.** `RunFile` declares the variables of the components and
  instantiates their modules on them; `nodes` and `stmts` are shared by parser and
  code generator. `phase` is the place in `run_file`. A destructor deletes all the
  children of its node: `doomed` holds the pointers still to be deleted, `freed`
  those that were. `slurpFile` is not repeated in it: what `Slurp` says of the array
  (a null behind the bytes read, anything behind it) is what `Buffers` ranges over.

`Interp` is the promise of `genCode` seen from outside: the statements run in
order, one that prints a plain value prints that value, one that does not fit the
budget prints nothing, and no other state passes from one to the next. A
statement with effects inside (a `print` in an operand) may print anything: its
output depends on where the stack underflows, which `DepthIsStatic` describes.

## 3. The runs

| run | checks | bounds |
|---|---|---|
| `HandTest` | `TypeOK`, `Aligned`, `NoBadOperand`, `LoopEndsByBudget`, `DepthIsStatic` | 4 instructions by the client (`finalize` adds two), one opcode of each kind, constants of each tag, 3 constants, a budget of 4 |
| `HandTestEof` | `ChunkEndsInEof`, violated | 18 equal constants |
| `CodeGen` | `TypeOK`, `WellFormed`, `DepthIsStatic`, `ChunkEndsInEof`, `StmtLeavesItsValue`, `PlainStmtOutcome`, `VarBindsItsValue`, `ImplementsInterp`, `Terminates` | single statements: plain trees of up to 7 nodes alone, printed and assigned, effects nested two deep; programs of up to 3 statements of 12 kinds; 4 constants, a budget of 7 |
| `CodeGenStack` | `StackRestored`, violated | the programs of several statements, 2 constants, a budget of 5 |
| `CodeGenGlobal` | `DefinesGlobal`, violated | the same, 4 constants |
| `Parser` | `TypeOK`, `SingleOwner`, `YieldIsSource`, `DepthBySource`, `OverrunsOnlyIfOpen`, `ParsesByPrecedence`, `Terminates` | all candidates for expressions of up to 7 tokens over `+ * - cmp ( )` and numbers; any 3 tokens of 22 types; 6 programs of up to 11 tokens that use every form, with one token dropped, replaced or inserted |
| `ParserBrackets` | `BracketsMatch`, violated | any 3 tokens, and the programs with one token wrong |
| `Scanner` | `TypeOK`, `LexesSource`, `OverrunsOnlyIfOpen`, `PositionIsColumn`, `Terminates` | sources of up to 4 characters of 9 kinds before 4 rests of the array; up to 5 of 6 kinds; each keyword, and words that begin with, end with or repeat one |
| `ScannerEnd` | `StopsAtNull`, violated | as `Scanner` |
| `Slurp` | `TypeOK`, `BytesInPlace`, `Terminates` | files of up to 4 bytes, an array of 4, two inodes |
| `SlurpClose` | `ClosesFile`, violated | as `Slurp` |
| `RunFile` | `Handover`, `DeletedOnce`, `PrintsMeaning`, `Terminates` | sources of up to 3 of 15 pieces of text, 4 constants, a budget of 7 |

What they show:

* `Aligned`, `NoBadOperand`: neither `list` nor `exec` ever takes a constant index
  for an instruction, for any chunk built with the methods of `Chunk`. So the
  default case of `exec` (`vm.hpp:386`) is never reached, and is no action of `VM`.
* `WellFormed`: whatever the trees are, `codegen` emits such chunks.
* `LoopEndsByBudget`: `INF_LOOP` means that the budget ran out, except for the
  chunks of `HandTestEof`.
* `DepthIsStatic`: the depth of the stack is the sum of the effects of the
  instructions before `ip`, and a `pop` assert fails exactly where that is too
  little.
* `StmtLeavesItsValue`, `PlainStmtOutcome`, `VarBindsItsValue`: the stack code of
  plain trees computes `Eval`, the recursive definition of their value, and the
  outcome is OK exactly if the instructions fit the budget. A definition binds its
  own name and no other; in which scope `VarBindsItsValue` does not say, since code
  and comments differ there (`CodeGenGlobal`).
* `ImplementsInterp`: the refinement, under the mapping at the end of `CodeGen`:
  an effect of a statement shows when its run is over.
* `ParsesByPrecedence`: the tree equals the one obtained by splitting at the last
  of the weakest operators outside parentheses, a definition that shares nothing
  with the parser but the table; and the assert of `UnaryOpExpr` stops the parser
  exactly if an operator stands before a name.
* `SingleOwner`, `YieldIsSource`: every node has one owner at every moment, also
  in parses that fail later; the leaves of a successful parse of balanced source
  are the source's, in order. The only leak is the `EmptyExpr` of `parseIf`.
* `DepthBySource`, and `Terminates` of `Parser`: no recursion and no loop goes on
  without consuming tokens.
* `OverrunsOnlyIfOpen` of `Parser`: `consume` has no end test, but source whose
  brackets match is not read past its end, though every closing token is consumed
  unseen; but for an `if`, whose block takes any token for its brace, and source
  that ends in `fn name`.
* `LexesSource`: the tokens are the lexemes of the source, which `Lexemes` defines
  by giving each character a role from its predecessor's, with their lines and the
  right keyword; an unknown character, and nothing else, ends the process; the rest
  of the array is scanned only if the source ends in a comment or a string
  (`OverrunsOnlyIfOpen`). `PositionIsColumn` says what a position counts.
* `BytesInPlace`: on SUCCESS the null is at `filesize` and each byte before it is
  one that the file read had at that index while it was open, or what the array
  held before where the file was shorter. `Terminates` of `Slurp` holds although
  the other process may change the file for ever.
* `Handover`: the scanner's tokens are the parser's, and its trees have the shapes
  on which the codegen bodies rely. `DeletedOnce`: no node is deleted twice, and all
  are deleted but one `EmptyExpr` for each `if` with an `else`.
* `PrintsMeaning`: from the characters to the output. What is printed is what the
  words of the source mean (`Meaning` of the lexemes' `Words`), a definition that
  knows of no tree, chunk or stack: `Values` is the value of each stretch of words, by
  the precedences; `Prints` what a statement adds to the output, nothing if it does
  not fit the budget; and what follows the first token that cannot start a statement
  (`1;;print 2;`) does not begin one (`Begins`), and is not run.

Why the bounds are enough. An instruction touches at most two stack slots and one
operand, so four instructions around a finalized end meet every neighbour an
instruction can have; the budget and the constant table are constants of the
models, set low enough to be exhausted in the middle of every kind of statement,
and the proofs of section 4 hold for all values. Seven nodes (and seven tokens)
have every pair of operators in every nesting on either side. The parser's
functions look at most three tokens ahead and at one behind. A loop of the scanner
sees one character and leaves one behind, so three characters meet every pair of
loops and the fourth the state they leave. An array of four is filled in up to three
reads, with a write between any two, by files that are shorter, as long and longer.
The pieces of `RunFile` hold every kind of node and rejected text between
statements; three of them put a failure before, between and after statements that
print.

In the models, integers other than `Num` do not overflow: the constant index is
below 255 and `icount` at most 50. `NaN`, strings, names and inodes are symmetric,
but the state spaces are small and no symmetry is declared.

Next to a definition its *mutants* are written down: forms of it with a plausible
slip (`PoolFullLate`, `GenBinarySwapped`). None is used by a specification.
PROJECT.json says which property finds each one.

**Fairness.** `FairSpec` of `CodeGen`, `Parser`, `Scanner` and `RunFile` is weak
fairness of the whole next-state relation: the process is sequential and keeps
running, nothing else is assumed. In `Slurp` only the actions of `slurpFile` are
fair; the other process may do anything or nothing, and a read need not ever fail.
No other run needs fairness. `CHECK_DEADLOCK FALSE` is set because a process that
has ended takes no step; in `Slurp` the other process always can.

### Divergences met

Each is a run that finds the quoted claim violated; all but that of `SlurpClose`,
which needs a failing disk or a directory for a file, were reproduced with the
program built by g++.

* `print 1;` pops the null the VM put under the statement's value
  (`codegen.hpp:28-30` say the stack is restored), and reads the top of an empty
  vector: `CodeGenStack`.
* A chunk may end without `OP_EOF` (`vm.hpp:153`): `HandTestEof`. `genCode` never
  produces one, since its chunks end in `OP_POP`.
* `(a};` is accepted (`parse.hpp:161`): `ParserBrackets`.
* Definitions are local to a VM that lives for one statement, though comments say
  they are global (`expr.hpp:204`, `vm.hpp:377`, `TODO:1`): `CodeGenGlobal`. `Interp`
  has no variables, since nothing passes between its statements.
* A comment on the last line without a newline, or an open string, takes the
  terminating null with it and the scan goes on behind the source: `ScannerEnd`.
* A read error leaves the stream open (`fs.cpp:42`): `SlurpClose`.

More have no run of their own:

* `elif` (`syntax.txt:8`, `test/input/test01:6`) is not a keyword, it is scanned as a
  name, and the parser stops with `EXIT` at the word after it.
* `s, a, b, c` is `(s, a, (b, c))` (`parse.hpp:316`); `{} - 1;` subtracts from a
  block (`parse.hpp:119`); `fn f() 1;` is accepted although `parse.hpp:290` expects a
  block; a bare `ret` (`syntax.txt:13`) is rejected. All of these are behaviours of
  `Parser`.
* Positions count from 0 in the first line and from 1 after it, a comment does not
  reset them, and one at the end of the file counts a line. `PositionIsColumn` is
  stated for sources without comments and strings for that reason.

## 4. The proofs

| theorem | module | says |
|---|---|---|
| `HandTestInv` | `HandTestProofs` | `Spec => []VMInv` |
| `HandTestTypeOK`, `HandTestAligned`, `HandTestNoBadOperand`, `HandTestLoopEnds` | `HandTestProofs` | `Spec => []TypeOK` and so on, `LoopEndsByBudget` for the last |
| `CodeGenInv` | `CodeGenProofs` | `Spec => []GenInv` |
| `CodeGenTypeOK`, `CodeGenWellFormed`, `CodeGenEndsInEof` | `CodeGenProofs` | `Spec => []TypeOK`, `[]WellFormed`, `[]ChunkEndsInEof` |
| `CodeGenDecodes` | `CodeGenProofs` | in `genCode`, `INF_LOOP` means the budget is spent, and `Aligned` and `NoBadOperand` hold |
| `HandTestDepth`, `CodeGenDepth` | `HandTestProofs`, `CodeGenProofs` | `Spec => []DepthIsStatic`, for each client of the VM |
| `CompilerInv` | `CodeGenProofs` | `Spec => [](GenInv /\ SimpleInv)` |
| `CompilerIsCorrect`, `PlainStmtsReturn`, `VarsBind` | `CodeGenProofs` | `Spec => []StmtLeavesItsValue`, `[]PlainStmtOutcome`, `[]VarBindsItsValue` |
| `CodeGenRefines` | `CodeGenProofs` | `Spec => ImplementsInterp` |
| `ParserInvariant` | `ParserProofs` | `Spec => []ParserInv` |
| `ParserTypeOK`, `ParserDepthBySource` | `ParserProofs` | `Spec => []TypeOK`, `[]DepthBySource` |
| `ParserSingleOwner` | `ParserProofs` | `Spec => []SingleOwner` |
| `ParserYields` | `ParserProofs` | `Spec => []YieldIsSource` |
| `ParserPrecInvariant`, `ParserByPrecedence` | `ParserProofs` | `Spec => [](ParserInv /\ PrecInv)`, `Spec => []ParsesByPrecedence` |
| `ScannerTypeOK`, `ScannerLexesSource`, `ScannerOverruns`, `ScannerPositions` | `ScannerProofs` | `Spec => []TypeOK`, `[]LexesSource`, `[]OverrunsOnlyIfOpen`, `[]PositionIsColumn` |
| `RunFileHandover`, `RunFileDeletes`, `RunFilePrintsMeaning` | `RunFileProofs` | `Spec => []Handover`, `[]DeletedOnce`, `[]PrintsMeaning` |
| `SlurpInvariant` | `SlurpProofs` | `Spec => []SlurpInv` |
| `SlurpTypeOK`, `SlurpBytesInPlace` | `SlurpProofs` | `Spec => []TypeOK`, `[]BytesInPlace` |

They hold for every value of the constants: for every `Num`, `Str`, `MaxConst`,
`MaxIcount`, for chunks of any length, programs of any number of trees of any size,
token vectors of any length, and arrays, files and writes of any size. The
assumptions are those the modules state: `NumAssumption` (the operations stay in
`Num`), the bounds are naturals, `HandAssumption`: the client passes `addOp` opcodes
without an operand only, `ProgramsAssumption`: what the parser returns is a heap of
well-shaped nodes (`Heap`) and statements in it, `InputsAssumption`: the scanner
returns tokens, `SlurpAssumption`: the array's old content is told apart
from the null and the file's bytes, among which there may be nulls, and `ArraysAssumption` of `RunFile`: an array has a null,
a string may hold any text of it, and `atof` returns a double for any text;
`LimitsAssumption` says of it that the two bounds are naturals.

**Chunk and VM.** `VMProofs` has the lemmas for any client. `VMInv` is
`VMTypeOK /\ WellFormed /\ Aligned /\ NoBadOperand`. None of the four is
inductive alone: `Aligned` needs to know that the word after an operand is an opcode
again or the end, which is `WellFormed`; `NoBadOperand` and `VMTypeOK` (that `ip` is
not past the end) need to know that the word at `ip` is an opcode, which is `Aligned`.
`WellFormed` is kept by every method of `Chunk`, including a `finalize` on a chunk
whose last word is an operand. `LoopEndsByBudget` needs more: `EofInv` says that a
finalized chunk ends in the number of `OP_EOF` and that `ip` passes the last word
only where that word was an operand.

**Code generation.** `GenInv` is
`VMInv /\ EofInv /\ TypeOK /\ WalkInv /\ ChunkEndsInEof`. A chunk built by
hand may end in an operand that reads as `OP_EOF` (run `HandTestEof`); that one of
`genCode` does not follows from the task list. `WalkInv` says that the last task of a
walk is `genCode`'s own `OP_POP`, and that a walk with no task left has ended its chunk
in that opcode; every step but the last replaces the head of a longer list (`WalkStep`),
so only `OP_POP` can be the last word. `finalize` then adds `OP_RET` and `OP_EOF`, and
with `LoopEndsByBudget` an `INF_LOOP` is always the budget. `TypeOK` of `CodeGen` is in
the invariant because the tasks must point into the heap, whose nodes have the
children and literals their kind promises, for the emitted words to be well formed.

**Parser.** `TypeOK` of the parser contains `Heap(nodes)`: children precede their
parents, and a node has the number of children and the literals its kind promises.
That a `BinaryOp` gets two children depends on how many its frame holds when it goes
on, so `ParserInv` is `TypeOK /\ Shape(calls, tokit, nodes)`. `Shape` says of each
frame of the call stack how many nodes it holds, one fewer while a callee runs; that
`ParseStatements` is called by `run_file` and `parseBlock` only, which is why every
other function returns exactly one node to its caller; and that the frame at place `i`
has `i + Room <= 3 * tokit`, where `Room` is how many more frames its function may
need before it consumes a token. The lemmas `BecomeShape` and `ReturnShape` show that
replacing the innermost frame and returning from it keep the shape, once for all
actions; the lemma of an action only supplies the frames. `DepthBySource` is the bound
at the top of the stack. `Heap(nodes)` with `stmts` in it is exactly
`ProgramsAssumption` of `CodeGen`, so the theorems about code generation rest on
nothing but the parser.

**Ownership.** `SingleOwner` asks of every state, also in a parse that fails later,
that a node is in one place: once among the children of a node, the nodes a function
holds, or the result; only an `EmptyExpr` may be in none. `OwnerInv` states it of
`Holdings`, which gives each owner what it holds, so that a step can be described by
the owners it touches: `Rewires` says that these hold among them, each once, what they
held before and what was allocated, and all other owners what they held (`Rewired`,
proved once, then keeps `Owned`). A
step pushes frames on the innermost one, returns a node to its caller, or makes the
kids of a frame the children of a new node; there is one lemma for each of these
shapes, and the lemma of an action shows that it has one. `OwnerInv` also needs `Lean`
(a `ParseExpr` or `Block` frame is innermost and holds nothing, so replacing it loses
nothing) and that the result is empty until the parse is over. That
the children of a new node are all that the frame held rests on the counts of `Shape`.
`OwnerInv` also counts the nodes that are in no place (`Lost`): there is one for each
`if` node with an `else` (`Elses`) and one for each `parseIf` that waits for its else
body (`Waits`). By `RewiredLost` a step loses of the new nodes those it gives no place;
only `IfElse` does that, as its frame begins to wait, and the frame's return makes it
an `if` node.

**The leaves in order.** What a running parser has of the source is spread over the
call stack: `Carried` is the nodes that the frames hold, outermost first, and one
would like `YieldOf(nodes, Carried(calls)) = Literals(Consumed)` at every step. That
is not so: `consume` does not look at the closing token it takes (run
`ParserBrackets`), so a literal may be swallowed in place of one, and whether the
source was balanced is known only at the end. `Due` is no help for a running parse
(a function knows nothing of a mismatch), but a weight is. `Weight` counts 1 for
`(`, `[` and `}`, the brackets a function takes after it looked, and -1 for `)`,
`]` and `{`, those it takes unseen; tokens that are `Balanced` weigh 0
(`BalancedWeighs`). `Load` is the weight of what the frames have yet to take. `YieldInv`
says that `Slack == Weight(Consumed) - Load(calls)` is never negative, and that the
leaves are the source's as long as it is 0. A closing token that is none weighs more
than the bracket in its place, so the slack grows with every literal that is lost and
never shrinks (`Carries`); at the end of a balanced parse it is 0. The lemmas about a
step have one shape (`Shifts`, `Reads`, `Tells`): what it puts in the innermost frame's
place, what it consumes, and what the trees say after it. That trees only grow
(`YieldGrows`), and what `FlattenSeq` and a sum do to a concatenation, is induction
over the data by `Recursion` and `StepInduction`. `YieldInv` was given to TLC as an
invariant of the run `Parser` before it was proved.

**Precedence.** `ParsesByPrecedence` is about the result of a parse; `PrecInv` says
for every step what the frames stand for. It speaks of source whose statements are
expressions and prints of expressions (`Plainly`; one statement is a special case). The
frames of the call stack are `Linked` at the positions where they were called: each
`Awaits` the expression that its callee parses, with the nodes it holds for what it has
read, and with the precedence it passed. The innermost one is `Doing` one of three
things: it begins, it continues with a left operand (`Holding`), or it resumes with
what its callee returned (`Result`). The heart of both is a pair of bounds:
a `ParseExpr(prec)` that looks for an infix at `t` holds a tree of the tokens read so
far whose operators outside parentheses are all stronger than `prec` (`Above`) and at
least as strong as the token at `t` (`AtLeast`). Between statements, the nodes of
`ParseStatements` are those of the statements read (`Laid`). `PrecInv` also says where
the process can stop: in the assert of `UnaryOpExpr` only behind a prefix operator
whose operand is a name in parentheses (`Wraps`), and at an `expect` only at the end.
That a node stands for a stretch of tokens (`TreeOf`) is the least relation closed
under four rules (`Rules`: a literal, a prefix operator, parentheses, an infix
operator), so that a fact about every tree is proved by giving a relation closed
under the rules: `TreeNamed`, that a tree is a name only if its tokens are a name in
parentheses, for the assert; `TreeText`, that its parenthesised text is
`PrecedenceTree`, for the theorem. The last step is that the operator at which a rule
splits is the last of the weakest (`RootIs`). `RankedRecursion` of `DataLemmas` unfolds
the two recursive functions.

**File input.** `SlurpInv` is `TypeOK /\ ReadInv /\ BytesInPlace`. `ReadInv` says what
is known while `fread` is under way: the first `got` bytes were each in some content
of the open file (`FilledSoFar`), nothing is behind them, and when `fread` has ended
early some content was that short at each missing index (`MetTheEnd`). The other
process only adds to `had`, so it keeps all three.

**The compiled code.** `SimpleInv` says, of each statement that is a plain tree alone,
printed or bound (`Simple`), what is true in each of its phases (`Phase`). While
`genCode` walks the tree (`Walking`), a `Trace` runs the code written so far on a
stack from its first instruction on, and a `Plan` tells how each task still on the
list will change that stack, so that the last one leaves it with the null of the
constructor and `Eval` of the tree, after `Size` instructions and with at most
`Leaves` constants. A step of the walk makes the plan's next step the trace's last
one, or replaces the plan's step for a node by those for its children: the induction
over the tree is an induction over the walk. When the task list is down to what
genCode adds itself, the trace leads to the tree's value (`Computed`), and `Running`
follows it: after `icount` instructions the VM is at the trace's place with the
trace's stack. `CompilerIsCorrect`, `PlainStmtsReturn` and `VarsBind` read the
properties off the end of the phases. `SimpleInv` quantifies over the sequences of
positions and stacks of a trace, which TLC cannot enumerate; what TLC checks are the
three properties it was made for. The lemmas that unfold `Eval`, `Size` and `Leaves`
rest on `Recursion` and `StepInduction` of `DataLemmas`. The proof needed
`Eval` to test for plainness before it looks at the kind of the node: with both as
arms of one `CASE`, whose arms overlapped, the value of a tree was any that an arm
gives.

**The refinement.** `CodeGenRefines` shows `Spec => Interp!Spec` under the mapping at
the end of `CodeGen`: initial state to initial state, and each step to a step or a
stutter, given `RefInv` before and after it. `RefInv` is `GenInv /\ SimpleInv` and
that a statement under way has a number. Three kinds of step show in `Interp`: the
one with which a statement returns, which is `Interp`'s statement and must print what
that may print, for a plain one nothing or `Eval` (by `SimpleInv`); the one with which
the process dies; and the end of the loop. Every other step is a stutter.

**Depth.** `DepthIsStatic` speaks of `StaticDepth`, a sum over the positions before
`ip`. Given `VMInv` it is inductive: an instruction moves `ip` to the next position
in `starts`, and changes the stack by its `Effect`; appending to the code while no VM
exists cannot disturb it. The lemmas are in `VMProofs`, for both clients.

**Scanner.** `LexesSource` compares the tokens of a finished scan with lexemes that
are defined by a role for each character. `LexInv` states it of every state: before
the pointer passes the null, `Within` says what the running loop knows (in
`"switch"`, that the tokens are exactly the lexemes that begin before the pointer
(`Finished`) and that no word goes on at it, in an inner loop, that `word` is
the text since the character at which the lexeme began and that all of it has the
loop's role), and that lines and, in a source without comments and strings, positions
are counted (`Counted`); behind the null (`Beyond`), that the source ended open and
that the tokens begin with its lexemes, which no later step takes away. `EndsWell`
says why the scan is over. `LexInv` and the type invariant `TypeInv` were also given
to TLC as invariants of the run `Scanner`. That a word gets the type of the keyword
it equals and of no other (`KeywordType`) is shown of the loop of `slre`'s `bar`
turn by turn: `j` at turn `i` is the number of pattern characters before `i` that take
one of the text (a cardinality, `taken`). `Role`, `StartsUpTo` and `StaticDepth` are
recursive functions: an operator declared `RECURSIVE` cannot be reasoned about.

**The composition.** `RunInv` says that while the scanner runs, its `TypeInv` and
`TextInv` hold and the parser has not begun, that from then on `ParserInv` and
`OwnerInv` hold, and that the deletion is under way (`Deleting`) when the VM is done.
`RunFileProofs` gets them from the modules of the parts, instantiated on `RunFile`'s
variables: `ScannerSame` and `ParserSame` show that each action of `RunFile`'s
instances is one of theirs, and `Assumed` that `ArraysAssumption` and `NumAssumption`
imply what the parts assume. `TokensLexed` is the handover itself: a token's text is
a piece of the array (`TextInv`), so `LitOf` makes a value of it, and its type is one
of the parser's. `TreesKept` shows that code generation does not write to the trees.

**The output.** `RunFilePrintsMeaning` joins the invariants of all parts. `MeanInv`
says that `LexInv` holds while the scanner runs and that nothing has been generated
before the parser is done (`Unrun`); that from then on `PrecInv` holds and the
parser's tokens are the words of the source, unless it ends open; and that `RefInv`
and `UtterInv` hold from `genCode` on. `UtterInv`, in `CodeGenProofs`, follows the
refinement to `Interp`: what has been printed is what the statements that have
returned utter (`Utter`), in their order. The parts meet in three places. Where the
scanner is done, its tokens have the lexemes' types and texts (`WordsScanned`, from
`LexInvLexes`). Where `run_file` returns, the trees stand for the stretches of the
words (`Laid`, from `PrecInv`), and a tree computes the value of its stretch in as
many instructions as the stretch has words but parentheses (`TreeValue`, by the rules
that define `TreeOf`, with `NodeMeaning` for each node), so that a statement fits the
budget by its tree if it does by its words. And the output, statement by statement, is
`Meaning`, word by word (`ProgramSpeaks`): between two statements' first words it does
not change. `GenSame`, `ScannerSame` and the other lemmas of this name are needed
since each part's definitions are instantiated once more.

**The deletion.** A parse that is `DONE` has no calls left, so `OwnerInv` says of it
that its nodes are a `Forest`: each is a statement or a child of one other node, once,
but as many `EmptyExpr`s as there are `if`s with an `else`. That the pointers still to
be deleted are all different is not inductive: the children which a destructor adds
must be new to both lists. `Deleting` therefore says that a node is met (is in either
list) only if it is a statement or its parent has been freed, and that the children of
what was freed are met. At the end everything placed is freed (`DeletionEnds`): of the
placed nodes that are not, the one allocated last would have a parent, which is younger
and not freed either. `Forest` and `Deleting` were given to TLC as invariants of the
run `RunFile` before they were proved.

**What the proofs about recursive functions rest on.** The library's induction
theorems take an operator as a parameter and cannot be used here. `DataLemmas` proves
`IntervalInduction` and `StepInduction` for a *set* of naturals, from the well-founded
order of the naturals, and `RankedRecursion`, that a function defined by recursion
along a rank satisfies its equation, with `Recursion` for an interval as a corollary;
everything about `Eval`, `Role`, `StaticDepth`, `Due`, `Yield`, `FlattenSeq`,
`PrecedenceTree`, `Values` and `Meaning` follows from these.

Model-checked only:

* The liveness properties (`Terminates` of four runs): the proof system has no rule
  for `WF`, and no `ENABLED`.
* `OverrunsOnlyIfOpen` of `Parser`. The scanner's property of that name is a theorem.
* What the runs refute.

## 5. Not modelled, and the plan

Not modelled: what is printed (`tostr`, `str`, `list`'s text, `dumpSourceListing`,
timing, colours); `get_abspath`, which nothing calls; `main`'s choice by the number of
arguments; `run_prompt` and `run_vm`, which do nothing; the stale file `src/'`, which
no rule compiles. Of the vendored `slre` only what a pattern `^word$` reaches is
modelled: its sets, quantifiers, brackets and escapes cannot be reached from this
program.

The plan's models are all written: the machine (`Bytecode`, `Chunk`, `VM`,
`HandTest`), the compiler (`Expr`, `CodeGen`) with `Interp` above it, the parser, the
scanner with its keywords, the file input and the driver. Every invariant that a
passing run checks but one (`OverrunsOnlyIfOpen` of `Parser`) is also a theorem of
section 4, and so is the refinement; what is left to TLC alone are that one, the
liveness properties and the counterexamples.
