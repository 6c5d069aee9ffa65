----------------------------- MODULE MCCodeGen ------------------------------
(***************************************************************************)
(* Small instances of CodeGen: the programs are written as trees, which    *)
(* Program lays out in a heap, children first, as the parser allocates.    *)
(* The doubles are those of MCNumbers.                                      *)
(***************************************************************************)
EXTENDS CodeGen, MCNumbers

-----------------------------------------------------------------------------

Tree(kind, type, lit, sub) ==
  [kind |-> kind, type |-> type, lit |-> lit, sub |-> sub]

RECURSIVE Place(_, _)

PlaceAll(trees, heap) ==
  FoldLeft(LAMBDA acc, t : LET h == Place(t, acc.nodes)
                           IN [nodes |-> h, stmts |-> Append(acc.stmts, Len(h))],
           [nodes |-> heap, stmts |-> << >>], trees)

Place(t, heap) ==
  LET placed == PlaceAll(t.sub, heap)
  IN Append(placed.nodes,
            [kind |-> t.kind, type |-> t.type, kids |-> placed.stmts,
             lit |-> t.lit])

Program(trees) == PlaceAll(trees, << >>)

Num_(n)      == Tree("Num", "NONE", NumVal(n), << >>)
Name(s)      == Tree("Name", "NONE", StrVal(s), << >>)
Op(type, a)  == Tree("UnaryOp", type, Null, <<a>>)
Bin(type, a, b) == Tree("BinaryOp", type, Null, <<a, b>>)
Of(kind, a)  == Tree(kind, "NONE", Null, <<a>>)

True_  == Tree("Bool", "NONE", BoolVal(TRUE), << >>)
Text   == Tree("String", "NONE", StrVal("a"), << >>)
Empty  == Tree("Empty", "NONE", Null, << >>)

Unaries(types, args)   == {Op(t, a) : t \in types, a \in args \ {Name("b")}}
Binaries(types, l, r)  == {Bin(t, a, b) : t \in types, a \in l, b \in r}
Assign(e) == Of("Var", Bin("EQUALS", Name("b"), e))

-----------------------------------------------------------------------------
\* Plain expressions of up to seven nodes, alone, printed and assigned.
Atoms == {Num_(2), True_, Name("b")}

Small == Atoms \cup Unaries({"MINUS", "BANG"}, Atoms)
               \cup Binaries({"MINUS", "DIV"}, Atoms, Atoms)

Plains == Small \cup Unaries({"MINUS"}, Small)
                \cup Binaries({"MINUS", "CMP"}, Small, Small)

PlainPrograms ==
  {Program(<<e>>) : e \in UNION {{p, Of("Print", p), Assign(p)} : p \in Plains}}

\* Statements with effects and rejected constructs at any depth.
Bases == {Num_(1), Text}

Wrap1(es) ==
  es \cup {Of(k, e) : k \in {"Print", "Return", "Var"}, e \in es}
     \cup {Assign(e) : e \in es}
     \cup Unaries({"BANG", "COLON"}, es)
     \cup Binaries({"PLUS", "EQUALS"}, es, es)

Effects == Wrap1(Wrap1(Bases \cup {Name("b"), Empty}))

EffectPrograms == {Program(<<e>>) : e \in Effects}

OneStatement == PlainPrograms \cup EffectPrograms

\* Programs of several statements.  The run CodeGen's limits are too low for
\* WideLine's constants and for LongLine's instructions.
WideLine ==
  LET two == Bin("MINUS", Num_(1), Num_(2))
  IN Of("Print", Bin("MINUS", Bin("MINUS", two, two), Num_(1)))

LongLine ==
  LET minus[n \in 0 .. 6] ==
        IF n = 0 THEN Num_(1) ELSE Op("MINUS", minus[n - 1])
  IN Of("Print", minus[6])

Lines == {Num_(1), Of("Print", Num_(2)), Of("Print", Bin("DIV", Text, True_)),
          Of("Print", Bin("PLUS", Op("MINUS", Num_(1)), Num_(2))),
          Assign(Num_(1)), Of("Var", Name("b")), Of("Return", Num_(1)),
          Of("Print", Of("Print", Num_(1))), Of("Call", Empty),
          Bin("DIV", Num_(1), Text), WideLine, LongLine}

LinePrograms == {Program(s) : s \in BoundedSeq(Lines, 3)}

MCPrograms == OneStatement \cup LinePrograms
=============================================================================
