----------------------------- MODULE MCHandTest -----------------------------
(***************************************************************************)
(* Small instances of HandTest.                                            *)
(***************************************************************************)
EXTENDS HandTest, MCNumbers

MCHandOps == {OP_NOP, OP_POP, OP_NEG, OP_NOT, OP_SUB, OP_DIV, OP_CMP,
              OP_PRINT, OP_RET, OP_EOF}

MCHandVals == {Null, NumVal(0), NumVal(2), BoolVal(TRUE), StrVal("a")}

\* Only constants, and one value: long enough for the index 16.
OneVal == {NumVal(1)}
=============================================================================
