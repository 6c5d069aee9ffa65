----------------------------- MODULE SlurpProofs -----------------------------
(***************************************************************************)
(* Theorems about slurpFile for arrays and files of any size, any number   *)
(* of files and any writes, replacements and removals between its calls.   *)
(***************************************************************************)
EXTENDS Slurp, SequenceTheorems, TLAPS

\* What is known of the array while slurpFile runs: nothing is in it before
\* fread; fread has filled the first got bytes, each from some content of the
\* open file; and it stopped because it had all or met the end of the file.
FilledSoFar ==
  /\ \A i \in 0 .. got - 1 :
       \E v \in had : i < Len(v) /\ contents[i] = v[i + 1]
  /\ \A i \in Index : i >= got => contents[i] = Garbage

MetTheEnd == \A i \in got .. filesize - 1 : \E v \in had : Len(v) <= i

ReadInv ==
  /\ fp # None => data[fp] \in had
  /\ pc \in {"exists", "open to measure", "fstat", "open to read"} =>
       got = 0 /\ ~ ferror
  /\ pc \notin Stopped /\ ~ ferror => FilledSoFar
  /\ pc \in {"ferror", "terminate"} /\ ~ ferror => MetTheEnd
  /\ pc = "fread" \/ pc = "terminate" => ~ ferror

SlurpInv == TypeOK /\ ReadInv /\ BytesInPlace

-----------------------------------------------------------------------------
LEMMA Constants == MaxFileSize \in Nat \ {0} /\ None \notin Inodes
BY SlurpAssumption

LEMMA SlurpInit == Init => SlurpInv
<1> SUFFICES ASSUME Init
             PROVE  SlurpInv
  OBVIOUS
<1> USE Constants
<1>1. TypeOK
  <2>1. contents \in [Index -> Bytes \cup {NUL, Garbage}]
    BY DEF Init
  <2>2. /\ pc = "exists" /\ fp = None /\ filesize = 0 /\ got = 0
        /\ ferror = FALSE /\ had = {}
        /\ path \in Inodes \cup {None} /\ data \in [Inodes -> Versions]
    BY DEF Init
  <2>3. filesize \in Nat /\ got \in 0 .. filesize
    BY <2>2
  <2>5. ferror \in BOOLEAN
    BY <2>2, Zenon
  <2>4. pc \notin {"fstat", "fread", "ferror", "terminate", "open to read",
                  "SUCCESS"}
    BY <2>2
  <2> QED BY <2>1, <2>2, <2>3, <2>4, <2>5 DEF TypeOK
<1>2. FilledSoFar
  BY DEF Init, FilledSoFar
<1>3. ReadInv
  BY <1>2 DEF Init, ReadInv
<1>4. BytesInPlace
  BY DEF Init, BytesInPlace
<1> QED BY <1>1, <1>3, <1>4 DEF SlurpInv

\* The other process changes neither the reader's variables nor a content of
\* the open file that is not noted.
LEMMA EnvironmentStep == SlurpInv /\ Environment => SlurpInv'
<1> SUFFICES ASSUME SlurpInv, Environment
             PROVE  SlurpInv'
  OBVIOUS
<1>1. UNCHANGED procVars
  BY DEF Environment, Write, Replace, Unlink
<1>2. /\ had \subseteq had' /\ had' \subseteq Versions
      /\ path' \in Inodes \cup {None} /\ data' \in [Inodes -> Versions]
      /\ fp # None => data'[fp] \in had'
  BY DEF SlurpInv, TypeOK, ReadInv, Environment, Write, Replace, Unlink
<1>3. TypeOK'
  BY <1>1, <1>2 DEF SlurpInv, TypeOK, procVars, Stopped, Index
<1>4. /\ FilledSoFar => FilledSoFar'
      /\ MetTheEnd => MetTheEnd'
  BY <1>1, <1>2 DEF FilledSoFar, MetTheEnd, procVars
<1>5. ReadInv'
  BY <1>1, <1>2, <1>4 DEF SlurpInv, ReadInv, procVars
<1>6. BytesInPlace'
  BY <1>1, <1>2 DEF SlurpInv, BytesInPlace, procVars
<1> QED BY <1>3, <1>5, <1>6 DEF SlurpInv

LEMMA ReaderStep == SlurpInv /\ (slurpFile \/ FailRead) => SlurpInv'
<1> SUFFICES ASSUME SlurpInv, slurpFile \/ FailRead
             PROVE  SlurpInv'
  OBVIOUS
<1> USE Constants DEF At, Goto, diskVars, Stopped
<1>1. CASE FileExists
  <2>1. TypeOK'
    BY <1>1 DEF FileExists, SlurpInv, TypeOK
  <2>2. ReadInv'
    BY <1>1 DEF FileExists, SlurpInv, ReadInv, FilledSoFar
  <2> QED BY <1>1, <2>1, <2>2 DEF FileExists, SlurpInv, BytesInPlace
<1>2. CASE Open
  <2>1. TypeOK'
    BY <1>2 DEF Open, SlurpInv, TypeOK
  <2>2. got = 0 /\ ~ ferror /\ FilledSoFar
    BY <1>2 DEF Open, SlurpInv, ReadInv
  <2>3. FilledSoFar'
    <3>1. UNCHANGED <<got, contents>>
      BY <1>2 DEF Open
    <3> QED BY <2>2, <3>1 DEF FilledSoFar
  <2>4. fp' # None => data'[fp'] \in had'
    BY <1>2 DEF Open
  <2>5. pc' \in {"CRASH", "fstat", "fread"} /\ UNCHANGED <<got, ferror>>
    BY <1>2 DEF Open
  <2>6. ReadInv'
    BY <2>2, <2>3, <2>4, <2>5 DEF ReadInv
  <2> QED BY <1>2, <2>1, <2>5, <2>6 DEF Open, SlurpInv, BytesInPlace
<1>3. CASE Measure
  <2>1. /\ pc = "fstat" /\ fp \in Inodes /\ data[fp] \in Seq(Bytes)
        /\ filesize' = Len(data[fp]) /\ filesize' \in Nat
    <3>1. pc = "fstat" /\ filesize' = Len(data[fp])
      BY <1>3 DEF Measure
    <3>2. fp \in Inodes /\ data[fp] \in Versions
      BY <3>1 DEF SlurpInv, TypeOK
    <3> QED BY <3>1, <3>2, SlurpAssumption
  <2>2. got = 0 /\ ~ ferror /\ FilledSoFar
    BY <2>1 DEF SlurpInv, ReadInv
  <2>3. filesize' < MaxFileSize => filesize' \in Index
    BY <2>1 DEF Index
  <2>4. TypeOK'
    <3>1. /\ UNCHANGED <<path, data, got, ferror, contents, had>>
          /\ fp' = None
          /\ pc' = IF filesize' < MaxFileSize THEN "open to read" ELSE "ABORT"
      BY <1>3 DEF Measure
    <3>2. \/ pc' = "open to read" /\ filesize' \in Index
          \/ pc' = "ABORT"
      BY <2>3, <3>1
    <3>3. got' \in 0 .. filesize'
      <4>1. got' = 0
        BY <2>2, <3>1, Zenon
      <4> QED BY <2>1, <4>1
    <3> QED BY <2>1, <3>1, <3>2, <3>3 DEF SlurpInv, TypeOK
  <2>5. ReadInv'
    BY <1>3, <2>2 DEF Measure, SlurpInv, ReadInv, FilledSoFar
  <2> QED BY <1>3, <2>4, <2>5 DEF Measure, SlurpInv, BytesInPlace
<1>4. CASE ReadSome
  <2>0. PICK n \in 1 .. Wanted :
        /\ n <= Available
        /\ contents' = [i \in Index |-> IF i \in got .. got + n - 1
                                        THEN data[fp][i + 1] ELSE contents[i]]
        /\ got' = got + n
    BY <1>4 DEF ReadSome
  <2>1. /\ pc = "fread" /\ fp \in Inodes /\ data[fp] \in Seq(Bytes)
        /\ got \in Nat /\ filesize \in Index /\ got + n <= filesize
        /\ Len(data[fp]) \in Nat /\ got + n <= Len(data[fp]) /\ n \in Nat
        /\ UNCHANGED <<path, data, pc, fp, filesize, ferror, had>>
    <3>1. /\ pc = "fread"
          /\ UNCHANGED <<path, data, pc, fp, filesize, ferror, had>>
      BY <1>4 DEF ReadSome
    <3>2. /\ fp \in Inodes /\ got \in Nat /\ filesize \in Index
          /\ filesize \in Nat /\ data[fp] \in Versions
      BY <3>1 DEF SlurpInv, TypeOK
    <3>3. data[fp] \in Seq(Bytes) /\ Len(data[fp]) \in Nat
      BY <3>2, SlurpAssumption
    <3>4. n \in Nat /\ got + n <= filesize /\ got + n <= Len(data[fp])
      BY <2>0, <3>2, <3>3 DEF Wanted, Available
    <3> QED BY <3>1, <3>2, <3>3, <3>4
  <2>2. ~ ferror /\ FilledSoFar /\ data[fp] \in had
    BY <2>1 DEF SlurpInv, ReadInv
  <2>3. \A i \in got .. got + n - 1 :
          i \in Index /\ i < Len(data[fp]) /\ data[fp][i + 1] \in Bytes
    BY <2>1, ElementOfSeq DEF Index
  <2>4. TypeOK'
    <3>1. contents' \in [Index -> Bytes \cup {NUL, Garbage}]
      BY <2>0, <2>3 DEF SlurpInv, TypeOK
    <3>2. got' \in 0 .. filesize
      BY <2>0, <2>1
    <3> QED BY <2>1, <3>1, <3>2 DEF SlurpInv, TypeOK
  <2>5. FilledSoFar'
    <3>1. ASSUME NEW i \in 0 .. got + n - 1
          PROVE  \E v \in had : i < Len(v) /\ contents'[i] = v[i + 1]
      <4>1. i \in Index
        BY <2>1 DEF Index
      <4>2. CASE i < got
        BY <2>0, <2>1, <2>2, <4>1, <4>2 DEF FilledSoFar
      <4>3. CASE i >= got
        BY <2>0, <2>1, <2>2, <2>3, <4>1, <4>3
      <4>4. i < got \/ i >= got
        BY <2>1
      <4> QED BY <4>2, <4>3, <4>4
    <3>2. \A i \in Index : i >= got + n => contents'[i] = Garbage
      BY <2>0, <2>1, <2>2 DEF FilledSoFar, Index
    <3>3. had' = had /\ got' = got + n
      BY <2>0, <2>1
    <3>4. ASSUME NEW i \in 0 .. got' - 1
          PROVE  \E v \in had' : i < Len(v) /\ contents'[i] = v[i + 1]
      <4>1. i \in 0 .. got + n - 1
        BY <2>1, <3>3
      <4> QED BY <3>1, <3>3, <4>1, Zenon
    <3>5. \A i \in Index : i >= got' => contents'[i] = Garbage
      BY <3>2, <3>3, Zenon
    <3> QED BY <3>4, <3>5 DEF FilledSoFar, Index
  <2>6. ReadInv'
    BY <2>1, <2>2, <2>5 DEF ReadInv
  <2> QED BY <2>1, <2>4, <2>6 DEF SlurpInv, BytesInPlace
<1>5. CASE EndRead
  <2>1. /\ pc = "fread" /\ fp \in Inodes /\ got \in 0 .. filesize
        /\ filesize \in Nat /\ Len(data[fp]) \in Nat
    BY <1>5 DEF EndRead, SlurpInv, TypeOK
  <2>2. ~ ferror /\ FilledSoFar /\ data[fp] \in had
    BY <2>1 DEF SlurpInv, ReadInv
  <2>3. MetTheEnd
    BY <1>5, <2>1, <2>2 DEF EndRead, MetTheEnd, Wanted, Available
  <2>4. TypeOK'
    BY <1>5, <2>1 DEF EndRead, SlurpInv, TypeOK
  <2>5. ReadInv'
    BY <1>5, <2>2, <2>3 DEF EndRead, ReadInv, FilledSoFar, MetTheEnd
  <2> QED BY <1>5, <2>4, <2>5 DEF EndRead, SlurpInv, BytesInPlace
<1>6. CASE FailRead
  <2>1. TypeOK'
    BY <1>6 DEF FailRead, SlurpInv, TypeOK
  <2>2. ReadInv'
    BY <1>6 DEF FailRead, SlurpInv, ReadInv
  <2> QED BY <1>6, <2>1, <2>2 DEF FailRead, SlurpInv, BytesInPlace
<1>7. CASE CheckError
  <2>1. TypeOK'
    BY <1>7 DEF CheckError, SlurpInv, TypeOK
  <2>2. ReadInv'
    BY <1>7 DEF CheckError, SlurpInv, ReadInv, FilledSoFar, MetTheEnd
  <2> QED BY <1>7, <2>1, <2>2 DEF CheckError, SlurpInv, BytesInPlace
<1>8. CASE Terminate
  <2>1. /\ pc = "terminate" /\ ~ ferror /\ FilledSoFar /\ MetTheEnd
        /\ filesize \in Index /\ got \in 0 .. filesize
        /\ contents \in [Index -> Bytes \cup {NUL, Garbage}]
    BY <1>8 DEF Terminate, SlurpInv, TypeOK, ReadInv
  <2>2. /\ contents' = [contents EXCEPT ![filesize] = NUL]
        /\ pc' = "SUCCESS" /\ fp' = None
        /\ UNCHANGED <<path, data, filesize, got, ferror, had>>
    BY <1>8 DEF Terminate
  <2>3. TypeOK'
    BY <2>1, <2>2 DEF SlurpInv, TypeOK
  <2>4. BytesInPlace'
    <3>1. contents'[filesize] = NUL
      BY <2>1, <2>2
    <3>2. ASSUME NEW i \in 0 .. filesize - 1
          PROVE  \E v \in had :
                   contents'[i] = IF i < Len(v) THEN v[i + 1] ELSE Garbage
      <4>1. i \in Index /\ contents'[i] = contents[i] /\ i \in Nat
        BY <2>1, <2>2 DEF Index
      <4>2. CASE i < got
        BY <2>1, <4>1, <4>2 DEF FilledSoFar
      <4>3. CASE i >= got
        <5>1. PICK v \in had : Len(v) <= i
          BY <2>1, <4>1, <4>3 DEF MetTheEnd, Index
        <5>2. contents[i] = Garbage
          BY <2>1, <4>1, <4>3 DEF FilledSoFar
        <5>3. Len(v) \in Nat
          <6>1. had \subseteq Versions /\ Versions \subseteq Seq(Bytes)
            BY SlurpAssumption DEF SlurpInv, TypeOK
          <6>2. v \in Seq(Bytes)
            BY <6>1
          <6> QED BY <6>2
        <5> QED BY <4>1, <5>1, <5>2, <5>3
      <4> QED BY <2>1, <4>1, <4>2, <4>3 DEF Index
    <3> QED BY <2>2, <3>1, <3>2 DEF BytesInPlace
  <2>5. ReadInv'
    BY <2>1, <2>2 DEF ReadInv
  <2> QED BY <2>3, <2>4, <2>5 DEF SlurpInv
<1> QED BY <1>1, <1>2, <1>3, <1>4, <1>5, <1>6, <1>7, <1>8 DEF slurpFile

-----------------------------------------------------------------------------
(***************************************************************************)
(* The inductive invariant of slurpFile beside any other process: the      *)
(* types, what the array holds at each call, and the promise on SUCCESS.   *)
(***************************************************************************)
THEOREM SlurpInvariant == Spec => []SlurpInv
<1>1. Init => SlurpInv
  BY SlurpInit
<1>2. SlurpInv /\ [Next]_vars => SlurpInv'
  <2> SUFFICES ASSUME SlurpInv, [Next]_vars
               PROVE  SlurpInv'
    OBVIOUS
  <2>1. CASE Environment
    BY <2>1, EnvironmentStep
  <2>2. CASE slurpFile \/ FailRead
    BY <2>2, ReaderStep
  <2>3. CASE UNCHANGED vars
    BY <2>3 DEF vars, diskVars, procVars, SlurpInv, TypeOK, ReadInv,
                FilledSoFar, MetTheEnd, BytesInPlace
  <2> QED BY <2>1, <2>2, <2>3 DEF Next
<1> QED BY <1>1, <1>2, PTL DEF Spec

(***************************************************************************)
(* Whatever happens to the file, what fread may fill leaves room for the   *)
(* null in the array, and a stream is open where the code uses one.        *)
(***************************************************************************)
THEOREM SlurpTypeOK == Spec => []TypeOK
<1>1. SlurpInv => TypeOK
  BY DEF SlurpInv
<1> QED BY <1>1, SlurpInvariant, PTL

(***************************************************************************)
(* On SUCCESS every byte of the array up to the null is one that the file  *)
(* held at that place while it was open, or was left where the file was    *)
(* too short.                                                              *)
(***************************************************************************)
THEOREM SlurpBytesInPlace == Spec => []BytesInPlace
<1>1. SlurpInv => BytesInPlace
  BY DEF SlurpInv
<1> QED BY <1>1, SlurpInvariant, PTL
=============================================================================
