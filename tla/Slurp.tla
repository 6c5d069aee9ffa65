------------------------------- MODULE Slurp --------------------------------
(***************************************************************************)
(* slurpFile and get_filesize of fs.cpp, one action per call that touches  *)
(* the file system, beside another process that writes, replaces or        *)
(* removes the file at any moment.                                         *)
(*                                                                         *)
(* The path names a file (an inode) or nothing; an open stream keeps its   *)
(* file whatever happens to the path.  fread may need several reads; a     *)
(* read takes at least one byte, meets the end of the file, or fails.      *)
(***************************************************************************)
EXTENDS Integers, Sequences

CONSTANTS
  Bytes,
  MaxFileSize,     \* MAX_FILE_SIZE, 200000
  Inodes,          \* the files there may be
  Versions         \* what the other process writes: sequences of Bytes

None    == "none"       \* no file
NUL     == "NUL"        \* may be among the Bytes of a file
Garbage == "garbage"    \* what the array held before

ASSUME SlurpAssumption ==
  /\ MaxFileSize \in Nat \ {0}
  /\ Versions \subseteq Seq(Bytes)
  /\ None \notin Inodes
  /\ Garbage \notin Bytes \cup {NUL}

VARIABLES
  path,            \* the file the path names
  data,            \* the content of each file
  pc,
  fp,              \* the file of the open stream
  filesize, got,   \* what was measured, what fread has got
  ferror,
  contents,        \* the array of run_file, from index 0
  had              \* history: what the file being read held since it was opened

diskVars == <<path, data>>
procVars == <<pc, fp, filesize, got, ferror, contents>>
vars     == <<diskVars, procVars, had>>

Index == 0 .. MaxFileSize - 1

Stopped == {"SUCCESS", "FILE_ERR", "ABORT", "CRASH"}

Init ==
  /\ path \in Inodes \cup {None}
  /\ data \in [Inodes -> Versions]
  /\ pc = "exists"
  /\ fp = None
  /\ filesize = 0
  /\ got = 0
  /\ ferror = FALSE
  /\ contents = [i \in Index |-> Garbage]
  /\ had = {}

-----------------------------------------------------------------------------
\* The other process.

\* The file is written in place: shortened, lengthened or changed.
Write ==
  /\ path # None
  /\ \E v \in Versions \ {data[path]} :
       /\ data' = [data EXCEPT ![path] = v]
       /\ had' = IF path = fp THEN had \cup {v} ELSE had
  /\ UNCHANGED <<path, procVars>>

\* rename() of a new file over the path.  A file that is neither open nor
\* named is as good as new.
Replace ==
  /\ \E i \in Inodes \ {path, fp}, v \in Versions :
       path' = i /\ data' = [data EXCEPT ![i] = v]
  /\ UNCHANGED <<procVars, had>>

Unlink ==
  /\ path # None
  /\ path' = None
  /\ UNCHANGED <<data, procVars, had>>

Environment == Write \/ Replace \/ Unlink

-----------------------------------------------------------------------------
\* slurpFile.

At(where) == pc = where /\ UNCHANGED diskVars
Goto(where) == pc' = where

FileExists ==
  /\ At("exists")
  /\ Goto(IF path = None THEN "FILE_ERR" ELSE "open to measure")
  /\ UNCHANGED <<fp, filesize, got, ferror, contents, had>>

\* fopen, which fails if there is no file (any more), or no permission.  Its
\* result is not tested: a null one is passed to fileno or fread.
Open ==
  /\ fp' \in {path, None}
  /\ \/ At("open to measure") /\ Goto(IF fp' = None THEN "CRASH" ELSE "fstat")
     \/ At("open to read")    /\ Goto(IF fp' = None THEN "CRASH" ELSE "fread")
  /\ had' = IF fp' = None THEN {} ELSE {data[fp']}
  /\ UNCHANGED <<filesize, got, ferror, contents>>

\* Mutant of Measure: <= for < in the assert.
MeasureOneMore ==
  /\ At("fstat")
  /\ filesize' = Len(data[fp])
  /\ fp' = None
  /\ Goto(IF filesize' <= MaxFileSize THEN "open to read" ELSE "ABORT")
  /\ UNCHANGED <<got, ferror, contents, had>>

\* fstat, fclose, and the assert of slurpFile.
Measure ==
  /\ At("fstat")
  /\ filesize' = Len(data[fp])
  /\ fp' = None
  /\ Goto(IF filesize' < MaxFileSize THEN "open to read" ELSE "ABORT")
  /\ UNCHANGED <<got, ferror, contents, had>>

\* What fread still wants, and what the file has for it.
Wanted    == filesize - got
Available == Len(data[fp]) - got

\* Mutant of ReadSome: each read starts at the front of the buffer.
ReadSomeAtFront ==
  /\ At("fread")
  /\ \E n \in 1 .. Wanted :
       /\ n <= Available
       /\ contents' = [i \in Index |-> IF i \in 0 .. n - 1
                                       THEN data[fp][got + i + 1] ELSE contents[i]]
       /\ got' = got + n
  /\ UNCHANGED <<pc, fp, filesize, ferror, had>>

ReadSome ==
  /\ At("fread")
  /\ \E n \in 1 .. Wanted :
       /\ n <= Available
       /\ contents' = [i \in Index |-> IF i \in got .. got + n - 1
                                       THEN data[fp][i + 1] ELSE contents[i]]
       /\ got' = got + n
  /\ UNCHANGED <<pc, fp, filesize, ferror, had>>

\* Mutant of EndRead: what is missing is asked for again.
EndReadRetries ==
  /\ At("fread")
  /\ Wanted = 0
  /\ Goto("ferror")
  /\ UNCHANGED <<fp, filesize, got, ferror, contents, had>>

\* fread returns: it has all, or the file has no more.
EndRead ==
  /\ At("fread")
  /\ Wanted = 0 \/ Available <= 0
  /\ Goto("ferror")
  /\ UNCHANGED <<fp, filesize, got, ferror, contents, had>>

\* ... or a read failed: an I/O error, or the path names a directory.
FailRead ==
  /\ At("fread")
  /\ Wanted > 0
  /\ ferror' = TRUE
  /\ Goto("ferror")
  /\ UNCHANGED <<fp, filesize, got, contents, had>>

\* After an error the stream stays open and nothing ends the buffer.
CheckError ==
  /\ At("ferror")
  /\ Goto(IF ferror THEN "FILE_ERR" ELSE "terminate")
  /\ UNCHANGED <<fp, filesize, got, ferror, contents, had>>

\* contents[filesize] = '\0'; fclose(fp); return SUCCESS;
Terminate ==
  /\ At("terminate")
  /\ contents' = [contents EXCEPT ![filesize] = NUL]
  /\ fp' = None
  /\ Goto("SUCCESS")
  /\ UNCHANGED <<filesize, got, ferror, had>>

slurpFile ==
  \/ FileExists \/ Open \/ Measure \/ ReadSome \/ EndRead \/ CheckError
  \/ Terminate

Next == Environment \/ slurpFile \/ FailRead

Spec == Init /\ [][Next]_vars

\* The reader keeps running, whatever the other process does; that a read
\* fails may never happen.
FairSpec == Spec /\ WF_vars(slurpFile)

-----------------------------------------------------------------------------
(***************************************************************************)
(* The type invariant: what fread may fill is in the array with room for   *)
(* the null, and a stream is open where the code uses one.                 *)
(***************************************************************************)
TypeOK ==
  /\ path \in Inodes \cup {None}
  /\ data \in [Inodes -> Versions]
  /\ pc \in {"exists", "open to measure", "fstat", "open to read", "fread",
             "ferror", "terminate"} \cup Stopped
  /\ fp \in Inodes \cup {None}
  /\ pc \in {"fstat", "fread", "ferror", "terminate"} => fp # None
  /\ filesize \in Nat /\ got \in 0 .. filesize
  /\ pc \in {"open to read", "fread", "ferror", "terminate", "SUCCESS"} =>
       filesize \in Index
  /\ ferror \in BOOLEAN
  /\ contents \in [Index -> Bytes \cup {NUL, Garbage}]
  /\ had \subseteq Versions

(***************************************************************************)
(* However the file was written, replaced or removed between the calls:    *)
(* on SUCCESS the array holds a null at filesize, and before it, at every  *)
(* index, a byte the file that was read had there at some moment while it  *)
(* was open.  What the array held before is left only where that file was  *)
(* too short at some moment.  So of a file that is only ever replaced as a *)
(* whole a prefix of one version is read, and behind it, if that version   *)
(* is shorter than the one measured, what the array held before.           *)
(***************************************************************************)
BytesInPlace ==
  pc = "SUCCESS" =>
    /\ contents[filesize] = NUL
    /\ \A i \in 0 .. filesize - 1 :
         \E v \in had : contents[i] = IF i < Len(v) THEN v[i + 1] ELSE Garbage

(***************************************************************************)
(* slurpFile comes to an end however often the file changes under it.      *)
(***************************************************************************)
Terminates == <>(pc \in Stopped)

(***************************************************************************)
(* "detect errors if any and close fp" (fs.cpp:42): a stream is not left   *)
(* open.                                                                   *)
(***************************************************************************)
ClosesFile == pc \in {"SUCCESS", "FILE_ERR"} => fp = None
=============================================================================
