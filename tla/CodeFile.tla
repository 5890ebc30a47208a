------------------------------ MODULE CodeFile -------------------------------
(***************************************************************************)
(* The codes.json format of MptState (src/go/state/mpt/state.go): the    *)
(* code map is written by writeCodes as records [hash:32][length:4][code] *)
(* and parsed back by readCodes through a bufio.Reader of BufSize bytes   *)
(* over the file; the state machine using them is MptState.  Code bytes   *)
(* are data the parser never inspects: a code is its hash and its length, *)
(* and a file is the sequence of its records and the number of its bytes  *)
(* that are on disk.                                                       *)
(*                                                                         *)
(* bufio.Reader.Read(p) (Go library semantics): with buffered bytes it     *)
(* copies min(len(p), buffered) and returns; with an empty buffer it reads *)
(* straight into p if len(p) >= BufSize, else refills the buffer once from *)
(* the file; a read of 0 bytes from the file is io.EOF.  A regular file    *)
(* returns min(requested, remaining) bytes.                                *)
(***************************************************************************)
EXTENDS Integers, Sequences, FiniteSets, SequencesExt

CONSTANTS
    Hashes,     \* code hashes (one per distinct code)
    CodeSize,   \* CodeSize[h]: length in bytes of the code with hash h
    BufSize     \* size of the bufio.Reader buffer (4096)

HashLen == 32
LenLen  == 4

RecordSize(h) == HashLen + LenLen + CodeSize[h]

StreamSize(s) == FoldLeft(LAMBDA acc, h : acc + RecordSize(h), 0, s)

Min2(a, b) == IF a < b THEN a ELSE b

-----------------------------------------------------------------------------
(* bufio.Reader over a file of S bytes.  The reader state is the number   *)
(* of bytes pulled from the file (filled) and handed out (cursor).  A read *)
(* returns [n, err, st].                                                   *)

BufRead(st, n, S) ==
    LET buffered == st.filled - st.cursor
        left     == S - st.filled
    IN CASE n = 0 ->
              [n |-> 0, err |-> "nil", st |-> st]
         [] buffered > 0 ->
              LET c == Min2(n, buffered)
              IN [n |-> c, err |-> "nil", st |-> [st EXCEPT !.cursor = @ + c]]
         [] left = 0 ->
              [n |-> 0, err |-> "EOF", st |-> st]
         [] n >= BufSize ->
              LET k == Min2(n, left)
              IN [n |-> k, err |-> "nil",
                  st |-> [filled |-> st.filled + k, cursor |-> st.cursor + k]]
         [] OTHER ->
              LET k == Min2(BufSize, left)
                  c == Min2(n, k)
              IN [n |-> c, err |-> "nil",
                  st |-> [filled |-> st.filled + k, cursor |-> st.cursor + c]]

(* readCodes: parse record i of stream s from reader state st; acc holds  *)
(* the codes read so far.  Returns [status, codes] with status "ok",       *)
(* "corrupted" (errCorruptedCodeFile) or "error" (an io.EOF surfaced).     *)
RECURSIVE ParseFrom(_, _, _, _, _)
ParseFrom(s, S, i, st, acc) ==
    LET h1 == BufRead(st, HashLen, S)
        h  == IF i <= Len(s) THEN s[i] ELSE CHOOSE x \in Hashes : TRUE
        l1 == BufRead(h1.st, LenLen, S)
        c1 == BufRead(l1.st, CodeSize[h], S)
    IN CASE h1.err = "EOF"    -> [status |-> "ok", codes |-> acc]
         [] h1.n # HashLen    -> [status |-> "corrupted", codes |-> acc]
         [] l1.err # "nil"    -> [status |-> "error", codes |-> acc]
         [] l1.n # LenLen     -> [status |-> "corrupted", codes |-> acc]
         [] c1.err # "nil"    -> [status |-> "error", codes |-> acc]
         [] c1.n # CodeSize[h] -> [status |-> "corrupted", codes |-> acc]
         [] OTHER             -> ParseFrom(s, S, i + 1, c1.st, acc \cup {h})

(* Mutant of ReadCodes: io.EOF of the hash read not told apart from other *)
(* errors, so a file with records never parses.                           *)
ReadCodesEofIsError(d) ==
    LET r == ParseFrom(d.stream, d.size, 1, [filled |-> 0, cursor |-> 0], {})
    IN IF r.status = "ok" /\ d.size > 0 THEN [status |-> "error", codes |-> {}]
       ELSE r

ReadCodes(d) == ParseFrom(d.stream, d.size, 1, [filled |-> 0, cursor |-> 0], {})

=============================================================================
