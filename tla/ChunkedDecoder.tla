---------------------------- MODULE ChunkedDecoder ----------------------------
(***************************************************************************)
(* ChunkedDecoder of src/crates/sidereon-core/src/ntrip/chunk.rs: the      *)
(* incremental decoder of an HTTP chunked body, as operators on its state. *)
(*                                                                         *)
(* Input is a sequence of symbols.  CR and LF are bytes of their own; any  *)
(* other symbol stands for a word that the parsers look at as a whole, or  *)
(* for a byte of payload.  Every symbol counts one byte against a limit.   *)
(***************************************************************************)
EXTENDS Naturals, Sequences, SequencesExt

CONSTANTS Symbols,        \* what a connection can carry
          MaxLine,        \* MAX_LINE: 8 KiB in chunk.rs and in machine.rs
          MaxChunk,       \* MAX_CHUNK_SIZE: 16 MiB
          MaxHexDigits    \* MAX_HEX_DIGITS: 8

ASSUME DecoderAssumption == /\ MaxLine \in Nat \ {0}
                            /\ MaxChunk \in Nat \ {0}
                            /\ MaxHexDigits \in Nat \ {0}

CR == "CR"
LF == "LF"
Semicolon == ";"

-----------------------------------------------------------------------------
(* Lines *)

HasLine(s) == Contains(s, LF)
LineEnd(s) == SelectInSeq(s, LAMBDA x : x = LF)
StripCR(s) == IF s # <<>> /\ Last(s) = CR THEN Front(s) ELSE s
Line(s) == StripCR(SubSeq(s, 1, LineEnd(s) - 1))
AfterLine(s) == SubSeq(s, LineEnd(s) + 1, Len(s))

(* Op applied n times; the loops below stop by themselves when blocked.     *)
Iterate(Op(_), x, n) == LET f[i \in 0..n] == IF i = 0 THEN x ELSE Op(f[i - 1]) IN f[n]

(* The line without the white space around it (CR is the only one here).    *)
Trim(s) ==
    LET ink == {i \in DOMAIN s : s[i] # CR}
    IN  IF ink = {} THEN <<>> ELSE SubSeq(s, Min(ink), Max(ink))

(* What precedes the first ";".                                             *)
UpToSemicolon(s) ==
    IF Contains(s, Semicolon) THEN SubSeq(s, 1, SelectInSeq(s, LAMBDA x : x = Semicolon) - 1)
    ELSE s

(* parse_size_line: hexadecimal digits, an optional extension after ";".    *)
Digit == [D0 |-> 0, D1 |-> 1, D2 |-> 2]
BadSize == MaxChunk + 1
HexValue(t) == FoldLeft(LAMBDA n, x : 16 * n + Digit[x], 0, t)
SizeOf(line) ==
    LET t == Trim(UpToSemicolon(line)) IN
    IF /\ Len(line) <= MaxLine
       /\ Len(t) \in 1..MaxHexDigits
       /\ Range(t) \subseteq DOMAIN Digit
    THEN Min({BadSize, HexValue(t)})
    ELSE BadSize

-----------------------------------------------------------------------------
(* The decoder *)

NewDecoder == [buf |-> <<>>, st |-> "Size", left |-> 0, finished |-> FALSE,
               poison |-> FALSE, trailer |-> 0, out |-> <<>>, more |-> FALSE]

(* Nothing more can be done with what has arrived: push returns Ok(out).    *)
Blocked(d) == [d EXCEPT !.more = FALSE]
(* push returns Err: what it had decoded in this call is lost.              *)
Poison(d) == [d EXCEPT !.poison = TRUE, !.out = <<>>, !.more = FALSE]
(* read_line without a complete line                                        *)
NoLineYet(d) == IF Len(d.buf) > MaxLine THEN Poison(d) ELSE Blocked(d)

SizeLine(d) ==
    LET size == SizeOf(Line(d.buf)) IN
    IF ~ HasLine(d.buf) THEN NoLineYet(d)
    ELSE IF size = BadSize THEN Poison(d)
    ELSE [d EXCEPT !.buf = AfterLine(@), !.left = size,
                   !.st = IF size = 0 THEN "Trailer" ELSE "Data"]

Data(d) ==
    LET n == IF d.left < Len(d.buf) THEN d.left ELSE Len(d.buf) IN
    IF d.buf = <<>> THEN Blocked(d)
    ELSE [d EXCEPT !.out = @ \o SubSeq(d.buf, 1, n), !.buf = SubSeq(@, n + 1, Len(@)),
                   !.left = @ - n, !.st = IF d.left = n THEN "DataLineEnd" ELSE "Data"]

DataLineEndEager(d) ==                      \* fault: does not wait for LF after CR
    IF d.buf = <<>> THEN Blocked(d)
    ELSE IF d.buf[1] = LF THEN [d EXCEPT !.buf = Tail(@), !.st = "Size"]
    ELSE IF d.buf[1] # CR \/ Len(d.buf) < 2 \/ d.buf[2] # LF THEN Poison(d)
    ELSE [d EXCEPT !.buf = Tail(Tail(@)), !.st = "Size"]

(* The line end after the data of a chunk: LF or CR LF, which may be split. *)
DataLineEnd(d) ==
    IF d.buf = <<>> \/ d.buf = <<CR>> THEN Blocked(d)
    ELSE IF d.buf[1] = LF THEN [d EXCEPT !.buf = Tail(@), !.st = "Size"]
    ELSE IF d.buf[1] # CR \/ d.buf[2] # LF THEN Poison(d)
    ELSE [d EXCEPT !.buf = Tail(Tail(@)), !.st = "Size"]

Trailer(d) ==
    LET line == Line(d.buf)
        n == [d EXCEPT !.buf = AfterLine(@), !.trailer = @ + Len(line)]
    IN  IF ~ HasLine(d.buf) THEN NoLineYet(d)
        ELSE IF n.trailer > MaxLine THEN Poison(n)
        ELSE IF line = <<>> THEN [n EXCEPT !.finished = TRUE, !.more = FALSE]
        ELSE n

DecodeStep(d) ==
    IF ~ d.more THEN d
    ELSE CASE d.st = "Size" -> SizeLine(d)
           [] d.st = "Data" -> Data(d)
           [] d.st = "DataLineEnd" -> DataLineEnd(d)
           [] d.st = "Trailer" -> Trailer(d)

(* push: every step that does not stop consumes at least one symbol.        *)
Decode(d, bytes) ==
    IF d.poison \/ d.finished THEN [d EXCEPT !.out = <<>>]
    ELSE LET n == [d EXCEPT !.buf = @ \o bytes, !.out = <<>>, !.more = TRUE]
         IN  Iterate(DecodeStep, n, Len(n.buf) + 1)

(* What push has returned is not kept.                                      *)
Taken(d) == [d EXCEPT !.out = <<>>]
=============================================================================
