----------------------------- MODULE RtcmAssembler -----------------------------
(***************************************************************************)
(* SsrStreamAssembler of src/crates/sidereon-core/src/rtcm/mod.rs: frames  *)
(* out of payload that arrives in pieces, as operators on its state.       *)
(*                                                                         *)
(* A frame is the preamble, one symbol for the reserved bits and the       *)
(* length, the body, and one symbol for the checksum (3 bytes, 3 bytes and *)
(* a body of up to 1023 in the code).  Every symbol is also a possible     *)
(* length and checksum, so a frame can seem to begin anywhere.             *)
(*                                                                         *)
(* The field out holds every result returned so far; an "error" is also    *)
(* what skipped_frames records, "departed" what departures records.        *)
(***************************************************************************)
EXTENDS ChunkedDecoder

CONSTANT MaxBodyLen     \* MAX_BODY_LEN: 1023

(* A length symbol stands for its value, so the longest body is no shorter.  *)
ASSUME AssemblerAssumption == MaxBodyLen \in Nat /\ MaxBodyLen >= 2

Preamble == "P"
FrameOverhead == 3      \* FRAME_OVERHEAD: 6

(* The two parts of the symbol after the preamble.                          *)
BodyLen(x) == IF x \in DOMAIN Digit THEN Digit[x]
              ELSE IF x = "R1" THEN 1 ELSE IF x = Preamble THEN MaxBodyLen ELSE 0
Reserved(x) == x \in {"R1", Preamble}
FrameLen(s) == FrameOverhead + BodyLen(s[2])
MaxFrame == FrameOverhead + MaxBodyLen
(* crc24q: over the header and the body.                                    *)
Checksum(s) == IF Len(SelectSeq(s, LAMBDA x : x = Preamble)) % 2 = 1 THEN "d" ELSE Preamble

(* s begins with a preamble and holds all of the frame it declares.         *)
Whole(s) == /\ Len(s) >= FrameOverhead
            /\ s[1] = Preamble
            /\ Len(s) >= FrameLen(s)
ChecksumHolds(s) == Checksum(SubSeq(s, 1, FrameLen(s) - 1)) = s[FrameLen(s)]
(* decode_frame returns Ok.                                                 *)
IsFrame(s) == Whole(s) /\ ChecksumHolds(s)
FrameFailsCrc(s) == Whole(s) /\ ~ ChecksumHolds(s)

-----------------------------------------------------------------------------
(* read_frame: what becomes of a frame.  A body too short for its message   *)
(* number does not decode; reserved bits are a departure.                   *)
Reading(s, offset, policy) ==
    LET body == SubSeq(s, 3, FrameLen(s) - 1)
    IN  [offset |-> offset, body |-> body,
         kind |-> IF body = <<>> \/ (Reserved(s[2]) /\ policy = "Strict") THEN "error"
                  ELSE IF Reserved(s[2]) THEN "departed" ELSE "message"]

NewAssembler(policy) ==
    [buf |-> <<>>, policy |-> policy, drained |-> 0, resync |-> 0, crcFailures |-> 0,
     out |-> <<>>, pos |-> 0, go |-> FALSE]

Ahead(a) == SubSeq(a.buf, a.pos + 1, Len(a.buf))
Skip(a, n) == [a EXCEPT !.resync = @ + n, !.pos = @ + n]
Stop(a) == [a EXCEPT !.go = FALSE]
TakeFrame(a) ==
    [a EXCEPT !.out = Append(@, Reading(Ahead(a), a.drained + a.pos, a.policy)),
              !.pos = @ + FrameLen(Ahead(a))]
(* The search for the next preamble.                                        *)
Seek(a) ==
    LET rel == SelectInSeq(Ahead(a), LAMBDA x : x = Preamble)
    IN  IF rel = 0 THEN Stop(Skip(a, Len(Ahead(a)))) ELSE Skip(a, rel - 1)

SkipFrame(a) ==                             \* fault: a bad frame is passed over whole
    [Skip(a, FrameLen(Ahead(a))) EXCEPT !.crcFailures = @ + 1]
(* A preamble whose frame fails its checksum is passed over, and it alone.  *)
SkipPreamble(a) == [Skip(a, 1) EXCEPT !.crcFailures = @ + 1]

(* One round of push: it stops at a frame that has not arrived whole.       *)
PushRound(a) ==
    LET b == Seek(a)
        s == Ahead(b)
    IN  IF ~ a.go THEN a
        ELSE IF ~ b.go THEN b
        ELSE IF ~ Whole(s) THEN Stop(b)
        ELSE IF ChecksumHolds(s) THEN TakeFrame(b) ELSE SkipPreamble(b)

(* One round of finish: no more will arrive, so it passes over the preamble.*)
FinishRound(a) ==
    LET b == Seek(a)
        s == Ahead(b)
    IN  IF ~ a.go THEN a
        ELSE IF ~ b.go THEN b
        ELSE IF IsFrame(s) THEN TakeFrame(b)
        ELSE IF FrameFailsCrc(s) THEN SkipPreamble(b) ELSE Skip(b, 1)

Drain(a) == [a EXCEPT !.buf = Ahead(a), !.drained = @ + a.pos, !.pos = 0, !.go = FALSE]

Assemble(a, bytes) ==
    LET n == [a EXCEPT !.buf = @ \o bytes, !.go = TRUE]
    IN  Drain(Iterate(PushRound, n, Len(n.buf) + 1))

AssemblerFinish(a) == Drain(Iterate(FinishRound, [a EXCEPT !.go = TRUE], Len(a.buf) + 1))
=============================================================================
