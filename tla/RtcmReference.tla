----------------------------- MODULE RtcmReference -----------------------------
(***************************************************************************)
(* decode_stream_with_policy of src/crates/sidereon-core/src/rtcm/mod.rs:  *)
(* the frames of a payload that is there in the whole, the reference that  *)
(* SsrStreamAssembler (RtcmAssembler.tla) is checked against.              *)
(***************************************************************************)
EXTENDS NtripClient

From(s, i) == SubSeq(s, i, Len(s))

(* upTo is the end of the last frame.                                       *)
NothingRead == [upTo |-> 0, out |-> <<>>, resync |-> 0, crcFailures |-> 0]

ReadFrame(c, frame, i, policy) ==
    [c EXCEPT !.upTo = i + FrameLen(frame) - 1,
              !.out = Append(@, Reading(frame, i - 1, policy))]

(* A byte outside frames: no frame begins there, or one with a bad checksum.*)
PassByte(c, rest) ==
    [c EXCEPT !.resync = @ + 1,
              !.crcFailures = @ + (IF FrameFailsCrc(rest) THEN 1 ELSE 0)]

(* Byte i of s, after those before it.                                      *)
ReadByte(c, s, i, policy) ==
    IF i <= c.upTo THEN c                       \* inside a frame
    ELSE IF IsFrame(From(s, i)) THEN ReadFrame(c, From(s, i), i, policy)
    ELSE PassByte(c, From(s, i))

(* What decode_stream_with_policy has found in s when it has read n bytes.  *)
DecodeStream(s, n, policy) ==
    LET c[i \in 0..n] == IF i = 0 THEN NothingRead ELSE ReadByte(c[i - 1], s, i, policy)
    IN  c[n]

-----------------------------------------------------------------------------
(* Properties *)

(* push keeps a partial frame for the next chunk and finish scans what is   *)
(* left "as decode_stream scans a buffer" (mod.rs): however the payload was *)
(* cut into reads, chunks and connections, what has been drained ends with  *)
(* no frame cut, and holds the frames, the bytes outside frames and the     *)
(* checksum failures that decode_stream finds there in the whole; what has  *)
(* not is kept, and finish drains it.                                       *)
AssemblyIndependent ==
    LET whole == DecodeStream(received, asm.drained, asm.policy)
    IN  /\ whole.upTo <= asm.drained
        /\ asm.out = whole.out
        /\ asm.resync = whole.resync
        /\ asm.crcFailures = whole.crcFailures
        /\ asm.buf = From(received, asm.drained + 1)
        /\ ended => asm.buf = <<>>
=============================================================================
