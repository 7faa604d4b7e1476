----------------------------- MODULE NtripMachine -----------------------------
(***************************************************************************)
(* NtripClientMachine of src/crates/sidereon-core/src/ntrip/machine.rs:    *)
(* the sans-I/O parser of a caster's response, as operators on its state.  *)
(* push and finish return the machine after the call; its field ev holds   *)
(* the events the call returned.                                           *)
(*                                                                         *)
(* A status or header symbol stands for the text of a line up to there, so *)
(* <<"ICY", "d", CR, LF>> is the status line ICY 200 with a longer reason. *)
(* The reason of a rejection and the text of an error are left out.        *)
(***************************************************************************)
EXTENDS ChunkedDecoder, Integers

CONSTANTS MaxHeaders,   \* MAX_HEADER_BLOCK: 64 KiB
          MaxTable,     \* MAX_SOURCETABLE: 4 MiB
          GgaInterval   \* config.gga_interval_s

ASSUME MachineAssumption ==
    /\ MaxHeaders \in Nat
    /\ MaxTable \in Nat
    /\ GgaInterval \in Nat

States == {"Idle", "AwaitingStatus", "AwaitingHeaders", "Streaming", "Sourcetable", "Closed"}
Never == -1             \* last_gga_s = None

NewMachine ==
    [st |-> "Idle", carry |-> <<>>, headers |-> <<>>, hbytes |-> 0, http |-> "none",
     chunked |-> FALSE, icyBlank |-> FALSE, tchunked |-> FALSE, dec |-> NewDecoder,
     text |-> <<>>, tcarry |-> <<>>, started |-> FALSE, lastGga |-> Never,
     ev |-> <<>>, go |-> FALSE]

KeepState(m) == m                           \* fault: the request leaves the state

(* connection_request: it changes the state and nothing else.               *)
ConnectionRequest(m) == [m EXCEPT !.st = "AwaitingStatus"]

-----------------------------------------------------------------------------
(* Events *)

Emit(m, kind, data) == [m EXCEPT !.ev = Append(@, <<kind, data>>)]
Close(m, kind, data) == [Emit(m, kind, data) EXCEPT !.st = "Closed"]
Reject(m) == Close(m, "Rejected", <<>>)
NoBreak(m) == m                             \* fault: push goes on looping
Wait(m) == [m EXCEPT !.go = FALSE]          \* the loop of push breaks

-----------------------------------------------------------------------------
(* Status line and headers *)

NoLimit(m) == Wait(m)                       \* fault: the carry grows without bound

(* take_line_or_reject without a complete line                              *)
NoLine(m) == Wait(IF Len(m.carry) > MaxLine THEN Reject(m) ELSE m)

StatusOf(line) == LET t == Trim(line) IN IF t = <<>> THEN "none" ELSE t[1]

ParseStatus(m) ==
    LET word == StatusOf(Line(m.carry))
        n == [m EXCEPT !.carry = AfterLine(@)]
    IN  CASE ~ HasLine(m.carry) -> NoLine(m)
          [] HasLine(m.carry) /\ word = "ICY" ->
               [Emit(n, "Connected", FALSE) EXCEPT
                   !.st = "Streaming", !.chunked = FALSE, !.icyBlank = TRUE]
          [] HasLine(m.carry) /\ word = "SRC" -> [n EXCEPT !.st = "Sourcetable"]
          [] HasLine(m.carry) /\ word \in {"HTTP200", "HTTP404"} ->
               [n EXCEPT !.st = "AwaitingHeaders", !.headers = <<>>, !.hbytes = 0,
                         !.http = word]
          [] OTHER -> Reject(n)             \* ERROR - ..., or no status at all

(* The symbols whose text has a colon.                                      *)
HeaderWords == {"TE", "CTdata", "CTtable", "CThtml", "X"}
HasColon(line) == Range(line) \cap HeaderWords # {}

ContentTypes(headers) ==
    SelectSeq(headers, LAMBDA h : Trim(h)[1] \in {"CTdata", "CTtable", "CThtml"})
(* header_value and media_type: the first Content-Type, up to its ";".      *)
MediaType(headers) ==
    LET types == ContentTypes(headers)
        value == Trim(UpToSemicolon(Head(types)))
    IN  CASE types = <<>> -> "none"
          [] types # <<>> /\ Len(value) = 1 -> Trim(value)[1]
          [] OTHER -> "CThtml"
(* transfer_is_chunked: any Transfer-Encoding whose token is "chunked".     *)
TransferIsChunked(headers) == \E i \in DOMAIN headers : Trim(headers[i]) = <<"TE">>

(* The blank line: classify_http_response decides what the body is.         *)
ClassifyHttpResponse(n) ==
    LET chunked == TransferIsChunked(n.headers) IN
    CASE n.http = "HTTP200" /\ MediaType(n.headers) \in {"none", "CTdata"} ->
           [Emit(n, "Connected", chunked) EXCEPT !.st = "Streaming", !.chunked = chunked]
      [] n.http = "HTTP200" /\ MediaType(n.headers) = "CTtable" ->
           [n EXCEPT !.st = "Sourcetable", !.tchunked = chunked, !.started = TRUE]
      [] OTHER -> Reject(n)

ParseHeaders(m) ==
    LET line == Line(m.carry)
        n == [m EXCEPT !.carry = AfterLine(@)]
        h == [n EXCEPT !.hbytes = @ + Len(line)]
    IN  CASE ~ HasLine(m.carry) -> NoLine(m)
          [] HasLine(m.carry) /\ line = <<>> -> ClassifyHttpResponse(n)
          [] HasLine(m.carry) /\ line # <<>> /\ h.hbytes > MaxHeaders -> Reject(h)
          [] HasLine(m.carry) /\ line # <<>> /\ h.hbytes <= MaxHeaders ->
               IF HasColon(line) THEN [h EXCEPT !.headers = Append(@, line)] ELSE h

-----------------------------------------------------------------------------
(* Data *)

(* consume_pending_icy_blank_line: a lone CR is kept until the next byte.   *)
ConsumePendingIcyBlankLine(m) ==
    CASE m.carry = <<>> \/ m.carry = <<CR>> -> m
      [] m.carry # <<>> /\ m.carry[1] = LF ->
           [m EXCEPT !.carry = Tail(@), !.icyBlank = FALSE]
      [] Len(m.carry) > 1 /\ m.carry[1] = CR /\ m.carry[2] = LF ->
           [m EXCEPT !.carry = SubSeq(@, 3, Len(@)), !.icyBlank = FALSE]
      [] OTHER -> [m EXCEPT !.icyBlank = FALSE]

EmitPayload(m, bytes) == IF bytes = <<>> THEN m ELSE Emit(m, "Payload", bytes)

DrainPayload(m) ==
    LET n == IF m.icyBlank THEN ConsumePendingIcyBlankLine(m) ELSE m
        taken == [n EXCEPT !.carry = <<>>]
        d == Decode(n.dec, n.carry)
        fed == [taken EXCEPT !.dec = Taken(d)]
        decoded == EmitPayload(fed, d.out)
    IN  Wait(CASE n.icyBlank \/ n.carry = <<>> -> n
               [] ~ n.icyBlank /\ n.carry # <<>> /\ ~ n.chunked ->
                    Emit(taken, "Payload", n.carry)
               [] ~ n.icyBlank /\ n.carry # <<>> /\ n.chunked ->
                    IF d.poison THEN Close(fed, "StreamCorrupted", <<>>)
                    ELSE IF d.finished THEN Close(decoded, "StreamEnded", <<>>)
                    ELSE decoded)

-----------------------------------------------------------------------------
(* Sourcetables *)

TextLen(text) == FoldLeft(LAMBDA n, line : n + Len(line) + 2, 0, text)
FirstField(line) == Trim(UpToSemicolon(line))

(* parse_sourcetable accepts every text, so the table is the text itself.   *)
FinishSourcetable(m) == Close(m, "Sourcetable", m.text)

(* Header lines before the first record are skipped (ICY-style responses).  *)
Skipped(m, line) ==
    /\ ~ m.started
    /\ line = <<>> \/ (HasColon(line) /\ FirstField(line) \notin {<<"REC">>, <<"END">>})

PushSourcetableLine(m, line) ==
    LET n == [m EXCEPT !.started = TRUE, !.text = Append(@, line)] IN
    IF Skipped(m, line) THEN m
    ELSE IF TextLen(n.text) > MaxTable THEN Reject(n)
    ELSE IF FirstField(line) = <<"END">> THEN FinishSourcetable(n)
    ELSE n

(* One round of drain_sourcetable_lines.  buf names the buffer it reads.    *)
DrainSourcetableLine(m) ==
    LET buf == IF m.tchunked THEN m.tcarry ELSE m.carry
        rest == AfterLine(buf)
        n == IF m.tchunked THEN [m EXCEPT !.tcarry = rest] ELSE [m EXCEPT !.carry = rest]
    IN  IF HasLine(buf) THEN PushSourcetableLine(n, Line(buf))
        ELSE Wait(IF Len(buf) > MaxLine THEN Reject(m) ELSE m)

(* The body ended with its chunked encoding: the last line needs no LF.     *)
FlushSourcetable(m) ==
    LET n == IF m.tcarry = <<>> THEN m
             ELSE PushSourcetableLine([m EXCEPT !.tcarry = <<>>], m.tcarry)
    IN  IF n.st = "Closed" THEN n ELSE FinishSourcetable(n)

DrainSourcetable(m) ==
    LET d == Decode(m.dec, m.carry)
        n == IF ~ m.tchunked \/ m.carry = <<>> THEN m
             ELSE [m EXCEPT !.carry = <<>>, !.dec = Taken(d), !.tcarry = @ \o d.out]
        drained == DrainSourcetableLine(n)
    IN  IF m.tchunked /\ m.carry # <<>> /\ d.poison THEN Close(n, "StreamCorrupted", <<>>)
        ELSE IF drained.go \/ drained.st = "Closed" \/ ~ n.tchunked \/ ~ n.dec.finished
        THEN drained
        ELSE FlushSourcetable(drained)

-----------------------------------------------------------------------------
(* The calls *)

PushIter(m) ==
    CASE ~ m.go -> m
      [] m.go /\ m.st = "Idle" -> [m EXCEPT !.st = "AwaitingStatus"]
      [] m.go /\ m.st = "AwaitingStatus" -> ParseStatus(m)
      [] m.go /\ m.st = "AwaitingHeaders" -> ParseHeaders(m)
      [] m.go /\ m.st = "Streaming" -> DrainPayload(m)
      [] m.go /\ m.st = "Sourcetable" -> DrainSourcetable(m)
      [] m.go /\ m.st = "Closed" -> Wait(m)

(* push: a round that goes on has consumed a line or left a state for good. *)
Push(m, bytes) ==
    LET n == [m EXCEPT !.carry = @ \o bytes, !.ev = <<>>, !.go = TRUE]
    IN  IF m.st = "Closed" THEN [m EXCEPT !.ev = <<>>]
        ELSE Iterate(PushIter, n, Len(n.carry) + Len(n.tcarry) + Len(n.dec.buf) + 4)

(* finish: end of file completes a sourcetable and nothing else.            *)
Finish(m) ==
    LET last == IF m.tchunked THEN m.tcarry ELSE m.carry
        n == [m EXCEPT !.ev = <<>>, !.tcarry = IF m.tchunked THEN <<>> ELSE @,
                       !.carry = IF m.tchunked THEN @ ELSE <<>>]
        p == IF last = <<>> THEN n ELSE PushSourcetableLine(n, last)
    IN  CASE m.st # "Sourcetable" -> [m EXCEPT !.ev = <<>>]
          [] m.st = "Sourcetable" /\ p.st = "Closed" -> p
          [] m.st = "Sourcetable" /\ p.st # "Closed" -> FinishSourcetable(p)

(* try_gga_message: is a message due, and the machine after it is sent.     *)
GgaDue(m, now) ==
    /\ m.st = "Streaming"
    /\ m.lastGga = Never \/ (now >= m.lastGga /\ now - m.lastGga >= GgaInterval)
GgaMessage(m, now) == [m EXCEPT !.lastGga = now]
=============================================================================
