---------------------------- MODULE NtripReference ----------------------------
(***************************************************************************)
(* What an NTRIP response means, read as a whole: the reference that the   *)
(* incremental parser of NtripMachine.tla is checked against.  It never    *)
(* sees how the bytes were split into reads.                               *)
(*                                                                         *)
(* A meaning is the set of event sequences the parser may have returned by *)
(* now, adjacent payloads joined.  long says that a line of the response   *)
(* exceeds MaxLine; how such a line is treated depends on the reads.       *)
(***************************************************************************)
EXTENDS RtcmReference

Means(logs) == [long |-> FALSE, logs |-> logs]
Long == [long |-> TRUE, logs |-> {}]

(* The complete lines of s, with their CR; and what follows the last one.   *)
RECURSIVE RawLines(_)
RawLines(s) ==
    IF ~ HasLine(s) THEN <<>>
    ELSE <<SubSeq(s, 1, LineEnd(s) - 1)>> \o RawLines(AfterLine(s))
Rest(s) == SubSeq(s, SelectLastInSeq(s, LAMBDA x : x = LF) + 1, Len(s))
Lines(s) == LET raw == RawLines(s) IN [i \in DOMAIN raw |-> StripCR(raw[i])]
HasLongLine(s) ==
    \/ Len(Rest(s)) > MaxLine
    \/ \E i \in DOMAIN RawLines(s) : Len(RawLines(s)[i]) > MaxLine

-----------------------------------------------------------------------------
(* Chunked bodies *)

(* The lines up to an empty one, which ends a trailer or a header block.    *)
HasBlank(lines) == \E i \in DOMAIN lines : lines[i] = <<>>
UpToBlank(lines) ==
    IF HasBlank(lines) THEN SubSeq(lines, 1, SelectInSeq(lines, LAMBDA line : line = <<>>))
    ELSE lines
LineBytes(lines) == FoldLeft(LAMBDA n, line : n + Len(line), 0, lines)

TrailerEnd(lines, rest) ==
    IF LineBytes(UpToBlank(lines)) > MaxLine THEN "corrupt"
    ELSE IF HasBlank(lines) THEN "ended"
    ELSE IF Len(rest) > MaxLine THEN "long" ELSE "more"

(* The data of a chunked body, and how it stands: more is to come, it has   *)
(* ended, it is corrupt, or a line of it is too long.                       *)
RECURSIVE Dechunk(_)
Dechunk(s) ==
    LET raw == SubSeq(s, 1, LineEnd(s) - 1)
        size == SizeOf(StripCR(raw))
        body == AfterLine(s)
        data == SubSeq(body, 1, Min({size, Len(body)}))
        next == SubSeq(body, size + 1, Len(body))
        then(rest) == LET d == Dechunk(rest) IN [d EXCEPT !.out = data \o @]
    IN  CASE ~ HasLine(s) ->
               [out |-> <<>>, end |-> IF Len(s) > MaxLine THEN "long" ELSE "more"]
          [] HasLine(s) /\ Len(raw) > MaxLine -> [out |-> <<>>, end |-> "long"]
          [] HasLine(s) /\ Len(raw) <= MaxLine /\ size = BadSize ->
               [out |-> <<>>, end |-> "corrupt"]
          [] HasLine(s) /\ Len(raw) <= MaxLine /\ size = 0 ->
               [out |-> <<>>, end |-> TrailerEnd(Lines(body), Rest(body))]
          [] HasLine(s) /\ Len(raw) <= MaxLine /\ size \in 1..MaxChunk ->
               CASE next = <<>> \/ next = <<CR>> -> [out |-> data, end |-> "more"]
                 [] next # <<>> /\ next[1] = LF -> then(Tail(next))
                 [] Len(next) > 1 /\ next[1] = CR /\ next[2] = LF -> then(Tail(Tail(next)))
                 [] OTHER -> [out |-> data, end |-> "corrupt"]

-----------------------------------------------------------------------------
(* Bodies *)

Event(kind, data) == <<kind, data>>
Payloads(bytes) == IF bytes = <<>> THEN <<>> ELSE <<Event("Payload", bytes)>>

(* Data decoded in the call that met the corruption is not delivered.       *)
ChunkedData(d) ==
    LET start == <<Event("Connected", TRUE)>>
    IN  CASE d.end = "long" -> Long
          [] d.end = "more" -> Means({start \o Payloads(d.out)})
          [] d.end = "ended" ->
               Means({start \o Payloads(d.out) \o <<Event("StreamEnded", <<>>)>>})
          [] d.end = "corrupt" ->
               Means({start \o Payloads(SubSeq(d.out, 1, n)) \o
                      <<Event("StreamCorrupted", <<>>)>> : n \in 0..Len(d.out)})

(* One blank line after ICY 200 is no payload; a CR waits for what follows. *)
IcyData(s) ==
    LET blank == IF s # <<>> /\ s[1] = LF THEN 1
                 ELSE IF Len(s) > 1 /\ s[1] = CR /\ s[2] = LF THEN 2
                 ELSE IF s = <<CR>> THEN 1 ELSE 0
    IN  Means({<<Event("Connected", FALSE)>> \o Payloads(SubSeq(s, blank + 1, Len(s)))})

HeaderLine(line) ==
    line = <<>> \/ (HasColon(line) /\ FirstField(line) \notin {<<"REC">>, <<"END">>})

(* The table whose lines are these.  skip: header lines may come first;     *)
(* end: no more lines will come.                                            *)
Table(lines, skip, end) ==
    LET record == {i \in DOMAIN lines : ~ skip \/ ~ HeaderLine(lines[i])}
        kept == IF record = {} THEN <<>> ELSE SubSeq(lines, Min(record), Len(lines))
        over == {i \in DOMAIN kept : TextLen(SubSeq(kept, 1, i)) > MaxTable}
        last == {i \in DOMAIN kept : FirstField(kept[i]) = <<"END">>}
    IN  CASE over # {} /\ \A i \in last : Min(over) <= i -> <<Event("Rejected", <<>>)>>
          [] last # {} /\ \A i \in over : Min(last) < i ->
               <<Event("Sourcetable", SubSeq(kept, 1, Min(last)))>>
          [] over \cup last = {} ->
               IF end THEN <<Event("Sourcetable", kept)>> ELSE <<>>

(* At the end an unterminated line counts, and keeps its CR.                *)
AllLines(s, end) == Lines(s) \o (IF end /\ Rest(s) # <<>> THEN <<Rest(s)>> ELSE <<>>)

PlainTable(s, skip, atEnd) ==
    IF HasLongLine(s) THEN Long ELSE Means({Table(AllLines(s, atEnd), skip, atEnd)})

(* A table that was complete before the corruption may have been returned.  *)
ChunkedTable(d, atEnd) ==
    LET end == atEnd \/ d.end = "ended"
        table == Table(AllLines(d.out, end), FALSE, end)
        soFar == Table(Lines(d.out), FALSE, FALSE)
    IN  IF d.end = "long" \/ HasLongLine(d.out) THEN Long
        ELSE IF d.end # "corrupt" THEN Means({table})
        ELSE Means({<<Event("StreamCorrupted", <<>>)>>} \cup ({soFar} \ {<<>>}))

-----------------------------------------------------------------------------
(* Responses *)

Rejection == Means({<<Event("Rejected", <<>>)>>})

(* What the headers announce.                                               *)
HttpBody(word, headers, body, atEnd) ==
    LET chunked == TransferIsChunked(headers) IN
    CASE word # "HTTP200" \/ MediaType(headers) = "CThtml" -> Rejection
      [] MediaType(headers) = "CTtable" ->
           IF chunked THEN ChunkedTable(Dechunk(body), atEnd) ELSE PlainTable(body, FALSE, atEnd)
      [] OTHER ->
           IF chunked THEN ChunkedData(Dechunk(body))
           ELSE Means({<<Event("Connected", FALSE)>> \o Payloads(body)})

(* The response s after its status line.  head: the lines of s up to the    *)
(* blank one; body: what follows them.                                      *)
HttpHeaders(word, head, s, body, atEnd) ==
    IF \/ HasLongLine(SubSeq(s, 1, Len(s) - Len(body)))
       \/ ~ HasBlank(head) /\ Len(Rest(s)) > MaxLine
    THEN Long
    ELSE IF LineBytes(head) > MaxHeaders THEN Rejection
    ELSE IF ~ HasBlank(head) THEN Means({<<>>})
    ELSE HttpBody(word, SelectSeq(head, HasColon), body, atEnd)

HttpResponse(word, head, s, atEnd) ==
    HttpHeaders(word, head, s, Iterate(AfterLine, s, Len(head)), atEnd)

Meaning(s, atEnd) ==
    LET raw == SubSeq(s, 1, LineEnd(s) - 1)
        word == StatusOf(StripCR(raw))
        body == AfterLine(s)
    IN  CASE ~ HasLine(s) -> IF Len(s) > MaxLine THEN Long ELSE Means({<<>>})
          [] HasLine(s) /\ Len(raw) > MaxLine -> Long
          [] HasLine(s) /\ Len(raw) <= MaxLine ->
               CASE word = "ICY" -> IcyData(body)
                 [] word = "SRC" -> PlainTable(body, TRUE, atEnd)
                 [] word \in {"HTTP200", "HTTP404"} ->
                      HttpResponse(word, UpToBlank(Lines(body)), body, atEnd)
                 [] OTHER -> Rejection

(* A log with adjacent payloads joined.                                     *)
Joined(events) ==
    FoldLeft(LAMBDA acc, e :
                IF acc # <<>> /\ e[1] = "Payload" /\ Last(acc)[1] = "Payload"
                THEN Append(Front(acc), Event("Payload", Last(acc)[2] \o e[2]))
                ELSE Append(acc, e),
             <<>>, events)

-----------------------------------------------------------------------------
(* Properties *)

(* push buffers incomplete status lines, headers, table lines and chunk     *)
(* records across calls (machine.rs:70): whatever the reads, the events  *)
(* returned so far are those of the response read as a whole.  Only a line  *)
(* longer than MaxLine is treated differently by different reads.           *)
FragmentationIndependent ==
    wire = <<>> =>
        LET meaning == Meaning(sent, eof)
        IN  meaning.long \/ Joined(log) \in meaning.logs
=============================================================================
