------------------------------ MODULE NtripClient ------------------------------
(***************************************************************************)
(* One response of a caster, read by an NtripClientMachine in whatever     *)
(* pieces the network makes of it.  The caster follows a script: it opens  *)
(* as the script says and goes on with any of the script's symbols.  What  *)
(* the machine returns as payload goes to an SsrStreamAssembler, which is  *)
(* kept from one connection to the next, as LiveDriver of tui.rs does.     *)
(***************************************************************************)
EXTENDS NtripMachine, RtcmAssembler

CONSTANT Scripts    \* records [open, symbols, more, policy]: at most more symbols
                    \* after open, fewer by the payload of earlier connections

ASSUME ScriptAssumption ==
    Scripts \subseteq [open : Seq(Symbols), symbols : SUBSET Symbols, more : Nat,
                      policy : {"Strict", "Lenient"}]

VARIABLES mach,     \* the machine
          script,   \* what the caster does
          sent,     \* the response so far
          wire,     \* its suffix that the client has not read yet
          eof,      \* the connection was closed and finish called
          log,      \* the events returned since the request
          asm,      \* the assembler
          received, \* the payload it was given
          ended     \* its finish was called

vars == <<mach, script, sent, wire, eof, log, asm, received, ended>>

Init ==
    /\ mach = NewMachine
    /\ script \in Scripts
    /\ sent = <<>>
    /\ wire = <<>>
    /\ eof = FALSE
    /\ log = <<>>
    /\ asm = NewAssembler(script.policy)
    /\ received = <<>>
    /\ ended = FALSE

PayloadOf(events) ==
    FoldLeft(LAMBDA bytes, e : IF e[1] = "Payload" THEN bytes \o e[2] ELSE bytes, <<>>, events)

NextSymbols ==
    IF Len(sent) < Len(script.open) THEN {script.open[Len(sent) + 1]}
    ELSE IF Len(sent) < Len(script.open) + script.more THEN script.symbols
    ELSE {}

Request ==
    /\ mach.st = "Idle"
    /\ mach' = ConnectionRequest(mach)
    /\ UNCHANGED <<script, sent, wire, eof, log, asm, received, ended>>

CasterSends ==
    /\ ~ eof
    /\ \E x \in NextSymbols : sent' = Append(sent, x) /\ wire' = Append(wire, x)
    /\ UNCHANGED <<mach, script, eof, log, asm, received, ended>>

(* Every payload of a call goes to the assembler by itself.                 *)
AssembleEvents(a, events) ==
    FoldLeft(LAMBDA b, e : IF e[1] = "Payload" THEN Assemble(b, e[2]) ELSE b, a, events)

(* A read returns everything that has arrived.                              *)
ClientPush ==
    /\ wire # <<>>
    /\ mach' = Push(mach, wire)
    /\ log' = log \o mach'.ev
    /\ wire' = <<>>
    /\ asm' = AssembleEvents(asm, mach'.ev)
    /\ received' = received \o PayloadOf(mach'.ev)
    /\ UNCHANGED <<script, sent, eof, ended>>

ClientFinish ==
    /\ ~ eof /\ wire = <<>>
    /\ mach' = Finish(mach)
    /\ log' = log \o mach'.ev
    /\ eof' = TRUE
    /\ UNCHANGED <<script, sent, wire, asm, received, ended>>

(* reset: the machine is ready for another connection.                      *)
ClientReset ==
    /\ eof /\ ~ ended
    /\ Len(PayloadOf(log)) <= script.more       \* bound on the payload
    /\ mach' = NewMachine
    /\ sent' = <<>> /\ eof' = FALSE /\ log' = <<>>
    /\ script' = [script EXCEPT !.more = @ - Len(PayloadOf(log))]
    /\ UNCHANGED <<wire, asm, received, ended>>

(* The reader of the frames is done, as ssr_store_from_rtcm is at the end.  *)
EndOfFrames ==
    /\ eof /\ ~ ended /\ received # <<>>
    /\ asm' = AssemblerFinish(asm)
    /\ ended' = TRUE
    /\ UNCHANGED <<mach, script, sent, wire, eof, log, received>>

(* Another reader starts, with a machine and an assembler of its own.       *)
NextReader ==
    /\ ended
    /\ script' \in {x \in Scripts : x.open = script.open}
    /\ mach' = NewMachine /\ asm' = NewAssembler(script'.policy)
    /\ sent' = <<>> /\ wire' = <<>> /\ log' = <<>> /\ received' = <<>>
    /\ eof' = FALSE /\ ended' = FALSE

Next == \/ Request \/ CasterSends \/ ClientPush \/ ClientFinish \/ ClientReset
        \/ EndOfFrames \/ NextReader

Spec == Init /\ [][Next]_vars

-----------------------------------------------------------------------------
(* Properties *)

(* Type invariant: the state is one the enum of machine.rs has, no push is  *)
(* left half done, and what is on the wire is the end of what was sent.     *)
TypeOK ==
    /\ mach.st \in States
    /\ ~ mach.go
    /\ ~ mach.dec.more
    /\ script.more \in Nat
    /\ IsSuffix(wire, sent)
    /\ eof \in BOOLEAN /\ ended \in BOOLEAN

(* take_line_or_reject, read_line and push_sourcetable_line limit what an   *)
(* open machine keeps: no caster makes it buffer more than a line, nor more *)
(* headers or table text than the limits, between two reads; and no payload *)
(* makes the assembler wait for more than one frame.                        *)
BuffersBounded ==
    /\ Len(asm.buf) < MaxFrame
    /\ mach.st # "Closed" =>
        /\ Len(mach.carry) <= MaxLine
        /\ Len(mach.tcarry) <= MaxLine
        /\ Len(mach.dec.buf) <= MaxLine
        /\ mach.hbytes <= MaxHeaders
        /\ TextLen(mach.text) <= MaxTable

(* What a log says: its payload, joined, and the events that are not payload. *)
Notices(events) ==
    FoldLeft(LAMBDA told, e : IF e[1] = "Payload" THEN told ELSE Append(told, e), <<>>, events)
SaysTheSame(events, others) ==
    PayloadOf(events) = PayloadOf(others) /\ Notices(events) = Notices(others)
Corrupted(events) == \E i \in DOMAIN Notices(events) : Notices(events)[i][1] = "StreamCorrupted"

(* The events of a machine that reads the response s at once, in a set.     *)
InOneRead(s, end) ==
    {IF end THEN m.ev \o Finish(m).ev ELSE m.ev : m \in {Push(NewMachine, s)}}

(* A line was given up before its end was read: in the body's encoding, or   *)
(* in what the machine reads.                                               *)
Unending(s) == ~ HasLine(s) /\ Len(s) > MaxLine
GaveUp(m) ==
    /\ m.st = "Closed"
    /\ IF m.dec.poison THEN m.dec.st # "DataLineEnd" /\ Unending(m.dec.buf)
       ELSE Unending(m.carry) \/ (m.tchunked /\ Unending(m.tcarry))

(* push takes "a response fragment" (machine.rs:122): where it was split    *)
(* makes no difference to what the client is told of a response, payload   *)
(* joined.  The exceptions are a line that was given up, and a body whose   *)
(* encoding is found corrupted: the bytes decoded in the same read are lost,*)
(* and a table that was complete before counts if it was in an earlier read.*)
SameInOneRead ==
    wire = <<>> =>
        \E whole \in InOneRead(sent, eof) :
            \/ SaysTheSame(log, whole)
            \/ GaveUp(mach)
            \/ Corrupted(whole) /\ (Corrupted(log) \/ mach.tchunked)
=============================================================================
