------------------------------ MODULE LiveDriver ------------------------------
(***************************************************************************)
(* LiveDriver of src/crates/sidereon-cli/src/tui.rs: the monitor's polling *)
(* loop over an NTRIP connection, its reconnects and its GGA uplink, with  *)
(* the caster and the user as environment.  One machine of NtripMachine.tla*)
(* serves all the connections of a run.                                    *)
(*                                                                         *)
(* Time is in half seconds.  pending_reconnect_at is kept as the time left *)
(* until then, connect_started as the time elapsed since.  A payload stands*)
(* for an RTCM epoch, which may or may not have a position solution.       *)
(***************************************************************************)
EXTENDS NtripMachine

CONSTANTS Responses,        \* what casters send on a connection
          MaxConnections,   \* bound on the connections of a run
          MaxElapsed        \* bound on the time told apart within a connection

ASSUME DriverAssumption == /\ MaxConnections \in Nat
                           /\ MaxElapsed \in Nat
                           /\ Responses \subseteq Seq(Symbols)

VARIABLES run,        \* "running", "quit" by the user, or "failed": run_tui returned Err
          pc,         \* "read" between the connect and the read of one poll
          paused, stream, mach, attempts, wait, elapsed,
          \* the connection: what the caster has yet to send, what it sent and
          \* was not read, whether it closed, what was read, the events, GGA sent
          todo, wire, closed, rx, log, gga,
          conns       \* connections made

link == <<todo, wire, closed, rx, log, gga, conns>>
driver == <<paused, stream, mach, attempts, wait, elapsed>>
vars == <<run, pc, driver, link>>

None == -1            \* pending_reconnect_at, connect_started = None

Init ==
    /\ run = "running" /\ pc = "idle"
    /\ paused \in BOOLEAN
    /\ stream = FALSE
    /\ mach = NewMachine
    /\ attempts = 0
    /\ wait = None
    /\ elapsed = None
    /\ todo = <<>> /\ wire = <<>> /\ closed = TRUE
    /\ rx = <<>> /\ log = <<>> /\ gga = FALSE
    /\ conns = 0

-----------------------------------------------------------------------------
(* Reconnecting *)

(* 500 ms, doubled once per attempt and at most six times.                  *)
Delay(n) == IF n < 6 THEN <<1, 2, 4, 8, 16, 32>>[n + 1] ELSE 64

KeepsStarted ==                             \* fault: connect_started is not cleared
    /\ stream' = FALSE
    /\ elapsed' = elapsed
    /\ attempts' = attempts + 1
    /\ wait' = Delay(attempts + 1)

ScheduleReconnect ==
    /\ stream' = FALSE
    /\ elapsed' = None
    /\ attempts' = attempts + 1
    /\ wait' = Delay(attempts + 1)

GivesUp == wait = None                      \* fault: one failure is never retried
(* maybe_reconnect: no reconnect is pending, or its time has come.          *)
Due == wait \in {None, 0}

Polls == run = "running" /\ pc = "idle" /\ ~ paused

KeepsAttempts == UNCHANGED attempts         \* fault: the count is never reset
ResetsAttempts == attempts' = 0

(* connect succeeds; poll_live goes on to read in the same call.            *)
Connect ==
    /\ Polls /\ ~ stream /\ Due
    /\ conns < MaxConnections
    /\ mach' = ConnectionRequest(mach)
    /\ stream' = TRUE
    /\ elapsed' = 0
    /\ ResetsAttempts
    /\ wait' = None
    /\ pc' = "read"
    /\ conns' = conns + 1
    /\ \E response \in Responses : todo' = response
    /\ wire' = <<>> /\ closed' = FALSE
    /\ rx' = <<>> /\ log' = <<>> /\ gga' = FALSE
    /\ UNCHANGED <<run, paused>>

(* The connect or the write of the request fails: the error leaves run_tui. *)
ConnectFails ==
    /\ Polls /\ ~ stream /\ Due
    /\ run' = "failed"
    /\ UNCHANGED <<pc, driver, link>>

-----------------------------------------------------------------------------
(* Reading *)

Reads == run = "running" /\ stream /\ (pc = "read" \/ ~ paused)

ForgetsRejection == {"StreamEnded", "StreamCorrupted"}      \* fault
(* The events on which process_ntrip_bytes schedules a reconnect.           *)
Terminal == {"StreamEnded", "StreamCorrupted", "Rejected"}
Has(events, kinds) == \E i \in DOMAIN events : events[i][1] \in kinds

(* Data: push it, act on the events, solve the epochs, and send a GGA       *)
(* sentence if there is a solution, the stream is still there and it is due.*)
(* Converting the epochs or writing the sentence may fail and end the run.  *)
ReadData ==
    LET m == Push(mach, wire)
        over == Has(m.ev, Terminal)
        epoch == Has(m.ev, {"Payload"})
        uplink == epoch /\ ~ over /\ GgaDue(m, elapsed)
    IN  /\ Reads /\ wire # <<>>
        /\ pc' = "idle"
        /\ wire' = <<>>
        /\ rx' = rx \o wire
        /\ log' = log \o m.ev
        /\ IF over THEN ScheduleReconnect ELSE UNCHANGED <<stream, attempts, wait, elapsed>>
        /\ run' \in IF epoch THEN {"running", "failed"} ELSE {"running"}
        /\ \E solved \in IF uplink THEN BOOLEAN ELSE {FALSE} :
              /\ mach' = IF solved THEN GgaMessage(m, elapsed) ELSE m
              /\ gga' = (gga \/ (solved /\ run' = "running"))
        /\ UNCHANGED <<paused, todo, closed, conns>>

(* Ok(0), or an error other than a timeout, which may lose unread data.     *)
ReadEnds ==
    /\ Reads /\ closed
    /\ pc' = "idle"
    /\ ScheduleReconnect
    /\ UNCHANGED <<run, paused, mach, link>>

ReadTimesOut ==
    /\ Reads /\ wire = <<>> /\ ~ closed
    /\ pc = "read" /\ pc' = "idle"
    /\ UNCHANGED <<run, driver, link>>

-----------------------------------------------------------------------------
(* The user, the caster and the clock *)

TogglePause ==
    /\ run = "running" /\ pc = "idle"
    /\ paused' = ~ paused
    /\ UNCHANGED <<run, pc, stream, mach, attempts, wait, elapsed, link>>

Quit ==
    /\ run = "running" /\ pc = "idle"
    /\ run' = "quit"
    /\ UNCHANGED <<pc, driver, link>>

CasterSends ==
    /\ run = "running" /\ stream /\ ~ closed /\ todo # <<>>
    /\ wire' = Append(wire, Head(todo)) /\ todo' = Tail(todo)
    /\ UNCHANGED <<run, pc, driver, closed, rx, log, gga, conns>>

CasterCloses ==
    /\ run = "running" /\ stream /\ ~ closed
    /\ closed' = TRUE
    /\ UNCHANGED <<run, pc, driver, todo, wire, rx, log, gga, conns>>

Tick ==
    /\ run = "running"
    /\ wait > 0 \/ elapsed \in 0..(MaxElapsed - 1)
    /\ wait' = IF wait > 0 THEN wait - 1 ELSE wait
    /\ elapsed' = IF elapsed \in 0..(MaxElapsed - 1) THEN elapsed + 1 ELSE elapsed
    /\ UNCHANGED <<run, pc, paused, stream, mach, attempts, link>>

Poll == Connect \/ ConnectFails \/ ReadData \/ ReadEnds \/ ReadTimesOut

Next == Poll \/ TogglePause \/ Quit \/ CasterSends \/ CasterCloses \/ Tick

Spec == Init /\ [][Next]_vars

(* The loop of run_tui polls every 50 ms, so a poll that has to connect is  *)
(* made, and the clock goes on.                                             *)
FairSpec == Spec /\ WF_vars(Connect \/ ConnectFails) /\ WF_vars(Tick)

-----------------------------------------------------------------------------
(* Properties *)

(* Type invariant; connect_started is set exactly while there is a stream,  *)
(* and a reconnect is never pending at the same time.                       *)
TypeOK ==
    /\ run \in {"running", "quit", "failed"}
    /\ pc \in {"idle", "read"}
    /\ paused \in BOOLEAN /\ stream \in BOOLEAN
    /\ attempts \in Nat
    /\ wait \in -1..64
    /\ elapsed \in -1..MaxElapsed
    /\ stream <=> elapsed # None
    /\ stream => wait = None
    /\ conns \in 0..MaxConnections

(* connection_request moves the machine to AwaitingStatus on every connect  *)
(* (machine.rs:118): nothing read on a connection is taken for payload, and *)
(* no GGA sentence is sent on it, before a response was accepted on it,     *)
(* even when the connection before it broke off in the middle of its data.  *)
HandshakeFirst ==
    /\ \A i \in DOMAIN log : log[i][1] = "Payload" =>
          \E j \in 1..(i - 1) : log[j][1] = "Connected"
    /\ gga => Has(log, {"Connected"})

(* A machine that closed returns no event for whatever is read afterwards   *)
(* (machine.rs:126), so process_ntrip_bytes must drop the stream with it:   *)
(* only a sourcetable leaves the driver reading a connection to no effect.  *)
NoDeadConnection ==
    stream /\ mach.st = "Closed" => Has(log, {"Sourcetable"})

(* schedule_reconnect and connect: a driver that lost its stream always has *)
(* a reconnect pending, no more than one second away.  A connect that       *)
(* succeeds resets the count and one that fails ends the run, so the        *)
(* doubling of the delay never shows.                                       *)
RetryPending ==
    run = "running" /\ ~ stream /\ conns > 0 => wait \in 0..Delay(1)

(* What is lost comes back: without a stream, and unless the user pauses,   *)
(* the driver connects again or ends (maybe_reconnect).                     *)
Reconnects ==
    ~ stream /\ conns < MaxConnections ~> stream \/ paused \/ run # "running"

(* machine.rs:64 on StreamEnded: "A chunked data body reached its zero-size *)
(* chunk and trailer terminator".  When it is returned on a connection, the *)
(* last chunk was read on that connection.                                  *)
StreamEndedByLastChunk ==
    Has(log, {"StreamEnded"}) => Contains(rx, "D0")
=============================================================================
