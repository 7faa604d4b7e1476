--------------------------- MODULE LiveDriverProofs ---------------------------
(***************************************************************************)
(* The reconnect discipline of LiveDriver.tla and the handshake of each of *)
(* its connections, for every set of responses and every bound.  The first *)
(* leaves the parser of the response opaque; the second rests on what      *)
(* NtripMachineProofs.tla shows of a call of push.                         *)
(***************************************************************************)
EXTENDS LiveDriver, NtripMachineProofs

(* Why RetryPending holds: the count of attempts is 1 exactly while a stream *)
(* that was lost has not come back, so the delay is always Delay(1).         *)
AttemptInv ==
    /\ stream => attempts = 0 /\ conns > 0
    /\ ~ stream /\ conns = 0 => attempts = 0
    /\ ~ stream /\ conns > 0 => attempts = 1 /\ wait \in 0..2

Inv == TypeOK /\ AttemptInv

(* The delay before the first retry is two half seconds.                     *)
LEMMA DelayOne == Delay(1) = 2
  BY DEF Delay

(* Dropping the stream, whatever the reason, keeps the invariant.            *)
LEMMA ScheduleKeepsInv ==
    ASSUME Inv, stream, ScheduleReconnect, pc' \in {"idle", "read"},
           run' \in {"running", "quit", "failed"}, UNCHANGED <<paused, conns>>
    PROVE  Inv'
  <1>1. attempts = 0 /\ conns > 0 BY DEF Inv, AttemptInv
  <1>2. attempts' = 1 /\ wait' = 2 BY <1>1, DelayOne DEF ScheduleReconnect
  <1>3. stream' = FALSE /\ elapsed' = -1 BY DEF ScheduleReconnect, None
  <1>4. wait' \in -1..64 /\ elapsed' \in -1..MaxElapsed BY <1>2, <1>3, DriverAssumption
  <1>5. TypeOK' BY <1>2, <1>3, <1>4 DEF Inv, TypeOK, None
  <1>6. AttemptInv' BY <1>1, <1>2 DEF Inv, TypeOK, AttemptInv, ScheduleReconnect
  <1> QED BY <1>5, <1>6 DEF Inv

(* The inductive step: every action of the driver, the user, the caster and  *)
(* the clock keeps the invariant.                                            *)
LEMMA StepKeepsInv == Inv /\ [Next]_vars => Inv'
  <1> SUFFICES ASSUME Inv, [Next]_vars PROVE Inv'
    OBVIOUS
  <1> USE DriverAssumption
  <1>1. CASE Connect
    <2>1. TypeOK' BY <1>1 DEF Connect, Polls, ResetsAttempts, Inv, TypeOK, None
    <2>2. AttemptInv' BY <1>1 DEF Connect, ResetsAttempts, Inv, TypeOK, AttemptInv
    <2> QED BY <2>1, <2>2 DEF Inv
  <1>2. CASE ConnectFails
    BY <1>2 DEF ConnectFails, driver, link, Inv, TypeOK, AttemptInv
  <1>3. CASE ReadData
    <2>1. stream /\ pc' = "idle" /\ UNCHANGED <<paused, conns>> BY <1>3 DEF ReadData, Reads
    <2>2. run' \in {"running", "quit", "failed"} BY <1>3 DEF ReadData
    <2>3. ScheduleReconnect \/ UNCHANGED <<stream, attempts, wait, elapsed>>
      BY <1>3 DEF ReadData
    <2>4. CASE ScheduleReconnect BY <2>1, <2>2, <2>4, ScheduleKeepsInv
    <2>5. CASE UNCHANGED <<stream, attempts, wait, elapsed>>
      BY <2>1, <2>2, <2>5 DEF Inv, TypeOK, AttemptInv
    <2> QED BY <2>3, <2>4, <2>5
  <1>4. CASE ReadEnds
    <2>1. stream /\ pc' = "idle" /\ UNCHANGED <<run, paused, conns>> /\ ScheduleReconnect
      BY <1>4 DEF ReadEnds, Reads, link
    <2>2. run' \in {"running", "quit", "failed"} BY <2>1 DEF Inv, TypeOK
    <2> QED BY <2>1, <2>2, ScheduleKeepsInv
  <1>5. CASE ReadTimesOut
    BY <1>5 DEF ReadTimesOut, driver, link, Inv, TypeOK, AttemptInv
  <1>6. CASE TogglePause
    BY <1>6 DEF TogglePause, link, Inv, TypeOK, AttemptInv
  <1>7. CASE Quit
    BY <1>7 DEF Quit, driver, link, Inv, TypeOK, AttemptInv
  <1>8. CASE CasterSends
    BY <1>8 DEF CasterSends, driver, Inv, TypeOK, AttemptInv
  <1>9. CASE CasterCloses
    BY <1>9 DEF CasterCloses, driver, Inv, TypeOK, AttemptInv
  <1>10. CASE Tick
    BY <1>10 DEF Tick, link, Inv, TypeOK, AttemptInv, None
  <1>11. CASE UNCHANGED vars
    BY <1>11 DEF vars, driver, link, Inv, TypeOK, AttemptInv
  <1> QED
    BY <1>1, <1>2, <1>3, <1>4, <1>5, <1>6, <1>7, <1>8, <1>9, <1>10, <1>11 DEF Next, Poll

(* The invariant holds of every behaviour of the driver.                     *)
LEMMA DriverInv == Spec => []Inv
  <1>1. ASSUME Init PROVE Inv
    <2>1. stream = FALSE /\ elapsed = -1 /\ wait = -1 /\ conns = 0 /\ attempts = 0
      BY <1>1 DEF Init, None
    <2>2. TypeOK
      <3>1. elapsed \in -1..MaxElapsed /\ wait \in -1..64 /\ conns \in 0..MaxConnections
        BY <2>1, DriverAssumption
      <3>2. run = "running" /\ pc = "idle" /\ paused \in BOOLEAN BY <1>1 DEF Init
      <3> QED BY <2>1, <3>1, <3>2 DEF TypeOK, None
    <2> QED BY <2>1, <2>2 DEF Inv, AttemptInv
  <1> QED BY <1>1, StepKeepsInv, PTL DEF Spec

(* connect_started is set exactly while the driver holds a stream, and a     *)
(* reconnect is pending only without one (connect, schedule_reconnect).      *)
THEOREM TypeCorrect == Spec => []TypeOK
  <1>1. Inv => TypeOK BY DEF Inv
  <1> QED BY <1>1, DriverInv, PTL

(* A driver that lost its stream always has a reconnect pending, at most one *)
(* second away, however often it lost it: the doubling of the delay in       *)
(* schedule_reconnect never comes to bear.                                   *)
THEOREM RetryIsPending == Spec => []RetryPending
  <1>1. Inv => RetryPending BY DelayOne DEF Inv, TypeOK, AttemptInv, RetryPending
  <1> QED BY <1>1, DriverInv, PTL

-----------------------------------------------------------------------------
(* The connection *)

AcceptedFirst ==
    \A i \in 1..Len(log) : log[i][1] = "Payload" =>
        \E j \in 1..(i - 1) : log[j][1] = "Connected"

(* Why HandshakeFirst and NoDeadConnection hold: the machine streams only on *)
(* a connection whose log has the handshake, although the machine is older   *)
(* than the connection, because connect leaves it in AwaitingStatus.         *)
LinkInv ==
    /\ MachineOK(mach) /\ ~ mach.go
    /\ todo \in Bytes /\ wire \in Bytes
    /\ log \in Seq(Events)
    /\ mach.st = "Streaming" => Has(log, {"Connected"})
    /\ gga => Has(log, {"Connected"})
    /\ stream /\ mach.st = "Closed" => Has(log, {"Sourcetable"})
    /\ AcceptedFirst

(* Appending events keeps those that were there.                             *)
LEMMA HasAppended ==
    ASSUME NEW a \in Seq(Events), NEW b \in Seq(Events), NEW kinds
    PROVE  Has(a \o b, kinds) <=> Has(a, kinds) \/ Has(b, kinds)
  <1>1. /\ a \o b \in Seq(Events) /\ Len(a \o b) = Len(a) + Len(b)
        /\ \A i \in 1..Len(a) : (a \o b)[i] = a[i]
        /\ \A i \in 1..Len(b) : (a \o b)[Len(a) + i] = b[i]
    OBVIOUS
  <1>2. /\ DOMAIN a = 1..Len(a) /\ DOMAIN b = 1..Len(b)
        /\ DOMAIN (a \o b) = 1..(Len(a) + Len(b))
        /\ Len(a) \in Nat /\ Len(b) \in Nat
    BY <1>1
  <1>3. ASSUME Has(a, kinds) PROVE Has(a \o b, kinds)
    <2>1. PICK i \in 1..Len(a) : a[i][1] \in kinds BY <1>2, <1>3 DEF Has
    <2>2. i \in 1..(Len(a) + Len(b)) BY <1>2
    <2> QED BY <1>1, <1>2, <2>1, <2>2 DEF Has
  <1>4. ASSUME Has(b, kinds) PROVE Has(a \o b, kinds)
    <2>1. PICK i \in 1..Len(b) : b[i][1] \in kinds BY <1>2, <1>4 DEF Has
    <2>2. Len(a) + i \in 1..(Len(a) + Len(b)) BY <1>2
    <2> QED BY <1>1, <1>2, <2>1, <2>2 DEF Has
  <1>5. ASSUME Has(a \o b, kinds) PROVE Has(a, kinds) \/ Has(b, kinds)
    <2>1. PICK i \in 1..(Len(a) + Len(b)) : (a \o b)[i][1] \in kinds BY <1>2, <1>5 DEF Has
    <2>2. CASE i <= Len(a)
      <3>1. i \in 1..Len(a) BY <1>2, <2>2
      <3> QED BY <1>1, <1>2, <2>1, <3>1 DEF Has
    <2>3. CASE ~ (i <= Len(a))
      <3>1. i - Len(a) \in 1..Len(b) /\ Len(a) + (i - Len(a)) = i BY <1>2, <2>3
      <3> QED BY <1>1, <1>2, <2>1, <3>1 DEF Has
    <2> QED BY <2>2, <2>3
  <1> QED BY <1>3, <1>4, <1>5

(* Reading data: the events of the push follow those of the connection.      *)
LEMMA ReadKeepsLink ==
    ASSUME Inv, LinkInv, ReadData
    PROVE  LinkInv'
  <1> DEFINE m == Push(mach, wire)
             over == Has(m.ev, Terminal)
  <1>1. /\ MachineOK(mach) /\ ~ mach.go /\ wire \in Bytes /\ todo \in Bytes
        /\ log \in Seq(Events)
    BY DEF LinkInv
  <1>2. /\ MachineOK(m) /\ ~ m.go
        /\ mach.st = "Closed" => m.st = "Closed" /\ m.ev = <<>>
        /\ mach.st # "Closed" => History(mach, m)
    BY <1>1, PushFacts
  <1>3. /\ wire' = <<>> /\ todo' = todo /\ log' = log \o m.ev
        /\ IF over THEN ScheduleReconnect ELSE UNCHANGED <<stream, attempts, wait, elapsed>>
        /\ stream
    BY DEF ReadData, Reads
  <1>4. PICK solved : /\ mach' = IF solved THEN GgaMessage(m, elapsed) ELSE m
                      /\ gga' => gga \/ solved
                      /\ solved => m.st = "Streaming"
    <2>1. PICK solved \in IF Has(m.ev, {"Payload"}) /\ ~ over /\ GgaDue(m, elapsed)
                          THEN BOOLEAN ELSE {FALSE} :
            /\ mach' = IF solved THEN GgaMessage(m, elapsed) ELSE m
            /\ gga' = (gga \/ (solved /\ run' = "running"))
      BY DEF ReadData
    <2>2. solved => GgaDue(m, elapsed) BY <2>1
    <2> QED BY <2>1, <2>2 DEF GgaDue
  <1> HIDE DEF m
  <1>5. MachineOK(mach') /\ ~ mach'.go /\ mach'.st = m.st
    <2>1. elapsed \in Int BY DriverAssumption DEF Inv, TypeOK
    <2>2. CASE solved BY <1>2, <1>4, <2>1, <2>2, GgaFacts
    <2>3. CASE ~ solved BY <1>2, <1>4, <2>3
    <2> QED BY <2>2, <2>3
  <1>6. m.ev \in Seq(Events) BY <1>2 DEF MachineOK, MachineType
  <1>7. \A kinds : Has(log', kinds) <=> Has(log, kinds) \/ Has(m.ev, kinds)
    BY <1>1, <1>3, <1>6, HasAppended
  <1>8. log' \in Seq(Events) BY <1>1, <1>3, <1>6, ConcatProperties
  <1>9. DOMAIN m.ev = 1..Len(m.ev) /\ Len(m.ev) \in Nat /\ Len(log) \in Nat
        /\ DOMAIN log = 1..Len(log)
    BY <1>1, <1>6
  <1>10. m.st = "Streaming" => Has(log', {"Connected"})
    <2> SUFFICES ASSUME m.st = "Streaming" PROVE Has(log', {"Connected"})
      OBVIOUS
    <2>1. Accepted(mach, m, Len(m.ev)) BY <1>2 DEF History
    <2>2. CASE mach.st = "Streaming" BY <1>7, <2>2 DEF LinkInv
    <2>3. CASE mach.st # "Streaming"
      <3>1. Has(m.ev, {"Connected"}) BY <1>9, <2>1, <2>3 DEF Accepted, Has
      <3> QED BY <1>7, <3>1
    <2> QED BY <2>2, <2>3
  <1>11. gga' => Has(log', {"Connected"}) BY <1>4, <1>7, <1>10 DEF LinkInv
  <1>12. stream' /\ mach'.st = "Closed" => Has(log', {"Sourcetable"})
    <2> SUFFICES ASSUME stream', m.st = "Closed" PROVE Has(log', {"Sourcetable"})
      BY <1>5
    <2>1. ~ over BY <1>3 DEF ScheduleReconnect
    <2>2. CASE mach.st = "Closed" BY <1>3, <1>7, <2>2 DEF LinkInv
    <2>3. CASE mach.st # "Closed"
      <3>1. PICK i \in 1..Len(m.ev) : m.ev[i][1] \in Ends BY <1>2, <2>3 DEF History
      <3>2. m.ev[i][1] \notin Terminal BY <1>9, <2>1 DEF Has
      <3>3. m.ev[i][1] = "Sourcetable" BY <3>1, <3>2 DEF Ends, Terminal
      <3> QED BY <1>7, <1>9, <3>3 DEF Has
    <2> QED BY <2>2, <2>3
  <1>13. AcceptedFirst'
    <2> DEFINE k == Len(log)
               e == m.ev
    <2>1. /\ Len(log') = k + Len(e)
          /\ \A i \in 1..k : log'[i] = log[i]
          /\ \A i \in 1..Len(e) : log'[k + i] = e[i]
      BY <1>1, <1>3, <1>6
    <2>2. ASSUME NEW i \in 1..(k + Len(e)), log'[i][1] = "Payload"
          PROVE  \E j \in 1..(i - 1) : log'[j][1] = "Connected"
      <3>1. CASE i <= k
        <4>1. i \in 1..k BY <1>9, <3>1
        <4>2. PICK j \in 1..(i - 1) : log[j][1] = "Connected"
          BY <2>1, <2>2, <4>1 DEF LinkInv, AcceptedFirst
        <4>3. j \in 1..k BY <1>9, <3>1
        <4> QED BY <2>1, <4>2, <4>3
      <3>2. CASE ~ (i <= k)
        <4>1. PICK q \in 1..Len(e) : i = k + q
          <5>1. i - k \in 1..Len(e) /\ i = k + (i - k) BY <1>9, <3>2
          <5> QED BY <5>1
        <4>2. e[q][1] = "Payload" BY <2>1, <2>2, <4>1
        <4>3. mach.st # "Closed" BY <1>2, <4>1, EmptyBytes
        <4>4. Accepted(mach, m, q - 1) BY <1>2, <4>2, <4>3 DEF History
        <4>5. CASE mach.st = "Streaming"
          <5>1. PICK j \in 1..k : log[j][1] = "Connected" BY <1>9, <4>5 DEF LinkInv, Has
          <5>2. j \in 1..(i - 1) BY <1>9, <3>2
          <5> QED BY <2>1, <5>1, <5>2
        <4>6. CASE mach.st # "Streaming"
          <5>1. PICK j \in 1..(q - 1) : e[j][1] = "Connected" BY <4>4, <4>6 DEF Accepted
          <5>2. j \in 1..Len(e) /\ k + j \in 1..(i - 1) BY <1>9, <4>1
          <5>3. log'[k + j] = e[j] BY <2>1, <5>2
          <5> QED BY <5>1, <5>2, <5>3
        <4> QED BY <4>5, <4>6
      <3> QED BY <3>1, <3>2
    <2> QED BY <2>1, <2>2 DEF AcceptedFirst
  <1> QED BY <1>1, <1>3, <1>5, <1>8, <1>10, <1>11, <1>12, <1>13, EmptyBytes DEF LinkInv

(* The inductive step of the connection.                                     *)
LEMMA StepKeepsLink == Inv /\ LinkInv /\ [Next]_vars => LinkInv'
  <1> SUFFICES ASSUME Inv, LinkInv, [Next]_vars PROVE LinkInv'
    OBVIOUS
  <1>1. CASE Connect
    <2>1. /\ mach' = ConnectionRequest(mach) /\ wire' = <<>> /\ log' = <<>> /\ gga' = FALSE
          /\ todo' \in Responses
      BY <1>1 DEF Connect
    <2>2. MachineOK(mach') /\ ~ mach'.go /\ mach'.st = "AwaitingStatus"
      BY <2>1, RequestFacts DEF LinkInv
    <2>3. todo' \in Bytes /\ wire' \in Bytes BY <2>1, DriverAssumption, EmptyBytes DEF Bytes
    <2>4. log' \in Seq(Events) /\ AcceptedFirst' BY <2>1 DEF AcceptedFirst
    <2> QED BY <2>1, <2>2, <2>3, <2>4 DEF LinkInv
  <1>2. CASE ReadData BY <1>2, ReadKeepsLink
  <1>3. CASE UNCHANGED <<mach, todo, wire, log, gga>> /\ (stream' => stream)
    BY <1>3 DEF LinkInv, AcceptedFirst
  <1>4. CASE CasterSends
    <2>1. /\ wire' = Append(wire, Head(todo)) /\ todo' = Tail(todo) /\ todo # <<>>
          /\ UNCHANGED <<mach, log, gga, stream>>
      BY <1>4 DEF CasterSends, driver
    <2>2. wire' \in Bytes /\ todo' \in Bytes
      <3>1. wire \in Seq(Symbols) /\ todo \in Seq(Symbols) BY DEF LinkInv, Bytes
      <3>2. Head(todo) \in Symbols /\ Tail(todo) \in Seq(Symbols) BY <2>1, <3>1
      <3> QED BY <2>1, <3>1, <3>2 DEF Bytes
    <2> QED BY <2>1, <2>2 DEF LinkInv, AcceptedFirst
  <1>5. CASE ConnectFails BY <1>3, <1>5 DEF ConnectFails, driver, link
  <1>6. CASE ReadEnds BY <1>3, <1>6 DEF ReadEnds, ScheduleReconnect, link
  <1>7. CASE ReadTimesOut BY <1>3, <1>7 DEF ReadTimesOut, driver, link
  <1>8. CASE TogglePause BY <1>3, <1>8 DEF TogglePause, link
  <1>9. CASE Quit BY <1>3, <1>9 DEF Quit, driver, link
  <1>10. CASE CasterCloses BY <1>3, <1>10 DEF CasterCloses, driver
  <1>11. CASE Tick BY <1>3, <1>11 DEF Tick, link
  <1>12. CASE UNCHANGED vars BY <1>3, <1>12 DEF vars, driver, link
  <1> QED BY <1>1, <1>2, <1>4, <1>5, <1>6, <1>7, <1>8, <1>9, <1>10, <1>11, <1>12 DEF Next, Poll

(* The connection's invariant holds of every behaviour of the driver.        *)
LEMMA ConnectionInv == Spec => []LinkInv
  <1>1. ASSUME Init PROVE LinkInv
    <2>1. /\ mach = NewMachine /\ todo = <<>> /\ wire = <<>> /\ log = <<>> /\ gga = FALSE
          /\ stream = FALSE
      BY <1>1 DEF Init
    <2>2. NewMachine.st = "Idle" BY DEF NewMachine
    <2>3. log \in Seq(Events) /\ AcceptedFirst BY <2>1 DEF AcceptedFirst
    <2> QED BY <2>1, <2>2, <2>3, NewMachineFacts, EmptyBytes DEF LinkInv
  <1> QED BY <1>1, StepKeepsLink, DriverInv, PTL DEF Spec

(* Nothing read on a connection is taken for payload, and no GGA sentence is *)
(* sent on it, before a response was accepted on it, whatever the casters    *)
(* send and however their responses are split into reads and connections     *)
(* (connection_request, push, try_gga_message).                              *)
THEOREM HandshakeComesFirst == Spec => []HandshakeFirst
  <1>1. LinkInv => HandshakeFirst
    <2> SUFFICES ASSUME LinkInv PROVE HandshakeFirst
      OBVIOUS
    <2>1. DOMAIN log = 1..Len(log) BY DEF LinkInv
    <2> QED BY <2>1 DEF LinkInv, AcceptedFirst, HandshakeFirst
  <1> QED BY <1>1, ConnectionInv, PTL

(* A machine that closed on a connection said so with an event on which      *)
(* process_ntrip_bytes drops the stream, or with a sourcetable.              *)
THEOREM DeadConnectionsDropped == Spec => []NoDeadConnection
  <1>1. LinkInv => NoDeadConnection BY DEF LinkInv, NoDeadConnection
  <1> QED BY <1>1, ConnectionInv, PTL
=============================================================================
