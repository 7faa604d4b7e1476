# Verification of sidereon

TLA+ models of the stateful core of sidereon, their TLC runs, and TLAPS proofs.
Every definition is translated from the Rust source; `PROJECT.json` maps each one
to the lines it stands for.

Contents: [the system](#1-the-system) ·
[exact-product cache](#2-the-exact-product-cache) ·
[NTRIP client and RTCM frames](#3-the-ntrip-client-and-rtcm-frames) ·
[live monitor](#4-the-live-monitor) ·
[lock-time tracker](#5-the-lock-time-tracker) ·
[time synchronization](#6-gnssins-time-synchronization) · [runs](#7-runs) ·
[proofs](#8-proofs) · [findings](#9-findings) · [plan](#10-plan) ·
[not modelled](#11-not-modelled)

## 1. The system

sidereon is a GNSS and astrodynamics library (`crates/sidereon-core`) with a
command-line tool and a terminal monitor (`crates/sidereon-cli`). Most of its
code is numerical: orbit propagation, positioning, filters. What is promised of
that code is accuracy, checked against oracles. The parts that keep state across
calls, and whose correctness is a matter of order, failure and time, are these:

| component | source (under `src/crates/`) | state | operations |
|---|---|---|---|
| exact-product cache, file protocol | `sidereon-core/src/exact_cache.rs` | `current.json`, entry directories, temporary markers, advisory lock | `lock`, `read`, `publish`, `cleanup_abandoned` |
| exact-product cache, single flight | `sidereon-core/src/exact_cache.rs` | `in-flight.json`, heartbeat files, wait state, heartbeat thread | `open_single_flight`, `ExactCacheOwner::{heartbeat, publish, drop}` |
| NTRIP client machine | `sidereon-core/src/ntrip/{machine,chunk,response}.rs` | parser state, carried bytes, headers, decoder, table text, time of the last GGA | `connection_request`, `push`, `finish`, `try_gga_message`, `reset` |
| live monitor driver | `sidereon-cli/src/tui.rs` | TCP stream, machine, reconnect attempts and time, pause | `poll_live`, `connect`, `schedule_reconnect`, `process_ntrip_bytes` |
| RTCM framing and stream assembler | `sidereon-core/src/rtcm/{framing,mod}.rs` | buffered bytes, bytes drained, counters | `push`, `finish`, `decode_stream` |
| RTCM lock-time tracker | `sidereon-core/src/rtcm/lli.rs` | last lock time and epoch per signal | `observe`, `reset` |
| GNSS/INS time synchronization | `sidereon-core/src/fusion/timesync.rs` | bounded IMU, checkpoint and measurement histories | `propagate`, `update_*`, `update_*_time_sync` with rewind and replay, `restore_snapshot`, `restore_encoded_state` |
| correction and ephemeris stores | `sidereon-core/src/{ssr,sbas,rinex_nav,staleness}` | newest record per satellite and issue of data | ingest, select, expire |
| geofence monitor, tracks, terrain tiles | `sidereon-core/src/{geofence,terrain_store}.rs`, `estimation/track.rs` | small per-object state | update, query |

How they interact. The bindings that download products call the cache: on a
miss `open_single_flight` elects one downloader among the processes of a host,
which then calls `publish` under the same advisory lock; readers take no lock at
all. The live monitor owns a TCP connection, feeds what it reads to the NTRIP
machine, which is sans-I/O, acts on the returned events, hands payload to the
RTCM assembler and its messages to the solver, and sends the solution back as a
GGA sentence when the machine says one is due. The lock-time tracker is called
with the MSM messages such a stream decodes to. The inertial filter is called by
an application that feeds it IMU samples in order and GNSS measurements when
they arrive.

What is hard about them, and so what the properties are aimed at:

* **cache**: readers without a lock against a publisher and a cleanup that
  delete files; a process dying, a call failing or the power failing between any
  two file-system calls; owners that stall and come back after they were
  replaced; timers of several processes compared with nobody's common clock;
* **NTRIP**: a response split into reads anywhere; limits on what a caster can
  make the client keep; malformed bodies; one parser used for many connections;
* **monitor**: connections that end in the same read that brought data,
  reconnects, what is left over from the previous connection;
* **RTCM frames**: a preamble that is none, a frame cut by a read, a chunk or a
  reconnect, counters kept by two loops that must agree;
* **lock times**: reports lost, repeated and delayed, epochs that wrap, bounds
  of different resolution;
* **time synchronization**: three ring buffers that evict independently, a
  replay that fails half way, snapshots of another past, duplicates.

`PROJECT.json` lists each of these as a hazard at its line, with the properties
that would catch it.

## 2. The exact-product cache

### Modules

* `CacheRegister` - the abstract specification: one register. A commit replaces
  the current entry by one that was never current; a read returns something that
  was current while it ran; a read fails only for a failed call, or after the
  register changed at least `MaxTries` times while it ran.
* `ExactCache` - the file protocol. One action per file-system call that another
  process can see. `Crash` may come between any two; `MaxFaults` calls may fail
  anywhere. Refines `CacheRegister` (`ImplementsRegister`).
* `CacheDurability` - the same `publish` and `cleanup_abandoned` for one lock
  holder under power loss: what was written and not synchronized may or may not
  be on disk.
* `SingleFlight` - the coalescing of misses on top of the register.
* `ExactCacheProofs`, `CacheDurabilityProofs`, `SingleFlightProofs` - theorems.
* `MCExactCache`, `MCSingleFlight` - symmetry for TLC, nothing else.

### Correspondence

`ExactCache`: `marker` is `current.json`, `dirs` and `files` are `entries/<id>/`
with its three files, `temp` the `.current.json.<id>.tmp` files, `lock` the
holder of the advisory lock. `pc[p]` is where process `p` is in the code; the
locals of `publish`, `cleanup_abandoned` and `read` are `ent`, `todo`, `rd`,
`bytes`, `tries`. The bytes of a file are what the digests of the commit record
tell apart: absent, partial (created, not all bytes written) and full.
`remove_dir_all` unlinks file by file, in any order, then removes the directory.
`read` reads marker and files with separate calls and looks at the marker again
when something was missing or did not verify. An entry identifier is 128 random
bits, so one is never drawn twice.

`CacheDurability`: `onDisk` is the set of markers the disk may show after a power
loss; `safe[e]` says whether the entry's name in `entries/` and its files were
synchronized. `Removed` keeps apart entries that were whole when removed, because
a removal that was not synchronized may be undone. After a loss the model
continues with what is on disk. Any number of calls may fail: `Fail` leads to the
error path (`Undo`), where reading `current.json` again may fail as well, and
`Cleanup` removes all or some of what is abandoned. `lastOk`, `renamed` and
`exposed` only record what happened.

`SingleFlight`: `infl` and `whole` are `in-flight.json` and whether all its bytes
are there, `beat` the length of the heartbeat files. `OpenRead` to `OpenWake` are
the waiting loop, with `now` taken before the snapshot as in the source and the
snapshot read in two calls. `try_claim_transition`, `try_takeover_transition`,
`claim_inflight`, `retire_inflight` and `release_inflight` are sequences of
actions, each one call. The heartbeat thread (`BeatCheck`, `BeatAppend`) checks
its token and appends in two steps without the lock, as the code does. Time is a
counter per timer, advanced by `Tick`. A process in `Prompt` takes a due step
before the clock advances; any other may be delayed arbitrarily.

### Properties

`CurrentEntryComplete` (the marker names a complete entry), `PublishedIsCurrent`,
`NoSpuriousReadError` (an unlocked read never blames an entry that is merely
being replaced), `CleanupLeavesOnlyCurrent`, `ImplementsRegister`,
`EveryCallReturns`; `MarkerNamesWhole`, `OkSurvivesPowerLoss`; `OneCommit`,
`CommitterIsOwner` (the fence: between the token check and the commit the record
cannot be retired), `NoOwnerAfterCommit`, `RetiresOnlyWatched`,
`RefreshingOwnerKept`, `NoHeartbeatAfterReap` (a refresh under way does not bring
back the heartbeat file of an owner that was retired), `BoundedWait`,
`EveryOpenReturns`.

`MarkerNamesWhole` has two exceptions, which the code really has. `exposed` is the
set of entries they concern, the others are covered whatever happened:

* `cleanup_abandoned` does not synchronize the control directory before it
  removes entries. If a publisher died or failed after its rename and before the
  final synchronization, the next holder removes the previous entry while the
  disk may still bring back the previous marker; after a power loss the marker
  then names nothing.
* When the final synchronization fails and the error path cannot read
  `current.json`, `publish` removes the entry the marker names (section 9). The
  marker names nothing from then on, unless a power loss undoes the removal.

Reads detect both by the digests, so nothing mixed is exposed, but the entry is
lost. `OkSurvivesPowerLoss` says how far this can reach: an entry whose `publish`
returned Ok is current with all its bytes until a later `publish` renames the
marker, with no exception; only from then on may its files be gone while the disk
brings back its marker.

## 3. The NTRIP client and RTCM frames

### Modules

* `ChunkedDecoder` - the decoder of `chunk.rs` as operators on its state.
* `NtripMachine` - `NtripClientMachine`; `Push`, `Finish`, `ConnectionRequest`
  and `GgaMessage` return the machine after the call, with the returned events
  in its field `ev`.
* `RtcmAssembler` - `SsrStreamAssembler` and the frames of `framing.rs`, as
  operators on its state.
* `NtripClient` - a caster that follows a script, a network that splits its
  response anywhere, the client, and the assembler that receives its payload and
  lives through reconnects, as in `tui.rs`. `EndOfFrames` is the `finish` of
  `ssr_store_from_rtcm`, after which `NextReader` starts afresh.
* `RtcmReference` - `decode_stream`: the frames of a payload that is there in the
  whole, as a recursive function, and `AssemblyIndependent`, which compares the
  assembler of `NtripClient` with it.
* `NtripReference` - what a response means, read as a whole, written without any
  state carried between reads, and `FragmentationIndependent`, which compares
  `NtripClient` with it. Its operators are recursive and used by TLC only.
* `NtripMachineProofs`, `NtripClientProofs` - what a call of the machine does, and
  theorems.
* `MCNtripClient` - the alphabet and the scripts.

### Abstraction

Input is a sequence of `Symbols`, a constant. `CR` and `LF` are bytes, because where a read
splits them matters. Any other symbol is a word the parsers look at as a whole:
a status (`ICY`, `SRC`, `HTTP200`, `HTTP404`, `ERROR`), a header (`TE` for
chunked transfer encoding, `CTdata`, `CTtable`, `CThtml`, `X`), a table record
(`REC`, `END`), a hexadecimal digit (`D0`, `D1`, `D2`), `;`, or `d` for any other
byte. Each counts one byte against the limits, which are constants. A word is
never split, so what is checked about fragmentation concerns lines, line ends,
chunk sizes of several digits, chunk data, trailers and table lines. The words of
a rejection, the fields of a record and the request text are left out.

A frame is a preamble `P`, one symbol for reserved bits and length, the body and
one symbol of checksum, a parity over what precedes it. Each symbol is also a
legal length and a legal checksum, so that frames begin inside frames and a
false preamble swallows true ones, as 0xD3 does in a body. What a body decodes
to is its symbols; an empty body does not decode, reserved bits are a departure,
refused under `Strict`.

### Properties

`FragmentationIndependent`: after every read the events returned so far, adjacent
payloads joined, are among those the reference allows for the bytes received so
far. Two things legitimately depend on the reads and the reference says so: a
line longer than the limit, and payload decoded in the same read as a corruption,
which the decoder discards. `SameInOneRead` compares the reads with a single one
instead, of the same machine: the same notices and the same joined payload, at
any time and at the end of the connection. It needs no reference, so it can be
proved (section 8); `FragmentationIndependent` also says what those events are.
Its exceptions are the same two dependences, stated on the machine: it closed over
a line whose end it had not seen (`GaveUp`), or the response in one read is found
corrupted and either the client was told so too or a chunked table was complete
before the corruption was read. `BuffersBounded`: what an open machine keeps between
reads never exceeds a line, a header block and a table, and the assembler waits
for less than one frame. `AssemblyIndependent`: however payload was cut by reads,
chunks and connections, what the assembler has drained holds the frames, the
skipped bytes and the checksum failures that `decode_stream` finds there in the
whole, and `finish` accounts for the rest. `TypeOK` includes that a `push` always
runs its loop to the end.

The limit on a status line is such a dependence on reads: `take_line_or_reject`
looks for a line end before it looks at the length, so a status line longer than
`MAX_LINE` is parsed when its LF is in the same read and rejected when it comes
later, while the comment at `machine.rs:20` says an oversized line is rejected.
`FragmentationIndependent` excepts such lines (`Long` in `NtripReference`).

## 4. The live monitor

`LiveDriver` composes `NtripMachine` with the monitor's driver, a caster that
sends a response symbol by symbol and may close at any point, a user who pauses
and quits, and the clock. One poll is `Connect` (or `ConnectFails`) followed by a
read in the same call, or a read alone: `ReadData`, `ReadEnds`, `ReadTimesOut`.
`ReadData` is the whole of `poll_live`'s data branch: push, events, reconnect on
a terminal event, solution of the epochs, GGA uplink. Time is in half seconds,
the unit of the shortest reconnect delay. `MCLiveDriver` holds the responses.

`HandshakeFirst`: nothing on a connection is taken for payload, and no position
is sent on it, before a response was accepted on it. `NoDeadConnection`: a machine
that closed never leaves its connection open, except after a sourcetable, which
the driver ignores. `RetryPending`: a lost stream always has a reconnect at most a
second away. The back-off doubles per attempt, but an attempt that fails ends
the program and one that succeeds resets the count, so longer delays are never
used. `Reconnects`: a lost stream comes back, unless the user pauses or the
program ends.

## 5. The lock-time tracker

`LockTime` has the receiver, the link and `LockTimeTracker`. `Advance` lets time
pass and lock be lost; `Send` puts a report for some cells of one system on the
link, where it stays: a report that is observed twice, late, or never is one
choice of `\E m \in link`. `Observe` is the whole of `observe` for one message;
`Reset` is `reset`. Time is in milliseconds with the real week and day. `cells`
is the tracker's map; `seen` records which report a cell's state came from and
which was observed last. Both indicator tables are translated from the source
(`Df402`, `Df407`); how a receiver fills them (`Encode402`, `Encode407`) is
external and is the inverse of the tables. A GLONASS report gives its day of
week or the value for unknown. There is no leap second in a run: GLONASS time
follows UTC and its day of week could not express one.

`NoMissedSlip`: if lock was lost after the last observed report and no later
than this one, the bit is set, provided the outage is shorter than a week, or a
day for GLONASS. Beyond that the epochs cannot show it: an outage of the
modulus plus a little looks like a short one, and only a decrease of the bound
then gives the slip away. `NoFalseAlarm`: a signal tracked for twice the gap
between two reports is not reported as lost, which ties the tables to the
comparison with the gap. `TypeOK` says that a state not replaced by a report of
the same epoch is still the state of that epoch.

## 6. GNSS/INS time synchronization

`TimeSync` keeps the filter as the record of what it was propagated over
(`segs`) and corrected by (`at`, `ps`), and the three histories as sequences
bounded by `config`. Two filters with the same record have the same numbers,
since the code is deterministic. `Propagate` is `propagate`; `Update` is
`update_loose` or `update_tight` at the current epoch. A late update is several
steps on a working copy, as in the code: `LateBegin` finds the checkpoint and
the measurements to replay, `LateReplay` is one turn of the loop, `LateCommit`
is the last replay and `*self = working`. `LateFail` may come at any of them,
for the corrections may fail numerically anywhere; no other call can come in
between, because the filter is borrowed. `CanReplay` gives the refusals of
`replay_imu_to_epoch` and `segment_sample`: no sample covers the epoch, or part
of a rate sample is needed and the sample before it is unknown. `SaveState`
keeps both a snapshot and the encoded state, `RestoreSnapshot` and
`RestoreEncoded` bring them back.

`InOrderFilter` is the abstract specification: measurements in any order, the
filter always that of processing in epoch order. It promises nothing about
pseudo-measurements after the point a late update goes back to, which the code
does not keep and so drops, and nothing after a caller restored a snapshot that
is no past state of this filter. It does not forbid a second measurement at an
epoch; that is `NotFusedTwice`, see the findings.

`HistoryOrdered`: order of the three histories and nothing newer than the
filter, on which every search from the back relies. `NothingForgotten`: every
measurement applied since the oldest checkpoint is retained, though checkpoints
and measurements are evicted by separate buffers. It holds because each
measurement pushes one of each and both have the same capacity, and a history
starts with one checkpoint more than it has measurements.

## 7. Runs

| run | instance | shows |
|---|---|---|
| `exact_cache` | 2 writers, one of them also reads; 2 publications; 1 failing call | safety of the file protocol; every call returns |
| `exact_cache_register` | 1 writer, 1 reader, 3 publications, 2 attempts | refinement of `CacheRegister` |
| `cache_power_loss` | 4 publications, any number of losses, deaths and failing calls | write, synchronize, rename order; what an Ok publication is worth |
| `single_flight` | 2 processes, arbitrary delays | one commit, fencing, no heartbeat file brought back, termination |
| `single_flight_lease` | 3 prompt processes | timing of the lease, racing takeovers |
| `ntrip_response` | 14 scripts of up to 20 symbols, 3 of them of frames | fragmentation independence of responses (against a reference, and against one read) and of frames, bounds |
| `live_driver` | 2 connections, 4 kinds of response | handshake, reconnects |
| `lock_time` | 1 cell of either system, 3 reports of 3 kinds, gaps around a day and a week | no missed slip, no false alarm |
| `time_sync` | 4 epochs, 3 updates or saves, capacities 2 and 3 | in-order result, order and completeness of the histories |
| `live_driver_stale_decoder`, `time_sync_duplicate`, `time_sync_unrestorable` | | violations, see [Findings](#9-findings) |

Why the bounds are enough:

* *Entries, tokens*: an entry is current, abandoned or being written, so two
  publications make each of them coexist with another; three let two commits
  overtake one read of two attempts, the least number at which the limit shows.
  `MaxTries` is 16 in the code; the argument does not depend on the number.
* *Faults*: in `ExactCache`, one failing call at any place, with any number of
  deaths. Two break `CurrentEntryComplete`, see the findings. `CacheDurability`
  bounds neither.
* *Processes*: two are one holder and one contender; three allow a dead owner
  with two waiters racing for its place.
* *Timers*: small numbers with the order `validate` demands,
  `heartbeat < liveness`, and in the lease run a `poll` that does not divide the
  liveness window, so that clipped sleeps happen. Timers saturate at the largest value compared with
  anything. `MaxBeats` bounds a heartbeat file; `Refreshing` asks for an owner
  below it, so the bound never counts as silence.
* *NTRIP*: `MaxLine = 3` with scripts that go beyond it, chunks of up to two
  symbols, `MaxHeaders = 4` and `MaxTable = 9`: one script reaches the first with a header
  line that just fits and goes beyond it with the same line or the next, and the
  scripts of tables do so with the second.
* *Frames*: bodies of up to three symbols. A false preamble in front of a frame,
  in its body and in its checksum, a frame whose checksum fails with another one
  inside it, and a frame in two chunks or two connections all occur within five
  symbols after the handshake. A reconnect uses up the payload already sent, so
  that the total stays bounded.
* *Lock times*: the run starts 900 ms before the end of a week and steps by
  0.6 s, a day less half a second, and a week plus half a second, so that
  epochs wrap, gaps lie on both sides of each modulus, and some are no multiple
  of a bucket. Three reports are a state, a stale repetition and a new one.
* *Time synchronization*: capacities of two and three overflow within the four
  epochs, in either order of the two buffers; three calls are a measurement, a
  late one before it, and a save or a third.
* *Connections*: two, because what may leak is the state left by one connection
  into the next. Delays are told apart up to `MaxElapsed`, beyond the GGA
  interval.

Deadlock is checked everywhere except in `LiveDriver`, where the program may end.

Fairness. `ExactCache` and `SingleFlight` assume weak fairness of the steps a
process takes by itself (`Step`, and `Thread` for the heartbeat), never of the
calls its user decides to make, and in `SingleFlight` of the clock: a process
that is alive is scheduled. A process need not be promised the lock; both lock
loops have a deadline. `LiveDriver` assumes it for `Connect \/ ConnectFails`,
because the loop of `run_tui` polls every 50 ms, and for the clock. Neither
reads, nor the caster, nor the user are fair.

## 8. Proofs

All theorems hold for every value of the constants under the named assumptions.

* `ExactCacheProofs`: `TypeCorrect`; `CurrentComplete` and `PublishedCurrent`,
  assuming `MaxFaults <= 1`, which the finding below shows to be needed. The
  inductive invariant adds to the property: who is in a guarded section holds the
  lock (`LockInv`); what a process publishes or reads is an identifier handed out
  (`LocalsInv`); how far a publication has come and what is then on disk, in
  particular that the error path finds its entry current only after a failed call
  (`PublishInv`); and that a cleanup's list never holds the current entry
  (`CleanInv`). The last two need the first: only the lock keeps another process
  from changing the marker in between.

  `CleanupComplete`: what a cleanup lists is everything but the current entry, and
  each turn takes one thing off the list and off the disk, while its lock keeps
  others from adding to it (`SweepInv`). `ReadsNeverTorn` and `RegisterRefined`
  are one argument: whatever an unlocked read has found missing or torn was the
  entry of a marker that has changed since, so each further attempt is paid for
  by a change of the marker; and the bytes it did read belong to an entry that
  was current after the read began. The refinement maps a rename to a commit and
  the last look at the marker to the return of a read; every other step stutters.
* `CacheDurabilityProofs`: `MarkerWhole`, `OkSurvives`, for any number of
  publications, losses, deaths and failing calls, and with the exceptions of
  section 2. The invariant says that everything the disk may show as the marker
  names an entry that is whole and synchronized, or exposed (`DiskInv`); what is
  synchronized at each step of `publish` (`PublishInv`); and that nothing older
  than the last Ok may come back, and until the next rename nothing but that
  entry, whole and synchronized (`OkInv`).
* `SingleFlightProofs`: `AtMostOneCommit`, `Fencing`, `SingleOwner`,
  `NoRedundantOwner`, `OnlyWatchedRetired`, `ReapIsFinal`. Timers play no part, so
  these hold for any delays. The invariant: guarded sections hold the lock (`LockInv`); tokens
  are drawn once, belong to one process, and a record in place is not retired
  (`TokenInv`); what a takeover retires is what it has seen (`SeenInv`); an owner
  was retired or its record is in place (`OwnerInv`); nothing is committed while
  a claim is under way or an owner with its record in place has yet to commit
  (`CommitInv`). `TypeCorrect` and `WaitBounded` are about the timers: a
  process that is not delayed decides at the time it sampled and sleeps no longer
  than what is left of the wait (`WaitInv`). `OwnerKept` is about all timers
  together, when no process is delayed (`Prompt = Procs`). What a waiter has seen
  of a heartbeat file is never longer than the file (`SeenBeatInv`), so a refresh
  makes what was seen stale; nobody has seen a record unchanged for longer than
  since its owner's last refresh, which is at most `Heartbeat` ago
  (`SeenAgeInv`); who takes over has seen it unchanged for `Liveness` ticks
  (`WindowInv`); so no record about to be retired is being refreshed
  (`RetiringInv`). Without promptness the property is false (section 9).
* `NtripMachineProofs` has the lemmas about the machine, for every response in
  every split, and `DecodeInPieces`. A turn of a loop, of `push` or of the decoder, either stops or
  consumes a byte (`Advances`, `Measure`), so a bound on the turns that grows with
  the input is never met; when a loop stops, what is left is a partial line
  (`Kept`, `Tight`); and every payload or position comes after the handshake of
  its connection (`History`). `PushFacts`, `FinishFacts` and `RequestFacts` give
  this for a whole call. The loops are iterated operators: `PushSteps` and
  `DecodeSteps` unroll them into a sequence of states, and `SetInduction`, from
  the well-foundedness of `<`, goes along it.
* `LiveDriverProofs`: `TypeCorrect`, `RetryIsPending`, for any casters, whatever
  the machine does; the invariant adds that no attempts are counted while there
  is a stream and one otherwise (`AttemptInv`). `HandshakeComesFirst` and
  `DeadConnectionsDropped` need what the machine does. Their invariant (`LinkInv`)
  ties the machine to the connection it now serves: it is one between calls, its
  state is Streaming only after an acceptance on this connection, and it is
  closed only if the connection was dropped or served a sourcetable. What the
  machine keeps of earlier connections is arbitrary, as it is in the code.
* `NtripClientProofs`: `ClientTypeCorrect`, `BuffersStayBounded`. Their invariant
  (`ClientInv`): the machine is one between calls (`MachineOK`) with nothing but
  partial lines buffered (`Tight`), nothing is left unread at the end of a
  connection, and the assembler rests before a frame that is not yet whole
  (`AsmRest`). The last follows from the loop of the assembler's `push`: it stops
  only when what is ahead is less than the longest frame.

  `AssembledAsInTheWhole`, for every payload however it is cut, and both
  policies. A frame that is there is the same frame whatever follows it, and what
  is none stays none, unless it is a preamble whose frame has not arrived whole
  (`FrameStays`). So what `decode_stream` finds in the first n bytes does not
  depend on later bytes as long as none of these was passed over (`Settled`,
  `StreamStays`). The invariant (`Agrees`, `StreamInv`) says that what the
  assembler keeps is the end of the payload, that it has found what
  `decode_stream` finds up to its position, and that until `finish` it has passed
  over no frame that was not whole. Each turn of either loop of `push` takes the
  frame or skips the byte that `decode_stream` does there (`TakeAgrees`,
  `SkipAgrees`); `finish` passes over unfinished frames, and nothing follows it.

  `ReadsMakeNoDifference`, for every response, alphabet and limit, in three steps.
  First the decoder (`DecodeInPieces`): after each turn on the first piece, the
  decoder of the joined body either stands at the same state with the second
  piece behind its buffer (`GoesOn`), or the turn was the last one (`StopsAt`):
  it stopped for good, waits for bytes, or gave up a line. What was decoded
  before plays no part in what comes (`DecodeStepAfter`).
  Then one call of the machine (`PushInPieces`), a simulation: `Follows(x, y, E)`
  says, of the machine x in the middle of reading the first piece and the end E of
  the joined call, that the rest of the joined call, from x with y behind its
  bytes, ends in E or in what a client cannot tell from it (`Tells`, `Alike`). Each
  kind of turn keeps it (`IterFollows` and the lemmas it cites). It rests on what a
  turn does not look at: the bytes behind the line it reads, and the events so far
  (`PutHeaders`, `PutAfter`, `AfterIter` and their neighbours, one per part of
  the machine). `Alike` has a second case, because a corruption makes a single
  read drop what it had decoded, which an earlier read may have returned already.
  Last the client (`ReadingInv`): the machine has read nothing, or it is the
  machine that has read all at once but for its pending events (`Underway`), or it
  is closed and whatever follows changes nothing of what it was told (`Concluded`).
* `LockTimeProofs`: `TypeCorrect`, `SlipReported` and `QuietWhenLocked`, with the
  real tables and moduli. A receiver never claims a lock time it does not have
  (`HonestReport`: the value the code computes for an indicator is at most the
  lock time it was chosen for, in each of the 20 segments of DF407). Elapsed time
  is right modulo the week or the day (`ElapsedModulo`). So if lock was lost after
  the last report, the claimed time is below the elapsed time. The invariant adds
  that every report on the link is honest and of its epoch. Conversely a bound is
  at least half of the lock time it stands for (`Half402`, and its counterpart for
  DF407) and never falls while lock is kept (`Monotone402`), so a lock of twice
  the gap raises no alarm; this needs that reports agree on when lock began
  (`Continuous`) and that each state is that of a report on the link (`Traced`).
* `TimeSyncProofs`: `TypeCorrect`, `HistoryInOrder` and `NoMeasurementLost`, for
  any capacities and any number of calls. The histories are handled as windows of
  sequences: a ring push, a truncation, a cut at an epoch each give a window of
  the old sequence with at most one element appended, and order passes to windows.
  The invariant adds the same order for the saved state, which comes back by
  `RestoreEncoded`, and for the working copy (`CopyOrdered`): its histories are
  in order up to its own epoch, and what it has still to replay lies, sorted,
  between that epoch and the filter's. For `NoMeasurementLost` it further says
  (`KeptInv`) that the filter, and each checkpoint that a search can find, counts
  as many measurements of every epoch as are retained since the oldest checkpoint
  (`Counted`, `Faithful`), and that each retained measurement newer than that one
  has a checkpoint of its own behind it (`Backed`). The last is why two rings that
  evict independently stay in step: the measurements cannot overflow before the
  checkpoints do.
* `TimeSyncProofs` (second half): `InOrderRefined`, that `TimeSync` implements
  `InOrderFilter`. The invariant (`InOrderInv`) ties the filter to its histories:
  a checkpoint that a search can find is a past of the filter (`Chain`), the
  retained measurements of an epoch are, one after the other, those the filter was
  corrected by there (`Blocks`), the filter was propagated over every epoch in
  pieces that end where a measurement is (`Tiled`), and where a sample is retained
  the pieces are parts of it (`Sampled`). The working copy of a late update is on
  its way (`Underway`) to the filter with the late measurement in its place
  (`Late`): it is a past of that, but for the measurements it has yet to replay.
  So when nothing is left to replay, what replaces the filter is `Late`, which is
  the `Fix` of the abstract filter. The invariant needs `KeptInv`: a replay is
  complete only because nothing since the oldest checkpoint was forgotten. Every
  other step is a step of the abstract filter or a stutter; after a foreign
  snapshot was restored, nothing is promised (section 6).

Only model-checked:

* liveness (`EveryCallReturns`, `EveryOpenReturns`, `Reconnects`), which is out of
  the prover's reach;
* `FragmentationIndependent`: its reference is built from `RECURSIVE` operators, a
  form in which the prover loses its SMT backend. That the reads make no
  difference is proved (`ReadsMakeNoDifference`); that a single read gives what
  the reference says is only checked.

## 9. Findings

Each of these is a run that TLC refutes.

1. `live_driver_stale_decoder`, `tui.rs:765`. `connect` never calls `reset`, so
   the decoder, the carried bytes, the pending blank line and the time of the
   last GGA survive a reconnect. After one chunked stream has ended, each later
   one is reported ended with its first data.
2. `time_sync_duplicate`, `fusion/timesync.rs:577`. A late measurement is
   compared only with those after the checkpoint it goes back to, and each
   retained measurement has a checkpoint at its own epoch. So a late duplicate is
   never noticed and fused twice; `fusion/loose.rs:757` says it is rejected.
3. `time_sync_unrestorable`, `fusion/timesync.rs:247`. A measurement at the epoch
   of the newest checkpoint (the initial epoch, a restored snapshot's, a
   duplicate) adds a second checkpoint of that epoch. `encode_state` writes such
   a history, `restore_encoded_state` refuses it.

Three more limits of the code are recorded where they concern a property and
have no run of their own:

* `exact_cache.rs:911`. When the last directory synchronization of `publish`
  fails and the re-read of `current.json` on the error path fails too, `publish`
  takes the failed read for "not current" and removes the entry the marker
  already names. `ExactCache.cfg` with `MaxFaults = 2` shows it as a violation of
  `CurrentEntryComplete`; the theorems of `ExactCacheProofs` about it assume at
  most one failing call. `CacheDurability` models the case without a bound, and
  its properties and theorems except the entry removed (`exposed`).
* `exact_cache.rs:984`. The waiter takes `now` before it reads the snapshot. One
  that is paused in between charges the pause to the owner and may retire an
  owner that never missed a heartbeat. Publication stays fenced, so this costs a
  second download and never a second commit. `SingleFlight_lease.cfg`
  with two processes, `Prompt = {}` and `RefreshingOwnerKept` as its only property
  shows it.
* `ntrip/machine.rs:486`. The status line longer than the limit, section 3.

## 10. Plan

Done: the cache, the NTRIP client with the RTCM assembler, the live driver, the
lock-time tracker and the time synchronization, and a theorem for each of their
safety properties but those listed at the end of section 8. Left, in this order:

1. `LiveDriver`: the GGA uplink after a reconnect (the stale `last_gga_s`), the
   raw TCP source, the replay timeline and the epoch mapper.
2. Correction and ephemeris stores: issue-of-data matching, expiry, selection.
3. Smaller machines: geofence hysteresis, track life cycle, terrain tile cache.

## 11. Not modelled

Numerical code (propagation, positioning, filters, frames, integer ambiguity
search): accuracy of floating-point results is outside TLC and TLAPS. Whole-file
parsers and writers: pure functions of text with round-trip tests. The command
line and the MCP server keep no state between requests. The IndexedDB cache that
`docs/exact-product-cache-atomicity.md` describes is not in this repository.
Within the modelled parts: records of another identity or source in
`in-flight.json` (an error return); the restore path of `retire_inflight`, which
needs a lock that does not exclude; the migration of legacy three-file entries,
done by the bindings; a wall clock set back in the monitor; a leap second in
GLONASS epochs; a numerical failure inside a single `propagate` or update at the
current epoch, and `state_mut`, through which a caller may change the filter
behind its histories; epochs that are not finite numbers, which the code refuses.
Each part left out is a component of `PROJECT.json` with its reason.
