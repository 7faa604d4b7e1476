------------------------------- MODULE LockTime -------------------------------
(***************************************************************************)
(* The RTCM lock-time tracker (rtcm/lli.rs).  A receiver reports for every *)
(* signal a lower bound of how long it has tracked the carrier phase; the  *)
(* tracker compares it with the previous report of the same signal and     *)
(* sets the loss-of-lock bit of RINEX.  Reports are lost, repeated and     *)
(* delayed on the way, and their epochs are known modulo a week, or a day  *)
(* when a GLONASS report does not say which.                               *)
(*                                                                         *)
(* Time counts milliseconds.  There is no leap second in a run, which the  *)
(* GLONASS day of week could not express.                                  *)
(***************************************************************************)
EXTENDS Integers, FiniteSets

CONSTANTS
    Glonass, Others,    \* the cells (satellite, signal) of GLONASS and of one other system
    Tracked,            \* the sets of cells a receiver may track
    Kinds,              \* MSM kinds the receiver sends
    Starts,             \* when the run may start
    Steps,              \* how far time may advance in a step
    MaxTime,            \* bound: no step starts later
    MaxSent             \* bound: reports sent

ASSUME LockTimeAssumption ==
    /\ Glonass \cap Others = {}
    /\ Tracked \subseteq SUBSET (Glonass \cup Others)
    /\ Kinds \subseteq 1 .. 7
    /\ Starts \subseteq Nat /\ Steps \subseteq Nat \ {0}
    /\ MaxTime \in Nat /\ MaxSent \in Nat

VARIABLES
    now,        \* true time
    since,      \* since when the receiver has tracked each cell
    link,       \* the reports sent: each arrives any number of times, in any order
    cells,      \* the tracker: a function on the cells it has a state of
    seen,       \* history, on the same cells: where the state is from
    out         \* what the step returned for the cells it had a state of

(* The cells the receiver tracks                                            *)
Cells == DOMAIN since

vars == <<now, since, link, cells, seen, out>>

-----------------------------------------------------------------------------
(* Lock-time indicators; NoMin is Option::None                              *)

WEEK_MS == 604800000
DAY_MS == 86400000
GLONASS_DAY_UNKNOWN == 7
NoMin == -1

(* The indicator a receiver sends for a lock time, in the buckets of the    *)
(* RTCM standard: DF402 has one per power of two from 32 ms, DF407 has 32   *)
(* per power of two from 64 ms.                                             *)
Encode402(lock) ==
    IF lock < 32 THEN 0
    ELSE CHOOSE i \in 1 .. 15 : 2 ^ (i + 4) <= lock /\ (i < 15 => lock < 2 ^ (i + 5))

Encode407(lock) ==
    IF lock < 64 THEN lock
    ELSE IF lock >= 2 ^ 26 THEN 704
    ELSE LET k == CHOOSE k \in 1 .. 20 : 32 * 2 ^ k <= lock /\ lock < 64 * 2 ^ k
         IN  lock \div 2 ^ k + 32 * k

Reserved == 705

(* DF407 has reserved values too, and kind 1 has no indicator, for which a  *)
(* reserved one stands.                                                     *)
Indicators(kind, lock) ==
    CASE kind = 1 -> {Reserved}
      [] kind \in 2 .. 5 -> {Encode402(lock)}
      [] kind \in 6 .. 7 -> {Encode407(lock), Reserved}

(* Mutant: the smallest bucket is taken to start at 8 ms                    *)
Df402From8(i) ==
    IF i = 0 THEN 0 ELSE IF i \in 1 .. 15 THEN 2 ^ (i + 2) ELSE NoMin

Df402(i) ==
    IF i = 0 THEN 0 ELSE IF i \in 1 .. 15 THEN 2 ^ (i + 4) ELSE NoMin

Df407(n) ==
    IF n \in 0 .. 63 THEN n
    ELSE IF n \in 64 .. 703
    THEN LET segment == (n - 64) \div 32
             start == 64 + segment * 32
             scale == 2 ^ (segment + 1)
         IN  scale * start - scale * 32 * (segment + 1) + scale * (n - start)
    ELSE IF n = 704 THEN 2 ^ 26 ELSE NoMin

MinimumLockTime(kind, i) ==
    CASE kind = 1 -> NoMin
      [] kind \in 2 .. 5 -> Df402(i)
      [] kind \in 6 .. 7 -> Df407(i)

-----------------------------------------------------------------------------
(* Epochs.  The raw epoch is the time of week, with GLONASS a day and the   *)
(* time of day.                                                             *)

RawEpochs(cs, t) ==
    IF cs \subseteq Glonass
    THEN [day : {(t \div DAY_MS) % 7, GLONASS_DAY_UNKNOWN}, ms : {t % DAY_MS}]
    ELSE [day : {0}, ms : {t % WEEK_MS}]

ModuloElapsed(previous, current, modulus) ==
    (current + modulus - (previous % modulus)) % modulus

(* Mutant: an epoch field that wrapped counts as no time at all             *)
EpochDtUnwrapped(c, p, n) ==
    LET d == n.ms - p.ms IN IF d < 0 THEN 0 ELSE d

EpochDt(c, p, n) ==
    IF c \in Glonass
    THEN IF GLONASS_DAY_UNKNOWN \in {p.day, n.day}
         THEN ModuloElapsed(p.ms, n.ms, DAY_MS)
         ELSE ModuloElapsed(p.day * DAY_MS + p.ms, n.day * DAY_MS + n.ms, WEEK_MS)
    ELSE ModuloElapsed(p.ms, n.ms, WEEK_MS)

-----------------------------------------------------------------------------
(* Tracker *)

(* Mutant: only a decrease of the lock time is a loss                       *)
DeriveFromDecrease(previous, elapsed, current) ==
    current = NoMin \/ (previous # NoMin /\ current < previous)

(* Bit 0 of the indicator.  Bit 1 is a copy of the half-cycle flag and is   *)
(* left out.                                                                *)
DeriveLli(previous, elapsed, current) ==
    \/ current = NoMin
    \/ previous # NoMin /\ current < previous
    \/ current < elapsed

(* A report of kind 1 has neither a lock time nor a half-cycle flag, and    *)
(* its cells are skipped.                                                   *)
Observed(m) == IF m.kind = 1 THEN {} ELSE DOMAIN m.signals

Elapsed(c, m) == EpochDt(c, cells[c].raw, m.raw)

Min(c, m) == MinimumLockTime(m.kind, m.signals[c])

(* A report at the epoch of the state does not replace it.                  *)
Advances(c, m) == c \in DOMAIN cells => Elapsed(c, m) # 0

Init ==
    /\ now \in Starts
    /\ since \in {[c \in cs |-> 0] : cs \in Tracked}
    /\ link = {}
    /\ cells = <<>> /\ seen = <<>>
    /\ out = {}

(* Time passes; the receiver may lose and regain lock of some cells.        *)
Advance(d, slipped) ==
    /\ now <= MaxTime
    /\ now' = now + d
    /\ \E s \in {now + 1, now + d} :
         since' = [c \in Cells |-> IF c \in slipped THEN s ELSE since[c]]
    /\ out' = {}
    /\ UNCHANGED <<link, cells, seen>>

Send(cs, kind) ==
    /\ Cardinality(link) < MaxSent
    /\ cs \subseteq Glonass \/ cs \subseteq Others
    /\ \E raw \in RawEpochs(cs, now),
          i \in [cs -> UNION {Indicators(kind, now - since[c]) : c \in cs}] :
         /\ \A c \in cs : i[c] \in Indicators(kind, now - since[c])
         /\ link' = link \cup {[kind |-> kind, raw |-> raw, signals |-> i,
                                at |-> now, since |-> [c \in cs |-> since[c]]]}
    /\ out' = {}
    /\ UNCHANGED <<now, since, cells, seen>>

Observe(m) ==
    LET new == {c \in Observed(m) : Advances(c, m)}
    IN  /\ out' = {[cell |-> c, at |-> m.at, since |-> m.since[c], kind |-> m.kind,
                    min |-> Min(c, m), prev |-> seen[c],
                    loss |-> DeriveLli(cells[c].min, Elapsed(c, m), Min(c, m))] :
                   c \in Observed(m) \cap DOMAIN cells}
        /\ cells' = [c \in DOMAIN cells \cup new |->
                       IF c \in new THEN [raw |-> m.raw, min |-> Min(c, m)] ELSE cells[c]]
        /\ seen' = [c \in DOMAIN seen \cup new |->
                      IF c \in new THEN [at |-> m.at, kind |-> m.kind, last |-> m.at]
                      ELSE IF c \in Observed(m) THEN [seen[c] EXCEPT !.last = m.at]
                      ELSE seen[c]]
        /\ UNCHANGED <<now, since, link>>

Reset ==
    /\ cells' = <<>> /\ seen' = <<>> /\ out' = {}
    /\ UNCHANGED <<now, since, link>>

Next ==
    \/ \E d \in Steps, slipped \in SUBSET Cells : Advance(d, slipped)
    \/ \E cs \in SUBSET Cells \ {{}}, kind \in Kinds : Send(cs, kind)
    \/ \E m \in link : Observe(m)
    \/ Reset

Spec == Init /\ [][Next]_vars

-----------------------------------------------------------------------------
(* Correctness *)

Modulus(c) == IF c \in Glonass THEN DAY_MS ELSE WEEK_MS

(* The state of a cell is that of a report of the same epoch as the last    *)
(* one observed, as far as epochs can be told apart, and no report is from  *)
(* the future.                                                              *)
TypeOK ==
    /\ now \in Nat
    /\ Cells \in Tracked /\ since \in [Cells -> 0 .. now]
    /\ DOMAIN cells = DOMAIN seen /\ DOMAIN cells \subseteq Cells
    /\ \A c \in DOMAIN cells :
         /\ seen[c] \in [at : 0 .. now, kind : Kinds \ {1}, last : 0 .. now]
         /\ cells[c].raw \in RawEpochs({c}, seen[c].at)
         /\ cells[c].min \in Int
         /\ seen[c].last % Modulus(c) = seen[c].at % Modulus(c)

(* A loss of lock is never missed: when the receiver lost lock after the    *)
(* last report observed and no later than this one, and the outage is       *)
(* shorter than the epochs can express, the bit is set, whatever was lost,  *)
(* repeated or delayed, and whichever kinds of message were mixed.          *)
NoMissedSlip ==
    \A o \in out :
        o.prev.last < o.since /\ o.at - o.prev.last < Modulus(o.cell) => o.loss

(* Continuous tracking is not reported as a loss for ever: once the lock is *)
(* twice as old as the gap between two reports of the same resolution, and  *)
(* the gap within what both tables express, the bit is clear.               *)
SameTable(k, l) == k \in 2 .. 5 <=> l \in 2 .. 5
NoFalseAlarm ==
    \A o \in out :
        LET gap == o.at - o.prev.at
        IN  /\ o.since <= o.prev.at /\ gap \in 16 .. 2 ^ 18
            /\ 2 * gap <= o.at - o.since
            /\ o.min # NoMin /\ SameTable(o.kind, o.prev.kind)
            => ~ o.loss
=============================================================================
