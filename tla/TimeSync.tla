------------------------------- MODULE TimeSync -------------------------------
(***************************************************************************)
(* Time synchronization of the inertial filter (fusion/timesync.rs): a     *)
(* GNSS measurement that arrives after the filter was propagated past its  *)
(* epoch is applied by going back to a checkpoint and replaying the IMU    *)
(* samples and measurements retained since.  The three histories are ring  *)
(* buffers.                                                                *)
(*                                                                         *)
(* Time counts ticks.  The numbers of the estimate are left out: a filter  *)
(* is the record of what it was propagated over and corrected by, as in    *)
(* InOrderFilter.tla, which this module implements.  A correction may fail *)
(* for numerical reasons at any point.                                     *)
(***************************************************************************)
EXTENDS Naturals, Sequences, FiniteSets

CONSTANTS
    MaxTime,        \* bound: last epoch
    MaxCalls,       \* bound: updates and saves in a run
    SampleKinds,    \* subset of {"rate", "increment"}
    GnssKinds,      \* subset of {"loose", "tight"}
    PseudoKinds,    \* subset of {"stationary", "nonHolonomic"}
    Configs         \* the capacities [imu, cp] a caller may configure

ASSUME ConfigAssumption ==
    /\ MaxTime \in Nat /\ MaxCalls \in Nat
    /\ Configs # {} /\ Configs \subseteq [imu : Nat \ {0}, cp : Nat \ {0}]

VARIABLES
    filter,         \* the live filter
    hist,           \* TimeSyncHistory: config, imu_samples, checkpoints, measurements
    saved,          \* what the caller saved last: a snapshot, and the encoded state
    work,           \* the working copy of a late update: {} or {[filter, hist, todo, kind]}
    foreign,        \* history: a snapshot that is no past state of the filter was restored
    calls           \* number of updates and saves

vars == <<filter, hist, saved, work, foreign, calls>>

Epochs == 0 .. MaxTime
NewFilter == [t |-> 0, at |-> [e \in Epochs |-> <<>>], segs |-> {}, ps |-> {}]

-----------------------------------------------------------------------------
(* Ring buffers *)

(* Mutants: the ring grows; the truncation keeps the oldest entries          *)
UnboundedPush(q, cap, x) == Append(q, x)
TruncateBack(q, cap) == IF Len(q) > cap THEN SubSeq(q, 1, cap) ELSE q

BoundedPush(q, cap, x) == Append(IF Len(q) = cap THEN Tail(q) ELSE q, x)

TruncateFront(q, cap) ==
    IF Len(q) > cap THEN SubSeq(q, Len(q) - cap + 1, Len(q)) ELSE q

(* The entries of a history in epoch order that are not newer than t        *)
UpTo(q, t) == SubSeq(q, 1, Cardinality({i \in 1 .. Len(q) : q[i].t <= t}))
After(q, t) == SubSeq(q, Cardinality({i \in 1 .. Len(q) : q[i].t <= t}) + 1, Len(q))

Back(q) == q[Len(q)]

NewHistory(c) ==
    [config |-> c, imu |-> <<>>, cps |-> <<[t |-> 0, snapshot |-> NewFilter]>>, meas |-> <<>>]

PushCheckpoint(h, f) ==
    [h EXCEPT !.cps = BoundedPush(@, h.config.cp, [t |-> f.t, snapshot |-> f])]

PushMeasurement(h, m, f) ==
    PushCheckpoint([h EXCEPT !.meas = BoundedPush(@, h.config.cp, m)], f)

PushImu(h, from, t, k) ==
    [h EXCEPT !.imu = BoundedPush(@, h.config.imu,
        [from |-> from, t |-> t, kind |-> k,
         prior |-> h.imu # <<>> /\ Back(h.imu).kind = "rate"])]

(* Mutant: the samples after the snapshot stay                               *)
RestoreKeepsSamples(h, s) ==
    PushCheckpoint([h EXCEPT !.cps = UpTo(@, s.t), !.meas = UpTo(@, s.t)], s)

RestoreToSnapshot(h, s) ==
    LET cut == [config |-> h.config, imu |-> UpTo(h.imu, s.t),
                cps |-> UpTo(h.cps, s.t), meas |-> UpTo(h.meas, s.t)]
    IN  IF cut.cps # <<>> /\ Back(cut.cps).t = s.t
        THEN [cut EXCEPT !.cps[Len(cut.cps)].snapshot = s]
        ELSE PushCheckpoint(cut, s)

RebaseThrough(h, t) ==
    [config |-> h.config, imu |-> h.imu, cps |-> UpTo(h.cps, t), meas |-> UpTo(h.meas, t)]

-----------------------------------------------------------------------------
(* Replay *)

Covers(s, t) == s.from <= t /\ t < s.t

(* The epochs at which replay_imu_to_epoch starts a segment                 *)
Stops(f, target, imu) ==
    {f.t} \cup {imu[i].t : i \in {j \in 1 .. Len(imu) : f.t < imu[j].t /\ imu[j].t < target}}

(* The segment that starts at a, a piece of sample s                        *)
Segment(s, a, target) ==
    [a |-> a, b |-> IF s.t < target THEN s.t ELSE target,
     of |-> [from |-> s.from, to |-> s.t, kind |-> s.kind]]

(* A part of a rate sample is interpolated from the sample before it.       *)
Divisible(s, g) == (g.a = s.from /\ g.b = s.t) \/ s.kind # "rate" \/ s.prior

(* The segments of one replay, each with the sample it is a piece of        *)
Segments(f, target, imu) ==
    { <<imu[x[1]], Segment(imu[x[1]], x[2], target)>> :
        x \in {y \in (1 .. Len(imu)) \X Stops(f, target, imu) : Covers(imu[y[1]], y[2])} }

CanReplay(f, target, imu) ==
    f.t <= target /\
    (f.t < target =>
        /\ \A a \in Stops(f, target, imu) : \E i \in 1 .. Len(imu) : Covers(imu[i], a)
        /\ \A x \in Segments(f, target, imu) : Divisible(x[1], x[2]))

ReplayImu(f, target, imu) ==
    IF f.t = target THEN f
    ELSE [f EXCEPT !.t = target, !.segs = @ \cup {x[2] : x \in Segments(f, target, imu)}]

Correct(f, k) == [f EXCEPT !.at[f.t] = Append(@, k)]

(* Mutant: what followed the late measurement is not replayed                *)
InsertLast(later, m) == UpTo(later, m.t) \o <<m>>

(* The measurements to replay, in epoch order, the new one among them       *)
Insert(later, m) == UpTo(later, m.t) \o <<m>> \o After(later, m.t)

-----------------------------------------------------------------------------
(* Operations *)

Init ==
    /\ filter = NewFilter
    /\ \E c \in Configs : hist = NewHistory(c)
    /\ saved = [filter |-> filter, hist |-> hist, foreign |-> FALSE]
    /\ work = {}
    /\ foreign = FALSE
    /\ calls = 0

Propagate(t, k) ==
    /\ work = {}
    /\ t > filter.t
    /\ hist.imu # <<>> => t > Back(hist.imu).t
    /\ filter' = [filter EXCEPT
         !.t = t,
         !.segs = @ \cup {[a |-> filter.t, b |-> t,
                           of |-> [from |-> filter.t, to |-> t, kind |-> k]]}]
    /\ hist' = PushImu(hist, filter.t, t, k)
    /\ UNCHANGED <<saved, work, foreign, calls>>

(* update_loose and update_tight, at the current epoch                      *)
Update(k) ==
    /\ work = {}
    /\ calls < MaxCalls
    /\ hist.meas # <<>> => Back(hist.meas).t < filter.t
    /\ filter' = Correct(filter, k)
    /\ hist' = PushMeasurement(hist, [t |-> filter.t, kind |-> k], filter')
    /\ calls' = calls + 1
    /\ UNCHANGED <<saved, work, foreign>>

(* update_loose_time_sync and update_tight_time_sync of an older epoch work *)
(* on a copy of the filter, restored from the newest checkpoint that is not *)
(* newer than the measurement.                                              *)
LateBegin(e, k) ==
    /\ work = {}
    /\ calls < MaxCalls
    /\ e < filter.t
    /\ UpTo(hist.cps, e) # <<>>
    /\ LET c == Back(UpTo(hist.cps, e))
           later == After(hist.meas, c.t)
       IN  /\ \A i \in 1 .. Len(later) : later[i].t # e
           /\ work' = {[filter |-> c.snapshot, hist |-> RebaseThrough(hist, c.t),
                        todo |-> Insert(later, [t |-> e, kind |-> k]), kind |-> k]}
    /\ UNCHANGED <<filter, hist, saved, foreign, calls>>

(* One turn of the loop: propagate to the next measurement and apply it.    *)
(* Only update_tight_time_sync has what a tight measurement needs.          *)
LateReplay ==
    \E w \in work :
        /\ w.todo # <<>>
        /\ CanReplay(w.filter, Head(w.todo).t, hist.imu)
        /\ Head(w.todo).kind = "tight" => w.kind = "tight"
        /\ LET f == Correct(ReplayImu(w.filter, Head(w.todo).t, hist.imu), Head(w.todo).kind)
           IN  work' = {[filter |-> f, hist |-> PushMeasurement(w.hist, Head(w.todo), f),
                         todo |-> Tail(w.todo), kind |-> w.kind]}
        /\ UNCHANGED <<filter, hist, saved, foreign, calls>>

(* The copy is brought to the epoch of the filter and replaces it.          *)
LateCommit ==
    \E w \in work :
        /\ w.todo = <<>>
        /\ CanReplay(w.filter, filter.t, hist.imu)
        /\ filter' = ReplayImu(w.filter, filter.t, hist.imu)
        /\ hist' = w.hist
        /\ work' = {}
        /\ calls' = calls + 1
        /\ UNCHANGED <<saved, foreign>>

(* A replay step that is refused, or fails numerically, drops the copy.     *)
LateFail ==
    /\ work # {}
    /\ work' = {}
    /\ UNCHANGED <<filter, hist, saved, foreign, calls>>

(* update_stationary and update_non_holonomic, when their gates let them    *)
PseudoUpdate(k) ==
    /\ work = {}
    /\ calls < MaxCalls
    /\ [kind |-> k, t |-> filter.t] \notin filter.ps
    /\ filter' = [filter EXCEPT !.ps = @ \cup {[kind |-> k, t |-> filter.t]}]
    /\ calls' = calls + 1
    /\ UNCHANGED <<hist, saved, work, foreign>>

Configure(c) ==
    /\ work = {}
    /\ hist' = [config |-> c,
                imu |-> TruncateFront(hist.imu, c.imu),
                cps |-> TruncateFront(hist.cps, c.cp),
                meas |-> TruncateFront(hist.meas, c.cp)]
    /\ UNCHANGED <<filter, saved, work, foreign, calls>>

(* snapshot and encode_state: the filter alone, and with its histories      *)
SaveState ==
    /\ work = {}
    /\ calls < MaxCalls
    /\ saved' = [filter |-> filter, hist |-> hist, foreign |-> foreign]
    /\ calls' = calls + 1
    /\ UNCHANGED <<filter, hist, work, foreign>>

(* Is the snapshot s what the filter f was at epoch s.t?                    *)
IsPast(s, f) ==
    /\ s.t <= f.t
    /\ s.segs = {g \in f.segs : g.b <= s.t}
    /\ \A e \in Epochs : s.at[e] = IF e <= s.t THEN f.at[e] ELSE <<>>

RestoreSnapshot ==
    /\ work = {}
    /\ filter' = saved.filter
    /\ hist' = RestoreToSnapshot(hist, saved.filter)
    /\ foreign' = (foreign \/ ~ IsPast(saved.filter, filter))
    /\ UNCHANGED <<saved, work, calls>>

(* The order validate_history_snapshot asks of a decoded history            *)
Ordered(q) == \A i \in 1 .. Len(q) - 1 : q[i].t < q[i + 1].t

ValidHistory(h) ==
    /\ Len(h.imu) <= h.config.imu
    /\ h.cps # <<>> /\ Len(h.cps) <= h.config.cp /\ Len(h.meas) <= h.config.cp
    /\ Ordered(h.imu) /\ Ordered(h.cps) /\ Ordered(h.meas)
    /\ \A i \in 1 .. Len(h.imu) : h.imu[i].from < h.imu[i].t
    /\ \A i \in 1 .. Len(h.cps) : h.cps[i].t = h.cps[i].snapshot.t

(* restore_encoded_state, also in a new process                             *)
RestoreEncoded ==
    /\ work = {}
    /\ ValidHistory(saved.hist)
    /\ filter' = saved.filter
    /\ hist' = saved.hist
    /\ foreign' = saved.foreign
    /\ UNCHANGED <<saved, work, calls>>

Next ==
    \/ \E t \in Epochs, k \in SampleKinds : Propagate(t, k)
    \/ \E k \in GnssKinds : Update(k)
    \/ \E e \in Epochs, k \in GnssKinds : LateBegin(e, k)
    \/ LateReplay \/ LateCommit \/ LateFail
    \/ \E k \in PseudoKinds : PseudoUpdate(k)
    \/ \E c \in Configs : Configure(c)
    \/ SaveState \/ RestoreSnapshot \/ RestoreEncoded

Spec == Init /\ [][Next]_vars

-----------------------------------------------------------------------------
(* Correctness *)

(* Type invariant; no history outgrows its configured capacity.             *)
Filters ==
    [t : Epochs, at : [Epochs -> Seq(GnssKinds)],
     segs : SUBSET [a : Epochs, b : Epochs, of : [from : Epochs, to : Epochs, kind : SampleKinds]],
     ps : SUBSET [kind : PseudoKinds, t : Epochs]]
Histories ==
    {h \in [config : Configs,
            imu : Seq([from : Epochs, t : Epochs, kind : SampleKinds, prior : BOOLEAN]),
            cps : Seq([t : Epochs, snapshot : Filters]),
            meas : Seq([t : Epochs, kind : GnssKinds])] :
        /\ Len(h.imu) <= h.config.imu
        /\ Len(h.cps) \in 1 .. h.config.cp
        /\ Len(h.meas) <= h.config.cp}
TypeOK ==
    /\ filter \in Filters
    /\ hist \in Histories
    /\ saved \in [filter : Filters, hist : Histories, foreign : BOOLEAN]
    /\ work \in SUBSET [filter : Filters, hist : Histories,
                        todo : Seq([t : Epochs, kind : GnssKinds]), kind : GnssKinds]
    /\ \A v, w \in work : v = w
    /\ foreign \in BOOLEAN
    /\ calls \in 0 .. MaxCalls

(* Whatever was evicted, trimmed or replayed, the histories are in epoch    *)
(* order, the samples do not overlap, and nothing in them is newer than     *)
(* the filter: this is what the searches from the back rely on.             *)
InEpochOrder(h, now) ==
    /\ \A i, j \in 1 .. Len(h.imu) : i < j => h.imu[i].t <= h.imu[j].from
    /\ \A i \in 1 .. Len(h.imu) : h.imu[i].from < h.imu[i].t /\ h.imu[i].t <= now
    /\ \A i, j \in 1 .. Len(h.cps) : i < j => h.cps[i].t <= h.cps[j].t
    /\ \A i \in 1 .. Len(h.cps) : h.cps[i].t = h.cps[i].snapshot.t /\ h.cps[i].t <= now
    /\ \A i, j \in 1 .. Len(h.meas) : i < j => h.meas[i].t <= h.meas[j].t
    /\ \A i \in 1 .. Len(h.meas) : h.meas[i].t <= now
HistoryOrdered == InEpochOrder(hist, filter.t)

(* A checkpoint never outlives the measurements applied after it: every     *)
(* measurement the filter has seen since the oldest checkpoint is retained, *)
(* so that no replay forgets one.                                           *)
NothingForgotten ==
    ~ foreign =>
        \A e \in Epochs : e > hist.cps[1].t =>
            Len(filter.at[e]) = Cardinality({i \in 1 .. Len(hist.meas) : hist.meas[i].t = e})

(* A late measurement leaves the filter as in-order processing would.       *)
InOrder == INSTANCE InOrderFilter WITH
    content <- filter,
    free <- foreign,
    stored <- [content |-> saved.filter, free |-> saved.foreign]
ImplementsInOrder == InOrder!Spec

(* fusion/loose.rs:757 on the stateful update surface: "duplicate or        *)
(* regressed epochs are rejected rather than fused twice."                  *)
NotFusedTwice == \A e \in Epochs : Len(filter.at[e]) <= 1

(* fusion/serial.rs:1071: decode_versioned reads "a binary checkpoint       *)
(* produced by" encode_versioned; so what encode_state writes of this       *)
(* filter must be restorable.                                               *)
EncodedStateRestorable == ValidHistory(hist)
=============================================================================
