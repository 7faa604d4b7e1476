----------------------------- MODULE SingleFlight -----------------------------
(***************************************************************************)
(* Single-flight coalescing of cache misses: open_single_flight,           *)
(* ExactCacheOwner (heartbeat thread, publish, drop) and the wait state    *)
(* machine of src/crates/sidereon-core/src/exact_cache.rs, for several     *)
(* processes on one cache directory.                                       *)
(*                                                                         *)
(* The committed entry is one register (what ExactCache.tla shows          *)
(* read and publish to implement); a file-system call that another process *)
(* can observe is one action.  Time is discrete and relative: every timer  *)
(* of the code is a counter that Tick advances, so behaviours are infinite *)
(* although the state space is finite.  A process outside Prompt may be    *)
(* delayed arbitrarily between two steps; one in Prompt takes a step that  *)
(* is due before the clock advances.                                       *)
(***************************************************************************)
EXTENDS Naturals

CONSTANTS
    Procs,          \* processes that open the cache
    Prompt,         \* the ones the scheduler does not delay
    Tokens,         \* owner tokens (the bound on claims)
    NoTok,          \* no token / no record / no committed entry
    NoProc,         \* the lock is free
    Poll, Heartbeat, Liveness, WaitTimeout,     \* the four options, in ticks
    MaxOpens,       \* bound on open calls of one process
    MaxBeats        \* bound on the length of a heartbeat file

ASSUME PromptAssumption == Prompt \subseteq Procs
ASSUME NoTokAssumption == NoTok \notin Tokens
ASSUME NoProcAssumption == NoProc \notin Procs
(* ExactCacheSingleFlightOptions::validate *)
OptionsValid ==
    /\ Poll \in Nat \ {0} /\ Heartbeat \in Nat \ {0}
    /\ Liveness \in Nat \ {0} /\ WaitTimeout \in Nat \ {0}
    /\ Heartbeat < Liveness
ASSUME OptionsAssumption == OptionsValid
ASSUME BoundsAssumption == MaxOpens \in Nat /\ MaxBeats \in Nat \ {0}

VARIABLES
    current,    \* token of the owner that committed the entry, or NoTok
    infl,       \* token in in-flight.json, or NoTok when there is no file
    whole,      \* tokens whose record has all its bytes
    beat,       \* beat[t]: length of t's heartbeat file, 0 when absent
    used,       \* tokens drawn so far
    lock,       \* holder of the advisory lock
    pc,         \* pc[p]: next step of p
    tok,        \* tok[p]: token of p's claim
    why,        \* why[p]: what p retires a record for
    opens,      \* opens[p]: open calls of p so far
    elapsed,    \* elapsed[p]: time since p's open (capped), ...
    age,        \* age[p]: ... since unchanged_since of its wait state (capped)
    samp,       \* samp[p]: elapsed and age when p last took `now`
    rec,        \* rec[p]: marker p has just read
    seen,       \* seen[p]: last snapshot p observed
    nap,        \* nap[p]: time left of p's sleep or lock wait
    hb,         \* hb[p]: state of p's heartbeat thread
    due,        \* due[p]: time to its next refresh
    failed,     \* processes whose heartbeat_failed is set
    retired,    \* history: tokens whose record was retired
    committed   \* history: tokens that committed an entry

fsvars == <<current, infl, whole, beat, used>>
wvars  == <<elapsed, age, samp, rec, seen>>
hvars  == <<hb, due, failed>>
hist   == <<retired, committed>>
vars   == <<fsvars, lock, pc, tok, why, opens, wvars, nap, hvars, hist>>

NoSample == [e |-> 0, a |-> 0]
NoSnap == [tok |-> NoTok, whole |-> FALSE, beat |-> 0]
Snapshots == [tok : Tokens \cup {NoTok}, whole : BOOLEAN, beat : 0..MaxBeats]

LoopPcs == {"read", "now", "snap", "snapBeat", "claim", "take", "sleep"}
ClaimPcs == {"clRead", "clSnap", "clBeat", "clCreate", "clWrite", "clSync"}
TakePcs == {"tkRead", "tkSnap"}
OpenPcs == LoopPcs \cup ClaimPcs \cup TakePcs
OutcomePcs == {"hit", "timeout", "error"}
PubPcs == {"pubLock", "pubCheck", "pubCommit", "pubRelease"}
DropPcs == {"drop", "dropRelease"}
RetirePcs == {"rtRename", "rtReap"}
Pcs == {"idle", "own", "ownCheck", "ownAppend"} \cup OpenPcs \cup OutcomePcs
          \cup PubPcs \cup DropPcs \cup RetirePcs
Cap == WaitTimeout + Liveness

TypeOK ==
    /\ current \in Tokens \cup {NoTok}
    /\ infl \in Tokens \cup {NoTok}
    /\ whole \subseteq Tokens
    /\ beat \in [Tokens -> 0..MaxBeats]
    /\ used \subseteq Tokens
    /\ lock \in Procs \cup {NoProc}
    /\ pc \in [Procs -> Pcs]
    /\ tok \in [Procs -> Tokens \cup {NoTok}]
    /\ why \in [Procs -> {"none", "take", "publish", "drop"}]
    /\ opens \in [Procs -> 0..MaxOpens]
    /\ elapsed \in [Procs -> 0..Cap]
    /\ age \in [Procs -> 0..Liveness]
    /\ samp \in [Procs -> [e : 0..Cap, a : 0..Liveness]]
    /\ rec \in [Procs -> Tokens \cup {NoTok}]
    /\ seen \in [Procs -> Snapshots]
    /\ nap \in [Procs -> Nat]
    /\ hb \in [Procs -> {"off", "wait", "append"}]
    /\ due \in [Procs -> 0..Heartbeat]
    /\ failed \subseteq Procs
    /\ retired \subseteq Tokens
    /\ committed \subseteq Tokens

Init ==
    /\ current = NoTok /\ infl = NoTok /\ whole = {} /\ used = {}
    /\ beat = [t \in Tokens |-> 0]
    /\ lock = NoProc
    /\ pc = [p \in Procs |-> "idle"]
    /\ tok = [p \in Procs |-> NoTok]
    /\ why = [p \in Procs |-> "none"]
    /\ opens = [p \in Procs |-> 0]
    /\ elapsed = [p \in Procs |-> 0]
    /\ age = [p \in Procs |-> 0]
    /\ samp = [p \in Procs |-> NoSample]
    /\ rec = [p \in Procs |-> NoTok]
    /\ seen = [p \in Procs |-> NoSnap]
    /\ nap = [p \in Procs |-> 0]
    /\ hb = [p \in Procs |-> "off"]
    /\ due = [p \in Procs |-> 0]
    /\ failed = {}
    /\ retired = {}
    /\ committed = {}

-----------------------------------------------------------------------------
(* Helpers *)

At(p, l) == pc[p] = l
Goto(p, l) == pc' = [pc EXCEPT ![p] = l]
MinOf(a, b) == IF a < b THEN a ELSE b
Unlock(p) == lock' = IF lock = p THEN NoProc ELSE lock

(* read_inflight_snapshot: marker bytes, and the heartbeat metadata of the  *)
(* token in a well-formed record                                            *)
SnapshotOf(t) ==
    IF t = NoTok THEN NoSnap
    ELSE [tok |-> t, whole |-> t \in whole, beat |-> IF t \in whole THEN beat[t] ELSE 0]

(* inflight_token_is_current *)
TokenIsCurrent(t) == infl = t /\ t \in whole

(* The elapsed check and the sleep after an attempt that returned None:     *)
(* e is the elapsed time it is judged by.                                   *)
RetryLater(p, e) ==
    IF e >= WaitTimeout
    THEN Goto(p, "timeout") /\ UNCHANGED nap
    ELSE Goto(p, "sleep") /\ nap' = [nap EXCEPT ![p] = MinOf(Poll, WaitTimeout - e)]

(* The wait state of an open call goes out of scope.                        *)
ForgetWait(p) ==
    /\ elapsed' = [elapsed EXCEPT ![p] = 0]
    /\ age' = [age EXCEPT ![p] = 0]
    /\ samp' = [samp EXCEPT ![p] = NoSample]
    /\ rec' = [rec EXCEPT ![p] = NoTok]
    /\ seen' = [seen EXCEPT ![p] = NoSnap]
    /\ nap' = [nap EXCEPT ![p] = 0]

(* A process is done: its guard and its heartbeat thread are gone.          *)
Leave(p) ==
    /\ Goto(p, "idle")
    /\ Unlock(p)
    /\ ForgetWait(p)
    /\ tok' = [tok EXCEPT ![p] = NoTok]
    /\ why' = [why EXCEPT ![p] = "none"]
    /\ failed' = failed \ {p}
    /\ hb' = [hb EXCEPT ![p] = "off"]
    /\ due' = [due EXCEPT ![p] = 0]

-----------------------------------------------------------------------------
(* open_single_flight: the waiting loop *)

Open(p) ==
    /\ At(p, "idle")
    /\ opens[p] < MaxOpens
    /\ opens' = [opens EXCEPT ![p] = @ + 1]
    /\ Goto(p, "read")
    /\ UNCHANGED <<fsvars, lock, tok, why, wvars, nap, hvars, hist>>

(* read()? and clock.now() *)
OpenRead(p) ==
    /\ At(p, "read")
    /\ Goto(p, IF current # NoTok THEN "hit" ELSE "now")
    /\ UNCHANGED <<fsvars, lock, tok, why, opens, wvars, nap, hvars, hist>>

OpenNow(p) ==
    /\ At(p, "now")
    /\ samp' = [samp EXCEPT ![p] = [e |-> elapsed[p], a |-> age[p]]]
    /\ Goto(p, "snap")
    /\ UNCHANGED <<fsvars, lock, tok, why, opens, elapsed, age, rec, seen, nap, hvars, hist>>

(* The marker is read first, the heartbeat's metadata in a second call.     *)
OpenSnap(p) ==
    /\ At(p, "snap")
    /\ rec' = [rec EXCEPT ![p] = infl]
    /\ Goto(p, IF infl = NoTok THEN "claim" ELSE "snapBeat")
    /\ UNCHANGED <<fsvars, lock, tok, why, opens, elapsed, age, samp, seen, nap, hvars, hist>>

NewAgeNeverReset(p, new) == age[p]         \* fault: unchanged_since is kept

(* ExactCacheSingleFlightWait::observe.  A changed revision restarts the    *)
(* no-progress window at the time `now` that was taken before the snapshot; *)
(* takeover is considered before the total wait; a sleep ends no later than *)
(* either limit.                                                            *)
NewAge(p, new) ==
    IF new = seen[p] THEN age[p] ELSE MinOf(Liveness, elapsed[p] - samp[p].e)
NoProgress(p, new) == IF new = seen[p] THEN samp[p].a ELSE 0

DecisionNoTakeover(quiet, e) ==             \* fault: a silent owner is waited for
    IF quiet < Liveness /\ e >= WaitTimeout THEN "timeout" ELSE "sleep"
Decision(quiet, e) ==
    IF quiet >= Liveness THEN "take" ELSE IF e >= WaitTimeout THEN "timeout" ELSE "sleep"

DelayUnclipped(quiet, e) == MinOf(Poll, Liveness - quiet)   \* fault: total wait ignored
Delay(quiet, e) == MinOf(Poll, MinOf(WaitTimeout - e, Liveness - quiet))

OpenObserve(p) ==
    /\ At(p, "snapBeat")
    /\ LET new == SnapshotOf(rec[p])
           quiet == NoProgress(p, new)
           decision == Decision(quiet, samp[p].e)
       IN
       /\ seen' = [seen EXCEPT ![p] = new]
       /\ age' = [age EXCEPT ![p] = NewAge(p, new)]
       /\ Goto(p, decision)
       /\ nap' = [nap EXCEPT ![p] = IF decision = "sleep" THEN Delay(quiet, samp[p].e) ELSE 0]
    /\ UNCHANGED <<fsvars, lock, tok, why, opens, elapsed, samp, rec, hvars, hist>>

OpenWake(p) ==
    /\ At(p, "sleep")
    /\ nap[p] = 0
    /\ Goto(p, "read")
    /\ samp' = [samp EXCEPT ![p] = NoSample]
    /\ rec' = [rec EXCEPT ![p] = NoTok]
    /\ UNCHANGED <<fsvars, lock, tok, why, opens, elapsed, age, seen, nap, hvars, hist>>

-----------------------------------------------------------------------------
(* try_claim_transition and try_takeover_transition *)

(* try_transition_guard: lock(ZERO); a busy lock makes the attempt None.    *)
TryGuard(p, from, to, e) ==
    /\ At(p, from)
    /\ \/ lock = NoProc /\ lock' = p /\ Goto(p, to) /\ UNCHANGED nap
       \/ lock # NoProc /\ UNCHANGED lock /\ RetryLater(p, e)
    /\ UNCHANGED <<fsvars, tok, why, opens, wvars, hvars, hist>>
ClaimGuard(p) == TryGuard(p, "claim", "clRead", samp[p].e)
TakeGuard(p) == TryGuard(p, "take", "tkRead", elapsed[p])

LockedReadSkipped(p) ==                     \* fault: no second look under the lock
    /\ pc[p] \in {"clRead", "tkRead"}
    /\ Goto(p, IF At(p, "clRead") THEN "clSnap" ELSE "tkSnap")
    /\ UNCHANGED <<fsvars, lock, tok, why, opens, wvars, nap, hvars, hist>>

(* The committed entry is looked up again under the lock.                   *)
LockedRead(p) ==
    /\ pc[p] \in {"clRead", "tkRead"}
    /\ \/ current # NoTok /\ Goto(p, "hit") /\ Unlock(p)
       \/ /\ current = NoTok
          /\ Goto(p, IF At(p, "clRead") THEN "clSnap" ELSE "tkSnap")
          /\ UNCHANGED lock
    /\ UNCHANGED <<fsvars, tok, why, opens, wvars, nap, hvars, hist>>

(* A record created meanwhile ends the attempt.                             *)
ClaimSnap(p) ==
    /\ At(p, "clSnap")
    /\ \/ infl = NoTok /\ Goto(p, "clBeat") /\ UNCHANGED <<lock, nap>>
       \/ infl # NoTok /\ Unlock(p) /\ RetryLater(p, samp[p].e)
    /\ UNCHANGED <<fsvars, tok, why, opens, wvars, hvars, hist>>

TakeSnapUnchecked(p) ==                     \* fault: no recheck of the snapshot
    /\ At(p, "tkSnap")
    /\ Goto(p, "rtRename")
    /\ why' = [why EXCEPT ![p] = "take"]
    /\ UNCHANGED <<fsvars, lock, tok, opens, wvars, nap, hvars, hist>>

(* Only the snapshot this waiter saw unchanged may be retired.  The code    *)
(* compares it twice in a row, here and at the top of retire_inflight;      *)
(* heartbeats only grow, so the second comparison decides alone.            *)
TakeSnap(p) ==
    /\ At(p, "tkSnap")
    /\ \/ /\ SnapshotOf(infl) = seen[p]
          /\ Goto(p, "rtRename")
          /\ why' = [why EXCEPT ![p] = "take"]
          /\ UNCHANGED <<lock, nap>>
       \/ /\ SnapshotOf(infl) # seen[p]
          /\ Unlock(p) /\ RetryLater(p, elapsed[p])
          /\ UNCHANGED why
    /\ UNCHANGED <<fsvars, tok, opens, wvars, hvars, hist>>

(* claim_inflight: draw a token, create its heartbeat file ...              *)
FreshToken == CHOOSE t \in Tokens : t \notin used
ClaimBeat(p) ==
    /\ At(p, "clBeat")
    /\ used # Tokens
    /\ tok' = [tok EXCEPT ![p] = FreshToken]
    /\ used' = used \cup {FreshToken}
    /\ beat' = [beat EXCEPT ![FreshToken] = 1]
    /\ Goto(p, "clCreate")
    /\ UNCHANGED <<current, infl, whole, lock, why, opens, wvars, nap, hvars, hist>>

(* ... create in-flight.json exclusively ...                                *)
ClaimCreate(p) ==
    /\ At(p, "clCreate")
    /\ infl = NoTok
    /\ infl' = tok[p]
    /\ Goto(p, "clWrite")
    /\ UNCHANGED <<current, whole, beat, used, lock, tok, why, opens, wvars, nap, hvars, hist>>

(* ... write its bytes ...                                                  *)
ClaimWrite(p) ==
    /\ At(p, "clWrite")
    /\ whole' = whole \cup {tok[p]}
    /\ Goto(p, "clSync")
    /\ UNCHANGED <<current, infl, beat, used, lock, tok, why, opens, wvars, nap, hvars, hist>>

(* ... sync the directory, drop the guard and start the heartbeat thread,   *)
(* or go on without one, marked failed, when it cannot be spawned.          *)
ClaimOwner(p) ==
    /\ At(p, "clSync")
    /\ Goto(p, "own")
    /\ Unlock(p)
    /\ \/ hb' = [hb EXCEPT ![p] = "wait"] /\ UNCHANGED failed
       \/ failed' = failed \cup {p} /\ UNCHANGED hb
    /\ due' = [due EXCEPT ![p] = Heartbeat]
    /\ ForgetWait(p)
    /\ why' = [why EXCEPT ![p] = "none"]
    /\ UNCHANGED <<fsvars, tok, opens, hist>>

-----------------------------------------------------------------------------
(* retire_inflight *)

(* Rename in-flight.json to its retired name.  The rename of a record other *)
(* than the expected one, which the code then restores, needs a second      *)
(* writer inside the locked section and is excluded by the lock.            *)
RetireRename(p) ==
    /\ At(p, "rtRename")
    /\ infl' = NoTok
    /\ retired' = retired \cup {infl}
    /\ rec' = [rec EXCEPT ![p] = infl]
    /\ Goto(p, "rtReap")
    /\ UNCHANGED <<current, whole, beat, used, lock, tok, why, opens,
                   elapsed, age, samp, seen, nap, hvars, committed>>

(* Remove the retired file and the heartbeat of a well-formed record; then  *)
(* claim (takeover) or return (publish, drop).                              *)
RetireReap(p) ==
    /\ At(p, "rtReap")
    /\ beat' = [t \in Tokens |-> IF t = rec[p] /\ t \in whole THEN 0 ELSE beat[t]]
    /\ \/ /\ why[p] = "take"
          /\ Goto(p, "clBeat")
          /\ UNCHANGED <<lock, tok, why, wvars, nap, hvars>>
       \/ /\ why[p] # "take"
          /\ Leave(p)
    /\ UNCHANGED <<current, infl, whole, used, opens, hist>>

-----------------------------------------------------------------------------
(* ExactCacheOwner *)

(* refresh_inflight_heartbeat by the heartbeat thread: the token is checked *)
(* in one call and the byte appended in another, without the lock.          *)
BeatCheck(p) ==
    /\ hb[p] = "wait" /\ due[p] = 0
    /\ beat[tok[p]] < MaxBeats
    /\ \/ /\ TokenIsCurrent(tok[p])
          /\ hb' = [hb EXCEPT ![p] = "append"]
          /\ UNCHANGED failed
       \/ /\ ~ TokenIsCurrent(tok[p])
          /\ hb' = [hb EXCEPT ![p] = "off"]
          /\ failed' = failed \cup {p}
    /\ UNCHANGED <<fsvars, lock, pc, tok, why, opens, wvars, nap, due, hist>>

AppendCreates(t) ==                         \* fault: the file is opened with create
    /\ beat[t] < MaxBeats
    /\ beat' = [beat EXCEPT ![t] = @ + 1]

(* The file is opened for appending and not created.                        *)
Append(t) ==
    /\ beat[t] \in 1..(MaxBeats - 1)
    /\ beat' = [beat EXCEPT ![t] = @ + 1]

(* An append to a heartbeat file that is gone, or that fails, ends the      *)
(* thread with heartbeat_failed set.                                        *)
BeatAppend(p) ==
    /\ hb[p] = "append"
    /\ \/ /\ Append(tok[p])
          /\ hb' = [hb EXCEPT ![p] = "wait"]
          /\ due' = [due EXCEPT ![p] = Heartbeat]
          /\ UNCHANGED failed
       \/ /\ hb' = [hb EXCEPT ![p] = "off"]
          /\ failed' = failed \cup {p}
          /\ UNCHANGED <<beat, due>>
    /\ UNCHANGED <<current, infl, whole, used, lock, pc, tok, why, opens, wvars, nap, hist>>

(* ExactCacheOwner::heartbeat, called by the owner itself                   *)
OwnerHeartbeat(p) ==
    /\ \/ /\ At(p, "own") /\ p \notin failed /\ beat[tok[p]] < MaxBeats
          /\ Goto(p, "ownCheck")
          /\ UNCHANGED <<beat, failed>>
       \/ /\ At(p, "ownCheck")
          /\ \/ TokenIsCurrent(tok[p]) /\ Goto(p, "ownAppend") /\ UNCHANGED failed
             \/ ~ TokenIsCurrent(tok[p]) /\ Goto(p, "own") /\ failed' = failed \cup {p}
          /\ UNCHANGED beat
       \/ /\ At(p, "ownAppend")
          /\ Goto(p, "own")
          /\ \/ Append(tok[p]) /\ UNCHANGED failed
             \/ failed' = failed \cup {p} /\ UNCHANGED beat
    /\ UNCHANGED <<current, infl, whole, used, lock, tok, why, opens, wvars, nap, hb, due, hist>>

(* stop_heartbeat joins the thread, so it waits for a refresh under way.    *)
StopHeartbeat(p) ==
    /\ hb[p] # "append"
    /\ hb' = [hb EXCEPT ![p] = "off"]
    /\ due' = [due EXCEPT ![p] = 0]

(* publish: no heartbeat runs while it waits for the lock.                  *)
PublishStart(p) ==
    /\ At(p, "own")
    /\ StopHeartbeat(p)
    /\ \/ p \in failed /\ Goto(p, "drop") /\ UNCHANGED nap
       \/ /\ p \notin failed
          /\ Goto(p, "pubLock")
          /\ nap' = [nap EXCEPT ![p] = WaitTimeout]
    /\ UNCHANGED <<fsvars, lock, tok, why, opens, wvars, failed, hist>>

PublishLockForced(p) ==                     \* fault: goes on at the deadline
    /\ At(p, "pubLock")
    /\ lock = NoProc \/ nap[p] = 0
    /\ lock' = p
    /\ Goto(p, "pubCheck")
    /\ nap' = [nap EXCEPT ![p] = 0]
    /\ UNCHANGED <<fsvars, tok, why, opens, wvars, hvars, hist>>
PublishLock(p) ==
    /\ At(p, "pubLock")
    /\ \/ lock = NoProc /\ lock' = p /\ Goto(p, "pubCheck")
       \/ lock # NoProc /\ nap[p] = 0 /\ UNCHANGED lock /\ Goto(p, "drop")
    /\ nap' = [nap EXCEPT ![p] = 0]
    /\ UNCHANGED <<fsvars, tok, why, opens, wvars, hvars, hist>>

PublishCheckSkipped(p) ==                   \* fault: no fence
    /\ At(p, "pubCheck")
    /\ Goto(p, "pubCommit")
    /\ UNCHANGED <<fsvars, lock, tok, why, opens, wvars, nap, hvars, hist>>

(* The fence: a token that is no longer current ends with OwnershipLost.    *)
PublishCheck(p) ==
    /\ At(p, "pubCheck")
    /\ \/ TokenIsCurrent(tok[p]) /\ Goto(p, "pubCommit") /\ UNCHANGED lock
       \/ ~ TokenIsCurrent(tok[p]) /\ Goto(p, "drop") /\ Unlock(p)
    /\ UNCHANGED <<fsvars, tok, why, opens, wvars, nap, hvars, hist>>

(* cache.publish: commits, or fails before or after its rename              *)
PublishCommit(p) ==
    /\ At(p, "pubCommit")
    /\ \/ /\ current' = tok[p]
          /\ committed' = committed \cup {tok[p]}
          /\ \/ Goto(p, "pubRelease") /\ UNCHANGED lock
             \/ Goto(p, "drop") /\ Unlock(p)
       \/ Goto(p, "drop") /\ Unlock(p) /\ UNCHANGED <<current, committed>>
    /\ UNCHANGED <<infl, whole, beat, used, tok, why, opens, wvars, nap, hvars, retired>>

(* drop of an owner that has not released: a busy lock leaves the record.   *)
DropOwner(p) ==
    /\ \/ At(p, "own") /\ hb[p] # "append"
       \/ At(p, "drop")
    /\ \/ /\ lock = NoProc /\ lock' = p /\ Goto(p, "dropRelease")
          /\ StopHeartbeat(p)
          /\ UNCHANGED <<tok, why, wvars, nap, failed>>
       \/ lock # NoProc /\ Leave(p)
    /\ UNCHANGED <<fsvars, opens, hist>>

(* release_inflight retires the record only if it still carries the token.  *)
Release(p) ==
    /\ pc[p] \in {"pubRelease", "dropRelease"}
    /\ \/ /\ TokenIsCurrent(tok[p])
          /\ Goto(p, "rtRename")
          /\ why' = [why EXCEPT ![p] = IF At(p, "pubRelease") THEN "publish" ELSE "drop"]
          /\ UNCHANGED <<lock, tok, wvars, nap, hvars>>
       \/ /\ ~ TokenIsCurrent(tok[p])
          /\ Leave(p)
    /\ UNCHANGED <<fsvars, opens, hist>>

-----------------------------------------------------------------------------
(* Errors, death and time *)

(* A failing call returns through `?`: guards are dropped, an open ends in  *)
(* error, a publication goes on to drop the owner, a drop ignores it.  A    *)
(* failed write or file sync of in-flight.json tries to remove it again; a  *)
(* failed directory sync leaves a complete record without an owner.         *)
IoError(p) ==
    /\ \/ /\ pc[p] \in (OpenPcs \ {"now", "sleep"})
          /\ Goto(p, "error")
          /\ infl' \in IF pc[p] \in {"clWrite", "clSync"} THEN {infl, NoTok} ELSE {infl}
       \/ /\ pc[p] \in RetirePcs /\ why[p] = "take"
          /\ Goto(p, "error") /\ UNCHANGED infl
       \/ /\ \/ pc[p] \in {"pubLock", "pubCheck", "pubRelease"}
             \/ pc[p] \in RetirePcs /\ why[p] = "publish"
          /\ Goto(p, "drop") /\ UNCHANGED infl
    /\ Unlock(p)
    /\ UNCHANGED <<current, whole, beat, used, tok, why, opens, wvars, nap, hvars, hist>>

DropError(p) ==
    /\ pc[p] \in DropPcs \/ (pc[p] \in RetirePcs /\ why[p] = "drop")
    /\ Leave(p)
    /\ UNCHANGED <<fsvars, opens, hist>>

(* The caller consumes a hit, a timeout or an error.                        *)
Return(p) ==
    /\ pc[p] \in OutcomePcs
    /\ Leave(p)
    /\ UNCHANGED <<fsvars, opens, hist>>

(* Process death: the lock is freed, threads and memory are gone.           *)
Crash(p) ==
    /\ pc[p] # "idle"
    /\ Leave(p)
    /\ UNCHANGED <<fsvars, opens, hist>>

(* A step of p is due now.                                                  *)
Urgent(p) ==
    \/ pc[p] \notin {"idle", "own", "sleep", "pubLock"} \cup OutcomePcs
    \/ At(p, "sleep") /\ nap[p] = 0
    \/ At(p, "pubLock") /\ (lock = NoProc \/ nap[p] = 0)
    \/ hb[p] = "append"
    \/ hb[p] = "wait" /\ due[p] = 0 /\ beat[tok[p]] < MaxBeats

Tick ==
    /\ \A p \in Prompt : ~ Urgent(p)
    /\ elapsed' = [p \in Procs |-> IF pc[p] \in OpenPcs THEN MinOf(Cap, elapsed[p] + 1) ELSE elapsed[p]]
    /\ age' = [p \in Procs |-> IF pc[p] \in OpenPcs THEN MinOf(Liveness, age[p] + 1) ELSE age[p]]
    /\ nap' = [p \in Procs |-> IF nap[p] > 0 THEN nap[p] - 1 ELSE 0]
    /\ due' = [p \in Procs |-> IF due[p] > 0 THEN due[p] - 1 ELSE 0]
    /\ UNCHANGED <<fsvars, lock, pc, tok, why, opens, samp, rec, seen, hb, failed, hist>>

(* The steps a process takes by itself                                      *)
Step(p) ==
    \/ OpenRead(p) \/ OpenNow(p) \/ OpenSnap(p) \/ OpenObserve(p) \/ OpenWake(p)
    \/ ClaimGuard(p) \/ TakeGuard(p) \/ LockedRead(p) \/ ClaimSnap(p) \/ TakeSnap(p)
    \/ ClaimBeat(p) \/ ClaimCreate(p) \/ ClaimWrite(p) \/ ClaimOwner(p)
    \/ RetireRename(p) \/ RetireReap(p)
    \/ PublishLock(p) \/ PublishCheck(p) \/ PublishCommit(p) \/ Release(p)
    \/ (At(p, "drop") /\ DropOwner(p)) \/ Return(p)

Thread(p) == BeatCheck(p) \/ BeatAppend(p)

Next ==
    \/ \E p \in Procs :
          \/ Step(p) \/ Thread(p) \/ Open(p) \/ OwnerHeartbeat(p) \/ PublishStart(p)
          \/ DropOwner(p) \/ IoError(p) \/ DropError(p) \/ Crash(p)
    \/ Tick

Spec == Init /\ [][Next]_vars
FairSpec == Spec /\ WF_vars(Tick) /\ \A p \in Procs : WF_vars(Step(p)) /\ WF_vars(Thread(p))

-----------------------------------------------------------------------------
(* Correctness *)

(* However owners die, stall or are taken over, at most one of them ever    *)
(* commits: open_single_flight coalesces all misses into one publication.   *)
OneCommit == \A t, u \in committed : t = u

(* A publication past its token check owns the only record: nobody can      *)
(* have retired it between the check and the commit.                        *)
CommitterIsOwner ==
    \A p \in Procs : pc[p] \in {"pubCommit", "pubRelease"} =>
        /\ lock = p
        /\ TokenIsCurrent(tok[p]) /\ tok[p] \notin retired

(* Every process that believes to be the owner either has its record in     *)
(* in-flight.json or was retired: there are never two unretired owners.     *)
OwnerPcs == {"own", "ownCheck", "ownAppend", "pubLock", "pubCheck", "pubCommit", "drop"}
OneUnretiredOwner ==
    \A p, q \in Procs :
        pc[p] \in OwnerPcs /\ pc[q] \in OwnerPcs
          /\ tok[p] \notin retired /\ tok[q] \notin retired => p = q

(* Nobody is told to download what is already committed.                    *)
NoOwnerAfterCommit ==
    [][\A p \in Procs : pc[p] = "clSync" /\ pc'[p] = "own" => current = NoTok]_vars

(* A takeover retires the record it watched for a full liveness window and  *)
(* never the record of a successor that another waiter put in its place.    *)
RetiresOnlyWatched ==
    [][\A p \in Procs : pc[p] = "rtRename" /\ why[p] = "take" /\ infl' # infl
          => infl = seen[p].tok]_vars

(* A refresh that checked its token before the takeover and appends after   *)
(* it does not bring back the heartbeat file that the takeover removed: no  *)
(* later cleanup would find it, only the record named it.                   *)
NoHeartbeatAfterReap ==
    [][\A t \in retired : beat[t] = 0 => beat'[t] = 0]_vars

(* "A slow but refreshing owner remains owner": nobody removes the record   *)
(* of an owner whose heartbeat thread runs.                                 *)
Refreshing(p) == At(p, "own") /\ hb[p] # "off" /\ beat[tok[p]] \in 1..(MaxBeats - 1)
RefreshingOwnerKept ==
    [][\A p \in Procs : Refreshing(p) /\ infl = tok[p] => infl' = infl]_vars

(* A waiter that is not delayed never waits longer than wait_timeout: each  *)
(* sleep is clipped to what is left of it.                                  *)
BoundedWait ==
    \A p \in Prompt : pc[p] \in OpenPcs => elapsed[p] <= WaitTimeout

(* Every open_single_flight call returns, whatever the other processes do.  *)
EveryOpenReturns ==
    \A p \in Procs : pc[p] \in OpenPcs \cup RetirePcs ~> pc[p] \notin OpenPcs \cup RetirePcs
=============================================================================
