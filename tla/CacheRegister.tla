---------------------------- MODULE CacheRegister ----------------------------
(***************************************************************************)
(* What the exact-product cache promises a caller that only looks at       *)
(* ExactProductCache::read and ExactProductCache::publish: one register    *)
(* holding the current entry.                                              *)
(*                                                                         *)
(*  - a commit replaces the current entry by one that was never current    *)
(*    before, so the register never rolls back;                            *)
(*  - a read returns an entry (or the absence of one) that was current at  *)
(*    some moment between its call and its return;                         *)
(*  - a read fails only because an input/output call failed, or because    *)
(*    the register changed at least MaxTries times while it was reading.   *)
(*                                                                         *)
(* ExactCache.tla shows that the file protocol implements this register.   *)
(***************************************************************************)
EXTENDS Naturals, FiniteSets

CONSTANTS Procs, Entries, NoEntry, MaxTries

VARIABLES
    cur,        \* the current entry, NoEntry before the first commit
    spent,      \* every entry that has ever been current
    state,      \* state[p]: "idle", "reading" or the outcome of a read
    window,     \* window[p]: what has been current since p's read began
    answer      \* answer[p]: the entry p's read returned

rvars == <<cur, spent, state, window, answer>>

Init ==
    /\ cur = NoEntry
    /\ spent = {}
    /\ state = [p \in Procs |-> "idle"]
    /\ window = [p \in Procs |-> {}]
    /\ answer = [p \in Procs |-> NoEntry]

Commit(e) ==
    /\ e \notin spent
    /\ cur' = e
    /\ spent' = spent \cup {e}
    /\ window' = [p \in Procs |->
                    IF state[p] = "reading" THEN window[p] \cup {e} ELSE window[p]]
    /\ UNCHANGED <<state, answer>>

Begin(p) ==
    /\ state[p] = "idle"
    /\ state' = [state EXCEPT ![p] = "reading"]
    /\ window' = [window EXCEPT ![p] = {cur}]
    /\ UNCHANGED <<cur, spent, answer>>

Return(p, e) ==
    /\ state[p] = "reading"
    /\ e \in window[p]
    /\ state' = [state EXCEPT ![p] = IF e = NoEntry THEN "miss" ELSE "hit"]
    /\ answer' = [answer EXCEPT ![p] = e]
    /\ UNCHANGED <<cur, spent, window>>

Fail(p, why) ==
    /\ state[p] = "reading"
    /\ why = "unstable" => Cardinality(window[p]) > MaxTries
    /\ state' = [state EXCEPT ![p] = why]
    /\ UNCHANGED <<cur, spent, window, answer>>

(* The caller consumes the outcome, or its process dies in mid-read.       *)
Leave(p) ==
    /\ state[p] # "idle"
    /\ state' = [state EXCEPT ![p] = "idle"]
    /\ window' = [window EXCEPT ![p] = {}]
    /\ answer' = [answer EXCEPT ![p] = NoEntry]
    /\ UNCHANGED <<cur, spent>>

Next ==
    \/ \E e \in Entries : Commit(e)
    \/ \E p \in Procs :
          \/ Begin(p) \/ Leave(p)
          \/ \E e \in Entries \cup {NoEntry} : Return(p, e)
          \/ \E why \in {"io", "unstable"} : Fail(p, why)

Spec == Init /\ [][Next]_rvars
=============================================================================
