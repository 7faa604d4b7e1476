-------------------------- MODULE SingleFlightProofs --------------------------
(***************************************************************************)
(* Theorems about SingleFlight for any number of processes and tokens and  *)
(* any timing of the steps; and, for processes that are not delayed, the   *)
(* bound on a wait and the lease of a refreshing owner, where the timers do*)
(* play a part.                                                            *)
(***************************************************************************)
EXTENDS SingleFlight, TLAPS

(* A token drawn by claim_inflight was never used before.                  *)
LEMMA FreshTokenFact ==
  ASSUME used \subseteq Tokens, used # Tokens
  PROVE  FreshToken \in Tokens /\ FreshToken \notin used
<1>1. \E t \in Tokens : t \notin used
  OBVIOUS
<1> QED BY <1>1 DEF FreshToken

-----------------------------------------------------------------------------
(* The inductive invariant *)

(* The part of TypeOK the argument needs: everything but the timers.       *)
CoreType ==
    /\ current \in Tokens \cup {NoTok}
    /\ infl \in Tokens \cup {NoTok}
    /\ whole \subseteq Tokens
    /\ used \subseteq Tokens
    /\ lock \in Procs \cup {NoProc}
    /\ pc \in [Procs -> Pcs]
    /\ tok \in [Procs -> Tokens \cup {NoTok}]
    /\ why \in [Procs -> {"none", "take", "publish", "drop"}]
    /\ rec \in [Procs -> Tokens \cup {NoTok}]
    /\ DOMAIN seen = Procs
    /\ retired \subseteq Tokens
    /\ committed \subseteq Tokens

(* A process in a section the code guards holds the lock.                  *)
GuardedPcs == ClaimPcs \cup TakePcs \cup RetirePcs
                \cup {"pubCheck", "pubCommit", "pubRelease", "dropRelease"}
LockInv == \A p \in Procs : pc[p] \in GuardedPcs => lock = p

(* p has a token of its own: from the claim until it leaves.               *)
HasToken(p) ==
    \/ pc[p] \in {"clCreate", "clWrite", "clSync", "pubRelease", "dropRelease"} \cup
       OwnerPcs
    \/ pc[p] \in RetirePcs /\ why[p] # "take"

(* Tokens are drawn once and belong to one process.                        *)
TokenInv ==
    /\ \A p \in Procs : HasToken(p) => tok[p] \in used
    /\ \A p, q \in Procs : tok[p] = tok[q] /\ tok[p] # NoTok => p = q
    /\ \A p \in Procs : tok[p] # NoTok => tok[p] \in used
    /\ infl # NoTok => infl \in used /\ infl \notin retired
    /\ retired \subseteq used

(* What a takeover retires is a record it has seen.                        *)
SeenInv == \A p \in Procs :
    /\ pc[p] = "snapBeat" => rec[p] # NoTok
    /\ pc[p] \in {"take", "tkRead", "tkSnap"} => seen[p] # NoSnap
    /\ pc[p] = "rtRename" => infl # NoTok
    /\ pc[p] = "rtRename" /\ why[p] # "take" => infl = tok[p]
    /\ pc[p] = "rtRename" /\ why[p] = "take" => infl = seen[p].tok

(* Where a claim stands, and what an owner that is past it may rely on: it *)
(* has been retired, or in-flight.json is its record.                      *)
OwnerInv == \A p \in Procs :
    /\ pc[p] = "clCreate" => tok[p] \notin retired
    /\ pc[p] \in {"rtReap", "clBeat", "clCreate"} => infl = NoTok
    /\ pc[p] = "rtReap" /\ why[p] # "take" => tok[p] \in retired
    /\ pc[p] \in {"clWrite", "clSync"} => infl = tok[p]
    /\ pc[p] \in OwnerPcs => tok[p] \in retired \/ infl = tok[p]
    /\ pc[p] \in {"pubCommit", "pubRelease"} => infl = tok[p] /\ tok[p] \in whole

(* Nothing is committed while a claim is under way, nor while the record   *)
(* of an owner that has yet to commit is in place.                         *)
Claiming(p) ==
    \/ pc[p] \in {"clSnap", "clBeat", "clCreate", "clWrite", "clSync", "tkSnap"}
    \/ pc[p] \in RetirePcs /\ why[p] = "take"
BeforeCommit == {"own", "ownCheck", "ownAppend", "pubLock", "pubCheck", "pubCommit"}
CommitInv ==
    /\ committed \subseteq {current}
    /\ \A p \in Procs : Claiming(p) => current = NoTok
    /\ \A p \in Procs : pc[p] \in BeforeCommit /\ infl = tok[p] => current = NoTok

Inv ==
    /\ CoreType
    /\ LockInv
    /\ TokenInv
    /\ SeenInv
    /\ OwnerInv
    /\ CommitInv

-----------------------------------------------------------------------------
(* The inductive invariant holds initially.                                *)
LEMMA InitInv == Init => Inv
  BY NoTokAssumption DEF Init, Inv, CoreType, LockInv, TokenInv, SeenInv, OwnerInv,
     CommitInv, HasToken, Claiming, OwnerPcs, BeforeCommit, GuardedPcs, Pcs,
     OpenPcs, LoopPcs, ClaimPcs, TakePcs, OutcomePcs, PubPcs, DropPcs, RetirePcs

(* Every action preserves the inductive invariant.                         *)
LEMMA StepInv == Inv /\ [Next]_vars => Inv'
<1> SUFFICES ASSUME Inv, [Next]_vars PROVE Inv'
  OBVIOUS
<1> USE NoTokAssumption, NoProcAssumption
    DEF fsvars, wvars, hvars, hist, At, Goto, Unlock, Leave, ForgetWait, RetryLater,
       TryGuard, TokenIsCurrent, StopHeartbeat, OwnerPcs, BeforeCommit, GuardedPcs,
       HasToken, Claiming
<1>1. ASSUME NEW p \in Procs, Open(p) PROVE Inv'
  <2>1. CoreType'
    BY <1>1 DEF Inv, CoreType, Open, Pcs, OpenPcs, LoopPcs, ClaimPcs, TakePcs,
       OutcomePcs, PubPcs, DropPcs, RetirePcs
  <2>2. LockInv'
    BY <1>1, <2>1 DEF Inv, CoreType, LockInv, Open, Pcs, OpenPcs, LoopPcs, ClaimPcs,
       TakePcs, OutcomePcs, PubPcs, DropPcs, RetirePcs
  <2>3. TokenInv'
    BY <1>1, <2>1 DEF Inv, CoreType, LockInv, TokenInv, OwnerInv, SeenInv, Open,
       Pcs, OpenPcs, LoopPcs, ClaimPcs, TakePcs, OutcomePcs, PubPcs, DropPcs,
       RetirePcs
  <2>4. SeenInv'
    BY <1>1, <2>1 DEF Inv, CoreType, LockInv, SeenInv, OwnerInv, SnapshotOf, NoSnap,
       Open, Pcs, OpenPcs, LoopPcs, ClaimPcs, TakePcs, OutcomePcs, PubPcs, DropPcs,
       RetirePcs
  <2>5. OwnerInv'
    BY <1>1, <2>1 DEF Inv, CoreType, LockInv, TokenInv, SeenInv, OwnerInv, Open,
       Pcs, OpenPcs, LoopPcs, ClaimPcs, TakePcs, OutcomePcs, PubPcs, DropPcs,
       RetirePcs
  <2>6. CommitInv'
    BY <1>1, <2>1 DEF Inv, CoreType, LockInv, TokenInv, OwnerInv, CommitInv, Open,
       Pcs, OpenPcs, LoopPcs, ClaimPcs, TakePcs, OutcomePcs, PubPcs, DropPcs,
       RetirePcs
  <2> QED
    BY <2>1, <2>2, <2>3, <2>4, <2>5, <2>6 DEF Inv
<1>2. ASSUME NEW p \in Procs, OpenRead(p) PROVE Inv'
  <2>1. CoreType'
    BY <1>2 DEF Inv, CoreType, OpenRead, Pcs, OpenPcs, LoopPcs, ClaimPcs, TakePcs,
       OutcomePcs, PubPcs, DropPcs, RetirePcs
  <2>2. LockInv'
    BY <1>2, <2>1 DEF Inv, CoreType, LockInv, OpenRead, Pcs, OpenPcs, LoopPcs,
       ClaimPcs, TakePcs, OutcomePcs, PubPcs, DropPcs, RetirePcs
  <2>3. TokenInv'
    BY <1>2, <2>1 DEF Inv, CoreType, LockInv, TokenInv, OwnerInv, SeenInv, OpenRead,
       Pcs, OpenPcs, LoopPcs, ClaimPcs, TakePcs, OutcomePcs, PubPcs, DropPcs,
       RetirePcs
  <2>4. SeenInv'
    BY <1>2, <2>1 DEF Inv, CoreType, LockInv, SeenInv, OwnerInv, SnapshotOf, NoSnap,
       OpenRead, Pcs, OpenPcs, LoopPcs, ClaimPcs, TakePcs, OutcomePcs, PubPcs,
       DropPcs, RetirePcs
  <2>5. OwnerInv'
    BY <1>2, <2>1 DEF Inv, CoreType, LockInv, TokenInv, SeenInv, OwnerInv, OpenRead,
       Pcs, OpenPcs, LoopPcs, ClaimPcs, TakePcs, OutcomePcs, PubPcs, DropPcs,
       RetirePcs
  <2>6. CommitInv'
    BY <1>2, <2>1 DEF Inv, CoreType, LockInv, TokenInv, OwnerInv, CommitInv,
       OpenRead, Pcs, OpenPcs, LoopPcs, ClaimPcs, TakePcs, OutcomePcs, PubPcs,
       DropPcs, RetirePcs
  <2> QED
    BY <2>1, <2>2, <2>3, <2>4, <2>5, <2>6 DEF Inv
<1>3. ASSUME NEW p \in Procs, OpenNow(p) PROVE Inv'
  <2>1. CoreType'
    BY <1>3 DEF Inv, CoreType, OpenNow, Pcs, OpenPcs, LoopPcs, ClaimPcs, TakePcs,
       OutcomePcs, PubPcs, DropPcs, RetirePcs
  <2>2. LockInv'
    BY <1>3, <2>1 DEF Inv, CoreType, LockInv, OpenNow, Pcs, OpenPcs, LoopPcs,
       ClaimPcs, TakePcs, OutcomePcs, PubPcs, DropPcs, RetirePcs
  <2>3. TokenInv'
    BY <1>3, <2>1 DEF Inv, CoreType, LockInv, TokenInv, OwnerInv, SeenInv, OpenNow,
       Pcs, OpenPcs, LoopPcs, ClaimPcs, TakePcs, OutcomePcs, PubPcs, DropPcs,
       RetirePcs
  <2>4. SeenInv'
    BY <1>3, <2>1 DEF Inv, CoreType, LockInv, SeenInv, OwnerInv, SnapshotOf, NoSnap,
       OpenNow, Pcs, OpenPcs, LoopPcs, ClaimPcs, TakePcs, OutcomePcs, PubPcs,
       DropPcs, RetirePcs
  <2>5. OwnerInv'
    BY <1>3, <2>1 DEF Inv, CoreType, LockInv, TokenInv, SeenInv, OwnerInv, OpenNow,
       Pcs, OpenPcs, LoopPcs, ClaimPcs, TakePcs, OutcomePcs, PubPcs, DropPcs,
       RetirePcs
  <2>6. CommitInv'
    BY <1>3, <2>1 DEF Inv, CoreType, LockInv, TokenInv, OwnerInv, CommitInv,
       OpenNow, Pcs, OpenPcs, LoopPcs, ClaimPcs, TakePcs, OutcomePcs, PubPcs,
       DropPcs, RetirePcs
  <2> QED
    BY <2>1, <2>2, <2>3, <2>4, <2>5, <2>6 DEF Inv
<1>4. ASSUME NEW p \in Procs, OpenSnap(p) PROVE Inv'
  <2>1. CoreType'
    BY <1>4 DEF Inv, CoreType, OpenSnap, Pcs, OpenPcs, LoopPcs, ClaimPcs, TakePcs,
       OutcomePcs, PubPcs, DropPcs, RetirePcs
  <2>2. LockInv'
    BY <1>4, <2>1 DEF Inv, CoreType, LockInv, OpenSnap, Pcs, OpenPcs, LoopPcs,
       ClaimPcs, TakePcs, OutcomePcs, PubPcs, DropPcs, RetirePcs
  <2>3. TokenInv'
    BY <1>4, <2>1 DEF Inv, CoreType, LockInv, TokenInv, OwnerInv, SeenInv, OpenSnap,
       Pcs, OpenPcs, LoopPcs, ClaimPcs, TakePcs, OutcomePcs, PubPcs, DropPcs,
       RetirePcs
  <2>4. SeenInv'
    BY <1>4, <2>1 DEF Inv, CoreType, LockInv, SeenInv, OwnerInv, SnapshotOf, NoSnap,
       OpenSnap, Pcs, OpenPcs, LoopPcs, ClaimPcs, TakePcs, OutcomePcs, PubPcs,
       DropPcs, RetirePcs
  <2>5. OwnerInv'
    BY <1>4, <2>1 DEF Inv, CoreType, LockInv, TokenInv, SeenInv, OwnerInv, OpenSnap,
       Pcs, OpenPcs, LoopPcs, ClaimPcs, TakePcs, OutcomePcs, PubPcs, DropPcs,
       RetirePcs
  <2>6. CommitInv'
    BY <1>4, <2>1 DEF Inv, CoreType, LockInv, TokenInv, OwnerInv, CommitInv,
       OpenSnap, Pcs, OpenPcs, LoopPcs, ClaimPcs, TakePcs, OutcomePcs, PubPcs,
       DropPcs, RetirePcs
  <2> QED
    BY <2>1, <2>2, <2>3, <2>4, <2>5, <2>6 DEF Inv
<1>5. ASSUME NEW p \in Procs, OpenObserve(p) PROVE Inv'
  <2>1. CoreType'
    BY <1>5 DEF Inv, CoreType, OpenObserve, Decision, Pcs, OpenPcs, LoopPcs, ClaimPcs,
       TakePcs, OutcomePcs, PubPcs, DropPcs, RetirePcs
  <2>2. LockInv'
    BY <1>5, <2>1 DEF Inv, CoreType, LockInv, OpenObserve, Decision, Pcs, OpenPcs, LoopPcs,
       ClaimPcs, TakePcs, OutcomePcs, PubPcs, DropPcs, RetirePcs
  <2>3. TokenInv'
    BY <1>5, <2>1 DEF Inv, CoreType, LockInv, TokenInv, OwnerInv, SeenInv,
       OpenObserve, Decision, Pcs, OpenPcs, LoopPcs, ClaimPcs, TakePcs, OutcomePcs, PubPcs,
       DropPcs, RetirePcs
  <2>4. SeenInv'
    BY <1>5, <2>1 DEF Inv, CoreType, LockInv, SeenInv, OwnerInv, SnapshotOf, NoSnap,
       OpenObserve, Decision, Pcs, OpenPcs, LoopPcs, ClaimPcs, TakePcs, OutcomePcs, PubPcs,
       DropPcs, RetirePcs
  <2>5. OwnerInv'
    BY <1>5, <2>1 DEF Inv, CoreType, LockInv, TokenInv, SeenInv, OwnerInv,
       OpenObserve, Decision, Pcs, OpenPcs, LoopPcs, ClaimPcs, TakePcs, OutcomePcs, PubPcs,
       DropPcs, RetirePcs
  <2>6. CommitInv'
    BY <1>5, <2>1 DEF Inv, CoreType, LockInv, TokenInv, OwnerInv, CommitInv,
       OpenObserve, Decision, Pcs, OpenPcs, LoopPcs, ClaimPcs, TakePcs, OutcomePcs, PubPcs,
       DropPcs, RetirePcs
  <2> QED
    BY <2>1, <2>2, <2>3, <2>4, <2>5, <2>6 DEF Inv
<1>6. ASSUME NEW p \in Procs, OpenWake(p) PROVE Inv'
  <2>1. CoreType'
    BY <1>6 DEF Inv, CoreType, OpenWake, Pcs, OpenPcs, LoopPcs, ClaimPcs, TakePcs,
       OutcomePcs, PubPcs, DropPcs, RetirePcs
  <2>2. LockInv'
    BY <1>6, <2>1 DEF Inv, CoreType, LockInv, OpenWake, Pcs, OpenPcs, LoopPcs,
       ClaimPcs, TakePcs, OutcomePcs, PubPcs, DropPcs, RetirePcs
  <2>3. TokenInv'
    BY <1>6, <2>1 DEF Inv, CoreType, LockInv, TokenInv, OwnerInv, SeenInv, OpenWake,
       Pcs, OpenPcs, LoopPcs, ClaimPcs, TakePcs, OutcomePcs, PubPcs, DropPcs,
       RetirePcs
  <2>4. SeenInv'
    BY <1>6, <2>1 DEF Inv, CoreType, LockInv, SeenInv, OwnerInv, SnapshotOf, NoSnap,
       OpenWake, Pcs, OpenPcs, LoopPcs, ClaimPcs, TakePcs, OutcomePcs, PubPcs,
       DropPcs, RetirePcs
  <2>5. OwnerInv'
    BY <1>6, <2>1 DEF Inv, CoreType, LockInv, TokenInv, SeenInv, OwnerInv, OpenWake,
       Pcs, OpenPcs, LoopPcs, ClaimPcs, TakePcs, OutcomePcs, PubPcs, DropPcs,
       RetirePcs
  <2>6. CommitInv'
    BY <1>6, <2>1 DEF Inv, CoreType, LockInv, TokenInv, OwnerInv, CommitInv,
       OpenWake, Pcs, OpenPcs, LoopPcs, ClaimPcs, TakePcs, OutcomePcs, PubPcs,
       DropPcs, RetirePcs
  <2> QED
    BY <2>1, <2>2, <2>3, <2>4, <2>5, <2>6 DEF Inv
<1>7. ASSUME NEW p \in Procs, ClaimGuard(p) PROVE Inv'
  <2>1. CoreType'
    BY <1>7 DEF Inv, CoreType, ClaimGuard, Pcs, OpenPcs, LoopPcs, ClaimPcs, TakePcs,
       OutcomePcs, PubPcs, DropPcs, RetirePcs
  <2>2. LockInv'
    BY <1>7, <2>1 DEF Inv, CoreType, LockInv, ClaimGuard, Pcs, OpenPcs, LoopPcs,
       ClaimPcs, TakePcs, OutcomePcs, PubPcs, DropPcs, RetirePcs
  <2>3. TokenInv'
    BY <1>7, <2>1 DEF Inv, CoreType, LockInv, TokenInv, OwnerInv, SeenInv,
       ClaimGuard, Pcs, OpenPcs, LoopPcs, ClaimPcs, TakePcs, OutcomePcs, PubPcs,
       DropPcs, RetirePcs
  <2>4. SeenInv'
    BY <1>7, <2>1 DEF Inv, CoreType, LockInv, SeenInv, OwnerInv, SnapshotOf, NoSnap,
       ClaimGuard, Pcs, OpenPcs, LoopPcs, ClaimPcs, TakePcs, OutcomePcs, PubPcs,
       DropPcs, RetirePcs
  <2>5. OwnerInv'
    BY <1>7, <2>1 DEF Inv, CoreType, LockInv, TokenInv, SeenInv, OwnerInv,
       ClaimGuard, Pcs, OpenPcs, LoopPcs, ClaimPcs, TakePcs, OutcomePcs, PubPcs,
       DropPcs, RetirePcs
  <2>6. CommitInv'
    BY <1>7, <2>1 DEF Inv, CoreType, LockInv, TokenInv, OwnerInv, CommitInv,
       ClaimGuard, Pcs, OpenPcs, LoopPcs, ClaimPcs, TakePcs, OutcomePcs, PubPcs,
       DropPcs, RetirePcs
  <2> QED
    BY <2>1, <2>2, <2>3, <2>4, <2>5, <2>6 DEF Inv
<1>8. ASSUME NEW p \in Procs, TakeGuard(p) PROVE Inv'
  <2>1. CoreType'
    BY <1>8 DEF Inv, CoreType, TakeGuard, Pcs, OpenPcs, LoopPcs, ClaimPcs, TakePcs,
       OutcomePcs, PubPcs, DropPcs, RetirePcs
  <2>2. LockInv'
    BY <1>8, <2>1 DEF Inv, CoreType, LockInv, TakeGuard, Pcs, OpenPcs, LoopPcs,
       ClaimPcs, TakePcs, OutcomePcs, PubPcs, DropPcs, RetirePcs
  <2>3. TokenInv'
    BY <1>8, <2>1 DEF Inv, CoreType, LockInv, TokenInv, OwnerInv, SeenInv,
       TakeGuard, Pcs, OpenPcs, LoopPcs, ClaimPcs, TakePcs, OutcomePcs, PubPcs,
       DropPcs, RetirePcs
  <2>4. SeenInv'
    BY <1>8, <2>1 DEF Inv, CoreType, LockInv, SeenInv, OwnerInv, SnapshotOf, NoSnap,
       TakeGuard, Pcs, OpenPcs, LoopPcs, ClaimPcs, TakePcs, OutcomePcs, PubPcs,
       DropPcs, RetirePcs
  <2>5. OwnerInv'
    BY <1>8, <2>1 DEF Inv, CoreType, LockInv, TokenInv, SeenInv, OwnerInv,
       TakeGuard, Pcs, OpenPcs, LoopPcs, ClaimPcs, TakePcs, OutcomePcs, PubPcs,
       DropPcs, RetirePcs
  <2>6. CommitInv'
    BY <1>8, <2>1 DEF Inv, CoreType, LockInv, TokenInv, OwnerInv, CommitInv,
       TakeGuard, Pcs, OpenPcs, LoopPcs, ClaimPcs, TakePcs, OutcomePcs, PubPcs,
       DropPcs, RetirePcs
  <2> QED
    BY <2>1, <2>2, <2>3, <2>4, <2>5, <2>6 DEF Inv
<1>9. ASSUME NEW p \in Procs, LockedRead(p) PROVE Inv'
  <2>1. CoreType'
    BY <1>9 DEF Inv, CoreType, LockedRead, Pcs, OpenPcs, LoopPcs, ClaimPcs, TakePcs,
       OutcomePcs, PubPcs, DropPcs, RetirePcs
  <2>2. LockInv'
    BY <1>9, <2>1 DEF Inv, CoreType, LockInv, LockedRead, Pcs, OpenPcs, LoopPcs,
       ClaimPcs, TakePcs, OutcomePcs, PubPcs, DropPcs, RetirePcs
  <2>3. TokenInv'
    BY <1>9, <2>1 DEF Inv, CoreType, LockInv, TokenInv, OwnerInv, SeenInv,
       LockedRead, Pcs, OpenPcs, LoopPcs, ClaimPcs, TakePcs, OutcomePcs, PubPcs,
       DropPcs, RetirePcs
  <2>4. SeenInv'
    BY <1>9, <2>1 DEF Inv, CoreType, LockInv, SeenInv, OwnerInv, SnapshotOf, NoSnap,
       LockedRead, Pcs, OpenPcs, LoopPcs, ClaimPcs, TakePcs, OutcomePcs, PubPcs,
       DropPcs, RetirePcs
  <2>5. OwnerInv'
    BY <1>9, <2>1 DEF Inv, CoreType, LockInv, TokenInv, SeenInv, OwnerInv,
       LockedRead, Pcs, OpenPcs, LoopPcs, ClaimPcs, TakePcs, OutcomePcs, PubPcs,
       DropPcs, RetirePcs
  <2>6. CommitInv'
    BY <1>9, <2>1 DEF Inv, CoreType, LockInv, TokenInv, OwnerInv, CommitInv,
       LockedRead, Pcs, OpenPcs, LoopPcs, ClaimPcs, TakePcs, OutcomePcs, PubPcs,
       DropPcs, RetirePcs
  <2> QED
    BY <2>1, <2>2, <2>3, <2>4, <2>5, <2>6 DEF Inv
<1>10. ASSUME NEW p \in Procs, ClaimSnap(p) PROVE Inv'
  <2>1. CoreType'
    BY <1>10 DEF Inv, CoreType, ClaimSnap, Pcs, OpenPcs, LoopPcs, ClaimPcs, TakePcs,
       OutcomePcs, PubPcs, DropPcs, RetirePcs
  <2>2. LockInv'
    BY <1>10, <2>1 DEF Inv, CoreType, LockInv, ClaimSnap, Pcs, OpenPcs, LoopPcs,
       ClaimPcs, TakePcs, OutcomePcs, PubPcs, DropPcs, RetirePcs
  <2>3. TokenInv'
    BY <1>10, <2>1 DEF Inv, CoreType, LockInv, TokenInv, OwnerInv, SeenInv,
       ClaimSnap, Pcs, OpenPcs, LoopPcs, ClaimPcs, TakePcs, OutcomePcs, PubPcs,
       DropPcs, RetirePcs
  <2>4. SeenInv'
    BY <1>10, <2>1 DEF Inv, CoreType, LockInv, SeenInv, OwnerInv, SnapshotOf,
       NoSnap, ClaimSnap, Pcs, OpenPcs, LoopPcs, ClaimPcs, TakePcs, OutcomePcs,
       PubPcs, DropPcs, RetirePcs
  <2>5. OwnerInv'
    BY <1>10, <2>1 DEF Inv, CoreType, LockInv, TokenInv, SeenInv, OwnerInv,
       ClaimSnap, Pcs, OpenPcs, LoopPcs, ClaimPcs, TakePcs, OutcomePcs, PubPcs,
       DropPcs, RetirePcs
  <2>6. CommitInv'
    BY <1>10, <2>1 DEF Inv, CoreType, LockInv, TokenInv, OwnerInv, CommitInv,
       ClaimSnap, Pcs, OpenPcs, LoopPcs, ClaimPcs, TakePcs, OutcomePcs, PubPcs,
       DropPcs, RetirePcs
  <2> QED
    BY <2>1, <2>2, <2>3, <2>4, <2>5, <2>6 DEF Inv
<1>11. ASSUME NEW p \in Procs, TakeSnap(p) PROVE Inv'
  <2>1. CoreType'
    BY <1>11 DEF Inv, CoreType, TakeSnap, Pcs, OpenPcs, LoopPcs, ClaimPcs, TakePcs,
       OutcomePcs, PubPcs, DropPcs, RetirePcs
  <2>2. LockInv'
    BY <1>11, <2>1 DEF Inv, CoreType, LockInv, TakeSnap, Pcs, OpenPcs, LoopPcs,
       ClaimPcs, TakePcs, OutcomePcs, PubPcs, DropPcs, RetirePcs
  <2>3. TokenInv'
    BY <1>11, <2>1 DEF Inv, CoreType, LockInv, TokenInv, OwnerInv, SeenInv,
       TakeSnap, Pcs, OpenPcs, LoopPcs, ClaimPcs, TakePcs, OutcomePcs, PubPcs,
       DropPcs, RetirePcs
  <2>4. SeenInv'
    BY <1>11, <2>1 DEF Inv, CoreType, LockInv, SeenInv, OwnerInv, SnapshotOf,
       NoSnap, TakeSnap, Pcs, OpenPcs, LoopPcs, ClaimPcs, TakePcs, OutcomePcs,
       PubPcs, DropPcs, RetirePcs
  <2>5. OwnerInv'
    BY <1>11, <2>1 DEF Inv, CoreType, LockInv, TokenInv, SeenInv, OwnerInv,
       TakeSnap, Pcs, OpenPcs, LoopPcs, ClaimPcs, TakePcs, OutcomePcs, PubPcs,
       DropPcs, RetirePcs
  <2>6. CommitInv'
    BY <1>11, <2>1 DEF Inv, CoreType, LockInv, TokenInv, OwnerInv, CommitInv,
       TakeSnap, Pcs, OpenPcs, LoopPcs, ClaimPcs, TakePcs, OutcomePcs, PubPcs,
       DropPcs, RetirePcs
  <2> QED
    BY <2>1, <2>2, <2>3, <2>4, <2>5, <2>6 DEF Inv
<1>12. ASSUME NEW p \in Procs, ClaimBeat(p) PROVE Inv'
  <2>1. CoreType'
    BY <1>12, FreshTokenFact DEF Inv, CoreType, ClaimBeat, Pcs, OpenPcs, LoopPcs,
       ClaimPcs, TakePcs, OutcomePcs, PubPcs, DropPcs, RetirePcs
  <2>2. LockInv'
    BY <1>12, FreshTokenFact, <2>1 DEF Inv, CoreType, LockInv, ClaimBeat, Pcs,
       OpenPcs, LoopPcs, ClaimPcs, TakePcs, OutcomePcs, PubPcs, DropPcs, RetirePcs
  <2>3. TokenInv'
    BY <1>12, FreshTokenFact, <2>1 DEF Inv, CoreType, LockInv, TokenInv, OwnerInv,
       SeenInv, ClaimBeat, Pcs, OpenPcs, LoopPcs, ClaimPcs, TakePcs, OutcomePcs,
       PubPcs, DropPcs, RetirePcs
  <2>4. SeenInv'
    BY <1>12, FreshTokenFact, <2>1 DEF Inv, CoreType, LockInv, SeenInv, OwnerInv,
       SnapshotOf, NoSnap, ClaimBeat, Pcs, OpenPcs, LoopPcs, ClaimPcs, TakePcs,
       OutcomePcs, PubPcs, DropPcs, RetirePcs
  <2>5. OwnerInv'
    BY <1>12, FreshTokenFact, <2>1 DEF Inv, CoreType, LockInv, TokenInv, SeenInv,
       OwnerInv, ClaimBeat, Pcs, OpenPcs, LoopPcs, ClaimPcs, TakePcs, OutcomePcs,
       PubPcs, DropPcs, RetirePcs
  <2>6. CommitInv'
    BY <1>12, FreshTokenFact, <2>1 DEF Inv, CoreType, LockInv, TokenInv, OwnerInv,
       CommitInv, ClaimBeat, Pcs, OpenPcs, LoopPcs, ClaimPcs, TakePcs, OutcomePcs,
       PubPcs, DropPcs, RetirePcs
  <2> QED
    BY <2>1, <2>2, <2>3, <2>4, <2>5, <2>6 DEF Inv
<1>13. ASSUME NEW p \in Procs, ClaimCreate(p) PROVE Inv'
  <2>1. CoreType'
    BY <1>13 DEF Inv, CoreType, ClaimCreate, Pcs, OpenPcs, LoopPcs, ClaimPcs,
       TakePcs, OutcomePcs, PubPcs, DropPcs, RetirePcs
  <2>2. LockInv'
    BY <1>13, <2>1 DEF Inv, CoreType, LockInv, ClaimCreate, Pcs, OpenPcs, LoopPcs,
       ClaimPcs, TakePcs, OutcomePcs, PubPcs, DropPcs, RetirePcs
  <2>3. TokenInv'
    BY <1>13, <2>1 DEF Inv, CoreType, LockInv, TokenInv, OwnerInv, SeenInv,
       ClaimCreate, Pcs, OpenPcs, LoopPcs, ClaimPcs, TakePcs, OutcomePcs, PubPcs,
       DropPcs, RetirePcs
  <2>4. SeenInv'
    BY <1>13, <2>1 DEF Inv, CoreType, LockInv, SeenInv, OwnerInv, SnapshotOf,
       NoSnap, ClaimCreate, Pcs, OpenPcs, LoopPcs, ClaimPcs, TakePcs, OutcomePcs,
       PubPcs, DropPcs, RetirePcs
  <2>5. OwnerInv'
    BY <1>13, <2>1 DEF Inv, CoreType, LockInv, TokenInv, SeenInv, OwnerInv,
       ClaimCreate, Pcs, OpenPcs, LoopPcs, ClaimPcs, TakePcs, OutcomePcs, PubPcs,
       DropPcs, RetirePcs
  <2>6. CommitInv'
    BY <1>13, <2>1 DEF Inv, CoreType, LockInv, TokenInv, OwnerInv, CommitInv,
       ClaimCreate, Pcs, OpenPcs, LoopPcs, ClaimPcs, TakePcs, OutcomePcs, PubPcs,
       DropPcs, RetirePcs
  <2> QED
    BY <2>1, <2>2, <2>3, <2>4, <2>5, <2>6 DEF Inv
<1>14. ASSUME NEW p \in Procs, ClaimWrite(p) PROVE Inv'
  <2>1. CoreType'
    BY <1>14 DEF Inv, CoreType, TokenInv, SeenInv, OwnerInv, ClaimWrite, Pcs,
       OpenPcs, LoopPcs, ClaimPcs, TakePcs, OutcomePcs, PubPcs, DropPcs, RetirePcs
  <2>2. LockInv'
    BY <1>14, <2>1 DEF Inv, CoreType, LockInv, ClaimWrite, Pcs, OpenPcs, LoopPcs,
       ClaimPcs, TakePcs, OutcomePcs, PubPcs, DropPcs, RetirePcs
  <2>3. TokenInv'
    BY <1>14, <2>1 DEF Inv, CoreType, LockInv, TokenInv, OwnerInv, SeenInv,
       ClaimWrite, Pcs, OpenPcs, LoopPcs, ClaimPcs, TakePcs, OutcomePcs, PubPcs,
       DropPcs, RetirePcs
  <2>4. SeenInv'
    BY <1>14, <2>1 DEF Inv, CoreType, LockInv, SeenInv, OwnerInv, SnapshotOf,
       NoSnap, ClaimWrite, Pcs, OpenPcs, LoopPcs, ClaimPcs, TakePcs, OutcomePcs,
       PubPcs, DropPcs, RetirePcs
  <2>5. OwnerInv'
    BY <1>14, <2>1 DEF Inv, CoreType, LockInv, TokenInv, SeenInv, OwnerInv,
       ClaimWrite, Pcs, OpenPcs, LoopPcs, ClaimPcs, TakePcs, OutcomePcs, PubPcs,
       DropPcs, RetirePcs
  <2>6. CommitInv'
    BY <1>14, <2>1 DEF Inv, CoreType, LockInv, TokenInv, OwnerInv, CommitInv,
       ClaimWrite, Pcs, OpenPcs, LoopPcs, ClaimPcs, TakePcs, OutcomePcs, PubPcs,
       DropPcs, RetirePcs
  <2> QED
    BY <2>1, <2>2, <2>3, <2>4, <2>5, <2>6 DEF Inv
<1>15. ASSUME NEW p \in Procs, ClaimOwner(p) PROVE Inv'
  <2>1. CoreType'
    BY <1>15 DEF Inv, CoreType, ClaimOwner, Pcs, OpenPcs, LoopPcs, ClaimPcs,
       TakePcs, OutcomePcs, PubPcs, DropPcs, RetirePcs
  <2>2. LockInv'
    BY <1>15, <2>1 DEF Inv, CoreType, LockInv, ClaimOwner, Pcs, OpenPcs, LoopPcs,
       ClaimPcs, TakePcs, OutcomePcs, PubPcs, DropPcs, RetirePcs
  <2>3. TokenInv'
    BY <1>15, <2>1 DEF Inv, CoreType, LockInv, TokenInv, OwnerInv, SeenInv,
       ClaimOwner, Pcs, OpenPcs, LoopPcs, ClaimPcs, TakePcs, OutcomePcs, PubPcs,
       DropPcs, RetirePcs
  <2>4. SeenInv'
    BY <1>15, <2>1 DEF Inv, CoreType, LockInv, SeenInv, OwnerInv, SnapshotOf,
       NoSnap, ClaimOwner, Pcs, OpenPcs, LoopPcs, ClaimPcs, TakePcs, OutcomePcs,
       PubPcs, DropPcs, RetirePcs
  <2>5. OwnerInv'
    BY <1>15, <2>1 DEF Inv, CoreType, LockInv, TokenInv, SeenInv, OwnerInv,
       ClaimOwner, Pcs, OpenPcs, LoopPcs, ClaimPcs, TakePcs, OutcomePcs, PubPcs,
       DropPcs, RetirePcs
  <2>6. CommitInv'
    BY <1>15, <2>1 DEF Inv, CoreType, LockInv, TokenInv, OwnerInv, CommitInv,
       ClaimOwner, Pcs, OpenPcs, LoopPcs, ClaimPcs, TakePcs, OutcomePcs, PubPcs,
       DropPcs, RetirePcs
  <2> QED
    BY <2>1, <2>2, <2>3, <2>4, <2>5, <2>6 DEF Inv
<1>16. ASSUME NEW p \in Procs, RetireRename(p) PROVE Inv'
  <2>1. CoreType'
    BY <1>16 DEF Inv, CoreType, TokenInv, SeenInv, OwnerInv, RetireRename, Pcs,
       OpenPcs, LoopPcs, ClaimPcs, TakePcs, OutcomePcs, PubPcs, DropPcs, RetirePcs
  <2>2. LockInv'
    BY <1>16, <2>1 DEF Inv, CoreType, LockInv, RetireRename, Pcs, OpenPcs, LoopPcs,
       ClaimPcs, TakePcs, OutcomePcs, PubPcs, DropPcs, RetirePcs
  <2>3. TokenInv'
    BY <1>16, <2>1 DEF Inv, CoreType, LockInv, TokenInv, OwnerInv, SeenInv,
       RetireRename, Pcs, OpenPcs, LoopPcs, ClaimPcs, TakePcs, OutcomePcs, PubPcs,
       DropPcs, RetirePcs
  <2>4. SeenInv'
    BY <1>16, <2>1 DEF Inv, CoreType, LockInv, SeenInv, OwnerInv, SnapshotOf,
       NoSnap, RetireRename, Pcs, OpenPcs, LoopPcs, ClaimPcs, TakePcs, OutcomePcs,
       PubPcs, DropPcs, RetirePcs
  <2>5. OwnerInv'
    BY <1>16, <2>1 DEF Inv, CoreType, LockInv, TokenInv, SeenInv, OwnerInv,
       RetireRename, Pcs, OpenPcs, LoopPcs, ClaimPcs, TakePcs, OutcomePcs, PubPcs,
       DropPcs, RetirePcs
  <2>6. CommitInv'
    BY <1>16, <2>1 DEF Inv, CoreType, LockInv, TokenInv, OwnerInv, CommitInv,
       RetireRename, Pcs, OpenPcs, LoopPcs, ClaimPcs, TakePcs, OutcomePcs, PubPcs,
       DropPcs, RetirePcs
  <2> QED
    BY <2>1, <2>2, <2>3, <2>4, <2>5, <2>6 DEF Inv
<1>17. ASSUME NEW p \in Procs, RetireReap(p) PROVE Inv'
  <2>1. CoreType'
    BY <1>17 DEF Inv, CoreType, RetireReap, Pcs, OpenPcs, LoopPcs, ClaimPcs,
       TakePcs, OutcomePcs, PubPcs, DropPcs, RetirePcs
  <2>2. LockInv'
    BY <1>17, <2>1 DEF Inv, CoreType, LockInv, RetireReap, Pcs, OpenPcs, LoopPcs,
       ClaimPcs, TakePcs, OutcomePcs, PubPcs, DropPcs, RetirePcs
  <2>3. TokenInv'
    BY <1>17, <2>1, SMTT(30) DEF Inv, CoreType, LockInv, TokenInv, OwnerInv, SeenInv,
       RetireReap, Pcs, OpenPcs, LoopPcs, ClaimPcs, TakePcs, OutcomePcs, PubPcs,
       DropPcs, RetirePcs
  <2>4. SeenInv'
    BY <1>17, <2>1 DEF Inv, CoreType, LockInv, SeenInv, OwnerInv, SnapshotOf,
       NoSnap, RetireReap, Pcs, OpenPcs, LoopPcs, ClaimPcs, TakePcs, OutcomePcs,
       PubPcs, DropPcs, RetirePcs
  <2>5. OwnerInv'
    BY <1>17, <2>1 DEF Inv, CoreType, LockInv, TokenInv, SeenInv, OwnerInv,
       RetireReap, Pcs, OpenPcs, LoopPcs, ClaimPcs, TakePcs, OutcomePcs, PubPcs,
       DropPcs, RetirePcs
  <2>6. CommitInv'
    BY <1>17, <2>1 DEF Inv, CoreType, LockInv, TokenInv, OwnerInv, CommitInv,
       RetireReap, Pcs, OpenPcs, LoopPcs, ClaimPcs, TakePcs, OutcomePcs, PubPcs,
       DropPcs, RetirePcs
  <2> QED
    BY <2>1, <2>2, <2>3, <2>4, <2>5, <2>6 DEF Inv
<1>18. ASSUME NEW p \in Procs, BeatCheck(p) PROVE Inv'
  <2>1. CoreType'
    BY <1>18 DEF Inv, CoreType, BeatCheck, Pcs, OpenPcs, LoopPcs, ClaimPcs, TakePcs,
       OutcomePcs, PubPcs, DropPcs, RetirePcs
  <2>2. LockInv'
    BY <1>18, <2>1 DEF Inv, CoreType, LockInv, BeatCheck, Pcs, OpenPcs, LoopPcs,
       ClaimPcs, TakePcs, OutcomePcs, PubPcs, DropPcs, RetirePcs
  <2>3. TokenInv'
    BY <1>18, <2>1 DEF Inv, CoreType, LockInv, TokenInv, OwnerInv, SeenInv,
       BeatCheck, Pcs, OpenPcs, LoopPcs, ClaimPcs, TakePcs, OutcomePcs, PubPcs,
       DropPcs, RetirePcs
  <2>4. SeenInv'
    BY <1>18, <2>1 DEF Inv, CoreType, LockInv, SeenInv, OwnerInv, SnapshotOf,
       NoSnap, BeatCheck, Pcs, OpenPcs, LoopPcs, ClaimPcs, TakePcs, OutcomePcs,
       PubPcs, DropPcs, RetirePcs
  <2>5. OwnerInv'
    BY <1>18, <2>1 DEF Inv, CoreType, LockInv, TokenInv, SeenInv, OwnerInv,
       BeatCheck, Pcs, OpenPcs, LoopPcs, ClaimPcs, TakePcs, OutcomePcs, PubPcs,
       DropPcs, RetirePcs
  <2>6. CommitInv'
    BY <1>18, <2>1 DEF Inv, CoreType, LockInv, TokenInv, OwnerInv, CommitInv,
       BeatCheck, Pcs, OpenPcs, LoopPcs, ClaimPcs, TakePcs, OutcomePcs, PubPcs,
       DropPcs, RetirePcs
  <2> QED
    BY <2>1, <2>2, <2>3, <2>4, <2>5, <2>6 DEF Inv
<1>19. ASSUME NEW p \in Procs, BeatAppend(p) PROVE Inv'
  <2>1. CoreType'
    BY <1>19 DEF Inv, CoreType, BeatAppend, Pcs, OpenPcs, LoopPcs, ClaimPcs,
       TakePcs, OutcomePcs, PubPcs, DropPcs, RetirePcs
  <2>2. LockInv'
    BY <1>19, <2>1 DEF Inv, CoreType, LockInv, BeatAppend, Pcs, OpenPcs, LoopPcs,
       ClaimPcs, TakePcs, OutcomePcs, PubPcs, DropPcs, RetirePcs
  <2>3. TokenInv'
    BY <1>19, <2>1 DEF Inv, CoreType, LockInv, TokenInv, OwnerInv, SeenInv,
       BeatAppend, Pcs, OpenPcs, LoopPcs, ClaimPcs, TakePcs, OutcomePcs, PubPcs,
       DropPcs, RetirePcs
  <2>4. SeenInv'
    BY <1>19, <2>1 DEF Inv, CoreType, LockInv, SeenInv, OwnerInv, SnapshotOf,
       NoSnap, BeatAppend, Pcs, OpenPcs, LoopPcs, ClaimPcs, TakePcs, OutcomePcs,
       PubPcs, DropPcs, RetirePcs
  <2>5. OwnerInv'
    BY <1>19, <2>1 DEF Inv, CoreType, LockInv, TokenInv, SeenInv, OwnerInv,
       BeatAppend, Pcs, OpenPcs, LoopPcs, ClaimPcs, TakePcs, OutcomePcs, PubPcs,
       DropPcs, RetirePcs
  <2>6. CommitInv'
    BY <1>19, <2>1 DEF Inv, CoreType, LockInv, TokenInv, OwnerInv, CommitInv,
       BeatAppend, Pcs, OpenPcs, LoopPcs, ClaimPcs, TakePcs, OutcomePcs, PubPcs,
       DropPcs, RetirePcs
  <2> QED
    BY <2>1, <2>2, <2>3, <2>4, <2>5, <2>6 DEF Inv
<1>20. ASSUME NEW p \in Procs, OwnerHeartbeat(p) PROVE Inv'
  <2>1. CoreType'
    BY <1>20 DEF Inv, CoreType, OwnerHeartbeat, Pcs, OpenPcs, LoopPcs, ClaimPcs,
       TakePcs, OutcomePcs, PubPcs, DropPcs, RetirePcs
  <2>2. LockInv'
    BY <1>20, <2>1 DEF Inv, CoreType, LockInv, OwnerHeartbeat, Pcs, OpenPcs,
       LoopPcs, ClaimPcs, TakePcs, OutcomePcs, PubPcs, DropPcs, RetirePcs
  <2>3. TokenInv'
    BY <1>20, <2>1 DEF Inv, CoreType, LockInv, TokenInv, OwnerInv, SeenInv,
       OwnerHeartbeat, Pcs, OpenPcs, LoopPcs, ClaimPcs, TakePcs, OutcomePcs, PubPcs,
       DropPcs, RetirePcs
  <2>4. SeenInv'
    BY <1>20, <2>1 DEF Inv, CoreType, LockInv, SeenInv, OwnerInv, SnapshotOf,
       NoSnap, OwnerHeartbeat, Pcs, OpenPcs, LoopPcs, ClaimPcs, TakePcs, OutcomePcs,
       PubPcs, DropPcs, RetirePcs
  <2>5. OwnerInv'
    BY <1>20, <2>1 DEF Inv, CoreType, LockInv, TokenInv, SeenInv, OwnerInv,
       OwnerHeartbeat, Pcs, OpenPcs, LoopPcs, ClaimPcs, TakePcs, OutcomePcs, PubPcs,
       DropPcs, RetirePcs
  <2>6. CommitInv'
    BY <1>20, <2>1 DEF Inv, CoreType, LockInv, TokenInv, OwnerInv, CommitInv,
       OwnerHeartbeat, Pcs, OpenPcs, LoopPcs, ClaimPcs, TakePcs, OutcomePcs, PubPcs,
       DropPcs, RetirePcs
  <2> QED
    BY <2>1, <2>2, <2>3, <2>4, <2>5, <2>6 DEF Inv
<1>21. ASSUME NEW p \in Procs, PublishStart(p) PROVE Inv'
  <2>1. CoreType'
    BY <1>21 DEF Inv, CoreType, PublishStart, Pcs, OpenPcs, LoopPcs, ClaimPcs,
       TakePcs, OutcomePcs, PubPcs, DropPcs, RetirePcs
  <2>2. LockInv'
    BY <1>21, <2>1 DEF Inv, CoreType, LockInv, PublishStart, Pcs, OpenPcs, LoopPcs,
       ClaimPcs, TakePcs, OutcomePcs, PubPcs, DropPcs, RetirePcs
  <2>3. TokenInv'
    BY <1>21, <2>1 DEF Inv, CoreType, LockInv, TokenInv, OwnerInv, SeenInv,
       PublishStart, Pcs, OpenPcs, LoopPcs, ClaimPcs, TakePcs, OutcomePcs, PubPcs,
       DropPcs, RetirePcs
  <2>4. SeenInv'
    BY <1>21, <2>1 DEF Inv, CoreType, LockInv, SeenInv, OwnerInv, SnapshotOf,
       NoSnap, PublishStart, Pcs, OpenPcs, LoopPcs, ClaimPcs, TakePcs, OutcomePcs,
       PubPcs, DropPcs, RetirePcs
  <2>5. OwnerInv'
    BY <1>21, <2>1 DEF Inv, CoreType, LockInv, TokenInv, SeenInv, OwnerInv,
       PublishStart, Pcs, OpenPcs, LoopPcs, ClaimPcs, TakePcs, OutcomePcs, PubPcs,
       DropPcs, RetirePcs
  <2>6. CommitInv'
    BY <1>21, <2>1 DEF Inv, CoreType, LockInv, TokenInv, OwnerInv, CommitInv,
       PublishStart, Pcs, OpenPcs, LoopPcs, ClaimPcs, TakePcs, OutcomePcs, PubPcs,
       DropPcs, RetirePcs
  <2> QED
    BY <2>1, <2>2, <2>3, <2>4, <2>5, <2>6 DEF Inv
<1>22. ASSUME NEW p \in Procs, PublishLock(p) PROVE Inv'
  <2>1. CoreType'
    BY <1>22 DEF Inv, CoreType, PublishLock, Pcs, OpenPcs, LoopPcs, ClaimPcs,
       TakePcs, OutcomePcs, PubPcs, DropPcs, RetirePcs
  <2>2. LockInv'
    BY <1>22, <2>1 DEF Inv, CoreType, LockInv, PublishLock, Pcs, OpenPcs, LoopPcs,
       ClaimPcs, TakePcs, OutcomePcs, PubPcs, DropPcs, RetirePcs
  <2>3. TokenInv'
    BY <1>22, <2>1 DEF Inv, CoreType, LockInv, TokenInv, OwnerInv, SeenInv,
       PublishLock, Pcs, OpenPcs, LoopPcs, ClaimPcs, TakePcs, OutcomePcs, PubPcs,
       DropPcs, RetirePcs
  <2>4. SeenInv'
    BY <1>22, <2>1 DEF Inv, CoreType, LockInv, SeenInv, OwnerInv, SnapshotOf,
       NoSnap, PublishLock, Pcs, OpenPcs, LoopPcs, ClaimPcs, TakePcs, OutcomePcs,
       PubPcs, DropPcs, RetirePcs
  <2>5. OwnerInv'
    BY <1>22, <2>1 DEF Inv, CoreType, LockInv, TokenInv, SeenInv, OwnerInv,
       PublishLock, Pcs, OpenPcs, LoopPcs, ClaimPcs, TakePcs, OutcomePcs, PubPcs,
       DropPcs, RetirePcs
  <2>6. CommitInv'
    BY <1>22, <2>1 DEF Inv, CoreType, LockInv, TokenInv, OwnerInv, CommitInv,
       PublishLock, Pcs, OpenPcs, LoopPcs, ClaimPcs, TakePcs, OutcomePcs, PubPcs,
       DropPcs, RetirePcs
  <2> QED
    BY <2>1, <2>2, <2>3, <2>4, <2>5, <2>6 DEF Inv
<1>23. ASSUME NEW p \in Procs, PublishCheck(p) PROVE Inv'
  <2>1. CoreType'
    BY <1>23 DEF Inv, CoreType, PublishCheck, Pcs, OpenPcs, LoopPcs, ClaimPcs,
       TakePcs, OutcomePcs, PubPcs, DropPcs, RetirePcs
  <2>2. LockInv'
    BY <1>23, <2>1 DEF Inv, CoreType, LockInv, PublishCheck, Pcs, OpenPcs, LoopPcs,
       ClaimPcs, TakePcs, OutcomePcs, PubPcs, DropPcs, RetirePcs
  <2>3. TokenInv'
    BY <1>23, <2>1 DEF Inv, CoreType, LockInv, TokenInv, OwnerInv, SeenInv,
       PublishCheck, Pcs, OpenPcs, LoopPcs, ClaimPcs, TakePcs, OutcomePcs, PubPcs,
       DropPcs, RetirePcs
  <2>4. SeenInv'
    BY <1>23, <2>1 DEF Inv, CoreType, LockInv, SeenInv, OwnerInv, SnapshotOf,
       NoSnap, PublishCheck, Pcs, OpenPcs, LoopPcs, ClaimPcs, TakePcs, OutcomePcs,
       PubPcs, DropPcs, RetirePcs
  <2>5. OwnerInv'
    BY <1>23, <2>1 DEF Inv, CoreType, LockInv, TokenInv, SeenInv, OwnerInv,
       PublishCheck, Pcs, OpenPcs, LoopPcs, ClaimPcs, TakePcs, OutcomePcs, PubPcs,
       DropPcs, RetirePcs
  <2>6. CommitInv'
    BY <1>23, <2>1 DEF Inv, CoreType, LockInv, TokenInv, OwnerInv, CommitInv,
       PublishCheck, Pcs, OpenPcs, LoopPcs, ClaimPcs, TakePcs, OutcomePcs, PubPcs,
       DropPcs, RetirePcs
  <2> QED
    BY <2>1, <2>2, <2>3, <2>4, <2>5, <2>6 DEF Inv
<1>24. ASSUME NEW p \in Procs, PublishCommit(p) PROVE Inv'
  <2>1. CoreType'
    BY <1>24 DEF Inv, CoreType, TokenInv, SeenInv, OwnerInv, PublishCommit, Pcs,
       OpenPcs, LoopPcs, ClaimPcs, TakePcs, OutcomePcs, PubPcs, DropPcs, RetirePcs
  <2>2. LockInv'
    BY <1>24, <2>1 DEF Inv, CoreType, LockInv, PublishCommit, Pcs, OpenPcs, LoopPcs,
       ClaimPcs, TakePcs, OutcomePcs, PubPcs, DropPcs, RetirePcs
  <2>3. TokenInv'
    BY <1>24, <2>1 DEF Inv, CoreType, LockInv, TokenInv, OwnerInv, SeenInv,
       PublishCommit, Pcs, OpenPcs, LoopPcs, ClaimPcs, TakePcs, OutcomePcs, PubPcs,
       DropPcs, RetirePcs
  <2>4. SeenInv'
    BY <1>24, <2>1 DEF Inv, CoreType, LockInv, SeenInv, OwnerInv, SnapshotOf,
       NoSnap, PublishCommit, Pcs, OpenPcs, LoopPcs, ClaimPcs, TakePcs, OutcomePcs,
       PubPcs, DropPcs, RetirePcs
  <2>5. OwnerInv'
    BY <1>24, <2>1 DEF Inv, CoreType, LockInv, TokenInv, SeenInv, OwnerInv,
       PublishCommit, Pcs, OpenPcs, LoopPcs, ClaimPcs, TakePcs, OutcomePcs, PubPcs,
       DropPcs, RetirePcs
  <2>6. CommitInv'
    BY <1>24, <2>1 DEF Inv, CoreType, LockInv, TokenInv, OwnerInv, CommitInv,
       PublishCommit, Pcs, OpenPcs, LoopPcs, ClaimPcs, TakePcs, OutcomePcs, PubPcs,
       DropPcs, RetirePcs
  <2> QED
    BY <2>1, <2>2, <2>3, <2>4, <2>5, <2>6 DEF Inv
<1>25. ASSUME NEW p \in Procs, DropOwner(p) PROVE Inv'
  <2>1. CoreType'
    BY <1>25 DEF Inv, CoreType, DropOwner, Pcs, OpenPcs, LoopPcs, ClaimPcs, TakePcs,
       OutcomePcs, PubPcs, DropPcs, RetirePcs
  <2>2. LockInv'
    BY <1>25, <2>1 DEF Inv, CoreType, LockInv, DropOwner, Pcs, OpenPcs, LoopPcs,
       ClaimPcs, TakePcs, OutcomePcs, PubPcs, DropPcs, RetirePcs
  <2>3. TokenInv'
    BY <1>25, <2>1 DEF Inv, CoreType, LockInv, TokenInv, OwnerInv, SeenInv,
       DropOwner, Pcs, OpenPcs, LoopPcs, ClaimPcs, TakePcs, OutcomePcs, PubPcs,
       DropPcs, RetirePcs
  <2>4. SeenInv'
    BY <1>25, <2>1 DEF Inv, CoreType, LockInv, SeenInv, OwnerInv, SnapshotOf,
       NoSnap, DropOwner, Pcs, OpenPcs, LoopPcs, ClaimPcs, TakePcs, OutcomePcs,
       PubPcs, DropPcs, RetirePcs
  <2>5. OwnerInv'
    BY <1>25, <2>1 DEF Inv, CoreType, LockInv, TokenInv, SeenInv, OwnerInv,
       DropOwner, Pcs, OpenPcs, LoopPcs, ClaimPcs, TakePcs, OutcomePcs, PubPcs,
       DropPcs, RetirePcs
  <2>6. CommitInv'
    BY <1>25, <2>1 DEF Inv, CoreType, LockInv, TokenInv, OwnerInv, CommitInv,
       DropOwner, Pcs, OpenPcs, LoopPcs, ClaimPcs, TakePcs, OutcomePcs, PubPcs,
       DropPcs, RetirePcs
  <2> QED
    BY <2>1, <2>2, <2>3, <2>4, <2>5, <2>6 DEF Inv
<1>26. ASSUME NEW p \in Procs, Release(p) PROVE Inv'
  <2>1. CoreType'
    BY <1>26 DEF Inv, CoreType, Release, Pcs, OpenPcs, LoopPcs, ClaimPcs, TakePcs,
       OutcomePcs, PubPcs, DropPcs, RetirePcs
  <2>2. LockInv'
    BY <1>26, <2>1 DEF Inv, CoreType, LockInv, Release, Pcs, OpenPcs, LoopPcs,
       ClaimPcs, TakePcs, OutcomePcs, PubPcs, DropPcs, RetirePcs
  <2>3. TokenInv'
    BY <1>26, <2>1 DEF Inv, CoreType, LockInv, TokenInv, OwnerInv, SeenInv, Release,
       Pcs, OpenPcs, LoopPcs, ClaimPcs, TakePcs, OutcomePcs, PubPcs, DropPcs,
       RetirePcs
  <2>4. SeenInv'
    BY <1>26, <2>1 DEF Inv, CoreType, LockInv, SeenInv, OwnerInv, SnapshotOf,
       NoSnap, Release, Pcs, OpenPcs, LoopPcs, ClaimPcs, TakePcs, OutcomePcs,
       PubPcs, DropPcs, RetirePcs
  <2>5. OwnerInv'
    BY <1>26, <2>1 DEF Inv, CoreType, LockInv, TokenInv, SeenInv, OwnerInv, Release,
       Pcs, OpenPcs, LoopPcs, ClaimPcs, TakePcs, OutcomePcs, PubPcs, DropPcs,
       RetirePcs
  <2>6. CommitInv'
    BY <1>26, <2>1 DEF Inv, CoreType, LockInv, TokenInv, OwnerInv, CommitInv,
       Release, Pcs, OpenPcs, LoopPcs, ClaimPcs, TakePcs, OutcomePcs, PubPcs,
       DropPcs, RetirePcs
  <2> QED
    BY <2>1, <2>2, <2>3, <2>4, <2>5, <2>6 DEF Inv
<1>27. ASSUME NEW p \in Procs, IoError(p) PROVE Inv'
  <2>1. CoreType'
    BY <1>27 DEF Inv, CoreType, IoError, Pcs, OpenPcs, LoopPcs, ClaimPcs, TakePcs,
       OutcomePcs, PubPcs, DropPcs, RetirePcs
  <2>2. LockInv'
    BY <1>27, <2>1 DEF Inv, CoreType, LockInv, IoError, Pcs, OpenPcs, LoopPcs,
       ClaimPcs, TakePcs, OutcomePcs, PubPcs, DropPcs, RetirePcs
  <2>3. TokenInv'
    BY <1>27, <2>1 DEF Inv, CoreType, LockInv, TokenInv, OwnerInv, SeenInv, IoError,
       Pcs, OpenPcs, LoopPcs, ClaimPcs, TakePcs, OutcomePcs, PubPcs, DropPcs,
       RetirePcs
  <2>4. SeenInv'
    BY <1>27, <2>1 DEF Inv, CoreType, LockInv, SeenInv, OwnerInv, SnapshotOf,
       NoSnap, IoError, Pcs, OpenPcs, LoopPcs, ClaimPcs, TakePcs, OutcomePcs,
       PubPcs, DropPcs, RetirePcs
  <2>5. OwnerInv'
    BY <1>27, <2>1 DEF Inv, CoreType, LockInv, TokenInv, SeenInv, OwnerInv, IoError,
       Pcs, OpenPcs, LoopPcs, ClaimPcs, TakePcs, OutcomePcs, PubPcs, DropPcs,
       RetirePcs
  <2>6. CommitInv'
    BY <1>27, <2>1 DEF Inv, CoreType, LockInv, TokenInv, OwnerInv, CommitInv,
       IoError, Pcs, OpenPcs, LoopPcs, ClaimPcs, TakePcs, OutcomePcs, PubPcs,
       DropPcs, RetirePcs
  <2> QED
    BY <2>1, <2>2, <2>3, <2>4, <2>5, <2>6 DEF Inv
<1>28. ASSUME NEW p \in Procs, DropError(p) PROVE Inv'
  <2>1. CoreType'
    BY <1>28 DEF Inv, CoreType, DropError, Pcs, OpenPcs, LoopPcs, ClaimPcs, TakePcs,
       OutcomePcs, PubPcs, DropPcs, RetirePcs
  <2>2. LockInv'
    BY <1>28, <2>1 DEF Inv, CoreType, LockInv, DropError, Pcs, OpenPcs, LoopPcs,
       ClaimPcs, TakePcs, OutcomePcs, PubPcs, DropPcs, RetirePcs
  <2>3. TokenInv'
    BY <1>28, <2>1 DEF Inv, CoreType, LockInv, TokenInv, OwnerInv, SeenInv,
       DropError, Pcs, OpenPcs, LoopPcs, ClaimPcs, TakePcs, OutcomePcs, PubPcs,
       DropPcs, RetirePcs
  <2>4. SeenInv'
    BY <1>28, <2>1 DEF Inv, CoreType, LockInv, SeenInv, OwnerInv, SnapshotOf,
       NoSnap, DropError, Pcs, OpenPcs, LoopPcs, ClaimPcs, TakePcs, OutcomePcs,
       PubPcs, DropPcs, RetirePcs
  <2>5. OwnerInv'
    BY <1>28, <2>1 DEF Inv, CoreType, LockInv, TokenInv, SeenInv, OwnerInv,
       DropError, Pcs, OpenPcs, LoopPcs, ClaimPcs, TakePcs, OutcomePcs, PubPcs,
       DropPcs, RetirePcs
  <2>6. CommitInv'
    BY <1>28, <2>1 DEF Inv, CoreType, LockInv, TokenInv, OwnerInv, CommitInv,
       DropError, Pcs, OpenPcs, LoopPcs, ClaimPcs, TakePcs, OutcomePcs, PubPcs,
       DropPcs, RetirePcs
  <2> QED
    BY <2>1, <2>2, <2>3, <2>4, <2>5, <2>6 DEF Inv
<1>29. ASSUME NEW p \in Procs, Return(p) PROVE Inv'
  <2>1. CoreType'
    BY <1>29 DEF Inv, CoreType, Return, Pcs, OpenPcs, LoopPcs, ClaimPcs, TakePcs,
       OutcomePcs, PubPcs, DropPcs, RetirePcs
  <2>2. LockInv'
    BY <1>29, <2>1 DEF Inv, CoreType, LockInv, Return, Pcs, OpenPcs, LoopPcs,
       ClaimPcs, TakePcs, OutcomePcs, PubPcs, DropPcs, RetirePcs
  <2>3. TokenInv'
    BY <1>29, <2>1 DEF Inv, CoreType, LockInv, TokenInv, OwnerInv, SeenInv, Return,
       Pcs, OpenPcs, LoopPcs, ClaimPcs, TakePcs, OutcomePcs, PubPcs, DropPcs,
       RetirePcs
  <2>4. SeenInv'
    BY <1>29, <2>1 DEF Inv, CoreType, LockInv, SeenInv, OwnerInv, SnapshotOf,
       NoSnap, Return, Pcs, OpenPcs, LoopPcs, ClaimPcs, TakePcs, OutcomePcs, PubPcs,
       DropPcs, RetirePcs
  <2>5. OwnerInv'
    BY <1>29, <2>1 DEF Inv, CoreType, LockInv, TokenInv, SeenInv, OwnerInv, Return,
       Pcs, OpenPcs, LoopPcs, ClaimPcs, TakePcs, OutcomePcs, PubPcs, DropPcs,
       RetirePcs
  <2>6. CommitInv'
    BY <1>29, <2>1 DEF Inv, CoreType, LockInv, TokenInv, OwnerInv, CommitInv,
       Return, Pcs, OpenPcs, LoopPcs, ClaimPcs, TakePcs, OutcomePcs, PubPcs,
       DropPcs, RetirePcs
  <2> QED
    BY <2>1, <2>2, <2>3, <2>4, <2>5, <2>6 DEF Inv
<1>30. ASSUME NEW p \in Procs, Crash(p) PROVE Inv'
  <2>1. CoreType'
    BY <1>30 DEF Inv, CoreType, Crash, Pcs, OpenPcs, LoopPcs, ClaimPcs, TakePcs,
       OutcomePcs, PubPcs, DropPcs, RetirePcs
  <2>2. LockInv'
    BY <1>30, <2>1 DEF Inv, CoreType, LockInv, Crash, Pcs, OpenPcs, LoopPcs,
       ClaimPcs, TakePcs, OutcomePcs, PubPcs, DropPcs, RetirePcs
  <2>3. TokenInv'
    BY <1>30, <2>1 DEF Inv, CoreType, LockInv, TokenInv, OwnerInv, SeenInv, Crash,
       Pcs, OpenPcs, LoopPcs, ClaimPcs, TakePcs, OutcomePcs, PubPcs, DropPcs,
       RetirePcs
  <2>4. SeenInv'
    BY <1>30, <2>1 DEF Inv, CoreType, LockInv, SeenInv, OwnerInv, SnapshotOf,
       NoSnap, Crash, Pcs, OpenPcs, LoopPcs, ClaimPcs, TakePcs, OutcomePcs, PubPcs,
       DropPcs, RetirePcs
  <2>5. OwnerInv'
    BY <1>30, <2>1 DEF Inv, CoreType, LockInv, TokenInv, SeenInv, OwnerInv, Crash,
       Pcs, OpenPcs, LoopPcs, ClaimPcs, TakePcs, OutcomePcs, PubPcs, DropPcs,
       RetirePcs
  <2>6. CommitInv'
    BY <1>30, <2>1 DEF Inv, CoreType, LockInv, TokenInv, OwnerInv, CommitInv, Crash,
       Pcs, OpenPcs, LoopPcs, ClaimPcs, TakePcs, OutcomePcs, PubPcs, DropPcs,
       RetirePcs
  <2> QED
    BY <2>1, <2>2, <2>3, <2>4, <2>5, <2>6 DEF Inv
<1>31. CASE Tick
  <2>1. CoreType'
    BY <1>31 DEF Inv, CoreType, Tick, Pcs, OpenPcs, LoopPcs, ClaimPcs, TakePcs,
       OutcomePcs, PubPcs, DropPcs, RetirePcs
  <2>2. LockInv'
    BY <1>31, <2>1 DEF Inv, CoreType, LockInv, Tick, Pcs, OpenPcs, LoopPcs,
       ClaimPcs, TakePcs, OutcomePcs, PubPcs, DropPcs, RetirePcs
  <2>3. TokenInv'
    BY <1>31, <2>1 DEF Inv, CoreType, LockInv, TokenInv, OwnerInv, SeenInv, Tick,
       Pcs, OpenPcs, LoopPcs, ClaimPcs, TakePcs, OutcomePcs, PubPcs, DropPcs,
       RetirePcs
  <2>4. SeenInv'
    BY <1>31, <2>1 DEF Inv, CoreType, LockInv, SeenInv, OwnerInv, SnapshotOf,
       NoSnap, Tick, Pcs, OpenPcs, LoopPcs, ClaimPcs, TakePcs, OutcomePcs, PubPcs,
       DropPcs, RetirePcs
  <2>5. OwnerInv'
    BY <1>31, <2>1 DEF Inv, CoreType, LockInv, TokenInv, SeenInv, OwnerInv, Tick,
       Pcs, OpenPcs, LoopPcs, ClaimPcs, TakePcs, OutcomePcs, PubPcs, DropPcs,
       RetirePcs
  <2>6. CommitInv'
    BY <1>31, <2>1 DEF Inv, CoreType, LockInv, TokenInv, OwnerInv, CommitInv, Tick,
       Pcs, OpenPcs, LoopPcs, ClaimPcs, TakePcs, OutcomePcs, PubPcs, DropPcs,
       RetirePcs
  <2> QED
    BY <2>1, <2>2, <2>3, <2>4, <2>5, <2>6 DEF Inv
<1>u. CASE UNCHANGED vars
  BY <1>u DEF vars, Inv, CoreType, LockInv, TokenInv, SeenInv, OwnerInv, CommitInv
<1> QED
  BY <1>u, <1>1, <1>2, <1>3, <1>4, <1>5, <1>6, <1>7, <1>8, <1>9, <1>10, <1>11,
     <1>12, <1>13, <1>14, <1>15, <1>16, <1>17, <1>18, <1>19, <1>20, <1>21, <1>22,
     <1>23, <1>24, <1>25, <1>26, <1>27, <1>28, <1>29, <1>30, <1>31 DEF Next, Step,
     Thread

-----------------------------------------------------------------------------
(* Theorems *)

(* The inductive invariant holds in every reachable state.                 *)
LEMMA Invariance == Spec => []Inv
  BY InitInv, StepInv, PTL DEF Spec

(* At most one owner ever commits, however many processes open the cache,  *)
(* whatever their speed and wherever they die.                             *)
THEOREM AtMostOneCommit == Spec => []OneCommit
<1>1. Inv => OneCommit
  BY DEF Inv, CommitInv, OneCommit
<1> QED
  BY <1>1, Invariance, PTL

(* The token check fences publication: past it, and until the commit, the  *)
(* record cannot be retired.                                               *)
THEOREM Fencing == Spec => []CommitterIsOwner
<1>1. Inv => CommitterIsOwner
  BY NoTokAssumption DEF Inv, CoreType, LockInv, TokenInv, OwnerInv,
     CommitterIsOwner, TokenIsCurrent, GuardedPcs
<1> QED
  BY <1>1, Invariance, PTL

(* Two processes never both hold an ownership that was not retired.        *)
THEOREM SingleOwner == Spec => []OneUnretiredOwner
<1>1. Inv => OneUnretiredOwner
  BY NoTokAssumption DEF Inv, CoreType, TokenInv, OwnerInv, OneUnretiredOwner,
     HasToken
<1> QED
  BY <1>1, Invariance, PTL

(* A process becomes owner only while nothing is committed.                *)
THEOREM NoRedundantOwner == Spec => NoOwnerAfterCommit
<1>1. Inv => \A p \in Procs : pc[p] = "clSync" => current = NoTok
  BY DEF Inv, CommitInv, Claiming
<1>2. Inv /\ [Next]_vars => [\A p \in Procs : pc[p] = "clSync" /\ pc'[p] = "own" =>
   current = NoTok]_vars
  BY <1>1
<1> QED
  BY <1>2, Invariance, PTL DEF Spec, NoOwnerAfterCommit

(* Two waiters that both saw the same silent owner cannot both retire: the *)
(* record a takeover renames is the one it watched, never a successor's.   *)
THEOREM OnlyWatchedRetired == Spec => RetiresOnlyWatched
<1>1. Inv /\ [Next]_vars => [\A p \in Procs : pc[p] = "rtRename" /\ why[p] = "take"
         /\ infl' # infl => infl = seen[p].tok]_vars
  BY DEF Inv, SeenInv
<1> QED
  BY <1>1, Invariance, PTL DEF Spec, RetiresOnlyWatched

-----------------------------------------------------------------------------
(* Timers *)

(* The rest of TypeOK: the timers, the heartbeats and what a waiter saw of *)
(* them.                                                                   *)
TimerType ==
    /\ beat \in [Tokens -> 0..MaxBeats]
    /\ opens \in [Procs -> 0..MaxOpens]
    /\ elapsed \in [Procs -> 0..Cap]
    /\ age \in [Procs -> 0..Liveness]
    /\ samp \in [Procs -> [e : 0..Cap, a : 0..Liveness]]
    /\ seen \in [Procs -> Snapshots]
    /\ nap \in [Procs -> Nat]
    /\ hb \in [Procs -> {"off", "wait", "append"}]
    /\ due \in [Procs -> 0..Heartbeat]
    /\ failed \subseteq Procs

(* `now` is taken before the clock goes on, so the window that a changed   *)
(* snapshot restarts is never longer than the wait itself.                 *)
SampleInv == \A p \in Procs : samp[p].e <= elapsed[p]

(* A waiter that is not delayed decides at the time it sampled, and sleeps *)
(* no longer than what is left of wait_timeout.                            *)
DecidingPcs == {"snap", "snapBeat", "claim", "clRead", "clSnap"}
WaitInv == \A p \in Prompt :
    /\ elapsed[p] <= WaitTimeout
    /\ pc[p] \in DecidingPcs => samp[p].e = elapsed[p]
    /\ pc[p] = "sleep" => elapsed[p] + nap[p] <= WaitTimeout


(* The timers start at rest.                                               *)
LEMMA InitTimers == Init => TimerType /\ SampleInv /\ WaitInv
  BY OptionsAssumption, BoundsAssumption, PromptAssumption DEF Init, TimerType,
     SampleInv, WaitInv, DecidingPcs, OptionsValid, Cap, Snapshots, NoSnap, NoSample

(* A snapshot of a marker that was read is a snapshot.                     *)
LEMMA SnapshotType ==
  ASSUME TimerType, NEW t \in Tokens \cup {NoTok}
  PROVE  SnapshotOf(t) \in Snapshots
  BY BoundsAssumption DEF TimerType, SnapshotOf, NoSnap, Snapshots

(* A refresh never grows a heartbeat file past its bound.                  *)
LEMMA AppendType ==
  ASSUME TimerType, NEW t, Append(t)
  PROVE  beat' \in [Tokens -> 0..MaxBeats]
<1>1. beat[t] + 1 \in 0..MaxBeats
  BY BoundsAssumption DEF Append
<1>2. beat' = [beat EXCEPT ![t] = beat[t] + 1]
  BY DEF Append
<1> QED
  BY <1>1, <1>2 DEF TimerType

(* A wait state that goes out of scope leaves its timers at rest.          *)
LEMMA ForgetTimers ==
  ASSUME TimerType, SampleInv, NEW p \in Procs, ForgetWait(p)
  PROVE  /\ elapsed' \in [Procs -> 0..Cap] /\ age' \in [Procs -> 0..Liveness]
         /\ samp' \in [Procs -> [e : 0..Cap, a : 0..Liveness]]
         /\ seen' \in [Procs -> Snapshots] /\ nap' \in [Procs -> Nat]
         /\ SampleInv'
<1>1. Cap \in Nat /\ Liveness \in Nat /\ MaxBeats \in Nat
  BY OptionsAssumption, BoundsAssumption DEF OptionsValid, Cap
<1>2. NoSample \in [e : 0..Cap, a : 0..Liveness] /\ NoSnap \in Snapshots /\ NoSample.e = 0
  BY <1>1 DEF NoSample, NoSnap, Snapshots
<1>3. /\ elapsed' = [elapsed EXCEPT ![p] = 0] /\ age' = [age EXCEPT ![p] = 0]
      /\ samp' = [samp EXCEPT ![p] = NoSample] /\ seen' = [seen EXCEPT ![p] = NoSnap]
      /\ nap' = [nap EXCEPT ![p] = 0]
  BY DEF ForgetWait
<1>4. \A q \in Procs : samp'[q].e <= elapsed'[q]
  BY <1>1, <1>2, <1>3 DEF TimerType, SampleInv
<1> QED
  BY <1>1, <1>2, <1>3, <1>4 DEF TimerType, SampleInv

(* A process that leaves has no heartbeat thread any more.                 *)
LEMMA LeaveTimers ==
  ASSUME TimerType, SampleInv, NEW p \in Procs, Leave(p),
         beat' \in [Tokens -> 0..MaxBeats], UNCHANGED opens
  PROVE  TimerType' /\ SampleInv'
<1>1. ForgetWait(p)
  BY DEF Leave
<1>2. /\ hb' \in [Procs -> {"off", "wait", "append"}] /\ failed' \subseteq Procs
      /\ due' \in [Procs -> 0..Heartbeat]
  BY OptionsAssumption DEF Leave, TimerType, OptionsValid
<1> QED
  BY <1>1, <1>2, ForgetTimers DEF TimerType

(* ExactCacheSingleFlightWait::observe sleeps only while both limits are   *)
(* ahead, and wakes up no later than either of them.                       *)
LEMMA ObserveFact ==
  ASSUME Inv, TimerType, SampleInv, NEW p \in Procs, OpenObserve(p)
  PROVE  /\ seen' \in [Procs -> Snapshots]
         /\ age' \in [Procs -> 0..Liveness]
         /\ nap' \in [Procs -> Nat]
         /\ pc' = [pc EXCEPT ![p] = pc'[p]]
         /\ pc'[p] \in {"take", "timeout", "sleep"}
         /\ nap' = [nap EXCEPT ![p] = nap'[p]]
         /\ pc'[p] = "sleep" => samp[p].e + nap'[p] <= WaitTimeout
<1> DEFINE new == SnapshotOf(rec[p])
           quiet == NoProgress(p, new)
           e == samp[p].e
           decision == Decision(quiet, e)
<1>1. new \in Snapshots
  BY SnapshotType DEF Inv, CoreType
<1>2. e \in 0..Cap /\ samp[p].a \in 0..Liveness /\ elapsed[p] \in 0..Cap
        /\ age[p] \in 0..Liveness /\ e <= elapsed[p]
  BY DEF TimerType, SampleInv
<1>3. Cap \in Nat /\ Poll \in Nat /\ Liveness \in Nat /\ WaitTimeout \in Nat
  BY OptionsAssumption DEF OptionsValid, Cap
<1>4. quiet \in 0..Liveness /\ NewAge(p, new) \in 0..Liveness
  BY <1>2, <1>3 DEF NoProgress, NewAge, MinOf
<1>5. /\ decision \in {"take", "timeout", "sleep"}
      /\ decision = "sleep" => Delay(quiet, e) \in Nat /\ e + Delay(quiet, e) <= WaitTimeout
  BY <1>2, <1>3, <1>4 DEF Decision, Delay, MinOf
<1>6. /\ seen' = [seen EXCEPT ![p] = new]
      /\ age' = [age EXCEPT ![p] = NewAge(p, new)]
      /\ pc' = [pc EXCEPT ![p] = decision]
      /\ nap' = [nap EXCEPT ![p] = IF decision = "sleep" THEN Delay(quiet, e) ELSE 0]
  BY DEF OpenObserve, Goto
<1> HIDE DEF new, quiet, e, decision
<1>7. seen' \in [Procs -> Snapshots] /\ age' \in [Procs -> 0..Liveness]
        /\ nap' \in [Procs -> Nat]
  BY <1>1, <1>4, <1>5, <1>6 DEF TimerType
<1>8. pc'[p] = decision /\ pc' = [pc EXCEPT ![p] = pc'[p]]
  BY <1>6 DEF Inv, CoreType
<1>9. /\ nap'[p] = (IF decision = "sleep" THEN Delay(quiet, e) ELSE 0)
      /\ nap' = [nap EXCEPT ![p] = nap'[p]]
  BY <1>6 DEF TimerType
<1>10. pc'[p] = "sleep" => e + nap'[p] <= WaitTimeout
  BY <1>5, <1>8, <1>9
<1> QED
  BY <1>5, <1>7, <1>8, <1>9, <1>10 DEF e

(* Every action keeps every timer in its range: a subtraction never goes   *)
(* below zero, no counter passes its limit.                                *)
LEMMA StepTimers == Inv /\ TimerType /\ SampleInv /\ [Next]_vars => TimerType' /\ SampleInv'
<1> SUFFICES ASSUME Inv, TimerType, SampleInv, [Next]_vars PROVE TimerType' /\ SampleInv'
  OBVIOUS
<1> USE OptionsAssumption, BoundsAssumption
    DEF fsvars, wvars, hvars, hist, Goto, OptionsValid, Cap, NoSample, NoSnap, Snapshots
<1>1. ASSUME NEW p \in Procs, Open(p) PROVE TimerType' /\ SampleInv'
    BY <1>1 DEF Inv, CoreType, TimerType, SampleInv, Open
<1>2. ASSUME NEW p \in Procs, OpenRead(p) PROVE TimerType' /\ SampleInv'
    BY <1>2 DEF Inv, CoreType, TimerType, SampleInv, OpenRead
<1>3. ASSUME NEW p \in Procs, OpenNow(p) PROVE TimerType' /\ SampleInv'
    BY <1>3 DEF Inv, CoreType, TimerType, SampleInv, OpenNow
<1>4. ASSUME NEW p \in Procs, OpenSnap(p) PROVE TimerType' /\ SampleInv'
    BY <1>4 DEF Inv, CoreType, TimerType, SampleInv, OpenSnap
<1>5. ASSUME NEW p \in Procs, OpenObserve(p) PROVE TimerType' /\ SampleInv'
    BY <1>5, ObserveFact DEF Inv, CoreType, TimerType, SampleInv, OpenObserve
<1>6. ASSUME NEW p \in Procs, OpenWake(p) PROVE TimerType' /\ SampleInv'
    BY <1>6 DEF Inv, CoreType, TimerType, SampleInv, OpenWake
<1>7. ASSUME NEW p \in Procs, ClaimGuard(p) PROVE TimerType' /\ SampleInv'
    BY <1>7 DEF Inv, CoreType, TimerType, SampleInv, ClaimGuard, TryGuard,
       RetryLater, MinOf
<1>8. ASSUME NEW p \in Procs, TakeGuard(p) PROVE TimerType' /\ SampleInv'
    BY <1>8 DEF Inv, CoreType, TimerType, SampleInv, TakeGuard, TryGuard,
       RetryLater, MinOf
<1>9. ASSUME NEW p \in Procs, LockedRead(p) PROVE TimerType' /\ SampleInv'
    BY <1>9 DEF Inv, CoreType, TimerType, SampleInv, LockedRead
<1>10. ASSUME NEW p \in Procs, ClaimSnap(p) PROVE TimerType' /\ SampleInv'
    BY <1>10 DEF Inv, CoreType, TimerType, SampleInv, ClaimSnap, RetryLater, MinOf
<1>11. ASSUME NEW p \in Procs, TakeSnap(p) PROVE TimerType' /\ SampleInv'
  <2>1. nap' \in [Procs -> Nat]
    <3>1. elapsed[p] \in Nat /\ WaitTimeout \in Nat /\ Poll \in Nat
      BY DEF TimerType
    <3>2. UNCHANGED nap \/ RetryLater(p, elapsed[p])
      BY <1>11 DEF TakeSnap
    <3> QED
      BY <3>1, <3>2 DEF TimerType, RetryLater, MinOf
  <2> QED
    BY <1>11, <2>1 DEF TimerType, SampleInv, TakeSnap
<1>12. ASSUME NEW p \in Procs, ClaimBeat(p) PROVE TimerType' /\ SampleInv'
    BY <1>12, FreshTokenFact DEF Inv, CoreType, TimerType, SampleInv, ClaimBeat
<1>13. ASSUME NEW p \in Procs, ClaimCreate(p) PROVE TimerType' /\ SampleInv'
    BY <1>13 DEF Inv, CoreType, TimerType, SampleInv, ClaimCreate
<1>14. ASSUME NEW p \in Procs, ClaimWrite(p) PROVE TimerType' /\ SampleInv'
    BY <1>14 DEF Inv, CoreType, TimerType, SampleInv, ClaimWrite
<1>15. ASSUME NEW p \in Procs, ClaimOwner(p) PROVE TimerType' /\ SampleInv'
  <2>1. ForgetWait(p)
    BY <1>15 DEF ClaimOwner
  <2>2. /\ hb' \in [Procs -> {"off", "wait", "append"}] /\ failed' \subseteq Procs
        /\ due' \in [Procs -> 0..Heartbeat]
    BY <1>15 DEF ClaimOwner, TimerType
  <2> QED
    BY <1>15, <2>1, <2>2, ForgetTimers DEF ClaimOwner, TimerType
<1>16. ASSUME NEW p \in Procs, RetireRename(p) PROVE TimerType' /\ SampleInv'
    BY <1>16 DEF Inv, CoreType, TimerType, SampleInv, RetireRename
<1>17. ASSUME NEW p \in Procs, RetireReap(p) PROVE TimerType' /\ SampleInv'
  <2>1. beat' \in [Tokens -> 0..MaxBeats] /\ UNCHANGED opens
    BY <1>17 DEF RetireReap, TimerType
  <2>2. CASE Leave(p)
    BY <2>1, <2>2, LeaveTimers
  <2>3. CASE UNCHANGED <<wvars, nap, hvars>>
    BY <2>1, <2>3 DEF TimerType, SampleInv
  <2> QED
    BY <1>17, <2>2, <2>3 DEF RetireReap
<1>18. ASSUME NEW p \in Procs, BeatCheck(p) PROVE TimerType' /\ SampleInv'
    BY <1>18 DEF Inv, CoreType, TimerType, SampleInv, BeatCheck
<1>19. ASSUME NEW p \in Procs, BeatAppend(p) PROVE TimerType' /\ SampleInv'
  <2>1. beat' \in [Tokens -> 0..MaxBeats]
    BY <1>19, AppendType DEF BeatAppend, TimerType
  <2>2. hb' \in [Procs -> {"off", "wait", "append"}] /\ failed' \subseteq Procs
    BY <1>19 DEF BeatAppend, TimerType
  <2>3. due' \in [Procs -> 0..Heartbeat]
    <3>1. due' = [due EXCEPT ![p] = Heartbeat] \/ due' = due
      BY <1>19 DEF BeatAppend
    <3> QED
      BY <3>1 DEF TimerType
  <2> QED
    BY <1>19, <2>1, <2>2, <2>3 DEF BeatAppend, TimerType, SampleInv
<1>20. ASSUME NEW p \in Procs, OwnerHeartbeat(p) PROVE TimerType' /\ SampleInv'
  <2>1. beat' \in [Tokens -> 0..MaxBeats]
    <3>1. UNCHANGED beat \/ Append(tok[p])
      BY <1>20 DEF OwnerHeartbeat
    <3> QED
      BY <3>1, AppendType DEF TimerType
  <2>2. failed' \subseteq Procs
    BY <1>20 DEF OwnerHeartbeat, TimerType
  <2>3. UNCHANGED <<opens, wvars, nap, hb, due>>
    BY <1>20 DEF OwnerHeartbeat
  <2> QED
    BY <2>1, <2>2, <2>3 DEF TimerType, SampleInv
<1>21. ASSUME NEW p \in Procs, PublishStart(p) PROVE TimerType' /\ SampleInv'
    BY <1>21 DEF Inv, CoreType, TimerType, SampleInv, PublishStart, StopHeartbeat
<1>22. ASSUME NEW p \in Procs, PublishLock(p) PROVE TimerType' /\ SampleInv'
    BY <1>22 DEF Inv, CoreType, TimerType, SampleInv, PublishLock
<1>23. ASSUME NEW p \in Procs, PublishCheck(p) PROVE TimerType' /\ SampleInv'
    BY <1>23 DEF Inv, CoreType, TimerType, SampleInv, PublishCheck
<1>24. ASSUME NEW p \in Procs, PublishCommit(p) PROVE TimerType' /\ SampleInv'
    BY <1>24 DEF Inv, CoreType, TimerType, SampleInv, PublishCommit
<1>25. ASSUME NEW p \in Procs, DropOwner(p) PROVE TimerType' /\ SampleInv'
  <2>1. beat' \in [Tokens -> 0..MaxBeats] /\ UNCHANGED opens
    BY <1>25 DEF DropOwner, TimerType
  <2>2. CASE Leave(p)
    BY <2>1, <2>2, LeaveTimers
  <2>3. CASE StopHeartbeat(p) /\ UNCHANGED <<wvars, nap, failed>>
    BY <2>1, <2>3 DEF TimerType, SampleInv, StopHeartbeat
  <2> QED
    BY <1>25, <2>2, <2>3 DEF DropOwner
<1>26. ASSUME NEW p \in Procs, Release(p) PROVE TimerType' /\ SampleInv'
  <2>1. beat' \in [Tokens -> 0..MaxBeats] /\ UNCHANGED opens
    BY <1>26 DEF Release, TimerType
  <2>2. CASE Leave(p)
    BY <2>1, <2>2, LeaveTimers
  <2>3. CASE UNCHANGED <<wvars, nap, hvars>>
    BY <2>1, <2>3 DEF TimerType, SampleInv
  <2> QED
    BY <1>26, <2>2, <2>3 DEF Release
<1>27. ASSUME NEW p \in Procs, IoError(p) PROVE TimerType' /\ SampleInv'
    BY <1>27 DEF Inv, CoreType, TimerType, SampleInv, IoError
<1>28. ASSUME NEW p \in Procs, DropError(p) PROVE TimerType' /\ SampleInv'
    BY <1>28, LeaveTimers DEF TimerType, DropError
<1>29. ASSUME NEW p \in Procs, Return(p) PROVE TimerType' /\ SampleInv'
    BY <1>29, LeaveTimers DEF TimerType, Return
<1>30. ASSUME NEW p \in Procs, Crash(p) PROVE TimerType' /\ SampleInv'
    BY <1>30, LeaveTimers DEF TimerType, Crash
<1>31. CASE Tick
  <2>1. Cap \in Nat /\ Liveness \in Nat /\ Heartbeat \in Nat
    BY DEF OptionsValid, Cap
  <2>2. /\ elapsed' \in [Procs -> 0..Cap] /\ age' \in [Procs -> 0..Liveness]
        /\ nap' \in [Procs -> Nat] /\ due' \in [Procs -> 0..Heartbeat]
    BY <1>31, <2>1 DEF Tick, TimerType, MinOf
  <2>3. \A p \in Procs : samp'[p].e <= elapsed'[p]
    BY <1>31, <2>1 DEF Tick, TimerType, SampleInv, MinOf
  <2> QED
    BY <1>31, <2>2, <2>3 DEF Tick, TimerType, SampleInv
<1>u. CASE UNCHANGED vars
  BY <1>u DEF vars, TimerType, SampleInv, Snapshots
<1> QED
  BY <1>u, <1>1, <1>2, <1>3, <1>4, <1>5, <1>6, <1>7, <1>8, <1>9, <1>10, <1>11,
     <1>12, <1>13, <1>14, <1>15, <1>16, <1>17, <1>18, <1>19, <1>20, <1>21, <1>22,
     <1>23, <1>24, <1>25, <1>26, <1>27, <1>28, <1>29, <1>30, <1>31 DEF Next, Step,
     Thread

(* Every action keeps a prompt waiter within wait_timeout: what it sampled *)
(* is still the time when it decides, and time passes only while it sleeps.*)
LEMMA StepWait == Inv /\ TimerType /\ SampleInv /\ WaitInv /\ [Next]_vars => WaitInv'
<1> SUFFICES ASSUME Inv, TimerType, SampleInv, WaitInv, [Next]_vars PROVE WaitInv'
  OBVIOUS
<1> USE OptionsAssumption, PromptAssumption
    DEF fsvars, wvars, hvars, hist, At, Goto, OptionsValid, Cap, NoSample
<1>1. ASSUME NEW p \in Procs, Open(p) PROVE WaitInv'
    BY <1>1 DEF Inv, CoreType, TimerType, SampleInv, WaitInv, DecidingPcs, Open
<1>2. ASSUME NEW p \in Procs, OpenRead(p) PROVE WaitInv'
    BY <1>2 DEF Inv, CoreType, TimerType, SampleInv, WaitInv, DecidingPcs,
       OpenRead
<1>3. ASSUME NEW p \in Procs, OpenNow(p) PROVE WaitInv'
    BY <1>3 DEF Inv, CoreType, TimerType, SampleInv, WaitInv, DecidingPcs, OpenNow
<1>4. ASSUME NEW p \in Procs, OpenSnap(p) PROVE WaitInv'
    BY <1>4 DEF Inv, CoreType, TimerType, SampleInv, WaitInv, DecidingPcs,
       OpenSnap
<1>5. ASSUME NEW p \in Procs, OpenObserve(p) PROVE WaitInv'
    BY <1>5, ObserveFact DEF Inv, CoreType, TimerType, WaitInv, DecidingPcs,
       OpenObserve
<1>6. ASSUME NEW p \in Procs, OpenWake(p) PROVE WaitInv'
    BY <1>6 DEF Inv, CoreType, TimerType, SampleInv, WaitInv, DecidingPcs,
       OpenWake
<1>7. ASSUME NEW p \in Procs, ClaimGuard(p) PROVE WaitInv'
    BY <1>7 DEF Inv, CoreType, TimerType, SampleInv, WaitInv, DecidingPcs,
       ClaimGuard, TryGuard, RetryLater, MinOf
<1>8. ASSUME NEW p \in Procs, TakeGuard(p) PROVE WaitInv'
    BY <1>8 DEF Inv, CoreType, TimerType, SampleInv, WaitInv, DecidingPcs,
       TakeGuard, TryGuard, RetryLater, MinOf
<1>9. ASSUME NEW p \in Procs, LockedRead(p) PROVE WaitInv'
    BY <1>9 DEF Inv, CoreType, TimerType, SampleInv, WaitInv, DecidingPcs,
       LockedRead
<1>10. ASSUME NEW p \in Procs, ClaimSnap(p) PROVE WaitInv'
    BY <1>10 DEF Inv, CoreType, TimerType, SampleInv, WaitInv, DecidingPcs,
       ClaimSnap, RetryLater, MinOf
<1>11. ASSUME NEW p \in Procs, TakeSnap(p) PROVE WaitInv'
    BY <1>11 DEF Inv, CoreType, TimerType, SampleInv, WaitInv, DecidingPcs,
       TakeSnap, RetryLater, MinOf
<1>12. ASSUME NEW p \in Procs, ClaimBeat(p) PROVE WaitInv'
    BY <1>12 DEF Inv, CoreType, TimerType, SampleInv, WaitInv, DecidingPcs,
       ClaimBeat
<1>13. ASSUME NEW p \in Procs, ClaimCreate(p) PROVE WaitInv'
    BY <1>13 DEF Inv, CoreType, TimerType, SampleInv, WaitInv, DecidingPcs,
       ClaimCreate
<1>14. ASSUME NEW p \in Procs, ClaimWrite(p) PROVE WaitInv'
    BY <1>14 DEF Inv, CoreType, TimerType, SampleInv, WaitInv, DecidingPcs,
       ClaimWrite
<1>15. ASSUME NEW p \in Procs, ClaimOwner(p) PROVE WaitInv'
    BY <1>15 DEF Inv, CoreType, TimerType, SampleInv, WaitInv, DecidingPcs,
       ClaimOwner, ForgetWait
<1>16. ASSUME NEW p \in Procs, RetireRename(p) PROVE WaitInv'
    BY <1>16 DEF Inv, CoreType, TimerType, SampleInv, WaitInv, DecidingPcs,
       RetireRename
<1>17. ASSUME NEW p \in Procs, RetireReap(p) PROVE WaitInv'
    BY <1>17 DEF Inv, CoreType, TimerType, SampleInv, WaitInv, DecidingPcs,
       RetireReap, Leave, ForgetWait
<1>18. ASSUME NEW p \in Procs, BeatCheck(p) PROVE WaitInv'
    BY <1>18 DEF Inv, CoreType, TimerType, SampleInv, WaitInv, DecidingPcs,
       BeatCheck
<1>19. ASSUME NEW p \in Procs, BeatAppend(p) PROVE WaitInv'
    BY <1>19 DEF Inv, CoreType, TimerType, SampleInv, WaitInv, DecidingPcs,
       BeatAppend, Append
<1>20. ASSUME NEW p \in Procs, OwnerHeartbeat(p) PROVE WaitInv'
    BY <1>20 DEF Inv, CoreType, TimerType, SampleInv, WaitInv, DecidingPcs,
       OwnerHeartbeat, Append
<1>21. ASSUME NEW p \in Procs, PublishStart(p) PROVE WaitInv'
    BY <1>21 DEF Inv, CoreType, TimerType, SampleInv, WaitInv, DecidingPcs,
       PublishStart, StopHeartbeat
<1>22. ASSUME NEW p \in Procs, PublishLock(p) PROVE WaitInv'
    BY <1>22 DEF Inv, CoreType, TimerType, SampleInv, WaitInv, DecidingPcs,
       PublishLock
<1>23. ASSUME NEW p \in Procs, PublishCheck(p) PROVE WaitInv'
    BY <1>23 DEF Inv, CoreType, TimerType, SampleInv, WaitInv, DecidingPcs,
       PublishCheck
<1>24. ASSUME NEW p \in Procs, PublishCommit(p) PROVE WaitInv'
    BY <1>24 DEF Inv, CoreType, TimerType, SampleInv, WaitInv, DecidingPcs,
       PublishCommit
<1>25. ASSUME NEW p \in Procs, DropOwner(p) PROVE WaitInv'
    BY <1>25 DEF Inv, CoreType, TimerType, SampleInv, WaitInv, DecidingPcs,
       DropOwner, Leave, ForgetWait, StopHeartbeat
<1>26. ASSUME NEW p \in Procs, Release(p) PROVE WaitInv'
    BY <1>26 DEF Inv, CoreType, TimerType, SampleInv, WaitInv, DecidingPcs,
       Release, Leave, ForgetWait, RetirePcs, OpenPcs
<1>27. ASSUME NEW p \in Procs, IoError(p) PROVE WaitInv'
    BY <1>27 DEF Inv, CoreType, TimerType, SampleInv, WaitInv, DecidingPcs,
       IoError, RetirePcs, OpenPcs
<1>28. ASSUME NEW p \in Procs, DropError(p) PROVE WaitInv'
    BY <1>28 DEF Inv, CoreType, TimerType, SampleInv, WaitInv, DecidingPcs,
       DropError, Leave, ForgetWait
<1>29. ASSUME NEW p \in Procs, Return(p) PROVE WaitInv'
    BY <1>29 DEF Inv, CoreType, TimerType, SampleInv, WaitInv, DecidingPcs,
       Return, Leave, ForgetWait
<1>30. ASSUME NEW p \in Procs, Crash(p) PROVE WaitInv'
    BY <1>30 DEF Inv, CoreType, TimerType, SampleInv, WaitInv, DecidingPcs, Crash,
       Leave, ForgetWait
<1>31. CASE Tick
  <2>1. Cap \in Nat /\ WaitTimeout \in Nat
    BY DEF OptionsValid, Cap
  <2> SUFFICES ASSUME NEW p \in Prompt
      PROVE  /\ elapsed'[p] <= WaitTimeout
             /\ pc'[p] \in DecidingPcs => samp'[p].e = elapsed'[p]
             /\ pc'[p] = "sleep" => elapsed'[p] + nap'[p] <= WaitTimeout
    BY DEF WaitInv
  <2>2. p \in Procs /\ ~ Urgent(p)
    BY <1>31 DEF Tick
  <2>3. pc[p] \in DecidingPcs \cup OpenPcs => pc[p] = "sleep" /\ nap[p] # 0
    BY <2>2 DEF Urgent, At, DecidingPcs, OpenPcs, LoopPcs, ClaimPcs, TakePcs, OutcomePcs
  <2>4. "sleep" \notin DecidingPcs
    BY DEF DecidingPcs
  <2>5. /\ elapsed'[p] = IF pc[p] \in OpenPcs THEN MinOf(Cap, elapsed[p] + 1) ELSE elapsed[p]
        /\ nap'[p] = IF nap[p] > 0 THEN nap[p] - 1 ELSE 0
        /\ pc'[p] = pc[p]
    BY <1>31, <2>2 DEF Tick
  <2>6. /\ elapsed[p] \in Nat /\ nap[p] \in Nat /\ elapsed[p] <= WaitTimeout
        /\ pc[p] = "sleep" => elapsed[p] + nap[p] <= WaitTimeout
    BY <2>1, <2>2 DEF TimerType, WaitInv
  <2>7. elapsed[p] + 1 \in Nat => MinOf(Cap, elapsed[p] + 1) \in Nat /\ MinOf(Cap, elapsed[p] + 1) <= elapsed[p] + 1
    BY <2>1 DEF MinOf
  <2>8. CASE pc[p] \in OpenPcs
    BY <2>1, <2>3, <2>4, <2>5, <2>6, <2>7, <2>8
  <2>9. CASE pc[p] \notin OpenPcs
    <3>1. "sleep" \in OpenPcs
      BY DEF OpenPcs, LoopPcs
    <3> QED
      BY <2>1, <2>3, <2>4, <2>5, <2>6, <2>9, <3>1
  <2> QED
    BY <2>8, <2>9
<1>u. CASE UNCHANGED vars
  BY <1>u DEF vars, WaitInv, DecidingPcs
<1> QED
  BY <1>u, <1>1, <1>2, <1>3, <1>4, <1>5, <1>6, <1>7, <1>8, <1>9, <1>10, <1>11,
     <1>12, <1>13, <1>14, <1>15, <1>16, <1>17, <1>18, <1>19, <1>20, <1>21, <1>22,
     <1>23, <1>24, <1>25, <1>26, <1>27, <1>28, <1>29, <1>30, <1>31 DEF Next, Step,
     Thread

(* The invariants of the timers hold in every reachable state.             *)
LEMMA TimerInvariance == Spec => [](TimerType /\ SampleInv /\ WaitInv)
  BY InitTimers, StepTimers, StepWait, Invariance, PTL DEF Spec

(* Every variable keeps its type, whatever the processes, tokens and       *)
(* options: no timer of the wait state underflows or passes its limit.     *)
THEOREM TypeCorrect == Spec => []TypeOK
<1>1. Inv /\ TimerType => TypeOK
  BY DEF Inv, CoreType, TimerType, TypeOK
<1> QED
  BY <1>1, Invariance, TimerInvariance, PTL

(* A waiter that the scheduler does not delay is out of the waiting loop   *)
(* by wait_timeout, for every setting of the four options.                 *)
THEOREM WaitBounded == Spec => []BoundedWait
<1>1. WaitInv => BoundedWait
  BY DEF WaitInv, BoundedWait
<1> QED
  BY <1>1, TimerInvariance, PTL

(* A heartbeat file that is gone is created by the claim that draws its    *)
(* token and by nothing else: an append finds the file or fails.           *)
LEMMA BeatChange ==
  ASSUME [Next]_vars, TimerType, NEW t \in Tokens, beat[t] = 0, beat'[t] # 0
  PROVE  \E q \in Procs : ClaimBeat(q) /\ t = FreshToken
<1>0. beat \in [Tokens -> 0..MaxBeats]
  BY DEF TimerType
<1>1. ~ UNCHANGED vars /\ ~ Tick
  BY DEF vars, fsvars, Tick
<1>2. PICK q \in Procs :
        \/ Step(q) \/ Thread(q) \/ Open(q) \/ OwnerHeartbeat(q) \/ PublishStart(q)
        \/ DropOwner(q) \/ IoError(q) \/ DropError(q) \/ Crash(q)
  BY <1>1 DEF Next
<1>3. ASSUME NEW u, Append(u) PROVE FALSE
  BY <1>0, <1>3 DEF Append
<1>4. CASE ClaimBeat(q)
  BY <1>0, <1>4 DEF ClaimBeat
<1>5. CASE RetireReap(q)
  BY <1>5 DEF RetireReap
<1>6. CASE BeatAppend(q)
  BY <1>3, <1>6 DEF BeatAppend
<1>7. CASE OwnerHeartbeat(q)
  BY <1>3, <1>7 DEF OwnerHeartbeat
<1>8. CASE Step(q)
  BY <1>4, <1>5, <1>8 DEF Step, OpenRead, OpenNow, OpenSnap, OpenObserve, OpenWake,
     ClaimGuard, TakeGuard, TryGuard, LockedRead, ClaimSnap, TakeSnap, ClaimCreate,
     ClaimWrite, ClaimOwner, RetireRename, PublishLock, PublishCheck, PublishCommit,
     Release, DropOwner, Return, fsvars
<1>9. CASE \/ BeatCheck(q) \/ Open(q) \/ PublishStart(q) \/ DropOwner(q)
           \/ IoError(q) \/ DropError(q) \/ Crash(q)
  BY <1>9 DEF BeatCheck, Open, PublishStart, DropOwner, IoError, DropError, Crash, fsvars
<1> QED
  BY <1>2, <1>6, <1>7, <1>8, <1>9 DEF Thread

(* A refresh that checked its token before a takeover never brings back    *)
(* the heartbeat file the takeover removed: the claim draws a fresh token, *)
(* and a retired one was used.                                             *)
THEOREM ReapIsFinal == Spec => NoHeartbeatAfterReap
<1>1. Inv /\ TimerType /\ [Next]_vars =>
        [\A t \in retired : beat[t] = 0 => beat'[t] = 0]_vars
  <2> SUFFICES ASSUME Inv, TimerType, [Next]_vars, NEW t \in retired,
                      beat[t] = 0, beat'[t] # 0
               PROVE  FALSE
    OBVIOUS
  <2>1. t \in Tokens /\ t \in used /\ used \subseteq Tokens
    BY DEF Inv, CoreType, TokenInv
  <2>2. PICK q \in Procs : ClaimBeat(q) /\ t = FreshToken
    BY <2>1, BeatChange
  <2>3. used # Tokens
    BY <2>2 DEF ClaimBeat
  <2> QED
    BY <2>1, <2>2, <2>3, FreshTokenFact
<1> QED
  BY <1>1, Invariance, TimerInvariance, PTL DEF Spec, NoHeartbeatAfterReap

-----------------------------------------------------------------------------
(* A refreshing owner remains owner *)

(* q has seen p's record as it is now; p has a thread that can still       *)
(* lengthen its heartbeat file.                                            *)
Sees(q, p) == seen[q].tok = tok[p] /\ seen[q].whole /\ seen[q].beat = beat[tok[p]]
Beating(p) == hb[p] # "off" /\ beat[tok[p]] \in 1..(MaxBeats - 1)

(* Only a drawn token has a heartbeat file or a complete record.           *)
DrawnInv ==
    /\ \A t \in Tokens : t \notin used => beat[t] = 0 /\ t \notin whole
    /\ \A q \in Procs : rec[q] \in used \cup {NoTok}

(* What was seen of a heartbeat file is no longer than the file, unless it *)
(* has been removed.                                                       *)
SeenBeatInv ==
    \A q \in Procs : seen[q].tok # NoTok =>
        /\ seen[q].tok \in used
        /\ seen[q].whole => seen[q].tok \in whole
        /\ seen[q].beat <= beat[seen[q].tok] \/ beat[seen[q].tok] = 0

(* A record is complete once it is written; a thread runs only for an owner*)
(* that has one.                                                           *)
WholeInv ==
    \A p \in Procs :
        /\ pc[p] \in {"clCreate", "clWrite"} => tok[p] \notin whole
        /\ pc[p] = "clSync" => tok[p] \in whole
        /\ hb[p] # "off" =>
              pc[p] \in {"own", "ownCheck", "ownAppend"} /\ tok[p] \in whole

BeatInv == DrawnInv /\ SeenBeatInv /\ WholeInv

(* Nobody has seen a record unchanged for longer than since its owner's    *)
(* last refresh.                                                           *)
SeenAgeInv ==
    \A p, q \in Procs : Sees(q, p) =>
        /\ Beating(p) => age[q] + due[p] <= Heartbeat
        /\ pc[p] = "clSync" => age[q] = 0

(* Whoever takes over has seen a record unchanged for a whole window.      *)
WindowInv ==
    \A q \in Procs :
        /\ pc[q] \in {"snap", "snapBeat"} => samp[q].a <= age[q]
        /\ pc[q] \in {"take", "tkRead", "tkSnap"} => age[q] = Liveness

(* So the record about to be retired is not one that is being refreshed.   *)
RetiringInv ==
    \A p, q \in Procs :
        pc[q] = "rtRename" /\ why[q] = "take" /\ infl = tok[p] => ~ Beating(p)

LeaseInv == SeenAgeInv /\ WindowInv /\ RetiringInv

(* The snapshot of a record is the token, whether the record is complete,  *)
(* and the length of the heartbeat file if it is.                          *)
LEMMA SnapFields ==
  ASSUME NEW t \in Tokens
  PROVE  /\ SnapshotOf(t).tok = t
         /\ SnapshotOf(t).whole <=> t \in whole
         /\ SnapshotOf(t).beat = IF t \in whole THEN beat[t] ELSE 0
<1> DEFINE w == t \in whole
           b == IF t \in whole THEN beat[t] ELSE 0
<1>1. SnapshotOf(t) = [tok |-> t, whole |-> w, beat |-> b]
  BY NoTokAssumption DEF SnapshotOf
<1> HIDE DEF w, b
<1>2. SnapshotOf(t).whole = w
  BY <1>1
<1>3. SnapshotOf(t).tok = t /\ SnapshotOf(t).beat = b
  BY <1>1
<1> QED
  BY <1>2, <1>3 DEF w, b

(* A refresh makes one heartbeat file longer, and none that is gone.       *)
LEMMA AppendGrows ==
  ASSUME TimerType, NEW t, beat' = beat \/ Append(t)
  PROVE  \A u \in Tokens : beat'[u] = beat[u]
                \/ (beat[u] \in 1..(MaxBeats - 1) /\ beat'[u] = beat[u] + 1)
<1>1. CASE beat' = beat
  BY <1>1
<1>2. CASE Append(t)
  <2>1. beat' = [beat EXCEPT ![t] = beat[t] + 1] /\ beat[t] \in 1..(MaxBeats - 1)
    BY <1>2 DEF Append
  <2> QED
    BY <2>1 DEF TimerType
<1> QED
  BY <1>1, <1>2

(* A step that leaves records, heartbeat files and threads alone, taken by *)
(* a process that has no thread.                                           *)
LEMMA BeatFrame ==
  ASSUME BeatInv, UNCHANGED <<beat, whole, used, tok, rec, seen, hb>>,
         \A p \in Procs : \/ pc'[p] = pc[p]
                          \/ hb[p] = "off" /\ pc'[p] \notin {"clCreate", "clWrite", "clSync"}
  PROVE  BeatInv'
  BY DEF BeatInv, DrawnInv, SeenBeatInv, WholeInv

(* What was seen of a record stays true of it, whatever other processes do.*)
LEMMA StepBeat == Inv /\ TimerType /\ BeatInv /\ [Next]_vars => BeatInv'
<1> SUFFICES ASSUME Inv, TimerType, BeatInv, [Next]_vars PROVE BeatInv'
  OBVIOUS
<1> USE NoTokAssumption, BoundsAssumption
    DEF fsvars, wvars, hvars, hist, At, Goto, Unlock, NoSnap
<1>1. ASSUME NEW p \in Procs, Open(p) PROVE BeatInv'
  BY <1>1 DEF Inv, CoreType, TimerType, BeatInv, DrawnInv, SeenBeatInv,
     WholeInv, Open
<1>2. ASSUME NEW p \in Procs, OpenRead(p) PROVE BeatInv'
  BY <1>2 DEF Inv, CoreType, TimerType, BeatInv, DrawnInv, SeenBeatInv,
     WholeInv, OpenRead
<1>3. ASSUME NEW p \in Procs, OpenNow(p) PROVE BeatInv'
  BY <1>3 DEF Inv, CoreType, TimerType, BeatInv, DrawnInv, SeenBeatInv,
     WholeInv, OpenNow
<1>4. ASSUME NEW p \in Procs, OpenSnap(p) PROVE BeatInv'
  <2>1. DrawnInv'
    BY <1>4 DEF BeatInv, Inv, CoreType, TokenInv, TimerType, DrawnInv,
       OpenSnap
  <2>2. SeenBeatInv'
    BY <1>4 DEF BeatInv, Inv, CoreType, TokenInv, TimerType, SeenBeatInv,
       OpenSnap
  <2>3. WholeInv'
    BY <1>4 DEF BeatInv, Inv, CoreType, TokenInv, TimerType, WholeInv,
       OpenSnap
  <2> QED
    BY <2>1, <2>2, <2>3 DEF BeatInv
<1>5. ASSUME NEW p \in Procs, OpenObserve(p) PROVE BeatInv'
  <2>1. DrawnInv'
    BY <1>5 DEF BeatInv, Inv, CoreType, TokenInv, TimerType, DrawnInv,
       OpenObserve, Decision, SnapshotOf, NewAge, NoProgress
  <2>2. SeenBeatInv'
    <3>1. seen' = [seen EXCEPT ![p] = SnapshotOf(rec[p])] /\ UNCHANGED <<beat, whole, used>>
      BY <1>5 DEF OpenObserve
    <3>2. rec[p] \in used \cup {NoTok} /\ used \subseteq Tokens
      BY DEF BeatInv, DrawnInv, Inv, CoreType
    <3>3. SnapshotOf(rec[p]).tok # NoTok =>
            /\ SnapshotOf(rec[p]).tok = rec[p] /\ rec[p] \in used
            /\ SnapshotOf(rec[p]).whole => rec[p] \in whole
            /\ SnapshotOf(rec[p]).beat <= beat[rec[p]] \/ beat[rec[p]] = 0
      <4>1. CASE rec[p] = NoTok
        BY <4>1 DEF SnapshotOf
      <4>2. CASE rec[p] # NoTok
        <5>1. rec[p] \in Tokens
          BY <3>2, <4>2
        <5>2. beat[rec[p]] \in Nat
          BY <5>1 DEF TimerType
        <5> QED
          BY <3>2, <4>2, <5>1, <5>2, SnapFields
      <4> QED
        BY <4>1, <4>2
    <3> QED
      BY <3>1, <3>3 DEF BeatInv, SeenBeatInv, TimerType
  <2>3. WholeInv'
    BY <1>5 DEF BeatInv, Inv, CoreType, TokenInv, TimerType, WholeInv,
       OpenObserve, Decision, SnapshotOf, NewAge, NoProgress
  <2> QED
    BY <2>1, <2>2, <2>3 DEF BeatInv
<1>6. ASSUME NEW p \in Procs, OpenWake(p) PROVE BeatInv'
  BY <1>6 DEF Inv, CoreType, TimerType, BeatInv, DrawnInv, SeenBeatInv,
     WholeInv, OpenWake
<1>7. ASSUME NEW p \in Procs, ClaimGuard(p) PROVE BeatInv'
  <2>1. UNCHANGED <<beat, whole, used, tok, rec, seen, hb>>
    BY <1>7 DEF ClaimGuard, TryGuard, RetryLater
  <2>2. \A q \in Procs \ {p} : pc'[q] = pc[q]
    BY <1>7 DEF ClaimGuard, TryGuard, RetryLater, Inv, CoreType
  <2>3. hb[p] = "off" /\ pc'[p] \notin {"clCreate", "clWrite", "clSync"}
    BY <1>7 DEF ClaimGuard, TryGuard, RetryLater, Inv, CoreType, BeatInv,
       WholeInv
  <2> QED
    BY <2>1, <2>2, <2>3, BeatFrame
<1>8. ASSUME NEW p \in Procs, TakeGuard(p) PROVE BeatInv'
  <2>1. UNCHANGED <<beat, whole, used, tok, rec, seen, hb>>
    BY <1>8 DEF TakeGuard, TryGuard, RetryLater
  <2>2. \A q \in Procs \ {p} : pc'[q] = pc[q]
    BY <1>8 DEF TakeGuard, TryGuard, RetryLater, Inv, CoreType
  <2>3. hb[p] = "off" /\ pc'[p] \notin {"clCreate", "clWrite", "clSync"}
    BY <1>8 DEF TakeGuard, TryGuard, RetryLater, Inv, CoreType, BeatInv,
       WholeInv
  <2> QED
    BY <2>1, <2>2, <2>3, BeatFrame
<1>9. ASSUME NEW p \in Procs, LockedRead(p) PROVE BeatInv'
  <2>1. UNCHANGED <<beat, whole, used, tok, rec, seen, hb>>
    BY <1>9 DEF LockedRead
  <2>2. \A q \in Procs \ {p} : pc'[q] = pc[q]
    BY <1>9 DEF LockedRead, Inv, CoreType
  <2>3. hb[p] = "off" /\ pc'[p] \notin {"clCreate", "clWrite", "clSync"}
    BY <1>9 DEF LockedRead, Inv, CoreType, BeatInv, WholeInv
  <2> QED
    BY <2>1, <2>2, <2>3, BeatFrame
<1>10. ASSUME NEW p \in Procs, ClaimSnap(p) PROVE BeatInv'
  <2>1. UNCHANGED <<beat, whole, used, tok, rec, seen, hb>>
    BY <1>10 DEF ClaimSnap, RetryLater
  <2>2. \A q \in Procs \ {p} : pc'[q] = pc[q]
    BY <1>10 DEF ClaimSnap, RetryLater, Inv, CoreType
  <2>3. hb[p] = "off" /\ pc'[p] \notin {"clCreate", "clWrite", "clSync"}
    BY <1>10 DEF ClaimSnap, RetryLater, Inv, CoreType, BeatInv, WholeInv
  <2> QED
    BY <2>1, <2>2, <2>3, BeatFrame
<1>11. ASSUME NEW p \in Procs, TakeSnap(p) PROVE BeatInv'
  <2>1. UNCHANGED <<beat, whole, used, tok, rec, seen, hb>>
    BY <1>11 DEF TakeSnap, RetryLater
  <2>2. \A q \in Procs \ {p} : pc'[q] = pc[q]
    BY <1>11 DEF TakeSnap, RetryLater, Inv, CoreType
  <2>3. hb[p] = "off" /\ pc'[p] \notin {"clCreate", "clWrite", "clSync"}
    BY <1>11 DEF TakeSnap, RetryLater, Inv, CoreType, BeatInv, WholeInv
  <2> QED
    BY <2>1, <2>2, <2>3, BeatFrame
<1>12. ASSUME NEW p \in Procs, ClaimBeat(p) PROVE BeatInv'
  <2>f. FreshToken \in Tokens /\ FreshToken \notin used /\ FreshToken # NoTok
    BY <1>12, FreshTokenFact DEF ClaimBeat, Inv, CoreType
  <2>e. /\ tok' = [tok EXCEPT ![p] = FreshToken] /\ used' = used \cup {FreshToken}
        /\ beat' = [beat EXCEPT ![FreshToken] = 1] /\ pc' = [pc EXCEPT ![p] = "clCreate"]
        /\ pc[p] = "clBeat" /\ UNCHANGED <<whole, rec, seen, hb>>
    BY <1>12 DEF ClaimBeat
  <2>1. DrawnInv'
    BY <2>f, <2>e DEF BeatInv, DrawnInv, TimerType
  <2>2. SeenBeatInv'
    BY <2>f, <2>e DEF BeatInv, SeenBeatInv, TimerType, Inv, CoreType
  <2>3. WholeInv'
    <3>1. hb[p] = "off" /\ FreshToken \notin whole
      BY <2>f, <2>e DEF BeatInv, DrawnInv, WholeInv
    <3> QED
      BY <2>f, <2>e, <3>1 DEF BeatInv, WholeInv, Inv, CoreType
  <2> QED
    BY <2>1, <2>2, <2>3 DEF BeatInv
<1>13. ASSUME NEW p \in Procs, ClaimCreate(p) PROVE BeatInv'
  BY <1>13 DEF Inv, CoreType, TimerType, BeatInv, DrawnInv, SeenBeatInv,
     WholeInv, ClaimCreate
<1>14. ASSUME NEW p \in Procs, ClaimWrite(p) PROVE BeatInv'
  <2>1. DrawnInv'
    <3>1. tok[p] \in used
      BY <1>14 DEF ClaimWrite, Inv, TokenInv, HasToken
    <3> QED
      BY <1>14, <3>1 DEF ClaimWrite, BeatInv, DrawnInv
  <2>2. SeenBeatInv'
    BY <1>14 DEF BeatInv, Inv, CoreType, TokenInv, TimerType, SeenBeatInv,
       ClaimWrite
  <2>3. WholeInv'
    <3>1. tok[p] \in used /\ tok[p] # NoTok
      BY <1>14 DEF ClaimWrite, Inv, CoreType, TokenInv, HasToken
    <3>2. \A q \in Procs : q # p => tok[q] # tok[p]
      BY <3>1 DEF Inv, TokenInv
    <3> QED
      BY <1>14, <3>1, <3>2 DEF ClaimWrite, BeatInv, WholeInv, Inv, CoreType
  <2> QED
    BY <2>1, <2>2, <2>3 DEF BeatInv
<1>15. ASSUME NEW p \in Procs, ClaimOwner(p) PROVE BeatInv'
  BY <1>15 DEF Inv, CoreType, TimerType, BeatInv, DrawnInv, SeenBeatInv,
     WholeInv, ClaimOwner, ForgetWait
<1>16. ASSUME NEW p \in Procs, RetireRename(p) PROVE BeatInv'
  <2>1. DrawnInv'
    BY <1>16 DEF BeatInv, Inv, CoreType, TokenInv, TimerType, DrawnInv,
       RetireRename
  <2>2. SeenBeatInv'
    BY <1>16 DEF BeatInv, Inv, CoreType, TokenInv, TimerType, SeenBeatInv,
       RetireRename
  <2>3. WholeInv'
    BY <1>16 DEF BeatInv, Inv, CoreType, TokenInv, TimerType, WholeInv,
       RetireRename
  <2> QED
    BY <2>1, <2>2, <2>3 DEF BeatInv
<1>17. ASSUME NEW p \in Procs, RetireReap(p) PROVE BeatInv'
  <2>e. /\ beat' = [t \in Tokens |-> IF t = rec[p] /\ t \in whole THEN 0 ELSE beat[t]]
        /\ UNCHANGED <<whole, used>> /\ pc[p] = "rtReap"
    BY <1>17 DEF RetireReap, RetirePcs
  <2>l. \/ /\ seen' = [seen EXCEPT ![p] = NoSnap] /\ rec' = [rec EXCEPT ![p] = NoTok]
           /\ hb' = [hb EXCEPT ![p] = "off"] /\ pc' = [pc EXCEPT ![p] = "idle"]
           /\ tok' = [tok EXCEPT ![p] = NoTok]
        \/ UNCHANGED <<seen, rec, hb, tok>> /\ pc' = [pc EXCEPT ![p] = "clBeat"]
    <3>1. CASE Leave(p)
      BY <3>1 DEF Leave, ForgetWait
    <3>2. CASE ~ Leave(p)
      BY <1>17, <3>2 DEF RetireReap
    <3> QED
      BY <3>1, <3>2
  <2>1. DrawnInv'
    BY <2>e, <2>l DEF BeatInv, DrawnInv, TimerType, Inv, CoreType
  <2>2. SeenBeatInv'
    <3>1. \A q \in Procs : seen'[q].tok # NoTok => seen'[q] = seen[q]
      BY <2>l DEF TimerType
    <3>2. \A t \in Tokens : beat'[t] \in {0, beat[t]}
      BY <2>e
    <3> QED
      BY <2>e, <3>1, <3>2 DEF BeatInv, SeenBeatInv, Inv, CoreType
  <2>3. WholeInv'
    <3>1. hb[p] = "off"
      BY <2>e DEF BeatInv, WholeInv
    <3>2. \A q \in Procs : q # p => pc'[q] = pc[q] /\ tok'[q] = tok[q] /\ hb'[q] = hb[q]
      BY <2>l DEF Inv, CoreType, TimerType
    <3>3. hb'[p] = "off" /\ pc'[p] \in {"idle", "clBeat"}
      BY <2>l, <3>1 DEF Inv, CoreType, TimerType
    <3> QED
      BY <2>e, <3>2, <3>3 DEF BeatInv, WholeInv
  <2> QED
    BY <2>1, <2>2, <2>3 DEF BeatInv
<1>18. ASSUME NEW p \in Procs, BeatCheck(p) PROVE BeatInv'
  BY <1>18 DEF Inv, CoreType, TimerType, BeatInv, DrawnInv, SeenBeatInv,
     WholeInv, BeatCheck
<1>19. ASSUME NEW p \in Procs, BeatAppend(p) PROVE BeatInv'
  <2>e. /\ beat' = beat \/ Append(tok[p])
        /\ UNCHANGED <<whole, used, rec, seen, pc, tok>>
        /\ hb[p] = "append" /\ hb' \in {[hb EXCEPT ![p] = "wait"], [hb EXCEPT ![p] = "off"]}
    BY <1>19 DEF BeatAppend
  <2>m. \A t \in Tokens : beat'[t] = beat[t] \/ (beat[t] \in 1..(MaxBeats - 1) /\ beat'[t] = beat[t] + 1)
    BY <2>e, AppendGrows
  <2>1. DrawnInv'
    BY <2>e, <2>m DEF BeatInv, DrawnInv
  <2>2. SeenBeatInv'
    <3> SUFFICES ASSUME NEW q \in Procs, seen[q].tok # NoTok
        PROVE  /\ seen[q].tok \in used
               /\ seen[q].whole => seen[q].tok \in whole
               /\ seen[q].beat <= beat'[seen[q].tok] \/ beat'[seen[q].tok] = 0
      BY <2>e DEF SeenBeatInv
    <3>1. /\ seen[q].tok \in used /\ seen[q].tok \in Tokens
          /\ seen[q].whole => seen[q].tok \in whole
          /\ seen[q].beat <= beat[seen[q].tok] \/ beat[seen[q].tok] = 0
      BY DEF BeatInv, SeenBeatInv, Inv, CoreType
    <3>2. seen[q].beat \in Nat /\ beat[seen[q].tok] \in Nat
      BY <3>1 DEF TimerType, Snapshots
    <3> QED
      BY <2>m, <3>1, <3>2
  <2>3. WholeInv'
    BY <2>e DEF BeatInv, WholeInv, TimerType
  <2> QED
    BY <2>1, <2>2, <2>3 DEF BeatInv
<1>20. ASSUME NEW p \in Procs, OwnerHeartbeat(p) PROVE BeatInv'
  <2>e. /\ beat' = beat \/ Append(tok[p])
        /\ UNCHANGED <<whole, used, rec, seen, hb, tok>>
        /\ pc[p] \in {"own", "ownCheck", "ownAppend"}
        /\ \E l \in {"own", "ownCheck", "ownAppend"} : pc' = [pc EXCEPT ![p] = l]
    BY <1>20 DEF OwnerHeartbeat
  <2>m. \A t \in Tokens : beat'[t] = beat[t] \/ (beat[t] \in 1..(MaxBeats - 1) /\ beat'[t] = beat[t] + 1)
    BY <2>e, AppendGrows
  <2>1. DrawnInv'
    BY <2>e, <2>m DEF BeatInv, DrawnInv
  <2>2. SeenBeatInv'
    <3> SUFFICES ASSUME NEW q \in Procs, seen[q].tok # NoTok
        PROVE  /\ seen[q].tok \in used
               /\ seen[q].whole => seen[q].tok \in whole
               /\ seen[q].beat <= beat'[seen[q].tok] \/ beat'[seen[q].tok] = 0
      BY <2>e DEF SeenBeatInv
    <3>1. /\ seen[q].tok \in used /\ seen[q].tok \in Tokens
          /\ seen[q].whole => seen[q].tok \in whole
          /\ seen[q].beat <= beat[seen[q].tok] \/ beat[seen[q].tok] = 0
      BY DEF BeatInv, SeenBeatInv, Inv, CoreType
    <3>2. seen[q].beat \in Nat /\ beat[seen[q].tok] \in Nat
      BY <3>1 DEF TimerType, Snapshots
    <3> QED
      BY <2>m, <3>1, <3>2
  <2>3. WholeInv'
    BY <2>e DEF BeatInv, WholeInv, TimerType, Inv, CoreType
  <2> QED
    BY <2>1, <2>2, <2>3 DEF BeatInv
<1>21. ASSUME NEW p \in Procs, PublishStart(p) PROVE BeatInv'
  BY <1>21 DEF Inv, CoreType, TimerType, BeatInv, DrawnInv, SeenBeatInv,
     WholeInv, PublishStart, StopHeartbeat
<1>22. ASSUME NEW p \in Procs, PublishLock(p) PROVE BeatInv'
  <2>1. UNCHANGED <<beat, whole, used, tok, rec, seen, hb>>
    BY <1>22 DEF PublishLock
  <2>2. \A q \in Procs \ {p} : pc'[q] = pc[q]
    BY <1>22 DEF PublishLock, Inv, CoreType
  <2>3. hb[p] = "off" /\ pc'[p] \notin {"clCreate", "clWrite", "clSync"}
    BY <1>22 DEF PublishLock, Inv, CoreType, BeatInv, WholeInv
  <2> QED
    BY <2>1, <2>2, <2>3, BeatFrame
<1>23. ASSUME NEW p \in Procs, PublishCheck(p) PROVE BeatInv'
  <2>1. UNCHANGED <<beat, whole, used, tok, rec, seen, hb>>
    BY <1>23 DEF PublishCheck
  <2>2. \A q \in Procs \ {p} : pc'[q] = pc[q]
    BY <1>23 DEF PublishCheck, Inv, CoreType
  <2>3. hb[p] = "off" /\ pc'[p] \notin {"clCreate", "clWrite", "clSync"}
    BY <1>23 DEF PublishCheck, Inv, CoreType, BeatInv, WholeInv
  <2> QED
    BY <2>1, <2>2, <2>3, BeatFrame
<1>24. ASSUME NEW p \in Procs, PublishCommit(p) PROVE BeatInv'
  <2>1. UNCHANGED <<beat, whole, used, tok, rec, seen, hb>>
    BY <1>24 DEF PublishCommit
  <2>2. \A q \in Procs \ {p} : pc'[q] = pc[q]
    BY <1>24 DEF PublishCommit, Inv, CoreType
  <2>3. hb[p] = "off" /\ pc'[p] \notin {"clCreate", "clWrite", "clSync"}
    BY <1>24 DEF PublishCommit, Inv, CoreType, BeatInv, WholeInv
  <2> QED
    BY <2>1, <2>2, <2>3, BeatFrame
<1>25. ASSUME NEW p \in Procs, DropOwner(p) PROVE BeatInv'
  <2>1. DrawnInv'
    <3>1. UNCHANGED <<beat, whole, used>>
      BY <1>25 DEF DropOwner
    <3>2. rec' \in [Procs -> used \cup {NoTok}]
      <4>1. rec \in [Procs -> used \cup {NoTok}]
        BY DEF BeatInv, DrawnInv, Inv, CoreType
      <4>2. rec' = rec \/ rec' = [rec EXCEPT ![p] = NoTok]
        BY <1>25 DEF DropOwner, Leave, ForgetWait
      <4> QED
        BY <4>1, <4>2
    <3> QED
      BY <3>1, <3>2 DEF BeatInv, DrawnInv
  <2>2. SeenBeatInv'
    BY <1>25 DEF BeatInv, Inv, CoreType, TokenInv, TimerType, SeenBeatInv,
       DropOwner, StopHeartbeat, Leave, ForgetWait
  <2>3. WholeInv'
    BY <1>25 DEF BeatInv, Inv, CoreType, TokenInv, TimerType, WholeInv,
       DropOwner, StopHeartbeat, Leave, ForgetWait
  <2> QED
    BY <2>1, <2>2, <2>3 DEF BeatInv
<1>26. ASSUME NEW p \in Procs, Release(p) PROVE BeatInv'
  <2>l. \/ /\ seen' = [seen EXCEPT ![p] = NoSnap] /\ rec' = [rec EXCEPT ![p] = NoTok]
           /\ hb' = [hb EXCEPT ![p] = "off"] /\ pc' = [pc EXCEPT ![p] = "idle"]
           /\ tok' = [tok EXCEPT ![p] = NoTok]
        \/ UNCHANGED <<seen, rec, hb, tok>> /\ pc' = [pc EXCEPT ![p] = "rtRename"]
    <3>1. CASE Leave(p)
      BY <3>1 DEF Leave, ForgetWait
    <3>2. CASE ~ Leave(p)
      BY <1>26, <3>2 DEF Release
    <3> QED
      BY <3>1, <3>2
  <2>e. UNCHANGED <<beat, whole, used>> /\ pc[p] \in {"pubRelease", "dropRelease"}
    BY <1>26 DEF Release
  <2>1. DrawnInv'
    BY <2>e, <2>l DEF BeatInv, DrawnInv, TimerType, Inv, CoreType
  <2>2. SeenBeatInv'
    <3>1. \A q \in Procs : seen'[q].tok # NoTok => seen'[q] = seen[q]
      BY <2>l DEF TimerType
    <3> QED
      BY <2>e, <3>1 DEF BeatInv, SeenBeatInv
  <2>3. WholeInv'
    <3>1. hb[p] = "off"
      BY <2>e DEF BeatInv, WholeInv
    <3>2. \A q \in Procs : q # p => pc'[q] = pc[q] /\ tok'[q] = tok[q] /\ hb'[q] = hb[q]
      BY <2>l DEF Inv, CoreType, TimerType
    <3>3. hb'[p] = "off" /\ pc'[p] \in {"idle", "rtRename"}
      BY <2>l, <3>1 DEF Inv, CoreType, TimerType
    <3> QED
      BY <2>e, <3>2, <3>3 DEF BeatInv, WholeInv
  <2> QED
    BY <2>1, <2>2, <2>3 DEF BeatInv
<1>27. ASSUME NEW p \in Procs, IoError(p) PROVE BeatInv'
  BY <1>27 DEF Inv, CoreType, TimerType, BeatInv, DrawnInv, SeenBeatInv,
     WholeInv, IoError, OpenPcs, LoopPcs, ClaimPcs, TakePcs, RetirePcs
<1>28. ASSUME NEW p \in Procs, DropError(p) PROVE BeatInv'
  BY <1>28 DEF Inv, CoreType, TimerType, BeatInv, DrawnInv, SeenBeatInv,
     WholeInv, DropError, Leave, ForgetWait
<1>29. ASSUME NEW p \in Procs, Return(p) PROVE BeatInv'
  BY <1>29 DEF Inv, CoreType, TimerType, BeatInv, DrawnInv, SeenBeatInv,
     WholeInv, Return, Leave, ForgetWait
<1>30. ASSUME NEW p \in Procs, Crash(p) PROVE BeatInv'
  BY <1>30 DEF Inv, CoreType, TimerType, BeatInv, DrawnInv, SeenBeatInv,
     WholeInv, Crash, Leave, ForgetWait
<1>31. CASE Tick
  BY <1>31 DEF Tick, BeatInv, DrawnInv, SeenBeatInv, WholeInv
<1>u. CASE UNCHANGED vars
  BY <1>u DEF vars, BeatInv, DrawnInv, SeenBeatInv, WholeInv
<1> QED
  BY <1>u, <1>1, <1>2, <1>3, <1>4, <1>5, <1>6, <1>7, <1>8, <1>9, <1>10, <1>11,
     <1>12, <1>13, <1>14, <1>15, <1>16, <1>17, <1>18, <1>19, <1>20, <1>21,
     <1>22, <1>23, <1>24, <1>25, <1>26, <1>27, <1>28, <1>29, <1>30, <1>31 DEF
     Next, Step, Thread

(* Only one process is in a section that the lock guards.                  *)
LEMMA LockAlone ==
  ASSUME Inv, NEW p \in Procs, NEW q \in Procs,
         pc[p] \in GuardedPcs, pc[q] \in GuardedPcs
  PROVE  p = q
  BY DEF Inv, LockInv

(* A thread, or a claim about to start one, has a token of its own.        *)
LEMMA ThreadToken ==
  ASSUME Inv, WholeInv, NEW p \in Procs, Beating(p) \/ pc[p] = "clSync"
  PROVE  tok[p] \in Tokens /\ tok[p] \in whole
  BY DEF Inv, CoreType, WholeInv, Beating

(* observe either keeps the age of an unchanged snapshot or restarts it;   *)
(* it calls for a takeover only when the age is a full window.             *)
LEMMA ObserveLease ==
  ASSUME Prompt = Procs, Inv, TimerType, WaitInv, WindowInv,
         NEW p \in Procs, OpenObserve(p)
  PROVE  /\ seen' = [seen EXCEPT ![p] = SnapshotOf(rec[p])]
         /\ age' = [age EXCEPT ![p] = age'[p]]
         /\ (seen'[p] = seen[p] /\ age'[p] = age[p]) \/ age'[p] = 0
         /\ pc'[p] \in {"take", "timeout", "sleep"}
         /\ \A q \in Procs \ {p} : pc'[q] = pc[q]
         /\ pc'[p] = "take" => age'[p] = Liveness
<1> DEFINE new == SnapshotOf(rec[p])
           quiet == NoProgress(p, new)
<1>1. /\ samp[p].e = elapsed[p] /\ samp[p].a <= age[p] /\ age[p] \in 0..Liveness
      /\ samp[p].a \in 0..Liveness /\ elapsed[p] \in Nat /\ Liveness \in Nat \ {0}
  BY OptionsAssumption DEF OpenObserve, At, WaitInv, WindowInv, DecidingPcs, TimerType,
     OptionsValid, Cap
<1>2. /\ seen' = [seen EXCEPT ![p] = new] /\ age' = [age EXCEPT ![p] = NewAge(p, new)]
      /\ pc' = [pc EXCEPT ![p] = Decision(quiet, samp[p].e)]
  BY DEF OpenObserve, Goto
<1> HIDE DEF new
<1>3. seen'[p] = new /\ age'[p] = NewAge(p, new) /\ pc'[p] = Decision(quiet, samp[p].e)
      /\ \A q \in Procs \ {p} : pc'[q] = pc[q]
  BY <1>2 DEF TimerType, Inv, CoreType
<1>4. (new = seen[p] /\ NewAge(p, new) = age[p]) \/ NewAge(p, new) = 0
  BY <1>1 DEF NewAge, MinOf
<1>5. pc'[p] \in {"take", "timeout", "sleep"}
  BY <1>3 DEF Decision
<1>6. pc'[p] = "take" => quiet >= Liveness
  BY <1>3 DEF Decision
<1>7. quiet >= Liveness => new = seen[p] /\ age[p] = Liveness /\ NewAge(p, new) = age[p]
  BY <1>1 DEF NoProgress, NewAge
<1> QED
  BY <1>2, <1>3, <1>4, <1>5, <1>6, <1>7 DEF new

(* A step that leaves what was seen, the threads and their files alone.    *)
LEMMA SeenAgeFrame ==
  ASSUME SeenAgeInv, UNCHANGED <<beat, seen, age, tok, hb, due>>,
         \A p \in Procs : pc'[p] = "clSync" => pc[p] = "clSync"
  PROVE  SeenAgeInv'
  BY DEF SeenAgeInv, Sees, Beating

(* A step that leaves the record and the heartbeat files alone, starts no  *)
(* takeover's retirement and no thread.                                    *)
LEMMA RetiringFrame ==
  ASSUME RetiringInv, UNCHANGED <<infl, beat>>,
         \A q \in Procs : pc'[q] = "rtRename" /\ why'[q] = "take" =>
                            pc[q] = "rtRename" /\ why[q] = "take",
         \A p \in Procs : hb'[p] # "off" => hb[p] # "off" /\ tok'[p] = tok[p]
  PROVE  RetiringInv'
  BY DEF RetiringInv, Beating

(* No record is about to be retired while another process is in a section  *)
(* that the lock guards.                                                   *)
LEMMA RetiringAlone ==
  ASSUME Inv, NEW p \in Procs, pc[p] \in GuardedPcs, pc'[p] # "rtRename",
         \A q \in Procs \ {p} : pc'[q] = pc[q]
  PROVE  RetiringInv'
<1>1. ASSUME NEW q \in Procs, pc'[q] = "rtRename" PROVE FALSE
  <2>1. q # p /\ pc[q] \in GuardedPcs
    BY <1>1 DEF GuardedPcs, RetirePcs
  <2> QED
    BY <2>1, LockAlone
<1> QED
  BY <1>1 DEF RetiringInv

(* A process that leaves takes what it has seen and its thread with it.    *)
LEMMA LeaveLease ==
  ASSUME Inv, TimerType, BeatInv, LeaseInv, NEW p \in Procs, Leave(p),
         UNCHANGED beat
  PROVE  SeenAgeInv'
<1>1. /\ pc' = [pc EXCEPT ![p] = "idle"] /\ tok' = [tok EXCEPT ![p] = NoTok]
      /\ hb' = [hb EXCEPT ![p] = "off"] /\ due' = [due EXCEPT ![p] = 0]
      /\ seen' = [seen EXCEPT ![p] = NoSnap] /\ age' = [age EXCEPT ![p] = 0]
  BY DEF Leave, ForgetWait, Goto
<1>2. /\ hb'[p] = "off" /\ pc'[p] = "idle" /\ ~ seen'[p].whole
      /\ \A q \in Procs \ {p} : /\ hb'[q] = hb[q] /\ pc'[q] = pc[q] /\ tok'[q] = tok[q]
                                /\ seen'[q] = seen[q] /\ age'[q] = age[q] /\ due'[q] = due[q]
  BY <1>1 DEF Inv, CoreType, TimerType, NoSnap
<1> QED
  BY <1>2 DEF LeaseInv, SeenAgeInv, Sees, Beating

(* Between two refreshes of a thread that is not delayed no waiter's window*)
(* runs out, so nobody is about to retire the record it refreshes.         *)
LEMMA StepLease ==
    Prompt = Procs => (Inv /\ TimerType /\ WaitInv /\ BeatInv /\ LeaseInv /\ [Next]_vars => LeaseInv')
<1> SUFFICES ASSUME Prompt = Procs, Inv, TimerType, WaitInv, BeatInv, LeaseInv, [Next]_vars PROVE LeaseInv'
  OBVIOUS
<1> USE NoTokAssumption, BoundsAssumption, OptionsAssumption
    DEF fsvars, wvars, hvars, hist, At, Goto, Unlock, OptionsValid
<1>1. ASSUME NEW p \in Procs, Open(p) PROVE LeaseInv'
  <2>1. SeenAgeInv'
    BY <1>1 DEF LeaseInv, SeenAgeInv, Sees, Beating, Inv, CoreType,
       TimerType, Open
  <2>2. WindowInv'
    BY <1>1 DEF LeaseInv, WindowInv, Inv, CoreType, TimerType, Open
  <2>3. RetiringInv'
    BY <1>1 DEF LeaseInv, RetiringInv, Beating, Inv, CoreType, TimerType,
       Open
  <2> QED
    BY <2>1, <2>2, <2>3 DEF LeaseInv
<1>2. ASSUME NEW p \in Procs, OpenRead(p) PROVE LeaseInv'
  <2>1. SeenAgeInv'
    BY <1>2 DEF LeaseInv, SeenAgeInv, Sees, Beating, Inv, CoreType,
       TimerType, OpenRead
  <2>2. WindowInv'
    BY <1>2 DEF LeaseInv, WindowInv, Inv, CoreType, TimerType, OpenRead
  <2>3. RetiringInv'
    BY <1>2 DEF LeaseInv, RetiringInv, Beating, Inv, CoreType, TimerType,
       OpenRead
  <2> QED
    BY <2>1, <2>2, <2>3 DEF LeaseInv
<1>3. ASSUME NEW p \in Procs, OpenNow(p) PROVE LeaseInv'
  <2>1. SeenAgeInv'
    BY <1>3 DEF LeaseInv, SeenAgeInv, Sees, Beating, Inv, CoreType,
       TimerType, OpenNow
  <2>2. WindowInv'
    BY <1>3 DEF LeaseInv, WindowInv, Inv, CoreType, TimerType, OpenNow
  <2>3. RetiringInv'
    BY <1>3 DEF LeaseInv, RetiringInv, Beating, Inv, CoreType, TimerType,
       OpenNow
  <2> QED
    BY <2>1, <2>2, <2>3 DEF LeaseInv
<1>4. ASSUME NEW p \in Procs, OpenSnap(p) PROVE LeaseInv'
  <2>1. SeenAgeInv'
    <3>1. \A q \in Procs : pc'[q] = "clSync" => pc[q] = "clSync"
      BY <1>4 DEF OpenSnap, Inv, CoreType
    <3> QED
      BY <1>4, <3>1, SeenAgeFrame DEF OpenSnap, LeaseInv
  <2>2. WindowInv'
    BY <1>4 DEF LeaseInv, WindowInv, Inv, CoreType, TimerType, OpenSnap
  <2>3. RetiringInv'
    BY <1>4 DEF LeaseInv, RetiringInv, Beating, Inv, CoreType, TimerType,
       OpenSnap
  <2> QED
    BY <2>1, <2>2, <2>3 DEF LeaseInv
<1>5. ASSUME NEW p \in Procs, OpenObserve(p) PROVE LeaseInv'
  <2>o. UNCHANGED <<beat, tok, hb, due, samp, infl, why>>
    BY <1>5 DEF OpenObserve
  <2>1. SeenAgeInv'
    <3> SUFFICES ASSUME NEW r \in Procs, NEW q \in Procs, Sees(q, r)'
        PROVE  /\ Beating(r)' => age'[q] + due'[r] <= Heartbeat
               /\ pc'[r] = "clSync" => age'[q] = 0
      BY DEF SeenAgeInv
    <3>1. Beating(r)' => Beating(r)
      BY <2>o DEF Beating
    <3>2. pc'[r] = "clSync" => pc[r] = "clSync"
      BY <1>5, ObserveLease DEF LeaseInv
    <3>3. CASE age'[q] = 0
      BY <2>o, <3>3 DEF TimerType
    <3>4. CASE seen'[q] = seen[q] /\ age'[q] = age[q]
      BY <2>o, <3>1, <3>2, <3>4 DEF LeaseInv, SeenAgeInv, Sees
    <3>5. q # p => seen'[q] = seen[q] /\ age'[q] = age[q]
      BY <1>5, ObserveLease DEF LeaseInv, TimerType
    <3> QED
      BY <1>5, <3>3, <3>4, <3>5, ObserveLease DEF LeaseInv
  <2>2. WindowInv'
    <3>1. \A q \in Procs \ {p} : age'[q] = age[q]
      BY <1>5, ObserveLease DEF LeaseInv, TimerType
    <3>2. \A q \in Procs \ {p} : pc'[q] = pc[q]
      BY <1>5, ObserveLease DEF LeaseInv
    <3>3. /\ pc'[p] \in {"take", "timeout", "sleep"}
          /\ pc'[p] = "take" => age'[p] = Liveness
      BY <1>5, ObserveLease DEF LeaseInv
    <3> QED
      BY <2>o, <3>1, <3>2, <3>3 DEF LeaseInv, WindowInv
  <2>3. RetiringInv'
    BY <1>5 DEF LeaseInv, RetiringInv, Beating, Inv, CoreType, TimerType,
       OpenObserve, Decision, SnapshotOf, NewAge, NoProgress
  <2> QED
    BY <2>1, <2>2, <2>3 DEF LeaseInv
<1>6. ASSUME NEW p \in Procs, OpenWake(p) PROVE LeaseInv'
  <2>1. SeenAgeInv'
    BY <1>6 DEF LeaseInv, SeenAgeInv, Sees, Beating, Inv, CoreType,
       TimerType, OpenWake
  <2>2. WindowInv'
    BY <1>6 DEF LeaseInv, WindowInv, Inv, CoreType, TimerType, OpenWake
  <2>3. RetiringInv'
    BY <1>6 DEF LeaseInv, RetiringInv, Beating, Inv, CoreType, TimerType,
       OpenWake
  <2> QED
    BY <2>1, <2>2, <2>3 DEF LeaseInv
<1>7. ASSUME NEW p \in Procs, ClaimGuard(p) PROVE LeaseInv'
  <2>1. SeenAgeInv'
    BY <1>7 DEF LeaseInv, SeenAgeInv, Sees, Beating, Inv, CoreType,
       TimerType, ClaimGuard, TryGuard, RetryLater
  <2>2. WindowInv'
    BY <1>7 DEF LeaseInv, WindowInv, Inv, CoreType, TimerType, ClaimGuard,
       TryGuard, RetryLater
  <2>3. RetiringInv'
    BY <1>7 DEF LeaseInv, RetiringInv, Beating, Inv, CoreType, TimerType,
       ClaimGuard, TryGuard, RetryLater
  <2> QED
    BY <2>1, <2>2, <2>3 DEF LeaseInv
<1>8. ASSUME NEW p \in Procs, TakeGuard(p) PROVE LeaseInv'
  <2>1. SeenAgeInv'
    BY <1>8 DEF LeaseInv, SeenAgeInv, Sees, Beating, Inv, CoreType,
       TimerType, TakeGuard, TryGuard, RetryLater
  <2>2. WindowInv'
    BY <1>8 DEF LeaseInv, WindowInv, Inv, CoreType, TimerType, TakeGuard,
       TryGuard, RetryLater
  <2>3. RetiringInv'
    BY <1>8 DEF LeaseInv, RetiringInv, Beating, Inv, CoreType, TimerType,
       TakeGuard, TryGuard, RetryLater
  <2> QED
    BY <2>1, <2>2, <2>3 DEF LeaseInv
<1>9. ASSUME NEW p \in Procs, LockedRead(p) PROVE LeaseInv'
  <2>1. SeenAgeInv'
    <3>1. \A q \in Procs : pc'[q] = "clSync" => pc[q] = "clSync"
      BY <1>9 DEF LockedRead, Inv, CoreType
    <3> QED
      BY <1>9, <3>1, SeenAgeFrame DEF LockedRead, LeaseInv
  <2>2. WindowInv'
    BY <1>9 DEF LeaseInv, WindowInv, Inv, CoreType, TimerType, LockedRead
  <2>3. RetiringInv'
    BY <1>9 DEF LeaseInv, RetiringInv, Beating, Inv, CoreType, TimerType,
       LockedRead
  <2> QED
    BY <2>1, <2>2, <2>3 DEF LeaseInv
<1>10. ASSUME NEW p \in Procs, ClaimSnap(p) PROVE LeaseInv'
  <2>1. SeenAgeInv'
    BY <1>10 DEF LeaseInv, SeenAgeInv, Sees, Beating, Inv, CoreType,
       TimerType, ClaimSnap, RetryLater
  <2>2. WindowInv'
    BY <1>10 DEF LeaseInv, WindowInv, Inv, CoreType, TimerType, ClaimSnap,
       RetryLater
  <2>3. RetiringInv'
    BY <1>10 DEF LeaseInv, RetiringInv, Beating, Inv, CoreType, TimerType,
       ClaimSnap, RetryLater
  <2> QED
    BY <2>1, <2>2, <2>3 DEF LeaseInv
<1>11. ASSUME NEW p \in Procs, TakeSnap(p) PROVE LeaseInv'
  <2>o. UNCHANGED <<beat, tok, hb, infl>>
    BY <1>11 DEF TakeSnap
  <2>1. SeenAgeInv'
    BY <1>11 DEF LeaseInv, SeenAgeInv, Sees, Beating, Inv, CoreType,
       TimerType, TakeSnap, RetryLater
  <2>2. WindowInv'
    BY <1>11 DEF LeaseInv, WindowInv, Inv, CoreType, TimerType, TakeSnap,
       RetryLater
  <2>3. RetiringInv'
    <3> SUFFICES ASSUME NEW r \in Procs, NEW q \in Procs, Beating(r), infl = tok[r],
                        pc'[q] = "rtRename", why'[q] = "take"
        PROVE  FALSE
      BY <2>o DEF RetiringInv, Beating
    <3>1. CASE pc[q] = "rtRename" /\ why[q] = "take"
      BY <3>1 DEF LeaseInv, RetiringInv
    <3>2. CASE ~ (pc[q] = "rtRename" /\ why[q] = "take")
      <4>1. q = p /\ SnapshotOf(infl) = seen[p] /\ pc[p] = "tkSnap"
        BY <1>11, <3>2 DEF TakeSnap, RetryLater, Inv, CoreType
      <4>2. tok[r] \in Tokens /\ tok[r] \in whole
        BY ThreadToken DEF BeatInv
      <4>3. Sees(p, r)
        <5>1. seen[p] = SnapshotOf(tok[r])
          BY <4>1
        <5>2. SnapshotOf(tok[r]).tok = tok[r] /\ SnapshotOf(tok[r]).beat = beat[tok[r]]
          BY <4>2, SnapFields
        <5>3. SnapshotOf(tok[r]).whole
          BY <4>2, SnapFields
        <5> QED
          BY <5>1, <5>2, <5>3 DEF Sees
      <4>4. age[p] + due[r] <= Heartbeat /\ age[p] = Liveness
        BY <4>1, <4>3 DEF LeaseInv, SeenAgeInv, WindowInv
      <4>5. due[r] \in Nat /\ Heartbeat \in Nat /\ Liveness \in Nat
        BY DEF TimerType
      <4> QED
        BY <4>4, <4>5
    <3> QED
      BY <3>1, <3>2
  <2> QED
    BY <2>1, <2>2, <2>3 DEF LeaseInv
<1>12. ASSUME NEW p \in Procs, ClaimBeat(p) PROVE LeaseInv'
  <2>f. FreshToken \in Tokens /\ FreshToken \notin used /\ FreshToken # NoTok
    BY <1>12, FreshTokenFact DEF ClaimBeat, Inv, CoreType
  <2>e. /\ tok' = [tok EXCEPT ![p] = FreshToken] /\ beat' = [beat EXCEPT ![FreshToken] = 1]
        /\ pc' = [pc EXCEPT ![p] = "clCreate"] /\ pc[p] = "clBeat"
        /\ UNCHANGED <<seen, age, hb, due>>
    BY <1>12 DEF ClaimBeat
  <2>1. SeenAgeInv'
    <3> SUFFICES ASSUME NEW r \in Procs, NEW q \in Procs, Sees(q, r)', Beating(r)' \/ pc'[r] = "clSync"
        PROVE  /\ Beating(r)' => age'[q] + due'[r] <= Heartbeat
               /\ pc'[r] = "clSync" => age'[q] = 0
      BY DEF SeenAgeInv
    <3>1. hb[p] = "off"
      BY <2>e DEF BeatInv, WholeInv
    <3>2. r # p /\ pc'[r] = pc[r] /\ tok'[r] = tok[r] /\ hb'[r] = hb[r]
      BY <2>e, <3>1 DEF Beating, Inv, CoreType
    <3>3. tok[r] \in whole /\ tok[r] \in Tokens
      BY <3>2 DEF BeatInv, WholeInv, Inv, CoreType, Beating
    <3>4. tok[r] # FreshToken
      BY <2>f, <3>3 DEF BeatInv, DrawnInv
    <3>5. beat'[tok[r]] = beat[tok[r]]
      BY <2>e, <3>3, <3>4 DEF TimerType
    <3> QED
      BY <2>e, <3>2, <3>5 DEF LeaseInv, SeenAgeInv, Sees, Beating
  <2>2. WindowInv'
    BY <1>12 DEF LeaseInv, WindowInv, Inv, CoreType, TimerType, ClaimBeat
  <2>3. RetiringInv'
    <3>1. pc[p] \in GuardedPcs /\ pc'[p] # "rtRename" /\ \A q \in Procs \ {p} : pc'[q] = pc[q]
      BY <1>12 DEF ClaimBeat, Inv, CoreType, GuardedPcs, ClaimPcs, TakePcs,
         RetirePcs
    <3> QED
      BY <3>1, RetiringAlone
  <2> QED
    BY <2>1, <2>2, <2>3 DEF LeaseInv
<1>13. ASSUME NEW p \in Procs, ClaimCreate(p) PROVE LeaseInv'
  <2>1. SeenAgeInv'
    <3>1. \A q \in Procs : pc'[q] = "clSync" => pc[q] = "clSync"
      BY <1>13 DEF ClaimCreate, Inv, CoreType
    <3> QED
      BY <1>13, <3>1, SeenAgeFrame DEF ClaimCreate, LeaseInv
  <2>2. WindowInv'
    BY <1>13 DEF LeaseInv, WindowInv, Inv, CoreType, TimerType, ClaimCreate
  <2>3. RetiringInv'
    <3>1. pc[p] \in GuardedPcs /\ pc'[p] # "rtRename" /\ \A q \in Procs \ {p} : pc'[q] = pc[q]
      BY <1>13 DEF ClaimCreate, Inv, CoreType, GuardedPcs, ClaimPcs, TakePcs,
         RetirePcs
    <3> QED
      BY <3>1, RetiringAlone
  <2> QED
    BY <2>1, <2>2, <2>3 DEF LeaseInv
<1>14. ASSUME NEW p \in Procs, ClaimWrite(p) PROVE LeaseInv'
  <2>1. SeenAgeInv'
    <3>1. UNCHANGED <<beat, seen, age, tok, hb, due>> /\ pc[p] = "clWrite"
          /\ \A q \in Procs \ {p} : pc'[q] = pc[q]
      BY <1>14 DEF ClaimWrite, Inv, CoreType
    <3>2. tok[p] \in used /\ tok[p] \notin whole /\ hb[p] = "off"
      BY <3>1 DEF Inv, TokenInv, HasToken, BeatInv, WholeInv
    <3>3. ASSUME NEW q \in Procs PROVE ~ Sees(q, p)
      <4>1. tok[p] # NoTok
        BY <3>2 DEF Inv, CoreType
      <4> QED
        BY <3>2, <4>1 DEF Sees, BeatInv, SeenBeatInv
    <3> QED
      BY <3>1, <3>2, <3>3 DEF LeaseInv, SeenAgeInv, Sees, Beating
  <2>2. WindowInv'
    BY <1>14 DEF LeaseInv, WindowInv, Inv, CoreType, TimerType, ClaimWrite
  <2>3. RetiringInv'
    BY <1>14 DEF LeaseInv, RetiringInv, Beating, Inv, CoreType, TimerType,
       ClaimWrite
  <2> QED
    BY <2>1, <2>2, <2>3 DEF LeaseInv
<1>15. ASSUME NEW p \in Procs, ClaimOwner(p) PROVE LeaseInv'
  <2>1. SeenAgeInv'
    BY <1>15 DEF LeaseInv, SeenAgeInv, Sees, Beating, Inv, CoreType,
       TimerType, ClaimOwner, ForgetWait
  <2>2. WindowInv'
    BY <1>15 DEF LeaseInv, WindowInv, Inv, CoreType, TimerType, ClaimOwner,
       ForgetWait
  <2>3. RetiringInv'
    <3>1. pc[p] \in GuardedPcs /\ pc'[p] # "rtRename" /\ \A q \in Procs \ {p} : pc'[q] = pc[q]
      BY <1>15 DEF ClaimOwner, ForgetWait, Inv, CoreType, GuardedPcs,
         ClaimPcs, TakePcs, RetirePcs
    <3> QED
      BY <3>1, RetiringAlone
  <2> QED
    BY <2>1, <2>2, <2>3 DEF LeaseInv
<1>16. ASSUME NEW p \in Procs, RetireRename(p) PROVE LeaseInv'
  <2>1. SeenAgeInv'
    <3>1. \A q \in Procs : pc'[q] = "clSync" => pc[q] = "clSync"
      BY <1>16 DEF RetireRename, Inv, CoreType
    <3> QED
      BY <1>16, <3>1, SeenAgeFrame DEF RetireRename, LeaseInv
  <2>2. WindowInv'
    BY <1>16 DEF LeaseInv, WindowInv, Inv, CoreType, TimerType, RetireRename
  <2>3. RetiringInv'
    <3>1. pc[p] \in GuardedPcs /\ pc'[p] # "rtRename" /\ \A q \in Procs \ {p} : pc'[q] = pc[q]
      BY <1>16 DEF RetireRename, Inv, CoreType, GuardedPcs, ClaimPcs,
         TakePcs, RetirePcs
    <3> QED
      BY <3>1, RetiringAlone
  <2> QED
    BY <2>1, <2>2, <2>3 DEF LeaseInv
<1>17. ASSUME NEW p \in Procs, RetireReap(p) PROVE LeaseInv'
  <2>e. /\ beat' = [t \in Tokens |-> IF t = rec[p] /\ t \in whole THEN 0 ELSE beat[t]]
        /\ pc[p] = "rtReap"
    BY <1>17 DEF RetireReap
  <2>1. SeenAgeInv'
    <3>1. hb[p] = "off"
      BY <2>e DEF BeatInv, WholeInv
    <3>2. /\ hb'[p] = "off" /\ pc'[p] # "clSync"
          /\ \A q \in Procs \ {p} : /\ pc'[q] = pc[q] /\ tok'[q] = tok[q]
                                    /\ hb'[q] = hb[q] /\ due'[q] = due[q]
      <4>1. CASE Leave(p)
        BY <4>1 DEF Leave, Inv, CoreType, TimerType
      <4>2. CASE ~ Leave(p)
        BY <1>17, <3>1, <4>2 DEF RetireReap, Inv, CoreType, TimerType
      <4> QED
        BY <4>1, <4>2
    <3>3. \A q \in Procs : seen'[q].whole => seen'[q] = seen[q] /\ age'[q] = age[q]
      <4>1. CASE Leave(p)
        BY <4>1 DEF Leave, ForgetWait, TimerType, NoSnap
      <4>2. CASE ~ Leave(p)
        BY <1>17, <4>2 DEF RetireReap
      <4> QED
        BY <4>1, <4>2
    <3> SUFFICES ASSUME NEW r \in Procs, NEW q \in Procs, Sees(q, r)', Beating(r)' \/ pc'[r] = "clSync"
        PROVE  Beating(r)' /\ age'[q] + due'[r] <= Heartbeat /\ pc'[r] # "clSync"
      BY DEF SeenAgeInv
    <3>4. r # p /\ pc[r] = pc'[r] /\ tok'[r] = tok[r] /\ hb'[r] = hb[r] /\ due'[r] = due[r]
      BY <3>2 DEF Beating
    <3>5. pc[r] # "clSync"
      BY <2>e, <3>4, LockAlone DEF GuardedPcs, ClaimPcs, RetirePcs
    <3>6. tok[r] \in Tokens
      BY <3>4, <3>5 DEF BeatInv, WholeInv, Inv, CoreType, Beating
    <3>7. beat'[tok[r]] = beat[tok[r]]
      BY <2>e, <3>4, <3>5, <3>6 DEF Beating
    <3>8. Sees(q, r) /\ Beating(r) /\ age'[q] = age[q]
      BY <3>3, <3>4, <3>5, <3>7 DEF Sees, Beating
    <3> QED
      BY <3>4, <3>5, <3>8 DEF LeaseInv, SeenAgeInv
  <2>2. WindowInv'
    BY <1>17 DEF LeaseInv, WindowInv, Inv, CoreType, TimerType, RetireReap,
       Leave, ForgetWait
  <2>3. RetiringInv'
    <3>1. pc[p] \in GuardedPcs /\ pc'[p] # "rtRename" /\ \A q \in Procs \ {p} : pc'[q] = pc[q]
      BY <1>17 DEF RetireReap, Leave, ForgetWait, Inv, CoreType, GuardedPcs,
         ClaimPcs, TakePcs, RetirePcs
    <3> QED
      BY <3>1, RetiringAlone
  <2> QED
    BY <2>1, <2>2, <2>3 DEF LeaseInv
<1>18. ASSUME NEW p \in Procs, BeatCheck(p) PROVE LeaseInv'
  <2>1. SeenAgeInv'
    BY <1>18 DEF LeaseInv, SeenAgeInv, Sees, Beating, Inv, CoreType,
       TimerType, BeatCheck
  <2>2. WindowInv'
    BY <1>18 DEF LeaseInv, WindowInv, Inv, CoreType, TimerType, BeatCheck
  <2>3. RetiringInv'
    <3>1. /\ UNCHANGED <<infl, beat, pc, why, tok>>
          /\ \A q \in Procs : hb'[q] # "off" => hb[q] # "off"
      BY <1>18 DEF BeatCheck, TimerType
    <3> QED
      BY <3>1, RetiringFrame DEF LeaseInv
  <2> QED
    BY <2>1, <2>2, <2>3 DEF LeaseInv
<1>19. ASSUME NEW p \in Procs, BeatAppend(p) PROVE LeaseInv'
  <2>e. /\ beat' = beat \/ Append(tok[p])
        /\ UNCHANGED <<whole, used, seen, age, pc, tok, infl, why>> /\ hb[p] = "append"
        /\ \/ Append(tok[p]) /\ hb' = [hb EXCEPT ![p] = "wait"] /\ due' = [due EXCEPT ![p] = Heartbeat]
           \/ hb' = [hb EXCEPT ![p] = "off"] /\ UNCHANGED due
    BY <1>19 DEF BeatAppend
  <2>m. \A t \in Tokens : beat'[t] = beat[t] \/ (beat[t] \in 1..(MaxBeats - 1) /\ beat'[t] = beat[t] + 1)
    BY <2>e, AppendGrows
  <2>h. \A q \in Procs : hb'[q] # "off" => hb[q] # "off"
    BY <2>e DEF TimerType
  <2>1. SeenAgeInv'
    <3> SUFFICES ASSUME NEW r \in Procs, NEW q \in Procs, Sees(q, r)', Beating(r)' \/ pc'[r] = "clSync"
        PROVE  /\ Beating(r)' => age'[q] + due'[r] <= Heartbeat
               /\ pc'[r] = "clSync" => age'[q] = 0
      BY DEF SeenAgeInv
    <3>1. tok[r] \in Tokens /\ tok[r] \in used /\ seen[q].tok = tok[r] /\ tok[r] # NoTok
      BY <2>e, <2>h DEF BeatInv, WholeInv, DrawnInv, Inv, CoreType, Beating, Sees
    <3>2. beat'[tok[r]] = beat[tok[r]]
      <4>1. beat[tok[r]] \in Nat
        BY <3>1 DEF TimerType
      <4>2. seen[q].beat <= beat[tok[r]] \/ beat[tok[r]] = 0
        BY <3>1 DEF BeatInv, SeenBeatInv
      <4>3. seen[q].beat = beat'[tok[r]]
        BY <2>e, <3>1 DEF Sees
      <4> QED
        BY <2>m, <3>1, <4>1, <4>2, <4>3
    <3>3. ~ Append(tok[p]) \/ r # p
      <4>1. ASSUME Append(tok[p]), r = p PROVE FALSE
        <5>1. beat' = [beat EXCEPT ![tok[r]] = beat[tok[r]] + 1] /\ beat[tok[r]] \in 1..(MaxBeats - 1)
          BY <4>1 DEF Append
        <5> QED
          BY <3>1, <3>2, <5>1 DEF TimerType
      <4> QED
        BY <4>1
    <3>4. Beating(r)' => due'[r] = due[r]
      BY <2>e, <3>3 DEF Beating, TimerType
    <3> QED
      BY <2>e, <2>h, <3>2, <3>4 DEF LeaseInv, SeenAgeInv, Sees, Beating
  <2>2. WindowInv'
    BY <1>19 DEF LeaseInv, WindowInv, Inv, CoreType, TimerType, BeatAppend,
       Append
  <2>3. RetiringInv'
    <3>1. ASSUME NEW r \in Procs, Beating(r)' PROVE Beating(r)
      <4>1. hb[r] # "off" /\ tok'[r] = tok[r]
        BY <2>e, <2>h, <3>1 DEF Beating
      <4>2. tok[r] \in Tokens
        BY <4>1 DEF BeatInv, WholeInv, Inv, CoreType
      <4> QED
        BY <2>m, <3>1, <4>1, <4>2 DEF Beating
    <3> QED
      BY <2>e, <3>1 DEF LeaseInv, RetiringInv
  <2> QED
    BY <2>1, <2>2, <2>3 DEF LeaseInv
<1>20. ASSUME NEW p \in Procs, OwnerHeartbeat(p) PROVE LeaseInv'
  <2>e. /\ beat' = beat \/ Append(tok[p])
        /\ UNCHANGED <<whole, used, seen, age, hb, due, tok, infl, why>>
        /\ \E l \in {"own", "ownCheck", "ownAppend"} : pc' = [pc EXCEPT ![p] = l]
    BY <1>20 DEF OwnerHeartbeat
  <2>m. \A t \in Tokens : beat'[t] = beat[t] \/ (beat[t] \in 1..(MaxBeats - 1) /\ beat'[t] = beat[t] + 1)
    BY <2>e, AppendGrows
  <2>h. \A q \in Procs : pc'[q] \in {"clSync", "rtRename"} => pc[q] = pc'[q]
    BY <2>e DEF Inv, CoreType
  <2>1. SeenAgeInv'
    <3> SUFFICES ASSUME NEW r \in Procs, NEW q \in Procs, Sees(q, r)', Beating(r)' \/ pc'[r] = "clSync"
        PROVE  /\ Beating(r)' => age'[q] + due'[r] <= Heartbeat
               /\ pc'[r] = "clSync" => age'[q] = 0
      BY DEF SeenAgeInv
    <3>1. tok[r] \in Tokens /\ tok[r] \in used /\ seen[q].tok = tok[r] /\ tok[r] # NoTok
      BY <2>e, <2>h DEF BeatInv, WholeInv, DrawnInv, Inv, CoreType, Beating, Sees
    <3>2. beat'[tok[r]] = beat[tok[r]]
      <4>1. beat[tok[r]] \in Nat
        BY <3>1 DEF TimerType
      <4>2. seen[q].beat <= beat[tok[r]] \/ beat[tok[r]] = 0
        BY <3>1 DEF BeatInv, SeenBeatInv
      <4>3. seen[q].beat = beat'[tok[r]]
        BY <2>e, <3>1 DEF Sees
      <4> QED
        BY <2>m, <3>1, <4>1, <4>2, <4>3
    <3> QED
      BY <2>e, <2>h, <3>2 DEF LeaseInv, SeenAgeInv, Sees, Beating
  <2>2. WindowInv'
    BY <1>20 DEF LeaseInv, WindowInv, Inv, CoreType, TimerType,
       OwnerHeartbeat, Append
  <2>3. RetiringInv'
    <3>1. ASSUME NEW r \in Procs, Beating(r)' PROVE Beating(r)
      <4>1. hb[r] # "off" /\ tok'[r] = tok[r]
        BY <2>e, <3>1 DEF Beating
      <4>2. tok[r] \in Tokens
        BY <4>1 DEF BeatInv, WholeInv, Inv, CoreType
      <4> QED
        BY <2>m, <3>1, <4>1, <4>2 DEF Beating
    <3> QED
      BY <2>e, <2>h, <3>1 DEF LeaseInv, RetiringInv
  <2> QED
    BY <2>1, <2>2, <2>3 DEF LeaseInv
<1>21. ASSUME NEW p \in Procs, PublishStart(p) PROVE LeaseInv'
  <2>1. SeenAgeInv'
    BY <1>21 DEF LeaseInv, SeenAgeInv, Sees, Beating, Inv, CoreType,
       TimerType, PublishStart, StopHeartbeat
  <2>2. WindowInv'
    BY <1>21 DEF LeaseInv, WindowInv, Inv, CoreType, TimerType, PublishStart,
       StopHeartbeat
  <2>3. RetiringInv'
    BY <1>21 DEF LeaseInv, RetiringInv, Beating, Inv, CoreType, TimerType,
       PublishStart, StopHeartbeat
  <2> QED
    BY <2>1, <2>2, <2>3 DEF LeaseInv
<1>22. ASSUME NEW p \in Procs, PublishLock(p) PROVE LeaseInv'
  <2>1. SeenAgeInv'
    <3>1. \A q \in Procs : pc'[q] = "clSync" => pc[q] = "clSync"
      BY <1>22 DEF PublishLock, Inv, CoreType
    <3> QED
      BY <1>22, <3>1, SeenAgeFrame DEF PublishLock, LeaseInv
  <2>2. WindowInv'
    BY <1>22 DEF LeaseInv, WindowInv, Inv, CoreType, TimerType, PublishLock
  <2>3. RetiringInv'
    BY <1>22 DEF LeaseInv, RetiringInv, Beating, Inv, CoreType, TimerType,
       PublishLock
  <2> QED
    BY <2>1, <2>2, <2>3 DEF LeaseInv
<1>23. ASSUME NEW p \in Procs, PublishCheck(p) PROVE LeaseInv'
  <2>1. SeenAgeInv'
    <3>1. \A q \in Procs : pc'[q] = "clSync" => pc[q] = "clSync"
      BY <1>23 DEF PublishCheck, Inv, CoreType
    <3> QED
      BY <1>23, <3>1, SeenAgeFrame DEF PublishCheck, LeaseInv
  <2>2. WindowInv'
    BY <1>23 DEF LeaseInv, WindowInv, Inv, CoreType, TimerType, PublishCheck
  <2>3. RetiringInv'
    BY <1>23 DEF LeaseInv, RetiringInv, Beating, Inv, CoreType, TimerType,
       PublishCheck
  <2> QED
    BY <2>1, <2>2, <2>3 DEF LeaseInv
<1>24. ASSUME NEW p \in Procs, PublishCommit(p) PROVE LeaseInv'
  <2>1. SeenAgeInv'
    <3>1. \A q \in Procs : pc'[q] = "clSync" => pc[q] = "clSync"
      BY <1>24 DEF PublishCommit, Inv, CoreType
    <3> QED
      BY <1>24, <3>1, SeenAgeFrame DEF PublishCommit, LeaseInv
  <2>2. WindowInv'
    BY <1>24 DEF LeaseInv, WindowInv, Inv, CoreType, TimerType, PublishCommit
  <2>3. RetiringInv'
    <3>1. /\ UNCHANGED <<infl, beat, hb, tok, why>>
          /\ \A q \in Procs : pc'[q] = "rtRename" => pc[q] = "rtRename"
      BY <1>24 DEF PublishCommit, Inv, CoreType
    <3> QED
      BY <3>1, RetiringFrame DEF LeaseInv
  <2> QED
    BY <2>1, <2>2, <2>3 DEF LeaseInv
<1>25. ASSUME NEW p \in Procs, DropOwner(p) PROVE LeaseInv'
  <2>1. SeenAgeInv'
    <3>1. CASE Leave(p)
      BY <1>25, <3>1, LeaveLease DEF DropOwner
    <3>2. CASE ~ Leave(p)
      <4>1. /\ StopHeartbeat(p) /\ Goto(p, "dropRelease")
            /\ UNCHANGED <<beat, seen, age, tok>>
        BY <1>25, <3>2 DEF DropOwner
      <4>2. /\ hb'[p] = "off" /\ pc'[p] # "clSync"
            /\ \A q \in Procs \ {p} : pc'[q] = pc[q] /\ hb'[q] = hb[q] /\ due'[q] = due[q]
        BY <4>1 DEF StopHeartbeat, Inv, CoreType, TimerType
      <4> QED
        BY <4>1, <4>2 DEF LeaseInv, SeenAgeInv, Sees, Beating
    <3> QED
      BY <3>1, <3>2
  <2>2. WindowInv'
    BY <1>25 DEF LeaseInv, WindowInv, Inv, CoreType, TimerType, DropOwner,
       StopHeartbeat, Leave, ForgetWait
  <2>3. RetiringInv'
    <3>1. UNCHANGED <<infl, beat>>
      BY <1>25 DEF DropOwner
    <3>2. /\ \A q \in Procs : pc'[q] = "rtRename" /\ why'[q] = "take" =>
                              pc[q] = "rtRename" /\ why[q] = "take"
          /\ \A q \in Procs : hb'[q] # "off" => hb[q] # "off" /\ tok'[q] = tok[q]
      <4>1. CASE Leave(p)
        BY <4>1 DEF Leave, Inv, CoreType, TimerType
      <4>2. CASE ~ Leave(p)
        BY <1>25, <4>2 DEF DropOwner, StopHeartbeat, Inv, CoreType, TimerType
      <4> QED
        BY <4>1, <4>2
    <3> QED
      BY <3>1, <3>2, RetiringFrame DEF LeaseInv
  <2> QED
    BY <2>1, <2>2, <2>3 DEF LeaseInv
<1>26. ASSUME NEW p \in Procs, Release(p) PROVE LeaseInv'
  <2>1. SeenAgeInv'
    <3>1. CASE Leave(p)
      BY <1>26, <3>1, LeaveLease DEF Release
    <3>2. CASE ~ Leave(p)
      <4>1. Goto(p, "rtRename") /\ UNCHANGED <<beat, seen, age, tok, hb, due>>
        BY <1>26, <3>2 DEF Release
      <4>2. \A q \in Procs : pc'[q] = "clSync" => pc[q] = "clSync"
        BY <4>1 DEF Inv, CoreType
      <4> QED
        BY <4>1, <4>2, SeenAgeFrame DEF LeaseInv
    <3> QED
      BY <3>1, <3>2
  <2>2. WindowInv'
    BY <1>26 DEF LeaseInv, WindowInv, Inv, CoreType, TimerType, Release,
       Leave, ForgetWait
  <2>3. RetiringInv'
    <3>1. UNCHANGED <<infl, beat>>
      BY <1>26 DEF Release
    <3>2. /\ \A q \in Procs : pc'[q] = "rtRename" /\ why'[q] = "take" =>
                              pc[q] = "rtRename" /\ why[q] = "take"
          /\ \A q \in Procs : hb'[q] # "off" => hb[q] # "off" /\ tok'[q] = tok[q]
      <4>1. CASE Leave(p)
        BY <4>1 DEF Leave, Inv, CoreType, TimerType
      <4>2. CASE ~ Leave(p)
        BY <1>26, <4>2 DEF Release, Inv, CoreType, TimerType
      <4> QED
        BY <4>1, <4>2
    <3> QED
      BY <3>1, <3>2, RetiringFrame DEF LeaseInv
  <2> QED
    BY <2>1, <2>2, <2>3 DEF LeaseInv
<1>27. ASSUME NEW p \in Procs, IoError(p) PROVE LeaseInv'
  <2>1. SeenAgeInv'
    <3>1. \A q \in Procs : pc'[q] = "clSync" => pc[q] = "clSync"
      BY <1>27 DEF IoError, Inv, CoreType
    <3> QED
      BY <1>27, <3>1, SeenAgeFrame DEF IoError, LeaseInv
  <2>2. WindowInv'
    BY <1>27 DEF LeaseInv, WindowInv, Inv, CoreType, TimerType, IoError,
       OpenPcs, LoopPcs, ClaimPcs, TakePcs, RetirePcs
  <2>3. RetiringInv'
    <3>1. CASE pc[p] \in {"clWrite", "clSync"}
      <4>1. pc[p] \in GuardedPcs /\ pc'[p] # "rtRename" /\ \A q \in Procs \ {p} : pc'[q] = pc[q]
        BY <1>27, <3>1 DEF IoError, OpenPcs, LoopPcs, ClaimPcs, TakePcs, RetirePcs,
           Inv, CoreType, GuardedPcs, ClaimPcs, TakePcs, RetirePcs
      <4> QED
        BY <4>1, RetiringAlone
    <3>2. CASE pc[p] \notin {"clWrite", "clSync"}
      <4>1. UNCHANGED <<infl, tok, why, hb, beat>>
        BY <1>27, <3>2 DEF IoError
      <4>2. \A q \in Procs : pc'[q] = "rtRename" => pc[q] = "rtRename"
        BY <1>27 DEF IoError, Inv, CoreType
      <4> QED
        BY <4>1, <4>2 DEF LeaseInv, RetiringInv, Beating
    <3> QED
      BY <3>1, <3>2
  <2> QED
    BY <2>1, <2>2, <2>3 DEF LeaseInv
<1>28. ASSUME NEW p \in Procs, DropError(p) PROVE LeaseInv'
  <2>1. SeenAgeInv'
    BY <1>28 DEF LeaseInv, SeenAgeInv, Sees, Beating, Inv, CoreType,
       TimerType, DropError, Leave, ForgetWait
  <2>2. WindowInv'
    BY <1>28 DEF LeaseInv, WindowInv, Inv, CoreType, TimerType, DropError,
       Leave, ForgetWait
  <2>3. RetiringInv'
    BY <1>28 DEF LeaseInv, RetiringInv, Beating, Inv, CoreType, TimerType,
       DropError, Leave, ForgetWait
  <2> QED
    BY <2>1, <2>2, <2>3 DEF LeaseInv
<1>29. ASSUME NEW p \in Procs, Return(p) PROVE LeaseInv'
  <2>1. SeenAgeInv'
    BY <1>29 DEF LeaseInv, SeenAgeInv, Sees, Beating, Inv, CoreType,
       TimerType, Return, Leave, ForgetWait
  <2>2. WindowInv'
    BY <1>29 DEF LeaseInv, WindowInv, Inv, CoreType, TimerType, Return,
       Leave, ForgetWait
  <2>3. RetiringInv'
    BY <1>29 DEF LeaseInv, RetiringInv, Beating, Inv, CoreType, TimerType,
       Return, Leave, ForgetWait
  <2> QED
    BY <2>1, <2>2, <2>3 DEF LeaseInv
<1>30. ASSUME NEW p \in Procs, Crash(p) PROVE LeaseInv'
  <2>1. SeenAgeInv'
    BY <1>30 DEF LeaseInv, SeenAgeInv, Sees, Beating, Inv, CoreType,
       TimerType, Crash, Leave, ForgetWait
  <2>2. WindowInv'
    BY <1>30 DEF LeaseInv, WindowInv, Inv, CoreType, TimerType, Crash, Leave,
       ForgetWait
  <2>3. RetiringInv'
    BY <1>30 DEF LeaseInv, RetiringInv, Beating, Inv, CoreType, TimerType,
       Crash, Leave, ForgetWait
  <2> QED
    BY <2>1, <2>2, <2>3 DEF LeaseInv
<1>31. CASE Tick
  <2>e. /\ UNCHANGED <<beat, tok, hb, seen, samp, pc, infl, why>>
        /\ age' = [q \in Procs |-> IF pc[q] \in OpenPcs THEN MinOf(Liveness, age[q] + 1) ELSE age[q]]
        /\ due' = [q \in Procs |-> IF due[q] > 0 THEN due[q] - 1 ELSE 0]
        /\ \A q \in Procs : ~ Urgent(q)
    BY <1>31 DEF Tick
  <2>a. \A q \in Procs : age[q] <= age'[q] /\ age'[q] <= age[q] + 1 /\ age'[q] <= Liveness
    BY <2>e DEF TimerType, MinOf
  <2>1. SeenAgeInv'
    <3> SUFFICES ASSUME NEW r \in Procs, NEW q \in Procs, Sees(q, r)
        PROVE  /\ Beating(r) => age'[q] + due'[r] <= Heartbeat
               /\ pc[r] # "clSync"
      BY <2>e DEF SeenAgeInv, Sees, Beating
    <3>1. ~ Urgent(r)
      BY <2>e
    <3>2. pc[r] # "clSync"
      BY <3>1 DEF Urgent, OutcomePcs
    <3>3. ASSUME Beating(r) PROVE age'[q] + due'[r] <= Heartbeat
      <4>1. /\ due[r] \in 0..Heartbeat /\ age[q] \in Nat /\ age'[q] \in Nat
            /\ hb[r] \in {"wait", "append"}
        BY <2>e, <3>3 DEF TimerType, Beating, MinOf
      <4>2. beat[tok[r]] < MaxBeats
        BY <3>3 DEF Beating
      <4>3. due[r] # 0
        BY <3>1, <4>1, <4>2 DEF Urgent
      <4>4. due'[r] = due[r] - 1
        BY <2>e, <4>1, <4>3
      <4>5. age[q] + due[r] <= Heartbeat
        BY <3>3 DEF LeaseInv, SeenAgeInv
      <4> QED
        BY <2>a, <4>1, <4>4, <4>5
    <3> QED
      BY <3>2, <3>3
  <2>2. WindowInv'
    <3> SUFFICES ASSUME NEW q \in Procs
        PROVE  /\ pc[q] \in {"snap", "snapBeat"} => samp[q].a <= age'[q]
               /\ pc[q] \in {"take", "tkRead", "tkSnap"} => age'[q] = Liveness
      BY <2>e DEF WindowInv
    <3>1. age[q] \in Nat /\ age'[q] \in Nat /\ samp[q].a \in Nat
      BY <2>e DEF TimerType, MinOf
    <3> QED
      BY <2>a, <3>1 DEF LeaseInv, WindowInv
  <2>3. RetiringInv'
    BY <2>e DEF LeaseInv, RetiringInv, Beating
  <2> QED
    BY <2>1, <2>2, <2>3 DEF LeaseInv
<1>u. CASE UNCHANGED vars
  BY <1>u DEF vars, LeaseInv, SeenAgeInv, WindowInv, RetiringInv, Sees, Beating
<1> QED
  BY <1>u, <1>1, <1>2, <1>3, <1>4, <1>5, <1>6, <1>7, <1>8, <1>9, <1>10, <1>11,
     <1>12, <1>13, <1>14, <1>15, <1>16, <1>17, <1>18, <1>19, <1>20, <1>21,
     <1>22, <1>23, <1>24, <1>25, <1>26, <1>27, <1>28, <1>29, <1>30, <1>31 DEF
     Next, Step, Thread

(* Nothing is drawn, seen or refreshed at first.                           *)
LEMMA InitLease == Init => BeatInv /\ LeaseInv
<1> SUFFICES ASSUME Init PROVE BeatInv /\ LeaseInv
  OBVIOUS
<1>1. /\ \A t \in Tokens : beat[t] = 0
      /\ used = {} /\ whole = {}
      /\ \A p \in Procs : pc[p] = "idle" /\ hb[p] = "off" /\ rec[p] = NoTok
      /\ \A p \in Procs : seen[p].tok = NoTok /\ ~ seen[p].whole
  BY DEF Init, NoSnap
<1>2. BeatInv
  BY <1>1 DEF BeatInv, DrawnInv, SeenBeatInv, WholeInv
<1>3. LeaseInv
  BY <1>1 DEF LeaseInv, SeenAgeInv, WindowInv, RetiringInv, Sees, Beating
<1> QED
  BY <1>2, <1>3

(* in-flight.json changes hands only by a claim, by the retirement of a    *)
(* record, and when a claim that failed half way removes its own.          *)
LEMMA RecordChange ==
  ASSUME [Next]_vars, infl' # infl
  PROVE  \E q \in Procs : \/ ClaimCreate(q)
                          \/ RetireRename(q)
                          \/ pc[q] \in {"clWrite", "clSync"}
<1>1. ~ UNCHANGED vars /\ ~ Tick
  BY DEF vars, fsvars, Tick
<1>2. PICK q \in Procs :
        \/ Step(q) \/ Thread(q) \/ Open(q) \/ OwnerHeartbeat(q) \/ PublishStart(q)
        \/ DropOwner(q) \/ IoError(q) \/ DropError(q) \/ Crash(q)
  BY <1>1 DEF Next
<1>3. CASE IoError(q)
  BY <1>3 DEF IoError
<1>4. CASE Step(q)
  BY <1>4 DEF Step, OpenRead, OpenNow, OpenSnap, OpenObserve, OpenWake, ClaimGuard,
     TakeGuard, TryGuard, LockedRead, ClaimSnap, TakeSnap, ClaimBeat, ClaimWrite,
     ClaimOwner, RetireReap, PublishLock, PublishCheck, PublishCommit, Release,
     DropOwner, Return, fsvars
<1>5. CASE \/ Thread(q) \/ Open(q) \/ OwnerHeartbeat(q) \/ PublishStart(q)
           \/ DropOwner(q) \/ DropError(q) \/ Crash(q)
  BY <1>5 DEF Thread, BeatCheck, BeatAppend, Open, OwnerHeartbeat, PublishStart,
     DropOwner, DropError, Crash, fsvars
<1> QED
  BY <1>2, <1>3, <1>4, <1>5

(* Nobody but its owner removes the record of an owner whose heartbeat     *)
(* thread runs.                                                            *)
LEMMA KeepsRecord ==
  ASSUME Inv, BeatInv, LeaseInv, [Next]_vars,
         NEW p \in Procs, Refreshing(p), infl = tok[p]
  PROVE  infl' = infl
<1>1. Beating(p) /\ pc[p] = "own"
  BY DEF Refreshing, Beating, At
<1>2. tok[p] \in Tokens /\ tok[p] # NoTok
  BY <1>1, ThreadToken, NoTokAssumption DEF BeatInv
<1> SUFFICES ASSUME infl' # infl PROVE FALSE
  OBVIOUS
<1>3. PICK q \in Procs : \/ ClaimCreate(q)
                         \/ RetireRename(q)
                         \/ pc[q] \in {"clWrite", "clSync"}
  BY RecordChange
<1>4. CASE ClaimCreate(q)
  BY <1>2, <1>4 DEF ClaimCreate
<1>5. CASE pc[q] \in {"clWrite", "clSync"}
  <2>1. tok[q] = tok[p]
    BY <1>5 DEF Inv, OwnerInv
  <2> QED
    BY <1>1, <1>2, <1>5, <2>1 DEF Inv, TokenInv
<1>6. CASE RetireRename(q)
  <2>1. pc[q] = "rtRename"
    BY <1>6 DEF RetireRename, At
  <2>2. CASE why[q] = "take"
    BY <1>1, <2>1, <2>2 DEF LeaseInv, RetiringInv
  <2>3. CASE why[q] # "take"
    <3>1. tok[q] = tok[p]
      BY <2>1, <2>3 DEF Inv, SeenInv
    <3> QED
      BY <1>1, <1>2, <2>1, <3>1 DEF Inv, TokenInv
  <2> QED
    BY <2>2, <2>3
<1> QED
  BY <1>3, <1>4, <1>5, <1>6

(* A slow but refreshing owner remains owner, for any number of processes  *)
(* and any heartbeat interval below the liveness window, when the scheduler*)
(* delays neither the heartbeat threads nor the waiters: a takeover acts on*)
(* a record seen unchanged for a window, and a refresh falls within it.    *)
THEOREM OwnerKept == Prompt = Procs => (Spec => RefreshingOwnerKept)
<1> SUFFICES ASSUME Prompt = Procs PROVE Spec => RefreshingOwnerKept
  OBVIOUS
<1> DEFINE All == Inv /\ TimerType /\ SampleInv /\ WaitInv /\ BeatInv /\ LeaseInv
<1>1. Init => All
  BY InitInv, InitTimers, InitLease
<1>2. All /\ [Next]_vars => All'
  BY StepInv, StepTimers, StepWait, StepBeat, StepLease
<1>3. All /\ [Next]_vars =>
        [\A p \in Procs : Refreshing(p) /\ infl = tok[p] => infl' = infl]_vars
  BY KeepsRecord
<1> QED
  BY <1>1, <1>2, <1>3, PTL DEF Spec, RefreshingOwnerKept
=============================================================================
