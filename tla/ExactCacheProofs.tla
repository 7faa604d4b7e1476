--------------------------- MODULE ExactCacheProofs ---------------------------
(***************************************************************************)
(* Theorems about ExactCache for any number of processes, entries and read *)
(* attempts.  The second half is what the cache promises its callers: a    *)
(* cleanup leaves only the current entry, a read without a failed call     *)
(* never reports a damaged entry, and read and publish together implement  *)
(* the register of CacheRegister.                                          *)
(***************************************************************************)
EXTENDS ExactCache, FiniteSetTheorems, TLAPS

(* FirstOf always yields one of the three files of an entry.               *)
LEMMA FirstOfFiles == \A S : FirstOf(S) \in Files
  BY DEF FirstOf, Files

(* allocate_entry_id yields an identifier that was never used.             *)
LEMMA FreshEntryFact ==
  ASSUME used \subseteq Entries, used # Entries
  PROVE  FreshEntry \in Entries /\ FreshEntry \notin used
<1>1. \E e \in Entries : e \notin used
  OBVIOUS
<1> QED BY <1>1 DEF FreshEntry

-----------------------------------------------------------------------------
(* The inductive invariant *)

(* A process in a step that needs the guard holds the lock.                *)
LockInv == \A p \in Procs : pc[p] \in LockedPcs => lock = p

(* What a process publishes, reads or removes is an entry handed out.      *)
LocalsInv ==
    /\ marker # NoEntry => marker \in used
    /\ \A p \in Procs :
        /\ pc[p] \in PublishPcs \cup UndoPcs => ent[p] \in used
        /\ pc[p] = "rdFiles" => rd[p] \in Entries

(* How far a publication has come: its entry is not current before the     *)
(* rename and is current from then on, and the error path is entered with  *)
(* a current entry only after a failed call.                               *)
PublishInv == \A p \in Procs :
    /\ pc[p] \in {"write", "temp", "rename"} => ent[p] \in dirs
    /\ pc[p] \in {"write", "temp", "rename", "undoRemove"} => ent[p] # marker
    /\ pc[p] \in {"temp", "rename"} => Complete(ent[p])
    /\ pc[p] \in {"syncControl", "pubOk"} => marker = ent[p]
    /\ pc[p] \in {"undoTemp", "undoCheck"} /\ marker = ent[p] => faults >= 1

(* A cleanup never has the current entry on its list.                      *)
CleanInv == \A p \in Procs : pc[p] = "clEntries" => marker \notin todo[p]

Inv ==
    /\ TypeOK
    /\ LockInv
    /\ LocalsInv
    /\ PublishInv
    /\ CleanInv
    /\ CurrentEntryComplete

-----------------------------------------------------------------------------
(* Type correctness *)

(* An empty cache directory and idle processes are well typed.             *)
LEMMA InitTypeOK == Init => TypeOK
  BY TriesAssumption, FaultsAssumption
     DEF Init, TypeOK, NoFiles, Content, Pcs, Files

(* Counting a failed call keeps the fault count within its bound.          *)
LEMMA FaultTypes ==
  ASSUME TypeOK, NEW p \in Procs, Fault \/ FaultOf(p) \/ NoFault \/ Unhurt(p)
  PROVE  faults' \in 0..MaxFaults /\ hurt' \subseteq Procs
  BY FaultsAssumption DEF TypeOK, Fault, FaultOf, NoFault, Unhurt

(* Changing one file of an entry keeps the shape of the directory tree.    *)
LEMMA SetFileTypes ==
  ASSUME TypeOK, NEW e \in Entries, NEW f \in Files, NEW c \in Content, SetFile(e,
     f, c)
  PROVE  files' \in [Entries -> [Files -> Content]]
<1>1. [files[e] EXCEPT ![f] = c] \in [Files -> Content]
  BY DEF TypeOK
<1> QED BY <1>1 DEF TypeOK, SetFile

(* remove_dir_all keeps the shape of the directory tree.                   *)
LEMMA RemoveStepTypes ==
  ASSUME TypeOK, NEW e \in Entries, RemoveStep(e)
  PROVE  dirs' \subseteq Entries /\ files' \in [Entries -> [Files -> Content]]
<1>1. CASE \E f \in Files : SetFile(e, f, "absent") /\ UNCHANGED dirs
  BY <1>1, SetFileTypes DEF Content, TypeOK
<1>2. CASE dirs' = dirs \ {e} /\ UNCHANGED files
  BY <1>2 DEF TypeOK
<1> QED BY <1>1, <1>2 DEF RemoveStep

(* Every action preserves the types; ReadRecheck by the attempt limit of   *)
(* the loop in read.                                                       *)
LEMMA StepTypeOK == TypeOK /\ LocalsInv /\ [Next]_vars => TypeOK'
<1> SUFFICES ASSUME TypeOK, LocalsInv, [Next]_vars PROVE TypeOK'
  OBVIOUS
<1> USE TriesAssumption
    DEF disk, wvars, rvars, hist, At, Goto
<1>u. CASE UNCHANGED vars
  BY <1>u DEF vars, TypeOK
<1>1. ASSUME NEW p \in Procs, LockStart(p) PROVE TypeOK'
  BY <1>1, FaultTypes DEF TypeOK, LockStart, Pcs, LockedPcs, PublishPcs, UndoPcs,
     CleanPcs, ReadingPcs, Outcomes, Content, NoFiles
<1>2. ASSUME NEW p \in Procs, LockAcquire(p) PROVE TypeOK'
  BY <1>2, FaultTypes DEF TypeOK, LockAcquire, Pcs, LockedPcs, PublishPcs, UndoPcs,
     CleanPcs, ReadingPcs, Outcomes, Content, NoFiles
<1>3. ASSUME NEW p \in Procs, LockTimeout(p) PROVE TypeOK'
  BY <1>3, FaultTypes DEF TypeOK, LockTimeout, Pcs, LockedPcs, PublishPcs, UndoPcs,
     CleanPcs, ReadingPcs, Outcomes, Content, NoFiles
<1>4. ASSUME NEW p \in Procs, LockFail(p) PROVE TypeOK'
  BY <1>4, FaultTypes DEF TypeOK, LockFail, Pcs, LockedPcs, PublishPcs, UndoPcs,
     CleanPcs, ReadingPcs, Outcomes, Content, NoFiles
<1>5. ASSUME NEW p \in Procs, Unlock(p) PROVE TypeOK'
  BY <1>5, FaultTypes DEF TypeOK, Unlock, Pcs, LockedPcs, PublishPcs, UndoPcs,
     CleanPcs, ReadingPcs, Outcomes, Content, NoFiles
<1>6. ASSUME NEW p \in Procs, PublishStart(p) PROVE TypeOK'
  <2>1. used' \subseteq Entries /\ dirs' \subseteq Entries /\ ent' \in [Procs ->
     Entries \cup {NoEntry}]
    BY <1>6, FreshEntryFact DEF TypeOK, PublishStart
  <2>2. pc' \in [Procs -> Pcs]
    BY <1>6 DEF TypeOK, PublishStart, Pcs, LockedPcs, PublishPcs, UndoPcs, CleanPcs,
       ReadingPcs, Outcomes
  <2> QED
    BY <1>6, <2>1, <2>2, FaultTypes DEF TypeOK, PublishStart
<1>7. ASSUME NEW p \in Procs, PublishRefused(p) PROVE TypeOK'
  BY <1>7, FaultTypes DEF TypeOK, PublishRefused, Pcs, LockedPcs, PublishPcs,
     UndoPcs, CleanPcs, ReadingPcs, Outcomes, Content, NoFiles
<1>8. ASSUME NEW p \in Procs, PublishWrite(p) PROVE TypeOK'
  <2>1. ent[p] \in Entries /\ NextFile(ent[p]) \in Files
    BY <1>8, FirstOfFiles DEF TypeOK, LocalsInv, PublishWrite, NextFile, PublishPcs
  <2>2. files' \in [Entries -> [Files -> Content]]
    BY <1>8, <2>1, SetFileTypes DEF TypeOK, PublishWrite, Content
  <2>3. pc' \in [Procs -> Pcs]
    BY <1>8 DEF TypeOK, PublishWrite, Pcs, LockedPcs, PublishPcs, UndoPcs, CleanPcs,
       ReadingPcs, Outcomes
  <2> QED
    BY <1>8, <2>1, <2>2, <2>3, FaultTypes DEF TypeOK, PublishWrite
<1>9. ASSUME NEW p \in Procs, PublishSync(p) PROVE TypeOK'
  BY <1>9, FaultTypes DEF TypeOK, PublishSync, Pcs, LockedPcs, PublishPcs, UndoPcs,
     CleanPcs, ReadingPcs, Outcomes, Content, NoFiles
<1>10. ASSUME NEW p \in Procs, PublishTemp(p) PROVE TypeOK'
  BY <1>10, FaultTypes DEF TypeOK, PublishTemp, Pcs, LockedPcs, PublishPcs, UndoPcs,
     CleanPcs, ReadingPcs, Outcomes, Content, NoFiles
<1>11. ASSUME NEW p \in Procs, PublishRename(p) PROVE TypeOK'
  <2>1. ent[p] \in Entries
    BY <1>11 DEF TypeOK, LocalsInv, PublishRename, PublishPcs
  <2>2. marker' \in Entries \cup {NoEntry} /\ spent' \subseteq Entries
    BY <1>11, <2>1 DEF TypeOK, PublishRename
  <2>3. temp' \in [Entries -> Content]
    BY <1>11, <2>1 DEF TypeOK, PublishRename, Content
  <2>4. \A q \in Procs : window[q] \cup {ent[p]} \in SUBSET (Entries \cup {NoEntry})
    BY <1>11, <2>1 DEF TypeOK
  <2>5. window' \in [Procs -> SUBSET (Entries \cup {NoEntry})]
    BY <1>11, <2>4 DEF TypeOK, PublishRename
  <2>6. pc' \in [Procs -> Pcs]
    BY <1>11 DEF TypeOK, PublishRename, Pcs, LockedPcs, PublishPcs, UndoPcs,
       CleanPcs, ReadingPcs, Outcomes
  <2> QED
    BY <1>11, <2>1, <2>2, <2>3, <2>4, <2>5, <2>6, FaultTypes DEF TypeOK,
       PublishRename
<1>12. ASSUME NEW p \in Procs, PublishSyncControl(p) PROVE TypeOK'
  BY <1>12, FaultTypes DEF TypeOK, PublishSyncControl, Pcs, LockedPcs, PublishPcs,
     UndoPcs, CleanPcs, ReadingPcs, Outcomes, Content, NoFiles
<1>13. ASSUME NEW p \in Procs, PublishUndoTemp(p) PROVE TypeOK'
  BY <1>13, FaultTypes DEF TypeOK, PublishUndoTemp, Pcs, LockedPcs, PublishPcs,
     UndoPcs, CleanPcs, ReadingPcs, Outcomes, Content, NoFiles
<1>14. ASSUME NEW p \in Procs, PublishUndoCheck(p) PROVE TypeOK'
  BY <1>14, FaultTypes DEF TypeOK, PublishUndoCheck, Pcs, LockedPcs, PublishPcs,
     UndoPcs, CleanPcs, ReadingPcs, Outcomes, Content, NoFiles
<1>15. ASSUME NEW p \in Procs, PublishUndoRemove(p) PROVE TypeOK'
  <2>1. dirs' \subseteq Entries /\ files' \in [Entries -> [Files -> Content]]
    BY <1>15, RemoveStepTypes DEF TypeOK, LocalsInv, PublishUndoRemove, UndoPcs
  <2>2. pc' \in [Procs -> Pcs]
    BY <1>15 DEF TypeOK, PublishUndoRemove, Pcs, LockedPcs, PublishPcs, UndoPcs,
       CleanPcs, ReadingPcs, Outcomes
  <2> QED
    BY <1>15, <2>1, <2>2, FaultTypes DEF TypeOK, PublishUndoRemove
<1>16. ASSUME NEW p \in Procs, PublishReturn(p) PROVE TypeOK'
  BY <1>16, FaultTypes DEF TypeOK, PublishReturn, Pcs, LockedPcs, PublishPcs,
     UndoPcs, CleanPcs, ReadingPcs, Outcomes, Content, NoFiles
<1>17. ASSUME NEW p \in Procs, CleanupStart(p) PROVE TypeOK'
  BY <1>17, FaultTypes DEF TypeOK, CleanupStart, Pcs, LockedPcs, PublishPcs,
     UndoPcs, CleanPcs, ReadingPcs, Outcomes, Content, NoFiles
<1>18. ASSUME NEW p \in Procs, CleanupMarker(p) PROVE TypeOK'
  <2>1. todo' \in [Procs -> SUBSET Entries]
    BY <1>18 DEF TypeOK, CleanupMarker
  <2>2. pc' \in [Procs -> Pcs]
    BY <1>18 DEF TypeOK, CleanupMarker, Pcs, LockedPcs, PublishPcs, UndoPcs,
       CleanPcs, ReadingPcs, Outcomes
  <2> QED
    BY <1>18, <2>1, <2>2, FaultTypes DEF TypeOK, CleanupMarker
<1>19. ASSUME NEW p \in Procs, CleanupEntries(p) PROVE TypeOK'
  <2>1. dirs' \subseteq Entries /\ files' \in [Entries -> [Files -> Content]]
    BY <1>19, RemoveStepTypes DEF TypeOK, CleanupEntries
  <2>2. todo' \in [Procs -> SUBSET Entries]
    BY <1>19 DEF TypeOK, CleanupEntries
  <2>3. pc' \in [Procs -> Pcs]
    BY <1>19 DEF TypeOK, CleanupEntries, Pcs, LockedPcs, PublishPcs, UndoPcs,
       CleanPcs, ReadingPcs, Outcomes
  <2> QED
    BY <1>19, <2>1, <2>2, <2>3, FaultTypes DEF TypeOK, CleanupEntries
<1>20. ASSUME NEW p \in Procs, CleanupTemps(p) PROVE TypeOK'
  BY <1>20, FaultTypes DEF TypeOK, CleanupTemps, Pcs, LockedPcs, PublishPcs,
     UndoPcs, CleanPcs, ReadingPcs, Outcomes, Content, NoFiles
<1>21. ASSUME NEW p \in Procs, CleanupReturn(p) PROVE TypeOK'
  BY <1>21, FaultTypes DEF TypeOK, CleanupReturn, Pcs, LockedPcs, PublishPcs,
     UndoPcs, CleanPcs, ReadingPcs, Outcomes, Content, NoFiles
<1>22. ASSUME NEW p \in Procs, ReadStart(p) PROVE TypeOK'
  BY <1>22, FaultTypes DEF TypeOK, ReadStart, Pcs, LockedPcs, PublishPcs, UndoPcs,
     CleanPcs, ReadingPcs, Outcomes, Content, NoFiles
<1>23. ASSUME NEW p \in Procs, ReadMarker(p) PROVE TypeOK'
  <2>1. NoFiles \in [Files -> Content]
    BY <1>23 DEF NoFiles, Content
  <2>2. rd' \in [Procs -> Entries \cup {NoEntry}]
    BY <1>23 DEF TypeOK, ReadMarker
  <2>3. bytes' \in [Procs -> [Files -> Content]]
    BY <1>23, <2>1 DEF TypeOK, ReadMarker
  <2>4. pc' \in [Procs -> Pcs]
    BY <1>23 DEF TypeOK, ReadMarker, Pcs, LockedPcs, PublishPcs, UndoPcs, CleanPcs,
       ReadingPcs, Outcomes
  <2> QED
    BY <1>23, <2>1, <2>2, <2>3, <2>4, FaultTypes DEF TypeOK, ReadMarker
<1>24. ASSUME NEW p \in Procs, ReadFile(p) PROVE TypeOK'
  <2>1. rd[p] \in Entries /\ ToRead(p) \in Files
    BY <1>24, FirstOfFiles DEF TypeOK, LocalsInv, ReadFile, ToRead
  <2>2. [bytes[p] EXCEPT ![ToRead(p)] = files[rd[p]][ToRead(p)]] \in [Files ->
     Content]
    BY <1>24, <2>1 DEF TypeOK
  <2>3. bytes' \in [Procs -> [Files -> Content]]
    BY <1>24, <2>2 DEF TypeOK, ReadFile
  <2>4. pc' \in [Procs -> Pcs]
    BY <1>24 DEF TypeOK, ReadFile, Pcs, LockedPcs, PublishPcs, UndoPcs, CleanPcs,
       ReadingPcs, Outcomes
  <2> QED
    BY <1>24, <2>1, <2>2, <2>3, <2>4, FaultTypes DEF TypeOK, ReadFile
<1>25. ASSUME NEW p \in Procs, ReadVerify(p) PROVE TypeOK'
  BY <1>25, FaultTypes DEF TypeOK, ReadVerify, Pcs, LockedPcs, PublishPcs, UndoPcs,
     CleanPcs, ReadingPcs, Outcomes, Content, NoFiles
<1>26. ASSUME NEW p \in Procs, ReadRecheck(p) PROVE TypeOK'
  <2>1. tries[p] < MaxTries => tries[p] + 1 \in 0..MaxTries
    BY <1>26 DEF TypeOK
  <2>2. tries' = tries \/ (tries[p] < MaxTries /\ tries' = [tries EXCEPT ![p] =
     tries[p] + 1])
    BY <1>26 DEF ReadRecheck, MayRetry
  <2>3. tries' \in [Procs -> 0..MaxTries]
    BY <1>26, <2>1, <2>2 DEF TypeOK
  <2>4. pc' \in [Procs -> Pcs]
    BY <1>26 DEF TypeOK, ReadRecheck, Pcs, LockedPcs, PublishPcs, UndoPcs, CleanPcs,
       ReadingPcs, Outcomes
  <2> QED
    BY <1>26, <2>1, <2>2, <2>3, <2>4, FaultTypes DEF TypeOK, ReadRecheck
<1>27. ASSUME NEW p \in Procs, ReadReturn(p) PROVE TypeOK'
  BY <1>27, FaultTypes DEF TypeOK, ReadReturn, Pcs, LockedPcs, PublishPcs, UndoPcs,
     CleanPcs, ReadingPcs, Outcomes, Content, NoFiles
<1>28. ASSUME NEW p \in Procs, Crash(p) PROVE TypeOK'
  BY <1>28, FaultTypes DEF TypeOK, Crash, Pcs, LockedPcs, PublishPcs, UndoPcs,
     CleanPcs, ReadingPcs, Outcomes, Content, NoFiles
<1> QED
  BY <1>u, <1>1, <1>2, <1>3, <1>4, <1>5, <1>6, <1>7, <1>8, <1>9, <1>10, <1>11,
     <1>12, <1>13, <1>14, <1>15, <1>16, <1>17, <1>18, <1>19, <1>20, <1>21, <1>22,
     <1>23, <1>24, <1>25, <1>26, <1>27, <1>28 DEF Next, Step, Call

(* The entry a process publishes stays known until it returns.             *)
LEMMA StepLocals == TypeOK /\ LocalsInv /\ [Next]_vars => LocalsInv'
<1> SUFFICES ASSUME TypeOK, LocalsInv, [Next]_vars PROVE LocalsInv'
  OBVIOUS
<1> USE NoEntryAssumption DEF LocalsInv, TypeOK, disk, wvars, rvars, hist, At, Goto,
   PublishPcs, UndoPcs, Outcomes
<1>u. CASE UNCHANGED vars
  BY <1>u DEF vars
<1>1. ASSUME NEW p \in Procs, LockStart(p) PROVE LocalsInv'
  BY <1>1 DEF LockStart
<1>2. ASSUME NEW p \in Procs, LockAcquire(p) PROVE LocalsInv'
  BY <1>2 DEF LockAcquire
<1>3. ASSUME NEW p \in Procs, LockTimeout(p) PROVE LocalsInv'
  BY <1>3 DEF LockTimeout
<1>4. ASSUME NEW p \in Procs, LockFail(p) PROVE LocalsInv'
  BY <1>4 DEF LockFail
<1>5. ASSUME NEW p \in Procs, Unlock(p) PROVE LocalsInv'
  BY <1>5 DEF Unlock
<1>6. ASSUME NEW p \in Procs, PublishStart(p) PROVE LocalsInv'
  BY <1>6, FreshEntryFact DEF PublishStart
<1>7. ASSUME NEW p \in Procs, PublishRefused(p) PROVE LocalsInv'
  BY <1>7 DEF PublishRefused
<1>8. ASSUME NEW p \in Procs, PublishWrite(p) PROVE LocalsInv'
  BY <1>8 DEF PublishWrite
<1>9. ASSUME NEW p \in Procs, PublishSync(p) PROVE LocalsInv'
  BY <1>9 DEF PublishSync
<1>10. ASSUME NEW p \in Procs, PublishTemp(p) PROVE LocalsInv'
  BY <1>10 DEF PublishTemp
<1>11. ASSUME NEW p \in Procs, PublishRename(p) PROVE LocalsInv'
  BY <1>11 DEF PublishRename
<1>12. ASSUME NEW p \in Procs, PublishSyncControl(p) PROVE LocalsInv'
  BY <1>12 DEF PublishSyncControl
<1>13. ASSUME NEW p \in Procs, PublishUndoTemp(p) PROVE LocalsInv'
  BY <1>13 DEF PublishUndoTemp
<1>14. ASSUME NEW p \in Procs, PublishUndoCheck(p) PROVE LocalsInv'
  BY <1>14 DEF PublishUndoCheck
<1>15. ASSUME NEW p \in Procs, PublishUndoRemove(p) PROVE LocalsInv'
  BY <1>15 DEF PublishUndoRemove
<1>16. ASSUME NEW p \in Procs, PublishReturn(p) PROVE LocalsInv'
  BY <1>16 DEF PublishReturn
<1>17. ASSUME NEW p \in Procs, CleanupStart(p) PROVE LocalsInv'
  BY <1>17 DEF CleanupStart
<1>18. ASSUME NEW p \in Procs, CleanupMarker(p) PROVE LocalsInv'
  BY <1>18 DEF CleanupMarker
<1>19. ASSUME NEW p \in Procs, CleanupEntries(p) PROVE LocalsInv'
  BY <1>19 DEF CleanupEntries
<1>20. ASSUME NEW p \in Procs, CleanupTemps(p) PROVE LocalsInv'
  BY <1>20 DEF CleanupTemps
<1>21. ASSUME NEW p \in Procs, CleanupReturn(p) PROVE LocalsInv'
  BY <1>21 DEF CleanupReturn
<1>22. ASSUME NEW p \in Procs, ReadStart(p) PROVE LocalsInv'
  BY <1>22 DEF ReadStart
<1>23. ASSUME NEW p \in Procs, ReadMarker(p) PROVE LocalsInv'
  BY <1>23 DEF ReadMarker
<1>24. ASSUME NEW p \in Procs, ReadFile(p) PROVE LocalsInv'
  BY <1>24 DEF ReadFile
<1>25. ASSUME NEW p \in Procs, ReadVerify(p) PROVE LocalsInv'
  BY <1>25 DEF ReadVerify
<1>26. ASSUME NEW p \in Procs, ReadRecheck(p) PROVE LocalsInv'
  BY <1>26 DEF ReadRecheck
<1>27. ASSUME NEW p \in Procs, ReadReturn(p) PROVE LocalsInv'
  BY <1>27 DEF ReadReturn
<1>28. ASSUME NEW p \in Procs, Crash(p) PROVE LocalsInv'
  BY <1>28 DEF Crash
<1> QED
  BY <1>u, <1>1, <1>2, <1>3, <1>4, <1>5, <1>6, <1>7, <1>8, <1>9, <1>10, <1>11,
     <1>12, <1>13, <1>14, <1>15, <1>16, <1>17, <1>18, <1>19, <1>20, <1>21, <1>22,
     <1>23, <1>24, <1>25, <1>26, <1>27, <1>28 DEF Next, Step, Call

-----------------------------------------------------------------------------
(* The current entry stays complete *)

(* The inductive invariant holds initially.                                *)
LEMMA InitInv == Init => Inv
  BY InitTypeOK DEF Init, Inv, LockInv, LocalsInv, PublishInv, CleanInv,
     CurrentEntryComplete, LockedPcs, PublishPcs, UndoPcs, CleanPcs

(* Every action preserves the inductive invariant while at most one call   *)
(* fails: the error path of publish reaches remove_dir_all on a current    *)
(* entry only through a second failure.                                    *)
LEMMA StepInv == ASSUME MaxFaults <= 1 PROVE Inv /\ [Next]_vars => Inv'
<1> SUFFICES ASSUME Inv, [Next]_vars PROVE Inv'
  OBVIOUS
<1>t. TypeOK'
  BY StepTypeOK DEF Inv
<1> USE FaultsAssumption, NoEntryAssumption, NoProcAssumption DEF disk, wvars,
   rvars, hist, At, Goto
<1>1. ASSUME NEW p \in Procs, LockStart(p) PROVE Inv'
  BY <1>1, <1>t DEF Inv, TypeOK, LockInv, LocalsInv, PublishInv, CleanInv,
     CurrentEntryComplete, Complete, LockStart, LockedPcs, PublishPcs, UndoPcs,
     CleanPcs, Fault, FaultOf, NoFault, Unhurt, Outcomes
<1>2. ASSUME NEW p \in Procs, LockAcquire(p) PROVE Inv'
  BY <1>2, <1>t DEF Inv, TypeOK, LockInv, LocalsInv, PublishInv, CleanInv,
     CurrentEntryComplete, Complete, LockAcquire, LockedPcs, PublishPcs, UndoPcs,
     CleanPcs, Fault, FaultOf, NoFault, Unhurt, Outcomes
<1>3. ASSUME NEW p \in Procs, LockTimeout(p) PROVE Inv'
  BY <1>3, <1>t DEF Inv, TypeOK, LockInv, LocalsInv, PublishInv, CleanInv,
     CurrentEntryComplete, Complete, LockTimeout, LockedPcs, PublishPcs, UndoPcs,
     CleanPcs, Fault, FaultOf, NoFault, Unhurt, Outcomes
<1>4. ASSUME NEW p \in Procs, LockFail(p) PROVE Inv'
  BY <1>4, <1>t DEF Inv, TypeOK, LockInv, LocalsInv, PublishInv, CleanInv,
     CurrentEntryComplete, Complete, LockFail, LockedPcs, PublishPcs, UndoPcs,
     CleanPcs, Fault, FaultOf, NoFault, Unhurt, Outcomes
<1>5. ASSUME NEW p \in Procs, Unlock(p) PROVE Inv'
  BY <1>5, <1>t DEF Inv, TypeOK, LockInv, LocalsInv, PublishInv, CleanInv,
     CurrentEntryComplete, Complete, Unlock, LockedPcs, PublishPcs, UndoPcs,
     CleanPcs, Fault, FaultOf, NoFault, Unhurt, Outcomes
<1>6. ASSUME NEW p \in Procs, PublishStart(p) PROVE Inv'
  <2>1. \A q \in Procs : q # p => pc[q] \notin LockedPcs
    BY <1>6 DEF Inv, LockInv, TypeOK, PublishStart, LockedPcs, PublishPcs, UndoPcs,
       CleanPcs
  <2>2. FreshEntry \in Entries /\ FreshEntry \notin used
    BY <1>6, FreshEntryFact DEF Inv, TypeOK, PublishStart
  <2>3. LockInv' /\ LocalsInv'
    BY <1>6, <2>1, <2>2 DEF LockInv, LocalsInv, Inv, TypeOK, PublishStart,
       LockedPcs, PublishPcs, UndoPcs, CleanPcs, NoFault, Fault, FaultOf
  <2>4. PublishInv'
    BY <1>6, <2>1, <2>2 DEF PublishInv, LocalsInv, Complete, Inv, TypeOK,
       PublishStart, LockedPcs, PublishPcs, UndoPcs, CleanPcs, NoFault, Fault,
       FaultOf
  <2>5. CleanInv' /\ CurrentEntryComplete'
    BY <1>6, <2>1, <2>2 DEF CleanInv, CurrentEntryComplete, Complete, Inv, TypeOK,
       PublishStart, LockedPcs, PublishPcs, UndoPcs, CleanPcs, NoFault, Fault,
       FaultOf
  <2> QED
    BY <1>t, <2>1, <2>2, <2>3, <2>4, <2>5 DEF Inv
<1>7. ASSUME NEW p \in Procs, PublishRefused(p) PROVE Inv'
  BY <1>7, <1>t DEF Inv, TypeOK, LockInv, LocalsInv, PublishInv, CleanInv,
     CurrentEntryComplete, Complete, PublishRefused, LockedPcs, PublishPcs, UndoPcs,
     CleanPcs, Fault, FaultOf, NoFault, Unhurt, Outcomes
<1>8. ASSUME NEW p \in Procs, PublishWrite(p) PROVE Inv'
  <2>1. \A q \in Procs : q # p => pc[q] \notin LockedPcs
    BY <1>8 DEF Inv, LockInv, TypeOK, PublishWrite, LockedPcs, PublishPcs, UndoPcs,
       CleanPcs
  <2>2. ent[p] \in Entries /\ ent[p] # marker
    BY <1>8 DEF PublishInv, LocalsInv, Inv, TypeOK, PublishWrite, LockedPcs,
       PublishPcs, UndoPcs, CleanPcs, NoFault, Fault, FaultOf
  <2>3. \A e \in Entries : e # ent[p] => files'[e] = files[e]
    BY <1>8, <2>2 DEF SetFile, Inv, TypeOK, PublishWrite, LockedPcs, PublishPcs,
       UndoPcs, CleanPcs, NoFault, Fault, FaultOf
  <2>4. LockInv' /\ LocalsInv'
    BY <1>8, <2>1 DEF LockInv, LocalsInv, Inv, TypeOK, PublishWrite, LockedPcs,
       PublishPcs, UndoPcs, CleanPcs, NoFault, Fault, FaultOf
  <2>5. PublishInv'
    BY <1>8, <2>1, <2>2 DEF PublishInv, Inv, TypeOK, PublishWrite, LockedPcs,
       PublishPcs, UndoPcs, CleanPcs, NoFault, Fault, FaultOf
  <2>6. CleanInv' /\ CurrentEntryComplete'
    BY <1>8, <2>1, <2>2, <2>3 DEF CleanInv, CurrentEntryComplete, Complete, Inv,
       TypeOK, PublishWrite, LockedPcs, PublishPcs, UndoPcs, CleanPcs, NoFault,
       Fault, FaultOf
  <2> QED
    BY <1>t, <2>1, <2>2, <2>3, <2>4, <2>5, <2>6 DEF Inv
<1>9. ASSUME NEW p \in Procs, PublishSync(p) PROVE Inv'
  BY <1>9, <1>t DEF Inv, TypeOK, LockInv, LocalsInv, PublishInv, CleanInv,
     CurrentEntryComplete, Complete, PublishSync, LockedPcs, PublishPcs, UndoPcs,
     CleanPcs, Fault, FaultOf, NoFault, Unhurt, Outcomes
<1>10. ASSUME NEW p \in Procs, PublishTemp(p) PROVE Inv'
  BY <1>10, <1>t DEF Inv, TypeOK, LockInv, LocalsInv, PublishInv, CleanInv,
     CurrentEntryComplete, Complete, PublishTemp, LockedPcs, PublishPcs, UndoPcs,
     CleanPcs, Fault, FaultOf, NoFault, Unhurt, Outcomes
<1>11. ASSUME NEW p \in Procs, PublishRename(p) PROVE Inv'
  <2>1. \A q \in Procs : q # p => pc[q] \notin LockedPcs
    BY <1>11 DEF Inv, LockInv, TypeOK, PublishRename, LockedPcs, PublishPcs,
       UndoPcs, CleanPcs
  <2>2. ent[p] \in used /\ ent[p] \in dirs /\ Complete(ent[p])
    BY <1>11 DEF PublishInv, LocalsInv, Inv, TypeOK, PublishRename, LockedPcs,
       PublishPcs, UndoPcs, CleanPcs, NoFault, Fault, FaultOf
  <2>3. LockInv' /\ LocalsInv'
    BY <1>11, <2>1, <2>2 DEF LockInv, LocalsInv, Inv, TypeOK, PublishRename,
       LockedPcs, PublishPcs, UndoPcs, CleanPcs, NoFault, Fault, FaultOf
  <2>4. PublishInv'
    BY <1>11, <2>1, <2>2 DEF PublishInv, Complete, Inv, TypeOK, PublishRename,
       LockedPcs, PublishPcs, UndoPcs, CleanPcs, NoFault, Fault, FaultOf
  <2>5. CleanInv' /\ CurrentEntryComplete'
    BY <1>11, <2>1, <2>2 DEF CleanInv, CurrentEntryComplete, Complete, Inv, TypeOK,
       PublishRename, LockedPcs, PublishPcs, UndoPcs, CleanPcs, NoFault, Fault,
       FaultOf
  <2> QED
    BY <1>t, <2>1, <2>2, <2>3, <2>4, <2>5 DEF Inv
<1>12. ASSUME NEW p \in Procs, PublishSyncControl(p) PROVE Inv'
  BY <1>12, <1>t DEF Inv, TypeOK, LockInv, LocalsInv, PublishInv, CleanInv,
     CurrentEntryComplete, Complete, PublishSyncControl, LockedPcs, PublishPcs,
     UndoPcs, CleanPcs, Fault, FaultOf, NoFault, Unhurt, Outcomes
<1>13. ASSUME NEW p \in Procs, PublishUndoTemp(p) PROVE Inv'
  BY <1>13, <1>t DEF Inv, TypeOK, LockInv, LocalsInv, PublishInv, CleanInv,
     CurrentEntryComplete, Complete, PublishUndoTemp, LockedPcs, PublishPcs,
     UndoPcs, CleanPcs, Fault, FaultOf, NoFault, Unhurt, Outcomes
<1>14. ASSUME NEW p \in Procs, PublishUndoCheck(p) PROVE Inv'
  BY <1>14, <1>t DEF Inv, TypeOK, LockInv, LocalsInv, PublishInv, CleanInv,
     CurrentEntryComplete, Complete, PublishUndoCheck, LockedPcs, PublishPcs,
     UndoPcs, CleanPcs, Fault, FaultOf, NoFault, Unhurt, Outcomes
<1>15. ASSUME NEW p \in Procs, PublishUndoRemove(p) PROVE Inv'
  <2>1. \A q \in Procs : q # p => pc[q] \notin LockedPcs
    BY <1>15 DEF Inv, LockInv, TypeOK, PublishUndoRemove, LockedPcs, PublishPcs,
       UndoPcs, CleanPcs
  <2>2. ent[p] \in Entries /\ ent[p] # marker
    BY <1>15 DEF PublishInv, LocalsInv, Inv, TypeOK, PublishUndoRemove, LockedPcs,
       PublishPcs, UndoPcs, CleanPcs, NoFault, Fault, FaultOf
  <2>3. \A e \in Entries : e # ent[p] => files'[e] = files[e] /\ (e \in dirs' <=> e
     \in dirs)
    BY <1>15, <2>2 DEF RemoveStep, SetFile, Inv, TypeOK, PublishUndoRemove,
       LockedPcs, PublishPcs, UndoPcs, CleanPcs, NoFault, Fault, FaultOf
  <2>4. LockInv' /\ LocalsInv'
    BY <1>15, <2>1 DEF LockInv, LocalsInv, Inv, TypeOK, PublishUndoRemove,
       LockedPcs, PublishPcs, UndoPcs, CleanPcs, NoFault, Fault, FaultOf
  <2>5. PublishInv'
    BY <1>15, <2>1, <2>2 DEF PublishInv, Inv, TypeOK, PublishUndoRemove, LockedPcs,
       PublishPcs, UndoPcs, CleanPcs, NoFault, Fault, FaultOf
  <2>6. CleanInv' /\ CurrentEntryComplete'
    BY <1>15, <2>1, <2>2, <2>3 DEF CleanInv, CurrentEntryComplete, Complete, Inv,
       TypeOK, PublishUndoRemove, LockedPcs, PublishPcs, UndoPcs, CleanPcs, NoFault,
       Fault, FaultOf
  <2> QED
    BY <1>t, <2>1, <2>2, <2>3, <2>4, <2>5, <2>6 DEF Inv
<1>16. ASSUME NEW p \in Procs, PublishReturn(p) PROVE Inv'
  BY <1>16, <1>t DEF Inv, TypeOK, LockInv, LocalsInv, PublishInv, CleanInv,
     CurrentEntryComplete, Complete, PublishReturn, LockedPcs, PublishPcs, UndoPcs,
     CleanPcs, Fault, FaultOf, NoFault, Unhurt, Outcomes
<1>17. ASSUME NEW p \in Procs, CleanupStart(p) PROVE Inv'
  BY <1>17, <1>t DEF Inv, TypeOK, LockInv, LocalsInv, PublishInv, CleanInv,
     CurrentEntryComplete, Complete, CleanupStart, LockedPcs, PublishPcs, UndoPcs,
     CleanPcs, Fault, FaultOf, NoFault, Unhurt, Outcomes
<1>18. ASSUME NEW p \in Procs, CleanupMarker(p) PROVE Inv'
  <2>1. \A q \in Procs : q # p => pc[q] \notin LockedPcs
    BY <1>18 DEF Inv, LockInv, TypeOK, CleanupMarker, LockedPcs, PublishPcs,
       UndoPcs, CleanPcs
  <2>2. LockInv' /\ LocalsInv'
    BY <1>18, <2>1 DEF LockInv, LocalsInv, Inv, TypeOK, CleanupMarker, LockedPcs,
       PublishPcs, UndoPcs, CleanPcs, NoFault, Fault, FaultOf
  <2>3. PublishInv'
    BY <1>18, <2>1 DEF PublishInv, Complete, Inv, TypeOK, CleanupMarker, LockedPcs,
       PublishPcs, UndoPcs, CleanPcs, NoFault, Fault, FaultOf
  <2>4. CleanInv' /\ CurrentEntryComplete'
    BY <1>18, <2>1 DEF CleanInv, CurrentEntryComplete, Complete, Inv, TypeOK,
       CleanupMarker, LockedPcs, PublishPcs, UndoPcs, CleanPcs, NoFault, Fault,
       FaultOf
  <2> QED
    BY <1>t, <2>1, <2>2, <2>3, <2>4 DEF Inv
<1>19. ASSUME NEW p \in Procs, CleanupEntries(p) PROVE Inv'
  <2>1. \A q \in Procs : q # p => pc[q] \notin LockedPcs
    BY <1>19 DEF Inv, LockInv, TypeOK, CleanupEntries, LockedPcs, PublishPcs,
       UndoPcs, CleanPcs
  <2>2. \A e \in Entries : e \notin todo[p] => files'[e] = files[e] /\ (e \in dirs'
     <=> e \in dirs)
    BY <1>19 DEF RemoveStep, SetFile, Inv, TypeOK, CleanupEntries, LockedPcs,
       PublishPcs, UndoPcs, CleanPcs, NoFault, Fault, FaultOf
  <2>3. todo'[p] \subseteq todo[p] /\ marker \notin todo[p] /\ marker' = marker
    BY <1>19 DEF CleanInv, Inv, TypeOK, CleanupEntries, LockedPcs, PublishPcs,
       UndoPcs, CleanPcs, NoFault, Fault, FaultOf
  <2>4. LockInv' /\ LocalsInv'
    BY <1>19, <2>1 DEF LockInv, LocalsInv, Inv, TypeOK, CleanupEntries, LockedPcs,
       PublishPcs, UndoPcs, CleanPcs, NoFault, Fault, FaultOf
  <2>5. PublishInv'
    BY <1>19, <2>1 DEF PublishInv, Inv, TypeOK, CleanupEntries, LockedPcs,
       PublishPcs, UndoPcs, CleanPcs, NoFault, Fault, FaultOf
  <2>6. CleanInv'
    BY <1>19, <2>1, <2>3 DEF CleanInv, Inv, TypeOK, CleanupEntries, LockedPcs,
       PublishPcs, UndoPcs, CleanPcs, NoFault, Fault, FaultOf
  <2>7. CurrentEntryComplete'
    BY <1>19, <2>2, <2>3 DEF CurrentEntryComplete, Complete, Inv, TypeOK,
       CleanupEntries, LockedPcs, PublishPcs, UndoPcs, CleanPcs, NoFault, Fault,
       FaultOf
  <2> QED
    BY <1>t, <2>1, <2>2, <2>3, <2>4, <2>5, <2>6, <2>7 DEF Inv
<1>20. ASSUME NEW p \in Procs, CleanupTemps(p) PROVE Inv'
  BY <1>20, <1>t DEF Inv, TypeOK, LockInv, LocalsInv, PublishInv, CleanInv,
     CurrentEntryComplete, Complete, CleanupTemps, LockedPcs, PublishPcs, UndoPcs,
     CleanPcs, Fault, FaultOf, NoFault, Unhurt, Outcomes
<1>21. ASSUME NEW p \in Procs, CleanupReturn(p) PROVE Inv'
  BY <1>21, <1>t DEF Inv, TypeOK, LockInv, LocalsInv, PublishInv, CleanInv,
     CurrentEntryComplete, Complete, CleanupReturn, LockedPcs, PublishPcs, UndoPcs,
     CleanPcs, Fault, FaultOf, NoFault, Unhurt, Outcomes
<1>22. ASSUME NEW p \in Procs, ReadStart(p) PROVE Inv'
  BY <1>22, <1>t DEF Inv, TypeOK, LockInv, LocalsInv, PublishInv, CleanInv,
     CurrentEntryComplete, Complete, ReadStart, LockedPcs, PublishPcs, UndoPcs,
     CleanPcs, Fault, FaultOf, NoFault, Unhurt, Outcomes
<1>23. ASSUME NEW p \in Procs, ReadMarker(p) PROVE Inv'
  BY <1>23, <1>t DEF Inv, TypeOK, LockInv, LocalsInv, PublishInv, CleanInv,
     CurrentEntryComplete, Complete, ReadMarker, LockedPcs, PublishPcs, UndoPcs,
     CleanPcs, Fault, FaultOf, NoFault, Unhurt, Outcomes
<1>24. ASSUME NEW p \in Procs, ReadFile(p) PROVE Inv'
  BY <1>24, <1>t DEF Inv, TypeOK, LockInv, LocalsInv, PublishInv, CleanInv,
     CurrentEntryComplete, Complete, ReadFile, LockedPcs, PublishPcs, UndoPcs,
     CleanPcs, Fault, FaultOf, NoFault, Unhurt, Outcomes
<1>25. ASSUME NEW p \in Procs, ReadVerify(p) PROVE Inv'
  BY <1>25, <1>t DEF Inv, TypeOK, LockInv, LocalsInv, PublishInv, CleanInv,
     CurrentEntryComplete, Complete, ReadVerify, LockedPcs, PublishPcs, UndoPcs,
     CleanPcs, Fault, FaultOf, NoFault, Unhurt, Outcomes
<1>26. ASSUME NEW p \in Procs, ReadRecheck(p) PROVE Inv'
  BY <1>26, <1>t DEF Inv, TypeOK, LockInv, LocalsInv, PublishInv, CleanInv,
     CurrentEntryComplete, Complete, ReadRecheck, LockedPcs, PublishPcs, UndoPcs,
     CleanPcs, Fault, FaultOf, NoFault, Unhurt, Outcomes
<1>27. ASSUME NEW p \in Procs, ReadReturn(p) PROVE Inv'
  BY <1>27, <1>t DEF Inv, TypeOK, LockInv, LocalsInv, PublishInv, CleanInv,
     CurrentEntryComplete, Complete, ReadReturn, LockedPcs, PublishPcs, UndoPcs,
     CleanPcs, Fault, FaultOf, NoFault, Unhurt, Outcomes
<1>28. ASSUME NEW p \in Procs, Crash(p) PROVE Inv'
  BY <1>28, <1>t DEF Inv, TypeOK, LockInv, LocalsInv, PublishInv, CleanInv,
     CurrentEntryComplete, Complete, Crash, LockedPcs, PublishPcs, UndoPcs,
     CleanPcs, Fault, FaultOf, NoFault, Unhurt, Outcomes
<1>u. CASE UNCHANGED vars
  BY <1>u, <1>t DEF vars, Inv, LockInv, LocalsInv, PublishInv, CleanInv,
     CurrentEntryComplete, Complete
<1> QED
  BY <1>u, <1>1, <1>2, <1>3, <1>4, <1>5, <1>6, <1>7, <1>8, <1>9, <1>10, <1>11,
     <1>12, <1>13, <1>14, <1>15, <1>16, <1>17, <1>18, <1>19, <1>20, <1>21, <1>22,
     <1>23, <1>24, <1>25, <1>26, <1>27, <1>28 DEF Next, Step, Call

-----------------------------------------------------------------------------
(* Theorems *)

(* Every state of the file protocol is well typed.                         *)
THEOREM TypeCorrect == Spec => []TypeOK
<1>1. Init => TypeOK /\ LocalsInv
  BY InitTypeOK DEF Init, LocalsInv, PublishPcs, UndoPcs
<1>2. TypeOK /\ LocalsInv /\ [Next]_vars => (TypeOK /\ LocalsInv)'
  BY StepTypeOK, StepLocals
<1> QED
  BY <1>1, <1>2, PTL DEF Spec

(* The marker always names a complete entry, for any number of processes   *)
(* dying at any step, as long as at most one input/output call fails: the  *)
(* error path of publish needs two failures to remove a current entry.     *)
THEOREM CurrentComplete ==
  ASSUME MaxFaults <= 1 PROVE Spec => []CurrentEntryComplete
<1>1. Init => Inv
  BY InitInv
<1>2. Inv /\ [Next]_vars => Inv'
  BY StepInv
<1>3. Inv => CurrentEntryComplete
  BY DEF Inv
<1> QED
  BY <1>1, <1>2, <1>3, PTL DEF Spec

(* A publication that returns Ok is the current entry and still locked.    *)
THEOREM PublishedCurrent ==
  ASSUME MaxFaults <= 1 PROVE Spec => []PublishedIsCurrent
<1>1. Init => Inv
  BY InitInv
<1>2. Inv /\ [Next]_vars => Inv'
  BY StepInv
<1>3. Inv => PublishedIsCurrent
  BY DEF Inv, LockInv, PublishInv, PublishedIsCurrent, LockedPcs, PublishPcs
<1> QED
  BY <1>1, <1>2, <1>3, PTL DEF Spec


-----------------------------------------------------------------------------
(* The inductive invariants *)

WritingPcs == {"write", "temp", "rename"}

(* No file outlives its directory, because remove_dir_all removes the      *)
(* files first and publish writes only into a directory it has created.    *)
OrphanFree ==
    /\ \A e \in Entries : e \notin dirs => files[e] = NoFiles
    /\ \A p \in Procs : pc[p] \in WritingPcs => ent[p] \in dirs

(* What a cleanup has left to do: the directories on its list, and then    *)
(* the temporary markers.                                                  *)
SweepInv == \A p \in Procs : p \notin hurt =>
    /\ pc[p] = "clEntries" => dirs \subseteq todo[p] \cup {marker}
    /\ pc[p] \in {"clTemps", "clDone"} => dirs \subseteq {marker}
    /\ pc[p] = "clDone" => \A e \in Entries : temp[e] = "absent"

CleanupInv ==
    /\ TypeOK
    /\ LockInv
    /\ LocalsInv
    /\ OrphanFree
    /\ SweepInv

(* The identifier of an entry that has been current is never published     *)
(* again.                                                                  *)
SpentInv ==
    /\ spent \subseteq used
    /\ marker # NoEntry => marker \in spent
    /\ \A p \in Procs : pc[p] \in WritingPcs => ent[p] \notin spent

(* window[p] is the history of the marker since p's read began.            *)
WindowInv == \A p \in Procs :
    /\ pc[p] \notin ReadingPcs \cup Outcomes => window[p] = {}
    /\ pc[p] \in ReadingPcs =>
         /\ IsFiniteSet(window[p])
         /\ marker \in window[p]
         /\ window[p] \subseteq spent \cup {NoEntry}
    /\ pc[p] \in {"rdFiles", "rdRecheck"} => rd[p] \in window[p] \ {NoEntry}

(* Every attempt but the first was caused by a commit of its own, and an   *)
(* attempt whose marker is outdated has seen one more.                     *)
AttemptInv == \A p \in Procs :
    /\ pc[p] \in ReadingPcs => Cardinality(window[p]) >= tries[p]
    /\ pc[p] \in {"rdFiles", "rdRecheck"} /\ rd[p] # marker =>
         Cardinality(window[p]) >= tries[p] + 1

(* A read of the entry that is still current has met nothing but complete  *)
(* files, and goes on to the second look at the marker only after a failed *)
(* call of its own.                                                        *)
IntactInv == \A p \in Procs :
    /\ pc[p] = "rdFiles" /\ rd[p] = marker =>
         \A f \in Files : bytes[p][f] \in {"absent", "full"}
    /\ pc[p] = "rdRecheck" /\ rd[p] = marker => p \in hurt
    /\ pc[p] # "torn"

ReadInv ==
    /\ Inv
    /\ SpentInv
    /\ WindowInv
    /\ AttemptInv
    /\ IntactInv

-----------------------------------------------------------------------------
(* Cleanup *)

(* The advisory lock excludes: only its holder is in a step that needs it. *)
LEMMA StepLock == TypeOK /\ LockInv /\ [Next]_vars => LockInv'
<1> SUFFICES ASSUME TypeOK, LockInv, [Next]_vars PROVE LockInv'
  OBVIOUS
<1> USE NoProcAssumption DEF TypeOK, LockInv, LockedPcs, PublishPcs, UndoPcs,
   CleanPcs, ReadingPcs, Outcomes, disk, wvars, rvars, hist, At, Goto
<1>u. CASE UNCHANGED vars
  BY <1>u DEF vars
<1>1. ASSUME NEW p \in Procs, LockStart(p) PROVE LockInv'
  BY <1>1 DEF LockStart
<1>2. ASSUME NEW p \in Procs, LockAcquire(p) PROVE LockInv'
  BY <1>2 DEF LockAcquire
<1>3. ASSUME NEW p \in Procs, LockTimeout(p) PROVE LockInv'
  BY <1>3 DEF LockTimeout
<1>4. ASSUME NEW p \in Procs, LockFail(p) PROVE LockInv'
  BY <1>4 DEF LockFail
<1>5. ASSUME NEW p \in Procs, Unlock(p) PROVE LockInv'
  BY <1>5 DEF Unlock
<1>6. ASSUME NEW p \in Procs, PublishStart(p) PROVE LockInv'
  BY <1>6 DEF PublishStart
<1>7. ASSUME NEW p \in Procs, PublishRefused(p) PROVE LockInv'
  BY <1>7 DEF PublishRefused
<1>8. ASSUME NEW p \in Procs, PublishWrite(p) PROVE LockInv'
  BY <1>8 DEF PublishWrite
<1>9. ASSUME NEW p \in Procs, PublishSync(p) PROVE LockInv'
  BY <1>9 DEF PublishSync
<1>10. ASSUME NEW p \in Procs, PublishTemp(p) PROVE LockInv'
  BY <1>10 DEF PublishTemp
<1>11. ASSUME NEW p \in Procs, PublishRename(p) PROVE LockInv'
  BY <1>11 DEF PublishRename
<1>12. ASSUME NEW p \in Procs, PublishSyncControl(p) PROVE LockInv'
  BY <1>12 DEF PublishSyncControl
<1>13. ASSUME NEW p \in Procs, PublishUndoTemp(p) PROVE LockInv'
  BY <1>13 DEF PublishUndoTemp
<1>14. ASSUME NEW p \in Procs, PublishUndoCheck(p) PROVE LockInv'
  BY <1>14 DEF PublishUndoCheck
<1>15. ASSUME NEW p \in Procs, PublishUndoRemove(p) PROVE LockInv'
  BY <1>15 DEF PublishUndoRemove
<1>16. ASSUME NEW p \in Procs, PublishReturn(p) PROVE LockInv'
  BY <1>16 DEF PublishReturn
<1>17. ASSUME NEW p \in Procs, CleanupStart(p) PROVE LockInv'
  BY <1>17 DEF CleanupStart
<1>18. ASSUME NEW p \in Procs, CleanupMarker(p) PROVE LockInv'
  BY <1>18 DEF CleanupMarker
<1>19. ASSUME NEW p \in Procs, CleanupEntries(p) PROVE LockInv'
  BY <1>19 DEF CleanupEntries
<1>20. ASSUME NEW p \in Procs, CleanupTemps(p) PROVE LockInv'
  BY <1>20 DEF CleanupTemps
<1>21. ASSUME NEW p \in Procs, CleanupReturn(p) PROVE LockInv'
  BY <1>21 DEF CleanupReturn
<1>22. ASSUME NEW p \in Procs, ReadStart(p) PROVE LockInv'
  BY <1>22 DEF ReadStart
<1>23. ASSUME NEW p \in Procs, ReadMarker(p) PROVE LockInv'
  BY <1>23 DEF ReadMarker
<1>24. ASSUME NEW p \in Procs, ReadFile(p) PROVE LockInv'
  BY <1>24 DEF ReadFile
<1>25. ASSUME NEW p \in Procs, ReadVerify(p) PROVE LockInv'
  BY <1>25 DEF ReadVerify
<1>26. ASSUME NEW p \in Procs, ReadRecheck(p) PROVE LockInv'
  BY <1>26 DEF ReadRecheck
<1>27. ASSUME NEW p \in Procs, ReadReturn(p) PROVE LockInv'
  BY <1>27 DEF ReadReturn
<1>28. ASSUME NEW p \in Procs, Crash(p) PROVE LockInv'
  BY <1>28 DEF Crash
<1> QED
  BY <1>u, <1>1, <1>2, <1>3, <1>4, <1>5, <1>6, <1>7, <1>8, <1>9, <1>10, <1>11,
     <1>12, <1>13, <1>14, <1>15, <1>16, <1>17, <1>18, <1>19, <1>20, <1>21, <1>22,
     <1>23, <1>24, <1>25, <1>26, <1>27, <1>28 DEF Next, Step, Call

(* remove_dir_all unlinks files before the directory that holds them, and  *)
(* touches no other entry.                                                 *)
LEMMA RemoveStepFacts ==
  ASSUME TypeOK, NEW e \in Entries, RemoveStep(e),
         \A d \in Entries : d \notin dirs => files[d] = NoFiles
  PROVE  /\ \A d \in Entries : d \notin dirs' => files'[d] = NoFiles
         /\ \A d \in Entries : d # e => (d \in dirs' <=> d \in dirs) /\ files'[d] = files[d]
         /\ dirs' \subseteq dirs
<1>1. ASSUME NEW f \in Files, files[e][f] # "absent", SetFile(e, f, "absent"), UNCHANGED dirs
      PROVE  /\ \A d \in Entries : d # e => files'[d] = files[d]
             /\ e \in dirs
  BY <1>1 DEF TypeOK, SetFile, NoFiles
<1>2. ASSUME \A f \in Files : files[e][f] = "absent"
      PROVE  files[e] = NoFiles
  BY <1>2 DEF TypeOK, NoFiles
<1> QED
  BY <1>1, <1>2 DEF RemoveStep, TypeOK

(* No action leaves a file without its directory.                          *)
LEMMA StepOrphanFree ==
  TypeOK /\ LockInv /\ LocalsInv /\ OrphanFree /\ [Next]_vars => OrphanFree'
<1> SUFFICES ASSUME TypeOK, LockInv, LocalsInv, OrphanFree, [Next]_vars PROVE OrphanFree'
  OBVIOUS
<1> USE DEF OrphanFree, WritingPcs, disk, wvars, rvars, hist, At, Goto
<1>u. CASE UNCHANGED vars
  BY <1>u DEF vars
<1>1. ASSUME NEW p \in Procs, LockStart(p) PROVE OrphanFree'
  BY <1>1 DEF TypeOK, Outcomes, LockStart
<1>2. ASSUME NEW p \in Procs, LockAcquire(p) PROVE OrphanFree'
  BY <1>2 DEF TypeOK, Outcomes, LockAcquire
<1>3. ASSUME NEW p \in Procs, LockTimeout(p) PROVE OrphanFree'
  BY <1>3 DEF TypeOK, Outcomes, LockTimeout
<1>4. ASSUME NEW p \in Procs, LockFail(p) PROVE OrphanFree'
  BY <1>4 DEF TypeOK, Outcomes, LockFail
<1>5. ASSUME NEW p \in Procs, Unlock(p) PROVE OrphanFree'
  BY <1>5 DEF TypeOK, Outcomes, Unlock
<1>6. ASSUME NEW p \in Procs, PublishStart(p) PROVE OrphanFree'
  BY <1>6, FreshEntryFact DEF Fault, NoFault, TypeOK, PublishStart
<1>7. ASSUME NEW p \in Procs, PublishRefused(p) PROVE OrphanFree'
  BY <1>7 DEF TypeOK, Outcomes, PublishRefused
<1>8. ASSUME NEW p \in Procs, PublishWrite(p) PROVE OrphanFree'
  <2>1. \A q \in Procs : q # p => pc[q] \notin LockedPcs
    BY <1>8 DEF LockInv, TypeOK, PublishWrite, LockedPcs, PublishPcs, UndoPcs, CleanPcs

  <2>2. ent[p] \in dirs /\ ent[p] \in Entries
    BY <1>8 DEF PublishWrite, TypeOK
  <2>3. \A e \in Entries : e # ent[p] => files'[e] = files[e]
    BY <1>8, <2>2 DEF PublishWrite, SetFile, TypeOK
  <2> QED
    BY <1>8, <2>1, <2>2, <2>3 DEF PublishWrite, TypeOK, LockedPcs, PublishPcs, UndoPcs, CleanPcs
<1>9. ASSUME NEW p \in Procs, PublishSync(p) PROVE OrphanFree'
  BY <1>9 DEF TypeOK, Outcomes, PublishSync
<1>10. ASSUME NEW p \in Procs, PublishTemp(p) PROVE OrphanFree'
  BY <1>10 DEF TypeOK, Outcomes, PublishTemp
<1>11. ASSUME NEW p \in Procs, PublishRename(p) PROVE OrphanFree'
  BY <1>11 DEF TypeOK, Outcomes, PublishRename
<1>12. ASSUME NEW p \in Procs, PublishSyncControl(p) PROVE OrphanFree'
  BY <1>12 DEF TypeOK, Outcomes, PublishSyncControl
<1>13. ASSUME NEW p \in Procs, PublishUndoTemp(p) PROVE OrphanFree'
  BY <1>13 DEF TypeOK, Outcomes, PublishUndoTemp
<1>14. ASSUME NEW p \in Procs, PublishUndoCheck(p) PROVE OrphanFree'
  BY <1>14 DEF TypeOK, Outcomes, PublishUndoCheck
<1>15. ASSUME NEW p \in Procs, PublishUndoRemove(p) PROVE OrphanFree'
  <2>1. \A q \in Procs : q # p => pc[q] \notin LockedPcs
    BY <1>15 DEF LockInv, TypeOK, PublishUndoRemove, LockedPcs, PublishPcs, UndoPcs, CleanPcs

  <2>2. ent[p] \in Entries
    BY <1>15 DEF LocalsInv, PublishUndoRemove, TypeOK, UndoPcs
  <2>3. /\ \A d \in Entries : d \notin dirs' => files'[d] = NoFiles
    BY <1>15, <2>2, RemoveStepFacts DEF PublishUndoRemove
  <2> QED
    BY <1>15, <2>1, <2>3 DEF PublishUndoRemove, TypeOK, LockedPcs, PublishPcs, UndoPcs, CleanPcs
<1>16. ASSUME NEW p \in Procs, PublishReturn(p) PROVE OrphanFree'
  BY <1>16 DEF TypeOK, Outcomes, PublishReturn
<1>17. ASSUME NEW p \in Procs, CleanupStart(p) PROVE OrphanFree'
  BY <1>17 DEF TypeOK, Outcomes, CleanupStart
<1>18. ASSUME NEW p \in Procs, CleanupMarker(p) PROVE OrphanFree'
  BY <1>18 DEF TypeOK, Outcomes, CleanupMarker
<1>19. ASSUME NEW p \in Procs, CleanupEntries(p) PROVE OrphanFree'
  <2>1. \A q \in Procs : q # p => pc[q] \notin LockedPcs
    BY <1>19 DEF LockInv, TypeOK, CleanupEntries, LockedPcs, PublishPcs, UndoPcs, CleanPcs

  <2>2. \A d \in Entries : d \notin dirs' => files'[d] = NoFiles
    BY <1>19, RemoveStepFacts DEF CleanupEntries, TypeOK
  <2> QED
    BY <1>19, <2>1, <2>2 DEF CleanupEntries, TypeOK, LockedPcs, PublishPcs, UndoPcs, CleanPcs
<1>20. ASSUME NEW p \in Procs, CleanupTemps(p) PROVE OrphanFree'
  BY <1>20 DEF TypeOK, Outcomes, CleanupTemps
<1>21. ASSUME NEW p \in Procs, CleanupReturn(p) PROVE OrphanFree'
  BY <1>21 DEF TypeOK, Outcomes, CleanupReturn
<1>22. ASSUME NEW p \in Procs, ReadStart(p) PROVE OrphanFree'
  BY <1>22 DEF TypeOK, Outcomes, ReadStart
<1>23. ASSUME NEW p \in Procs, ReadMarker(p) PROVE OrphanFree'
  BY <1>23 DEF TypeOK, Outcomes, ReadMarker
<1>24. ASSUME NEW p \in Procs, ReadFile(p) PROVE OrphanFree'
  BY <1>24 DEF TypeOK, Outcomes, ReadFile
<1>25. ASSUME NEW p \in Procs, ReadVerify(p) PROVE OrphanFree'
  BY <1>25 DEF TypeOK, Outcomes, ReadVerify
<1>26. ASSUME NEW p \in Procs, ReadRecheck(p) PROVE OrphanFree'
  BY <1>26 DEF TypeOK, Outcomes, ReadRecheck
<1>27. ASSUME NEW p \in Procs, ReadReturn(p) PROVE OrphanFree'
  BY <1>27 DEF TypeOK, Outcomes, ReadReturn
<1>28. ASSUME NEW p \in Procs, Crash(p) PROVE OrphanFree'
  BY <1>28 DEF TypeOK, Outcomes, Crash
<1> QED
  BY <1>u, <1>1, <1>2, <1>3, <1>4, <1>5, <1>6, <1>7, <1>8, <1>9, <1>10, <1>11,
     <1>12, <1>13, <1>14, <1>15, <1>16, <1>17, <1>18, <1>19, <1>20, <1>21, <1>22,
     <1>23, <1>24, <1>25, <1>26, <1>27, <1>28 DEF Next, Step, Call

(* A cleanup whose calls succeed removes what is on its list, and nobody   *)
(* adds a directory or a temporary marker meanwhile.                       *)
LEMMA StepSweep ==
  TypeOK /\ LockInv /\ OrphanFree /\ SweepInv /\ [Next]_vars => SweepInv'
<1> SUFFICES ASSUME TypeOK, LockInv, OrphanFree, SweepInv, [Next]_vars PROVE SweepInv'
  OBVIOUS
<1> USE DEF SweepInv, disk, wvars, rvars, hist, At, Goto
<1>u. CASE UNCHANGED vars
  BY <1>u DEF vars
<1>1. ASSUME NEW p \in Procs, LockStart(p) PROVE SweepInv'
  BY <1>1 DEF TypeOK, Outcomes, Fault, FaultOf, NoFault, Unhurt, LockStart
<1>2. ASSUME NEW p \in Procs, LockAcquire(p) PROVE SweepInv'
  BY <1>2 DEF TypeOK, Outcomes, Fault, FaultOf, NoFault, Unhurt, LockAcquire
<1>3. ASSUME NEW p \in Procs, LockTimeout(p) PROVE SweepInv'
  BY <1>3 DEF TypeOK, Outcomes, Fault, FaultOf, NoFault, Unhurt, LockTimeout
<1>4. ASSUME NEW p \in Procs, LockFail(p) PROVE SweepInv'
  BY <1>4 DEF TypeOK, Outcomes, Fault, FaultOf, NoFault, Unhurt, LockFail
<1>5. ASSUME NEW p \in Procs, Unlock(p) PROVE SweepInv'
  BY <1>5 DEF TypeOK, Outcomes, Fault, FaultOf, NoFault, Unhurt, Unlock
<1>6. ASSUME NEW p \in Procs, PublishStart(p) PROVE SweepInv'
  <2>1. \A q \in Procs : q # p => pc[q] \notin LockedPcs
    BY <1>6 DEF LockInv, TypeOK, PublishStart, LockedPcs, PublishPcs, UndoPcs, CleanPcs

  <2> QED
    BY <1>6, <2>1 DEF PublishStart, TypeOK, LockedPcs, PublishPcs, CleanPcs, Fault, NoFault
<1>7. ASSUME NEW p \in Procs, PublishRefused(p) PROVE SweepInv'
  BY <1>7 DEF TypeOK, Outcomes, Fault, FaultOf, NoFault, Unhurt, PublishRefused
<1>8. ASSUME NEW p \in Procs, PublishWrite(p) PROVE SweepInv'
  <2>1. \A q \in Procs : q # p => pc[q] \notin LockedPcs
    BY <1>8 DEF LockInv, TypeOK, PublishWrite, LockedPcs, PublishPcs, UndoPcs, CleanPcs

  <2> QED
    BY <1>8, <2>1 DEF PublishWrite, TypeOK, LockedPcs, PublishPcs, CleanPcs, Fault, NoFault
<1>9. ASSUME NEW p \in Procs, PublishSync(p) PROVE SweepInv'
  BY <1>9 DEF TypeOK, Outcomes, Fault, FaultOf, NoFault, Unhurt, PublishSync
<1>10. ASSUME NEW p \in Procs, PublishTemp(p) PROVE SweepInv'
  <2>1. \A q \in Procs : q # p => pc[q] \notin LockedPcs
    BY <1>10 DEF LockInv, TypeOK, PublishTemp, LockedPcs, PublishPcs, UndoPcs, CleanPcs

  <2> QED
    BY <1>10, <2>1 DEF PublishTemp, TypeOK, LockedPcs, PublishPcs, CleanPcs, Fault, NoFault
<1>11. ASSUME NEW p \in Procs, PublishRename(p) PROVE SweepInv'
  <2>1. \A q \in Procs : q # p => pc[q] \notin LockedPcs
    BY <1>11 DEF LockInv, TypeOK, PublishRename, LockedPcs, PublishPcs, UndoPcs, CleanPcs

  <2> QED
    BY <1>11, <2>1 DEF PublishRename, TypeOK, LockedPcs, PublishPcs, CleanPcs, Fault, NoFault
<1>12. ASSUME NEW p \in Procs, PublishSyncControl(p) PROVE SweepInv'
  BY <1>12 DEF TypeOK, Outcomes, Fault, FaultOf, NoFault, Unhurt,
     PublishSyncControl
<1>13. ASSUME NEW p \in Procs, PublishUndoTemp(p) PROVE SweepInv'
  <2>1. \A q \in Procs : q # p => pc[q] \notin LockedPcs
    BY <1>13 DEF LockInv, TypeOK, PublishUndoTemp, LockedPcs, PublishPcs, UndoPcs, CleanPcs

  <2> QED
    BY <1>13, <2>1 DEF PublishUndoTemp, TypeOK, LockedPcs, PublishPcs, CleanPcs, Fault, NoFault
<1>14. ASSUME NEW p \in Procs, PublishUndoCheck(p) PROVE SweepInv'
  BY <1>14 DEF TypeOK, Outcomes, Fault, FaultOf, NoFault, Unhurt, PublishUndoCheck
<1>15. ASSUME NEW p \in Procs, PublishUndoRemove(p) PROVE SweepInv'
  <2>1. \A q \in Procs : q # p => pc[q] \notin LockedPcs
    BY <1>15 DEF LockInv, TypeOK, PublishUndoRemove, LockedPcs, PublishPcs, UndoPcs, CleanPcs

  <2> QED
    BY <1>15, <2>1 DEF PublishUndoRemove, TypeOK, LockedPcs, PublishPcs, CleanPcs, Fault, NoFault
<1>16. ASSUME NEW p \in Procs, PublishReturn(p) PROVE SweepInv'
  BY <1>16 DEF TypeOK, Outcomes, Fault, FaultOf, NoFault, Unhurt, PublishReturn
<1>17. ASSUME NEW p \in Procs, CleanupStart(p) PROVE SweepInv'
  BY <1>17 DEF TypeOK, Outcomes, Fault, FaultOf, NoFault, Unhurt, CleanupStart
<1>18. ASSUME NEW p \in Procs, CleanupMarker(p) PROVE SweepInv'
  <2>1. \A q \in Procs : q # p => pc[q] \notin LockedPcs
    BY <1>18 DEF LockInv, TypeOK, CleanupMarker, LockedPcs, PublishPcs, UndoPcs, CleanPcs
  <2> QED
    BY <1>18, <2>1, SMTT(60) DEF CleanupMarker, TypeOK, LockedPcs, CleanPcs, FaultOf, NoFault
<1>19. ASSUME NEW p \in Procs, CleanupEntries(p) PROVE SweepInv'
  <2>1. \A q \in Procs : q # p => pc[q] \notin LockedPcs
    BY <1>19 DEF LockInv, TypeOK, CleanupEntries, LockedPcs, PublishPcs, UndoPcs, CleanPcs

  <2>2. ASSUME NEW e \in todo[p], RemoveStep(e), todo' = [todo EXCEPT ![p] = todo[p] \cap dirs'],
               UNCHANGED <<pc, marker, hurt>>
        PROVE  SweepInv'
    <3>1. dirs' \subseteq dirs
      BY <2>2, RemoveStepFacts DEF OrphanFree, TypeOK
    <3> QED
      BY <1>19, <2>1, <2>2, <3>1 DEF CleanupEntries, TypeOK, LockedPcs, CleanPcs
  <2>3. ASSUME FaultOf(p), UNCHANGED <<pc, dirs, marker>>
        PROVE  SweepInv'
    BY <1>19, <2>1, <2>3 DEF CleanupEntries, FaultOf, LockedPcs, CleanPcs
  <2>4. ASSUME todo[p] = {}, pc' = [pc EXCEPT ![p] = "clTemps"], UNCHANGED <<dirs, marker, todo, hurt>>
        PROVE  SweepInv'
    BY <1>19, <2>1, <2>4 DEF CleanupEntries, TypeOK, LockedPcs, CleanPcs
  <2> QED
    BY <1>19, <2>2, <2>3, <2>4 DEF CleanupEntries, NoFault
<1>20. ASSUME NEW p \in Procs, CleanupTemps(p) PROVE SweepInv'
  <2>1. \A q \in Procs : q # p => pc[q] \notin LockedPcs
    BY <1>20 DEF LockInv, TypeOK, CleanupTemps, LockedPcs, PublishPcs, UndoPcs, CleanPcs

  <2> QED
    BY <1>20, <2>1 DEF CleanupTemps, TypeOK, LockedPcs, CleanPcs, FaultOf, NoFault
<1>21. ASSUME NEW p \in Procs, CleanupReturn(p) PROVE SweepInv'
  BY <1>21 DEF TypeOK, Outcomes, Fault, FaultOf, NoFault, Unhurt, CleanupReturn
<1>22. ASSUME NEW p \in Procs, ReadStart(p) PROVE SweepInv'
  BY <1>22 DEF TypeOK, Outcomes, Fault, FaultOf, NoFault, Unhurt, ReadStart
<1>23. ASSUME NEW p \in Procs, ReadMarker(p) PROVE SweepInv'
  BY <1>23 DEF TypeOK, Outcomes, Fault, FaultOf, NoFault, Unhurt, ReadMarker
<1>24. ASSUME NEW p \in Procs, ReadFile(p) PROVE SweepInv'
  BY <1>24 DEF TypeOK, Outcomes, Fault, FaultOf, NoFault, Unhurt, ReadFile
<1>25. ASSUME NEW p \in Procs, ReadVerify(p) PROVE SweepInv'
  BY <1>25 DEF TypeOK, Outcomes, Fault, FaultOf, NoFault, Unhurt, ReadVerify
<1>26. ASSUME NEW p \in Procs, ReadRecheck(p) PROVE SweepInv'
  BY <1>26 DEF TypeOK, Outcomes, Fault, FaultOf, NoFault, Unhurt, ReadRecheck
<1>27. ASSUME NEW p \in Procs, ReadReturn(p) PROVE SweepInv'
  BY <1>27 DEF TypeOK, Outcomes, Fault, FaultOf, NoFault, Unhurt, ReadReturn
<1>28. ASSUME NEW p \in Procs, Crash(p) PROVE SweepInv'
  BY <1>28 DEF TypeOK, Outcomes, Fault, FaultOf, NoFault, Unhurt, Crash
<1> QED
  BY <1>u, <1>1, <1>2, <1>3, <1>4, <1>5, <1>6, <1>7, <1>8, <1>9, <1>10, <1>11,
     <1>12, <1>13, <1>14, <1>15, <1>16, <1>17, <1>18, <1>19, <1>20, <1>21, <1>22,
     <1>23, <1>24, <1>25, <1>26, <1>27, <1>28 DEF Next, Step, Call

(* A cleanup none of whose calls failed leaves nothing but the current     *)
(* entry, for any number of processes dying at any step and any number of  *)
(* failing calls elsewhere.                                                *)
THEOREM CleanupComplete == Spec => []CleanupLeavesOnlyCurrent
<1>1. Init => CleanupInv
  BY InitTypeOK DEF Init, CleanupInv, LockInv, LocalsInv, OrphanFree, SweepInv,
     WritingPcs, LockedPcs, PublishPcs, UndoPcs, CleanPcs
<1>2. CleanupInv /\ [Next]_vars => CleanupInv'
  BY StepTypeOK, StepLock, StepLocals, StepOrphanFree, StepSweep DEF CleanupInv
<1>3. CleanupInv => CleanupLeavesOnlyCurrent
  BY DEF CleanupInv, OrphanFree, SweepInv, CleanupLeavesOnlyCurrent
<1> QED
  BY <1>1, <1>2, <1>3, PTL DEF Spec

-----------------------------------------------------------------------------
(* Reads *)

(* Publishing draws an identifier that was never used, so no entry becomes *)
(* current twice.                                                          *)
LEMMA StepSpent ==
  TypeOK /\ LocalsInv /\ LockInv /\ SpentInv /\ [Next]_vars => SpentInv'
<1> SUFFICES ASSUME TypeOK, LocalsInv, LockInv, SpentInv, [Next]_vars PROVE SpentInv'
  OBVIOUS
<1> USE NoEntryAssumption DEF SpentInv, WritingPcs, disk, wvars, rvars, hist, At,
   Goto
<1>u. CASE UNCHANGED vars
  BY <1>u DEF vars
<1>1. ASSUME NEW p \in Procs, LockStart(p) PROVE SpentInv'
  BY <1>1 DEF TypeOK, Outcomes, LockStart
<1>2. ASSUME NEW p \in Procs, LockAcquire(p) PROVE SpentInv'
  BY <1>2 DEF TypeOK, Outcomes, LockAcquire
<1>3. ASSUME NEW p \in Procs, LockTimeout(p) PROVE SpentInv'
  BY <1>3 DEF TypeOK, Outcomes, LockTimeout
<1>4. ASSUME NEW p \in Procs, LockFail(p) PROVE SpentInv'
  BY <1>4 DEF TypeOK, Outcomes, LockFail
<1>5. ASSUME NEW p \in Procs, Unlock(p) PROVE SpentInv'
  BY <1>5 DEF TypeOK, Outcomes, Unlock
<1>6. ASSUME NEW p \in Procs, PublishStart(p) PROVE SpentInv'
  BY <1>6, FreshEntryFact DEF TypeOK, PublishStart
<1>7. ASSUME NEW p \in Procs, PublishRefused(p) PROVE SpentInv'
  BY <1>7 DEF TypeOK, Outcomes, PublishRefused
<1>8. ASSUME NEW p \in Procs, PublishWrite(p) PROVE SpentInv'
  BY <1>8 DEF TypeOK, Outcomes, PublishWrite
<1>9. ASSUME NEW p \in Procs, PublishSync(p) PROVE SpentInv'
  BY <1>9 DEF TypeOK, Outcomes, PublishSync
<1>10. ASSUME NEW p \in Procs, PublishTemp(p) PROVE SpentInv'
  BY <1>10 DEF TypeOK, Outcomes, PublishTemp
<1>11. ASSUME NEW p \in Procs, PublishRename(p) PROVE SpentInv'
  <2>1. \A q \in Procs : q # p => pc[q] \notin LockedPcs
    BY <1>11 DEF LockInv, TypeOK, PublishRename, LockedPcs, PublishPcs, UndoPcs, CleanPcs

  <2>2. ent[p] \in used
    BY <1>11 DEF LocalsInv, PublishRename, PublishPcs
  <2> QED
    BY <1>11, <2>1, <2>2 DEF PublishRename, TypeOK, LockedPcs, PublishPcs
<1>12. ASSUME NEW p \in Procs, PublishSyncControl(p) PROVE SpentInv'
  BY <1>12 DEF TypeOK, Outcomes, PublishSyncControl
<1>13. ASSUME NEW p \in Procs, PublishUndoTemp(p) PROVE SpentInv'
  BY <1>13 DEF TypeOK, Outcomes, PublishUndoTemp
<1>14. ASSUME NEW p \in Procs, PublishUndoCheck(p) PROVE SpentInv'
  BY <1>14 DEF TypeOK, Outcomes, PublishUndoCheck
<1>15. ASSUME NEW p \in Procs, PublishUndoRemove(p) PROVE SpentInv'
  BY <1>15 DEF TypeOK, Outcomes, PublishUndoRemove
<1>16. ASSUME NEW p \in Procs, PublishReturn(p) PROVE SpentInv'
  BY <1>16 DEF TypeOK, Outcomes, PublishReturn
<1>17. ASSUME NEW p \in Procs, CleanupStart(p) PROVE SpentInv'
  BY <1>17 DEF TypeOK, Outcomes, CleanupStart
<1>18. ASSUME NEW p \in Procs, CleanupMarker(p) PROVE SpentInv'
  BY <1>18 DEF TypeOK, Outcomes, CleanupMarker
<1>19. ASSUME NEW p \in Procs, CleanupEntries(p) PROVE SpentInv'
  BY <1>19 DEF TypeOK, Outcomes, CleanupEntries
<1>20. ASSUME NEW p \in Procs, CleanupTemps(p) PROVE SpentInv'
  BY <1>20 DEF TypeOK, Outcomes, CleanupTemps
<1>21. ASSUME NEW p \in Procs, CleanupReturn(p) PROVE SpentInv'
  BY <1>21 DEF TypeOK, Outcomes, CleanupReturn
<1>22. ASSUME NEW p \in Procs, ReadStart(p) PROVE SpentInv'
  BY <1>22 DEF TypeOK, Outcomes, ReadStart
<1>23. ASSUME NEW p \in Procs, ReadMarker(p) PROVE SpentInv'
  BY <1>23 DEF TypeOK, Outcomes, ReadMarker
<1>24. ASSUME NEW p \in Procs, ReadFile(p) PROVE SpentInv'
  BY <1>24 DEF TypeOK, Outcomes, ReadFile
<1>25. ASSUME NEW p \in Procs, ReadVerify(p) PROVE SpentInv'
  BY <1>25 DEF TypeOK, Outcomes, ReadVerify
<1>26. ASSUME NEW p \in Procs, ReadRecheck(p) PROVE SpentInv'
  BY <1>26 DEF TypeOK, Outcomes, ReadRecheck
<1>27. ASSUME NEW p \in Procs, ReadReturn(p) PROVE SpentInv'
  BY <1>27 DEF TypeOK, Outcomes, ReadReturn
<1>28. ASSUME NEW p \in Procs, Crash(p) PROVE SpentInv'
  BY <1>28 DEF TypeOK, Outcomes, Crash
<1> QED
  BY <1>u, <1>1, <1>2, <1>3, <1>4, <1>5, <1>6, <1>7, <1>8, <1>9, <1>10, <1>11,
     <1>12, <1>13, <1>14, <1>15, <1>16, <1>17, <1>18, <1>19, <1>20, <1>21, <1>22,
     <1>23, <1>24, <1>25, <1>26, <1>27, <1>28 DEF Next, Step, Call

(* The rename of a publication adds a new entry to the history of every    *)
(* read in progress.                                                       *)
LEMMA RenameWindow ==
  ASSUME TypeOK, SpentInv, WindowInv, LocalsInv, NEW p \in Procs, PublishRename(p),
         marker' # marker, NEW q \in Procs, pc[q] \in ReadingPcs
  PROVE  /\ marker' = ent[p] /\ ent[p] \in Entries
         /\ marker' \notin window[q]
         /\ window'[q] = window[q] \cup {marker'}
         /\ pc'[q] = pc[q]
<1>1. ent[p] \in used /\ ent[p] \in Entries /\ ent[p] \notin spent /\ marker' = ent[p]
  BY DEF TypeOK, SpentInv, LocalsInv, PublishRename, At, PublishPcs, WritingPcs
<1>2. ent[p] \notin window[q]
  BY <1>1, NoEntryAssumption DEF WindowInv
<1>3. q # p /\ pc'[q] = pc[q]
  BY DEF PublishRename, At, Goto, ReadingPcs, TypeOK
<1>4. window'[q] = window[q] \cup {ent[p]}
  BY DEF PublishRename, hist
<1> QED BY <1>1, <1>2, <1>3, <1>4

(* The history of a read starts at the marker it begins with and gains     *)
(* every marker renamed into place while it runs.                          *)
LEMMA StepWindow ==
  TypeOK /\ LocalsInv /\ SpentInv /\ WindowInv /\ [Next]_vars => WindowInv'
<1> SUFFICES ASSUME TypeOK, LocalsInv, SpentInv, WindowInv, [Next]_vars PROVE WindowInv'
  OBVIOUS
<1> USE NoEntryAssumption DEF WindowInv, disk, wvars, rvars, hist, At, Goto
<1>u. CASE UNCHANGED vars
  BY <1>u DEF vars
<1>1. ASSUME NEW p \in Procs, LockStart(p) PROVE WindowInv'
  BY <1>1 DEF TypeOK, ReadingPcs, Outcomes, LockStart
<1>2. ASSUME NEW p \in Procs, LockAcquire(p) PROVE WindowInv'
  BY <1>2 DEF TypeOK, ReadingPcs, Outcomes, LockAcquire
<1>3. ASSUME NEW p \in Procs, LockTimeout(p) PROVE WindowInv'
  BY <1>3 DEF TypeOK, ReadingPcs, Outcomes, LockTimeout
<1>4. ASSUME NEW p \in Procs, LockFail(p) PROVE WindowInv'
  BY <1>4 DEF TypeOK, ReadingPcs, Outcomes, LockFail
<1>5. ASSUME NEW p \in Procs, Unlock(p) PROVE WindowInv'
  BY <1>5 DEF TypeOK, ReadingPcs, Outcomes, Unlock
<1>6. ASSUME NEW p \in Procs, PublishStart(p) PROVE WindowInv'
  BY <1>6 DEF TypeOK, ReadingPcs, Outcomes, PublishStart
<1>7. ASSUME NEW p \in Procs, PublishRefused(p) PROVE WindowInv'
  BY <1>7 DEF TypeOK, ReadingPcs, Outcomes, PublishRefused
<1>8. ASSUME NEW p \in Procs, PublishWrite(p) PROVE WindowInv'
  BY <1>8 DEF TypeOK, ReadingPcs, Outcomes, PublishWrite
<1>9. ASSUME NEW p \in Procs, PublishSync(p) PROVE WindowInv'
  BY <1>9 DEF TypeOK, ReadingPcs, Outcomes, PublishSync
<1>10. ASSUME NEW p \in Procs, PublishTemp(p) PROVE WindowInv'
  <2>1. \A q \in Procs : pc'[q] = pc[q] \/ {pc[q], pc'[q]} \cap (ReadingPcs \cup Outcomes) = {}
    BY <1>10 DEF PublishTemp, TypeOK, ReadingPcs, Outcomes
  <2> QED
    BY <1>10, <2>1 DEF PublishTemp, ReadingPcs
<1>11. ASSUME NEW p \in Procs, PublishRename(p) PROVE WindowInv'
  <2>1. CASE marker' # marker
    <3>1. \A q \in Procs : pc[q] \in ReadingPcs =>
             /\ window'[q] = window[q] \cup {marker'}
             /\ pc'[q] = pc[q]
      BY <1>11, <2>1, RenameWindow
    <3>2. \A q \in Procs : pc'[q] = pc[q] \/ (q = p /\ pc[q] = "rename" /\ pc'[q] = "syncControl")
      BY <1>11, <2>1 DEF PublishRename, TypeOK
    <3>3. spent' = spent \cup {marker'}
      BY <1>11, <2>1 DEF PublishRename
    <3>4. \A q \in Procs : pc[q] \notin ReadingPcs => window'[q] = window[q]
      BY <1>11, <2>1 DEF PublishRename
    <3>5. \A q \in Procs : pc[q] \in ReadingPcs => IsFiniteSet(window'[q])
      BY <3>1, FS_AddElement
    <3> QED
      BY <1>11, <3>1, <3>2, <3>3, <3>4, <3>5 DEF PublishRename, ReadingPcs, Outcomes
  <2>2. CASE marker' = marker
    <3>1. marker' # ent[p]
      BY <1>11, <2>2 DEF SpentInv, TypeOK, PublishRename, LocalsInv, PublishPcs, WritingPcs
    <3>2. pc' = [pc EXCEPT ![p] = "undoTemp"] /\ UNCHANGED hist
      BY <1>11, <3>1 DEF PublishRename
    <3> QED
      BY <1>11, <2>2, <3>2 DEF PublishRename, ReadingPcs, Outcomes, TypeOK
  <2> QED BY <2>1, <2>2
<1>12. ASSUME NEW p \in Procs, PublishSyncControl(p) PROVE WindowInv'
  BY <1>12 DEF TypeOK, ReadingPcs, Outcomes, PublishSyncControl
<1>13. ASSUME NEW p \in Procs, PublishUndoTemp(p) PROVE WindowInv'
  BY <1>13 DEF TypeOK, ReadingPcs, Outcomes, PublishUndoTemp
<1>14. ASSUME NEW p \in Procs, PublishUndoCheck(p) PROVE WindowInv'
  BY <1>14 DEF TypeOK, ReadingPcs, Outcomes, PublishUndoCheck
<1>15. ASSUME NEW p \in Procs, PublishUndoRemove(p) PROVE WindowInv'
  BY <1>15 DEF TypeOK, ReadingPcs, Outcomes, PublishUndoRemove
<1>16. ASSUME NEW p \in Procs, PublishReturn(p) PROVE WindowInv'
  BY <1>16 DEF TypeOK, ReadingPcs, Outcomes, PublishReturn
<1>17. ASSUME NEW p \in Procs, CleanupStart(p) PROVE WindowInv'
  BY <1>17 DEF TypeOK, ReadingPcs, Outcomes, CleanupStart
<1>18. ASSUME NEW p \in Procs, CleanupMarker(p) PROVE WindowInv'
  BY <1>18 DEF TypeOK, ReadingPcs, Outcomes, CleanupMarker
<1>19. ASSUME NEW p \in Procs, CleanupEntries(p) PROVE WindowInv'
  BY <1>19 DEF TypeOK, ReadingPcs, Outcomes, CleanupEntries
<1>20. ASSUME NEW p \in Procs, CleanupTemps(p) PROVE WindowInv'
  BY <1>20 DEF TypeOK, ReadingPcs, Outcomes, CleanupTemps
<1>21. ASSUME NEW p \in Procs, CleanupReturn(p) PROVE WindowInv'
  BY <1>21 DEF TypeOK, ReadingPcs, Outcomes, CleanupReturn
<1>22. ASSUME NEW p \in Procs, ReadStart(p) PROVE WindowInv'
  BY <1>22, FS_Singleton DEF TypeOK, ReadingPcs, Outcomes, SpentInv, ReadStart
<1>23. ASSUME NEW p \in Procs, ReadMarker(p) PROVE WindowInv'
  BY <1>23 DEF TypeOK, ReadingPcs, Outcomes, ReadMarker
<1>24. ASSUME NEW p \in Procs, ReadFile(p) PROVE WindowInv'
  BY <1>24 DEF TypeOK, ReadingPcs, Outcomes, ReadFile
<1>25. ASSUME NEW p \in Procs, ReadVerify(p) PROVE WindowInv'
  BY <1>25 DEF TypeOK, ReadingPcs, Outcomes, ReadVerify
<1>26. ASSUME NEW p \in Procs, ReadRecheck(p) PROVE WindowInv'
  BY <1>26 DEF TypeOK, ReadingPcs, Outcomes, ReadRecheck
<1>27. ASSUME NEW p \in Procs, ReadReturn(p) PROVE WindowInv'
  BY <1>27 DEF TypeOK, ReadingPcs, Outcomes, ReadReturn
<1>28. ASSUME NEW p \in Procs, Crash(p) PROVE WindowInv'
  BY <1>28 DEF TypeOK, ReadingPcs, Outcomes, Crash
<1> QED
  BY <1>u, <1>1, <1>2, <1>3, <1>4, <1>5, <1>6, <1>7, <1>8, <1>9, <1>10, <1>11,
     <1>12, <1>13, <1>14, <1>15, <1>16, <1>17, <1>18, <1>19, <1>20, <1>21, <1>22,
     <1>23, <1>24, <1>25, <1>26, <1>27, <1>28 DEF Next, Step, Call

(* An attempt is repeated only after a commit the read had not yet seen.   *)
LEMMA StepAttempt ==
  TypeOK /\ LocalsInv /\ SpentInv /\ WindowInv /\ AttemptInv /\ [Next]_vars => AttemptInv'
<1> SUFFICES ASSUME TypeOK, LocalsInv, SpentInv, WindowInv, AttemptInv, [Next]_vars
             PROVE  AttemptInv'
  OBVIOUS
<1> USE NoEntryAssumption DEF AttemptInv, disk, wvars, rvars, hist, At, Goto
<1>u. CASE UNCHANGED vars
  BY <1>u DEF vars
<1>1. ASSUME NEW p \in Procs, LockStart(p) PROVE AttemptInv'
  BY <1>1 DEF TypeOK, ReadingPcs, Outcomes, LockStart
<1>2. ASSUME NEW p \in Procs, LockAcquire(p) PROVE AttemptInv'
  BY <1>2 DEF TypeOK, ReadingPcs, Outcomes, LockAcquire
<1>3. ASSUME NEW p \in Procs, LockTimeout(p) PROVE AttemptInv'
  BY <1>3 DEF TypeOK, ReadingPcs, Outcomes, LockTimeout
<1>4. ASSUME NEW p \in Procs, LockFail(p) PROVE AttemptInv'
  BY <1>4 DEF TypeOK, ReadingPcs, Outcomes, LockFail
<1>5. ASSUME NEW p \in Procs, Unlock(p) PROVE AttemptInv'
  BY <1>5 DEF TypeOK, ReadingPcs, Outcomes, Unlock
<1>6. ASSUME NEW p \in Procs, PublishStart(p) PROVE AttemptInv'
  BY <1>6 DEF TypeOK, ReadingPcs, Outcomes, PublishStart
<1>7. ASSUME NEW p \in Procs, PublishRefused(p) PROVE AttemptInv'
  BY <1>7 DEF TypeOK, ReadingPcs, Outcomes, PublishRefused
<1>8. ASSUME NEW p \in Procs, PublishWrite(p) PROVE AttemptInv'
  BY <1>8 DEF TypeOK, ReadingPcs, Outcomes, PublishWrite
<1>9. ASSUME NEW p \in Procs, PublishSync(p) PROVE AttemptInv'
  BY <1>9 DEF TypeOK, ReadingPcs, Outcomes, PublishSync
<1>10. ASSUME NEW p \in Procs, PublishTemp(p) PROVE AttemptInv'
  BY <1>10 DEF TypeOK, ReadingPcs, Outcomes, PublishTemp
<1>11. ASSUME NEW p \in Procs, PublishRename(p) PROVE AttemptInv'
  <2>1. CASE marker' # marker
    <3>1. \A q \in Procs : pc[q] \in ReadingPcs => pc'[q] = pc[q] /\ tries'[q] = tries[q] /\ rd'[q] = rd[q]
      BY <1>11, <2>1, RenameWindow DEF PublishRename
    <3>2. \A q \in Procs : pc'[q] \in ReadingPcs => pc[q] \in ReadingPcs
      BY <1>11 DEF PublishRename, TypeOK, ReadingPcs
    <3>3. ASSUME NEW q \in Procs, pc[q] \in ReadingPcs
          PROVE  Cardinality(window'[q]) = Cardinality(window[q]) + 1 /\ Cardinality(window[q]) \in Nat
      <4>1. /\ marker' \notin window[q] /\ window'[q] = window[q] \cup {marker'}
            /\ IsFiniteSet(window[q])
        BY <1>11, <2>1, <3>3, RenameWindow DEF WindowInv
      <4> QED BY <4>1, FS_AddElement, FS_CardinalityType
    <3>4. \A q \in Procs : tries[q] \in Nat
      BY TriesAssumption DEF TypeOK
    <3> QED BY <3>1, <3>2, <3>3, <3>4 DEF ReadingPcs
  <2>2. CASE marker' = marker
    <3>1. marker' # ent[p]
      BY <1>11, <2>2 DEF SpentInv, TypeOK, PublishRename, LocalsInv, PublishPcs, WritingPcs
    <3>2. pc' = [pc EXCEPT ![p] = "undoTemp"] /\ UNCHANGED hist
      BY <1>11, <3>1 DEF PublishRename
    <3> QED
      BY <1>11, <2>2, <3>2 DEF PublishRename, ReadingPcs, TypeOK
  <2> QED BY <2>1, <2>2
<1>12. ASSUME NEW p \in Procs, PublishSyncControl(p) PROVE AttemptInv'
  BY <1>12 DEF TypeOK, ReadingPcs, Outcomes, PublishSyncControl
<1>13. ASSUME NEW p \in Procs, PublishUndoTemp(p) PROVE AttemptInv'
  BY <1>13 DEF TypeOK, ReadingPcs, Outcomes, PublishUndoTemp
<1>14. ASSUME NEW p \in Procs, PublishUndoCheck(p) PROVE AttemptInv'
  BY <1>14 DEF TypeOK, ReadingPcs, Outcomes, PublishUndoCheck
<1>15. ASSUME NEW p \in Procs, PublishUndoRemove(p) PROVE AttemptInv'
  BY <1>15 DEF TypeOK, ReadingPcs, Outcomes, PublishUndoRemove
<1>16. ASSUME NEW p \in Procs, PublishReturn(p) PROVE AttemptInv'
  BY <1>16 DEF TypeOK, ReadingPcs, Outcomes, PublishReturn
<1>17. ASSUME NEW p \in Procs, CleanupStart(p) PROVE AttemptInv'
  BY <1>17 DEF TypeOK, ReadingPcs, Outcomes, CleanupStart
<1>18. ASSUME NEW p \in Procs, CleanupMarker(p) PROVE AttemptInv'
  BY <1>18 DEF TypeOK, ReadingPcs, Outcomes, CleanupMarker
<1>19. ASSUME NEW p \in Procs, CleanupEntries(p) PROVE AttemptInv'
  BY <1>19 DEF TypeOK, ReadingPcs, Outcomes, CleanupEntries
<1>20. ASSUME NEW p \in Procs, CleanupTemps(p) PROVE AttemptInv'
  BY <1>20 DEF TypeOK, ReadingPcs, Outcomes, CleanupTemps
<1>21. ASSUME NEW p \in Procs, CleanupReturn(p) PROVE AttemptInv'
  BY <1>21 DEF TypeOK, ReadingPcs, Outcomes, CleanupReturn
<1>22. ASSUME NEW p \in Procs, ReadStart(p) PROVE AttemptInv'
  <2>1. Cardinality(window'[p]) = 1 /\ tries'[p] = 1 /\ pc'[p] = "rdMarker"
    BY <1>22, FS_Singleton DEF ReadStart, TypeOK
  <2>2. \A q \in Procs : q # p => pc'[q] = pc[q] /\ tries'[q] = tries[q] /\ window'[q] = window[q]
    BY <1>22 DEF ReadStart, TypeOK
  <2> QED
    BY <1>22, <2>1, <2>2 DEF ReadStart, ReadingPcs
<1>23. ASSUME NEW p \in Procs, ReadMarker(p) PROVE AttemptInv'
  BY <1>23 DEF TypeOK, ReadingPcs, Outcomes, ReadMarker
<1>24. ASSUME NEW p \in Procs, ReadFile(p) PROVE AttemptInv'
  BY <1>24 DEF TypeOK, ReadingPcs, Outcomes, ReadFile
<1>25. ASSUME NEW p \in Procs, ReadVerify(p) PROVE AttemptInv'
  BY <1>25 DEF TypeOK, ReadingPcs, Outcomes, ReadVerify
<1>26. ASSUME NEW p \in Procs, ReadRecheck(p) PROVE AttemptInv'
  <2>1. tries[p] \in Nat /\ window[p] = window'[p] /\ marker' = marker /\ rd' = rd
    BY <1>26, TriesAssumption DEF ReadRecheck, TypeOK
  <2>2. CASE pc'[p] = "rdMarker"
    <3>1. tries'[p] = tries[p] + 1 /\ marker # rd[p]
      BY <1>26, <2>2 DEF ReadRecheck, TypeOK
    <3>2. Cardinality(window[p]) >= tries[p] + 1
      BY <1>26, <3>1 DEF ReadRecheck
    <3>3. \A q \in Procs : q # p => pc'[q] = pc[q] /\ tries'[q] = tries[q]
      BY <1>26 DEF ReadRecheck, TypeOK
    <3> QED
      BY <1>26, <2>1, <2>2, <3>1, <3>2, <3>3 DEF ReadRecheck, ReadingPcs
  <2>3. CASE pc'[p] # "rdMarker"
    BY <1>26, <2>1, <2>3 DEF ReadRecheck, TypeOK, ReadingPcs
  <2> QED BY <2>2, <2>3
<1>27. ASSUME NEW p \in Procs, ReadReturn(p) PROVE AttemptInv'
  BY <1>27 DEF TypeOK, ReadingPcs, Outcomes, ReadReturn
<1>28. ASSUME NEW p \in Procs, Crash(p) PROVE AttemptInv'
  BY <1>28 DEF TypeOK, ReadingPcs, Outcomes, Crash
<1> QED
  BY <1>u, <1>1, <1>2, <1>3, <1>4, <1>5, <1>6, <1>7, <1>8, <1>9, <1>10, <1>11,
     <1>12, <1>13, <1>14, <1>15, <1>16, <1>17, <1>18, <1>19, <1>20, <1>21, <1>22,
     <1>23, <1>24, <1>25, <1>26, <1>27, <1>28 DEF Next, Step, Call

(* As long as the entry being read is current, its files are complete.     *)
LEMMA StepIntact ==
  Inv /\ SpentInv /\ WindowInv /\ IntactInv /\ [Next]_vars => IntactInv'
<1> SUFFICES ASSUME TypeOK, LocalsInv, CurrentEntryComplete, SpentInv, WindowInv, IntactInv,
                    [Next]_vars
             PROVE  IntactInv'
  BY DEF Inv
<1> USE DEF IntactInv, disk, wvars, rvars, hist, At, Goto
<1>u. CASE UNCHANGED vars
  BY <1>u DEF vars
<1>1. ASSUME NEW p \in Procs, LockStart(p) PROVE IntactInv'
  BY <1>1 DEF TypeOK, Fault, FaultOf, NoFault, Unhurt, Outcomes, LockStart
<1>2. ASSUME NEW p \in Procs, LockAcquire(p) PROVE IntactInv'
  BY <1>2 DEF TypeOK, Fault, FaultOf, NoFault, Unhurt, Outcomes, LockAcquire
<1>3. ASSUME NEW p \in Procs, LockTimeout(p) PROVE IntactInv'
  BY <1>3 DEF TypeOK, Fault, FaultOf, NoFault, Unhurt, Outcomes, LockTimeout
<1>4. ASSUME NEW p \in Procs, LockFail(p) PROVE IntactInv'
  BY <1>4 DEF TypeOK, Fault, FaultOf, NoFault, Unhurt, Outcomes, LockFail
<1>5. ASSUME NEW p \in Procs, Unlock(p) PROVE IntactInv'
  BY <1>5 DEF TypeOK, Fault, FaultOf, NoFault, Unhurt, Outcomes, Unlock
<1>6. ASSUME NEW p \in Procs, PublishStart(p) PROVE IntactInv'
  BY <1>6 DEF TypeOK, Fault, FaultOf, NoFault, Unhurt, Outcomes, PublishStart
<1>7. ASSUME NEW p \in Procs, PublishRefused(p) PROVE IntactInv'
  BY <1>7 DEF TypeOK, Fault, FaultOf, NoFault, Unhurt, Outcomes, PublishRefused
<1>8. ASSUME NEW p \in Procs, PublishWrite(p) PROVE IntactInv'
  BY <1>8 DEF TypeOK, Fault, FaultOf, NoFault, Unhurt, Outcomes, PublishWrite
<1>9. ASSUME NEW p \in Procs, PublishSync(p) PROVE IntactInv'
  BY <1>9 DEF TypeOK, Fault, FaultOf, NoFault, Unhurt, Outcomes, PublishSync
<1>10. ASSUME NEW p \in Procs, PublishTemp(p) PROVE IntactInv'
  BY <1>10 DEF TypeOK, Fault, FaultOf, NoFault, Unhurt, Outcomes, PublishTemp
<1>11. ASSUME NEW p \in Procs, PublishRename(p) PROVE IntactInv'
  <2>1. CASE marker' # marker
    <3>1. \A q \in Procs : pc[q] \in ReadingPcs => marker' \notin window[q]
      BY <1>11, <2>1, RenameWindow
    <3>2. \A q \in Procs : pc[q] \in {"rdFiles", "rdRecheck"} => rd[q] # marker'
      BY <3>1 DEF WindowInv, ReadingPcs
    <3> QED
      BY <1>11, <3>2 DEF PublishRename, TypeOK
  <2>2. CASE marker' = marker
    BY <1>11, <2>2 DEF PublishRename, TypeOK, Fault, NoFault
  <2> QED BY <2>1, <2>2
<1>12. ASSUME NEW p \in Procs, PublishSyncControl(p) PROVE IntactInv'
  BY <1>12 DEF TypeOK, Fault, FaultOf, NoFault, Unhurt, Outcomes,
     PublishSyncControl
<1>13. ASSUME NEW p \in Procs, PublishUndoTemp(p) PROVE IntactInv'
  BY <1>13 DEF TypeOK, Fault, FaultOf, NoFault, Unhurt, Outcomes, PublishUndoTemp
<1>14. ASSUME NEW p \in Procs, PublishUndoCheck(p) PROVE IntactInv'
  BY <1>14 DEF TypeOK, Fault, FaultOf, NoFault, Unhurt, Outcomes, PublishUndoCheck
<1>15. ASSUME NEW p \in Procs, PublishUndoRemove(p) PROVE IntactInv'
  BY <1>15 DEF TypeOK, Fault, FaultOf, NoFault, Unhurt, Outcomes,
     PublishUndoRemove
<1>16. ASSUME NEW p \in Procs, PublishReturn(p) PROVE IntactInv'
  BY <1>16 DEF TypeOK, Fault, FaultOf, NoFault, Unhurt, Outcomes, PublishReturn
<1>17. ASSUME NEW p \in Procs, CleanupStart(p) PROVE IntactInv'
  BY <1>17 DEF TypeOK, Fault, FaultOf, NoFault, Unhurt, Outcomes, CleanupStart
<1>18. ASSUME NEW p \in Procs, CleanupMarker(p) PROVE IntactInv'
  BY <1>18 DEF TypeOK, Fault, FaultOf, NoFault, Unhurt, Outcomes, CleanupMarker
<1>19. ASSUME NEW p \in Procs, CleanupEntries(p) PROVE IntactInv'
  BY <1>19 DEF TypeOK, Fault, FaultOf, NoFault, Unhurt, Outcomes, CleanupEntries
<1>20. ASSUME NEW p \in Procs, CleanupTemps(p) PROVE IntactInv'
  BY <1>20 DEF TypeOK, Fault, FaultOf, NoFault, Unhurt, Outcomes, CleanupTemps
<1>21. ASSUME NEW p \in Procs, CleanupReturn(p) PROVE IntactInv'
  BY <1>21 DEF TypeOK, Fault, FaultOf, NoFault, Unhurt, Outcomes, CleanupReturn
<1>22. ASSUME NEW p \in Procs, ReadStart(p) PROVE IntactInv'
  BY <1>22 DEF TypeOK, Fault, FaultOf, NoFault, Unhurt, Outcomes, ReadStart
<1>23. ASSUME NEW p \in Procs, ReadMarker(p) PROVE IntactInv'
  BY <1>23 DEF NoFault, FaultOf, TypeOK, NoFiles, ReadMarker
<1>24. ASSUME NEW p \in Procs, ReadFile(p) PROVE IntactInv'
  <2>1. rd[p] \in Entries /\ ToRead(p) \in Files
    BY <1>24, FirstOfFiles DEF LocalsInv, ReadFile, ToRead
  <2>2. rd[p] = marker => files[rd[p]][ToRead(p)] = "full"
    BY <1>24, <2>1, NoEntryAssumption DEF CurrentEntryComplete, Complete
  <2>3. bytes[p] \in [Files -> Content]
    BY DEF TypeOK
  <2>4. rd[p] = marker =>
          \/ /\ bytes' = [bytes EXCEPT ![p] = [bytes[p] EXCEPT ![ToRead(p)] = "full"]]
             /\ UNCHANGED <<pc, hurt>>
          \/ pc' = [pc EXCEPT ![p] = "rdRecheck"] /\ FaultOf(p) /\ UNCHANGED bytes
    BY <1>24, <2>2 DEF ReadFile, NoFault
  <2>5. \A q \in Procs : q # p => pc'[q] = pc[q] /\ bytes'[q] = bytes[q] /\ (q \in hurt' <=> q \in hurt)
    BY <1>24 DEF ReadFile, TypeOK, NoFault, FaultOf
  <2>6. UNCHANGED <<rd, marker>>
    BY <1>24 DEF ReadFile
  <2>7. pc'[p] \in {"rdFiles", "rdRecheck"}
    BY <1>24 DEF ReadFile, TypeOK
  <2>8. ASSUME pc'[p] = "rdFiles", rd[p] = marker, NEW f \in Files
        PROVE  bytes'[p][f] \in {"absent", "full"}
    BY <1>24, <2>1, <2>3, <2>4, <2>8 DEF ReadFile, TypeOK
  <2>9. ASSUME pc'[p] = "rdRecheck", rd[p] = marker PROVE p \in hurt'
    BY <1>24, <2>4, <2>9 DEF ReadFile, FaultOf
  <2> QED
    BY <2>5, <2>6, <2>7, <2>8, <2>9
<1>25. ASSUME NEW p \in Procs, ReadVerify(p) PROVE IntactInv'
  BY <1>25 DEF AllRead, NoFault, TypeOK, ReadVerify
<1>26. ASSUME NEW p \in Procs, ReadRecheck(p) PROVE IntactInv'
  BY <1>26 DEF NoFault, FaultOf, TypeOK, ReadRecheck
<1>27. ASSUME NEW p \in Procs, ReadReturn(p) PROVE IntactInv'
  BY <1>27 DEF TypeOK, Fault, FaultOf, NoFault, Unhurt, Outcomes, ReadReturn
<1>28. ASSUME NEW p \in Procs, Crash(p) PROVE IntactInv'
  BY <1>28 DEF TypeOK, Fault, FaultOf, NoFault, Unhurt, Outcomes, Crash
<1> QED
  BY <1>u, <1>1, <1>2, <1>3, <1>4, <1>5, <1>6, <1>7, <1>8, <1>9, <1>10, <1>11,
     <1>12, <1>13, <1>14, <1>15, <1>16, <1>17, <1>18, <1>19, <1>20, <1>21, <1>22,
     <1>23, <1>24, <1>25, <1>26, <1>27, <1>28 DEF Next, Step, Call

(* ReadInv holds initially ...                                             *)
LEMMA InitReadInv == Init => ReadInv
  BY InitInv DEF Init, ReadInv, SpentInv, WindowInv, AttemptInv, IntactInv, WritingPcs,
     ReadingPcs, Outcomes

(* ... and is preserved while at most one call fails.                      *)
LEMMA StepReadInv == ASSUME MaxFaults <= 1 PROVE ReadInv /\ [Next]_vars => ReadInv'
  BY StepInv, StepSpent, StepWindow, StepAttempt, StepIntact DEF ReadInv, Inv

(* A read none of whose own calls failed never reports a damaged entry,    *)
(* although it holds no lock and a refresh may delete the entry under it:  *)
(* for any number of processes, entries and attempts, and at most one      *)
(* failing call.                                                           *)
THEOREM ReadsNeverTorn == ASSUME MaxFaults <= 1 PROVE Spec => []NoSpuriousReadError
<1>1. ReadInv => NoSpuriousReadError
  BY DEF ReadInv, IntactInv, NoSpuriousReadError
<1> QED
  BY <1>1, InitReadInv, StepReadInv, PTL DEF Spec

-----------------------------------------------------------------------------
(* Refinement *)

(* An empty cache is an empty register.                                    *)
LEMMA InitRefines == Init => Register!Init
  BY DEF Init, Register!Init, ReadingPcs, Outcomes

(* A step that moves p between steps the register does not tell apart is   *)
(* no step of the register.                                                *)
LEMMA Hidden ==
  ASSUME TypeOK, NEW p \in Procs, NEW l, Goto(p, l),
         \/ {pc[p], l} \subseteq ReadingPcs
         \/ {pc[p], l} \cap (ReadingPcs \cup Outcomes) = {},
         UNCHANGED <<marker, spent, window>>,
         \A q \in Procs : q # p => rd'[q] = rd[q]
  PROVE  UNCHANGED Register!rvars
  BY DEF TypeOK, Goto, ReadingPcs, Outcomes, Register!rvars

(* Every step of the file protocol is a step of the register or hidden     *)
(* from it: the rename is the commit, the return of a read its answer.     *)
LEMMA StepRefines == ReadInv /\ [Next]_vars => [Register!Next]_(Register!rvars)
<1> SUFFICES ASSUME TypeOK, LocalsInv, SpentInv, WindowInv, AttemptInv, IntactInv,
                    [Next]_vars
             PROVE  [Register!Next]_(Register!rvars)
  BY DEF ReadInv, Inv
<1> USE NoEntryAssumption DEF disk, wvars, rvars, hist, At, Goto
<1>u. CASE UNCHANGED vars
  BY <1>u DEF vars, Register!rvars
<1>1. ASSUME NEW p \in Procs, LockStart(p) PROVE [Register!Next]_(Register!rvars)
  <2>1. Goto(p, pc'[p]) /\ {pc[p], pc'[p]} \cap (ReadingPcs \cup Outcomes) = {}
    BY <1>1 DEF LockStart, TypeOK, ReadingPcs, Outcomes
  <2> QED
    BY <1>1, <2>1, Hidden DEF LockStart
<1>2. ASSUME NEW p \in Procs, LockAcquire(p) PROVE [Register!Next]_(Register!rvars)
  <2>1. Goto(p, pc'[p]) /\ {pc[p], pc'[p]} \cap (ReadingPcs \cup Outcomes) = {}
    BY <1>2 DEF LockAcquire, TypeOK, ReadingPcs, Outcomes
  <2> QED
    BY <1>2, <2>1, Hidden DEF LockAcquire
<1>3. ASSUME NEW p \in Procs, LockTimeout(p) PROVE [Register!Next]_(Register!rvars)
  <2>1. Goto(p, pc'[p]) /\ {pc[p], pc'[p]} \cap (ReadingPcs \cup Outcomes) = {}
    BY <1>3 DEF LockTimeout, TypeOK, ReadingPcs, Outcomes
  <2> QED
    BY <1>3, <2>1, Hidden DEF LockTimeout
<1>4. ASSUME NEW p \in Procs, LockFail(p) PROVE [Register!Next]_(Register!rvars)
  <2>1. Goto(p, pc'[p]) /\ {pc[p], pc'[p]} \cap (ReadingPcs \cup Outcomes) = {}
    BY <1>4 DEF LockFail, TypeOK, ReadingPcs, Outcomes
  <2> QED
    BY <1>4, <2>1, Hidden DEF LockFail
<1>5. ASSUME NEW p \in Procs, Unlock(p) PROVE [Register!Next]_(Register!rvars)
  <2>1. Goto(p, pc'[p]) /\ {pc[p], pc'[p]} \cap (ReadingPcs \cup Outcomes) = {}
    BY <1>5 DEF Unlock, TypeOK, ReadingPcs, Outcomes
  <2> QED
    BY <1>5, <2>1, Hidden DEF Unlock
<1>6. ASSUME NEW p \in Procs, PublishStart(p) PROVE [Register!Next]_(Register!rvars)
  <2>1. Goto(p, pc'[p]) /\ {pc[p], pc'[p]} \cap (ReadingPcs \cup Outcomes) = {}
    BY <1>6 DEF PublishStart, TypeOK, ReadingPcs, Outcomes
  <2> QED
    BY <1>6, <2>1, Hidden DEF PublishStart
<1>7. ASSUME NEW p \in Procs, PublishRefused(p) PROVE [Register!Next]_(Register!rvars)
  <2>1. Goto(p, pc'[p]) /\ {pc[p], pc'[p]} \cap (ReadingPcs \cup Outcomes) = {}
    BY <1>7 DEF PublishRefused, TypeOK, ReadingPcs, Outcomes
  <2> QED
    BY <1>7, <2>1, Hidden DEF PublishRefused
<1>8. ASSUME NEW p \in Procs, PublishWrite(p) PROVE [Register!Next]_(Register!rvars)
  <2>1. Goto(p, pc'[p]) /\ {pc[p], pc'[p]} \cap (ReadingPcs \cup Outcomes) = {}
    BY <1>8 DEF PublishWrite, TypeOK, ReadingPcs, Outcomes
  <2> QED
    BY <1>8, <2>1, Hidden DEF PublishWrite
<1>9. ASSUME NEW p \in Procs, PublishSync(p) PROVE [Register!Next]_(Register!rvars)
  <2>1. Goto(p, pc'[p]) /\ {pc[p], pc'[p]} \cap (ReadingPcs \cup Outcomes) = {}
    BY <1>9 DEF PublishSync, TypeOK, ReadingPcs, Outcomes
  <2> QED
    BY <1>9, <2>1, Hidden DEF PublishSync
<1>10. ASSUME NEW p \in Procs, PublishTemp(p) PROVE [Register!Next]_(Register!rvars)
  <2>1. Goto(p, pc'[p]) /\ {pc[p], pc'[p]} \cap (ReadingPcs \cup Outcomes) = {}
    BY <1>10 DEF PublishTemp, TypeOK, ReadingPcs, Outcomes
  <2> QED
    BY <1>10, <2>1, Hidden DEF PublishTemp
<1>11. ASSUME NEW p \in Procs, PublishRename(p) PROVE [Register!Next]_(Register!rvars)
  <2>1. CASE marker' # marker
    <3>1. ent[p] \in Entries \ spent
      BY <1>11 DEF PublishRename, LocalsInv, SpentInv, TypeOK, PublishPcs, WritingPcs
    <3>2. Register!Commit(ent[p])
      BY <1>11, <2>1, <3>1 DEF PublishRename, TypeOK, Register!Commit, ReadingPcs, Outcomes
    <3> QED BY <3>1, <3>2 DEF Register!Next
  <2>2. CASE marker' = marker
    <3>1. marker' # ent[p]
      BY <1>11, <2>2 DEF SpentInv, TypeOK, PublishRename, LocalsInv, PublishPcs, WritingPcs
    <3>2. Goto(p, "undoTemp") /\ UNCHANGED <<marker, spent, window, rd>>
      BY <1>11, <3>1 DEF PublishRename
    <3> QED
      BY <1>11, <3>2, Hidden DEF PublishRename, ReadingPcs, Outcomes
  <2> QED BY <2>1, <2>2
<1>12. ASSUME NEW p \in Procs, PublishSyncControl(p) PROVE [Register!Next]_(Register!rvars)
  <2>1. Goto(p, pc'[p]) /\ {pc[p], pc'[p]} \cap (ReadingPcs \cup Outcomes) = {}
    BY <1>12 DEF PublishSyncControl, TypeOK, ReadingPcs, Outcomes
  <2> QED
    BY <1>12, <2>1, Hidden DEF PublishSyncControl
<1>13. ASSUME NEW p \in Procs, PublishUndoTemp(p) PROVE [Register!Next]_(Register!rvars)
  <2>1. Goto(p, pc'[p]) /\ {pc[p], pc'[p]} \cap (ReadingPcs \cup Outcomes) = {}
    BY <1>13 DEF PublishUndoTemp, TypeOK, ReadingPcs, Outcomes
  <2> QED
    BY <1>13, <2>1, Hidden DEF PublishUndoTemp
<1>14. ASSUME NEW p \in Procs, PublishUndoCheck(p) PROVE [Register!Next]_(Register!rvars)
  <2>1. Goto(p, pc'[p]) /\ {pc[p], pc'[p]} \cap (ReadingPcs \cup Outcomes) = {}
    BY <1>14 DEF PublishUndoCheck, TypeOK, ReadingPcs, Outcomes
  <2> QED
    BY <1>14, <2>1, Hidden DEF PublishUndoCheck
<1>15. ASSUME NEW p \in Procs, PublishUndoRemove(p) PROVE [Register!Next]_(Register!rvars)
  <2>1. Goto(p, pc'[p]) /\ {pc[p], pc'[p]} \cap (ReadingPcs \cup Outcomes) = {}
    BY <1>15 DEF PublishUndoRemove, TypeOK, ReadingPcs, Outcomes
  <2> QED
    BY <1>15, <2>1, Hidden DEF PublishUndoRemove
<1>16. ASSUME NEW p \in Procs, PublishReturn(p) PROVE [Register!Next]_(Register!rvars)
  <2>1. Goto(p, pc'[p]) /\ {pc[p], pc'[p]} \cap (ReadingPcs \cup Outcomes) = {}
    BY <1>16 DEF PublishReturn, TypeOK, ReadingPcs, Outcomes
  <2> QED
    BY <1>16, <2>1, Hidden DEF PublishReturn
<1>17. ASSUME NEW p \in Procs, CleanupStart(p) PROVE [Register!Next]_(Register!rvars)
  <2>1. Goto(p, pc'[p]) /\ {pc[p], pc'[p]} \cap (ReadingPcs \cup Outcomes) = {}
    BY <1>17 DEF CleanupStart, TypeOK, ReadingPcs, Outcomes
  <2> QED
    BY <1>17, <2>1, Hidden DEF CleanupStart
<1>18. ASSUME NEW p \in Procs, CleanupMarker(p) PROVE [Register!Next]_(Register!rvars)
  <2>1. Goto(p, pc'[p]) /\ {pc[p], pc'[p]} \cap (ReadingPcs \cup Outcomes) = {}
    BY <1>18 DEF CleanupMarker, TypeOK, ReadingPcs, Outcomes
  <2> QED
    BY <1>18, <2>1, Hidden DEF CleanupMarker
<1>19. ASSUME NEW p \in Procs, CleanupEntries(p) PROVE [Register!Next]_(Register!rvars)
  <2>1. Goto(p, pc'[p]) /\ {pc[p], pc'[p]} \cap (ReadingPcs \cup Outcomes) = {}
    BY <1>19 DEF CleanupEntries, TypeOK, ReadingPcs, Outcomes
  <2> QED
    BY <1>19, <2>1, Hidden DEF CleanupEntries
<1>20. ASSUME NEW p \in Procs, CleanupTemps(p) PROVE [Register!Next]_(Register!rvars)
  <2>1. Goto(p, pc'[p]) /\ {pc[p], pc'[p]} \cap (ReadingPcs \cup Outcomes) = {}
    BY <1>20 DEF CleanupTemps, TypeOK, ReadingPcs, Outcomes
  <2> QED
    BY <1>20, <2>1, Hidden DEF CleanupTemps
<1>21. ASSUME NEW p \in Procs, CleanupReturn(p) PROVE [Register!Next]_(Register!rvars)
  <2>1. Goto(p, pc'[p]) /\ {pc[p], pc'[p]} \cap (ReadingPcs \cup Outcomes) = {}
    BY <1>21 DEF CleanupReturn, TypeOK, ReadingPcs, Outcomes
  <2> QED
    BY <1>21, <2>1, Hidden DEF CleanupReturn
<1>22. ASSUME NEW p \in Procs, ReadStart(p) PROVE [Register!Next]_(Register!rvars)
  <2>1. Register!Begin(p)
    BY <1>22 DEF ReadStart, TypeOK, Register!Begin, ReadingPcs, Outcomes
  <2> QED BY <2>1 DEF Register!Next
<1>23. ASSUME NEW p \in Procs, ReadMarker(p) PROVE [Register!Next]_(Register!rvars)
  <2>1. CASE pc'[p] = "rdFiles"
    BY <1>23, <2>1, Hidden DEF ReadMarker, ReadingPcs, TypeOK
  <2>2. CASE pc'[p] = "miss"
    <3>1. marker = NoEntry /\ NoEntry \in window[p]
      BY <1>23, <2>2 DEF ReadMarker, TypeOK, WindowInv, ReadingPcs
    <3>2. Goto(p, "miss") /\ UNCHANGED <<marker, spent, window>>
          /\ rd' = [rd EXCEPT ![p] = marker]
      BY <1>23, <2>2 DEF ReadMarker, TypeOK
    <3>3. Register!Return(p, NoEntry)
      BY <1>23, <3>1, <3>2 DEF ReadMarker, TypeOK, Register!Return, ReadingPcs, Outcomes
    <3> QED BY <3>3 DEF Register!Next
  <2>3. CASE pc'[p] = "io"
    <3>1. Register!Fail(p, "io")
      BY <1>23, <2>3 DEF ReadMarker, TypeOK, Register!Fail, ReadingPcs, Outcomes
    <3> QED BY <3>1 DEF Register!Next
  <2> QED BY <1>23, <2>1, <2>2, <2>3 DEF ReadMarker, TypeOK
<1>24. ASSUME NEW p \in Procs, ReadFile(p) PROVE [Register!Next]_(Register!rvars)
  <2>1. Goto(p, pc'[p]) /\ {pc[p], pc'[p]} \subseteq ReadingPcs
    BY <1>24 DEF ReadFile, TypeOK, ReadingPcs
  <2> QED
    BY <1>24, <2>1, Hidden DEF ReadFile
<1>25. ASSUME NEW p \in Procs, ReadVerify(p) PROVE [Register!Next]_(Register!rvars)
  <2>1. CASE pc'[p] = "rdRecheck"
    BY <1>25, <2>1, Hidden DEF ReadVerify, ReadingPcs, TypeOK
  <2>2. CASE pc'[p] = "hit"
    <3>1. rd[p] \in window[p] /\ rd[p] # NoEntry /\ rd[p] \in Entries \cup {NoEntry}
      BY <1>25 DEF ReadVerify, TypeOK, WindowInv
    <3>2. Goto(p, "hit") /\ UNCHANGED <<marker, spent, window, rd>>
      BY <1>25, <2>2 DEF ReadVerify, TypeOK
    <3>3. PICK e \in Entries \cup {NoEntry} : e = rd[p]
      BY <3>1
    <3>4. /\ pc[p] = "rdFiles" /\ pc \in [Procs -> Pcs]
          /\ pc' = [pc EXCEPT ![p] = "hit"]
          /\ rd' = rd /\ e = rd[p] /\ e # NoEntry /\ e \in window[p]
          /\ UNCHANGED <<marker, spent, window>>
      BY <1>25, <3>1, <3>2, <3>3 DEF ReadVerify, TypeOK, At, Goto
    <3>5. Register!Return(p, e)
      BY ONLY <3>4 DEF Register!Return, ReadingPcs, Outcomes
    <3> QED BY <3>5 DEF Register!Next
  <2>3. pc'[p] \in {"hit", "rdRecheck"}
    <3>1. PICK to : to = (IF \A f \in Files : bytes[p][f] = "full" THEN "hit" ELSE "rdRecheck")
      OBVIOUS
    <3>2. to \in {"hit", "rdRecheck"}
      BY <3>1, Zenon
    <3>3. Goto(p, to)
      BY <1>25, <3>1, Zenon DEF ReadVerify
    <3> HIDE <3>1
    <3> QED BY <3>2, <3>3 DEF Goto, TypeOK
  <2> QED BY <2>1, <2>2, <2>3
<1>26. ASSUME NEW p \in Procs, ReadRecheck(p) PROVE [Register!Next]_(Register!rvars)
  <2>1. CASE pc'[p] = "rdMarker"
    BY <1>26, <2>1, Hidden DEF ReadRecheck, ReadingPcs, TypeOK
  <2>2. CASE pc'[p] = "unstable"
    <3>1. marker # rd[p] /\ ~ tries[p] < MaxTries
      BY <1>26, <2>2 DEF ReadRecheck, TypeOK, MayRetry
    <3>2. Cardinality(window[p]) >= tries[p] + 1 /\ Cardinality(window[p]) \in Nat
      BY <1>26, <3>1, FS_CardinalityType DEF ReadRecheck, AttemptInv, WindowInv, ReadingPcs
    <3>3. Cardinality(window[p]) > MaxTries
      BY <3>1, <3>2, TriesAssumption DEF TypeOK
    <3>4. At(p, "rdRecheck") /\ Goto(p, "unstable") /\ UNCHANGED <<marker, spent, window, rd>>
      BY <1>26, <2>2 DEF ReadRecheck, TypeOK
    <3>5. Register!Cardinality(window[p]) = Cardinality(window[p])
      BY DEF Register!Cardinality, Cardinality, Register!IsFiniteSet, IsFiniteSet
    <3>6. Register!Fail(p, "unstable")
      BY <3>3, <3>4, <3>5 DEF TypeOK, Register!Fail, ReadingPcs, Outcomes
    <3> QED BY <3>6 DEF Register!Next
  <2>3. CASE pc'[p] = "io"
    <3>1. Register!Fail(p, "io")
      BY <1>26, <2>3 DEF ReadRecheck, TypeOK, Register!Fail, ReadingPcs, Outcomes
    <3> QED BY <3>1 DEF Register!Next
  <2>4. pc'[p] # "torn"
    BY <1>26 DEF ReadRecheck, IntactInv, TypeOK
  <2> QED BY <1>26, <2>1, <2>2, <2>3, <2>4 DEF ReadRecheck, TypeOK
<1>27. ASSUME NEW p \in Procs, ReadReturn(p) PROVE [Register!Next]_(Register!rvars)
  <2>1. Register!Leave(p)
    BY <1>27 DEF ReadReturn, TypeOK, Register!Leave, ReadingPcs, Outcomes
  <2> QED BY <2>1 DEF Register!Next
<1>28. ASSUME NEW p \in Procs, Crash(p) PROVE [Register!Next]_(Register!rvars)
  <2>1. CASE pc[p] \in ReadingPcs \cup Outcomes
    <3>1. Register!Leave(p)
      BY <1>28, <2>1 DEF Crash, TypeOK, Register!Leave, ReadingPcs, Outcomes
    <3> QED BY <3>1 DEF Register!Next
  <2>2. CASE pc[p] \notin ReadingPcs \cup Outcomes
    <3>1. UNCHANGED window
      BY <1>28, <2>2 DEF Crash, WindowInv, TypeOK
    <3>2. Goto(p, "idle") /\ UNCHANGED <<marker, spent>>
      BY <1>28 DEF Crash
    <3>3. \A q \in Procs : q # p => rd'[q] = rd[q]
      BY <1>28 DEF Crash, TypeOK
    <3>4. UNCHANGED Register!rvars
      BY <2>2, <3>1, <3>2, <3>3, Hidden DEF ReadingPcs, Outcomes
    <3> QED BY <3>4
  <2> QED BY <2>1, <2>2
<1> QED
  BY <1>u, <1>1, <1>2, <1>3, <1>4, <1>5, <1>6, <1>7, <1>8, <1>9, <1>10, <1>11,
     <1>12, <1>13, <1>14, <1>15, <1>16, <1>17, <1>18, <1>19, <1>20, <1>21, <1>22,
     <1>23, <1>24, <1>25, <1>26, <1>27, <1>28 DEF Next, Step, Call

(* read and publish implement the register: what a read returns was        *)
(* current while it ran, a commit never brings an old entry back, and a    *)
(* read fails only for a failed call or after MaxTries commits.            *)
THEOREM RegisterRefined == ASSUME MaxFaults <= 1 PROVE Spec => ImplementsRegister
<1> QED
  BY InitReadInv, StepReadInv, InitRefines, StepRefines, PTL
     DEF Spec, ImplementsRegister, Register!Spec

=============================================================================
