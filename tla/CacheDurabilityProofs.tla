------------------------- MODULE CacheDurabilityProofs -------------------------
(***************************************************************************)
(* Theorems about CacheDurability.tla, for any number of publications.     *)
(***************************************************************************)
EXTENDS CacheDurability, TLAPS

(* Every marker the disk may show names an entry that is whole and          *)
(* synchronized, or exposed: not only the marker that processes see.        *)
DiskInv ==
    \A m \in onDisk : m # 0 /\ m \notin exposed => entry[m] = "whole" /\ safe[m] = Parts

(* What publish has achieved at each of its calls, and that the entry it    *)
(* builds cannot be on disk as the marker before the rename.                *)
PublishInv ==
    /\ pc \in {"write", "syncFiles", "syncEntries", "rename"} => "name" \in safe[new]
    /\ pc \in {"syncFiles", "syncEntries", "rename"} => entry[new] = "whole"
    /\ pc \in {"syncEntries", "rename"} => "files" \in safe[new]
    /\ pc \notin {"idle", "syncControl", "undo"} => new \notin onDisk
    /\ pc = "syncControl" =>
           marker = new /\ renamed = new /\ entry[new] = "whole" /\ safe[new] = Parts
    /\ pc # "idle" => lastOk < new

(* No marker the disk may show is older than the last one promised; until   *)
(* the next rename it is that one, whole and synchronized.                  *)
OkInv ==
    /\ \A m \in onDisk : m >= lastOk
    /\ renamed = lastOk => onDisk = {lastOk}
    /\ (renamed = lastOk /\ lastOk # 0) => entry[lastOk] = "whole" /\ safe[lastOk] = Parts

Inv == TypeOK /\ DiskInv /\ PublishInv /\ OkInv

(* The type of the state is kept by every step.                             *)
LEMMA StepKeepsType == TypeOK /\ [Next]_vars => TypeOK'
  <1> SUFFICES ASSUME TypeOK, [Next]_vars PROVE TypeOK'
    OBVIOUS
  <1> USE EntriesAssumption DEF TypeOK, Entries, Parts, Steps
  <1>1. CASE Allocate BY <1>1 DEF Allocate
  <1>2. CASE SyncName BY <1>2 DEF SyncName, Synced
  <1>3. CASE WriteFiles BY <1>3 DEF WriteFiles
  <1>4. CASE SyncFiles BY <1>4 DEF SyncFiles, Synced
  <1>5. CASE SyncEntries BY <1>5 DEF SyncEntries, Synced
  <1>6. CASE Rename BY <1>6 DEF Rename
  <1>7. CASE SyncControl BY <1>7 DEF SyncControl
  <1>8. CASE Fail BY <1>8 DEF Fail
  <1>9. CASE Cleanup BY <1>9 DEF Cleanup, Remove, Removed
  <1>10. CASE Die BY <1>10 DEF Die
  <1>11. CASE PowerLoss BY <1>11 DEF PowerLoss
  <1>12. CASE UNCHANGED vars BY <1>12 DEF vars
  <1>13. CASE Undo BY <1>13 DEF Undo, Remove, Removed
  <1> QED
    BY <1>1, <1>2, <1>3, <1>4, <1>5, <1>6, <1>7, <1>8, <1>9, <1>10, <1>11, <1>12, <1>13 DEF Next

(* The inductive step.                                                      *)
LEMMA StepKeepsInv == Inv /\ [Next]_vars => Inv'
  <1> SUFFICES ASSUME Inv, [Next]_vars PROVE Inv'
    OBVIOUS
  <1>0. TypeOK' BY StepKeepsType DEF Inv
  <1> USE EntriesAssumption DEF Inv, TypeOK, Entries, DiskInv, PublishInv, OkInv
  <1>1. CASE Allocate BY <1>0, <1>1 DEF Allocate
  <1>2. CASE SyncName BY <1>0, <1>2 DEF SyncName, Synced, Parts
  <1>3. CASE WriteFiles BY <1>0, <1>3 DEF WriteFiles
  <1>4. CASE SyncFiles BY <1>0, <1>4 DEF SyncFiles, Synced, Parts
  <1>5. CASE SyncEntries BY <1>0, <1>5 DEF SyncEntries, Synced, Parts
  <1>6. CASE Rename BY <1>0, <1>6 DEF Rename, Parts
  <1>7. CASE SyncControl BY <1>0, <1>7 DEF SyncControl
  <1>8. CASE Fail BY <1>0, <1>8 DEF Fail
  <1>9. CASE Cleanup
    <2> PICK gone \in SUBSET (Entries \ {marker}) : Remove(gone)
      BY <1>9 DEF Cleanup
    <2>1. pc = "idle" /\ UNCHANGED <<pc, new, marker, onDisk, safe, lastOk, renamed>>
      BY <1>9 DEF Cleanup
    <2>2. \A m \in onDisk : m # 0 /\ m \notin exposed' => m \notin exposed /\ entry'[m] = entry[m]
      BY DEF Remove
    <2>3. DiskInv' BY <2>1, <2>2
    <2>4. PublishInv' BY <2>1
    <2>5. (renamed = lastOk /\ lastOk # 0) => entry'[lastOk] = entry[lastOk]
      BY DEF Remove
    <2>6. OkInv' BY <2>1, <2>5
    <2> QED BY <1>0, <2>3, <2>4, <2>6
  <1>10. CASE Die BY <1>0, <1>10 DEF Die
  <1>11. CASE PowerLoss
    <2>1. DiskInv' BY <1>0, <1>11 DEF PowerLoss, AfterLoss
    <2>2. PublishInv' BY <1>11 DEF PowerLoss
    <2>3. OkInv'
      <3>1. marker' \in onDisk /\ onDisk' = {marker'} /\ renamed' = renamed /\ lastOk' = lastOk
        BY <1>11 DEF PowerLoss
      <3>2. ASSUME renamed = lastOk, lastOk # 0 PROVE entry'[lastOk] = "whole" /\ safe'[lastOk] = Parts
        <4>1. lastOk \in Entries /\ entry[lastOk] = "whole" /\ safe[lastOk] = Parts BY <3>2
        <4>2. entry'[lastOk] \in AfterLoss(lastOk) BY <1>11, <4>1 DEF PowerLoss
        <4>3. entry'[lastOk] = "whole" BY <4>1, <4>2 DEF AfterLoss
        <4> QED BY <1>11, <4>1, <4>3 DEF PowerLoss
      <3> QED BY <3>1, <3>2
    <2> QED BY <1>0, <2>1, <2>2, <2>3
  <1>12. CASE UNCHANGED vars BY <1>0, <1>12 DEF vars
  <1>13. CASE Undo
    <2> PICK gone \in SUBSET {new} : Remove(gone)
      BY <1>13 DEF Undo
    <2>1. pc = "undo" /\ pc' = "idle" /\ UNCHANGED <<new, marker, onDisk, safe, lastOk, renamed>>
      BY <1>13 DEF Undo
    <2>2. \A m \in onDisk : m # 0 /\ m \notin exposed' => m \notin exposed /\ entry'[m] = entry[m]
      BY DEF Remove
    <2>3. DiskInv' BY <2>1, <2>2
    <2>4. PublishInv' BY <2>1
    <2>5. (renamed = lastOk /\ lastOk # 0) => entry'[lastOk] = entry[lastOk]
      BY <2>1 DEF Remove
    <2>6. OkInv' BY <2>1, <2>5
    <2> QED BY <1>0, <2>3, <2>4, <2>6
  <1> QED
    BY <1>1, <1>2, <1>3, <1>4, <1>5, <1>6, <1>7, <1>8, <1>9, <1>10, <1>11, <1>12, <1>13 DEF Next

(* The invariant holds of every behaviour.                                  *)
LEMMA DurabilityInv == Spec => []Inv
  <1>1. ASSUME Init PROVE Inv
    <2>1. TypeOK
      <3>1. pc \in Steps /\ exposed \subseteq Entries BY <1>1 DEF Init, Steps
      <3>2. /\ pc = "idle" /\ new \in 0..MaxEntries
            /\ marker \in 0..new /\ renamed \in 0..new /\ lastOk \in 0..new
            /\ onDisk \subseteq 0..new /\ marker \in onDisk
        BY <1>1, EntriesAssumption DEF Init
      <3>3. entry \in [Entries -> {"none", "partial", "whole", "removed", "gone"}]
        BY <1>1 DEF Init
      <3>4. safe \in [Entries -> SUBSET Parts] BY <1>1 DEF Init
      <3> QED BY <3>1, <3>2, <3>3, <3>4 DEF TypeOK
    <2>2. DiskInv /\ PublishInv /\ OkInv BY <1>1 DEF Init, DiskInv, PublishInv, OkInv
    <2> QED BY <2>1, <2>2 DEF Inv
  <1> QED BY <1>1, StepKeepsInv, PTL DEF Spec

(* publish synchronizes the entry before it renames the marker: the marker, *)
(* before and after a power loss, names a whole entry, for any number of    *)
(* publications, deaths, failing calls and losses, unless that entry was    *)
(* removed by a cleanup before the rename that replaced it was              *)
(* synchronized, or by the error path when it could not read current.json.  *)
THEOREM MarkerWhole == Spec => []MarkerNamesWhole
  <1>1. Inv => MarkerNamesWhole BY DEF Inv, TypeOK, DiskInv, MarkerNamesWhole
  <1> QED BY <1>1, DurabilityInv, PTL

(* A publication that returned Ok is current and whole until the next       *)
(* rename of the marker, with no exception, and never replaced by an older. *)
THEOREM OkSurvives == Spec => []OkSurvivesPowerLoss
  <1>1. Inv => OkSurvivesPowerLoss BY DEF Inv, TypeOK, OkInv, OkSurvivesPowerLoss
  <1> QED BY <1>1, DurabilityInv, PTL
=============================================================================
