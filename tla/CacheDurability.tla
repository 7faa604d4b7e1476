--------------------------- MODULE CacheDurability ---------------------------
(***************************************************************************)
(* ExactProductCache::publish and cleanup_abandoned of                     *)
(* src/crates/sidereon-core/src/exact_cache.rs under power loss: the order *)
(* of the writes and of the file and directory synchronizations.  The lock *)
(* (ExactCache.tla) lets one process at a time be here, so one holder is   *)
(* enough; it may die between any two calls.                               *)
(*                                                                         *)
(* What a call changed and no call synchronized may or may not be on disk  *)
(* when the power fails.  Entries are numbered in the order of allocation. *)
(***************************************************************************)
EXTENDS Naturals

CONSTANT MaxEntries     \* bound on publications

ASSUME EntriesAssumption == MaxEntries \in Nat \ {0}

VARIABLES pc,       \* the next call of the holder's publish, or "idle"
          new,      \* the entry it publishes, the last one allocated
          marker,   \* the entry current.json names, 0 for none
          onDisk,   \* what current.json may name after a power loss
          entry,    \* entry[e]: what a process sees of entry e
          safe,     \* safe[e]: which of its parts are synchronized
          lastOk,   \* the last entry whose publish returned Ok
          renamed,  \* the last entry current.json was renamed to name
          exposed   \* entries removed while the marker on disk could name them

vars == <<pc, new, marker, onDisk, entry, safe, lastOk, renamed, exposed>>

Entries == 1..MaxEntries
Parts == {"name", "files"}

Init ==
    /\ pc = "idle"
    /\ new = 0
    /\ marker = 0
    /\ onDisk = {0}
    /\ entry = [e \in Entries |-> "none"]
    /\ safe = [e \in Entries |-> {}]
    /\ lastOk = 0
    /\ renamed = 0
    /\ exposed = {}

-----------------------------------------------------------------------------
(* publish *)

(* What remove_dir_all makes of an entry, until a power loss.               *)
Removed(s) == CASE s = "whole" -> "removed" [] s = "partial" -> "gone" [] OTHER -> s

Synced(e, part) == safe' = [safe EXCEPT ![e] = @ \cup {part}]

(* allocate_entry_id creates the directory.                                 *)
Allocate ==
    /\ pc = "idle" /\ new < MaxEntries
    /\ pc' = "syncName"
    /\ new' = new + 1
    /\ entry' = [entry EXCEPT ![new + 1] = "partial"]
    /\ UNCHANGED <<marker, onDisk, safe, lastOk, renamed, exposed>>

SyncName ==
    /\ pc = "syncName" /\ pc' = "write"
    /\ Synced(new, "name")
    /\ UNCHANGED <<new, marker, onDisk, entry, lastOk, renamed, exposed>>

(* The three write_exclusive calls; before the last one returns the entry   *)
(* is partial.                                                              *)
WriteFiles ==
    /\ pc = "write" /\ pc' = "syncFiles"
    /\ entry' = [entry EXCEPT ![new] = "whole"]
    /\ UNCHANGED <<new, marker, onDisk, safe, lastOk, renamed, exposed>>

SyncFilesSkipped ==                         \* fault: the entry directory is not synced
    /\ pc = "syncFiles" /\ pc' = "syncEntries"
    /\ UNCHANGED <<new, marker, onDisk, entry, safe, lastOk, renamed, exposed>>

SyncFiles ==
    /\ pc = "syncFiles" /\ pc' = "syncEntries"
    /\ Synced(new, "files")
    /\ UNCHANGED <<new, marker, onDisk, entry, lastOk, renamed, exposed>>

SyncEntries ==
    /\ pc = "syncEntries" /\ pc' = "rename"
    /\ Synced(new, "name")
    /\ UNCHANGED <<new, marker, onDisk, entry, lastOk, renamed, exposed>>

(* The temporary marker is written, synchronized and renamed.               *)
Rename ==
    /\ pc = "rename" /\ pc' = "syncControl"
    /\ marker' = new
    /\ onDisk' = onDisk \cup {new}
    /\ renamed' = new
    /\ UNCHANGED <<new, entry, safe, lastOk, exposed>>

SyncControlSkipped ==                       \* fault: Ok before the rename is on disk
    /\ pc = "syncControl" /\ pc' = "idle"
    /\ lastOk' = new
    /\ UNCHANGED <<new, marker, onDisk, entry, safe, renamed, exposed>>

SyncControl ==
    /\ pc = "syncControl" /\ pc' = "idle"
    /\ onDisk' = {marker}
    /\ lastOk' = new
    /\ UNCHANGED <<new, marker, entry, safe, renamed, exposed>>

(* remove_dir_all on the entries gone; those that a marker names which the  *)
(* disk shows, or may show after a power loss, are exposed.                 *)
Remove(gone) ==
    /\ entry' = [e \in Entries |-> IF e \in gone THEN Removed(entry[e]) ELSE entry[e]]
    /\ exposed' = exposed \cup (gone \cap onDisk)

(* A call fails.  Only the synchronization before the first write returns   *)
(* without the error path.                                                  *)
Fail ==
    /\ pc \notin {"idle", "undo"}
    /\ pc' = IF pc = "syncName" THEN "idle" ELSE "undo"
    /\ UNCHANGED <<new, marker, onDisk, entry, safe, lastOk, renamed, exposed>>

(* The error path removes the entry unless current_entry_id reads that the  *)
(* marker names it: when this read fails as well, the entry is removed      *)
(* whatever the marker names.  A remove_dir_all that fails having removed   *)
(* nothing is a Die; one that removed a part counts as a removal.           *)
Undo ==
    /\ pc = "undo" /\ pc' = "idle"
    /\ \E readable \in BOOLEAN :
           Remove(IF readable /\ marker = new THEN {} ELSE {new})
    /\ UNCHANGED <<new, marker, onDisk, safe, lastOk, renamed>>

-----------------------------------------------------------------------------
(* The others *)

(* The next holder of the lock removes what the marker does not name, or    *)
(* some of it when it dies or a removal fails; the directories are not      *)
(* synchronized, before or after.                                           *)
Cleanup ==
    /\ pc = "idle"
    /\ \E gone \in SUBSET {e \in Entries \ {marker} : entry[e] \in {"partial", "whole"}} :
           gone # {} /\ Remove(gone)
    /\ UNCHANGED <<pc, new, marker, onDisk, safe, lastOk, renamed>>

(* The process dies: the kernel releases its lock.                          *)
Die ==
    /\ pc # "idle" /\ pc' = "idle"
    /\ UNCHANGED <<new, marker, onDisk, entry, safe, lastOk, renamed, exposed>>

(* What an entry may be found to be after a power loss.                     *)
AfterLoss(e) ==
    CASE entry[e] = "none" -> {"none"}
      [] entry[e] = "whole" /\ safe[e] = Parts -> {"whole"}
      [] entry[e] \in {"partial", "gone"} -> {"none", "partial"}
      [] OTHER -> {"none", "partial", "whole"}

PowerLoss ==
    /\ pc' = "idle"
    /\ marker' \in onDisk
    /\ onDisk' = {marker'}
    /\ entry' \in {f \in [Entries -> {"none", "partial", "whole"}] :
                      \A e \in Entries : f[e] \in AfterLoss(e)}
    /\ safe' = [e \in Entries |-> IF entry'[e] = "whole" THEN Parts ELSE {}]
    /\ exposed' = {e \in exposed : entry'[e] # "whole"}
    /\ UNCHANGED <<new, lastOk, renamed>>

Next ==
    \/ Allocate \/ SyncName \/ WriteFiles \/ SyncFiles \/ SyncEntries
    \/ Rename \/ SyncControl \/ Fail \/ Undo \/ Cleanup \/ Die \/ PowerLoss

Spec == Init /\ [][Next]_vars

-----------------------------------------------------------------------------
(* Properties *)

Steps ==
    {"idle", "syncName", "write", "syncFiles", "syncEntries", "rename", "syncControl", "undo"}

(* Type invariant; the marker is among what may be on disk.                 *)
TypeOK ==
    /\ pc \in Steps
    /\ new \in 0..MaxEntries /\ (pc # "idle" => new > 0)
    /\ marker \in 0..new /\ renamed \in 0..new /\ lastOk \in 0..new
    /\ onDisk \subseteq 0..new /\ marker \in onDisk
    /\ entry \in [Entries -> {"none", "partial", "whole", "removed", "gone"}]
    /\ safe \in [Entries -> SUBSET Parts]
    /\ exposed \subseteq Entries

(* docs/public-gnss-distribution-sources.md:521-523: power loss or process  *)
(* death during publication never exposes a mixed entry.  The marker names  *)
(* an entry with all its bytes, through any number of failing calls, deaths *)
(* and power losses, with two exceptions, both in exposed: a cleanup        *)
(* removed the entry before the rename that replaced it was synchronized,   *)
(* and the power then failed; or the last synchronization failed and the    *)
(* error path could not read current.json, so it removed the entry named.   *)
MarkerNamesWhole ==
    marker # 0 /\ marker \notin exposed => entry[marker] = "whole"

(* The final sync_directory of publish: an entry whose publish returned Ok  *)
(* is current with all its bytes, whatever fails, dies, is cleaned up or    *)
(* loses power, until a later publish renames the marker; after that the    *)
(* marker names it or a newer one, whose files may be gone by one of the    *)
(* exceptions of MarkerNamesWhole.                                          *)
OkSurvivesPowerLoss ==
    /\ marker >= lastOk
    /\ (lastOk # 0 /\ renamed = lastOk) => (marker = lastOk /\ entry[lastOk] = "whole")
=============================================================================
