------------------------------ MODULE ExactCache ------------------------------
(***************************************************************************)
(* The file protocol of ExactProductCache                                  *)
(* (src/crates/sidereon-core/src/exact_cache.rs): lock, read, publish and  *)
(* cleanup_abandoned of several processes on one cache directory, one      *)
(* action per file-system call that another process can observe, process   *)
(* death between any two of them, and a bounded number of failing calls.   *)
(*                                                                         *)
(* An entry is a directory with three immutable files; current.json (the   *)
(* marker) names the committed entry.  The bytes of a file are abstracted  *)
(* to what the digests in the marker tell apart: "absent", "partial" (the  *)
(* file exists, not all its bytes do) and "full" (the bytes the marker     *)
(* binds).  Power loss is the subject of CacheDurability.tla.              *)
(***************************************************************************)
EXTENDS Naturals, FiniteSets

CONSTANTS
    Procs,      \* processes using the cache
    Writers,    \* the ones that lock, publish and clean up
    Readers,    \* the ones that read
    Entries,    \* entry identifiers (the bound on publications)
    NoEntry,    \* no commit marker / no entry
    NoProc,     \* the lock is free
    MaxTries,   \* attempts of one read (16 in the code)
    MaxFaults   \* bound on input/output calls that fail

ASSUME RolesAssumption == Writers \subseteq Procs /\ Readers \subseteq Procs
ASSUME NoEntryAssumption == NoEntry \notin Entries
ASSUME NoProcAssumption == NoProc \notin Procs
ASSUME TriesAssumption == MaxTries \in Nat \ {0}
ASSUME FaultsAssumption == MaxFaults \in Nat

VARIABLES
    marker,     \* the entry current.json names
    dirs,       \* directories under entries/
    files,      \* files[e][f]: content of file f of entry e
    temp,       \* temp[e]: content of .current.json.<e>.tmp
    lock,       \* holder of the advisory lock
    used,       \* identifiers handed out so far: 128 random bits never repeat
    pc,         \* pc[p]: the next step of process p
    ent,        \* ent[p]: entry p is publishing
    todo,       \* todo[p]: directories p's cleanup still has to remove
    rd,         \* rd[p]: entry named by the marker p has read
    bytes,      \* bytes[p]: what p has read of each file of rd[p]
    tries,      \* tries[p]: attempts p's read has begun
    faults,     \* failed calls so far
    window,     \* history: what was current since p's read began
    hurt,       \* history: processes whose read or cleanup met a failing call
    spent       \* history: every entry that has been current

disk  == <<marker, dirs, files, temp>>
wvars == <<ent, todo>>
rvars == <<rd, bytes, tries>>
hist  == <<window, spent>>
vars  == <<disk, lock, used, pc, wvars, rvars, faults, hist, hurt>>

Files == {"product", "archive", "provenance"}
Content == {"absent", "partial", "full"}
NoFiles == [f \in Files |-> "absent"]

(* Files are written and read in one order: product, archive, provenance.  *)
FirstOf(S) ==
    IF "product" \in S THEN "product"
    ELSE IF "archive" \in S THEN "archive" ELSE "provenance"

PublishPcs == {"write", "temp", "rename", "syncControl", "pubOk", "pubErr"}
UndoPcs == {"undoTemp", "undoCheck", "undoRemove"}
CleanPcs == {"clMarker", "clEntries", "clTemps", "clDone"}
LockedPcs == {"held"} \cup PublishPcs \cup UndoPcs \cup CleanPcs
Outcomes == {"hit", "miss", "io", "unstable", "torn"}
ReadingPcs == {"rdMarker", "rdFiles", "rdRecheck"}
Pcs == {"idle", "lockWait"} \cup LockedPcs \cup ReadingPcs \cup Outcomes

TypeOK ==
    /\ marker \in Entries \cup {NoEntry}
    /\ dirs \subseteq Entries
    /\ files \in [Entries -> [Files -> Content]]
    /\ temp \in [Entries -> Content]
    /\ lock \in Procs \cup {NoProc}
    /\ used \subseteq Entries
    /\ pc \in [Procs -> Pcs]
    /\ ent \in [Procs -> Entries \cup {NoEntry}]
    /\ todo \in [Procs -> SUBSET Entries]
    /\ rd \in [Procs -> Entries \cup {NoEntry}]
    /\ bytes \in [Procs -> [Files -> Content]]
    /\ tries \in [Procs -> 0..MaxTries]
    /\ faults \in 0..MaxFaults
    /\ window \in [Procs -> SUBSET (Entries \cup {NoEntry})]
    /\ hurt \subseteq Procs
    /\ spent \subseteq Entries

Init ==
    /\ marker = NoEntry
    /\ dirs = {}
    /\ files = [e \in Entries |-> NoFiles]
    /\ temp = [e \in Entries |-> "absent"]
    /\ lock = NoProc
    /\ used = {}
    /\ pc = [p \in Procs |-> "idle"]
    /\ ent = [p \in Procs |-> NoEntry]
    /\ todo = [p \in Procs |-> {}]
    /\ rd = [p \in Procs |-> NoEntry]
    /\ bytes = [p \in Procs |-> NoFiles]
    /\ tries = [p \in Procs |-> 0]
    /\ faults = 0
    /\ window = [p \in Procs |-> {}]
    /\ hurt = {}
    /\ spent = {}

-----------------------------------------------------------------------------
(* Steps and failing calls *)

At(p, l) == pc[p] = l
Goto(p, l) == pc' = [pc EXCEPT ![p] = l]

(* A call of p fails with an error other than NotFound.                    *)
FaultOf(p) ==
    /\ faults < MaxFaults
    /\ faults' = faults + 1
    /\ hurt' = hurt \cup {p}
(* The same where no property asks which operation failed.                 *)
Fault == faults < MaxFaults /\ faults' = faults + 1 /\ UNCHANGED hurt
NoFault == UNCHANGED <<faults, hurt>>
Unhurt(p) == faults' = faults /\ hurt' = hurt \ {p}

-----------------------------------------------------------------------------
(* lock and the guard's drop *)

(* lock(timeout) enters its try_lock loop ...                              *)
LockStart(p) ==
    /\ p \in Writers
    /\ At(p, "idle")
    /\ Goto(p, "lockWait")
    /\ NoFault
    /\ UNCHANGED <<disk, lock, used, wvars, rvars, hist>>

LockAcquireShared(p) ==                     \* fault: the lock does not exclude
    /\ At(p, "lockWait")
    /\ lock' = p
    /\ Goto(p, "held")
    /\ NoFault
    /\ UNCHANGED <<disk, used, wvars, rvars, hist>>

(* ... which ends when the lock is free, ...                               *)
LockAcquire(p) ==
    /\ At(p, "lockWait")
    /\ lock = NoProc
    /\ lock' = p
    /\ Goto(p, "held")
    /\ NoFault
    /\ UNCHANGED <<disk, used, wvars, rvars, hist>>

LockTimeoutNever(p) == At(p, "lockWait") /\ FALSE /\ UNCHANGED vars   \* fault: no deadline

(* ... with LockTimeout when another process still has it at the deadline. *)
LockTimeout(p) ==
    /\ At(p, "lockWait")
    /\ lock # NoProc
    /\ Goto(p, "idle")
    /\ NoFault
    /\ UNCHANGED <<disk, lock, used, wvars, rvars, hist>>

(* ... or when creating, opening or syncing the lock file fails.           *)
LockFail(p) ==
    /\ At(p, "lockWait")
    /\ Goto(p, "idle")
    /\ Fault
    /\ UNCHANGED <<disk, lock, used, wvars, rvars, hist>>

(* Drop of ExactCacheGuard *)
Unlock(p) ==
    /\ At(p, "held")
    /\ lock' = NoProc
    /\ Goto(p, "idle")
    /\ NoFault
    /\ UNCHANGED <<disk, used, wvars, rvars, hist>>

-----------------------------------------------------------------------------
(* publish *)

(* allocate_entry_id draws 128 random bits and insists on creating the      *)
(* directory.  Identifiers are opaque, so it does not matter which unused   *)
(* one it draws.                                                            *)
FreshEntry == CHOOSE e \in Entries : e \notin used

(* durable_create_dir_all, allocate_entry_id, sync_directory(entries).  A   *)
(* failing call here returns before the closure whose error path cleans     *)
(* up: the new directory, if it exists already, stays behind.               *)
PublishStart(p) ==
    /\ At(p, "held")
    /\ used # Entries
    /\ used' = used \cup {FreshEntry}
    /\ dirs' = dirs \cup {FreshEntry}
    /\ \/ Goto(p, "write") /\ ent' = [ent EXCEPT ![p] = FreshEntry] /\ NoFault
       \/ UNCHANGED <<pc, ent>> /\ Fault
    /\ UNCHANGED <<marker, files, temp, lock, todo, rvars, hist>>

PublishRefused(p) ==
    /\ At(p, "held")
    /\ Fault
    /\ UNCHANGED <<disk, lock, used, pc, wvars, rvars, hist>>

Complete(e) == \A f \in Files : files[e][f] = "full"
NextFile(e) == FirstOf({f \in Files : files[e][f] # "full"})
SetFile(e, f, c) == files' = [files EXCEPT ![e] = [@ EXCEPT ![f] = c]]

(* write_exclusive: create_new, then write_all and sync_all.  A failing     *)
(* create leaves no file; a failing write or sync leaves some of the bytes. *)
PublishWrite(p) ==
    /\ At(p, "write")
    /\ ~ Complete(ent[p])
    /\ LET f == NextFile(ent[p]) IN
       \/ /\ SetFile(ent[p], f, IF files[ent[p]][f] = "absent" THEN "partial" ELSE "full")
          /\ UNCHANGED pc
          /\ NoFault
       \/ Fault /\ Goto(p, "undoTemp") /\ UNCHANGED files
       \/ /\ files[ent[p]][f] = "partial"
          /\ SetFile(ent[p], f, "full")
          /\ Fault /\ Goto(p, "undoTemp")
    /\ UNCHANGED <<marker, dirs, temp, lock, used, wvars, rvars, hist>>

(* sync_directory of the entry directory and of entries/                    *)
PublishSync(p) ==
    /\ At(p, "write")
    /\ Complete(ent[p])
    /\ \/ Goto(p, "temp") /\ NoFault
       \/ Goto(p, "undoTemp") /\ Fault
    /\ UNCHANGED <<disk, lock, used, wvars, rvars, hist>>

(* write_exclusive of the temporary marker                                  *)
PublishTemp(p) ==
    /\ At(p, "temp")
    /\ \/ /\ temp[ent[p]] = "absent"
          /\ temp' = [temp EXCEPT ![ent[p]] = "partial"]
          /\ Goto(p, "temp") /\ NoFault
       \/ /\ temp[ent[p]] = "partial"
          /\ temp' = [temp EXCEPT ![ent[p]] = "full"]
          /\ Goto(p, "rename") /\ NoFault
       \/ Fault /\ Goto(p, "undoTemp") /\ UNCHANGED temp
    /\ UNCHANGED <<marker, dirs, files, lock, used, wvars, rvars, hist>>

(* rename over current.json: the only step readers can see                  *)
PublishRename(p) ==
    /\ At(p, "rename")
    /\ \/ /\ marker' = ent[p]
          /\ temp' = [temp EXCEPT ![ent[p]] = "absent"]
          /\ spent' = spent \cup {ent[p]}
          /\ window' = [q \in Procs |->
                IF pc[q] \in ReadingPcs THEN window[q] \cup {ent[p]} ELSE window[q]]
          /\ Goto(p, "syncControl")
          /\ NoFault
       \/ Fault /\ Goto(p, "undoTemp") /\ UNCHANGED <<marker, temp, hist>>
    /\ UNCHANGED <<dirs, files, lock, used, wvars, rvars>>

(* sync_directory(control); its failure takes the error path although the   *)
(* commit is already visible.                                               *)
PublishSyncControl(p) ==
    /\ At(p, "syncControl")
    /\ \/ Goto(p, "pubOk") /\ NoFault
       \/ Goto(p, "undoTemp") /\ Fault
    /\ UNCHANGED <<disk, lock, used, wvars, rvars, hist>>

(* Error path: remove_file(marker_temp), whose own failure is ignored.      *)
PublishUndoTemp(p) ==
    /\ At(p, "undoTemp")
    /\ \/ temp' = [temp EXCEPT ![ent[p]] = "absent"] /\ NoFault
       \/ UNCHANGED temp /\ Fault
    /\ Goto(p, "undoCheck")
    /\ UNCHANGED <<marker, dirs, files, lock, used, wvars, rvars, hist>>

PublishUndoUnchecked(p) ==                  \* fault: always removes the entry
    /\ At(p, "undoCheck")
    /\ Goto(p, "undoRemove")
    /\ NoFault
    /\ UNCHANGED <<disk, lock, used, wvars, rvars, hist>>

(* current_entry_id() # entry_id; a failing read of the marker counts as    *)
(* "not current".                                                           *)
PublishUndoCheck(p) ==
    /\ At(p, "undoCheck")
    /\ \/ Goto(p, IF marker = ent[p] THEN "pubErr" ELSE "undoRemove") /\ NoFault
       \/ Goto(p, "undoRemove") /\ Fault
    /\ UNCHANGED <<disk, lock, used, wvars, rvars, hist>>

(* One step of remove_dir_all: unlink a file, or the empty directory.       *)
RemoveStep(e) ==
    \/ \E f \in Files :
          /\ files[e][f] # "absent"
          /\ SetFile(e, f, "absent")
          /\ UNCHANGED dirs
    \/ /\ \A f \in Files : files[e][f] = "absent"
       /\ dirs' = dirs \ {e}
       /\ UNCHANGED files

PublishUndoRemove(p) ==
    /\ At(p, "undoRemove")
    /\ \/ /\ RemoveStep(ent[p])
          /\ Goto(p, IF ent[p] \in dirs' THEN "undoRemove" ELSE "pubErr")
          /\ NoFault
       \/ Goto(p, "pubErr") /\ Fault /\ UNCHANGED <<dirs, files>>
    /\ UNCHANGED <<marker, temp, lock, used, wvars, rvars, hist>>

PublishReturn(p) ==
    /\ pc[p] \in {"pubOk", "pubErr"}
    /\ Goto(p, "held")
    /\ ent' = [ent EXCEPT ![p] = NoEntry]
    /\ NoFault
    /\ UNCHANGED <<disk, lock, used, todo, rvars, hist>>

-----------------------------------------------------------------------------
(* cleanup_abandoned *)

CleanupStart(p) ==
    /\ At(p, "held")
    /\ Goto(p, "clMarker")
    /\ NoFault
    /\ UNCHANGED <<disk, lock, used, wvars, rvars, hist>>

CleanupPartialOnly(p) ==                    \* fault: complete entries are kept
    /\ At(p, "clMarker")
    /\ todo' = [todo EXCEPT ![p] = {e \in dirs \ {marker} : ~ Complete(e)}]
    /\ Goto(p, "clEntries")
    /\ NoFault
    /\ UNCHANGED <<disk, lock, used, ent, rvars, hist>>

(* Read the marker and list entries/.  An unreadable marker ends the        *)
(* cleanup with Ok and nothing removed; a failing read_dir skips entries/.  *)
CleanupMarker(p) ==
    /\ At(p, "clMarker")
    /\ \/ /\ todo' = [todo EXCEPT ![p] = dirs \ {marker}]
          /\ Goto(p, "clEntries") /\ NoFault
       \/ todo' = [todo EXCEPT ![p] = {}] /\ Goto(p, "clTemps") /\ FaultOf(p)
       \/ Goto(p, "clDone") /\ FaultOf(p) /\ UNCHANGED todo
    /\ UNCHANGED <<disk, lock, used, ent, rvars, hist>>

(* remove_dir_all of each directory that is not current, failures ignored   *)
CleanupEntries(p) ==
    /\ At(p, "clEntries")
    /\ \/ \E e \in todo[p] :
          /\ RemoveStep(e)
          /\ todo' = [todo EXCEPT ![p] = @ \cap dirs']
          /\ UNCHANGED pc
          /\ NoFault
       \/ \E e \in todo[p] :
          /\ todo' = [todo EXCEPT ![p] = @ \ {e}]
          /\ FaultOf(p)
          /\ UNCHANGED <<pc, dirs, files>>
       \/ /\ todo[p] = {}
          /\ Goto(p, "clTemps")
          /\ NoFault
          /\ UNCHANGED <<dirs, files, todo>>
    /\ UNCHANGED <<marker, temp, lock, used, ent, rvars, hist>>

(* remove every .current.json.*.tmp, failures ignored                       *)
CleanupTemps(p) ==
    /\ At(p, "clTemps")
    /\ \/ \E e \in Entries :
          /\ temp[e] # "absent"
          /\ temp' = [temp EXCEPT ![e] = "absent"]
          /\ UNCHANGED pc
          /\ NoFault
       \/ /\ \A e \in Entries : temp[e] = "absent"
          /\ Goto(p, "clDone")
          /\ NoFault
          /\ UNCHANGED temp
       \/ FaultOf(p) /\ Goto(p, "clDone") /\ UNCHANGED temp
    /\ UNCHANGED <<marker, dirs, files, lock, used, wvars, rvars, hist>>

CleanupReturn(p) ==
    /\ At(p, "clDone")
    /\ Goto(p, "held")
    /\ Unhurt(p)
    /\ UNCHANGED <<disk, lock, used, wvars, rvars, hist>>

-----------------------------------------------------------------------------
(* read, with or without the lock *)

ReadStart(p) ==
    /\ p \in Readers
    /\ pc[p] \in {"idle", "held"}
    /\ Goto(p, "rdMarker")
    /\ tries' = [tries EXCEPT ![p] = 1]
    /\ window' = [window EXCEPT ![p] = {marker}]
    /\ NoFault
    /\ UNCHANGED <<disk, lock, used, wvars, rd, bytes, spent>>

(* fs::read of the marker; a missing marker is a miss                       *)
ReadMarker(p) ==
    /\ At(p, "rdMarker")
    /\ \/ /\ Goto(p, IF marker = NoEntry THEN "miss" ELSE "rdFiles")
          /\ rd' = [rd EXCEPT ![p] = marker]
          /\ bytes' = [bytes EXCEPT ![p] = NoFiles]
          /\ NoFault
       \/ Goto(p, "io") /\ FaultOf(p) /\ UNCHANGED <<rd, bytes>>
    /\ UNCHANGED <<disk, lock, used, wvars, tries, hist>>

(* read_committed_entry reads the files in publication order.               *)
ToRead(p) == FirstOf({f \in Files : bytes[p][f] = "absent"})
AllRead(p) == \A f \in Files : bytes[p][f] # "absent"

ReadFile(p) ==
    /\ At(p, "rdFiles")
    /\ ~ AllRead(p)
    /\ \/ /\ files[rd[p]][ToRead(p)] # "absent"
          /\ bytes' = [bytes EXCEPT ![p] = [@ EXCEPT ![ToRead(p)] = files[rd[p]][ToRead(p)]]]
          /\ UNCHANGED pc
          /\ NoFault
       \/ /\ files[rd[p]][ToRead(p)] = "absent"
          /\ Goto(p, "rdRecheck")
          /\ NoFault
          /\ UNCHANGED bytes
       \/ Goto(p, "rdRecheck") /\ FaultOf(p) /\ UNCHANGED bytes
    /\ UNCHANGED <<disk, lock, used, wvars, rd, tries, hist>>

(* verify_commit_record: every digest must match.                           *)
ReadVerify(p) ==
    /\ At(p, "rdFiles")
    /\ AllRead(p)
    /\ Goto(p, IF \A f \in Files : bytes[p][f] = "full" THEN "hit" ELSE "rdRecheck")
    /\ NoFault
    /\ UNCHANGED <<disk, lock, used, wvars, rvars, hist>>

MayRetryFewer(n) == n + 1 < MaxTries        \* fault: one attempt too few
MayRetryMore(n) == n <= MaxTries            \* fault: one attempt too many

(* for _ in 0..16: is this not the last attempt?                            *)
MayRetry(n) == n < MaxTries

ReadRecheckSkipped(p) ==                    \* fault: no second look at the marker
    /\ At(p, "rdRecheck")
    /\ Goto(p, IF p \in hurt THEN "io" ELSE "torn")
    /\ NoFault
    /\ UNCHANGED <<disk, lock, used, wvars, rvars, hist>>

(* After a failed attempt: try again if the marker changed, at most         *)
(* MaxTries times in all; otherwise the entry itself is at fault.           *)
ReadRecheck(p) ==
    /\ At(p, "rdRecheck")
    /\ \/ /\ marker # rd[p]
          /\ IF MayRetry(tries[p])
             THEN Goto(p, "rdMarker") /\ tries' = [tries EXCEPT ![p] = @ + 1]
             ELSE Goto(p, "unstable") /\ UNCHANGED tries
          /\ NoFault
       \/ /\ marker = rd[p]
          /\ Goto(p, IF p \in hurt THEN "io" ELSE "torn")
          /\ UNCHANGED tries
          /\ NoFault
       \/ Goto(p, "io") /\ FaultOf(p) /\ UNCHANGED tries
    /\ UNCHANGED <<disk, lock, used, wvars, rd, bytes, hist>>

(* The caller consumes the outcome.                                         *)
ReadReturn(p) ==
    /\ pc[p] \in Outcomes
    /\ Goto(p, IF lock = p THEN "held" ELSE "idle")
    /\ rd' = [rd EXCEPT ![p] = NoEntry]
    /\ bytes' = [bytes EXCEPT ![p] = NoFiles]
    /\ tries' = [tries EXCEPT ![p] = 0]
    /\ window' = [window EXCEPT ![p] = {}]
    /\ Unhurt(p)
    /\ UNCHANGED <<disk, lock, used, wvars, spent>>

-----------------------------------------------------------------------------
(* Process death: memory is gone, the kernel frees the lock, files stay.    *)
Crash(p) ==
    /\ pc[p] # "idle"
    /\ Goto(p, "idle")
    /\ lock' = IF lock = p THEN NoProc ELSE lock
    /\ ent' = [ent EXCEPT ![p] = NoEntry]
    /\ todo' = [todo EXCEPT ![p] = {}]
    /\ rd' = [rd EXCEPT ![p] = NoEntry]
    /\ bytes' = [bytes EXCEPT ![p] = NoFiles]
    /\ tries' = [tries EXCEPT ![p] = 0]
    /\ window' = [window EXCEPT ![p] = {}]
    /\ Unhurt(p)
    /\ UNCHANGED <<disk, used, spent>>

(* The steps a process takes without a decision of its caller               *)
Step(p) ==
    \/ LockAcquire(p) \/ LockTimeout(p) \/ LockFail(p)
    \/ PublishWrite(p) \/ PublishSync(p) \/ PublishTemp(p) \/ PublishRename(p)
    \/ PublishSyncControl(p)
    \/ PublishUndoTemp(p) \/ PublishUndoCheck(p) \/ PublishUndoRemove(p)
    \/ PublishReturn(p)
    \/ CleanupMarker(p) \/ CleanupEntries(p) \/ CleanupTemps(p) \/ CleanupReturn(p)
    \/ ReadMarker(p) \/ ReadFile(p) \/ ReadVerify(p) \/ ReadRecheck(p) \/ ReadReturn(p)

Call(p) ==
    \/ LockStart(p) \/ Unlock(p) \/ CleanupStart(p) \/ ReadStart(p)
    \/ PublishRefused(p) \/ PublishStart(p)

Next == \E p \in Procs : Step(p) \/ Call(p) \/ Crash(p)

Spec == Init /\ [][Next]_vars
FairSpec == Spec /\ \A p \in Procs : WF_vars(Step(p))

-----------------------------------------------------------------------------
(* Correctness *)

(* Whatever happened to the processes, the marker names an entry whose      *)
(* directory and three files are complete: publish writes them before the   *)
(* rename, and neither its error path nor cleanup_abandoned removes them.   *)
CurrentEntryComplete ==
    marker # NoEntry => marker \in dirs /\ Complete(marker)

(* When publish returns Ok its entry is the current one: nobody else        *)
(* published or cleaned up under the lock it held all along.                *)
PublishedIsCurrent ==
    \A p \in Procs : pc[p] = "pubOk" => lock = p /\ marker = ent[p]

(* A read never reports a damaged entry when none of its own calls failed,  *)
(* although it holds no lock and a refresh may delete the entry under it.   *)
NoSpuriousReadError == \A p \in Procs : pc[p] # "torn"

(* A cleanup none of whose calls failed leaves nothing but the current      *)
(* entry, whatever crashed publishers had left behind.                      *)
CleanupLeavesOnlyCurrent ==
    \A p \in Procs : pc[p] = "clDone" /\ p \notin hurt =>
        /\ dirs \subseteq {marker}
        /\ \A e \in Entries : temp[e] = "absent" /\ (e # marker => files[e] = NoFiles)

(* read and publish implement the register of CacheRegister: what a read    *)
(* returns was current while it ran, and it fails only for a failed call    *)
(* or after MaxTries commits in one read.                                   *)
Register == INSTANCE CacheRegister WITH
    cur <- marker,
    state <- [p \in Procs |->
                IF pc[p] \in ReadingPcs THEN "reading"
                ELSE IF pc[p] \in Outcomes THEN pc[p] ELSE "idle"],
    answer <- [p \in Procs |-> IF pc[p] = "hit" THEN rd[p] ELSE NoEntry]
ImplementsRegister == Register!Spec

(* Every call returns, even when another process keeps the lock for ever:   *)
(* lock is bounded by its deadline, read by its number of attempts.         *)
EveryCallReturns ==
    \A p \in Procs : pc[p] \notin {"idle", "held"} ~> pc[p] \in {"idle", "held"}
=============================================================================
