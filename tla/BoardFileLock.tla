---------------------------- MODULE BoardFileLock ----------------------------
(***************************************************************************)
(* The lock file of a board (board_state.py, locked) and the edit made     *)
(* under it, one step per file-system call, by the processes that share    *)
(* the board.  The lock is a file and nothing more: whoever unlinks it     *)
(* unlinks whatever file has its name at that moment.                      *)
(*                                                                         *)
(* The file's age matters only against LOCK_STALE_S, so it is a flag, old. *)
(* An edit is the name of its process; the board file is the set of edits  *)
(* in it.                                                                  *)
(***************************************************************************)
EXTENDS Integers

CONSTANTS
  Proc,
  NoLock,
  MaxCrashes,   \* most processes that die
  MaxLeaks      \* most lock files left behind by a failing call

ASSUME LockAssumption ==
  NoLock \notin Proc /\ MaxCrashes \in Nat /\ MaxLeaks \in Nat

VARIABLES
  lock,     \* the process that created the lock file, or NoLock
  old,      \* the lock file is older than LOCK_STALE_S
  pc,       \* the next call of each process
  disk,     \* the board file
  copy,     \* the board each process loaded
  crashes, leaks,
  raced     \* history: somebody unlinked a lock that was not old, as stale

vars == <<lock, old, pc, disk, copy, crashes, leaks, raced>>

Waiting == {"create", "stat", "steal"}
Holding == {"write", "load", "save", "release", "undo"}
Over    == {"done", "refused", "dead"}

Init ==
  /\ lock = NoLock /\ old = FALSE
  /\ pc = [p \in Proc |-> "create"]
  /\ disk = {} /\ copy = [p \in Proc |-> {}]
  /\ crashes = 0 /\ leaks = 0 /\ raced = FALSE

At(p, step) == pc[p] = step
Goto(p, step) == pc' = [pc EXCEPT ![p] = step]

Unlink == lock' = NoLock /\ old' = FALSE

(* MUTANT of Create: the lock file is opened without O_EXCL.               *)
CreateShared(p) ==
  /\ At(p, "create")
  /\ lock' = p /\ old' = FALSE /\ Goto(p, "write")
  /\ UNCHANGED <<disk, copy, crashes, leaks, raced>>

(* O_CREAT | O_EXCL, the one atomic test and set.                          *)
Create(p) ==
  /\ At(p, "create")
  /\ IF lock = NoLock THEN lock' = p /\ old' = FALSE /\ Goto(p, "write")
                      ELSE Goto(p, "stat") /\ UNCHANGED <<lock, old>>
  /\ UNCHANGED <<disk, copy, crashes, leaks, raced>>

(* MUTANT of Stat: an abandoned lock is waited for.                        *)
StatNeverStale(p) ==
  /\ At(p, "stat") /\ Goto(p, "create")
  /\ UNCHANGED <<lock, old, disk, copy, crashes, leaks, raced>>

(* The age of whichever lock file is there now.  The refusal after         *)
(* LOCK_WAIT_S ends the attempt; its caller makes another one.             *)
Stat(p) ==
  /\ At(p, "stat")
  /\ Goto(p, IF lock # NoLock /\ old THEN "steal" ELSE "create")
  /\ UNCHANGED <<lock, old, disk, copy, crashes, leaks, raced>>

(* lock.unlink(missing_ok=True) of a lock whose age was read a call ago.   *)
Steal(p) ==
  /\ At(p, "steal")
  /\ Unlink /\ Goto(p, "create")
  /\ raced' = (raced \/ (lock # NoLock /\ ~old))
  /\ UNCHANGED <<disk, copy, crashes, leaks>>

(* Writing the pid happens before the `try' that unlinks the lock: if it   *)
(* fails, the lock file stays.                                             *)
WritePid(p) ==
  /\ At(p, "write")
  /\ \/ Goto(p, "load") /\ UNCHANGED leaks
     \/ leaks < MaxLeaks /\ leaks' = leaks + 1 /\ Goto(p, "create")
  /\ UNCHANGED <<lock, old, disk, copy, crashes, raced>>

(* MUTANT of Load: the board was loaded before the lock was taken.         *)
LoadedBefore(p) ==
  /\ At(p, "load") /\ Goto(p, "save")
  /\ UNCHANGED <<lock, old, disk, copy, crashes, leaks, raced>>

Load(p) ==
  /\ At(p, "load")
  /\ copy' = [copy EXCEPT ![p] = disk]
  /\ Goto(p, "save")
  /\ UNCHANGED <<lock, old, disk, crashes, leaks, raced>>

(* The whole file is replaced by the changed copy.                         *)
Save(p) ==
  /\ At(p, "save")
  /\ disk' = copy[p] \cup {p}
  /\ Goto(p, "release")
  /\ UNCHANGED <<lock, old, copy, crashes, leaks, raced>>

(* The load, the change or the save raises.                                *)
Raise(p) ==
  /\ pc[p] \in {"load", "save"}
  /\ Goto(p, "undo")
  /\ UNCHANGED <<lock, old, disk, copy, crashes, leaks, raced>>

(* The `finally' unlinks the lock after either end, or fails to.           *)
Release(p) ==
  /\ pc[p] \in {"release", "undo"}
  /\ \/ Unlink /\ UNCHANGED leaks
     \/ leaks < MaxLeaks /\ leaks' = leaks + 1 /\ UNCHANGED <<lock, old>>
  /\ Goto(p, IF At(p, "release") THEN "done" ELSE "refused")
  /\ UNCHANGED <<disk, copy, crashes, raced>>

Crash(p) ==
  /\ pc[p] \notin Over
  /\ crashes < MaxCrashes /\ crashes' = crashes + 1
  /\ Goto(p, "dead")
  /\ UNCHANGED <<lock, old, disk, copy, leaks, raced>>

(* Ten seconds pass.  "Far longer than any real edit takes": only a lock   *)
(* whose process no longer holds it gets that old.                         *)
Age ==
  /\ lock # NoLock /\ ~old
  /\ pc[lock] \notin Holding
  /\ old' = TRUE
  /\ UNCHANGED <<lock, pc, disk, copy, crashes, leaks, raced>>

Step(p) == \/ Create(p) \/ Stat(p) \/ Steal(p) \/ WritePid(p)
           \/ Load(p) \/ Save(p) \/ Raise(p) \/ Release(p)

(* Every process has made its edit, was refused or died.                   *)
Finished == (\A p \in Proc : pc[p] \in Over) /\ UNCHANGED vars

Next == Age \/ Finished \/ \E p \in Proc : Step(p) \/ Crash(p)

Spec == Init /\ [][Next]_vars

(* A process that has not died goes on, and time passes.                   *)
FairSpec == Spec /\ WF_vars(Age) /\ \A p \in Proc : WF_vars(Step(p))

-----------------------------------------------------------------------------
TypeOK ==
  /\ lock \in Proc \cup {NoLock} /\ old \in BOOLEAN
  /\ pc \in [Proc -> Waiting \cup Holding \cup Over]
  /\ disk \subseteq Proc /\ copy \in [Proc -> SUBSET Proc]
  /\ crashes \in 0..MaxCrashes /\ leaks \in 0..MaxLeaks
  /\ raced \in BOOLEAN
  /\ lock = NoLock => ~old

(* "Hold an exclusive lock on a board for the whole read-modify-write."    *)
MutualExclusion == \A p, q \in Proc : pc[p] \in Holding /\ pc[q] \in Holding => p = q

(* Only a race between two thieves of one stale lock breaks it: crashes,   *)
(* leaked lock files and steals alone do not.                              *)
ExclusiveUnlessRaced == ~raced => MutualExclusion

(* "The second save silently discards everything the first one did": an    *)
(* edit that was saved is in the file for good.                            *)
NoEditLost ==
  ~raced => \A p \in Proc : pc[p] \in {"release", "done"} => p \in disk

(* "A process killed mid-edit would otherwise wedge the board": no         *)
(* process waits for ever for a lock whose holder died or left it behind.  *)
EveryWriterFinishes == \A p \in Proc : <>(pc[p] \in Over)
=============================================================================
