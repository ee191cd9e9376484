---------------------------- MODULE ManifestLock ----------------------------
(***************************************************************************)
(* How htvend processes that write the same manifest keep out of each      *)
(* other's way: NewMapFile and Close of lockfile/lock_file.go with the     *)
(* lock file <manifest>.lock.                                              *)
(*                                                                         *)
(* fslock.Lock opens (and creates) the lock file and then takes a flock on *)
(* it without waiting.  A flock belongs to the inode, so what matters is   *)
(* which inode a process has open and which one has the name.  Close       *)
(* unlocks first and removes the name afterwards.  A process that dies     *)
(* loses its flock and leaves the file.                                    *)
(***************************************************************************)
CONSTANTS
  Procs,     \* processes that write the manifest
  Inodes,    \* inodes a lock file can have
  None,
  NoFile,    \* there is no manifest
  Torn       \* the manifest is truncated or incomplete

ASSUME LockAssumption ==
  /\ None \notin Inodes /\ None \notin Procs
  /\ NoFile \notin Procs /\ Torn \notin Procs /\ NoFile # Torn

VARIABLES
  pc,      \* pc[p]: where process p is between NewMapFile and Close
  fd,      \* fd[p]: the inode p has open, None if none
  owner,   \* owner[i]: the process that holds the flock of inode i
  link,    \* the inode that has the name <manifest>.lock, None if none
  disk,    \* the manifest: who wrote it last, NoFile or Torn
  base,    \* base[p]: the manifest p loaded
  stolen   \* history: a lock file was removed while another process had it open

vars == <<pc, fd, owner, link, disk, base, stolen>>

\* Inside: p has what NewMapFile's comment calls an exclusive lock.
Inside(p) == pc[p] \in {"locked", "loaded", "saving", "saved"}

\* Every variable has its type.
TypeOK ==
  /\ pc \in [Procs -> {"idle", "opened", "locked", "loaded", "saving", "saved",
                       "unlocked"}]
  /\ fd \in [Procs -> Inodes \cup {None}]
  /\ owner \in [Inodes -> Procs \cup {None}]
  /\ link \in Inodes \cup {None}
  /\ disk \in Procs \cup {NoFile, Torn}
  /\ base \in [Procs -> Procs \cup {NoFile}]
  /\ stolen \in BOOLEAN

Init ==
  /\ pc = [p \in Procs |-> "idle"]
  /\ fd = [p \in Procs |-> None]
  /\ owner = [i \in Inodes |-> None]
  /\ link = None
  /\ disk = NoFile
  /\ base = [p \in Procs |-> NoFile]
  /\ stolen = FALSE

Goto(p, where) == pc' = [pc EXCEPT ![p] = where]

\* p closes its descriptor, with which goes a flock it holds.
Release(p) ==
  /\ fd' = [fd EXCEPT ![p] = None]
  /\ owner' = [i \in Inodes |-> IF owner[i] = p THEN None ELSE owner[i]]
-----------------------------------------------------------------------------
(* NewMapFile.                                                             *)

\* fslock.Lock opens the lock file, creating it if it has no name.
OpenLock(p) ==
  /\ pc[p] = "idle"
  /\ IF link = None
       THEN \E i \in Inodes :
              /\ \A q \in Procs : fd[q] # i
              /\ link' = i /\ fd' = [fd EXCEPT ![p] = i]
       ELSE fd' = [fd EXCEPT ![p] = link] /\ UNCHANGED link
  /\ Goto(p, "opened")
  /\ UNCHANGED <<owner, disk, base, stolen>>

\* A plausible bug: the lock is taken to be free.
FlockUnchecked(p) ==
  /\ pc[p] = "opened"
  /\ owner' = [owner EXCEPT ![fd[p]] = p]
  /\ Goto(p, "locked")
  /\ UNCHANGED <<fd, link, disk, base, stolen>>

\* fslock.Lock takes the flock ...
Flock(p) ==
  /\ pc[p] = "opened"
  /\ owner[fd[p]] = None
  /\ owner' = [owner EXCEPT ![fd[p]] = p]
  /\ Goto(p, "locked")
  /\ UNCHANGED <<fd, link, disk, base, stolen>>

\* ... or finds it held, which ends the process: htvend does not wait.
LockHeld(p) ==
  /\ pc[p] = "opened"
  /\ owner[fd[p]] # None
  /\ Release(p)
  /\ Goto(p, "idle")
  /\ UNCHANGED <<link, disk, base, stolen>>

\* load reads a manifest, or finds none.
Load(p) ==
  /\ pc[p] = "locked"
  /\ disk # Torn
  /\ base' = [base EXCEPT ![p] = disk]
  /\ Goto(p, "loaded")
  /\ UNCHANGED <<fd, owner, link, disk, stolen>>

\* A plausible bug: an incomplete manifest counts as an empty one.
LoadTornAsEmpty(p) ==
  /\ pc[p] = "locked"
  /\ disk = Torn
  /\ base' = [base EXCEPT ![p] = NoFile]
  /\ Goto(p, "loaded")
  /\ UNCHANGED <<fd, owner, link, disk, stolen>>

\* load fails: the deferred Close of a nil File ends the process with a panic,
\* and the lock file stays.
LoadFails(p) ==
  /\ pc[p] = "locked"
  /\ disk = Torn
  /\ Release(p)
  /\ Goto(p, "idle")
  /\ UNCHANGED <<link, disk, base, stolen>>
-----------------------------------------------------------------------------
(* Close.                                                                  *)

\* save has nothing to write, or os.WriteFile fails.
SaveNothing(p) ==
  /\ pc[p] \in {"loaded", "saving"}
  /\ Goto(p, "saved")
  /\ UNCHANGED <<fd, owner, link, disk, base, stolen>>

SaveTruncates(p) ==
  /\ pc[p] = "loaded"
  /\ disk' = Torn
  /\ Goto(p, "saving")
  /\ UNCHANGED <<fd, owner, link, base, stolen>>

SaveWrites(p) ==
  /\ pc[p] = "saving"
  /\ disk' = p
  /\ Goto(p, "saved")
  /\ UNCHANGED <<fd, owner, link, base, stolen>>

\* The deferred function of Close: f.lock.Unlock() ...
Unlock(p) ==
  /\ pc[p] = "saved"
  /\ Release(p)
  /\ Goto(p, "unlocked")
  /\ UNCHANGED <<link, disk, base, stolen>>

\* ... and then os.Remove(f.lockPath), whoever has the file open by now.
RemoveLock(p) ==
  /\ pc[p] = "unlocked"
  /\ stolen' = (stolen \/ \E q \in Procs : fd[q] # None /\ fd[q] = link)
  /\ link' = None
  /\ Goto(p, "idle")
  /\ UNCHANGED <<fd, owner, disk, base>>

\* The process is killed.
Crash(p) ==
  /\ pc[p] # "idle"
  /\ Release(p)
  /\ Goto(p, "idle")
  /\ UNCHANGED <<link, disk, base, stolen>>
-----------------------------------------------------------------------------
Next ==
  \E p \in Procs :
    \/ OpenLock(p) \/ Flock(p) \/ LockHeld(p) \/ Load(p) \/ LoadFails(p)
    \/ SaveNothing(p) \/ SaveTruncates(p) \/ SaveWrites(p)
    \/ Unlock(p) \/ RemoveLock(p) \/ Crash(p)

Spec == Init /\ [][Next]_vars
-----------------------------------------------------------------------------
(* Properties.                                                             *)

\* The comment of NewMapFile, lock_file.go:67: "if writable, then we get an
\* exclusive lock on this file".
ExclusiveLock == \A p, q \in Procs : Inside(p) /\ Inside(q) => p = q

\* The lock is exclusive, through crashes and failed starts too, as long as
\* no Close has removed a lock file that another process had opened.
ExclusiveUnlessStolen == stolen \/ ExclusiveLock

\* As long as that has not happened, what a process is about to replace is
\* what it loaded, so no update of the manifest is lost.
NoLostUpdate == ~stolen => \A p \in Procs : pc[p] = "loaded" => disk = base[p]
=============================================================================
