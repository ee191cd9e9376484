------------------------- MODULE ManifestLockProofs -------------------------
(***************************************************************************)
(* For any number of processes: the lock on the manifest is exclusive, and *)
(* no update of the manifest is lost, unless a Close removes a lock file   *)
(* that another process has open.                                          *)
(***************************************************************************)
EXTENDS ManifestLock, TLAPS

\* A process has the lock file open from fslock.Lock to Unlock.
OpenWhileUsed ==
  \A p \in Procs : fd[p] # None <=> pc[p] = "opened" \/ Inside(p)

\* A process that got through fslock.Lock holds the flock of its inode.
HoldsFlock == \A p \in Procs : Inside(p) => owner[fd[p]] = p

\* Without a theft, all who have a lock file open have the same one.
OneLockFile == ~stolen => \A p \in Procs : fd[p] # None => fd[p] = link

Inv == TypeOK /\ OpenWhileUsed /\ HoldsFlock /\ OneLockFile /\ NoLostUpdate

\* Two processes that are inside hold the flock of the same inode.
LEMMA Exclusion == Inv => ExclusiveUnlessStolen
<1> SUFFICES ASSUME Inv, ~stolen, NEW p \in Procs, NEW q \in Procs, Inside(p), Inside(q)
             PROVE  p = q
  BY DEF ExclusiveUnlessStolen, ExclusiveLock
<1>1. fd[p] = link /\ fd[q] = link
  BY DEF Inv, OpenWhileUsed, OneLockFile
<1> QED
  BY <1>1 DEF Inv, HoldsFlock

\* Without processes the invariant holds.
LEMMA InitInv == Init => Inv
  BY LockAssumption
  DEF Init, Inv, TypeOK, OpenWhileUsed, HoldsFlock, OneLockFile, NoLostUpdate, Inside

\* Every system call on the lock file, and every crash, keeps it.
LEMMA StepInv == Inv /\ [Next]_vars => Inv'
<1> SUFFICES ASSUME Inv, [Next]_vars PROVE Inv'
  OBVIOUS
<1> USE LockAssumption DEF Inv, TypeOK, Inside, Goto
<1>1. ASSUME NEW p \in Procs, OpenLock(p) PROVE Inv'
  BY <1>1 DEF OpenLock, OpenWhileUsed, HoldsFlock, OneLockFile, NoLostUpdate
<1>2. ASSUME NEW p \in Procs, Flock(p) PROVE Inv'
  BY <1>2 DEF Flock, OpenWhileUsed, HoldsFlock, OneLockFile, NoLostUpdate
<1>3. ASSUME NEW p \in Procs, LockHeld(p) PROVE Inv'
  BY <1>3 DEF LockHeld, Release, OpenWhileUsed, HoldsFlock, OneLockFile, NoLostUpdate
<1>4. ASSUME NEW p \in Procs, Load(p) PROVE Inv'
  BY <1>4 DEF Load, OpenWhileUsed, HoldsFlock, OneLockFile, NoLostUpdate
<1>5. ASSUME NEW p \in Procs, LoadFails(p) PROVE Inv'
  BY <1>5 DEF LoadFails, Release, OpenWhileUsed, HoldsFlock, OneLockFile, NoLostUpdate
<1>6. ASSUME NEW p \in Procs, SaveNothing(p) PROVE Inv'
  BY <1>6 DEF SaveNothing, OpenWhileUsed, HoldsFlock, OneLockFile, NoLostUpdate
<1>7. ASSUME NEW p \in Procs, SaveTruncates(p) PROVE Inv'
  <2>1. ~stolen => \A q \in Procs : Inside(q) => q = p
    BY <1>7, Exclusion DEF SaveTruncates, ExclusiveUnlessStolen, ExclusiveLock
  <2>2. TypeOK' /\ OpenWhileUsed' /\ HoldsFlock' /\ OneLockFile'
    BY <1>7 DEF SaveTruncates, OpenWhileUsed, HoldsFlock, OneLockFile
  <2>3. NoLostUpdate'
    BY <1>7, <2>1 DEF SaveTruncates, NoLostUpdate
  <2> QED
    BY <2>2, <2>3
<1>8. ASSUME NEW p \in Procs, SaveWrites(p) PROVE Inv'
  <2>1. ~stolen => \A q \in Procs : Inside(q) => q = p
    BY <1>8, Exclusion DEF SaveWrites, ExclusiveUnlessStolen, ExclusiveLock
  <2>2. TypeOK' /\ OpenWhileUsed' /\ HoldsFlock' /\ OneLockFile'
    BY <1>8 DEF SaveWrites, OpenWhileUsed, HoldsFlock, OneLockFile
  <2>3. NoLostUpdate'
    BY <1>8, <2>1 DEF SaveWrites, NoLostUpdate
  <2> QED
    BY <2>2, <2>3
<1>9. ASSUME NEW p \in Procs, Unlock(p) PROVE Inv'
  BY <1>9 DEF Unlock, Release, OpenWhileUsed, HoldsFlock, OneLockFile, NoLostUpdate
<1>10. ASSUME NEW p \in Procs, RemoveLock(p) PROVE Inv'
  <2>1. stolen' \in BOOLEAN
    BY <1>10 DEF RemoveLock
  <2>2. ~stolen' => ~stolen /\ \A q \in Procs : fd[q] # None => fd[q] # link
    BY <1>10 DEF RemoveLock
  <2>3. TypeOK'
    BY <1>10, <2>1 DEF RemoveLock
  <2>4. OneLockFile'
    BY <1>10, <2>2 DEF RemoveLock, OneLockFile
  <2>5. NoLostUpdate'
    BY <1>10, <2>2 DEF RemoveLock, NoLostUpdate
  <2>6. OpenWhileUsed' /\ HoldsFlock'
    BY <1>10 DEF RemoveLock, OpenWhileUsed, HoldsFlock
  <2> QED
    BY <2>3, <2>4, <2>5, <2>6
<1>11. ASSUME NEW p \in Procs, Crash(p) PROVE Inv'
  BY <1>11 DEF Crash, Release, OpenWhileUsed, HoldsFlock, OneLockFile, NoLostUpdate
<1>12. CASE UNCHANGED vars
  BY <1>12 DEF vars, OpenWhileUsed, HoldsFlock, OneLockFile, NoLostUpdate
<1> QED
  BY <1>1, <1>2, <1>3, <1>4, <1>5, <1>6, <1>7, <1>8, <1>9, <1>10, <1>11, <1>12 DEF Next

\* The invariant holds for any number of processes and lock files, whichever
\* of them crash.
THEOREM Invariance == Spec => []Inv
  BY InitInv, StepInv, PTL DEF Spec

\* Every variable of the lock has its type.
THEOREM TypeCorrect == Spec => []TypeOK
  BY Invariance, PTL DEF Inv

\* However many processes there are, two of them are past NewMapFile's lock
\* only if a Close has removed a lock file that another process had open.
THEOREM LockIsExclusiveUnlessStolen == Spec => []ExclusiveUnlessStolen
  BY Invariance, Exclusion, PTL

\* Until then, the manifest a process is about to replace is the one it
\* loaded.
THEOREM UpdatesAreNotLost == Spec => []NoLostUpdate
  BY Invariance, PTL DEF Inv
=============================================================================
