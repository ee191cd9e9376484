------------------------------ MODULE LockFile ------------------------------
(***************************************************************************)
(* The manifest (assets.json): lockfile.File of lockfile/lock_file.go, as  *)
(* one process uses it from NewMapFile to Close, and the file on disk that *)
(* outlives the process.                                                   *)
(*                                                                         *)
(* Every method but Close runs under the mutex f.mu from begin to end and  *)
(* is one step.  Close holds the mutex while os.WriteFile first truncates  *)
(* the file and then fills it, so it is two steps, and the process may die *)
(* between them.  The lock file that keeps two writers apart is the        *)
(* subject of ManifestLock.                                                *)
(***************************************************************************)
CONSTANTS
  Urls,       \* keys of the manifest (u.Redacted())
  Contents,   \* bodies; SHA-256 is injective, so a body and its hash are one
  None,       \* "absent"
  NoFile,     \* the manifest does not exist
  Torn        \* the manifest is an incomplete JSON text

\* A BlobInfo: the hash, and the cached headers.  Of the headers only
\* Content-Length tells anything apart: len is the body whose length they
\* announce, None if they announce none.
BlobInfo == [sha : Contents, len : Contents \cup {None}]

BlobMap == [Urls -> BlobInfo \cup {None}]
EmptyMap == [u \in Urls |-> None]

ASSUME LockFileAssumption ==
  /\ None \notin BlobInfo /\ None \notin Contents
  /\ NoFile \notin BlobMap /\ Torn \notin BlobMap /\ NoFile # Torn

VARIABLES
  st,              \* "closed", "open", "saving" or "saved"
  options,         \* MapFileOptions of the open File
  blobs,           \* what this run has recorded
  previousBlobs,   \* what Reset put aside
  dirty,           \* does blobs differ from the file?
  disk             \* the file: a BlobMap, NoFile or Torn

vars == <<st, options, blobs, previousBlobs, dirty, disk>>

Options == [Writable : BOOLEAN, AllowOverwrite : BOOLEAN, NoCache : SUBSET Urls]
ReadOnly == [Writable |-> FALSE, AllowOverwrite |-> FALSE, NoCache |-> {}]

\* Every variable has its type.
TypeOK ==
  /\ st \in {"closed", "open", "saving", "saved"}
  /\ options \in Options
  /\ blobs \in BlobMap
  /\ previousBlobs \in BlobMap
  /\ dirty \in BOOLEAN
  /\ disk \in BlobMap \cup {NoFile, Torn}

\* The memory of a process that is not there.
NoProcess ==
  /\ st' = "closed"
  /\ options' = ReadOnly
  /\ blobs' = EmptyMap
  /\ previousBlobs' = EmptyMap
  /\ dirty' = FALSE

Init ==
  /\ st = "closed"
  /\ options = ReadOnly
  /\ blobs = EmptyMap
  /\ previousBlobs = EmptyMap
  /\ dirty = FALSE
  /\ disk = NoFile
-----------------------------------------------------------------------------
(* Opening.                                                                *)

\* load succeeds: a writer may start without a file.
Loadable(o) == disk \in BlobMap \/ (disk = NoFile /\ o.Writable)

NewMapFile(o) ==
  /\ st = "closed"
  /\ Loadable(o)
  /\ st' = "open"
  /\ options' = o
  /\ blobs' = IF disk = NoFile THEN EmptyMap ELSE disk
  /\ previousBlobs' = EmptyMap
  /\ dirty' = (disk = NoFile)
  /\ UNCHANGED disk

\* load fails: no file to read, or one that is not complete JSON.
NewMapFileFails(o) ==
  /\ st = "closed"
  /\ ~Loadable(o)
  /\ UNCHANGED vars

\* A plausible bug: Reset leaves the map nil instead of making a new one.
ResetLeavesNil(forgetBlobs) ==
  /\ st = "open"
  /\ previousBlobs' = IF forgetBlobs THEN EmptyMap ELSE blobs
  /\ blobs' = NoFile
  /\ dirty' = TRUE
  /\ UNCHANGED <<st, options, disk>>

\* A plausible bug: Reset forgets what was loaded without being asked to.
ResetForgets(forgetBlobs) ==
  /\ st = "open"
  /\ previousBlobs' = EmptyMap
  /\ blobs' = EmptyMap
  /\ dirty' = (dirty \/ blobs # EmptyMap)
  /\ UNCHANGED <<st, options, disk>>

\* Reset puts aside what was loaded, or forgets it.  (With nothing loaded the
\* code leaves previousBlobs and blobs the same map, which GetBlob cannot tell
\* from an empty previousBlobs.)
Reset(forgetBlobs) ==
  /\ st = "open"
  /\ previousBlobs' = IF forgetBlobs THEN EmptyMap ELSE blobs
  /\ blobs' = EmptyMap
  /\ dirty' = (dirty \/ blobs # EmptyMap)
  /\ UNCHANGED <<st, options, disk>>
-----------------------------------------------------------------------------
(* Operations under the mutex, which is free unless Close is saving.       *)

MutexFree == st \in {"open", "saved"}

SkipSave(u) == u \in options.NoCache

\* A different entry is there already and may not be replaced.
Conflict(u, info) == blobs[u] \notin {None, info} /\ ~options.AllowOverwrite

\* A plausible bug: a conflicting entry replaces the first one.
AddOverwrites(u, info) ==
  /\ MutexFree
  /\ blobs' = [blobs EXCEPT ![u] = info] /\ dirty' = TRUE
  /\ UNCHANGED <<st, options, previousBlobs, disk>>

\* A plausible bug: recording an entry does not mark the manifest dirty.
AddNotDirty(u, info) ==
  /\ MutexFree
  /\ blobs' = IF Conflict(u, info) THEN blobs ELSE [blobs EXCEPT ![u] = info]
  /\ UNCHANGED <<st, options, previousBlobs, dirty, disk>>

\* internalAddBlob: an equal entry is left, a different one is an error
\* unless AllowOverwrite is set.  In a read-only File the entry is changed
\* in memory before save(false) reports the error.
internalAddBlob(u, info) ==
  /\ MutexFree
  /\ IF Conflict(u, info) \/ blobs[u] = info
       THEN UNCHANGED <<blobs, dirty>>
       ELSE blobs' = [blobs EXCEPT ![u] = info] /\ dirty' = TRUE
  /\ UNCHANGED <<st, options, previousBlobs, disk>>

\* A plausible bug: a conflict is not reported.
ConflictUnreported(u, info) ==
  ~SkipSave(u) /\ blobs[u] # info /\ ~options.Writable

\* AddBlob returns an error.
AddError(u, info) ==
  /\ ~SkipSave(u)
  /\ Conflict(u, info) \/ (blobs[u] # info /\ ~options.Writable)

AddBlob(u, info) ==
  /\ st # "closed"
  /\ IF SkipSave(u) THEN UNCHANGED vars ELSE internalAddBlob(u, info)

\* What GetBlob finds: this run's entry, else the one Reset put aside.
Found(u) ==
  IF SkipSave(u) THEN None
  ELSE IF blobs[u] # None THEN blobs[u]
  ELSE previousBlobs[u]

\* GetBlob records what it finds as part of this run.  For a URL that is not
\* cached it returns before it takes the mutex.
GetBlob(u) ==
  /\ st # "closed"
  /\ SkipSave(u) \/ MutexFree
  /\ IF Found(u) = None THEN UNCHANGED vars ELSE internalAddBlob(u, Found(u))

\* RemoveEntry (nothing in the program calls it).
RemoveEntry(u) ==
  /\ MutexFree
  /\ ~SkipSave(u) /\ blobs[u] # None
  /\ blobs' = [blobs EXCEPT ![u] = None]
  /\ dirty' = TRUE
  /\ UNCHANGED <<st, options, previousBlobs, disk>>
-----------------------------------------------------------------------------
(* Closing.                                                                *)

MustSave == options.Writable /\ dirty

\* Close of a read-only File, or of one with nothing to write.
CloseClean ==
  /\ st = "open" /\ ~MustSave
  /\ st' = "saved"
  /\ UNCHANGED <<options, blobs, previousBlobs, dirty, disk>>

\* os.WriteFile opens the file with O_TRUNC ...
CloseTruncates ==
  /\ st = "open" /\ MustSave
  /\ st' = "saving"
  /\ disk' = Torn
  /\ UNCHANGED <<options, blobs, previousBlobs, dirty>>

\* A plausible bug: Close forgets what was put aside, for which handlers that
\* run on may still ask.
CloseForgets ==
  /\ st = "saving"
  /\ st' = "saved"
  /\ disk' = blobs
  /\ dirty' = FALSE
  /\ previousBlobs' = EmptyMap
  /\ UNCHANGED <<options, blobs>>

\* ... and writes it.
CloseWrites ==
  /\ st = "saving"
  /\ st' = "saved"
  /\ disk' = blobs
  /\ dirty' = FALSE
  /\ UNCHANGED <<options, blobs, previousBlobs>>

\* os.WriteFile fails, to open the file or while it is writing.
CloseFails ==
  /\ st = "saving" \/ (st = "open" /\ MustSave)
  /\ st' = "saved"
  /\ UNCHANGED <<options, blobs, previousBlobs, dirty, disk>>

\* CloseAndDestroy after a Close without error (nothing in the program calls
\* it): the manifest is removed, and the File not used again.
Destroy ==
  /\ st = "saved" /\ options.Writable /\ ~dirty
  /\ disk' = NoFile
  /\ NoProcess

\* The process ends, by itself or killed.
Die ==
  /\ st # "closed"
  /\ NoProcess
  /\ UNCHANGED disk
-----------------------------------------------------------------------------
Next ==
  \/ \E o \in Options : NewMapFile(o) \/ NewMapFileFails(o)
  \/ \E forget \in BOOLEAN : Reset(forget)
  \/ \E u \in Urls : GetBlob(u) \/ RemoveEntry(u)
  \/ \E u \in Urls, info \in BlobInfo : AddBlob(u, info)
  \/ CloseClean \/ CloseTruncates \/ CloseWrites \/ CloseFails
  \/ Destroy \/ Die

Spec == Init /\ [][Next]_vars
-----------------------------------------------------------------------------
(* Properties.                                                             *)

\* A File that is not dirty agrees with the manifest on disk, so save may
\* skip the write (save of lock_file.go: "if no need to write, then don't").
CleanMeansSaved == MutexFree /\ ~dirty => disk = blobs

\* Unless overwriting was asked for, an entry of the open File never changes
\* its hash or headers, whatever is looked up, added, reset or saved
\* (internalAddBlob of lock_file.go).
EntryNeverChanges ==
  [][\A u \in Urls :
       st # "closed" /\ st' # "closed" /\ ~options.AllowOverwrite
         /\ blobs[u] # None /\ blobs'[u] # None => blobs'[u] = blobs[u]]_vars
=============================================================================
