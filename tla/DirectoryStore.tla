--------------------------- MODULE DirectoryStore ---------------------------
(***************************************************************************)
(* The default blob store: a directory of files named by the SHA-256 of    *)
(* their content (blobstore/directory/directory_store.go), filled through  *)
(* temporary files that are renamed into place when they are complete      *)
(* (blobstore/directory/caf/caf.go).                                       *)
(*                                                                         *)
(* Any number of htvend processes share one directory (by default it is    *)
(* ${XDG_DATA_HOME}/htvend/cache/blobs for all of them), so a step here is *)
(* one system call and handles of different processes interleave.  Every   *)
(* system call may fail, and the process that owns a handle may die.       *)
(***************************************************************************)
EXTENDS StoreConstants

VARIABLES
  files,    \* the blobs in the directory, as records [name, data]
  temps,    \* temps[n]: content of temporary file n, None if there is none
  caf,      \* caf[b]: the ContentAddressableFile behind handle b
  sweep,    \* the RemoveExcept or Destroy in progress
  leaked    \* history: temporary files whose owner can no longer remove them

vars == <<files, temps, caf, sweep, leaked>>

Handle == [st : {"none", "writing", "closing", "failed", "committed"},
           tf : TempNames \cup {None},
           dg : Seq(Bytes)]

Sweep == [kind : {"none", "except", "all"},
          blobs : SUBSET Seq(Bytes),
          temps : SUBSET TempNames]

\* Every variable has its type.
TypeOK ==
  /\ files \subseteq [name : Seq(Bytes), data : Seq(Bytes)]
  /\ temps \in [TempNames -> Seq(Bytes) \cup {None}]
  /\ caf \in [Writers -> Handle]
  /\ sweep \in Sweep
  /\ leaked \subseteq TempNames

CAF(state, file, digest) == [st |-> state, tf |-> file, dg |-> digest]
Fresh(state) == CAF(state, None, <<>>)
Listed(B, T) == [kind |-> "except", blobs |-> B, temps |-> T]
NoList(what) == [kind |-> what, blobs |-> {}, temps |-> {}]

Init ==
  /\ files = {}
  /\ temps = [n \in TempNames |-> None]
  /\ caf = [b \in Writers |-> Fresh("none")]
  /\ sweep = NoList("none")
  /\ leaked = {}

-----------------------------------------------------------------------------
(* Reading: Get and Exists look at the file whose name is the hash.        *)

Exists(k) == \E f \in files : f.name = k
Get(k) == {f.data : f \in {g \in files : g.name = k}}
-----------------------------------------------------------------------------
(* Writing one blob.                                                       *)

\* DirectoryStore.Put of a writable store (a read-only one answers with an
\* error, as do its RemoveExcept and Destroy, and nothing happens).
Put(b) ==
  /\ caf[b].st = "none"
  /\ caf' = [caf EXCEPT ![b] = Fresh("writing")]
  /\ UNCHANGED <<files, temps, sweep, leaked>>

\* The head of writeAlways: the temporary file is made on first use, under a
\* name that no file and no other handle has.
TempFor(b, n) ==
  IF caf[b].tf = None
    THEN temps[n] = None /\ \A c \in Writers : caf[c].tf # n
    ELSE n = caf[b].tf

\* p appended to the temporary file n of handle b.  If a sweep has unlinked
\* it the bytes go to a file that no longer has a name.
TempWritten(b, n, p) ==
  IF temps[n] # None THEN [temps EXCEPT ![n] = @ \o p]
  ELSE IF caf[b].tf = None THEN [temps EXCEPT ![n] = p]
  ELSE temps

\* Write of a non-empty p that succeeds (an empty one returns at once): the
\* MultiWriter writes the file, then the digest.
Write(b, p) ==
  /\ caf[b].st = "writing"
  /\ Len(caf[b].dg \o p) <= MaxLen
  /\ \E n \in TempNames :
       /\ TempFor(b, n)
       /\ temps' = TempWritten(b, n, p)
       /\ caf' = [caf EXCEPT ![b] = CAF("writing", n, caf[b].dg \o p)]
  /\ UNCHANGED <<files, sweep, leaked>>

\* A plausible bug: the error of a short write is dropped, and the handle
\* can still be committed.
WriteFailsSilently(b, p) ==
  /\ caf[b].st = "writing"
  /\ Len(caf[b].dg \o p) <= MaxLen
  /\ \E n \in TempNames, k \in 0 .. Len(p) - 1 :
       /\ TempFor(b, n)
       /\ temps' = TempWritten(b, n, SubSeq(p, 1, k))
       /\ caf' = [caf EXCEPT ![b] = CAF("writing", n, caf[b].dg \o p)]
  /\ UNCHANGED <<files, sweep, leaked>>

\* Write fails: the temporary file cannot be made, or it takes only a proper
\* prefix of p and the MultiWriter stops before the digest.  Every caller
\* then returns, which runs its deferred Cleanup.
WriteFails(b, p) ==
  /\ caf[b].st = "writing"
  /\ Len(caf[b].dg \o p) <= MaxLen
  /\ \/ /\ caf[b].tf = None
        /\ caf' = [caf EXCEPT ![b] = CAF("failed", caf[b].tf, caf[b].dg)]
        /\ UNCHANGED temps
     \/ \E n \in TempNames, k \in 0 .. Len(p) - 1 :
          /\ TempFor(b, n)
          /\ temps' = TempWritten(b, n, SubSeq(p, 1, k))
          /\ caf' = [caf EXCEPT ![b] = CAF("failed", n, caf[b].dg)]
     /\ UNCHANGED <<files, sweep, leaked>>

\* Commit up to Close: a body of no bytes gets its temporary file only now.
CommitClose(b) ==
  /\ caf[b].st = "writing"
  /\ \E n \in TempNames :
       /\ TempFor(b, n)
       /\ temps' = TempWritten(b, n, <<>>)
       /\ caf' = [caf EXCEPT ![b] = CAF("closing", n, caf[b].dg)]
  /\ UNCHANGED <<files, sweep, leaked>>

\* A plausible bug: Commit reports success when the rename finds no file.
CommitIgnoresRename(b) ==
  /\ caf[b].st = "closing"
  /\ files' = {f \in files : f.name # caf[b].dg}
                \cup {[name |-> caf[b].dg, data |-> temps[n]] :
                        n \in {m \in {caf[b].tf} : temps[m] # None}}
  /\ temps' = [temps EXCEPT ![caf[b].tf] = None]
  /\ caf' = [caf EXCEPT ![b] = CAF("committed", None, caf[b].dg)]
  /\ UNCHANGED <<sweep, leaked>>

\* A plausible bug: Commit publishes a temporary file that is gone.
CommitUnguarded(b) ==
  /\ caf[b].st = "closing"
  /\ files' = {f \in files : f.name # caf[b].dg}
                \cup {[name |-> caf[b].dg, data |-> temps[caf[b].tf]]}
  /\ temps' = [temps EXCEPT ![caf[b].tf] = None]
  /\ caf' = [caf EXCEPT ![b] = CAF("committed", None, caf[b].dg)]
  /\ UNCHANGED <<sweep, leaked>>

\* Commit from Close to its end: the rename gives the temporary file the name
\* of the digest, replacing a file that has that name already.  The caller
\* gets the digest, which dg keeps here (in the code it is the return value).
CommitRename(b) ==
  /\ caf[b].st = "closing"
  /\ temps[caf[b].tf] # None
  /\ files' = {f \in files : f.name # caf[b].dg}
                \cup {[name |-> caf[b].dg, data |-> temps[caf[b].tf]]}
  /\ temps' = [temps EXCEPT ![caf[b].tf] = None]
  /\ caf' = [caf EXCEPT ![b] = CAF("committed", None, caf[b].dg)]
  /\ UNCHANGED <<sweep, leaked>>

\* Commit returns an error: no temporary file for an empty body, Close or
\* MkdirAll fails, or the rename does (always, if a sweep took the file).
CommitFails(b) ==
  /\ caf[b].st \in {"writing", "closing"}
  /\ caf' = [caf EXCEPT ![b] = CAF("failed", caf[b].tf, caf[b].dg)]
  /\ UNCHANGED <<files, temps, sweep, leaked>>

\* A plausible bug: Cleanup closes the temporary file but does not remove it.
CleanupKeepsTemp(b) ==
  /\ caf[b].st \in {"writing", "failed", "committed"}
  /\ caf' = [caf EXCEPT ![b] = Fresh("none")]
  /\ UNCHANGED <<files, temps, sweep, leaked>>

\* Cleanup, deferred by every caller: removes the temporary file if there is
\* one, and reports success even when os.Remove fails.
Cleanup(b) ==
  /\ caf[b].st \in {"writing", "failed", "committed"}
  /\ caf' = [caf EXCEPT ![b] = Fresh("none")]
  /\ \/ temps' = [n \in TempNames |-> IF n = caf[b].tf THEN None ELSE temps[n]]
        /\ UNCHANGED leaked
     \/ caf[b].tf # None /\ temps[caf[b].tf] # None
        /\ leaked' = leaked \cup {caf[b].tf}
        /\ UNCHANGED temps
  /\ UNCHANGED <<files, sweep>>

\* The process that owns the handle dies between two system calls.
Crash(b) ==
  /\ caf[b].st # "none"
  /\ caf' = [caf EXCEPT ![b] = Fresh("none")]
  /\ leaked' = leaked \cup {n \in TempNames : n = caf[b].tf /\ temps[n] # None}
  /\ UNCHANGED <<files, temps, sweep>>
-----------------------------------------------------------------------------
(* Deleting.                                                               *)

BlobNames == {f.name : f \in files}
PresentTemps == {n \in TempNames : temps[n] # None}

Unlink(blobNames, tempNames) ==
  /\ files' = {f \in files : f.name \notin blobNames}
  /\ temps' = [n \in TempNames |-> IF n \in tempNames THEN None ELSE temps[n]]
  /\ leaked' = leaked \ tempNames
  /\ UNCHANGED caf

\* RemoveExcept and Destroy are operations of the Store interface that none of
\* htvend's commands calls.  RemoveExcept lists the directory: keep holds
\* hashes, so every temporary file, of whatever process, is on the list.
RemoveExcept(keep) ==
  /\ sweep.kind = "none"
  /\ sweep' = Listed(BlobNames \ keep, PresentTemps)
  /\ UNCHANGED <<files, temps, caf, leaked>>

\* One turn of its loop.  ReadDir sorts by name, and hashes (0-9a-f) come
\* before the names that begin with "tmp".
RemoveListed ==
  /\ sweep.kind = "except"
  /\ \/ \E k \in sweep.blobs :
          /\ k \in BlobNames
          /\ sweep' = Listed(sweep.blobs \ {k}, sweep.temps)
          /\ Unlink({k}, {})
     \/ /\ sweep.blobs = {}
        /\ \E n \in sweep.temps :
             /\ temps[n] # None
             /\ sweep' = Listed({}, sweep.temps \ {n})
             /\ Unlink({}, {n})

\* The loop ends: the list is done, or os.Remove failed (as it does for an
\* entry that is gone by now) and the rest of the list is left.
RemoveExceptReturns ==
  /\ sweep.kind = "except"
  /\ sweep' = NoList("none")
  /\ UNCHANGED <<files, temps, caf, leaked>>

\* Destroy: os.RemoveAll unlinks what it finds, one entry at a time.
Destroy ==
  /\ sweep.kind = "none"
  /\ sweep' = NoList("all")
  /\ UNCHANGED <<files, temps, caf, leaked>>

DestroyEntry ==
  /\ sweep.kind = "all"
  /\ \/ \E k \in BlobNames : Unlink({k}, {})
     \/ \E n \in PresentTemps : Unlink({}, {n})
  /\ UNCHANGED sweep

DestroyReturns ==
  /\ sweep.kind = "all"
  /\ sweep' = NoList("none")
  /\ UNCHANGED <<files, temps, caf, leaked>>
-----------------------------------------------------------------------------
Next ==
  \/ \E b \in Writers :
       \/ Put(b)
       \/ \E p \in Payloads : Write(b, p) \/ WriteFails(b, p)
       \/ CommitClose(b) \/ CommitRename(b) \/ CommitFails(b)
       \/ Cleanup(b) \/ Crash(b)
  \/ \E keep \in SUBSET BlobNames : RemoveExcept(keep)
  \/ RemoveListed \/ RemoveExceptReturns
  \/ Destroy \/ DestroyEntry \/ DestroyReturns

Spec == Init /\ [][Next]_vars
-----------------------------------------------------------------------------
(* Properties.                                                             *)

\* What Get returns for a hash is the content that hashes to it: no torn
\* write, failed commit, crash, or concurrent writer or sweep of the same
\* directory ever puts other bytes under the name (Get of directory_store.go,
\* Commit of caf.go).
ContentAddressed == \A f \in files : Get(f.name) = {f.name}

\* A temporary file always has an owner that will clean it up, except the
\* ones left by a crash or by an os.Remove that failed in Cleanup; so writers
\* never leave partial downloads behind by themselves (Cleanup of caf.go).
TempsOwned ==
  \A n \in PresentTemps : n \in leaked \/ \E b \in Writers : caf[b].tf = n

\* The abstract handle: open from Put on, until it fails, commits, is cleaned
\* up or dies with its process.
Blob(b) ==
  CASE caf[b].st \in {"writing", "closing"} -> [st |-> "open", data |-> caf[b].dg]
    [] caf[b].st = "committed" -> [st |-> "committed", data |-> caf[b].dg]
    [] OTHER -> [st |-> "idle", data |-> <<>>]

Abstract == INSTANCE BlobStore WITH
  stored <- BlobNames, blob <- [b \in Writers |-> Blob(b)]

\* Commit makes exactly the written bytes readable, in one step, and no other
\* operation adds a blob; only Destroy and RemoveExcept take one away.
ImplementsBlobStore == Abstract!Init /\ [][Abstract!Next]_(Abstract!vars)
=============================================================================
