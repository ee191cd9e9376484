------------------------------- MODULE Export -------------------------------
(***************************************************************************)
(* htvend export (htvend/command_export.go): every blob the manifest names *)
(* is copied from one blob store to another, each in a task of a           *)
(* MultiTasker.  The destination is any store that implements BlobStore,   *)
(* and other commands may write to it at the same time.  The source may    *)
(* have lost or damaged blobs.  The command may be killed and run again.   *)
(***************************************************************************)
EXTENDS Naturals, Sequences

CONSTANTS
  Bytes,     \* as in BlobStore
  Hashes,    \* the blobs a manifest may name; as there, a hash and its bytes are one
  None       \* no blob

VARIABLES
  caller, task, result, open, rvErr,   \* the MultiTasker
  stored, blob,    \* the destination
  src,       \* src[h]: what the source has under hash h, or None
  needed,    \* neededCanonShas, from the manifest
  step,      \* step[h]: where ensureBlobExported is in its task
  ioFailed   \* history: has an operation on a store failed by itself?

MT == INSTANCE MultiTasker WITH Tasks <- Hashes
Dst == INSTANCE BlobStore WITH Writers <- Hashes, Payloads <- {<<x>> : x \in Bytes}

ASSUME ExportAssumption == Hashes \subseteq Seq(Bytes) /\ None \notin Seq(Bytes)

mtVars == <<caller, task, result, open, rvErr>>
vars == <<mtVars, stored, blob, src, needed, step, ioFailed>>

\* Every variable has its type.
TypeOK ==
  /\ MT!TypeOK /\ Dst!TypeOK
  /\ src \in [Hashes -> Hashes \cup {None}]
  /\ needed \subseteq Hashes
  /\ step \in [Hashes -> {"exists", "get", "put", "copy", "check"}]
  /\ ioFailed \in BOOLEAN

Init ==
  /\ MT!Init
  /\ stored = {} /\ blob = [h \in Hashes |-> Dst!Idle]
  /\ src \in [Hashes -> Hashes \cup {None}]
  /\ needed \in SUBSET Hashes
  /\ step = [h \in Hashes |-> "exists"]
  /\ ioFailed = FALSE
-----------------------------------------------------------------------------
(* ensureBlobExported, in the task of h.                                   *)

Goes(h, from, to) ==
  /\ task[h] = "running" /\ step[h] = from
  /\ step' = [step EXCEPT ![h] = to]

Returns(h, r) ==
  /\ MT!FunctionReturns(h, r)
  /\ step' = [step EXCEPT ![h] = "exists"]

Exists(h) ==
  /\ step[h] = "exists"
  /\ IF h \in stored THEN Returns(h, "ok")
                     ELSE Goes(h, "exists", "get") /\ UNCHANGED mtVars
  /\ UNCHANGED <<stored, blob, src, needed, ioFailed>>

Get(h) ==
  /\ step[h] = "get"
  /\ IF src[h] = None THEN Returns(h, "error")
                      ELSE Goes(h, "get", "put") /\ UNCHANGED mtVars
  /\ UNCHANGED <<stored, blob, src, needed, ioFailed>>

Put(h) ==
  /\ Goes(h, "put", "copy")
  /\ Dst!Put(h)
  /\ UNCHANGED <<mtVars, src, needed, ioFailed>>

\* io.Copy, a buffer at a time.
Copy(h) ==
  /\ Goes(h, "copy", "copy")
  /\ Len(blob[h].data) < Len(src[h])
  /\ Dst!Write(h, <<src[h][Len(blob[h].data) + 1]>>)
  /\ UNCHANGED <<mtVars, src, needed, ioFailed>>

\* A plausible bug: a copy that ends early is committed.
CommitShort(h) ==
  /\ Goes(h, "copy", "check")
  /\ Dst!Commit(h)
  /\ UNCHANGED <<mtVars, src, needed, ioFailed>>

Commit(h) ==
  /\ Goes(h, "copy", "check")
  /\ blob[h].data = src[h]
  /\ Dst!Commit(h)
  /\ UNCHANGED <<mtVars, src, needed, ioFailed>>

\* A plausible bug: the hash of what was copied is not looked at.
CheckSkipped(h) ==
  /\ step[h] = "check"
  /\ Returns(h, "ok")
  /\ Dst!Release(h)
  /\ UNCHANGED <<src, needed, ioFailed>>

\* The hash is compared, and the deferred Cleanup runs.
Check(h) ==
  /\ step[h] = "check"
  /\ Returns(h, IF blob[h].data = h THEN "ok" ELSE "error")
  /\ Dst!Release(h)
  /\ UNCHANGED <<src, needed, ioFailed>>

\* An operation on one of the stores fails; the deferred Cleanup runs if there
\* is a handle.
Fails(h) ==
  /\ Returns(h, "error")
  /\ ioFailed' = TRUE
  /\ IF blob[h].st = "idle" THEN UNCHANGED <<stored, blob>> ELSE Dst!Release(h)
  /\ UNCHANGED <<src, needed>>

Task(h) == Exists(h) \/ Get(h) \/ Put(h) \/ Copy(h) \/ Commit(h) \/ Check(h) \/ Fails(h)
-----------------------------------------------------------------------------
(* Execute.                                                                *)

Queue(h) ==
  /\ h \in needed
  /\ MT!Queue(h)
  /\ UNCHANGED <<stored, blob, src, needed, step, ioFailed>>

Wait ==
  /\ \A h \in needed : task[h] # "none"
  /\ MT!Wait
  /\ UNCHANGED <<stored, blob, src, needed, step, ioFailed>>

Collect ==
  /\ MT!Step
  /\ UNCHANGED <<stored, blob, src, needed, step, ioFailed>>

\* The process is killed, or has returned, and the command is run again.
Again ==
  /\ caller' = "queueing"
  /\ task' = [h \in Hashes |-> "none"] /\ result' = [h \in Hashes |-> "none"]
  /\ open' = TRUE /\ rvErr' = FALSE /\ ioFailed' = FALSE
  /\ step' = [h \in Hashes |-> "exists"]
  /\ blob' = [h \in Hashes |-> Dst!Idle]
  /\ UNCHANGED <<stored, src, needed>>

\* Another command commits a blob to the destination.
OtherStores(h) ==
  /\ h \notin stored
  /\ stored' = stored \cup {h}
  /\ UNCHANGED <<mtVars, blob, src, needed, step, ioFailed>>

Next ==
  \/ \E h \in Hashes : Queue(h) \/ Task(h) \/ OtherStores(h)
  \/ Wait \/ Collect \/ Again

Spec == Init /\ [][Next]_vars

\* Goroutines run.  Nothing is assumed of the stores but that every operation
\* ends, with or without an error.
FairSpec ==
  /\ Spec
  /\ WF_vars(Collect) /\ WF_vars(Wait)
  /\ \A h \in Hashes : WF_vars(Task(h)) /\ WF_vars(Queue(h))
-----------------------------------------------------------------------------
(* Properties.                                                             *)

\* When export returns without an error, the destination has every blob the
\* manifest names, whatever other commands did there and however often it was
\* killed before (ensureBlobExported, Execute).
ExportComplete == caller = "returned" /\ ~rvErr => needed \subseteq stored

\* It returns an error only for a reason: an operation on a store failed, or
\* the source has lost or damaged a blob that is needed.
ErrorHasReason ==
  caller = "returned" /\ rvErr => ioFailed \/ \E h \in needed : src[h] # h

\* Wait takes every result and no task sends on a closed channel
\* (CollectsAll of MultiTasker).
CollectsAll == MT!CollectsAll

\* Export ends: no task blocks for ever on the channel without a buffer, and
\* the loop of Wait always finds it closed in the end, also without any task.
ExportEnds == caller = "waiting" ~> caller # "waiting"
=============================================================================
