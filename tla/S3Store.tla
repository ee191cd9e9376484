------------------------------ MODULE S3Store ------------------------------
(***************************************************************************)
(* The blob store kept in an S3 bucket (blobstore/s3store/s3_store.go).    *)
(* A body is collected in a temporary file of the machine and hashed on    *)
(* the way; Commit uploads the file under the name of the hash and then    *)
(* removes it.                                                             *)
(*                                                                         *)
(* S3 is external: PutObject replaces an object as a whole or not at all,  *)
(* and one that reports an error may still have been carried out.          *)
(***************************************************************************)
EXTENDS StoreConstants

VARIABLES
  objects,    \* the bucket, as records [name, data]
  tmpdir,     \* tmpdir[n]: content of temporary file n, None if there is none
  tbu,        \* tbu[b]: the tbUploaded behind handle b
  left        \* history: temporary files whose owner can not remove them

vars == <<objects, tmpdir, tbu, left>>

TbUploaded == [st : {"none", "open", "failed", "uploaded", "committed"},
               f : TempNames \cup {None}, h : Seq(Bytes)]

\* Every variable has its type.
TypeOK ==
  /\ objects \subseteq [name : Seq(Bytes), data : Seq(Bytes)]
  /\ tmpdir \in [TempNames -> Seq(Bytes) \cup {None}]
  /\ tbu \in [Writers -> TbUploaded]
  /\ left \subseteq TempNames

Handle(state, file, hash) == [st |-> state, f |-> file, h |-> hash]
NoHandle == Handle("none", None, <<>>)

Init ==
  /\ objects = {}
  /\ tmpdir = [n \in TempNames |-> None]
  /\ tbu = [b \in Writers |-> NoHandle]
  /\ left = {}

Keys == {o.name : o \in objects}
PresentTemps == {n \in TempNames : tmpdir[n] # None}
-----------------------------------------------------------------------------
\* HeadObject tells 404 from other errors.  GetObject does not: what is
\* missing is reported as an error like any other.
Exists(k) == {k \in Keys}
Get(k) == {o.data : o \in {p \in objects : p.name = k}}

\* Put, of any store: the writable flag does not reach this one.
Put(b, n) ==
  /\ tbu[b].st = "none"
  /\ tmpdir[n] = None
  /\ \A c \in Writers : tbu[c].f # n
  /\ tmpdir' = [tmpdir EXCEPT ![n] = <<>>]
  /\ tbu' = [tbu EXCEPT ![b] = Handle("open", n, <<>>)]
  /\ UNCHANGED <<objects, left>>

\* The MultiWriter writes the file, then the hash.
Write(b, p) ==
  /\ tbu[b].st = "open"
  /\ Len(tbu[b].h \o p) <= MaxLen
  /\ tmpdir' = [tmpdir EXCEPT ![tbu[b].f] = @ \o p]
  /\ tbu' = [tbu EXCEPT ![b].h = @ \o p]
  /\ UNCHANGED <<objects, left>>

\* A plausible bug: the handle stays usable after a short write.
WriteFailsSilently(b, p) ==
  /\ tbu[b].st = "open"
  /\ Len(tbu[b].h \o p) <= MaxLen
  /\ \E k \in 0 .. Len(p) - 1 :
       tmpdir' = [tmpdir EXCEPT ![tbu[b].f] = @ \o SubSeq(p, 1, k)]
  /\ UNCHANGED <<objects, tbu, left>>

\* The file takes a proper prefix of p, and the hash gets none of it.
WriteFails(b, p) ==
  /\ tbu[b].st = "open"
  /\ Len(tbu[b].h \o p) <= MaxLen
  /\ \E k \in 0 .. Len(p) - 1 :
       tmpdir' = [tmpdir EXCEPT ![tbu[b].f] = @ \o SubSeq(p, 1, k)]
  /\ tbu' = [tbu EXCEPT ![b].st = "failed"]
  /\ UNCHANGED <<objects, left>>

\* A plausible bug: Commit reports the upload of a blob it did not make.
CommitSkipsUpload(b) ==
  /\ tbu[b].st = "open"
  /\ tbu' = [tbu EXCEPT ![b].st = "uploaded"]
  /\ UNCHANGED <<objects, tmpdir, left>>

\* Commit: Seek to the start, then PutObject sends the whole file, and has
\* been carried out.
CommitUpload(b) ==
  /\ tbu[b].st = "open"
  /\ objects' = {o \in objects : o.name # tbu[b].h}
                  \cup {[name |-> tbu[b].h, data |-> tmpdir[tbu[b].f]]}
  /\ tbu' = [tbu EXCEPT ![b].st = "uploaded"]
  /\ UNCHANGED <<tmpdir, left>>

\* The rest of Commit: its own Cleanup succeeds, and the hash is returned.
CommitReturns(b) ==
  /\ tbu[b].st = "uploaded"
  /\ tmpdir' = [tmpdir EXCEPT ![tbu[b].f] = None]
  /\ tbu' = [tbu EXCEPT ![b] = Handle("committed", None, @.h)]
  /\ UNCHANGED <<objects, left>>

\* Commit fails: Seek or PutObject fails (carried out or not), or the file
\* cannot be removed although the object is there.
CommitFails(b) ==
  /\ tbu[b].st \in {"open", "uploaded"}
  /\ tbu' = [tbu EXCEPT ![b].st = "failed"]
  /\ UNCHANGED <<objects, tmpdir, left>>

\* A plausible bug: Cleanup closes the file and does not remove it.
CleanupKeepsTemp(b) ==
  /\ tbu[b].st \in {"open", "failed", "committed"}
  /\ tbu' = [tbu EXCEPT ![b] = NoHandle]
  /\ UNCHANGED <<objects, tmpdir, left>>

\* Cleanup, deferred by every caller: removes the file if there is one still.
Cleanup(b) ==
  /\ tbu[b].st \in {"open", "failed", "committed"}
  /\ tbu' = [tbu EXCEPT ![b] = NoHandle]
  /\ tmpdir' = [n \in TempNames |-> IF n = tbu[b].f THEN None ELSE tmpdir[n]]
  /\ UNCHANGED <<objects, left>>

\* os.Remove fails, and the callers drop the error; or the process dies.
Lose(b) ==
  /\ tbu[b].st # "none"
  /\ tbu' = [tbu EXCEPT ![b] = NoHandle]
  /\ left' = left \cup ({tbu[b].f} \cap PresentTemps)
  /\ UNCHANGED <<objects, tmpdir>>

\* The system clears a file nobody uses out of its temporary directory.
Expire(n) ==
  /\ n \in left
  /\ tmpdir' = [tmpdir EXCEPT ![n] = None]
  /\ left' = left \ {n}
  /\ UNCHANGED <<objects, tbu>>
-----------------------------------------------------------------------------
Next ==
  \/ \E b \in Writers :
       \/ \E n \in TempNames : Put(b, n)
       \/ \E p \in Payloads : Write(b, p) \/ WriteFails(b, p)
       \/ CommitUpload(b) \/ CommitReturns(b) \/ CommitFails(b)
       \/ Cleanup(b) \/ Lose(b)
  \/ \E n \in TempNames : Expire(n)

Spec == Init /\ [][Next]_vars
-----------------------------------------------------------------------------
(* Properties.                                                             *)

\* What GetObject returns for a hash is the content that hashes to it, and
\* nothing else: the file a Commit uploads is the one the hash was computed
\* from, whatever failed before (Write, Commit).
ContentAddressed == \A o \in objects : Get(o.name) = {o.name}

\* A temporary file has one handle that will remove it, except where os.Remove
\* failed or the process died (Commit, Cleanup).
TempsOwned ==
  \A n \in PresentTemps \ left : \E b \in Writers :
    tbu[b].f = n /\ \A c \in Writers : tbu[c].f = n => c = b

\* The abstract handle: committed from the moment S3 has the object.
Blob(b) ==
  CASE tbu[b].st = "open" -> [st |-> "open", data |-> tbu[b].h]
    [] tbu[b].st \in {"uploaded", "committed"} ->
         [st |-> "committed", data |-> tbu[b].h]
    [] OTHER -> [st |-> "idle", data |-> <<>>]

Abstract == INSTANCE BlobStore WITH
  stored <- Keys, blob <- [b \in Writers |-> Blob(b)]

\* A Commit makes exactly the written bytes readable, in one step, even if it
\* then fails to remove its file, and no other operation adds a blob.
ImplementsBlobStore == Abstract!Init /\ [][Abstract!Next]_(Abstract!vars)
=============================================================================
