--------------------------- MODULE RegistryStore ---------------------------
(***************************************************************************)
(* The blob store kept in a container registry                             *)
(* (blobstore/registry/reg_store.go).  A handle is an upload session of    *)
(* the registry: POST opens it, PATCH appends a chunk at an offset, PUT    *)
(* closes it under the digest of everything sent, DELETE gives it up.      *)
(*                                                                         *)
(* The registry is external.  It refuses a chunk whose Content-Range does  *)
(* not start where the session ends and a PUT whose digest is not that of  *)
(* the bytes it holds, and may drop a session at any time.  Requests and   *)
(* answers get lost: a request that failed may have been carried out, in   *)
(* whole or in part, but never after its client has seen the failure.      *)
(***************************************************************************)
EXTENDS StoreConstants

VARIABLES
  registry,   \* the blobs the registry holds
  uploads,    \* uploads[s]: the bytes of session s, None if it is not open
  upload,     \* upload[b]: the blobBeingUploaded behind handle b
  abandoned   \* history: sessions that no handle can close any more

vars == <<registry, uploads, upload, abandoned>>

BlobBeingUploaded ==
  [st : {"none", "open", "failed", "sent", "committed"},
   url : Sessions \cup {None}, digest : Seq(Bytes), bw : Nat]

\* Every variable has its type.
TypeOK ==
  /\ registry \subseteq Seq(Bytes)
  /\ uploads \in [Sessions -> Seq(Bytes) \cup {None}]
  /\ upload \in [Writers -> BlobBeingUploaded]
  /\ abandoned \subseteq Sessions

Handle(state, s, digest, written) ==
  [st |-> state, url |-> s, digest |-> digest, bw |-> written]
NoHandle == Handle("none", None, <<>>, 0)

Init ==
  /\ registry = {}
  /\ uploads = [s \in Sessions |-> None]
  /\ upload = [b \in Writers |-> NoHandle]
  /\ abandoned = {}

Open == {s \in Sessions : uploads[s] # None}
Fresh(s) == uploads[s] = None /\ \A b \in Writers : upload[b].url # s

\* Handle b is given up; a session it leaves open has nobody to close it.
Leave(b) ==
  /\ upload' = [upload EXCEPT ![b] = NoHandle]
  /\ abandoned' = abandoned \cup ({upload[b].url} \cap Open)
  /\ UNCHANGED <<registry, uploads>>
-----------------------------------------------------------------------------
\* HEAD and GET: the answers possible for hash k (404 is told from errors).
Exists(k) == {k \in registry}
Get(k) == IF k \in registry THEN {k} ELSE {None}

\* Put of a writable store: POST is answered 202 with the session's Location.
Put(b, s) ==
  /\ upload[b].st = "none"
  /\ Fresh(s)
  /\ uploads' = [uploads EXCEPT ![s] = <<>>]
  /\ upload' = [upload EXCEPT ![b] = Handle("open", s, <<>>, 0)]
  /\ UNCHANGED <<registry, abandoned>>

\* Put fails although the registry has opened a session: the answer is lost
\* or has no Location.  There is no handle, so nobody will give it up.
PutFails(s) ==
  /\ Fresh(s)
  /\ uploads' = [uploads EXCEPT ![s] = <<>>]
  /\ abandoned' = abandoned \cup {s}
  /\ UNCHANGED <<registry, upload>>

\* The session of b takes the first n bytes of p at offset bw.
Patch(b, p, n) ==
  /\ uploads[upload[b].url] # None
  /\ Len(uploads[upload[b].url]) = upload[b].bw
  /\ uploads' = [uploads EXCEPT ![upload[b].url] = @ \o SubSeq(p, 1, n)]

\* Write of a non-empty p (an empty one returns at once): the PATCH is
\* answered 202, and the tee has put all of p into the digest.
Write(b, p) ==
  /\ upload[b].st = "open"
  /\ Len(upload[b].digest \o p) <= MaxLen
  /\ Patch(b, p, Len(p))
  /\ upload' = [upload EXCEPT ![b] =
       Handle("open", @.url, @.digest \o p, @.bw + Len(p))]
  /\ UNCHANGED <<registry, abandoned>>

\* A plausible bug: Write reports success without looking at the answer.
WriteFailsSilently(b, p) ==
  /\ upload[b].st = "open"
  /\ Len(upload[b].digest \o p) <= MaxLen
  /\ upload' = [upload EXCEPT ![b] =
       Handle("open", @.url, @.digest \o p, @.bw + Len(p))]
  /\ UNCHANGED <<registry, uploads, abandoned>>

\* Write fails: the transport has read some of p through the tee, so it is in
\* the digest, and the registry has taken some of that or nothing.  The body
\* cannot be rewound, so the client does not retry, and bw stays.
WriteFails(b, p) ==
  /\ upload[b].st = "open"
  /\ Len(upload[b].digest \o p) <= MaxLen
  /\ \E read \in 0 .. Len(p) :
       /\ upload' = [upload EXCEPT ![b] =
            Handle("failed", @.url, @.digest \o SubSeq(p, 1, read), @.bw)]
       /\ \/ \E n \in 0 .. read : Patch(b, p, n)
          \/ UNCHANGED uploads
  /\ UNCHANGED <<registry, abandoned>>

\* Commit: the registry carries out the PUT.  The digest it is given names
\* the bytes of the session, or it refuses (CommitFails).
CommitPut(b) ==
  /\ upload[b].st = "open"
  /\ uploads[upload[b].url] = upload[b].digest
  /\ registry' = registry \cup {upload[b].digest}
  /\ uploads' = [uploads EXCEPT ![upload[b].url] = None]
  /\ upload' = [upload EXCEPT ![b].st = "sent"]
  /\ UNCHANGED abandoned

\* A plausible bug: Commit does not look at the status of the answer.
CommitIgnoresStatus(b) ==
  /\ upload[b].st \in {"open", "sent"}
  /\ upload' = [upload EXCEPT ![b].st = "committed"]
  /\ UNCHANGED <<registry, uploads, abandoned>>

\* Its answer, 201, arrives: Commit returns the digest and the handle is done.
CommitReturns(b) ==
  /\ upload[b].st = "sent"
  /\ upload' = [upload EXCEPT ![b].st = "committed"]
  /\ UNCHANGED <<registry, uploads, abandoned>>

\* Commit fails, before the registry carried out the PUT or after it.
CommitFails(b) ==
  /\ upload[b].st \in {"open", "sent"}
  /\ upload' = [upload EXCEPT ![b].st = "failed"]
  /\ UNCHANGED <<registry, uploads, abandoned>>

\* A plausible bug: Cleanup does nothing once a Write has failed.
CleanupAfterSuccess(b) ==
  /\ upload[b].st \in {"open", "failed", "committed"}
  /\ upload' = [upload EXCEPT ![b] = NoHandle]
  /\ uploads' = IF upload[b].st = "open"
                  THEN [uploads EXCEPT ![upload[b].url] = None] ELSE uploads
  /\ UNCHANGED <<registry, abandoned>>

\* Cleanup, deferred by every caller: nothing to do after a Commit that
\* returned, else DELETE ends the session.
Cleanup(b) ==
  /\ upload[b].st \in {"open", "failed", "committed"}
  /\ upload' = [upload EXCEPT ![b] = NoHandle]
  /\ uploads' = IF upload[b].st = "committed" THEN uploads
                ELSE [uploads EXCEPT ![upload[b].url] = None]
  /\ UNCHANGED <<registry, abandoned>>

\* The DELETE fails, and the callers drop the error and the handle.
CleanupFails(b) == upload[b].st \in {"open", "failed"} /\ Leave(b)

\* The process that owns the handle dies.
Crash(b) == upload[b].st # "none" /\ Leave(b)

\* The registry drops a session.
Expire(s) ==
  /\ uploads[s] # None
  /\ uploads' = [uploads EXCEPT ![s] = None]
  /\ abandoned' = abandoned \ {s}
  /\ UNCHANGED <<registry, upload>>
-----------------------------------------------------------------------------
Next ==
  \/ \E b \in Writers :
       \/ \E s \in Sessions : Put(b, s)
       \/ \E p \in Payloads : Write(b, p) \/ WriteFails(b, p)
       \/ CommitPut(b) \/ CommitReturns(b) \/ CommitFails(b)
       \/ Cleanup(b) \/ CleanupFails(b) \/ Crash(b)
  \/ \E s \in Sessions : PutFails(s) \/ Expire(s)

Spec == Init /\ [][Next]_vars
-----------------------------------------------------------------------------
(* Properties.                                                             *)

\* As long as no request of a handle has failed, the session, if the registry
\* still has it, holds exactly the bytes the digest was computed from, and bw
\* is where it ends: only then can the next PATCH and the final PUT be
\* accepted (Write and Commit).
SessionMatchesDigest ==
  \A b \in Writers :
    upload[b].st = "open" /\ uploads[upload[b].url] # None =>
      /\ uploads[upload[b].url] = upload[b].digest
      /\ upload[b].bw = Len(upload[b].digest)

\* A session that stays open has a handle that will give it up, and only one,
\* except where Put or Cleanup failed or the process died (Put, Cleanup).
SessionsOwned ==
  \A s \in Open \ abandoned : \E b \in Writers :
    upload[b].url = s /\ \A c \in Writers : upload[c].url = s => c = b

\* The abstract handle: committed from the moment the registry has stored the
\* blob, whether or not the caller gets to know.
Blob(b) ==
  CASE upload[b].st = "open" -> [st |-> "open", data |-> upload[b].digest]
    [] upload[b].st \in {"sent", "committed"} ->
         [st |-> "committed", data |-> upload[b].digest]
    [] OTHER -> [st |-> "idle", data |-> <<>>]

Abstract == INSTANCE BlobStore WITH
  stored <- registry, blob <- [b \in Writers |-> Blob(b)]

\* A Commit makes exactly the written bytes readable, in one step, even if its
\* answer is lost, and nothing else changes what the store holds.
ImplementsBlobStore == Abstract!Init /\ [][Abstract!Next]_(Abstract!vars)
=============================================================================
