----------------------------- MODULE BlobStore -----------------------------
(***************************************************************************)
(* What every blob store of htvend promises: the interfaces Store and      *)
(* ContentAddressableBlob of blobstore/store.go.                           *)
(*                                                                         *)
(* A blob is named by the SHA-256 of its bytes.  SHA-256 is taken to be    *)
(* injective, so a hash and the byte sequence it names are the same value. *)
(***************************************************************************)
EXTENDS Naturals, Sequences

CONSTANTS
  Bytes,      \* the byte values a body is made of
  Writers,    \* the ContentAddressableBlob handles in use at one time
  Payloads    \* the non-empty byte strings one call of Write may carry

VARIABLES
  stored,     \* the blobs that Get and Exists can find
  blob        \* blob[b]: handle b, with the bytes it has accepted

vars == <<stored, blob>>

Idle == [st |-> "idle", data |-> <<>>]

TypeOK ==
  /\ stored \subseteq Seq(Bytes)
  /\ blob \in [Writers -> [st : {"idle", "open", "committed"}, data : Seq(Bytes)]]

Init ==
  /\ stored \in SUBSET Seq(Bytes)
  /\ blob = [b \in Writers |-> Idle]

\* Put() hands out a fresh handle.
Put(b) ==
  /\ blob[b].st = "idle"
  /\ blob' = [blob EXCEPT ![b] = [st |-> "open", data |-> <<>>]]
  /\ UNCHANGED stored

\* io.Writer: the bytes are accepted as a whole or the handle is lost.
Write(b, p) ==
  /\ blob[b].st = "open"
  /\ blob' = [blob EXCEPT ![b] = [st |-> "open", data |-> blob[b].data \o p]]
  /\ UNCHANGED stored

\* Commit() returns the hash of exactly the bytes written, and in that step
\* the blob becomes readable under that hash.
Commit(b) ==
  /\ blob[b].st = "open"
  /\ stored' = stored \cup {blob[b].data}
  /\ blob' = [blob EXCEPT ![b] = [st |-> "committed", data |-> blob[b].data]]

\* Cleanup(), a failed Write or Commit, or the death of the writer.  Nothing
\* is taken from the store after a Commit, and nothing is added without one.
Release(b) ==
  /\ blob[b].st # "idle"
  /\ blob' = [blob EXCEPT ![b] = Idle]
  /\ UNCHANGED stored

\* A deletion asked for with Destroy() or RemoveExcept() takes blobs away;
\* it never adds or alters one.
Delete(k) ==
  /\ stored' = stored \ {k}
  /\ UNCHANGED blob

Next ==
  \/ \E b \in Writers :
       Put(b) \/ (\E p \in Payloads : Write(b, p)) \/ Commit(b) \/ Release(b)
  \/ \E k \in stored : Delete(k)

Spec == Init /\ [][Next]_vars
=============================================================================
