------------------------- MODULE BlobBackendsProofs -------------------------
(***************************************************************************)
(* Proofs about the three blob stores, for any number of writers, of       *)
(* temporary names and of upload sessions, and bodies of any length: what  *)
(* is stored under a hash is the content that hashes to it, nothing a      *)
(* writer opens is left without an owner, and each store implements the    *)
(* abstract one.  Each part has the same shape: what holds of one handle,  *)
(* how the handles exclude each other, one lemma on what a step of one     *)
(* handle has to respect, and the simulation of the abstract store.        *)
(***************************************************************************)
EXTENDS BlobBackends, TLAPS

(* The directory store.                                                    *)

Active(b) == caf[b].st \in {"writing", "closing"}

\* As long as a handle can still be committed, its temporary file, unless a
\* sweep has unlinked it, holds exactly the bytes that were hashed.
TempIsHashed ==
  \A b \in Writers :
    Active(b) /\ caf[b].tf # None =>
      temps[caf[b].tf] \in {None, caf[b].dg}

\* Nothing has been hashed before there is a temporary file, and there is one
\* when Commit comes to the rename and none when the handle is not in use.
TempFirst ==
  \A b \in Writers :
    /\ caf[b].st = "writing" /\ caf[b].tf = None => caf[b].dg = <<>>
    /\ caf[b].st = "closing" => caf[b].tf # None
    /\ caf[b].st = "none" => caf[b].tf = None

\* No two handles share a temporary file.
TempsDistinct ==
  \A b, c \in Writers : caf[b].tf = caf[c].tf /\ caf[b].tf # None => b = c

\* Every file holds the bytes its name is the hash of.
WholeFiles == \A f \in files : f.data = f.name

Inv == TypeOK /\ TempIsHashed /\ TempFirst /\ TempsDistinct /\ WholeFiles

\* An empty directory satisfies the invariant.
LEMMA InitInv == Init => Inv
  BY StoreAssumption DEF Init, Inv, TypeOK, TempIsHashed, TempFirst, TempsDistinct,
     WholeFiles, Active, Fresh, CAF, NoList, Handle, Sweep

\* Every system call of a writer or a sweep keeps it, and so does a crash.
LEMMA StepInv == Inv /\ [Next]_vars => Inv'
<1> SUFFICES ASSUME Inv, [Next]_vars PROVE Inv'
  OBVIOUS
<1> USE StoreAssumption DEF Inv, TypeOK, Handle, Sweep, CAF
<1>1. ASSUME NEW b \in Writers, Put(b) PROVE Inv'
  BY <1>1 DEF Put, Fresh, TempIsHashed, TempFirst, TempsDistinct, WholeFiles, Active
<1>2. ASSUME NEW b \in Writers, NEW p \in Payloads, Write(b, p) PROVE Inv'
  <2>1. PICK n \in TempNames :
          /\ TempFor(b, n)
          /\ temps' = TempWritten(b, n, p)
          /\ caf' = [caf EXCEPT ![b] = CAF("writing", n, caf[b].dg \o p)]
    BY <1>2 DEF Write
  <2>2. p \in Seq(Bytes) /\ <<>> \o p = p /\ caf[b].dg \o p \in Seq(Bytes)
    OBVIOUS
  <2>3. TypeOK'
    BY <1>2, <2>1, <2>2 DEF Write, TempWritten
  <2>4. temps'[n] \in {None, caf[b].dg \o p}
    BY <1>2, <2>1, <2>2 DEF Write, TempFor, TempWritten, TempIsHashed, TempFirst, Active
  <2>5. TempIsHashed'
    <3>1. ASSUME NEW c \in Writers, c # b, caf[c].tf # None
          PROVE  temps'[caf[c].tf] = temps[caf[c].tf]
      BY <2>1, <3>1 DEF TempFor, TempWritten, TempsDistinct
    <3>2. /\ caf'[b].tf = n /\ caf'[b].dg = caf[b].dg \o p
          /\ \A c \in Writers \ {b} : caf'[c] = caf[c]
      BY <2>1
    <3>3. ASSUME NEW c \in Writers, Active(c)', caf'[c].tf # None
          PROVE  temps'[caf'[c].tf] \in {None, caf'[c].dg}
      <4>1. CASE c = b
        BY <2>4, <3>2, <4>1
      <4>2. CASE c # b
        <5>1. caf'[c] = caf[c] /\ Active(c)
          BY <3>2, <3>3, <4>2 DEF Active
        <5> QED
          BY <3>1, <3>3, <4>2, <5>1 DEF TempIsHashed
      <4> QED
        BY <4>1, <4>2
    <3> QED
      BY <3>3 DEF TempIsHashed
  <2> QED
    BY <1>2, <2>1, <2>2, <2>3, <2>5
    DEF Write, TempFor, TempFirst, TempsDistinct, WholeFiles
<1>3. ASSUME NEW b \in Writers, NEW p \in Payloads, WriteFails(b, p) PROVE Inv'
  <2>1. CASE caf' = [caf EXCEPT ![b] = CAF("failed", caf[b].tf, caf[b].dg)] /\ UNCHANGED temps
    BY <1>3, <2>1
    DEF WriteFails, TempIsHashed, TempFirst, TempsDistinct, WholeFiles, Active
  <2>2. ASSUME NEW n \in TempNames, NEW q \in Seq(Bytes), TempFor(b, n),
               temps' = TempWritten(b, n, q),
               caf' = [caf EXCEPT ![b] = CAF("failed", n, caf[b].dg)]
        PROVE  Inv'
    <3>1. TypeOK'
      BY <1>3, <2>2 DEF WriteFails, TempWritten
    <3>2. TempIsHashed'
      BY <1>3, <2>2
      DEF WriteFails, TempFor, TempWritten, TempIsHashed, TempsDistinct, Active
    <3> QED
      BY <1>3, <2>2, <3>1, <3>2
      DEF WriteFails, TempFor, TempFirst, TempsDistinct, WholeFiles
  <2>3. \A k \in 0 .. Len(p) - 1 : SubSeq(p, 1, k) \in Seq(Bytes)
    OBVIOUS
  <2> QED
    BY <1>3, <2>1, <2>2, <2>3 DEF WriteFails
<1>4. ASSUME NEW b \in Writers, CommitClose(b) PROVE Inv'
  <2>1. PICK n \in TempNames : 
          /\ TempFor(b, n)
          /\ temps' = TempWritten(b, n, <<>>)
          /\ caf' = [caf EXCEPT ![b] = CAF("closing", n, caf[b].dg)]
    BY <1>4 DEF CommitClose
  <2>2. \A q \in Seq(Bytes) : q \o <<>> = q
    OBVIOUS
  <2>3. TypeOK'
    BY <1>4, <2>1, <2>2 DEF CommitClose, TempWritten
  <2>4. temps'[n] \in {None, caf[b].dg}
    BY <1>4, <2>1, <2>2
    DEF CommitClose, TempFor, TempWritten, TempIsHashed, TempFirst, Active
  <2>5. TempIsHashed'
    BY <1>4, <2>1, <2>4
    DEF CommitClose, TempFor, TempWritten, TempIsHashed, TempsDistinct, Active
  <2> QED
    BY <1>4, <2>1, <2>3, <2>5
    DEF CommitClose, TempFor, TempFirst, TempsDistinct, WholeFiles
<1>5. ASSUME NEW b \in Writers, CommitRename(b) PROVE Inv'
  BY <1>5 DEF CommitRename, TempIsHashed, TempFirst, TempsDistinct, WholeFiles, Active
<1>6. ASSUME NEW b \in Writers, CommitFails(b) PROVE Inv'
  BY <1>6 DEF CommitFails, TempIsHashed, TempFirst, TempsDistinct, WholeFiles, Active
<1>7. ASSUME NEW b \in Writers, Cleanup(b) PROVE Inv'
  BY <1>7 DEF Cleanup, Fresh, TempIsHashed, TempFirst, TempsDistinct, WholeFiles, Active
<1>8. ASSUME NEW b \in Writers, Crash(b) PROVE Inv'
  BY <1>8 DEF Crash, Fresh, TempIsHashed, TempFirst, TempsDistinct, WholeFiles, Active
<1>9. ASSUME NEW keep, RemoveExcept(keep) PROVE Inv'
  BY <1>9 DEF RemoveExcept, Listed, BlobNames, PresentTemps, TempIsHashed, TempFirst,
     TempsDistinct, WholeFiles, Active
<1>10. ASSUME NEW K, NEW N, Unlink(K, N), sweep' \in Sweep PROVE Inv'
  BY <1>10 DEF Unlink, TempIsHashed, TempFirst, TempsDistinct, WholeFiles, Active
<1>11. CASE RemoveListed \/ DestroyEntry
  <2>1. \E K, N : Unlink(K, N)
    BY <1>11 DEF RemoveListed, DestroyEntry
  <2>2. sweep' \in Sweep
    <3>1. ASSUME NEW B \in SUBSET Seq(Bytes), NEW T \in SUBSET TempNames
          PROVE  Listed(B, T) \in Sweep
      BY DEF Listed
    <3>2. CASE RemoveListed
      <4>1. \E B \in SUBSET Seq(Bytes), T \in SUBSET TempNames : sweep' = Listed(B, T)
        <5>1. ASSUME NEW k, NEW n
              PROVE  /\ sweep.blobs \ {k} \in SUBSET Seq(Bytes)
                     /\ sweep.temps \in SUBSET TempNames
                     /\ sweep.temps \ {n} \in SUBSET TempNames
          OBVIOUS
        <5> HIDE DEF Inv, Listed
        <5> QED
          BY <3>2, <5>1 DEF RemoveListed
      <4>2. PICK B \in SUBSET Seq(Bytes), T \in SUBSET TempNames : sweep' = Listed(B, T)
        BY <4>1
      <4> HIDE DEF Sweep
      <4> QED
        BY <3>1, <4>2
    <3>3. CASE DestroyEntry
      BY <3>3 DEF DestroyEntry
    <3> QED
      BY <1>11, <3>2, <3>3
  <2> QED
    BY <1>10, <2>1, <2>2
<1>12. CASE RemoveExceptReturns \/ Destroy \/ DestroyReturns
  BY <1>12 DEF RemoveExceptReturns, Destroy, DestroyReturns, NoList, TempIsHashed,
     TempFirst, TempsDistinct, WholeFiles, Active
<1>13. CASE UNCHANGED vars
  BY <1>13 DEF vars, TempIsHashed, TempFirst, TempsDistinct, WholeFiles, Active
<1> QED
  BY <1>1, <1>2, <1>3, <1>4, <1>5, <1>6, <1>7, <1>8, <1>9, <1>10, <1>11, <1>12, <1>13 DEF Next
-----------------------------------------------------------------------------
\* The invariant of the directory store is inductive.
THEOREM Invariance == Spec => []Inv
  BY InitInv, StepInv, PTL DEF Spec

\* Every variable of the store keeps its type in every behaviour.
THEOREM TypeCorrect == Spec => []TypeOK
  BY Invariance, PTL DEF Inv

\* For any number of concurrent writers, sweeps, failures and crashes, what Get
\* returns for a hash is exactly the content that hashes to it.
THEOREM StoreIsContentAddressed == Spec => []ContentAddressed
<1>1. Inv => ContentAddressed
  BY DEF Inv, WholeFiles, ContentAddressed, Get
<1> QED
  BY <1>1, Invariance, PTL

\* Writers leave no partial download behind: a temporary file without an owner
\* is one whose process died or whose removal failed in Cleanup.
THEOREM NoStrayTemps == Spec => []TempsOwned
<1>1. Init => TempsOwned
  BY DEF Init, TempsOwned, PresentTemps
<1>2. Inv /\ TempsOwned /\ [Next]_vars => TempsOwned'
  <2> SUFFICES ASSUME Inv, TempsOwned, [Next]_vars PROVE TempsOwned'
    OBVIOUS
  <2> USE StoreAssumption DEF Inv, TypeOK, Handle, CAF, TempsOwned, PresentTemps
  <2>1. ASSUME NEW b \in Writers, Put(b) \/ CommitFails(b) PROVE TempsOwned'
    <3>1. CASE Put(b)
      BY <3>1 DEF Put, Fresh, TempFirst
    <3>2. CASE CommitFails(b)
      BY <3>2 DEF CommitFails
    <3> QED
      BY <2>1, <3>1, <3>2
  <2>2. ASSUME NEW b \in Writers, CommitRename(b) PROVE TempsOwned'
    BY <2>2 DEF CommitRename
  <2>3. ASSUME NEW b \in Writers, Crash(b) PROVE TempsOwned'
    BY <2>3 DEF Crash, Fresh
  <2>4. ASSUME NEW b \in Writers, NEW n \in TempNames, NEW p, NEW s, NEW d,
               TempFor(b, n), temps' = TempWritten(b, n, p),
               caf' = [caf EXCEPT ![b] = CAF(s, n, d)], UNCHANGED leaked
        PROVE  TempsOwned'
    BY <2>4 DEF TempFor, TempWritten
  <2>5. ASSUME NEW b \in Writers,
               \/ CommitClose(b)
               \/ \E p \in Payloads : Write(b, p) \/ WriteFails(b, p)
        PROVE  TempsOwned'
    <3>1. CASE caf' = [caf EXCEPT ![b] = CAF("failed", caf[b].tf, caf[b].dg)]
               /\ UNCHANGED <<temps, leaked>>
      BY <3>1
    <3>2. CASE CommitClose(b)
      <4>1. PICK n \in TempNames :
              /\ TempFor(b, n) /\ temps' = TempWritten(b, n, <<>>)
              /\ caf' = [caf EXCEPT ![b] = CAF("closing", n, caf[b].dg)]
        BY <3>2 DEF CommitClose
      <4> QED
        BY <2>4, <3>2, <4>1 DEF CommitClose
    <3>3. ASSUME NEW p \in Payloads, Write(b, p) PROVE TempsOwned'
      <4>1. PICK n \in TempNames :
              /\ TempFor(b, n) /\ temps' = TempWritten(b, n, p)
              /\ caf' = [caf EXCEPT ![b] = CAF("writing", n, caf[b].dg \o p)]
        BY <3>3 DEF Write
      <4> QED
        BY <2>4, <3>3, <4>1 DEF Write
    <3>4. ASSUME NEW p \in Payloads, WriteFails(b, p) PROVE TempsOwned'
      <4>1. ASSUME NEW n \in TempNames, NEW k \in 0 .. Len(p) - 1, TempFor(b, n),
                   temps' = TempWritten(b, n, SubSeq(p, 1, k)),
                   caf' = [caf EXCEPT ![b] = CAF("failed", n, caf[b].dg)]
            PROVE  TempsOwned'
        BY <2>4, <3>4, <4>1 DEF WriteFails
      <4> QED
        BY <3>1, <3>4, <4>1 DEF WriteFails
    <3> QED
      BY <2>5, <3>2, <3>3, <3>4
  <2>6. ASSUME NEW b \in Writers, Cleanup(b) PROVE TempsOwned'
    BY <2>6 DEF Cleanup, Fresh
  <2>7. ASSUME NEW K, NEW N, Unlink(K, N) PROVE TempsOwned'
    BY <2>7 DEF Unlink
  <2>8. CASE RemoveListed \/ DestroyEntry
    BY <2>7, <2>8 DEF RemoveListed, DestroyEntry
  <2>9. CASE \/ \E keep \in SUBSET BlobNames : RemoveExcept(keep)
             \/ RemoveExceptReturns \/ Destroy \/ DestroyReturns \/ UNCHANGED vars
    BY <2>9 DEF RemoveExcept, RemoveExceptReturns, Destroy, DestroyReturns, vars
  <2> QED
    BY <2>1, <2>2, <2>3, <2>5, <2>6, <2>8, <2>9 DEF Next
<1> QED
  BY <1>1, <1>2, Invariance, PTL DEF Spec
-----------------------------------------------------------------------------
(* The refinement.                                                         *)

AbsBlob == [b \in Writers |-> Blob(b)]

\* A step that changes one handle only changes that handle of the abstract
\* store.
LEMMA OneHandle ==
  ASSUME NEW b \in Writers, NEW h, caf \in [Writers -> Handle],
         caf' = [caf EXCEPT ![b] = h]
  PROVE  AbsBlob' = [AbsBlob EXCEPT ![b] = Blob(b)']
<1>1. \A c \in Writers : c # b => Blob(c)' = Blob(c)
  BY DEF Blob
<1> QED
  BY <1>1 DEF AbsBlob

\* A failing, crashing or finished handle is released there.
LEMMA HandleReleased ==
  ASSUME NEW b \in Writers, TypeOK, caf[b].st \in {"writing", "closing", "committed"},
         NEW h \in Handle, h.st \in {"none", "failed"},
         caf' = [caf EXCEPT ![b] = h], UNCHANGED files
  PROVE  Abstract!Release(b)
<1>1. Blob(b).st # "idle" /\ Blob(b)' = Abstract!Idle
  BY DEF Blob, TypeOK, Handle, Abstract!Idle
<1>2. AbsBlob' = [AbsBlob EXCEPT ![b] = Blob(b)']
  BY OneHandle DEF TypeOK
<1> QED
  BY <1>1, <1>2 DEF Abstract!Release, AbsBlob, BlobNames

\* A handle the abstract store no longer knows changes nothing there.
LEMMA HandleUnseen ==
  ASSUME NEW b \in Writers, TypeOK, caf[b].st \in {"none", "failed"},
         NEW h \in Handle, h.st \in {"none", "failed"},
         caf' = [caf EXCEPT ![b] = h], UNCHANGED files
  PROVE  UNCHANGED Abstract!vars
<1>1. Blob(b)' = Blob(b)
  BY DEF Blob, TypeOK, Handle
<1>2. AbsBlob' = [AbsBlob EXCEPT ![b] = Blob(b)']
  BY OneHandle DEF TypeOK
<1> QED
  BY <1>1, <1>2 DEF Abstract!vars, AbsBlob, BlobNames

\* Unlinking one name deletes at most that blob.
LEMMA UnlinkDeletes ==
  ASSUME NEW K, NEW N, Unlink(K, N), K = {} \/ \E k \in BlobNames : K = {k}
  PROVE  (\E k \in BlobNames : Abstract!Delete(k)) \/ UNCHANGED Abstract!vars
<1>1. AbsBlob' = AbsBlob
  BY DEF Unlink, AbsBlob, Blob
<1>2. BlobNames' = BlobNames \ K
  BY DEF Unlink, BlobNames
<1> QED
  BY <1>1, <1>2 DEF Abstract!Delete, Abstract!vars, AbsBlob

\* Every step of the directory is a step of the abstract store or changes
\* nothing there.
LEMMA StepSimulates == Inv /\ [Next]_vars => [Abstract!Next]_(Abstract!vars)
<1> SUFFICES ASSUME Inv, [Next]_vars
             PROVE  Abstract!Next \/ UNCHANGED Abstract!vars
  OBVIOUS
<1>t. TypeOK /\ caf \in [Writers -> Handle]
  BY DEF Inv, TypeOK
<1> USE StoreAssumption
<1>1. ASSUME NEW b \in Writers, Put(b) PROVE Abstract!Put(b)
  <2>1. AbsBlob' = [AbsBlob EXCEPT ![b] = Blob(b)']
    BY <1>1, <1>t, OneHandle DEF Put
  <2>2. Blob(b).st = "idle" /\ Blob(b)' = [st |-> "open", data |-> <<>>]
    BY <1>1, <1>t DEF Put, Blob, Fresh, CAF
  <2> QED
    BY <1>1, <2>1, <2>2 DEF Put, Abstract!Put, AbsBlob, BlobNames
<1>2. ASSUME NEW b \in Writers, NEW p \in Payloads, Write(b, p)
      PROVE  Abstract!Write(b, p)
  <2>1. PICK n \in TempNames : caf' = [caf EXCEPT ![b] = CAF("writing", n, caf[b].dg \o p)]
    BY <1>2 DEF Write
  <2>2. AbsBlob' = [AbsBlob EXCEPT ![b] = Blob(b)']
    BY <2>1, <1>t, OneHandle
  <2>3. Blob(b) = [st |-> "open", data |-> caf[b].dg]
        /\ Blob(b)' = [st |-> "open", data |-> caf[b].dg \o p]
    BY <1>2, <2>1, <1>t DEF Write, Blob, CAF
  <2>4. AbsBlob[b] = Blob(b)
    BY DEF AbsBlob
  <2>5. AbsBlob[b].st = "open"
        /\ AbsBlob' = [AbsBlob EXCEPT ![b] = [st |-> "open", data |-> AbsBlob[b].data \o p]]
    BY <2>2, <2>3, <2>4
  <2>6. BlobNames' = BlobNames
    BY <1>2 DEF Write, BlobNames
  <2> QED
    BY <2>5, <2>6 DEF Abstract!Write, AbsBlob
<1>3. ASSUME NEW b \in Writers, NEW p \in Payloads, WriteFails(b, p)
      PROVE  Abstract!Release(b)
  <2>1. PICK n \in TempNames \cup {None} :
          caf' = [caf EXCEPT ![b] = CAF("failed", n, caf[b].dg)]
    BY <1>3, <1>t DEF WriteFails, Handle
  <2>2. CAF("failed", n, caf[b].dg) \in Handle /\ CAF("failed", n, caf[b].dg).st = "failed"
    BY <2>1, <1>t DEF CAF, Handle
  <2> QED
    BY <1>3, <2>1, <2>2, <1>t, HandleReleased DEF WriteFails
<1>4. ASSUME NEW b \in Writers, CommitClose(b) PROVE UNCHANGED Abstract!vars
  <2>1. PICK n \in TempNames : caf' = [caf EXCEPT ![b] = CAF("closing", n, caf[b].dg)]
    BY <1>4 DEF CommitClose
  <2>2. AbsBlob' = [AbsBlob EXCEPT ![b] = Blob(b)']
    BY <2>1, <1>t, OneHandle
  <2>3. Blob(b)' = Blob(b)
    BY <1>4, <2>1, <1>t DEF CommitClose, Blob, CAF
  <2> QED
    BY <1>4, <2>2, <2>3 DEF CommitClose, Abstract!vars, AbsBlob, BlobNames
<1>5. ASSUME NEW b \in Writers, CommitRename(b) PROVE Abstract!Commit(b)
  <2>1. AbsBlob' = [AbsBlob EXCEPT ![b] = Blob(b)']
    BY <1>5, <1>t, OneHandle DEF CommitRename
  <2>2. Blob(b) = [st |-> "open", data |-> caf[b].dg]
        /\ Blob(b)' = [st |-> "committed", data |-> caf[b].dg]
    BY <1>5, <1>t DEF CommitRename, Blob, CAF
  <2>3. BlobNames' = BlobNames \cup {caf[b].dg}
    <3>1. PICK d : files' = {f \in files : f.name # caf[b].dg}
                              \cup {[name |-> caf[b].dg, data |-> d]}
      BY <1>5 DEF CommitRename
    <3>2. ASSUME NEW k PROVE k \in BlobNames' <=> k \in BlobNames \cup {caf[b].dg}
      <4>1. [name |-> caf[b].dg, data |-> d].name = caf[b].dg
        OBVIOUS
      <4>2. k \in BlobNames' <=> \E f \in files' : k = f.name
        BY DEF BlobNames
      <4>3. k \in BlobNames <=> \E f \in files : k = f.name
        BY DEF BlobNames
      <4> QED
        BY <3>1, <4>1, <4>2, <4>3
    <3> QED
      BY <3>2
  <2>4. AbsBlob[b] = Blob(b)
    BY DEF AbsBlob
  <2>5. /\ AbsBlob[b].st = "open"
        /\ AbsBlob' = [AbsBlob EXCEPT ![b] = [st |-> "committed", data |-> AbsBlob[b].data]]
        /\ BlobNames' = BlobNames \cup {AbsBlob[b].data}
    BY <2>1, <2>2, <2>3, <2>4
  <2> QED
    BY <2>5 DEF Abstract!Commit, AbsBlob
<1>6. ASSUME NEW b \in Writers, CommitFails(b) PROVE Abstract!Release(b)
  <2>1. LET h == CAF("failed", caf[b].tf, caf[b].dg) IN h \in Handle /\ h.st = "failed"
    BY <1>t DEF CAF, Handle
  <2> QED
    BY <1>6, <2>1, <1>t, HandleReleased DEF CommitFails
<1>7. ASSUME NEW b \in Writers, Cleanup(b) \/ Crash(b)
      PROVE  Abstract!Release(b) \/ UNCHANGED Abstract!vars
  <2>1. Fresh("none") \in Handle /\ Fresh("none").st = "none"
    BY DEF Fresh, CAF, Handle
  <2>2. caf' = [caf EXCEPT ![b] = Fresh("none")] /\ UNCHANGED files
    BY <1>7 DEF Cleanup, Crash
  <2>3. CASE caf[b].st \in {"writing", "closing", "committed"}
    BY <2>1, <2>2, <2>3, <1>t, HandleReleased
  <2>4. CASE caf[b].st \in {"none", "failed"}
    BY <2>1, <2>2, <2>4, <1>t, HandleUnseen
  <2> QED
    BY <2>3, <2>4, <1>t DEF Handle
<1>8. CASE RemoveListed \/ DestroyEntry
  <2>1. PICK K, N : Unlink(K, N) /\ (K = {} \/ \E k \in BlobNames : K = {k})
    <3>1. CASE RemoveListed
      BY <3>1 DEF RemoveListed
    <3>2. CASE DestroyEntry
      BY <3>2 DEF DestroyEntry
    <3> QED
      BY <1>8, <3>1, <3>2
  <2> QED
    BY <2>1, UnlinkDeletes DEF Abstract!Next
<1>9. ASSUME UNCHANGED <<files, caf>> PROVE UNCHANGED Abstract!vars
  BY <1>9 DEF Abstract!vars, BlobNames, Blob
<1>10. CASE \/ \E keep \in SUBSET BlobNames : RemoveExcept(keep)
            \/ RemoveExceptReturns \/ Destroy \/ DestroyReturns \/ UNCHANGED vars
  BY <1>9, <1>10 DEF RemoveExcept, RemoveExceptReturns, Destroy, DestroyReturns, vars
<1> QED
  BY <1>1, <1>2, <1>3, <1>4, <1>5, <1>6, <1>7, <1>8, <1>10 DEF Next, Abstract!Next

\* The directory store implements the abstract store: the hash a Commit
\* returns is readable from that step on and holds the bytes written, nothing
\* else adds a blob, and only Destroy and RemoveExcept take one away.
THEOREM DirectoryImplementsBlobStore == Spec => ImplementsBlobStore
<1>1. Init => Abstract!Init
  BY DEF Init, Abstract!Init, Abstract!Idle, BlobNames, Blob, Fresh, CAF
<1> QED
  BY <1>1, StepSimulates, Invariance, PTL DEF Spec, ImplementsBlobStore
-----------------------------------------------------------------------------
(* The registry store.                                                     *)

\* A handle has a session unless it is not in use, and the PUT that stored a
\* blob has ended its session.
UploadOK(b) ==
  /\ upload[b].st = "none" <=> upload[b].url = None
  /\ upload[b].st \in {"sent", "committed"} => uploads[upload[b].url] = None
  /\ upload[b].st = "open" /\ uploads[upload[b].url] # None =>
       /\ uploads[upload[b].url] = upload[b].digest
       /\ upload[b].bw = Len(upload[b].digest)

\* No two handles share a session.
SessionsDistinct ==
  \A b, c \in Writers : upload[b].url = upload[c].url /\ upload[b].url # None => b = c

\* The exception in SessionsOwned is exact: an abandoned session is open and
\* nobody has it.
AbandonedIsOrphan ==
  \A s \in abandoned :
    uploads[s] # None /\ \A b \in Writers : upload[b].url # s

RegistryInv ==
  /\ R!TypeOK
  /\ \A b \in Writers : UploadOK(b)
  /\ SessionsDistinct
  /\ AbandonedIsOrphan
  /\ R!SessionsOwned

\* A registry without sessions satisfies the invariant.
LEMMA RegistryInitInv == R!Init => RegistryInv
  BY StoreAssumption DEF R!Init, RegistryInv, R!TypeOK, UploadOK, SessionsDistinct,
     AbandonedIsOrphan, R!SessionsOwned, R!Open, R!NoHandle, R!Handle, R!BlobBeingUploaded

\* What a step of handle b has to respect: it keeps its session, takes a fresh
\* one or lets its own go, touches no other session, and what it lets go and
\* leaves open counts as abandoned.
LEMMA UploadStep ==
  ASSUME RegistryInv, NEW b \in Writers, NEW h \in R!BlobBeingUploaded,
         upload' = [upload EXCEPT ![b] = h],
         registry' \subseteq Seq(Bytes),
         uploads' \in [Sessions -> Seq(Bytes) \cup {None}],
         h.url = upload[b].url \/ h.url = None
           \/ (h.url \in Sessions /\ upload[b].url = None /\ R!Fresh(h.url)),
         \A s \in Sessions : s # upload[b].url /\ s # h.url => uploads'[s] = uploads[s],
         abandoned' = abandoned \cup
           {s \in Sessions : s = upload[b].url /\ s # h.url /\ uploads'[s] # None},
         UploadOK(b)'
  PROVE  RegistryInv'
<1> USE StoreAssumption DEF RegistryInv, R!TypeOK
<1>1. R!TypeOK'
  OBVIOUS
<1>2. upload'[b] = h /\ \A c \in Writers : c # b => upload'[c] = upload[c]
  OBVIOUS
<1>3. /\ \A c \in Writers : upload[c].url \in Sessions \cup {None}
      /\ h.url \in Sessions \cup {None}
  BY DEF R!BlobBeingUploaded
<1>4. SessionsDistinct'
  BY <1>2, <1>3 DEF SessionsDistinct, R!Fresh
<1>5. ASSUME NEW c \in Writers, c # b, upload[c].url # None
      PROVE  uploads'[upload[c].url] = uploads[upload[c].url]
  BY <1>2, <1>3, <1>5 DEF SessionsDistinct, R!Fresh
<1>6. ASSUME NEW c \in Writers PROVE UploadOK(c)'
  <2>1. CASE c = b
    BY <2>1
  <2>2. CASE c # b
    <3>1. UploadOK(c) /\ upload'[c] = upload[c]
      BY <1>2, <2>2
    <3>2. upload[c].url = None => upload[c].st = "none"
      BY <3>1 DEF UploadOK
    <3> QED
      BY <1>5, <2>2, <3>1, <3>2 DEF UploadOK
  <2> QED
    BY <2>1, <2>2
<1>7. AbandonedIsOrphan'
  BY <1>2, <1>3 DEF AbandonedIsOrphan, SessionsDistinct, R!Fresh
<1>8. R!SessionsOwned'
  <2> SUFFICES ASSUME NEW s \in Sessions, uploads'[s] # None, s \notin abandoned'
               PROVE  \E c \in Writers : upload'[c].url = s
    BY <1>3, <1>4, StoreAssumption DEF R!SessionsOwned, R!Open, SessionsDistinct
  <2>1. CASE s = h.url
    BY <1>2, <2>1
  <2>2. CASE s # h.url
    <3>1. s # upload[b].url /\ uploads[s] # None /\ s \notin abandoned
      BY <2>2
    <3>2. PICK c \in Writers : upload[c].url = s
      BY <3>1 DEF R!SessionsOwned, R!Open
    <3> QED
      BY <1>2, <3>1, <3>2
  <2> QED
    BY <2>1, <2>2
<1> QED
  BY <1>1, <1>4, <1>6, <1>7, <1>8

\* Every request keeps it, answered or not, and every dropped session.
LEMMA RegistryStepInv == RegistryInv /\ [R!Next]_registryVars => RegistryInv'
<1> SUFFICES ASSUME RegistryInv, [R!Next]_registryVars PROVE RegistryInv'
  OBVIOUS
<1>t. /\ R!TypeOK /\ SessionsDistinct /\ AbandonedIsOrphan
      /\ \A b \in Writers : UploadOK(b) /\ upload[b] \in R!BlobBeingUploaded
  BY DEF RegistryInv, R!TypeOK
<1> USE StoreAssumption
<1>h. ASSUME NEW b \in Writers, NEW st, upload' = [upload EXCEPT ![b].st = st]
      PROVE  upload' = [upload EXCEPT ![b] =
               R!Handle(st, upload[b].url, upload[b].digest, upload[b].bw)]
  <2>1. ASSUME NEW r \in R!BlobBeingUploaded
        PROVE  [r EXCEPT !.st = st] = R!Handle(st, r.url, r.digest, r.bw)
    BY DEF R!BlobBeingUploaded, R!Handle
  <2> QED
    BY <1>h, <1>t, <2>1
<1>1. ASSUME NEW b \in Writers, NEW s \in Sessions, R!Put(b, s) PROVE RegistryInv'
  <2> DEFINE h == R!Handle("open", s, <<>>, 0)
  <2>1. h \in R!BlobBeingUploaded /\ h.url = s /\ upload[b].url = None
    BY <1>1, <1>t DEF R!Put, R!Handle, R!BlobBeingUploaded, UploadOK
  <2>2. UploadOK(b)'
    BY <1>1, <1>t DEF R!Put, R!Handle, UploadOK, R!TypeOK
  <2>3. /\ uploads' \in [Sessions -> Seq(Bytes) \cup {None}]
        /\ \A c \in Sessions : c # s => uploads'[c] = uploads[c]
        /\ upload' = [upload EXCEPT ![b] = h] /\ UNCHANGED <<registry, abandoned>>
    BY <1>1, <1>t DEF R!Put, R!TypeOK
  <2>4. abandoned' = abandoned \cup
          {c \in Sessions : c = upload[b].url /\ c # h.url /\ uploads'[c] # None}
    BY <2>1, <2>3
  <2>5. R!Fresh(s)
    BY <1>1 DEF R!Put
  <2> HIDE DEF h
  <2> QED
    BY <1>t, <2>1, <2>2, <2>3, <2>4, <2>5, UploadStep DEF R!TypeOK
<1>2. ASSUME NEW s \in Sessions, R!PutFails(s) PROVE RegistryInv'
  <2>0. /\ uploads' = [uploads EXCEPT ![s] = <<>>] /\ <<>> \in Seq(Bytes)
        /\ \A b \in Writers : upload[b].url # s
        /\ abandoned' = abandoned \cup {s} /\ UNCHANGED <<registry, upload>>
    BY <1>2 DEF R!PutFails, R!Fresh
  <2>1. R!TypeOK' /\ SessionsDistinct' /\ AbandonedIsOrphan'
    <3>1. R!TypeOK'
      BY <1>t, <2>0 DEF R!TypeOK
    <3>2. SessionsDistinct'
      BY <1>t, <2>0 DEF SessionsDistinct
    <3>3. AbandonedIsOrphan'
      BY <1>t, <2>0 DEF AbandonedIsOrphan, R!TypeOK
    <3> QED
      BY <3>1, <3>2, <3>3
  <2>2. \A b \in Writers : UploadOK(b)'
    BY <1>2, <1>t DEF R!PutFails, R!Fresh, R!TypeOK, UploadOK
  <2>3. R!SessionsOwned'
    BY <1>2, <1>t DEF RegistryInv, R!PutFails, R!TypeOK, R!SessionsOwned, R!Open
  <2> QED
    BY <2>1, <2>2, <2>3 DEF RegistryInv
<1>3. ASSUME NEW b \in Writers, NEW p \in Payloads, R!Write(b, p) PROVE RegistryInv'
  <2> DEFINE h == R!Handle("open", upload[b].url, upload[b].digest \o p, upload[b].bw + Len(p))
  <2>1. /\ p \in Seq(Bytes) /\ SubSeq(p, 1, Len(p)) = p /\ Len(p) \in Nat
        /\ \A q \in Seq(Bytes) : q \o p \in Seq(Bytes) /\ Len(q \o p) = Len(q) + Len(p)
    OBVIOUS
  <2>2. h \in R!BlobBeingUploaded /\ h.url = upload[b].url /\ upload[b].url \in Sessions
    BY <1>3, <1>t, <2>1 DEF R!Write, R!Handle, R!BlobBeingUploaded, UploadOK
  <2>3. uploads' = [uploads EXCEPT ![upload[b].url] = upload[b].digest \o p]
    BY <1>3, <1>t, <2>1 DEF R!Write, R!Patch, UploadOK
  <2>4. upload' = [upload EXCEPT ![b] = h] /\ UNCHANGED <<registry, abandoned>>
    BY <1>3 DEF R!Write
  <2>5. uploads' \in [Sessions -> Seq(Bytes) \cup {None}]
    BY <1>t, <2>1, <2>2, <2>3 DEF R!TypeOK, R!BlobBeingUploaded
  <2>6. UploadOK(b)'
    <3>1. upload'[b] = h
      BY <1>t, <2>4 DEF R!TypeOK
    <3>2. upload[b].bw = Len(upload[b].digest) /\ upload[b].digest \in Seq(Bytes)
      BY <1>3, <1>t DEF R!Write, R!Patch, UploadOK, R!BlobBeingUploaded
    <3>3. uploads'[upload[b].url] = upload[b].digest \o p
      BY <1>t, <2>2, <2>3 DEF R!TypeOK
    <3> QED
      BY <2>1, <2>2, <3>1, <3>2, <3>3 DEF UploadOK, R!Handle
  <2> HIDE DEF h
  <2> QED
    BY <1>t, <2>2, <2>3, <2>4, <2>5, <2>6, UploadStep DEF R!TypeOK
<1>4. ASSUME NEW b \in Writers, NEW p \in Payloads, R!WriteFails(b, p) PROVE RegistryInv'
  <2>1. PICK read \in 0 .. Len(p) :
          /\ upload' = [upload EXCEPT ![b] =
               R!Handle("failed", @.url, @.digest \o SubSeq(p, 1, read), @.bw)]
          /\ (\E n \in 0 .. read : R!Patch(b, p, n)) \/ UNCHANGED uploads
    BY <1>4 DEF R!WriteFails
  <2> DEFINE h == R!Handle("failed", upload[b].url,
                           upload[b].digest \o SubSeq(p, 1, read), upload[b].bw)
  <2>2. \A n \in 0 .. Len(p) : SubSeq(p, 1, n) \in Seq(Bytes)
    OBVIOUS
  <2>3. \A n \in 0 .. Len(p), q \in Seq(Bytes) : q \o SubSeq(p, 1, n) \in Seq(Bytes)
    BY <2>2
  <2>4. h \in R!BlobBeingUploaded /\ h.url = upload[b].url /\ upload[b].url \in Sessions
    BY <1>4, <1>t, <2>3 DEF R!WriteFails, R!Handle, R!BlobBeingUploaded, UploadOK
  <2>5. upload' = [upload EXCEPT ![b] = h] /\ UNCHANGED <<registry, abandoned>>
    BY <1>4, <2>1 DEF R!WriteFails
  <2>6. /\ uploads' \in [Sessions -> Seq(Bytes) \cup {None}]
        /\ \A s \in Sessions : s # upload[b].url => uploads'[s] = uploads[s]
    <3>1. ASSUME NEW n \in 0 .. read, R!Patch(b, p, n)
          PROVE  <2>6!1 /\ <2>6!2
      <4>1. uploads[upload[b].url] \o SubSeq(p, 1, n) \in Seq(Bytes)
        BY <1>t, <2>3, <2>4, <3>1 DEF R!Patch, R!TypeOK
      <4> QED
        BY <1>t, <2>4, <3>1, <4>1 DEF R!Patch, R!TypeOK
    <3> QED
      BY <1>t, <2>1, <3>1 DEF R!TypeOK
  <2>7. UploadOK(b)'
    BY <1>t, <2>4, <2>5 DEF UploadOK, R!TypeOK, R!Handle
  <2> HIDE DEF h
  <2> QED
    BY <1>t, <2>4, <2>5, <2>6, <2>7, UploadStep DEF R!TypeOK
<1>5. ASSUME NEW b \in Writers, R!CommitPut(b) PROVE RegistryInv'
  <2> DEFINE h == R!Handle("sent", upload[b].url, upload[b].digest, upload[b].bw)
  <2>1. h \in R!BlobBeingUploaded /\ h.url = upload[b].url /\ upload[b].url \in Sessions
    BY <1>5, <1>t DEF R!CommitPut, R!Handle, R!BlobBeingUploaded, UploadOK
  <2>2. upload' = [upload EXCEPT ![b] = h]
    BY <1>5, <1>h DEF R!CommitPut
  <2>3. UploadOK(b)'
    BY <1>5, <1>t, <2>1, <2>2 DEF R!CommitPut, UploadOK, R!TypeOK, R!Handle
  <2>4. /\ uploads' \in [Sessions -> Seq(Bytes) \cup {None}]
        /\ \A s \in Sessions : s # upload[b].url => uploads'[s] = uploads[s]
        /\ registry' \subseteq Seq(Bytes) /\ abandoned' = abandoned
    BY <1>5, <1>t DEF R!CommitPut, R!TypeOK, R!BlobBeingUploaded
  <2> HIDE DEF h
  <2> QED
    BY <1>t, <2>1, <2>2, <2>3, <2>4, UploadStep
<1>6. ASSUME NEW b \in Writers, R!CommitReturns(b) \/ R!CommitFails(b) PROVE RegistryInv'
  <2>1. PICK st \in {"committed", "failed"} :
          upload' = [upload EXCEPT ![b].st = st] /\ (st = "committed" => upload[b].st = "sent")
    BY <1>6 DEF R!CommitReturns, R!CommitFails
  <2> DEFINE h == R!Handle(st, upload[b].url, upload[b].digest, upload[b].bw)
  <2>2. h \in R!BlobBeingUploaded /\ h.url = upload[b].url /\ upload[b].url \in Sessions
    BY <1>6, <1>t DEF R!CommitReturns, R!CommitFails, R!Handle, R!BlobBeingUploaded, UploadOK
  <2>3. upload' = [upload EXCEPT ![b] = h] /\ UNCHANGED <<registry, uploads, abandoned>>
    BY <1>6, <2>1, <1>h DEF R!CommitReturns, R!CommitFails
  <2>4. UploadOK(b)'
    BY <1>t, <2>1, <2>2, <2>3 DEF UploadOK, R!TypeOK, R!Handle
  <2> HIDE DEF h
  <2> QED
    BY <1>t, <2>2, <2>3, <2>4, UploadStep DEF R!TypeOK
<1>7. ASSUME NEW b \in Writers, R!Cleanup(b) \/ R!CleanupFails(b) \/ R!Crash(b)
      PROVE  RegistryInv'
  <2> DEFINE h == R!NoHandle
  <2>1. h \in R!BlobBeingUploaded /\ h.url = None /\ h.st = "none"
    BY DEF R!NoHandle, R!Handle, R!BlobBeingUploaded
  <2>2. upload' = [upload EXCEPT ![b] = h] /\ UNCHANGED registry
    BY <1>7 DEF R!Cleanup, R!CleanupFails, R!Crash, R!Leave
  <2>3. upload[b].url \in Sessions
    BY <1>7, <1>t DEF R!Cleanup, R!CleanupFails, R!Crash, UploadOK, R!BlobBeingUploaded
  <2>4. UploadOK(b)'
    BY <1>t, <2>1, <2>2 DEF UploadOK, R!TypeOK
  <2>5. /\ uploads' \in [Sessions -> Seq(Bytes) \cup {None}]
        /\ \A s \in Sessions : s # upload[b].url => uploads'[s] = uploads[s]
        /\ abandoned' = abandoned \cup
             {s \in Sessions : s = upload[b].url /\ s # h.url /\ uploads'[s] # None}
    <3>1. CASE R!Cleanup(b)
      <4>1. uploads'[upload[b].url] = None
        BY <1>t, <2>3, <3>1 DEF R!Cleanup, UploadOK, R!TypeOK
      <4> QED
        BY <1>t, <4>1, <3>1 DEF R!Cleanup, R!TypeOK
    <3>2. CASE R!Leave(b)
      BY <1>t, <2>1, <2>3, <3>2 DEF R!Leave, R!Open, R!TypeOK
    <3> QED
      BY <1>7, <3>1, <3>2 DEF R!CleanupFails, R!Crash
  <2> HIDE DEF h
  <2> QED
    BY <1>t, <2>1, <2>2, <2>4, <2>5, UploadStep DEF R!TypeOK
<1>8. ASSUME NEW s \in Sessions, R!Expire(s) PROVE RegistryInv'
  <2>1. R!TypeOK' /\ SessionsDistinct' /\ AbandonedIsOrphan'
    BY <1>8, <1>t DEF R!Expire, R!TypeOK, SessionsDistinct, AbandonedIsOrphan
  <2>2. \A b \in Writers : UploadOK(b)'
    BY <1>8, <1>t DEF R!Expire, R!TypeOK, UploadOK
  <2>3. R!SessionsOwned'
    BY <1>8, <1>t DEF RegistryInv, R!Expire, R!TypeOK, R!SessionsOwned, R!Open
  <2> QED
    BY <2>1, <2>2, <2>3 DEF RegistryInv
<1>9. CASE UNCHANGED registryVars
  BY <1>9 DEF RegistryInv, registryVars, R!TypeOK, UploadOK, SessionsDistinct,
     AbandonedIsOrphan, R!SessionsOwned, R!Open
<1> QED
  BY <1>1, <1>2, <1>3, <1>4, <1>5, <1>6, <1>7, <1>8, <1>9 DEF R!Next

\* So is that of the registry store.
THEOREM RegistryInvariance == R!Spec => []RegistryInv
  BY RegistryInitInv, RegistryStepInv, PTL DEF R!Spec, R!vars, registryVars

\* As long as nothing has failed, the registry and the digest agree on what
\* was sent, for any number of handles and sessions and bodies of any length.
THEOREM RegistryAgreesWithDigest == R!Spec => []RegistrySessionMatchesDigest
<1>1. RegistryInv => RegistrySessionMatchesDigest
  BY DEF RegistryInv, UploadOK, RegistrySessionMatchesDigest, R!SessionMatchesDigest
<1> QED
  BY <1>1, RegistryInvariance, PTL

\* A session that stays open has exactly one handle that will close it, unless
\* Put or Cleanup failed or its process died.
THEOREM NoStraySessions == R!Spec => []RegistrySessionsOwned
<1>1. RegistryInv => RegistrySessionsOwned
  BY DEF RegistryInv, RegistrySessionsOwned
<1> QED
  BY <1>1, RegistryInvariance, PTL

UploadBlobs == [b \in Writers |-> R!Blob(b)]

\* A step that changes one upload only changes that handle of the abstract
\* store.
LEMMA OneUpload ==
  ASSUME NEW b \in Writers, NEW h, upload \in [Writers -> R!BlobBeingUploaded],
         upload' = [upload EXCEPT ![b] = h]
  PROVE  UploadBlobs' = [UploadBlobs EXCEPT ![b] = R!Blob(b)'] /\ upload'[b] = h
<1>1. \A c \in Writers : c # b => R!Blob(c)' = R!Blob(c)
  BY DEF R!Blob
<1> QED
  BY <1>1 DEF UploadBlobs

\* An upload that ends is released there, or was not known any more.
LEMMA UploadReleased ==
  ASSUME NEW b \in Writers, R!TypeOK, NEW h \in R!BlobBeingUploaded,
         h.st \in {"none", "failed"},
         upload' = [upload EXCEPT ![b] = h], UNCHANGED registry
  PROVE  R!Abstract!Release(b) \/ UNCHANGED R!Abstract!vars
<1>1. UploadBlobs' = [UploadBlobs EXCEPT ![b] = R!Blob(b)'] /\ upload'[b] = h
  BY OneUpload DEF R!TypeOK
<1>2. R!Blob(b)' = R!Abstract!Idle
  BY <1>1 DEF R!Blob, R!Abstract!Idle
<1>3. CASE upload[b].st \in {"open", "sent", "committed"}
  <2>1. R!Blob(b).st # "idle"
    BY <1>3 DEF R!Blob
  <2> QED
    BY <1>1, <1>2, <2>1 DEF R!Abstract!Release, UploadBlobs
<1>4. CASE upload[b].st \in {"none", "failed"}
  <2>1. R!Blob(b) = R!Abstract!Idle
    BY <1>4 DEF R!Blob, R!Abstract!Idle
  <2> QED
    BY <1>1, <1>2, <2>1 DEF R!Abstract!vars, UploadBlobs
<1> QED
  BY <1>3, <1>4 DEF R!TypeOK, R!BlobBeingUploaded

\* Every request of a handle is a step of the abstract store or changes
\* nothing there.
LEMMA UploadSimulates ==
  RegistryInv /\ [R!Next]_registryVars => [R!Abstract!Next]_(R!Abstract!vars)
<1> SUFFICES ASSUME RegistryInv, [R!Next]_registryVars
             PROVE  R!Abstract!Next \/ UNCHANGED R!Abstract!vars
  OBVIOUS
<1>t. R!TypeOK /\ upload \in [Writers -> R!BlobBeingUploaded]
  BY DEF RegistryInv, R!TypeOK
<1>1. ASSUME NEW b \in Writers, NEW s \in Sessions, R!Put(b, s) PROVE R!Abstract!Put(b)
  <2>1. /\ UploadBlobs' = [UploadBlobs EXCEPT ![b] = R!Blob(b)']
        /\ upload'[b] = R!Handle("open", s, <<>>, 0)
    BY <1>1, <1>t, OneUpload DEF R!Put
  <2>2. R!Blob(b).st = "idle" /\ R!Blob(b)' = [st |-> "open", data |-> <<>>]
    BY <1>1, <2>1 DEF R!Put, R!Blob, R!Handle
  <2> QED
    BY <1>1, <2>1, <2>2 DEF R!Put, R!Abstract!Put, UploadBlobs
<1>2. ASSUME NEW b \in Writers, NEW p \in Payloads, R!Write(b, p)
      PROVE  R!Abstract!Write(b, p)
  <2>1. /\ UploadBlobs' = [UploadBlobs EXCEPT ![b] = R!Blob(b)']
        /\ upload'[b] = R!Handle("open", upload[b].url, upload[b].digest \o p,
                                 upload[b].bw + Len(p))
    BY <1>2, <1>t, OneUpload DEF R!Write
  <2>2. R!Blob(b) = [st |-> "open", data |-> upload[b].digest]
    BY <1>2 DEF R!Write, R!Blob
  <2>3. R!Blob(b)' = [st |-> "open", data |-> upload[b].digest \o p]
    BY <2>1 DEF R!Blob, R!Handle
  <2>a. UploadBlobs[b] = R!Blob(b)
    BY DEF UploadBlobs
  <2>4. /\ UploadBlobs[b].st = "open"
        /\ UploadBlobs' =
             [UploadBlobs EXCEPT ![b] = [st |-> "open", data |-> UploadBlobs[b].data \o p]]
    BY <2>a, <2>1, <2>2, <2>3
  <2>5. registry' = registry
    BY <1>2 DEF R!Write
  <2> QED
    BY <2>4, <2>5 DEF R!Abstract!Write, UploadBlobs
<1>3. ASSUME NEW b \in Writers, R!CommitPut(b) PROVE R!Abstract!Commit(b)
  <2>1. UploadBlobs' = [UploadBlobs EXCEPT ![b] = R!Blob(b)']
    BY <1>3, <1>t, OneUpload DEF R!CommitPut
  <2>2. upload'[b].st = "sent" /\ upload'[b].digest = upload[b].digest
    BY <1>3, <1>t DEF R!CommitPut, R!BlobBeingUploaded
  <2>3. R!Blob(b) = [st |-> "open", data |-> upload[b].digest]
    BY <1>3 DEF R!CommitPut, R!Blob
  <2>4. R!Blob(b)' = [st |-> "committed", data |-> upload[b].digest]
    BY <2>2 DEF R!Blob
  <2>5. registry' = registry \cup {upload[b].digest}
    BY <1>3 DEF R!CommitPut
  <2>a. UploadBlobs[b] = R!Blob(b)
    BY DEF UploadBlobs
  <2>6. /\ UploadBlobs[b].st = "open"
        /\ UploadBlobs' =
             [UploadBlobs EXCEPT ![b] = [st |-> "committed", data |-> UploadBlobs[b].data]]
        /\ registry' = registry \cup {UploadBlobs[b].data}
    BY <2>a, <2>1, <2>3, <2>4, <2>5
  <2> QED
    BY <2>6 DEF R!Abstract!Commit, UploadBlobs
<1>4. ASSUME NEW b \in Writers, R!CommitReturns(b) PROVE UNCHANGED R!Abstract!vars
  <2>1. UploadBlobs' = [UploadBlobs EXCEPT ![b] = R!Blob(b)']
    BY <1>4, <1>t, OneUpload DEF R!CommitReturns
  <2>2. upload'[b].st = "committed" /\ upload'[b].digest = upload[b].digest
    BY <1>4, <1>t DEF R!CommitReturns, R!BlobBeingUploaded
  <2>3. R!Blob(b)' = R!Blob(b)
    BY <1>4, <2>2 DEF R!CommitReturns, R!Blob
  <2> QED
    BY <1>4, <2>1, <2>3 DEF R!CommitReturns, R!Abstract!vars, UploadBlobs
<1>5. ASSUME NEW b \in Writers,
             \/ R!CommitFails(b) \/ R!Cleanup(b) \/ R!CleanupFails(b) \/ R!Crash(b)
             \/ \E p \in Payloads : R!WriteFails(b, p)
      PROVE  R!Abstract!Release(b) \/ UNCHANGED R!Abstract!vars
  <2>t. upload[b] \in R!BlobBeingUploaded
    BY <1>t
  <2>1. CASE R!CommitFails(b)
    <3>1. /\ [upload[b] EXCEPT !.st = "failed"] \in R!BlobBeingUploaded
          /\ [upload[b] EXCEPT !.st = "failed"].st = "failed"
      BY <2>t DEF R!BlobBeingUploaded
    <3> QED
      BY <1>t, <2>1, <3>1, UploadReleased DEF R!CommitFails
  <2>2. CASE R!Cleanup(b) \/ R!CleanupFails(b) \/ R!Crash(b)
    <3>1. R!NoHandle \in R!BlobBeingUploaded /\ R!NoHandle.st = "none"
      BY DEF R!NoHandle, R!Handle, R!BlobBeingUploaded
    <3>2. upload' = [upload EXCEPT ![b] = R!NoHandle] /\ UNCHANGED registry
      BY <2>2 DEF R!Cleanup, R!CleanupFails, R!Crash, R!Leave
    <3> QED
      BY <1>t, <3>1, <3>2, UploadReleased
  <2>3. ASSUME NEW p \in Payloads, R!WriteFails(b, p) PROVE R!Abstract!Release(b) \/ UNCHANGED R!Abstract!vars
    <3>1. PICK read \in 0 .. Len(p) :
            upload' = [upload EXCEPT ![b] =
              R!Handle("failed", @.url, @.digest \o SubSeq(p, 1, read), @.bw)]
      BY <2>3 DEF R!WriteFails
    <3> DEFINE h == R!Handle("failed", upload[b].url,
                             upload[b].digest \o SubSeq(p, 1, read), upload[b].bw)
    <3>2. p \in Seq(Bytes) /\ SubSeq(p, 1, read) \in Seq(Bytes)
      BY StoreAssumption
    <3>3. upload[b].digest \o SubSeq(p, 1, read) \in Seq(Bytes)
      BY <2>t, <3>2 DEF R!BlobBeingUploaded
    <3>4. h \in R!BlobBeingUploaded /\ h.st = "failed"
      BY <2>t, <3>3 DEF R!Handle, R!BlobBeingUploaded
    <3>5. upload' = [upload EXCEPT ![b] = h] /\ UNCHANGED registry
      BY <2>3, <3>1 DEF R!WriteFails
    <3> HIDE DEF h
    <3> QED
      BY <1>t, <3>4, <3>5, UploadReleased
  <2> QED
    BY <1>5, <2>1, <2>2, <2>3
<1>6. ASSUME UNCHANGED <<registry, upload>> PROVE UNCHANGED R!Abstract!vars
  BY <1>6 DEF R!Abstract!vars, R!Blob
<1>7. CASE (\E s \in Sessions : R!PutFails(s) \/ R!Expire(s)) \/ UNCHANGED registryVars
  BY <1>6, <1>7 DEF R!PutFails, R!Expire, registryVars
<1> QED
  BY <1>1, <1>2, <1>3, <1>4, <1>5, <1>7 DEF R!Next, R!Abstract!Next

\* The registry store implements the abstract store: a blob is there from the
\* PUT that the registry carried out, also when its answer was lost, and holds
\* the bytes written.
THEOREM RegistryStoreImplementsBlobStore == R!Spec => RegistryImplementsBlobStore
<1>1. R!Init => R!Abstract!Init
  BY DEF R!Init, R!Abstract!Init, R!Abstract!Idle, R!Blob, R!NoHandle, R!Handle
<1> QED
  BY <1>1, UploadSimulates, RegistryInvariance, PTL
  DEF R!Spec, R!vars, registryVars, RegistryImplementsBlobStore, R!ImplementsBlobStore
-----------------------------------------------------------------------------
(* The S3 store.                                                           *)

\* A handle has a file until Commit or Cleanup has removed it, and as long as
\* nothing has failed it is what the hash was computed from.
TbuOK(b) ==
  /\ tbu[b].st \in {"none", "committed"} => tbu[b].f = None
  /\ tbu[b].st \in {"open", "failed", "uploaded"} =>
       tbu[b].f # None /\ tmpdir[tbu[b].f] # None
  /\ tbu[b].st \in {"open", "uploaded"} => tmpdir[tbu[b].f] = tbu[b].h

\* No two handles share a file.
FilesDistinct ==
  \A b, c \in Writers : tbu[b].f = tbu[c].f /\ tbu[b].f # None => b = c

\* The exception in TempsOwned is exact: a file that was left is there and
\* nobody has it, so the system may clear it away.
LeftIsOrphan ==
  \A n \in left : tmpdir[n] # None /\ \A b \in Writers : tbu[b].f # n

\* Every object is the content its name is the hash of.
WholeObjects == \A o \in objects : o.data = o.name

S3Inv ==
  /\ S!TypeOK
  /\ \A b \in Writers : TbuOK(b)
  /\ FilesDistinct
  /\ LeftIsOrphan
  /\ WholeObjects
  /\ S!TempsOwned

\* An empty bucket satisfies the invariant.
LEMMA S3InitInv == S!Init => S3Inv
  BY StoreAssumption DEF S!Init, S3Inv, S!TypeOK, TbuOK, FilesDistinct, LeftIsOrphan,
     WholeObjects, S!TempsOwned, S!PresentTemps, S!NoHandle, S!Handle, S!TbUploaded

\* What a step of handle b has to respect: it keeps its file, takes a new one
\* or lets its own go, touches no other file, and what it lets go and leaves
\* there counts as left.
LEMMA TbuStep ==
  ASSUME S3Inv, NEW b \in Writers, NEW t \in S!TbUploaded,
         tbu' = [tbu EXCEPT ![b] = t],
         tmpdir' \in [TempNames -> Seq(Bytes) \cup {None}],
         t.f = tbu[b].f \/ t.f = None
           \/ (/\ t.f \in TempNames /\ tbu[b].f = None /\ tmpdir[t.f] = None
               /\ \A c \in Writers : tbu[c].f # t.f),
         \A n \in TempNames : n # tbu[b].f /\ n # t.f => tmpdir'[n] = tmpdir[n],
         left' = left \cup
           {n \in TempNames : n = tbu[b].f /\ n # t.f /\ tmpdir'[n] # None},
         objects' \subseteq [name : Seq(Bytes), data : Seq(Bytes)], WholeObjects',
         TbuOK(b)'
  PROVE  S3Inv'
<1> USE StoreAssumption DEF S3Inv, S!TypeOK
<1>1. S!TypeOK'
  OBVIOUS
<1>2. tbu'[b] = t /\ \A c \in Writers : c # b => tbu'[c] = tbu[c]
  OBVIOUS
<1>3. /\ \A c \in Writers : tbu[c].f \in TempNames \cup {None}
      /\ t.f \in TempNames \cup {None}
  BY DEF S!TbUploaded
<1>4. FilesDistinct'
  BY <1>2, <1>3 DEF FilesDistinct
<1>5. ASSUME NEW c \in Writers, c # b, tbu[c].f # None
      PROVE  tmpdir'[tbu[c].f] = tmpdir[tbu[c].f]
  BY <1>2, <1>3, <1>5 DEF FilesDistinct
<1>6. ASSUME NEW c \in Writers PROVE TbuOK(c)'
  <2>1. CASE c = b
    BY <2>1
  <2>2. CASE c # b
    <3>1. TbuOK(c) /\ tbu'[c] = tbu[c]
      BY <1>2, <2>2
    <3> QED
      BY <1>5, <2>2, <3>1 DEF TbuOK
  <2> QED
    BY <2>1, <2>2
<1>7. LeftIsOrphan'
  BY <1>2, <1>3 DEF LeftIsOrphan, FilesDistinct
<1>8. S!TempsOwned'
  <2> SUFFICES ASSUME NEW n \in TempNames, tmpdir'[n] # None, n \notin left'
               PROVE  \E c \in Writers : tbu'[c].f = n
    BY <1>3, <1>4 DEF S!TempsOwned, S!PresentTemps, FilesDistinct
  <2>1. CASE n = t.f
    BY <1>2, <2>1
  <2>2. CASE n # t.f
    <3>1. n # tbu[b].f /\ tmpdir[n] # None /\ n \notin left
      BY <2>2
    <3>2. PICK c \in Writers : tbu[c].f = n
      BY <3>1 DEF S!TempsOwned, S!PresentTemps
    <3> QED
      BY <1>2, <3>1, <3>2
  <2> QED
    BY <2>1, <2>2
<1> QED
  BY <1>1, <1>4, <1>6, <1>7, <1>8

\* Every write, upload and removal keeps it, whether it fails or not.
LEMMA S3StepInv == S3Inv /\ [S!Next]_s3Vars => S3Inv'
<1> SUFFICES ASSUME S3Inv, [S!Next]_s3Vars PROVE S3Inv'
  OBVIOUS
<1>t. /\ S!TypeOK /\ FilesDistinct /\ LeftIsOrphan /\ WholeObjects
      /\ \A b \in Writers : TbuOK(b) /\ tbu[b] \in S!TbUploaded
  BY DEF S3Inv, S!TypeOK
<1>w. UNCHANGED objects => WholeObjects' /\ objects' \subseteq [name : Seq(Bytes), data : Seq(Bytes)]
  BY <1>t DEF S!TypeOK, WholeObjects
<1> USE StoreAssumption
<1>h. ASSUME NEW b \in Writers, NEW st, tbu' = [tbu EXCEPT ![b].st = st]
      PROVE  tbu' = [tbu EXCEPT ![b] = S!Handle(st, tbu[b].f, tbu[b].h)]
  <2>1. ASSUME NEW r \in S!TbUploaded
        PROVE  [r EXCEPT !.st = st] = S!Handle(st, r.f, r.h)
    BY DEF S!TbUploaded, S!Handle
  <2> QED
    BY <1>h, <1>t, <2>1
<1>1. ASSUME NEW b \in Writers, NEW n \in TempNames, S!Put(b, n) PROVE S3Inv'
  <2> DEFINE t == S!Handle("open", n, <<>>)
  <2>1. t \in S!TbUploaded /\ t.f = n /\ tbu[b].f = None /\ UNCHANGED objects
    BY <1>1, <1>t DEF S!Put, S!Handle, S!TbUploaded, TbuOK
  <2>2. TbuOK(b)'
    <3>1. tbu'[b] = t /\ tmpdir'[n] = <<>> /\ <<>> \in Seq(Bytes)
      BY <1>1, <1>t DEF S!Put, S!TypeOK
    <3>2. t.st = "open" /\ t.f = n /\ t.h = <<>> /\ n # None /\ <<>> # None
      BY <3>1 DEF S!Handle
    <3> HIDE DEF t
    <3> QED
      BY <3>1, <3>2 DEF TbuOK
  <2>3. /\ tmpdir' \in [TempNames -> Seq(Bytes) \cup {None}]
        /\ \A m \in TempNames : m # n => tmpdir'[m] = tmpdir[m]
        /\ tbu' = [tbu EXCEPT ![b] = t] /\ UNCHANGED left
    BY <1>1, <1>t DEF S!Put, S!TypeOK
  <2>4. left' = left \cup
          {m \in TempNames : m = tbu[b].f /\ m # t.f /\ tmpdir'[m] # None}
    BY <2>1, <2>3
  <2>5. tmpdir[n] = None /\ \A c \in Writers : tbu[c].f # n
    BY <1>1 DEF S!Put
  <2> HIDE DEF t
  <2> QED
    BY <1>w, <2>1, <2>2, <2>3, <2>4, <2>5, TbuStep
<1>2. ASSUME NEW b \in Writers, NEW p \in Payloads, S!Write(b, p) PROVE S3Inv'
  <2> DEFINE t == S!Handle("open", tbu[b].f, tbu[b].h \o p)
  <2>1. p \in Seq(Bytes) /\ \A q \in Seq(Bytes) : q \o p \in Seq(Bytes)
    OBVIOUS
  <2>2. /\ t \in S!TbUploaded /\ t.f = tbu[b].f /\ tbu[b].f \in TempNames
        /\ UNCHANGED <<objects, left>>
    BY <1>2, <1>t, <2>1 DEF S!Write, S!Handle, S!TbUploaded, TbuOK
  <2>3. tbu' = [tbu EXCEPT ![b] = t]
    <3>1. ASSUME NEW r \in S!TbUploaded, r.st = "open", NEW d
          PROVE  [r EXCEPT !.h = d] = S!Handle("open", r.f, d)
      BY <3>1 DEF S!TbUploaded, S!Handle
    <3> QED
      BY <1>2, <1>t, <3>1 DEF S!Write
  <2>4. tmpdir' = [tmpdir EXCEPT ![tbu[b].f] = tbu[b].h \o p]
    BY <1>2, <1>t DEF S!Write, TbuOK
  <2>5. tbu[b].h \o p \in Seq(Bytes)
    BY <1>t, <2>1 DEF S!TbUploaded
  <2>6. /\ tmpdir' \in [TempNames -> Seq(Bytes) \cup {None}]
        /\ \A m \in TempNames : m # tbu[b].f => tmpdir'[m] = tmpdir[m]
    BY <1>t, <2>2, <2>4, <2>5 DEF S!TypeOK
  <2>7. TbuOK(b)'
    BY <1>t, <2>2, <2>3, <2>4, <2>5 DEF TbuOK, S!TypeOK, S!Handle
  <2> HIDE DEF t
  <2> QED
    BY <1>w, <2>2, <2>3, <2>6, <2>7, TbuStep
<1>3. ASSUME NEW b \in Writers, NEW p \in Payloads, S!WriteFails(b, p) PROVE S3Inv'
  <2>1. PICK k \in 0 .. Len(p) - 1 :
          tmpdir' = [tmpdir EXCEPT ![tbu[b].f] = @ \o SubSeq(p, 1, k)]
    BY <1>3 DEF S!WriteFails
  <2> DEFINE t == S!Handle("failed", tbu[b].f, tbu[b].h)
  <2>2. /\ t \in S!TbUploaded /\ t.f = tbu[b].f /\ tbu[b].f \in TempNames
        /\ UNCHANGED <<objects, left>>
    BY <1>3, <1>t DEF S!WriteFails, S!Handle, S!TbUploaded, TbuOK
  <2>3. tbu' = [tbu EXCEPT ![b] = t]
    BY <1>3, <1>h DEF S!WriteFails
  <2>4. SubSeq(p, 1, k) \in Seq(Bytes)
    OBVIOUS
  <2>5. tmpdir[tbu[b].f] \o SubSeq(p, 1, k) \in Seq(Bytes)
    BY <1>3, <1>t, <2>4 DEF S!WriteFails, TbuOK, S!TbUploaded
  <2>6. /\ tmpdir' \in [TempNames -> Seq(Bytes) \cup {None}]
        /\ \A m \in TempNames : m # tbu[b].f => tmpdir'[m] = tmpdir[m]
        /\ tmpdir'[tbu[b].f] # None
    BY <1>t, <2>1, <2>2, <2>5 DEF S!TypeOK
  <2>7. TbuOK(b)'
    BY <1>t, <2>2, <2>3, <2>6 DEF TbuOK, S!TypeOK, S!Handle
  <2> HIDE DEF t
  <2> QED
    BY <1>w, <2>2, <2>3, <2>6, <2>7, TbuStep
<1>4. ASSUME NEW b \in Writers, S!CommitUpload(b) \/ S!CommitFails(b) PROVE S3Inv'
  <2>1. PICK st \in {"uploaded", "failed"} :
          tbu' = [tbu EXCEPT ![b].st = st] /\ (st = "uploaded" => tbu[b].st = "open")
    BY <1>4 DEF S!CommitUpload, S!CommitFails
  <2> DEFINE t == S!Handle(st, tbu[b].f, tbu[b].h)
  <2>2. /\ t \in S!TbUploaded /\ t.f = tbu[b].f /\ tbu[b].f \in TempNames
        /\ UNCHANGED <<tmpdir, left>>
    BY <1>4, <1>t DEF S!CommitUpload, S!CommitFails, S!Handle, S!TbUploaded, TbuOK
  <2>3. tbu' = [tbu EXCEPT ![b] = t]
    BY <2>1, <1>h
  <2>4. TbuOK(b)'
    <3>1. tbu'[b] = t /\ tmpdir'[tbu[b].f] = tmpdir[tbu[b].f]
      BY <1>t, <2>2, <2>3 DEF S!TypeOK
    <3>2. tbu[b].st \in {"open", "uploaded"} /\ TbuOK(b)
      BY <1>4, <1>t DEF S!CommitUpload, S!CommitFails
    <3>3. t.st = st /\ t.f = tbu[b].f /\ t.h = tbu[b].h
      BY DEF S!Handle
    <3> HIDE DEF t
    <3> QED
      BY <2>1, <3>1, <3>2, <3>3 DEF TbuOK
  <2>5. objects' \subseteq [name : Seq(Bytes), data : Seq(Bytes)] /\ WholeObjects'
    <3>1. CASE S!CommitUpload(b)
      <4>1. tmpdir[tbu[b].f] = tbu[b].h /\ tbu[b].h \in Seq(Bytes)
        BY <1>t, <3>1 DEF S!CommitUpload, TbuOK, S!TbUploaded
      <4> QED
        BY <1>t, <3>1, <4>1 DEF S!CommitUpload, S!TypeOK, WholeObjects
    <3>2. CASE S!CommitFails(b)
      BY <1>w, <3>2 DEF S!CommitFails
    <3> QED
      BY <1>4, <3>1, <3>2
  <2>6. /\ tmpdir' \in [TempNames -> Seq(Bytes) \cup {None}]
        /\ \A m \in TempNames : m # tbu[b].f => tmpdir'[m] = tmpdir[m]
    BY <1>t, <2>2 DEF S!TypeOK
  <2> HIDE DEF t
  <2> QED
    BY <2>2, <2>3, <2>4, <2>5, <2>6, TbuStep
<1>5. ASSUME NEW b \in Writers, S!CommitReturns(b) \/ S!Cleanup(b) \/ S!Lose(b)
      PROVE  S3Inv'
  <2>1. PICK t \in S!TbUploaded :
          tbu' = [tbu EXCEPT ![b] = t] /\ t.f = None /\ t.st \in {"none", "committed"}
    <3>1. /\ S!NoHandle \in S!TbUploaded /\ S!NoHandle.f = None /\ S!NoHandle.st = "none"
      BY DEF S!NoHandle, S!Handle, S!TbUploaded
    <3>2. LET t == S!Handle("committed", None, tbu[b].h)
          IN  t \in S!TbUploaded /\ t.f = None /\ t.st = "committed"
      BY <1>t DEF S!Handle, S!TbUploaded
    <3>3. \/ tbu' = [tbu EXCEPT ![b] = S!NoHandle]
          \/ tbu' = [tbu EXCEPT ![b] = S!Handle("committed", None, tbu[b].h)]
      BY <1>5 DEF S!CommitReturns, S!Cleanup, S!Lose
    <3> QED
      BY <3>1, <3>2, <3>3
  <2>2. TbuOK(b)'
    BY <1>t, <2>1 DEF TbuOK, S!TypeOK
  <2>3. /\ tmpdir' \in [TempNames -> Seq(Bytes) \cup {None}]
        /\ \A m \in TempNames : m # tbu[b].f => tmpdir'[m] = tmpdir[m]
    BY <1>5, <1>t DEF S!CommitReturns, S!Cleanup, S!Lose, S!TypeOK
  <2>4. left' = left \cup
          {m \in TempNames : m = tbu[b].f /\ m # t.f /\ tmpdir'[m] # None}
    <3>1. CASE S!CommitReturns(b) \/ S!Cleanup(b)
      <4>1. tbu[b].f \in TempNames => tmpdir'[tbu[b].f] = None
        BY <1>t, <3>1 DEF S!CommitReturns, S!Cleanup, S!TypeOK
      <4>2. UNCHANGED left
        BY <3>1 DEF S!CommitReturns, S!Cleanup
      <4> QED
        BY <4>1, <4>2
    <3>2. CASE S!Lose(b)
      BY <1>t, <2>1, <3>2 DEF S!Lose, S!PresentTemps, S!TypeOK
    <3> QED
      BY <1>5, <3>1, <3>2
  <2>5. UNCHANGED objects
    BY <1>5 DEF S!CommitReturns, S!Cleanup, S!Lose
  <2> QED
    BY <1>w, <2>1, <2>2, <2>3, <2>4, <2>5, TbuStep
<1>6. ASSUME NEW n \in TempNames, S!Expire(n) PROVE S3Inv'
  <2>1. S!TypeOK' /\ FilesDistinct' /\ LeftIsOrphan' /\ WholeObjects'
    BY <1>6, <1>t DEF S!Expire, S!TypeOK, FilesDistinct, LeftIsOrphan, WholeObjects
  <2>2. \A b \in Writers : TbuOK(b)'
    BY <1>6, <1>t DEF S!Expire, S!TypeOK, TbuOK, LeftIsOrphan
  <2>3. S!TempsOwned'
    BY <1>6, <1>t DEF S3Inv, S!Expire, S!TypeOK, S!TempsOwned, S!PresentTemps
  <2> QED
    BY <2>1, <2>2, <2>3 DEF S3Inv
<1>7. CASE UNCHANGED s3Vars
  BY <1>7 DEF S3Inv, s3Vars, S!TypeOK, TbuOK, FilesDistinct, LeftIsOrphan, WholeObjects,
     S!TempsOwned, S!PresentTemps
<1> QED
  BY <1>1, <1>2, <1>3, <1>4, <1>5, <1>6, <1>7 DEF S!Next

\* And that of the S3 store.
THEOREM S3Invariance == S!Spec => []S3Inv
  BY S3InitInv, S3StepInv, PTL DEF S!Spec, S!vars, s3Vars

\* What S3 has under a hash is the content that hashes to it, whatever failed
\* while it was collected or uploaded.
THEOREM BucketIsContentAddressed == S!Spec => []S3ContentAddressed
<1>1. S3Inv => S3ContentAddressed
  BY DEF S3Inv, WholeObjects, S3ContentAddressed, S!ContentAddressed, S!Get
<1> QED
  BY <1>1, S3Invariance, PTL

\* A temporary file of the S3 store has exactly one handle that will remove
\* it, unless its removal failed or its process died.
THEOREM NoStrayFiles == S!Spec => []S3TempsOwned
<1>1. S3Inv => S3TempsOwned
  BY DEF S3Inv, S3TempsOwned
<1> QED
  BY <1>1, S3Invariance, PTL

TbuBlobs == [b \in Writers |-> S!Blob(b)]

\* A step that changes one handle only changes that handle of the abstract
\* store.
LEMMA OneTbu ==
  ASSUME NEW b \in Writers, NEW t, tbu \in [Writers -> S!TbUploaded],
         tbu' = [tbu EXCEPT ![b] = t]
  PROVE  TbuBlobs' = [TbuBlobs EXCEPT ![b] = S!Blob(b)'] /\ tbu'[b] = t
<1>1. \A c \in Writers : c # b => S!Blob(c)' = S!Blob(c)
  BY DEF S!Blob
<1> QED
  BY <1>1 DEF TbuBlobs

\* A handle that ends is released there, or was not known any more.
LEMMA TbuReleased ==
  ASSUME NEW b \in Writers, S!TypeOK, NEW t \in S!TbUploaded,
         t.st \in {"none", "failed"},
         tbu' = [tbu EXCEPT ![b] = t], UNCHANGED objects
  PROVE  S!Abstract!Release(b) \/ UNCHANGED S!Abstract!vars
<1>1. TbuBlobs' = [TbuBlobs EXCEPT ![b] = S!Blob(b)'] /\ tbu'[b] = t
  BY OneTbu DEF S!TypeOK
<1>2. S!Blob(b)' = S!Abstract!Idle /\ S!Keys' = S!Keys
  BY <1>1 DEF S!Blob, S!Abstract!Idle, S!Keys
<1>3. CASE tbu[b].st \in {"open", "uploaded", "committed"}
  <2>1. S!Blob(b).st # "idle"
    BY <1>3 DEF S!Blob
  <2> QED
    BY <1>1, <1>2, <2>1 DEF S!Abstract!Release, TbuBlobs
<1>4. CASE tbu[b].st \in {"none", "failed"}
  <2>1. S!Blob(b) = S!Abstract!Idle
    BY <1>4 DEF S!Blob, S!Abstract!Idle
  <2> QED
    BY <1>1, <1>2, <2>1 DEF S!Abstract!vars, TbuBlobs
<1> QED
  BY <1>3, <1>4 DEF S!TypeOK, S!TbUploaded

\* Every step of a handle is a step of the abstract store or changes nothing
\* there.
LEMMA TbuSimulates == S3Inv /\ [S!Next]_s3Vars => [S!Abstract!Next]_(S!Abstract!vars)
<1> SUFFICES ASSUME S3Inv, [S!Next]_s3Vars
             PROVE  S!Abstract!Next \/ UNCHANGED S!Abstract!vars
  OBVIOUS
<1>t. S!TypeOK /\ tbu \in [Writers -> S!TbUploaded]
  BY DEF S3Inv, S!TypeOK
<1>1. ASSUME NEW b \in Writers, NEW n \in TempNames, S!Put(b, n) PROVE S!Abstract!Put(b)
  <2>1. /\ TbuBlobs' = [TbuBlobs EXCEPT ![b] = S!Blob(b)']
        /\ tbu'[b] = S!Handle("open", n, <<>>)
    BY <1>1, <1>t, OneTbu DEF S!Put
  <2>2. S!Blob(b).st = "idle" /\ S!Blob(b)' = [st |-> "open", data |-> <<>>]
    BY <1>1, <2>1 DEF S!Put, S!Blob, S!Handle
  <2> QED
    BY <1>1, <2>1, <2>2 DEF S!Put, S!Abstract!Put, TbuBlobs, S!Keys
<1>2. ASSUME NEW b \in Writers, NEW p \in Payloads, S!Write(b, p)
      PROVE  S!Abstract!Write(b, p)
  <2>1. TbuBlobs' = [TbuBlobs EXCEPT ![b] = S!Blob(b)']
    BY <1>2, <1>t, OneTbu DEF S!Write
  <2>2. tbu'[b].st = "open" /\ tbu'[b].h = tbu[b].h \o p
    BY <1>2, <1>t DEF S!Write, S!TbUploaded
  <2>3. S!Blob(b) = [st |-> "open", data |-> tbu[b].h]
    BY <1>2 DEF S!Write, S!Blob
  <2>4. S!Blob(b)' = [st |-> "open", data |-> tbu[b].h \o p]
    BY <2>2 DEF S!Blob
  <2>5. TbuBlobs[b] = S!Blob(b)
    BY DEF TbuBlobs
  <2>6. /\ TbuBlobs[b].st = "open"
        /\ TbuBlobs' =
             [TbuBlobs EXCEPT ![b] = [st |-> "open", data |-> TbuBlobs[b].data \o p]]
    BY <2>1, <2>3, <2>4, <2>5
  <2>7. S!Keys' = S!Keys
    BY <1>2 DEF S!Write, S!Keys
  <2> QED
    BY <2>6, <2>7 DEF S!Abstract!Write, TbuBlobs
<1>3. ASSUME NEW b \in Writers, S!CommitUpload(b) PROVE S!Abstract!Commit(b)
  <2>1. TbuBlobs' = [TbuBlobs EXCEPT ![b] = S!Blob(b)']
    BY <1>3, <1>t, OneTbu DEF S!CommitUpload
  <2>2. tbu'[b].st = "uploaded" /\ tbu'[b].h = tbu[b].h
    BY <1>3, <1>t DEF S!CommitUpload, S!TbUploaded
  <2>3. S!Blob(b) = [st |-> "open", data |-> tbu[b].h]
    BY <1>3 DEF S!CommitUpload, S!Blob
  <2>4. S!Blob(b)' = [st |-> "committed", data |-> tbu[b].h]
    BY <2>2 DEF S!Blob
  <2>5. S!Keys' = S!Keys \cup {tbu[b].h}
    <3>1. PICK d : objects' = {o \in objects : o.name # tbu[b].h}
                                \cup {[name |-> tbu[b].h, data |-> d]}
      BY <1>3 DEF S!CommitUpload
    <3>2. ASSUME NEW k PROVE k \in S!Keys' <=> k \in S!Keys \cup {tbu[b].h}
      <4>1. [name |-> tbu[b].h, data |-> d].name = tbu[b].h
        OBVIOUS
      <4>2. k \in S!Keys' <=> \E o \in objects' : k = o.name
        BY DEF S!Keys
      <4>3. k \in S!Keys <=> \E o \in objects : k = o.name
        BY DEF S!Keys
      <4> QED
        BY <3>1, <4>1, <4>2, <4>3
    <3> QED
      BY <3>2
  <2>6. TbuBlobs[b] = S!Blob(b)
    BY DEF TbuBlobs
  <2>7. /\ TbuBlobs[b].st = "open"
        /\ TbuBlobs' =
             [TbuBlobs EXCEPT ![b] = [st |-> "committed", data |-> TbuBlobs[b].data]]
        /\ S!Keys' = S!Keys \cup {TbuBlobs[b].data}
    BY <2>1, <2>3, <2>4, <2>5, <2>6
  <2> QED
    BY <2>7 DEF S!Abstract!Commit, TbuBlobs
<1>4. ASSUME NEW b \in Writers, S!CommitReturns(b) PROVE UNCHANGED S!Abstract!vars
  <2>1. /\ TbuBlobs' = [TbuBlobs EXCEPT ![b] = S!Blob(b)']
        /\ tbu'[b] = S!Handle("committed", None, tbu[b].h)
    BY <1>4, <1>t, OneTbu DEF S!CommitReturns
  <2>2. S!Blob(b)' = S!Blob(b)
    BY <1>4, <2>1 DEF S!CommitReturns, S!Blob, S!Handle
  <2> QED
    BY <1>4, <2>1, <2>2 DEF S!CommitReturns, S!Abstract!vars, TbuBlobs, S!Keys
<1>5. ASSUME NEW b \in Writers,
             \/ S!CommitFails(b) \/ S!Cleanup(b) \/ S!Lose(b)
             \/ \E p \in Payloads : S!WriteFails(b, p)
      PROVE  S!Abstract!Release(b) \/ UNCHANGED S!Abstract!vars
  <2>1. CASE S!CommitFails(b) \/ \E p \in Payloads : S!WriteFails(b, p)
    <3>1. /\ [tbu[b] EXCEPT !.st = "failed"] \in S!TbUploaded
          /\ [tbu[b] EXCEPT !.st = "failed"].st = "failed"
      BY <1>t DEF S!TbUploaded
    <3>2. tbu' = [tbu EXCEPT ![b].st = "failed"] /\ UNCHANGED objects
      BY <2>1 DEF S!CommitFails, S!WriteFails
    <3> QED
      BY <1>t, <3>1, <3>2, TbuReleased
  <2>2. CASE S!Cleanup(b) \/ S!Lose(b)
    <3>1. S!NoHandle \in S!TbUploaded /\ S!NoHandle.st = "none"
      BY DEF S!NoHandle, S!Handle, S!TbUploaded
    <3>2. tbu' = [tbu EXCEPT ![b] = S!NoHandle] /\ UNCHANGED objects
      BY <2>2 DEF S!Cleanup, S!Lose
    <3> QED
      BY <1>t, <3>1, <3>2, TbuReleased
  <2> QED
    BY <1>5, <2>1, <2>2
<1>6. CASE (\E n \in TempNames : S!Expire(n)) \/ UNCHANGED s3Vars
  <2>1. UNCHANGED <<objects, tbu>>
    BY <1>6 DEF S!Expire, s3Vars
  <2> QED
    BY <2>1 DEF S!Abstract!vars, S!Blob, S!Keys
<1> QED
  BY <1>1, <1>2, <1>3, <1>4, <1>5, <1>6 DEF S!Next, S!Abstract!Next

\* The S3 store implements the abstract store: a blob is there from the
\* PutObject that was carried out, also when Commit fails after it.
THEOREM S3StoreImplementsBlobStore == S!Spec => S3ImplementsBlobStore
<1>1. S!Init => S!Abstract!Init
  BY DEF S!Init, S!Abstract!Init, S!Abstract!Idle, S!Blob, S!NoHandle, S!Handle, S!Keys
<1> QED
  BY <1>1, TbuSimulates, S3Invariance, PTL
  DEF S!Spec, S!vars, s3Vars, S3ImplementsBlobStore, S!ImplementsBlobStore
-----------------------------------------------------------------------------
(* The store a command works with.                                         *)

\* Each of the three stores takes only steps of its own specification, whichever
\* one --blobs-backend picks.
LEMMA EachBackendAlone == BackendSpec => Spec /\ R!Spec /\ S!Spec
<1>1. BackendInit => Init /\ R!Init /\ S!Init
  BY DEF BackendInit
<1>2. [BackendNext]_allVars => [Next]_vars /\ [R!Next]_(R!vars) /\ [S!Next]_(S!vars)
  BY DEF BackendNext, allVars, registryVars, s3Vars, vars, R!vars, S!vars
<1> QED
  BY <1>1, <1>2, PTL DEF BackendSpec, Spec, R!Spec, S!Spec

\* Whichever store --blobs-backend picks, it implements the abstract store and
\* leaves neither temporary files nor upload sessions without an owner.
THEOREM EveryBackendKeepsItsPromise ==
  BackendSpec =>
    /\ ImplementsBlobStore /\ RegistryImplementsBlobStore /\ S3ImplementsBlobStore
    /\ [](TempsOwned /\ RegistrySessionsOwned /\ S3TempsOwned)
  BY EachBackendAlone, DirectoryImplementsBlobStore, RegistryStoreImplementsBlobStore,
     S3StoreImplementsBlobStore, NoStrayTemps, NoStraySessions, NoStrayFiles, PTL
=============================================================================
