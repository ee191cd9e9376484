--------------------------- MODULE LockFileProofs ---------------------------
(***************************************************************************)
(* Proofs about LockFile, for every set of URLs and bodies and every       *)
(* sequence of calls.                                                      *)
(***************************************************************************)
EXTENDS LockFile, TLAPS

\* CleanMeansSaved alone does not survive CloseFails: a save that failed half
\* way leaves a torn file, and what saves the property is that it is dirty.
Inv == TypeOK /\ CleanMeansSaved /\ (st = "saving" => dirty)

\* The empty manifest is one.
LEMMA EmptyMapTyped == EmptyMap \in BlobMap /\ ReadOnly \in Options
PROOF
  BY DEF EmptyMap, BlobMap, ReadOnly, Options

\* The invariant holds before the manifest is first opened.
LEMMA InitInv == Init => Inv
PROOF
  BY EmptyMapTyped DEF Init, Inv, TypeOK, CleanMeansSaved, MutexFree

\* internalAddBlob keeps the invariant.
LEMMA AddKeepsInv ==
  ASSUME Inv, NEW u \in Urls, NEW i \in BlobInfo, internalAddBlob(u, i)
  PROVE  Inv'
PROOF
<1>1. CASE Conflict(u, i) \/ blobs[u] = i
  BY <1>1 DEF internalAddBlob, Inv, TypeOK, CleanMeansSaved, MutexFree
<1>2. CASE ~(Conflict(u, i) \/ blobs[u] = i)
  <2>1. blobs' = [blobs EXCEPT ![u] = i] /\ dirty' = TRUE
        /\ UNCHANGED <<st, options, previousBlobs, disk>>
    BY <1>2 DEF internalAddBlob
  <2>2. blobs' \in BlobMap
    BY <2>1 DEF Inv, TypeOK, BlobMap
  <2> QED
    BY <2>1, <2>2 DEF Inv, TypeOK, CleanMeansSaved
<1> QED
  BY <1>1, <1>2

\* What GetBlob finds is an entry.
LEMMA FoundTyped ==
  ASSUME TypeOK, NEW u \in Urls, Found(u) # None
  PROVE  Found(u) \in BlobInfo
PROOF
  BY DEF Found, TypeOK, BlobMap

\* The process is not there any more.
LEMMA NoProcessKeepsInv ==
  ASSUME NoProcess, disk' \in BlobMap \cup {NoFile, Torn}
  PROVE  Inv'
PROOF
  BY EmptyMapTyped DEF NoProcess, Inv, TypeOK, CleanMeansSaved, MutexFree

\* Every call keeps the invariant.
LEMMA StepInv == Inv /\ [Next]_vars => Inv'
PROOF
<1> SUFFICES ASSUME Inv, [Next]_vars PROVE Inv'
  OBVIOUS
<1>1. ASSUME NEW o \in Options, NewMapFile(o)
      PROVE  Inv'
  <2>1. blobs' = (IF disk = NoFile THEN EmptyMap ELSE disk) /\ blobs' \in BlobMap
    BY <1>1, EmptyMapTyped DEF NewMapFile, Loadable
  <2>2. dirty' = (disk = NoFile)
    BY <1>1 DEF NewMapFile
  <2>3. dirty' \in BOOLEAN /\ (~dirty' => disk = blobs')
    BY <2>1, <2>2
  <2>4. st' = "open" /\ options' = o /\ previousBlobs' = EmptyMap /\ disk' = disk
    BY <1>1 DEF NewMapFile
  <2> QED
    BY <2>1, <2>3, <2>4, EmptyMapTyped DEF Inv, TypeOK, CleanMeansSaved
<1>2. ASSUME NEW forget \in BOOLEAN, Reset(forget)
      PROVE  Inv'
  <2>1. /\ blobs' = EmptyMap /\ previousBlobs' \in BlobMap /\ st = "open"
        /\ UNCHANGED <<st, options, disk>>
    BY <1>2, EmptyMapTyped DEF Reset, Inv, TypeOK
  <2>2. dirty' = (dirty \/ blobs # EmptyMap)
    BY <1>2 DEF Reset
  <2>3. dirty' \in BOOLEAN /\ (~dirty' => ~dirty /\ blobs = EmptyMap)
    BY <2>2 DEF Inv, TypeOK
  <2> QED
    BY <2>1, <2>3, EmptyMapTyped DEF Inv, TypeOK, CleanMeansSaved, MutexFree
<1>3. ASSUME NEW u \in Urls, GetBlob(u)
      PROVE  Inv'
  <2>1. CASE Found(u) = None
    BY <1>3, <2>1 DEF GetBlob, vars, Inv, TypeOK, CleanMeansSaved, MutexFree
  <2>2. CASE Found(u) # None
    BY <1>3, <2>2, FoundTyped, AddKeepsInv DEF GetBlob, Inv
  <2> QED
    BY <2>1, <2>2
<1>4. ASSUME NEW u \in Urls, RemoveEntry(u)
      PROVE  Inv'
  <2>1. /\ blobs' = [blobs EXCEPT ![u] = None] /\ dirty' = TRUE
        /\ UNCHANGED <<st, options, previousBlobs, disk>>
    BY <1>4 DEF RemoveEntry
  <2>2. blobs' \in BlobMap
    BY <2>1 DEF Inv, TypeOK, BlobMap
  <2> QED
    BY <2>1, <2>2 DEF Inv, TypeOK, CleanMeansSaved
<1>5. ASSUME NEW u \in Urls, NEW i \in BlobInfo, AddBlob(u, i)
      PROVE  Inv'
  <2>1. CASE SkipSave(u)
    BY <1>5, <2>1 DEF AddBlob, vars, Inv, TypeOK, CleanMeansSaved, MutexFree
  <2>2. CASE ~SkipSave(u)
    BY <1>5, <2>2, AddKeepsInv DEF AddBlob
  <2> QED
    BY <2>1, <2>2
<1>6. CASE CloseClean \/ CloseTruncates
  BY <1>6 DEF CloseClean, CloseTruncates, MustSave, Inv, TypeOK, CleanMeansSaved, MutexFree
<1>7. CASE CloseWrites
  BY <1>7 DEF CloseWrites, Inv, TypeOK, CleanMeansSaved
<1>8. CASE CloseFails
  BY <1>8 DEF CloseFails, MustSave, Inv, TypeOK, CleanMeansSaved
<1>9. CASE Destroy \/ Die
  BY <1>9, NoProcessKeepsInv DEF Destroy, Die, Inv, TypeOK
<1>10. CASE UNCHANGED vars \/ \E o \in Options : NewMapFileFails(o)
  BY <1>10 DEF NewMapFileFails, vars, Inv, TypeOK, CleanMeansSaved, MutexFree
<1> QED
  BY <1>1, <1>2, <1>3, <1>4, <1>5, <1>6, <1>7, <1>8, <1>9, <1>10 DEF Next

\* The invariant holds in every state of every sequence of calls.
THEOREM Invariance == Spec => []Inv
PROOF
  BY InitInv, StepInv, PTL DEF Spec

\* Every variable keeps its type.
THEOREM TypeCorrect == Spec => []TypeOK
PROOF
<1>1. Inv => TypeOK
  BY DEF Inv
<1> QED
  BY <1>1, Invariance, PTL

\* A manifest that is not dirty is the file on disk, after any sequence of
\* calls, saves that failed and deaths of the process (CleanMeansSaved).
THEOREM SkippingSaveIsSafe == Spec => []CleanMeansSaved
PROOF
<1>1. Inv => CleanMeansSaved
  BY DEF Inv
<1> QED
  BY <1>1, Invariance, PTL

\* An entry never changes while the manifest is open (EntryNeverChanges).
THEOREM EntriesAreFinal == Spec => EntryNeverChanges
PROOF
<1> DEFINE Kept == \A u \in Urls :
             st # "closed" /\ st' # "closed" /\ ~options.AllowOverwrite
               /\ blobs[u] # None /\ blobs'[u] # None => blobs'[u] = blobs[u]
<1>1. ASSUME Inv, NEW v \in Urls, NEW i \in BlobInfo, internalAddBlob(v, i)
      PROVE  Kept
  <2>1. blobs \in [Urls -> BlobInfo \cup {None}]
    BY <1>1 DEF Inv, TypeOK, BlobMap
  <2>2. CASE Conflict(v, i) \/ blobs[v] = i
    BY <1>1, <2>2 DEF internalAddBlob
  <2>3. CASE ~(Conflict(v, i) \/ blobs[v] = i)
    <3>1. blobs' = [blobs EXCEPT ![v] = i]
      BY <1>1, <2>3 DEF internalAddBlob
    <3>2. blobs[v] = None \/ options.AllowOverwrite
      BY <2>3 DEF Conflict
    <3> QED
      BY <2>1, <3>1, <3>2
  <2> QED
    BY <2>2, <2>3
<1>2. ASSUME Inv, Next PROVE Kept
  <2>1. ASSUME NEW v \in Urls, GetBlob(v) \/ RemoveEntry(v)
        PROVE  Kept
    <3>1. CASE RemoveEntry(v)
      BY <1>2, <3>1 DEF RemoveEntry, Inv, TypeOK, BlobMap
    <3>2. CASE GetBlob(v) /\ Found(v) = None
      BY <3>2 DEF GetBlob, vars
    <3>3. CASE GetBlob(v) /\ Found(v) # None
      BY <1>1, <1>2, <3>3, FoundTyped DEF GetBlob, Inv
    <3> QED
      BY <2>1, <3>1, <3>2, <3>3
  <2>2. ASSUME NEW v \in Urls, NEW i \in BlobInfo, AddBlob(v, i)
        PROVE  Kept
    <3>1. CASE SkipSave(v)
      BY <2>2, <3>1 DEF AddBlob, vars
    <3>2. CASE ~SkipSave(v)
      BY <1>1, <1>2, <2>2, <3>2 DEF AddBlob
    <3> QED
      BY <3>1, <3>2
  <2>3. ASSUME NEW forget \in BOOLEAN, Reset(forget)
        PROVE  Kept
    BY <2>3 DEF Reset, EmptyMap
  <2>4. CASE CloseClean \/ CloseTruncates \/ CloseWrites \/ CloseFails
    BY <2>4 DEF CloseClean, CloseTruncates, CloseWrites, CloseFails
  <2>5. CASE Destroy \/ Die
    BY <2>5 DEF Destroy, Die, NoProcess
  <2>6. ASSUME NEW o \in Options, NewMapFile(o) \/ NewMapFileFails(o)
        PROVE  Kept
    BY <2>6 DEF NewMapFile, NewMapFileFails
  <2> HIDE DEF Kept
  <2> QED
    BY <1>2, <2>1, <2>2, <2>3, <2>4, <2>5, <2>6 DEF Next
<1>3. Inv /\ [Next]_vars => [Kept]_vars
  BY <1>2
<1> QED
  BY <1>3, Invariance, PTL DEF Spec, EntryNeverChanges
=============================================================================
