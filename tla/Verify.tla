------------------------------- MODULE Verify -------------------------------
(***************************************************************************)
(* htvend verify, with --fetch and --repair (htvend/command_verify.go, and *)
(* fetchAndSaveBlob of htvend/flags_listener.go, which it calls without a  *)
(* client to serve): it looks every entry of the manifest (LockFile) up in *)
(* the blob store, then fetches what was missing through RegistryAuth.     *)
(*                                                                         *)
(* It starts from any manifest and any blob store, damaged ones too, and   *)
(* other commands may add to the store while it runs.                      *)
(***************************************************************************)
EXTENDS Naturals

CONSTANTS
  Urls, Contents, None, NoFile, Torn,   \* as in LockFile
  Keys, Life, Margin, MaxDelay,         \* as in RegistryAuth
  KeyOf,         \* KeyOf[u]: the repository u belongs to, or None
  NoCacheUrls    \* URLs that --no-cache-response may match

VARIABLES
  st, options, blobs, previousBlobs, dirty, disk,   \* the manifest
  tokens, trip,    \* the transport
  store,     \* store[h]: what the blob store has under hash h, or None
  backend,   \* "s3", or one of the others, which honour the writable flag
  fetch,     \* --fetch
  repair,    \* --repair
  pc,        \* where Execute is
  todo,      \* the entries the current loop has still to visit
  missing,   \* missingList
  wrong,     \* wrongHashList
  cur,       \* what is being fetched
  got,       \* the BlobInfo of what has been fetched
  retErr,    \* what Execute is going to return
  before,    \* history: the manifest at the start
  refused    \* history: URLs the origin did not answer with 200

LF == INSTANCE LockFile
Auth == INSTANCE RegistryAuth

ASSUME VerifyAssumption ==
  /\ None \notin Contents \cup Urls \cup Keys /\ None \notin LF!BlobInfo
  /\ NoFile \notin LF!BlobMap /\ Torn \notin LF!BlobMap /\ NoFile # Torn
  /\ KeyOf \in [Urls -> Keys \cup {None}] /\ NoCacheUrls \subseteq Urls
  /\ Life \in Nat /\ Margin \in Nat /\ MaxDelay \in Nat
  /\ MaxDelay + MaxDelay <= Life /\ MaxDelay + MaxDelay <= Margin

fileVars == <<st, options, blobs, previousBlobs, dirty, disk>>
authVars == <<tokens, trip>>
flagVars == <<backend, fetch, repair>>
listVars == <<todo, missing, wrong, cur, got>>
histVars == <<before, refused>>
vars == <<fileVars, authVars, store, flagVars, pc, listVars, retErr, histVars>>

\* Every variable has its type.
TypeOK ==
  /\ LF!TypeOK /\ Auth!AuthTypeOK
  /\ store \in [Contents -> Contents \cup {None}]
  /\ backend \in {"filesystem", "s3"} /\ fetch \in BOOLEAN /\ repair \in BOOLEAN
  /\ pc \in {"start", "scan", "fetch", "save", "close", "done"}
  /\ todo \subseteq Urls /\ missing \subseteq Urls /\ wrong \subseteq Urls
  /\ cur \in Urls \cup {None}
  /\ got \in LF!BlobInfo \cup {None}
  /\ retErr \in {"none", "ok", "error", "readonly", "panic", "killed"}
  /\ before \in LF!BlobMap
  /\ refused \subseteq Urls

\* The entries a manifest can have (HEAD left aside): a length is the body's.
Recordable == {i \in LF!BlobInfo : i.len \in {None, i.sha}}

Init ==
  /\ st = "closed" /\ options = LF!ReadOnly /\ dirty = FALSE
  /\ blobs = LF!EmptyMap /\ previousBlobs = LF!EmptyMap
  /\ disk \in [Urls -> Recordable \cup {None}] \cup {NoFile, Torn}
  /\ Auth!AuthInit
  /\ store \in [Contents -> Contents \cup {None}]
  /\ backend \in {"filesystem", "s3"} /\ fetch \in BOOLEAN /\ repair \in BOOLEAN
  /\ pc = "start" /\ retErr = "none"
  /\ todo = {} /\ missing = {} /\ wrong = {} /\ cur = None /\ got = None
  /\ before = LF!EmptyMap /\ refused = {}

Return(how) ==
  /\ pc' = "close"
  /\ retErr' = how
  /\ todo' = {} /\ cur' = None /\ got' = None
  /\ tokens' = Auth!NoTokens /\ trip' = Auth!Idle
-----------------------------------------------------------------------------
(* Execute: the manifest is opened.                                        *)

Entries(m) == {u \in Urls : m[u] # None}

\* MakeManifestFile, then MakeBlobStore, which may fail.
Start ==
  /\ pc = "start"
  /\ \E nc \in SUBSET NoCacheUrls :
       LF!NewMapFile([Writable |-> repair, AllowOverwrite |-> repair, NoCache |-> nc])
  /\ before' = blobs'
  /\ \/ /\ pc' = "scan" /\ todo' = Entries(blobs')
        /\ UNCHANGED <<retErr, cur, got, authVars>>
     \/ Return("error")
  /\ UNCHANGED <<store, flagVars, missing, wrong, refused>>

\* NewMapFile fails, and with the lock held it panics.
StartFails ==
  /\ pc = "start"
  /\ LF!NewMapFileFails([Writable |-> repair, AllowOverwrite |-> repair, NoCache |-> {}])
  /\ pc' = "done"
  /\ retErr' = IF repair THEN "panic" ELSE "error"
  /\ UNCHANGED <<authVars, store, flagVars, listVars, histVars>>
-----------------------------------------------------------------------------
(* doValidate: ForEach entry, in any order, the blob is read and hashed.   *)

\* Get finds the blob, or reports ErrBlobNotExist, which the S3 store never
\* does.
Scan(u) ==
  /\ pc = "scan" /\ u \in todo
  /\ LET has == store[blobs[u].sha]
     IN  /\ has = None => backend # "s3"
         /\ missing' = IF has = None THEN missing \cup {u} ELSE missing
         /\ wrong' = IF has \notin {None, blobs[u].sha} THEN wrong \cup {u} ELSE wrong
  /\ todo' = todo \ {u}
  /\ UNCHANGED <<fileVars, authVars, store, flagVars, pc, cur, got, retErr, histVars>>

\* Any other error of Get, or one while reading, ends the loop and doValidate.
ScanFails ==
  /\ pc = "scan" /\ todo # {}
  /\ Return("error")
  /\ UNCHANGED <<fileVars, store, flagVars, missing, wrong, histVars>>

\* The error doValidate ends with: missing assets if nothing may be fetched,
\* and all wrong hashes.
Result ==
  IF (missing # {} /\ ~(fetch \/ repair)) \/ wrong # {} THEN "error" ELSE "ok"

\* The loop over missingList begins if there is something to fetch for it.
ScanEnds ==
  /\ pc = "scan" /\ todo = {}
  /\ IF fetch \/ repair
       THEN /\ pc' = "fetch" /\ todo' = missing
            /\ UNCHANGED <<retErr, cur, got, authVars>>
       ELSE Return(Result)
  /\ UNCHANGED <<fileVars, store, flagVars, missing, wrong, histVars>>
-----------------------------------------------------------------------------
(* fetchAndSaveBlob for each missing entry.                                *)

FetchStarts(u) ==
  /\ pc = "fetch" /\ u \in todo /\ cur = None
  /\ Auth!RoundTrip(KeyOf[u])
  /\ cur' = u /\ todo' = todo \ {u}
  /\ UNCHANGED <<fileVars, store, flagVars, pc, missing, wrong, got, retErr, histVars>>

Travel ==
  /\ pc = "fetch" /\ cur # None
  /\ Auth!Challenge \/ Auth!Issue \/ Auth!Receive \/ Auth!Answer \/ Auth!TripFails
  /\ UNCHANGED <<fileVars, store, flagVars, pc, listVars, retErr, histVars>>

Tick ==
  /\ pc = "fetch"
  /\ Auth!Tick
  /\ UNCHANGED <<fileVars, store, flagVars, pc, listVars, retErr, histVars>>

\* client.Do fails.
FetchFails ==
  /\ pc = "fetch" /\ trip.at = "error"
  /\ Return("error")
  /\ UNCHANGED <<fileVars, store, flagVars, missing, wrong, histVars>>

\* A status other than 200, or a URL not to be cached: nothing is saved, and
\* without a client to pass the answer to there is no error either.
FetchPassed ==
  /\ pc = "fetch"
  /\ \/ trip.at \in {"refused", "expired"}
     \/ trip.at = "ok" /\ LF!SkipSave(cur)
  /\ refused' = IF trip.at = "refused" THEN refused \cup {cur} ELSE refused
  /\ cur' = None /\ trip' = Auth!Idle
  /\ UNCHANGED <<fileVars, tokens, store, flagVars, pc, todo, missing, wrong, got, retErr, before>>

Saving == pc = "fetch" /\ trip.at = "ok" /\ ~LF!SkipSave(cur)

\* MakeBlobStore was given --fetch alone; the S3 store does not look at it.
StoreWritable == fetch \/ backend = "s3"

\* Put is refused; or Put, the copy or Commit fails.
SaveFails ==
  /\ Saving
  /\ Return(IF StoreWritable THEN "error" ELSE "readonly")
  /\ UNCHANGED <<fileVars, store, flagVars, missing, wrong, histVars>>

\* A plausible bug: the entry is recorded though its blob is not committed.
SaveUncommitted(i) ==
  /\ Saving /\ StoreWritable
  /\ got' = i /\ pc' = "save"
  /\ trip' = Auth!Idle
  /\ UNCHANGED <<fileVars, tokens, store, flagVars, todo, missing, wrong, cur, retErr, histVars>>

\* The body is copied and committed.
Save(i) ==
  /\ Saving /\ StoreWritable
  /\ store' = [store EXCEPT ![i.sha] = i.sha]
  /\ got' = i /\ pc' = "save"
  /\ trip' = Auth!Idle
  /\ UNCHANGED <<fileVars, tokens, flagVars, todo, missing, wrong, cur, retErr, histVars>>

\* A plausible bug: the result of AddBlob is not looked at.
RecordUnchecked ==
  /\ pc = "save"
  /\ LF!AddBlob(cur, got)
  /\ pc' = "fetch" /\ cur' = None /\ got' = None
  /\ UNCHANGED <<authVars, todo, retErr, store, flagVars, missing, wrong, histVars>>

\* AddBlob: without --repair an entry that differs in its hash or headers is
\* an error.  After it the deferred functions may fail.
Record ==
  /\ pc = "save"
  /\ LF!AddBlob(cur, got)
  /\ \/ /\ ~LF!AddError(cur, got)
        /\ pc' = "fetch" /\ cur' = None /\ got' = None
        /\ UNCHANGED <<authVars, todo, retErr>>
     \/ Return("error")
  /\ UNCHANGED <<store, flagVars, missing, wrong, histVars>>

FetchEnds ==
  /\ pc = "fetch" /\ todo = {} /\ cur = None
  /\ Return(Result)
  /\ UNCHANGED <<fileVars, store, flagVars, missing, wrong, histVars>>
-----------------------------------------------------------------------------
(* The deferred Close, whatever doValidate returned; and the environment.  *)

Close ==
  /\ pc = "close"
  /\ \/ LF!CloseTruncates /\ UNCHANGED <<pc, retErr>>
     \/ /\ LF!CloseClean \/ LF!CloseWrites
        /\ pc' = "done"
        /\ UNCHANGED retErr \/ (options.Writable /\ retErr' = "error")
     \/ LF!CloseFails /\ pc' = "done" /\ retErr' = "error"
  /\ UNCHANGED <<authVars, store, flagVars, listVars, histVars>>

Kill ==
  /\ pc \notin {"start", "done"}
  /\ LF!Die
  /\ pc' = "done" /\ retErr' = "killed"
  /\ todo' = {} /\ cur' = None /\ got' = None
  /\ tokens' = Auth!NoTokens /\ trip' = Auth!Idle
  /\ UNCHANGED <<store, flagVars, missing, wrong, histVars>>

\* Another command commits a blob to the same store.
OtherStores(h) ==
  /\ pc # "done" /\ store[h] # h
  /\ store' = [store EXCEPT ![h] = h]
  /\ UNCHANGED <<fileVars, authVars, flagVars, pc, listVars, retErr, histVars>>

Next ==
  \/ Start \/ StartFails
  \/ \E u \in Urls : Scan(u) \/ FetchStarts(u)
  \/ ScanFails \/ ScanEnds
  \/ Travel \/ Tick \/ FetchFails \/ FetchPassed \/ SaveFails
  \/ \E i \in Recordable : Save(i)
  \/ Record \/ FetchEnds \/ Close \/ Kill
  \/ \E h \in Contents : OtherStores(h)

Spec == Init /\ [][Next]_vars
-----------------------------------------------------------------------------
(* Properties.                                                             *)

Present(i) == store[i.sha] = i.sha

\* When verify reports success, the manifest it leaves on disk is complete and
\* every entry's blob is in the store with the right content, except for URLs
\* not to be cached and those the origin itself refused to send (doValidate).
ConfirmedUnlessRefused ==
  pc = "done" /\ retErr = "ok" =>
    /\ disk \in LF!BlobMap
    /\ \A u \in Entries(disk) :
         Present(disk[u]) \/ u \in options.NoCache \cup refused

\* However verify ends, an entry of the manifest on disk is the one it started
\* with, or --repair was given, the blob of the old entry was missing, and the
\* blob of the new one is in the store (AddBlob after Commit, AllowOverwrite).
ReplacesOnlyMissing ==
  pc # "start" /\ disk \in LF!BlobMap =>
    \A u \in Urls : disk[u] = before[u] \/
      (repair /\ u \in missing /\ disk[u] # None /\ Present(disk[u]))

\* No token is presented after it has expired (TokenInTime of RegistryAuth).
TokenInTime == Auth!TokenInTime
-----------------------------------------------------------------------------
(* A statement of the documentation that the code does not always keep.    *)

\* README.md:149-150: "htvend verify (optionally with --fetch) is a good way to
\* confirm that a given blob store actually has everything assets.json
\* references".
VerifyConfirms ==
  pc = "done" /\ retErr = "ok" => \A u \in Entries(disk) : Present(disk[u])
=============================================================================
