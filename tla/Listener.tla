------------------------------ MODULE Listener ------------------------------
(***************************************************************************)
(* htvend build and htvend offline: the proxy's request handlers           *)
(* (htvend/flags_listener.go) running concurrently against one manifest    *)
(* (LockFile) and one blob store (BlobStore, of which only the set of      *)
(* readable blobs matters here), inside the life of the command            *)
(* (htvend/command_build.go, htvend/command_offline.go), run after run.    *)
(*                                                                         *)
(* The upstream servers, the sub-process that sends the requests and the   *)
(* user who starts, stops and kills the command are the environment.       *)
(***************************************************************************)
CONSTANTS
  Urls, Contents, None, NoFile, Torn,   \* as in LockFile
  Empty,         \* the body of no bytes
  Handlers,      \* requests being handled at one time
  Methods,       \* request methods: "GET", "HEAD", and "POST" for all others
  Upstream,      \* Upstream[u]: the bodies the origin may send for a GET of u
  NoCacheUrls,   \* URLs that match --no-cache-response (build)
  DummyUrls      \* URLs that match --dummy-ok-response (offline)

VARIABLES
  st, options, blobs, previousBlobs, dirty, disk,   \* the manifest
  stored,   \* the blobs in the blob store
  phase,    \* "off", "init", "serving" or "stopping"
  mode,     \* the command: "build", "offline", or "none" when off
  forced,   \* --force-refresh of this build
  exit,     \* how the last command ended, or is about to
  orig,     \* history: the manifest this command started from
  pc,       \* pc[r]: where handler r is
  url,      \* url[r]: its URL
  meth,     \* meth[r]: its method
  info,     \* info[r]: the BlobInfo it serves or records
  reply,    \* reply[r]: what its client has seen
  err       \* err[r]: did handleMainServerRequest return an error?

LF == INSTANCE LockFile

ASSUME ListenerAssumption ==
  /\ Empty \in Contents
  /\ Methods \subseteq {"GET", "HEAD", "POST"}
  /\ Upstream \in [Urls -> SUBSET Contents]
  /\ NoCacheUrls \subseteq Urls /\ DummyUrls \subseteq Urls
  /\ None \notin Contents /\ None \notin LF!BlobInfo
  /\ NoFile \notin LF!BlobMap /\ Torn \notin LF!BlobMap /\ NoFile # Torn

fileVars == <<st, options, blobs, previousBlobs, dirty, disk>>
runVars == <<phase, mode, forced, exit, orig>>
reqVars == <<pc, url, meth, info, reply, err>>
vars == <<fileVars, stored, runVars, reqVars>>

Replies ==
  {"none",      \* nothing, or not all of it, so far
   "whole",     \* 200 and the body announced
   "broken",    \* 200, but the connection ended early
   "garbled",   \* 200, and the error text at the end of the body
   "passed",    \* a response that is not to be recorded
   "dummy",     \* 200 without a body
   "missing",   \* 404 "missing asset"
   "failed"}    \* 500 "see proxy server log for details"

\* Every variable has its type.
TypeOK ==
  /\ LF!TypeOK
  /\ stored \subseteq Contents
  /\ phase \in {"off", "init", "serving", "stopping"}
  /\ mode \in {"none", "build", "offline"}
  /\ forced \in BOOLEAN
  /\ exit \in {"none", "ok", "error", "panic", "killed"}
  /\ orig \in LF!BlobMap
  /\ pc \in [Handlers -> {"idle", "start", "serve", "fetch", "copy", "commit",
                          "add", "done"}]
  /\ url \in [Handlers -> Urls \cup {None}]
  /\ meth \in [Handlers -> Methods \cup {None}]
  /\ info \in [Handlers -> LF!BlobInfo \cup {None}]
  /\ reply \in [Handlers -> Replies]
  /\ err \in [Handlers -> BOOLEAN]

Init ==
  /\ LF!Init
  /\ stored = {}
  /\ phase = "off" /\ mode = "none" /\ forced = FALSE /\ exit = "none"
  /\ orig = LF!EmptyMap
  /\ pc = [r \in Handlers |-> "idle"]
  /\ url = [r \in Handlers |-> None]
  /\ meth = [r \in Handlers |-> None]
  /\ info = [r \in Handlers |-> None]
  /\ reply = [r \in Handlers |-> "none"]
  /\ err = [r \in Handlers |-> FALSE]
-----------------------------------------------------------------------------
(* The command.                                                            *)

OptionsOf(cmd) ==
  IF cmd = "build"
    THEN [Writable |-> TRUE, AllowOverwrite |-> FALSE, NoCache |-> NoCacheUrls]
    ELSE LF!ReadOnly

\* Execute up to the manifest being open.  Only build goes on to reset it.
Start(cmd, force) ==
  /\ phase = "off"
  /\ LF!NewMapFile(OptionsOf(cmd))
  /\ phase' = IF cmd = "build" THEN "init" ELSE "serving"
  /\ mode' = cmd
  /\ forced' = (cmd = "build" /\ force)
  /\ exit' = "none"
  /\ orig' = blobs'
  /\ UNCHANGED <<stored, reqVars>>

\* NewMapFile cannot load the manifest.  With the lock held, its deferred
\* function then calls Close on the nil *File it is about to return.
StartFails(cmd) ==
  /\ phase = "off"
  /\ LF!NewMapFileFails(OptionsOf(cmd))
  /\ exit' = IF cmd = "build" THEN "panic" ELSE "error"
  /\ UNCHANGED <<stored, phase, mode, forced, orig, reqVars>>

\* build: Reset, and the listeners are started.
Reset ==
  /\ phase = "init"
  /\ LF!Reset(forced)
  /\ phase' = "serving"
  /\ UNCHANGED <<stored, mode, forced, exit, orig, reqVars>>

\* The sub-process ends, or a signal arrives, or a server fails: the context
\* is cancelled and both calls of Serve return.  Nothing waits for handlers.
Stop ==
  /\ phase = "serving"
  /\ phase' = "stopping"
  /\ exit' \in {"ok", "error"}
  /\ UNCHANGED <<fileVars, stored, mode, forced, orig, reqVars>>

\* The deferred mf.Close() of Execute.  It also fails, after a save that went
\* well, if the lock of a writable manifest cannot be released or removed.
Close ==
  /\ phase = "stopping"
  /\ LF!CloseClean \/ LF!CloseTruncates \/ LF!CloseWrites
  /\ \/ UNCHANGED exit
     \/ options.Writable /\ st' = "saved" /\ exit' = "error"
  /\ UNCHANGED <<stored, phase, mode, forced, orig, reqVars>>

\* A plausible bug: the error of the deferred Close is dropped.
CloseErrorDropped ==
  /\ phase = "stopping"
  /\ LF!CloseFails
  /\ UNCHANGED <<stored, runVars, reqVars>>

CloseFails ==
  /\ phase = "stopping"
  /\ LF!CloseFails
  /\ exit' = "error"
  /\ UNCHANGED <<stored, phase, mode, forced, orig, reqVars>>

\* The process is gone, with every handler in it.
Gone ==
  /\ LF!Die
  /\ phase' = "off" /\ mode' = "none" /\ forced' = FALSE
  /\ orig' = LF!EmptyMap
  /\ pc' = [r \in Handlers |-> "idle"]
  /\ url' = [r \in Handlers |-> None]
  /\ meth' = [r \in Handlers |-> None]
  /\ info' = [r \in Handlers |-> None]
  /\ reply' = [r \in Handlers |-> "none"]
  /\ err' = [r \in Handlers |-> FALSE]
  /\ UNCHANGED stored

\* A plausible bug: the command waits for its handlers before it leaves.
ExitWaits ==
  /\ phase = "stopping" /\ st = "saved"
  /\ \A r \in Handlers : pc[r] \in {"idle", "done"}
  /\ Gone
  /\ UNCHANGED exit

Exit ==
  /\ phase = "stopping" /\ st = "saved"
  /\ Gone
  /\ UNCHANGED exit

Kill ==
  /\ phase # "off"
  /\ Gone
  /\ exit' = "killed"

\* Between two commands the blob store may lose a blob (its directory was
\* emptied, or the manifest came from another machine).
LoseBlob(c) ==
  /\ phase = "off"
  /\ c \in stored
  /\ stored' = stored \ {c}
  /\ UNCHANGED <<fileVars, runVars, reqVars>>
-----------------------------------------------------------------------------
(* The handlers: handleMainServerRequest.                                  *)

\* A request comes in on a connection that is open, which Shutdown does not
\* close if it was accepted just before.
Accept(r, u, m) ==
  /\ phase \in {"serving", "stopping"}
  /\ pc[r] \in {"idle", "done"}
  /\ pc' = [pc EXCEPT ![r] = "start"]
  /\ url' = [url EXCEPT ![r] = u]
  /\ meth' = [meth EXCEPT ![r] = m]
  /\ info' = [info EXCEPT ![r] = None]
  /\ reply' = [reply EXCEPT ![r] = "none"]
  /\ err' = [err EXCEPT ![r] = FALSE]
  /\ UNCHANGED <<fileVars, stored, runVars>>

Finish(r, what, failed) ==
  /\ pc' = [pc EXCEPT ![r] = "done"]
  /\ reply' = [reply EXCEPT ![r] = what]
  /\ err' = [err EXCEPT ![r] = failed]
  /\ UNCHANGED <<url, meth>>

Dummy(r) == mode = "offline" /\ url[r] \in DummyUrls

DummyOK(r) ==
  /\ pc[r] = "start" /\ Dummy(r)
  /\ Finish(r, "dummy", FALSE)
  /\ UNCHANGED <<fileVars, stored, runVars, info>>

\* A plausible bug: the mutex is held while another handler fetches.
LookupBlocked(r) ==
  /\ pc[r] = "start" /\ ~Dummy(r)
  /\ \A q \in Handlers : pc[q] # "fetch"
  /\ LF!Found(url[r]) # None
  /\ LF!GetBlob(url[r])
  /\ pc' = [pc EXCEPT ![r] = "serve"]
  /\ info' = [info EXCEPT ![r] = LF!Found(url[r])]
  /\ UNCHANGED <<stored, runVars, url, meth, reply, err>>

\* GetBlob finds an entry.
LookupFound(r) ==
  /\ pc[r] = "start" /\ ~Dummy(r)
  /\ LF!Found(url[r]) # None
  /\ LF!GetBlob(url[r])
  /\ pc' = [pc EXCEPT ![r] = "serve"]
  /\ info' = [info EXCEPT ![r] = LF!Found(url[r])]
  /\ UNCHANGED <<stored, runVars, url, meth, reply, err>>

\* A plausible bug: offline goes on to fetch what is missing.
LookupAlwaysFetches(r) ==
  /\ pc[r] = "start" /\ ~Dummy(r)
  /\ LF!Found(url[r]) = None
  /\ LF!GetBlob(url[r])
  /\ pc' = [pc EXCEPT ![r] = "fetch"]
  /\ UNCHANGED <<stored, runVars, url, meth, info, reply, err>>

\* GetBlob finds none: build sets FetchIfMissing, offline FailIfMissing.
\* The method plays no part, here or in the lookup.
LookupMissing(r) ==
  /\ pc[r] = "start" /\ ~Dummy(r)
  /\ LF!Found(url[r]) = None
  /\ LF!GetBlob(url[r])
  /\ IF mode = "build"
       THEN pc' = [pc EXCEPT ![r] = "fetch"] /\ UNCHANGED <<url, meth, reply, err>>
       ELSE Finish(r, "missing", FALSE)
  /\ UNCHANGED <<stored, runVars, info>>

\* What the client sees when the handler ends without, or in the middle of,
\* the body: http.Error appends its text to a body of unknown length, and a
\* body of known length comes up short.
CutShort(r) ==
  IF meth[r] = "HEAD" THEN "whole"
  ELSE IF info[r].len = None THEN "garbled" ELSE "broken"

\* serveFoundBlob.  The cached Content-Length is sent whatever the size of
\* the blob is.
Serve(r) ==
  /\ pc[r] = "serve"
  /\ info[r].sha \in stored
  /\ \/ LET fits == meth[r] = "HEAD" \/ info[r].len \in {None, info[r].sha}
        IN  Finish(r, IF fits THEN "whole" ELSE "broken", FALSE)
     \/ Finish(r, CutShort(r), TRUE)
  /\ UNCHANGED <<fileVars, stored, runVars, info>>

\* The store has no such blob, or cannot be reached.
ServeFails(r) ==
  /\ pc[r] = "serve"
  /\ Finish(r, "failed", TRUE)
  /\ UNCHANGED <<fileVars, stored, runVars, info>>
-----------------------------------------------------------------------------
(* The handlers: fetchAndSaveBlob.                                         *)

\* client.Do fails.
FetchFails(r) ==
  /\ pc[r] = "fetch"
  /\ Finish(r, "failed", TRUE)
  /\ UNCHANGED <<fileVars, stored, runVars, info>>

\* A response that is not saved: the URL is not to be cached or the status is
\* not 200.  It is copied to the client, all of it or not.
FetchPassed(r) ==
  /\ pc[r] = "fetch"
  /\ \/ Finish(r, "passed", FALSE)
     \/ Finish(r, "broken", TRUE)
  /\ UNCHANGED <<fileVars, stored, runVars, info>>

\* The bodies a 200 response may announce: to another method than GET and HEAD
\* an origin may answer anything.
Bodies(r) == IF meth[r] \in {"GET", "HEAD"} THEN Upstream[url[r]] ELSE Contents

\* What would be recorded of the response c: a response to HEAD has the headers
\* of c and no body, and filterHeaders keeps the Content-Length if there is one.
Recorded(r, c) ==
  [sha : {IF meth[r] = "HEAD" THEN Empty ELSE c}, len : {c, None}]

\* A response to be saved: the client gets the status and headers, and the
\* store a new blob.
FetchOK(r, c) ==
  /\ pc[r] = "fetch" /\ ~LF!SkipSave(url[r])
  /\ c \in Bodies(r)
  /\ \E i \in Recorded(r, c) : info' = [info EXCEPT ![r] = i]
  /\ pc' = [pc EXCEPT ![r] = "copy"]
  /\ UNCHANGED <<fileVars, stored, runVars, url, meth, reply, err>>

\* A plausible bug: the asset is recorded though its blob is not committed.
CopyThenAdd(r) ==
  /\ pc[r] = "copy"
  /\ pc' = [pc EXCEPT ![r] = "add"]
  /\ UNCHANGED <<fileVars, stored, runVars, url, meth, info, reply, err>>

\* A plausible bug: the error of the copy is dropped, and what came is saved.
CopyTruncates(r) ==
  /\ pc[r] = "copy"
  /\ info' = [info EXCEPT ![r] = [sha |-> Empty, len |-> info[r].len]]
  /\ pc' = [pc EXCEPT ![r] = "commit"]
  /\ UNCHANGED <<fileVars, stored, runVars, url, meth, reply, err>>

\* The body is copied to the client and, by way of the tee, to the blob.  If
\* its length was announced the client may have all of it now; otherwise its
\* end, like the headers of a response without a body, is sent when the handler
\* returns.
Copy(r) ==
  /\ pc[r] = "copy"
  /\ pc' = [pc EXCEPT ![r] = "commit"]
  /\ \E seen \in {"none", "whole"} :
       /\ seen = "whole" => meth[r] # "HEAD" /\ info[r].len # None
       /\ reply' = [reply EXCEPT ![r] = seen]
  /\ UNCHANGED <<fileVars, stored, runVars, url, meth, info, err>>

\* Put, reading the body, writing to the client or writing the blob fails.
CopyFails(r) ==
  /\ pc[r] = "copy"
  /\ Finish(r, CutShort(r), TRUE)
  /\ UNCHANGED <<fileVars, stored, runVars, info>>

\* What the client sees when the handler fails after the whole body.
AfterBody(r) ==
  IF meth[r] = "HEAD" \/ info[r].len # None THEN "whole" ELSE "garbled"

Commit(r) ==
  /\ pc[r] = "commit"
  /\ stored' = stored \cup {info[r].sha}
  /\ pc' = [pc EXCEPT ![r] = "add"]
  /\ UNCHANGED <<fileVars, runVars, url, meth, info, reply, err>>

CommitFails(r) ==
  /\ pc[r] = "commit"
  /\ Finish(r, AfterBody(r), TRUE)
  /\ UNCHANGED <<fileVars, stored, runVars, info>>

\* AddBlob, which fails if another handler has recorded something else for
\* the URL since the lookup.  After it the deferred functions close the
\* response and clean up, which may be an error too.
AddBlob(r) ==
  /\ pc[r] = "add"
  /\ LF!AddBlob(url[r], info[r])
  /\ IF LF!AddError(url[r], info[r])
       THEN Finish(r, AfterBody(r), TRUE)
       ELSE Finish(r, "whole", FALSE) \/ Finish(r, AfterBody(r), TRUE)
  /\ UNCHANGED <<stored, runVars, info>>
-----------------------------------------------------------------------------
Handle(r) ==
  \/ DummyOK(r) \/ LookupFound(r) \/ LookupMissing(r)
  \/ Serve(r) \/ ServeFails(r)
  \/ FetchFails(r) \/ FetchPassed(r) \/ \E c \in Contents : FetchOK(r, c)
  \/ Copy(r) \/ CopyFails(r)
  \/ Commit(r) \/ CommitFails(r)
  \/ AddBlob(r)

Next ==
  \/ \E cmd \in {"build", "offline"} :
       StartFails(cmd) \/ \E force \in BOOLEAN : Start(cmd, force)
  \/ Reset
  \/ \E r \in Handlers :
       Handle(r) \/ \E u \in Urls, m \in Methods : Accept(r, u, m)
  \/ Stop \/ Close \/ CloseFails \/ Exit \/ Kill
  \/ \E c \in Contents : LoseBlob(c)

Spec == Init /\ [][Next]_vars

\* Once a command is stopping, closing the manifest and leaving depend on
\* nobody else; a handler that was given its blob by the manifest runs on.
\* Nothing is assumed of the upstream servers or of the user.
FairSpec ==
  /\ Spec
  /\ WF_vars(Close) /\ WF_vars(Exit)
  /\ \A r \in Handlers :
       WF_vars(DummyOK(r) \/ LookupFound(r) \/ Serve(r) \/ ServeFails(r))
-----------------------------------------------------------------------------
(* Properties.                                                             *)

Running == phase \in {"serving", "stopping"}

\* Everything a build has in its manifest can be read from the blob store,
\* except what it took over unchanged from the manifest it started from
\* (fetchAndSaveBlob commits the blob before it records it).
Backed ==
  mode = "build" /\ Running =>
    \A u \in Urls : blobs[u] # None => blobs[u].sha \in stored \/ blobs[u] = orig[u]

\* Without --force-refresh a build neither replaces nor even fetches again
\* what its manifest pinned when it started (Reset and GetBlob).
Pinned ==
  mode = "build" /\ Running /\ ~forced =>
    \A u \in Urls : orig[u] # None =>
      /\ blobs[u] \in {None, orig[u]}
      /\ \A r \in Handlers :
           url[r] = u /\ u \notin NoCacheUrls =>
             pc[r] \notin {"fetch", "copy", "commit", "add"}

\* When a handler reports success for a recorded asset, the manifest has
\* exactly the entry its client was served from, whatever the other handlers
\* did since it looked the URL up (handleMainServerRequest).
HonestSuccess ==
  \A r \in Handlers :
    pc[r] = "done" /\ ~err[r] /\ info[r] # None => blobs[url[r]] = info[r]

\* What GetBlob answers for a URL never changes for the rest of the command,
\* though the entry moves from previousBlobs to blobs and fetches of the same
\* URL race (GetBlob, internalAddBlob).
AnswerIsStable ==
  [][Running /\ phase' # "off" =>
       \A u \in Urls : LF!Found(u) # None => LF!Found(u)' = LF!Found(u)]_vars

\* Every handler that has reported success when the manifest is saved is in
\* the saved file with the entry it served (save of lock_file.go, and the
\* dirty flag that decides whether it writes).
FinishedIsSaved ==
  [][st # "saved" /\ st' = "saved" /\ exit' = "ok" =>
       \A r \in Handlers :
         pc[r] = "done" /\ ~err[r] /\ info[r] # None
           => disk' \in LF!BlobMap /\ disk'[url[r]] = info[r]]_vars

\* A command that ended well leaves a complete manifest behind, so the next
\* one can start; only a failed or killed one leaves a torn file or none.
SuccessLeavesManifest == phase = "off" /\ exit = "ok" => disk \in LF!BlobMap

\* htvend offline contacts no upstream server and changes neither manifest
\* nor blob store (README.md:60, "with no upstream connection").
OfflineIsHermetic ==
  [][mode = "offline" =>
       /\ UNCHANGED <<disk, stored>>
       /\ \A r \in Handlers : pc'[r] \notin {"fetch", "copy", "commit", "add"}]_vars

\* A command that is told to stop does end, however many requests hang
\* waiting for an upstream server (http.DefaultClient has no timeout).
StopLeadsToExit == phase = "stopping" ~> phase = "off"

\* A request for a recorded asset is answered, however many other requests
\* hang waiting for an upstream server, unless the command ends first.
HitIsAnswered ==
  \A r \in Handlers :
    (pc[r] = "start" /\ LF!Found(url[r]) # None) ~> pc[r] \in {"done", "idle"}

-----------------------------------------------------------------------------
(* Statements of the documentation that the code does not always keep.     *)

\* rules/lock.bzl:4, "recording every fetched asset into the lockfile": when
\* a build has ended well, whatever it let a client fetch with a 200 answer is
\* in the manifest.
RecordsEveryFetchedAsset ==
  mode = "build" /\ st = "saved" /\ exit = "ok" =>
    \A r \in Handlers :
      reply[r] = "whole" /\ ~LF!SkipSave(url[r]) => disk[url[r]] # None

\* README.md:60, "The same content is served": a GET that is answered with a
\* recorded asset gets, completely, a body that upstream has for it.  The code
\* keeps this as long as every request is a GET: the response to any method is
\* recorded under the URL alone, also the empty one to a HEAD
\* (handleMainServerRequest; fetchAndSaveBlob, "for now don't filter HEAD").
SameContentServed ==
  \A r \in Handlers :
    pc[r] = "done" /\ ~err[r] /\ meth[r] = "GET" /\ info[r] # None
      => reply[r] = "whole" /\ info[r].sha \in Upstream[url[r]]
=============================================================================
