--------------------------- MODULE ListenerProofs ---------------------------
(***************************************************************************)
(* Proofs about Listener: the safety properties that MCListener checks on  *)
(* small instances, for any number of handlers, URLs and bodies.           *)
(***************************************************************************)
EXTENDS Listener, TLAPS

Fetching == {"fetch", "copy", "commit", "add"}

\* How the phases of the command and of its manifest go together.
Life ==
  /\ phase = "off" <=> st = "closed"
  /\ phase = "off" <=> mode = "none"
  /\ phase # "off" => options = OptionsOf(mode)
  /\ phase = "init" => mode = "build" /\ blobs = orig
  /\ phase \in {"init", "serving"} => st = "open"
  /\ phase \in {"off", "init"} => \A r \in Handlers : pc[r] = "idle"

\* What Reset put aside.
Aside ==
  /\ mode = "build" /\ Running => previousBlobs = IF forced THEN LF!EmptyMap ELSE orig
  /\ mode = "offline" => previousBlobs = LF!EmptyMap

\* Where the entries of a build come from.
Entries ==
  mode = "build" /\ Running =>
    \A u \in Urls : blobs[u] # None =>
      \/ blobs[u] = previousBlobs[u]
      \/ previousBlobs[u] = None /\ blobs[u].sha \in stored

\* What the file has in common with the memory of the command.
Clean ==
  /\ st = "open" /\ ~dirty => disk = blobs
  /\ mode = "offline" => ~dirty /\ st # "saving"
  /\ (phase = "off" \/ st = "saved") /\ exit = "ok" => disk \in LF!BlobMap

\* What a handler knows at each of its places.
Request(r) ==
  /\ pc[r] # "idle" => url[r] \in Urls
  /\ pc[r] \in {"start", "fetch"} => info[r] = None
  /\ pc[r] \in {"serve", "copy", "commit", "add"} => info[r] \in LF!BlobInfo
  /\ pc[r] = "serve" => blobs[url[r]] = info[r]
  /\ pc[r] \in Fetching =>
       mode = "build" /\ (~LF!SkipSave(url[r]) => previousBlobs[url[r]] = None)
  /\ pc[r] \in {"copy", "commit", "add"} => ~LF!SkipSave(url[r])
  /\ pc[r] = "add" => info[r].sha \in stored
  /\ pc[r] = "done" /\ ~err[r] /\ info[r] # None => blobs[url[r]] = info[r]

Requests == \A r \in Handlers : Request(r)

Inv == TypeOK /\ Life /\ Aside /\ Entries /\ Clean /\ Requests
-----------------------------------------------------------------------------
(* The operations of the manifest, as handlers use them.                   *)

\* The manifest only gains entries: one that was put aside, or one that was
\* neither there nor put aside and whose blob is stored.
Grows ==
  /\ \A u \in Urls :
       \/ blobs'[u] = blobs[u]
       \/ /\ blobs[u] = None /\ ~LF!SkipSave(u)
          /\ \/ blobs'[u] = previousBlobs[u]
             \/ previousBlobs[u] = None /\ blobs'[u].sha \in stored
  /\ (blobs' = blobs /\ dirty' = dirty) \/ (mode = "build" /\ dirty' = TRUE)

\* GetBlob, called by a handler, only adds what Reset put aside.
LEMMA GetBlobGrows ==
  ASSUME Inv, Running, NEW u \in Urls, LF!GetBlob(u)
  PROVE  /\ LF!TypeOK' /\ Grows
         /\ UNCHANGED <<st, options, previousBlobs, disk>>
         /\ LF!Found(u) # None => blobs'[u] = LF!Found(u) /\ LF!Found(u) \in LF!BlobInfo
PROOF
<1>1. /\ LF!TypeOK /\ ~options.AllowOverwrite /\ mode \in {"build", "offline"}
      /\ mode = "offline" => previousBlobs[u] = None
  BY DEF Inv, TypeOK, Life, Aside, Running, OptionsOf, LF!ReadOnly, LF!EmptyMap
<1>2. blobs \in [Urls -> LF!BlobInfo \cup {None}] /\ previousBlobs \in [Urls -> LF!BlobInfo \cup {None}]
  BY <1>1 DEF LF!TypeOK, LF!BlobMap
<1>3. CASE LF!Found(u) = None
  BY <1>1, <1>3 DEF LF!GetBlob, LF!vars, LF!TypeOK, Grows
<1>4. CASE LF!Found(u) # None /\ blobs[u] = LF!Found(u)
  BY <1>1, <1>2, <1>4 DEF LF!GetBlob, LF!internalAddBlob, LF!TypeOK, Grows
<1>5. CASE LF!Found(u) # None /\ blobs[u] # LF!Found(u)
  <2>1. ~LF!SkipSave(u) /\ blobs[u] = None /\ LF!Found(u) = previousBlobs[u]
    BY <1>5 DEF LF!Found
  <2>2. ~LF!Conflict(u, previousBlobs[u])
    BY <2>1 DEF LF!Conflict
  <2>3. /\ blobs' = [blobs EXCEPT ![u] = previousBlobs[u]] /\ dirty' = TRUE
        /\ UNCHANGED <<st, options, previousBlobs, disk>>
    BY <1>5, <2>1, <2>2 DEF LF!GetBlob, LF!internalAddBlob
  <2>4. blobs' \in [Urls -> LF!BlobInfo \cup {None}]
    BY <1>2, <2>3
  <2>5. LF!TypeOK'
    BY <1>1, <2>3, <2>4 DEF LF!TypeOK, LF!BlobMap
  <2>6. Grows
    BY <1>1, <1>2, <1>5, <2>1, <2>3 DEF Grows
  <2> QED
    BY <1>2, <1>5, <2>1, <2>3, <2>5, <2>6
<1> QED
  BY <1>3, <1>4, <1>5

\* AddBlob, called by a handler, adds an entry for a new URL or fails.
LEMMA AddBlobGrows ==
  ASSUME Inv, Running, mode = "build",
         NEW u \in Urls, NEW i \in LF!BlobInfo, LF!AddBlob(u, i),
         ~LF!SkipSave(u), previousBlobs[u] = None, i.sha \in stored
  PROVE  /\ LF!TypeOK' /\ Grows
         /\ UNCHANGED <<st, options, previousBlobs, disk>>
         /\ ~LF!AddError(u, i) => blobs'[u] = i
PROOF
<1>1. LF!TypeOK /\ ~options.AllowOverwrite
  BY DEF Inv, TypeOK, Life, Running, OptionsOf, LF!ReadOnly
<1>2. blobs \in [Urls -> LF!BlobInfo \cup {None}]
  BY <1>1 DEF LF!TypeOK, LF!BlobMap
<1>3. LF!internalAddBlob(u, i)
  BY DEF LF!AddBlob
<1>4. CASE LF!Conflict(u, i)
  BY <1>1, <1>3, <1>4 DEF LF!internalAddBlob, LF!TypeOK, Grows, LF!AddError
<1>5. CASE blobs[u] = i
  BY <1>1, <1>3, <1>5 DEF LF!internalAddBlob, LF!TypeOK, Grows
<1>6. CASE ~LF!Conflict(u, i) /\ blobs[u] # i
  <2>1. /\ blobs' = [blobs EXCEPT ![u] = i] /\ dirty' = TRUE
        /\ UNCHANGED <<st, options, previousBlobs, disk>>
    BY <1>3, <1>6 DEF LF!internalAddBlob
  <2>2. blobs[u] = None
    BY <1>1, <1>6 DEF LF!Conflict
  <2>3. blobs' \in [Urls -> LF!BlobInfo \cup {None}]
    BY <1>2, <2>1
  <2>4. LF!TypeOK'
    BY <1>1, <2>1, <2>3 DEF LF!TypeOK, LF!BlobMap
  <2>5. Grows
    BY <1>2, <2>1, <2>2 DEF Grows
  <2> QED
    BY <1>2, <2>1, <2>4, <2>5
<1> QED
  BY <1>4, <1>5, <1>6
-----------------------------------------------------------------------------
(* A step of a handler.                                                    *)

\* A step of handler r, and all that the others can notice of it.
Local(r) ==
  /\ UNCHANGED <<st, options, previousBlobs, disk, runVars>>
  /\ stored \subseteq stored'
  /\ Grows
  /\ \A q \in Handlers \ {r} :
       pc'[q] = pc[q] /\ url'[q] = url[q] /\ info'[q] = info[q] /\ err'[q] = err[q]

\* The types of the variables of handlers.
ReqTypes ==
  /\ pc \in [Handlers -> {"idle", "start", "serve", "fetch", "copy", "commit",
                          "add", "done"}]
  /\ url \in [Handlers -> Urls \cup {None}]
  /\ meth \in [Handlers -> Methods \cup {None}]
  /\ info \in [Handlers -> LF!BlobInfo \cup {None}]
  /\ reply \in [Handlers -> Replies]
  /\ err \in [Handlers -> BOOLEAN]

\* Where a handler ends, what is left to show is that its success is honest.
LEMMA Finishing ==
  ASSUME Inv, NEW r \in Handlers, NEW what \in Replies, NEW failed \in BOOLEAN,
         Finish(r, what, failed), info' = info, Grows, stored \subseteq stored',
         UNCHANGED <<st, options, previousBlobs, disk, runVars>>, LF!TypeOK',
         stored' \subseteq Contents, pc[r] # "idle",
         failed \/ info[r] = None \/ blobs'[url[r]] = info[r]
  PROVE  TypeOK' /\ Local(r) /\ Request(r)'
PROOF
<1>1. ReqTypes /\ url[r] \in Urls
  BY DEF Inv, TypeOK, ReqTypes, Requests, Request
<1>2. ReqTypes'
  <2>1. pc' = [pc EXCEPT ![r] = "done"] /\ reply' = [reply EXCEPT ![r] = what]
    BY DEF Finish
  <2>2. err' = [err EXCEPT ![r] = failed] /\ url' = url /\ meth' = meth
    BY DEF Finish
  <2>3. err' \in [Handlers -> BOOLEAN]
    BY <1>1, <2>2 DEF ReqTypes
  <2> QED
    BY <1>1, <2>1, <2>2, <2>3 DEF ReqTypes
<1>3. TypeOK'
  BY <1>2 DEF Inv, TypeOK, ReqTypes, runVars
<1>4. Local(r)
  BY <1>1 DEF Local, Finish, ReqTypes
<1>5. pc'[r] = "done" /\ url'[r] = url[r] /\ info'[r] = info[r]
  BY <1>1 DEF Finish, ReqTypes
<1>6. err'[r] = failed
  BY <1>1 DEF Finish, ReqTypes
<1>7. Request(r)'
  BY <1>1, <1>5, <1>6 DEF Request, Fetching
<1> QED
  BY <1>3, <1>4, <1>7

\* What a handler may see as the reply is among Replies.
LEMMA RepliesTyped ==
  ASSUME NEW r
  PROVE  /\ CutShort(r) \in Replies /\ AfterBody(r) \in Replies
         /\ {"none", "whole", "broken", "passed", "dummy", "missing", "failed"} \subseteq Replies
PROOF
  BY DEF CutShort, AfterBody, Replies

\* Nothing happens to the manifest and the store.
LEMMA Quiet ==
  ASSUME Inv, UNCHANGED <<fileVars, stored>>
  PROVE  /\ LF!TypeOK' /\ Grows /\ stored \subseteq stored' /\ stored' \subseteq Contents
         /\ UNCHANGED <<st, options, previousBlobs, disk>>
PROOF
  BY DEF Inv, TypeOK, fileVars, Grows, LF!TypeOK

\* A handler moves on to another place, with what it now knows.
LEMMA Moving ==
  ASSUME Inv, NEW r \in Handlers, Grows, stored \subseteq stored',
         NEW where \in {"start", "serve", "fetch", "copy", "commit", "add"},
         NEW i \in LF!BlobInfo \cup {None}, NEW u \in Urls, NEW m \in Methods \cup {None},
         NEW what \in Replies, NEW failed \in BOOLEAN,
         pc' = [pc EXCEPT ![r] = where], info' = [info EXCEPT ![r] = i],
         url' = [url EXCEPT ![r] = u], meth' = [meth EXCEPT ![r] = m],
         reply' = [reply EXCEPT ![r] = what], err' = [err EXCEPT ![r] = failed],
         UNCHANGED <<st, options, previousBlobs, disk, runVars>>, LF!TypeOK',
         stored' \subseteq Contents,
         where \in {"start", "fetch"} => i = None,
         where \in {"serve", "copy", "commit", "add"} => i \in LF!BlobInfo,
         where = "serve" => blobs'[u] = i,
         where \in Fetching =>
           mode = "build" /\ (~LF!SkipSave(u) => previousBlobs[u] = None),
         where \in {"copy", "commit", "add"} => ~LF!SkipSave(u),
         where = "add" => i.sha \in stored'
  PROVE  TypeOK' /\ Local(r) /\ Request(r)'
PROOF
<1>1. ReqTypes
  BY DEF Inv, TypeOK, ReqTypes
<1>2. ReqTypes'
  <2>1. err' \in [Handlers -> BOOLEAN]
    BY <1>1 DEF ReqTypes
  <2> QED
    BY <1>1, <2>1 DEF ReqTypes
<1>3. TypeOK'
  BY <1>2 DEF Inv, TypeOK, ReqTypes, runVars
<1>4. Local(r)
  BY <1>1 DEF Local, ReqTypes
<1>5. pc'[r] = where /\ url'[r] = u /\ info'[r] = i /\ options' = options /\ mode' = mode
  BY <1>1 DEF ReqTypes, runVars
<1>6. Request(r)'
  BY <1>5 DEF Request, Fetching, LF!SkipSave
<1> QED
  BY <1>3, <1>4, <1>6

\* Every step of a handler is such a step.
LEMMA HandlerStep ==
  ASSUME Inv, NEW r \in Handlers,
         Handle(r) \/ \E u \in Urls, m \in Methods : Accept(r, u, m)
  PROVE  TypeOK' /\ Local(r) /\ Request(r)'
PROOF
<1>1. ReqTypes /\ Request(r) /\ stored \subseteq Contents
  BY DEF Inv, TypeOK, ReqTypes, Requests
<1>2. pc[r] # "idle" => Running
  BY DEF Inv, TypeOK, Life, Running
<1>3. CASE \E u \in Urls, m \in Methods : Accept(r, u, m)
  <2>1. PICK u \in Urls, m \in Methods : Accept(r, u, m)
    BY <1>3
  <2> QED
    BY <2>1, Quiet, Moving, RepliesTyped DEF Accept, Fetching
<1>4. CASE DummyOK(r)
  BY <1>1, <1>4, Quiet, Finishing, RepliesTyped DEF DummyOK, Request
<1>5. CASE LookupFound(r)
  <2>1. pc[r] = "start" /\ url[r] \in Urls /\ Running
    BY <1>1, <1>2, <1>5 DEF LookupFound, Request
  <2>2. LF!GetBlob(url[r]) /\ LF!Found(url[r]) # None
    BY <1>5 DEF LookupFound
  <2>3. /\ LF!TypeOK' /\ Grows /\ UNCHANGED <<st, options, previousBlobs, disk>>
        /\ blobs'[url[r]] = LF!Found(url[r]) /\ LF!Found(url[r]) \in LF!BlobInfo
    BY <2>1, <2>2, GetBlobGrows
  <2>4. /\ url' = [url EXCEPT ![r] = url[r]] /\ meth' = [meth EXCEPT ![r] = meth[r]]
        /\ reply' = [reply EXCEPT ![r] = reply[r]] /\ err' = [err EXCEPT ![r] = err[r]]
    BY <1>1, <1>5 DEF LookupFound, ReqTypes
  <2>5. meth[r] \in Methods \cup {None} /\ reply[r] \in Replies /\ err[r] \in BOOLEAN
    BY <1>1 DEF ReqTypes
  <2>6. /\ pc' = [pc EXCEPT ![r] = "serve"] /\ info' = [info EXCEPT ![r] = LF!Found(url[r])]
        /\ stored' = stored /\ UNCHANGED runVars
    BY <1>5 DEF LookupFound
  <2> QED
    BY <1>1, <2>1, <2>3, <2>4, <2>5, <2>6, Moving DEF Fetching
<1>6. CASE LookupMissing(r)
  <2>1. pc[r] = "start" /\ url[r] \in Urls /\ Running /\ info[r] = None
    BY <1>1, <1>2, <1>6 DEF LookupMissing, Request
  <2>2. LF!GetBlob(url[r]) /\ LF!Found(url[r]) = None
    BY <1>6 DEF LookupMissing
  <2>3. LF!TypeOK' /\ Grows /\ UNCHANGED <<st, options, previousBlobs, disk>>
    BY <2>1, <2>2, GetBlobGrows
  <2>4. CASE mode # "build"
    BY <1>1, <1>6, <2>1, <2>3, <2>4, Finishing, RepliesTyped DEF LookupMissing
  <2>5. CASE mode = "build"
    <3>1. ~LF!SkipSave(url[r]) => previousBlobs[url[r]] = None
      BY <2>2 DEF LF!Found
    <3>2. /\ url' = [url EXCEPT ![r] = url[r]] /\ meth' = [meth EXCEPT ![r] = meth[r]]
          /\ reply' = [reply EXCEPT ![r] = reply[r]] /\ err' = [err EXCEPT ![r] = err[r]]
          /\ info' = [info EXCEPT ![r] = None]
      BY <1>1, <1>6, <2>1, <2>5 DEF LookupMissing, ReqTypes
    <3>3. meth[r] \in Methods \cup {None} /\ reply[r] \in Replies /\ err[r] \in BOOLEAN
      BY <1>1 DEF ReqTypes
    <3>4. /\ pc' = [pc EXCEPT ![r] = "fetch"] /\ stored' = stored /\ UNCHANGED runVars
          /\ stored \subseteq stored' /\ stored' \subseteq Contents
      BY <1>1, <1>6, <2>5 DEF LookupMissing
    <3> QED
      BY <2>1, <2>3, <2>5, <3>1, <3>2, <3>3, <3>4, Moving DEF Fetching
  <2> QED
    BY <2>4, <2>5
<1>7. CASE Serve(r)
  <2>1. pc[r] = "serve" /\ blobs[url[r]] = info[r] /\ UNCHANGED <<fileVars, stored, runVars, info>>
    BY <1>1, <1>7 DEF Serve, Request
  <2>2. PICK what \in Replies, failed \in BOOLEAN : Finish(r, what, failed)
    BY <1>7, RepliesTyped DEF Serve
  <2>3. blobs'[url[r]] = info[r]
    BY <2>1 DEF fileVars
  <2> QED
    BY <2>1, <2>2, <2>3, Quiet, Finishing
<1>8. CASE ServeFails(r) \/ FetchFails(r) \/ CopyFails(r) \/ CommitFails(r)
  <2>1. /\ pc[r] # "idle" /\ UNCHANGED <<fileVars, stored, runVars, info>>
        /\ \E what \in Replies : Finish(r, what, TRUE)
    BY <1>8, RepliesTyped DEF ServeFails, FetchFails, CopyFails, CommitFails
  <2>2. PICK what \in Replies : Finish(r, what, TRUE)
    BY <2>1
  <2> QED
    BY <2>1, <2>2, Quiet, Finishing
<1>9. CASE FetchPassed(r)
  <2>1. pc[r] = "fetch" /\ info[r] = None /\ UNCHANGED <<fileVars, stored, runVars, info>>
    BY <1>1, <1>9 DEF FetchPassed, Request
  <2>2. PICK what \in Replies, failed \in BOOLEAN : Finish(r, what, failed)
    BY <1>9, RepliesTyped DEF FetchPassed
  <2> QED
    BY <2>1, <2>2, Quiet, Finishing
<1>10. CASE \E c \in Contents : FetchOK(r, c)
  <2>1. PICK c \in Contents : FetchOK(r, c)
    BY <1>10
  <2>2. PICK i \in Recorded(r, c) : info' = [info EXCEPT ![r] = i]
    BY <2>1 DEF FetchOK
  <2>3. i \in LF!BlobInfo
    BY ListenerAssumption DEF Recorded, LF!BlobInfo
  <2>4. /\ pc[r] = "fetch" /\ url[r] \in Urls /\ ~LF!SkipSave(url[r])
        /\ mode = "build" /\ previousBlobs[url[r]] = None
    BY <1>1, <2>1 DEF FetchOK, Request, Fetching
  <2>5. /\ url' = [url EXCEPT ![r] = url[r]] /\ meth' = [meth EXCEPT ![r] = meth[r]]
        /\ reply' = [reply EXCEPT ![r] = reply[r]] /\ err' = [err EXCEPT ![r] = err[r]]
        /\ pc' = [pc EXCEPT ![r] = "copy"] /\ UNCHANGED <<fileVars, stored, runVars>>
    BY <1>1, <2>1 DEF FetchOK, ReqTypes
  <2>6. meth[r] \in Methods \cup {None} /\ reply[r] \in Replies /\ err[r] \in BOOLEAN
    BY <1>1 DEF ReqTypes
  <2> QED
    BY <1>1, <2>2, <2>3, <2>4, <2>5, <2>6, Quiet, Moving DEF Fetching
<1>11. CASE Copy(r)
  <2>1. /\ pc[r] = "copy" /\ url[r] \in Urls /\ ~LF!SkipSave(url[r])
        /\ mode = "build" /\ previousBlobs[url[r]] = None /\ info[r] \in LF!BlobInfo
    BY <1>1, <1>11 DEF Copy, Request, Fetching
  <2>2. PICK what \in Replies : reply' = [reply EXCEPT ![r] = what]
    BY <1>11, RepliesTyped DEF Copy
  <2>3. /\ url' = [url EXCEPT ![r] = url[r]] /\ meth' = [meth EXCEPT ![r] = meth[r]]
        /\ info' = [info EXCEPT ![r] = info[r]] /\ err' = [err EXCEPT ![r] = err[r]]
        /\ pc' = [pc EXCEPT ![r] = "commit"] /\ UNCHANGED <<fileVars, stored, runVars>>
    BY <1>1, <1>11 DEF Copy, ReqTypes
  <2>4. meth[r] \in Methods \cup {None} /\ err[r] \in BOOLEAN
    BY <1>1 DEF ReqTypes
  <2> QED
    BY <1>1, <2>1, <2>2, <2>3, <2>4, Quiet, Moving DEF Fetching
<1>12. CASE Commit(r)
  <2>1. /\ pc[r] = "commit" /\ url[r] \in Urls /\ ~LF!SkipSave(url[r])
        /\ mode = "build" /\ previousBlobs[url[r]] = None /\ info[r] \in LF!BlobInfo
    BY <1>1, <1>12 DEF Commit, Request, Fetching
  <2>2. /\ url' = [url EXCEPT ![r] = url[r]] /\ meth' = [meth EXCEPT ![r] = meth[r]]
        /\ info' = [info EXCEPT ![r] = info[r]] /\ err' = [err EXCEPT ![r] = err[r]]
        /\ reply' = [reply EXCEPT ![r] = reply[r]] /\ pc' = [pc EXCEPT ![r] = "add"]
    BY <1>1, <1>12 DEF Commit, ReqTypes
  <2>3. meth[r] \in Methods \cup {None} /\ reply[r] \in Replies /\ err[r] \in BOOLEAN
    BY <1>1 DEF ReqTypes
  <2>4. stored \subseteq stored' /\ stored' \subseteq Contents /\ info[r].sha \in stored'
    BY <1>1, <1>12, <2>1 DEF Commit, LF!BlobInfo
  <2>5. /\ LF!TypeOK' /\ Grows /\ UNCHANGED <<st, options, previousBlobs, disk, runVars>>
    BY <1>12 DEF Commit, fileVars, Grows, Inv, TypeOK, LF!TypeOK
  <2> QED
    BY <1>1, <2>1, <2>2, <2>3, <2>4, <2>5, Moving DEF Fetching
<1>13. CASE AddBlob(r)
  <2>1. /\ pc[r] = "add" /\ url[r] \in Urls /\ ~LF!SkipSave(url[r]) /\ Running
        /\ mode = "build" /\ previousBlobs[url[r]] = None
        /\ info[r] \in LF!BlobInfo /\ info[r].sha \in stored
    BY <1>1, <1>2, <1>13 DEF AddBlob, Request, Fetching
  <2>2. LF!AddBlob(url[r], info[r]) /\ UNCHANGED <<stored, runVars, info>>
    BY <1>13 DEF AddBlob
  <2>3. /\ LF!TypeOK' /\ Grows /\ UNCHANGED <<st, options, previousBlobs, disk>>
        /\ ~LF!AddError(url[r], info[r]) => blobs'[url[r]] = info[r]
    BY <2>1, <2>2, AddBlobGrows
  <2>4. PICK what \in Replies, failed \in BOOLEAN :
          Finish(r, what, failed) /\ (failed \/ ~LF!AddError(url[r], info[r]))
    BY <1>13, RepliesTyped DEF AddBlob
  <2> QED
    BY <1>1, <2>1, <2>2, <2>3, <2>4, Finishing
<1> QED
  BY <1>3, <1>4, <1>5, <1>6, <1>7, <1>8, <1>9, <1>10, <1>11, <1>12, <1>13 DEF Handle

\* A step of one handler leaves what the others know true.
LEMMA HandlerKeepsInv ==
  ASSUME Inv, Running, NEW r \in Handlers, TypeOK', Local(r), Request(r)'
  PROVE  Inv'
PROOF
<1>1. /\ UNCHANGED <<st, options, previousBlobs, disk, phase, mode, forced, exit, orig>>
      /\ stored \subseteq stored' /\ Grows
  BY DEF Local, runVars
<1>2. Life'
  BY <1>1 DEF Inv, Life, Running, OptionsOf
<1>3. Aside'
  BY <1>1 DEF Inv, Aside, Running
<1>4. Entries'
  BY <1>1 DEF Inv, Entries, Running, Grows
<1>5. Clean'
  <2>1. dirty \in BOOLEAN /\ dirty' \in BOOLEAN
    BY DEF Inv, TypeOK, LF!TypeOK
  <2>2. ~dirty' => blobs' = blobs /\ ~dirty
    BY <1>1, <2>1 DEF Grows
  <2>3. mode = "offline" => ~dirty'
    BY <1>1, <2>1 DEF Inv, Clean, Grows
  <2> QED
    BY <1>1, <2>2, <2>3 DEF Inv, Clean
<1>6. ASSUME NEW q \in Handlers, q # r
      PROVE  Request(q)'
  <2>1. Request(q) /\ None \notin LF!BlobInfo
    BY ListenerAssumption DEF Inv, Requests
  <2>2. pc'[q] = pc[q] /\ url'[q] = url[q] /\ info'[q] = info[q] /\ err'[q] = err[q]
    BY <1>6 DEF Local
  <2>3. LF!SkipSave(url[q])' <=> LF!SkipSave(url[q])
    BY <1>1, <2>2 DEF LF!SkipSave
  <2>4. pc[q] # "idle" /\ info[q] # None /\ blobs[url[q]] = info[q] => blobs'[url[q]] = info[q]
    BY <1>1, <2>1 DEF Request, Grows
  <2>5. pc[q] = "serve" => info[q] # None
    BY <2>1 DEF Request
  <2> QED
    BY <1>1, <2>1, <2>2, <2>3, <2>4, <2>5 DEF Request
<1>7. Requests'
  BY <1>6 DEF Requests
<1> QED
  BY <1>2, <1>3, <1>4, <1>5, <1>7 DEF Inv
-----------------------------------------------------------------------------
(* A step of the command.                                                  *)

\* With no handler at work there is nothing to show about handlers.
LEMMA NoRequests ==
  ASSUME \A r \in Handlers : pc'[r] = "idle"
  PROVE  Requests'
PROOF
  BY DEF Requests, Request, Fetching

\* The invariant holds before the first command.
LEMMA InitInv == Init => Inv
PROOF
<1> SUFFICES ASSUME Init PROVE Inv
  OBVIOUS
<1>1. LF!TypeOK
  BY DEF Init, LF!Init, LF!TypeOK, LF!ReadOnly, LF!Options, LF!EmptyMap, LF!BlobMap
<1>2. TypeOK
  BY <1>1 DEF Init, TypeOK, LF!EmptyMap, LF!BlobMap, Replies
<1>3. Life /\ Aside /\ Entries /\ Clean
  BY DEF Init, LF!Init, Life, Aside, Entries, Clean, Running
<1>4. Requests
  BY DEF Init, Requests, Request, Fetching
<1> QED
  BY <1>2, <1>3, <1>4 DEF Inv

\* A command that opens its manifest.
LEMMA StartKeepsInv ==
  ASSUME Inv, NEW cmd \in {"build", "offline"}, NEW force \in BOOLEAN, Start(cmd, force)
  PROVE  Inv'
PROOF
<1>1. /\ phase = "off" /\ stored' = stored /\ UNCHANGED reqVars
      /\ phase' = IF cmd = "build" THEN "init" ELSE "serving"
      /\ mode' = cmd /\ exit' = "none" /\ orig' = blobs'
  BY DEF Start
<1>2. forced' \in BOOLEAN
  BY DEF Start
<1>3. /\ LF!Loadable(OptionsOf(cmd)) /\ st' = "open" /\ options' = OptionsOf(cmd)
      /\ blobs' = (IF disk = NoFile THEN LF!EmptyMap ELSE disk)
      /\ previousBlobs' = LF!EmptyMap /\ disk' = disk
  BY DEF Start, LF!NewMapFile
<1>4. dirty' = (disk = NoFile)
  BY DEF Start, LF!NewMapFile
<1>5. OptionsOf(cmd) \in LF!Options
  BY ListenerAssumption DEF OptionsOf, LF!Options, LF!ReadOnly
<1>6. LF!EmptyMap \in LF!BlobMap
  BY DEF LF!EmptyMap, LF!BlobMap
<1>7. blobs' \in LF!BlobMap
  BY <1>3, <1>6 DEF LF!Loadable
<1>8. dirty' \in BOOLEAN
  BY <1>4
<1>9. LF!TypeOK'
  BY <1>3, <1>5, <1>6, <1>7, <1>8 DEF LF!TypeOK, Inv, TypeOK
<1>10. TypeOK'
  BY <1>1, <1>2, <1>7, <1>9 DEF Inv, TypeOK, reqVars
<1>11. \A r \in Handlers : pc'[r] = "idle"
  BY <1>1 DEF Inv, Life, reqVars
<1>12. Life'
  BY <1>1, <1>3, <1>11 DEF Life
<1>13. Aside' /\ (Entries)'
  BY <1>1, <1>3, <1>6, <1>7 DEF Aside, Entries, Running
<1>14. Clean'
  <2>1. cmd = "offline" => disk # NoFile
    BY <1>3, ListenerAssumption DEF LF!Loadable, OptionsOf, LF!ReadOnly
  <2>2. ~dirty' => disk # NoFile
    BY <1>4
  <2>3. disk # NoFile => ~dirty'
    BY <1>4
  <2> QED
    BY <1>1, <1>3, <2>1, <2>2, <2>3 DEF Clean
<1> QED
  BY <1>10, <1>11, <1>12, <1>13, <1>14, NoRequests DEF Inv

\* A build that has put its manifest aside.
LEMMA ResetKeepsInv ==
  ASSUME Inv, Reset
  PROVE  Inv'
PROOF
<1>1. /\ phase = "init" /\ phase' = "serving" /\ mode = "build" /\ blobs = orig /\ st = "open"
      /\ UNCHANGED <<stored, mode, forced, exit, orig, reqVars, st, options, disk>>
      /\ previousBlobs' = (IF forced THEN LF!EmptyMap ELSE blobs) /\ blobs' = LF!EmptyMap
  BY DEF Reset, LF!Reset, Inv, Life
<1>2. dirty' = (dirty \/ blobs # LF!EmptyMap)
  BY DEF Reset, LF!Reset
<1>3. dirty \in BOOLEAN /\ dirty' \in BOOLEAN
  BY <1>2 DEF Inv, TypeOK, LF!TypeOK
<1>4. LF!EmptyMap \in LF!BlobMap
  BY DEF LF!EmptyMap, LF!BlobMap
<1>5. LF!TypeOK'
  BY <1>1, <1>3, <1>4 DEF LF!TypeOK, Inv, TypeOK
<1>6. TypeOK'
  BY <1>1, <1>5 DEF Inv, TypeOK, reqVars
<1>7. \A r \in Handlers : pc'[r] = "idle"
  BY <1>1 DEF Inv, Life, reqVars
<1>8. Life'
  BY <1>1, <1>7 DEF Inv, Life, OptionsOf
<1>9. Aside' /\ Entries'
  BY <1>1 DEF Aside, Entries, Running, LF!EmptyMap
<1>10. Clean'
  <2>1. ~dirty' => ~dirty /\ blobs = LF!EmptyMap
    BY <1>2, <1>3
  <2> QED
    BY <1>1, <2>1 DEF Inv, Clean
<1> QED
  BY <1>6, <1>7, <1>8, <1>9, <1>10, NoRequests DEF Inv

\* A command that is gone: it left after its Close, or was killed.
LEMMA GoneKeepsInv ==
  ASSUME Inv, Gone, exit' \in {"none", "ok", "error", "panic", "killed"},
         exit' = "ok" => exit = "ok" /\ st = "saved"
  PROVE  Inv'
PROOF
<1>1. /\ phase' = "off" /\ mode' = "none" /\ forced' = FALSE /\ stored' = stored
      /\ orig' = LF!EmptyMap /\ disk' = disk
      /\ st' = "closed" /\ options' = LF!ReadOnly /\ blobs' = LF!EmptyMap
      /\ previousBlobs' = LF!EmptyMap /\ dirty' = FALSE
  BY DEF Gone, LF!Die, LF!NoProcess
<1>2. LF!TypeOK'
  BY <1>1 DEF LF!TypeOK, LF!ReadOnly, LF!Options, LF!EmptyMap, LF!BlobMap, Inv, TypeOK
<1>3. ReqTypes'
  BY DEF Gone, ReqTypes, Replies
<1>4. TypeOK'
  BY <1>1, <1>2, <1>3 DEF Inv, TypeOK, ReqTypes, LF!EmptyMap, LF!BlobMap
<1>5. \A r \in Handlers : pc'[r] = "idle"
  BY DEF Gone
<1>6. Life' /\ Aside' /\ Entries'
  BY <1>1, <1>5 DEF Life, Aside, Entries, Running
<1>7. Clean'
  BY <1>1 DEF Inv, Clean
<1> QED
  BY <1>4, <1>5, <1>6, <1>7, NoRequests DEF Inv

\* Handlers know what they knew if only the phase and the file change.
LEMMA RequestsKept ==
  ASSUME Requests, UNCHANGED <<pc, url, info, err, blobs, previousBlobs, options, mode, stored>>
  PROVE  Requests'
PROOF
<1> SUFFICES ASSUME NEW r \in Handlers PROVE Request(r)'
  BY DEF Requests
<1>1. Request(r)
  BY DEF Requests
<1> QED
  BY <1>1 DEF Request, LF!SkipSave

\* A command that is told to stop.
LEMMA StopKeepsInv ==
  ASSUME Inv, Stop
  PROVE  Inv'
PROOF
<1>1. /\ phase = "serving" /\ phase' = "stopping" /\ exit' \in {"ok", "error"}
      /\ UNCHANGED <<st, options, blobs, previousBlobs, dirty, disk, stored, mode, forced, orig>>
      /\ UNCHANGED <<pc, url, meth, info, reply, err>>
  BY DEF Stop, fileVars, reqVars
<1>2. TypeOK'
  BY <1>1 DEF Inv, TypeOK, LF!TypeOK
<1>3. Life'
  BY <1>1 DEF Inv, Life, OptionsOf
<1>4. Aside' /\ Entries'
  BY <1>1 DEF Inv, Aside, Entries, Running
<1>5. Clean'
  BY <1>1 DEF Inv, Clean, Life
<1> QED
  BY <1>1, <1>2, <1>3, <1>4, <1>5, RequestsKept DEF Inv

\* A command that closes its manifest, or fails to.
LEMMA CloseKeepsInv ==
  ASSUME Inv, Close \/ CloseFails
  PROVE  Inv'
PROOF
<1>1. /\ phase = "stopping"
      /\ UNCHANGED <<options, blobs, previousBlobs, stored, phase, mode, forced, orig>>
      /\ UNCHANGED <<pc, url, meth, info, reply, err>>
      /\ st' \in {"saving", "saved"} /\ exit' \in {exit, "error"}
  BY DEF Close, CloseFails, LF!CloseClean, LF!CloseTruncates, LF!CloseWrites,
         LF!CloseFails, reqVars
<1>2. /\ LF!TypeOK /\ dirty \in BOOLEAN /\ blobs \in LF!BlobMap
      /\ mode \in {"build", "offline"} /\ options = OptionsOf(mode)
  BY <1>1 DEF Inv, TypeOK, LF!TypeOK, Life
<1>3. disk' \in {disk, Torn, blobs} /\ dirty' \in BOOLEAN
  BY <1>2 DEF Close, CloseFails, LF!CloseClean, LF!CloseTruncates, LF!CloseWrites, LF!CloseFails
<1>4. LF!TypeOK'
  BY <1>1, <1>2, <1>3 DEF LF!TypeOK
<1>5. TypeOK'
  BY <1>1, <1>4 DEF Inv, TypeOK
<1>6. Life'
  BY <1>1 DEF Inv, Life, OptionsOf
<1>7. Aside' /\ Entries'
  BY <1>1 DEF Inv, Aside, Entries, Running
<1>8. mode = "offline" => ~dirty' /\ st' # "saving"
  <2>1. mode = "offline" => ~dirty /\ st # "saving" /\ ~LF!MustSave
    BY <1>2 DEF Inv, Clean, LF!MustSave, OptionsOf, LF!ReadOnly
  <2> QED
    BY <2>1 DEF Close, CloseFails, LF!CloseClean, LF!CloseTruncates, LF!CloseWrites, LF!CloseFails
<1>9. st' = "saved" /\ exit' = "ok" => disk' \in LF!BlobMap
  <2>1. CASE LF!CloseClean
    <3>1. st = "open" /\ disk' = disk /\ ~(options.Writable /\ dirty)
      BY <2>1 DEF LF!CloseClean, LF!MustSave
    <3>2. mode = "build" => options.Writable
      BY <1>2 DEF OptionsOf
    <3>3. ~dirty
      BY <1>2, <3>1, <3>2 DEF Inv, Clean
    <3> QED
      BY <1>2, <3>1, <3>3 DEF Inv, Clean
  <2>2. CASE LF!CloseTruncates
    BY <2>2 DEF LF!CloseTruncates
  <2>3. CASE LF!CloseWrites
    BY <1>2, <2>3 DEF LF!CloseWrites
  <2>4. CASE CloseFails
    BY <2>4 DEF CloseFails
  <2> QED
    BY <2>1, <2>2, <2>3, <2>4 DEF Close
<1>10. Clean'
  BY <1>1, <1>8, <1>9 DEF Clean
<1> QED
  BY <1>1, <1>5, <1>6, <1>7, <1>10, RequestsKept DEF Inv

\* Every step keeps the invariant.
LEMMA StepInv == Inv /\ [Next]_vars => Inv'
PROOF
<1> SUFFICES ASSUME Inv, [Next]_vars PROVE Inv'
  OBVIOUS
<1>1. ASSUME NEW cmd \in {"build", "offline"}, StartFails(cmd)
      PROVE  Inv'
  <2>1. /\ exit' \in {"panic", "error"} /\ UNCHANGED <<stored, phase, mode, forced, orig>>
        /\ UNCHANGED <<st, options, blobs, previousBlobs, dirty, disk>>
        /\ UNCHANGED <<pc, url, meth, info, reply, err>>
    BY <1>1 DEF StartFails, LF!NewMapFileFails, LF!vars, reqVars
  <2>2. TypeOK'
    BY <2>1 DEF Inv, TypeOK, LF!TypeOK
  <2>3. Life'
    BY <2>1 DEF Inv, Life, OptionsOf
  <2>4. Aside' /\ Entries' /\ Clean'
    BY <2>1 DEF Inv, Aside, Entries, Running, Clean
  <2> QED
    BY <2>1, <2>2, <2>3, <2>4, RequestsKept DEF Inv
<1>2. ASSUME NEW cmd \in {"build", "offline"}, NEW force \in BOOLEAN, Start(cmd, force)
      PROVE  Inv'
  BY <1>2, StartKeepsInv
<1>3. CASE Reset
  BY <1>3, ResetKeepsInv
<1>4. ASSUME NEW r \in Handlers,
             Handle(r) \/ \E u \in Urls, m \in Methods : Accept(r, u, m)
      PROVE  Inv'
  <2>1. Running
    <3>1. CASE pc[r] = "idle"
      BY <1>4, <3>1 DEF Handle, DummyOK, LookupFound, LookupMissing, Serve, ServeFails,
        FetchFails, FetchPassed, FetchOK, Copy, CopyFails, Commit, CommitFails,
        AddBlob, Accept, Running
    <3>2. CASE pc[r] # "idle"
      BY <3>2 DEF Inv, TypeOK, Life, Running
    <3> QED
      BY <3>1, <3>2
  <2> QED
    BY <1>4, <2>1, HandlerStep, HandlerKeepsInv
<1>5. CASE Stop
  BY <1>5, StopKeepsInv
<1>6. CASE Close \/ CloseFails
  BY <1>6, CloseKeepsInv
<1>7. CASE Exit
  BY <1>7, GoneKeepsInv DEF Exit, Inv, TypeOK
<1>8. CASE Kill
  BY <1>8, GoneKeepsInv DEF Kill
<1>9. ASSUME NEW c \in Contents, LoseBlob(c)
      PROVE  Inv'
  <2>1. /\ phase = "off" /\ stored' = stored \ {c} /\ UNCHANGED <<phase, mode, forced, exit, orig>>
        /\ UNCHANGED <<st, options, blobs, previousBlobs, dirty, disk>>
        /\ UNCHANGED <<pc, url, meth, info, reply, err>>
    BY <1>9 DEF LoseBlob, fileVars, runVars, reqVars
  <2>2. TypeOK'
    BY <2>1 DEF Inv, TypeOK, LF!TypeOK
  <2>3. Life' /\ \A r \in Handlers : pc'[r] = "idle"
    BY <2>1 DEF Inv, Life
  <2>4. Aside' /\ Entries' /\ Clean'
    BY <2>1 DEF Inv, Aside, Entries, Running, Clean
  <2> QED
    BY <2>2, <2>3, <2>4, NoRequests DEF Inv
<1>10. CASE UNCHANGED vars
  <2>1. UNCHANGED <<st, options, blobs, previousBlobs, dirty, disk>>
    BY <1>10 DEF vars, fileVars
  <2>2. /\ UNCHANGED <<stored, phase, mode, forced, exit, orig>>
        /\ UNCHANGED <<pc, url, meth, info, reply, err>>
    BY <1>10 DEF vars, runVars, reqVars
  <2>3. TypeOK'
    BY <2>1, <2>2 DEF Inv, TypeOK, LF!TypeOK
  <2>4. Life' /\ Aside'
    BY <2>1, <2>2 DEF Inv, Life, OptionsOf, Aside, Running
  <2>5. Entries' /\ Clean'
    BY <2>1, <2>2 DEF Inv, Entries, Running, Clean
  <2> QED
    BY <2>1, <2>2, <2>3, <2>4, <2>5, RequestsKept DEF Inv
<1> QED
  BY <1>1, <1>2, <1>3, <1>4, <1>5, <1>6, <1>7, <1>8, <1>9, <1>10 DEF Next
-----------------------------------------------------------------------------
(* The theorems.                                                           *)

\* The invariant holds in every state of every sequence of commands.
THEOREM Invariance == Spec => []Inv
PROOF
  BY InitInv, StepInv, PTL DEF Spec

\* Every variable of the command, its manifest and its handlers keeps its type.
THEOREM TypeCorrect == Spec => []TypeOK
PROOF
<1>1. Inv => TypeOK
  BY DEF Inv
<1> QED
  BY <1>1, Invariance, PTL

\* Everything a build has recorded can be read from the blob store, or was
\* taken over from the manifest it started from (Backed).
THEOREM RecordedIsStored == Spec => []Backed
PROOF
<1>1. Inv => Backed
  <2> SUFFICES ASSUME Inv, mode = "build", Running, NEW u \in Urls, blobs[u] # None
               PROVE  blobs[u].sha \in stored \/ blobs[u] = orig[u]
    BY DEF Backed
  <2>1. blobs[u] = previousBlobs[u] \/ blobs[u].sha \in stored
    BY DEF Inv, Entries
  <2>2. previousBlobs[u] \in {None, orig[u]}
    BY DEF Inv, Aside, LF!EmptyMap
  <2> QED
    BY <2>1, <2>2
<1> QED
  BY <1>1, Invariance, PTL

\* Without --force-refresh a build never replaces or fetches again what its
\* manifest pinned when it started (Pinned).
THEOREM PinsHold == Spec => []Pinned
PROOF
<1>1. Inv => Pinned
  <2> SUFFICES ASSUME Inv, mode = "build", Running, ~forced, NEW u \in Urls, orig[u] # None
               PROVE  /\ blobs[u] \in {None, orig[u]}
                      /\ \A r \in Handlers :
                           url[r] = u /\ u \notin NoCacheUrls => pc[r] \notin Fetching
    BY DEF Pinned, Fetching
  <2>1. previousBlobs = orig /\ options.NoCache = NoCacheUrls
    BY DEF Inv, Aside, Life, Running, OptionsOf
  <2>2. blobs[u] \in {None, orig[u]}
    BY <2>1 DEF Inv, Entries
  <2>3. ASSUME NEW r \in Handlers, url[r] = u, u \notin NoCacheUrls
        PROVE  pc[r] \notin Fetching
    BY <2>1, <2>3 DEF Inv, Requests, Request, LF!SkipSave
  <2> QED
    BY <2>2, <2>3
<1> QED
  BY <1>1, Invariance, PTL

\* A handler that reports success for a recorded asset served exactly the
\* entry that the manifest has, whatever other handlers did (HonestSuccess).
THEOREM SuccessIsHonest == Spec => []HonestSuccess
PROOF
<1>1. Inv => HonestSuccess
  BY DEF Inv, Requests, Request, HonestSuccess
<1> QED
  BY <1>1, Invariance, PTL

\* A command that ended well leaves a complete manifest behind
\* (SuccessLeavesManifest).
THEOREM NextCommandCanStart == Spec => []SuccessLeavesManifest
PROOF
<1>1. Inv => SuccessLeavesManifest
  BY DEF Inv, Clean, SuccessLeavesManifest
<1> QED
  BY <1>1, Invariance, PTL

\* Whatever handlers have reported as recorded when the manifest is saved is
\* in the saved file (FinishedIsSaved): the dirty flag never lets a needed
\* write be skipped.
THEOREM SaveIsComplete == Spec => FinishedIsSaved
PROOF
<1>1. ASSUME Inv, Next, st # "saved", st' = "saved", exit' = "ok",
             NEW r \in Handlers, pc[r] = "done", ~err[r], info[r] # None
      PROVE  disk' \in LF!BlobMap /\ disk'[url[r]] = info[r]
  <2>1. blobs[url[r]] = info[r] /\ blobs \in LF!BlobMap
    BY <1>1 DEF Inv, TypeOK, LF!TypeOK, Requests, Request
  <2>2. LF!CloseClean \/ LF!CloseWrites
    <3>1. CASE Close \/ CloseFails
      BY <1>1, <3>1 DEF Close, CloseFails, LF!CloseTruncates
    <3>2. ASSUME NEW q \in Handlers,
                 Handle(q) \/ \E u \in Urls, m \in Methods : Accept(q, u, m)
          PROVE  st' = st
      BY <1>1, <3>2, HandlerStep DEF Local
    <3>3. ASSUME NEW cmd \in {"build", "offline"},
                 StartFails(cmd) \/ \E force \in BOOLEAN : Start(cmd, force)
          PROVE  st' \in {st, "open"}
      BY <3>3 DEF StartFails, Start, LF!NewMapFile, LF!NewMapFileFails, LF!vars
    <3>4. CASE Exit \/ Kill
      BY <1>1, <3>4 DEF Exit, Kill, Gone, LF!Die, LF!NoProcess
    <3>5. CASE Reset \/ Stop \/ \E c \in Contents : LoseBlob(c)
      BY <1>1, <3>5 DEF Reset, LF!Reset, Stop, LoseBlob, fileVars
    <3> QED
      BY <1>1, <3>1, <3>2, <3>3, <3>4, <3>5 DEF Next
  <2>3. CASE LF!CloseWrites
    BY <2>1, <2>3 DEF LF!CloseWrites
  <2>4. CASE LF!CloseClean
    <3>1. st = "open" /\ disk' = disk /\ ~(options.Writable /\ dirty)
      BY <2>4 DEF LF!CloseClean, LF!MustSave
    <3>2. mode = "build" => options.Writable
      BY <1>1, <3>1 DEF Inv, Life, OptionsOf
    <3>3. ~dirty
      BY <1>1, <3>1, <3>2 DEF Inv, Clean, Life, TypeOK
    <3> QED
      BY <1>1, <2>1, <3>1, <3>3 DEF Inv, Clean
  <2> QED
    BY <2>2, <2>3, <2>4
<1>2. Inv /\ [Next]_vars =>
        [st # "saved" /\ st' = "saved" /\ exit' = "ok" =>
           \A r \in Handlers :
             pc[r] = "done" /\ ~err[r] /\ info[r] # None
               => disk' \in LF!BlobMap /\ disk'[url[r]] = info[r]]_vars
  BY <1>1
<1> QED
  BY <1>2, Invariance, PTL DEF Spec, FinishedIsSaved

\* htvend offline contacts no upstream server and changes neither manifest
\* nor blob store (OfflineIsHermetic).
THEOREM OfflineStaysOffline == Spec => OfflineIsHermetic
PROOF
<1>1. ASSUME Inv, Next, mode = "offline"
      PROVE  /\ UNCHANGED <<disk, stored>>
             /\ \A r \in Handlers : pc'[r] \notin Fetching
  <2>1. \A r \in Handlers : pc[r] \notin Fetching
    BY <1>1 DEF Inv, Requests, Request
  <2>2. phase # "off" /\ st # "saving" /\ ~LF!MustSave /\ phase # "init"
    BY <1>1 DEF Inv, Life, Clean, LF!MustSave
  <2>3. CASE Stop \/ Close \/ CloseFails
    BY <2>1, <2>2, <2>3 DEF Stop, Close, CloseFails, LF!CloseClean, LF!CloseTruncates,
      LF!CloseWrites, LF!CloseFails, fileVars, reqVars
  <2>4. CASE Exit \/ Kill
    BY <2>4 DEF Exit, Kill, Gone, LF!Die, Fetching
  <2>5. ASSUME NEW q \in Handlers,
               Handle(q) \/ \E u \in Urls, m \in Methods : Accept(q, u, m)
        PROVE  /\ UNCHANGED <<disk, stored>>
               /\ \A r \in Handlers : pc'[r] \notin Fetching
    <3>1. Local(q) /\ Request(q)'
      BY <1>1, <2>5, HandlerStep
    <3>2. disk' = disk /\ mode' = mode /\ pc'[q] \notin Fetching
      BY <1>1, <3>1 DEF Local, runVars, Request
    <3>3. stored' = stored
      BY <2>1, <2>5 DEF Fetching, Handle, DummyOK, LookupFound, LookupMissing, Serve,
        ServeFails, FetchFails, FetchPassed, FetchOK, Copy, CopyFails, Commit,
        CommitFails, AddBlob, Accept
    <3> QED
      BY <2>1, <3>1, <3>2, <3>3 DEF Local
  <2> QED
    BY <1>1, <2>2, <2>3, <2>4, <2>5 DEF Next, StartFails, Start, Reset, LoseBlob
<1>2. Inv /\ [Next]_vars =>
        [mode = "offline" =>
           /\ UNCHANGED <<disk, stored>>
           /\ \A r \in Handlers : pc'[r] \notin {"fetch", "copy", "commit", "add"}]_vars
  BY <1>1 DEF Fetching
<1> QED
  BY <1>2, Invariance, PTL DEF Spec, OfflineIsHermetic

\* What GetBlob answers for a URL never changes while the command runs
\* (AnswerIsStable).
THEOREM AnswersAreStable == Spec => AnswerIsStable
PROOF
<1>1. ASSUME Inv, Next, Running, phase' # "off", NEW u \in Urls, LF!Found(u) # None
      PROVE  LF!Found(u)' = LF!Found(u)
  <2>1. CASE UNCHANGED <<options, blobs, previousBlobs>>
    BY <2>1 DEF LF!Found, LF!SkipSave
  <2>2. ASSUME NEW r \in Handlers,
               Handle(r) \/ \E v \in Urls, m \in Methods : Accept(r, v, m)
        PROVE  LF!Found(u)' = LF!Found(u)
    <3>1. Grows /\ options' = options /\ previousBlobs' = previousBlobs
      BY <1>1, <2>2, HandlerStep DEF Local
    <3>2. blobs'[u] = blobs[u] \/ (blobs[u] = None /\ blobs'[u] = previousBlobs[u])
      BY <1>1, <3>1 DEF Grows, LF!Found
    <3> QED
      BY <3>1, <3>2 DEF LF!Found, LF!SkipSave
  <2>3. CASE Stop \/ Close \/ CloseFails
    BY <2>1, <2>3 DEF Stop, Close, CloseFails, LF!CloseClean, LF!CloseTruncates,
      LF!CloseWrites, LF!CloseFails, fileVars
  <2> QED
    BY <1>1, <2>2, <2>3
    DEF Next, Running, StartFails, Start, Reset, LoseBlob, Exit, Kill, Gone
<1>2. Inv /\ [Next]_vars =>
        [Running /\ phase' # "off" =>
           \A u \in Urls : LF!Found(u) # None => LF!Found(u)' = LF!Found(u)]_vars
  BY <1>1
<1> QED
  BY <1>2, Invariance, PTL DEF Spec, AnswerIsStable
-----------------------------------------------------------------------------
(* With GET requests only. SameContentServed needs an invariant of its own *)
(* that reaches over all commands: an entry that is wrong once is served   *)
(* by every later one.                                                     *)

\* An entry has a body that upstream sends for its URL, and announces no other
\* length than that of this body.
Genuine(u, i) == i.sha \in Upstream[u] /\ i.len \in {None, i.sha}

AllGenuine(map) == \A u \in Urls : map[u] # None => Genuine(u, map[u])

\* What handler r serves or records is genuine, and a success is a whole answer.
Answer(r) ==
  pc[r] # "idle" =>
    /\ meth[r] = "GET"
    /\ info[r] # None => Genuine(url[r], info[r])
    /\ pc[r] = "done" /\ ~err[r] /\ info[r] # None => reply[r] = "whole"

Originals ==
  /\ AllGenuine(blobs) /\ AllGenuine(previousBlobs)
  /\ disk \in LF!BlobMap => AllGenuine(disk)
  /\ \A r \in Handlers : Answer(r)

\* A manifest of genuine entries stays one when a genuine entry is added.
LEMMA AddGenuine ==
  ASSUME blobs \in LF!BlobMap, AllGenuine(blobs),
         NEW u \in Urls, NEW i, Genuine(u, i), LF!internalAddBlob(u, i)
  PROVE  AllGenuine(blobs')
PROOF
<1>1. CASE blobs' = blobs
  BY <1>1 DEF AllGenuine
<1>2. CASE blobs' = [blobs EXCEPT ![u] = i]
  BY <1>2 DEF AllGenuine, LF!BlobMap
<1> QED
  BY <1>1, <1>2 DEF LF!internalAddBlob

\* A handler that finishes keeps its URL, its method and what it has.
LEMMA FinishingAnswer ==
  ASSUME Inv, NEW r \in Handlers, Answer(r), pc[r] # "idle", info' = info,
         NEW what, NEW failed \in BOOLEAN, Finish(r, what, failed),
         failed \/ info[r] = None \/ what = "whole"
  PROVE  Answer(r)'
PROOF
<1>1. ReqTypes
  BY DEF Inv, TypeOK, ReqTypes
<1>2. /\ pc'[r] = "done" /\ reply'[r] = what /\ url'[r] = url[r] /\ meth'[r] = meth[r]
      /\ info'[r] = info[r]
  BY <1>1 DEF Finish, ReqTypes
<1>3. err'[r] = failed
  BY <1>1 DEF Finish, ReqTypes
<1> QED
  BY <1>2, <1>3 DEF Answer

\* A step of a handler adds only what upstream sent or what was there.
LEMMA HandlerKeepsOriginals ==
  ASSUME Methods = {"GET"}, Inv, Originals, NEW r \in Handlers,
         Handle(r) \/ \E u \in Urls, m \in Methods : Accept(r, u, m)
  PROVE  Originals'
PROOF
<1>1. ReqTypes /\ Request(r) /\ Answer(r) /\ blobs \in LF!BlobMap
  BY DEF Inv, TypeOK, ReqTypes, Requests, Originals, LF!TypeOK
<1>2. Local(r)
  BY HandlerStep
<1>3. previousBlobs' = previousBlobs /\ disk' = disk
  BY <1>2 DEF Local
<1>4. AllGenuine(blobs')
  <2>1. ASSUME pc[r] = "start", LF!GetBlob(url[r]) PROVE AllGenuine(blobs')
    <3>1. CASE LF!Found(url[r]) = None
      BY <2>1, <3>1 DEF LF!GetBlob, LF!vars, Originals
    <3>2. CASE LF!Found(url[r]) # None
      <4>1. url[r] \in Urls
        BY <1>1, <2>1 DEF Request
      <4>2. Genuine(url[r], LF!Found(url[r]))
        BY <3>2, <4>1 DEF LF!Found, Originals, AllGenuine
      <4> QED
        BY <1>1, <2>1, <3>2, <4>1, <4>2, AddGenuine DEF LF!GetBlob, Originals
    <3> QED
      BY <3>1, <3>2
  <2>2. CASE AddBlob(r)
    <3>1. url[r] \in Urls /\ info[r] \in LF!BlobInfo /\ pc[r] = "add" /\ ~LF!SkipSave(url[r])
      BY <1>1, <2>2 DEF AddBlob, Request
    <3>2. Genuine(url[r], info[r])
      BY <1>1, <3>1, ListenerAssumption DEF Answer
    <3>3. LF!internalAddBlob(url[r], info[r])
      BY <2>2, <3>1 DEF AddBlob, LF!AddBlob
    <3> QED
      BY <1>1, <3>1, <3>2, <3>3, AddGenuine DEF Originals
  <2>3. CASE LookupFound(r) \/ LookupMissing(r)
    BY <2>1, <2>3 DEF LookupFound, LookupMissing
  <2>4. CASE blobs' = blobs
    BY <2>4 DEF Originals
  <2> QED
    BY <2>2, <2>3, <2>4 DEF Handle, Accept, DummyOK, Serve, ServeFails, FetchFails,
       FetchPassed, FetchOK, Copy, CopyFails, Commit, CommitFails, fileVars
<1>5. ASSUME NEW q \in Handlers, q # r PROVE Answer(q)'
  <2>1. pc'[q] = pc[q] /\ url'[q] = url[q] /\ info'[q] = info[q] /\ err'[q] = err[q]
    BY <1>2, <1>5 DEF Local
  <2>2. meth'[q] = meth[q] /\ reply'[q] = reply[q]
    BY <1>1, <1>5 DEF ReqTypes, Handle, Accept, DummyOK, LookupFound, LookupMissing, Serve,
       ServeFails, FetchFails, FetchPassed, FetchOK, Copy, CopyFails, Commit, CommitFails,
       AddBlob, Finish
  <2> QED
    BY <2>1, <2>2 DEF Originals, Answer
<1>6. Answer(r)'
  <2>1. CASE \E u \in Urls, m \in Methods : Accept(r, u, m)
    <3>1. pc'[r] = "start" /\ meth'[r] = "GET" /\ info'[r] = None
      BY <1>1, <2>1 DEF Accept, ReqTypes
    <3> QED
      BY <3>1 DEF Answer
  <2>2. CASE DummyOK(r) \/ FetchPassed(r)
    <3>1. info[r] = None /\ info' = info /\ pc[r] # "idle"
      BY <1>1, <2>2 DEF DummyOK, FetchPassed, Request
    <3> QED
      BY <1>1, <2>2, <3>1, FinishingAnswer DEF DummyOK, FetchPassed
  <2>3. CASE LookupFound(r)
    <3>1. /\ pc[r] = "start" /\ pc'[r] = "serve" /\ url'[r] = url[r] /\ meth'[r] = meth[r]
          /\ info'[r] = LF!Found(url[r]) /\ url[r] \in Urls
      BY <1>1, <2>3 DEF LookupFound, ReqTypes, Request
    <3>2. LF!Found(url[r]) # None => Genuine(url[r], LF!Found(url[r]))
      BY <3>1 DEF LF!Found, Originals, AllGenuine
    <3> QED
      BY <1>1, <3>1, <3>2 DEF Answer
  <2>4. CASE LookupMissing(r)
    <3>1. pc[r] = "start" /\ info[r] = None /\ info' = info
      BY <1>1, <2>4 DEF LookupMissing, Request
    <3>2. CASE mode # "build"
      BY <1>1, <2>4, <3>1, <3>2, FinishingAnswer DEF LookupMissing
    <3>3. CASE mode = "build"
      <4>1. pc'[r] = "fetch" /\ meth'[r] = meth[r]
        BY <1>1, <2>4, <3>3 DEF LookupMissing, ReqTypes
      <4> QED
        BY <1>1, <3>1, <4>1 DEF Answer
    <3> QED
      BY <3>2, <3>3
  <2>5. CASE Serve(r)
    <3>1. pc[r] = "serve" /\ info' = info /\ info[r] # None /\ meth[r] = "GET"
      BY <1>1, <2>5, ListenerAssumption DEF Serve, Request, Answer
    <3>2. info[r].len \in {None, info[r].sha}
      BY <1>1, <3>1 DEF Answer, Genuine
    <3>3. Finish(r, "whole", FALSE) \/ Finish(r, CutShort(r), TRUE)
      BY <2>5, <3>2 DEF Serve
    <3> QED
      BY <1>1, <3>1, <3>3, FinishingAnswer
  <2>6. CASE ServeFails(r) \/ FetchFails(r) \/ CopyFails(r) \/ CommitFails(r)
    <3>1. pc[r] # "idle" /\ info' = info /\ \E what \in Replies : Finish(r, what, TRUE)
      BY <2>6, RepliesTyped DEF ServeFails, FetchFails, CopyFails, CommitFails
    <3> QED
      BY <1>1, <3>1, FinishingAnswer
  <2>7. ASSUME NEW c \in Contents, FetchOK(r, c) PROVE Answer(r)'
    <3>1. PICK i \in Recorded(r, c) : info' = [info EXCEPT ![r] = i]
      BY <2>7 DEF FetchOK
    <3>2. /\ pc[r] = "fetch" /\ pc'[r] = "copy" /\ url'[r] = url[r] /\ meth'[r] = meth[r]
          /\ info'[r] = i
      BY <1>1, <2>7, <3>1 DEF FetchOK, ReqTypes
    <3>3. meth[r] = "GET"
      BY <1>1, <3>2 DEF Answer
    <3>4. c \in Upstream[url[r]]
      BY <2>7, <3>3 DEF FetchOK, Bodies
    <3>5. Genuine(url[r], i)
      BY <3>3, <3>4 DEF Recorded, Genuine
    <3> QED
      BY <3>2, <3>3, <3>5 DEF Answer
  <2>8. CASE Copy(r) \/ Commit(r)
    <3>1. /\ pc[r] # "idle" /\ pc'[r] \in {"commit", "add"}
          /\ url'[r] = url[r] /\ meth'[r] = meth[r] /\ info'[r] = info[r]
      BY <1>1, <2>8 DEF Copy, Commit, ReqTypes
    <3> QED
      BY <1>1, <3>1 DEF Answer
  <2>9. CASE AddBlob(r)
    <3>1. pc[r] # "idle" /\ info' = info
      BY <2>9 DEF AddBlob
    <3>2. Finish(r, "whole", FALSE) \/ Finish(r, AfterBody(r), TRUE)
      BY <2>9 DEF AddBlob
    <3> QED
      BY <1>1, <3>1, <3>2, FinishingAnswer
  <2> QED
    BY <2>1, <2>2, <2>3, <2>4, <2>5, <2>6, <2>7, <2>8, <2>9 DEF Handle
<1> QED
  BY <1>3, <1>4, <1>5, <1>6 DEF Originals

\* Neither does a command, which moves whole manifests between memory and disk.
LEMMA StepOriginals ==
  ASSUME Methods = {"GET"}, Inv, Originals, [Next]_vars
  PROVE  Originals'
PROOF
<1>1. AllGenuine(LF!EmptyMap)
  BY DEF AllGenuine, LF!EmptyMap
<1>2. ASSUME UNCHANGED <<pc, url, meth, info, reply, err>>,
             blobs' \in {blobs, disk, LF!EmptyMap}, blobs' \in LF!BlobMap,
             previousBlobs' \in {previousBlobs, blobs, LF!EmptyMap},
             disk' \in {disk, Torn, blobs}
      PROVE  Originals'
  <2>1. AllGenuine(blobs')
    BY <1>1, <1>2 DEF Originals
  <2>2. AllGenuine(previousBlobs')
    BY <1>1, <1>2 DEF Originals
  <2>3. disk' \in LF!BlobMap => AllGenuine(disk')
    BY <1>2, ListenerAssumption DEF Originals
  <2>4. \A r \in Handlers : Answer(r)'
    BY <1>2 DEF Originals, Answer
  <2> QED
    BY <2>1, <2>2, <2>3, <2>4 DEF Originals
<1>3. blobs \in LF!BlobMap /\ blobs' \in LF!BlobMap
  BY StepInv DEF Inv, TypeOK, LF!TypeOK
<1>4. CASE \E r \in Handlers :
             Handle(r) \/ \E u \in Urls, m \in Methods : Accept(r, u, m)
  BY <1>4, HandlerKeepsOriginals
<1>5. CASE Exit \/ Kill
  <2>1. /\ blobs' = LF!EmptyMap /\ previousBlobs' = LF!EmptyMap /\ disk' = disk
        /\ \A r \in Handlers : pc'[r] = "idle"
    BY <1>5 DEF Exit, Kill, Gone, LF!Die, LF!NoProcess
  <2> QED
    BY <1>1, <2>1 DEF Originals, Answer
<1>6. ASSUME NEW cmd \in {"build", "offline"}, NEW force \in BOOLEAN, Start(cmd, force)
      PROVE  Originals'
  BY <1>2, <1>3, <1>6 DEF Start, LF!NewMapFile, reqVars
<1>7. ASSUME NEW cmd \in {"build", "offline"}, StartFails(cmd)
      PROVE  Originals'
  BY <1>2, <1>3, <1>7 DEF StartFails, LF!NewMapFileFails, LF!vars, reqVars
<1>8. CASE Reset
  BY <1>2, <1>3, <1>8 DEF Reset, LF!Reset, reqVars
<1>9. CASE Close \/ CloseFails
  BY <1>2, <1>3, <1>9 DEF Close, CloseFails, LF!CloseClean, LF!CloseTruncates,
     LF!CloseWrites, LF!CloseFails, reqVars
<1>10. CASE Stop \/ \E c \in Contents : LoseBlob(c)
  BY <1>2, <1>3, <1>10 DEF Stop, LoseBlob, fileVars, reqVars
<1>11. CASE UNCHANGED vars
  BY <1>2, <1>3, <1>11 DEF vars, fileVars, reqVars
<1> QED
  BY <1>4, <1>5, <1>6, <1>7, <1>8, <1>9, <1>10, <1>11 DEF Next

\* Where clients send nothing but GET, one that is answered with a recorded asset
\* gets, completely, a body that upstream has for the URL, by whichever of any
\* number of builds the entry was recorded and whichever command serves it
\* (SameContentServed).
THEOREM GetOnlySameContent ==
  ASSUME Methods = {"GET"}
  PROVE  Spec => []SameContentServed
PROOF
<1>1. Init => Originals
  <2> SUFFICES ASSUME Init PROVE Originals
    OBVIOUS
  <2>1. AllGenuine(blobs) /\ AllGenuine(previousBlobs)
    BY DEF Init, LF!Init, LF!EmptyMap, AllGenuine
  <2>2. disk \notin LF!BlobMap
    BY ListenerAssumption DEF Init, LF!Init
  <2>3. \A r \in Handlers : Answer(r)
    BY DEF Init, Answer
  <2> QED
    BY <2>1, <2>2, <2>3 DEF Originals
<1>2. Inv /\ Originals /\ [Next]_vars => Originals'
  BY StepOriginals
<1>3. Originals => SameContentServed
  BY DEF Originals, Answer, Genuine, SameContentServed
<1> QED
  BY <1>1, <1>2, <1>3, Invariance, PTL DEF Spec
-----------------------------------------------------------------------------
(* The manifest inside a command is the manifest of LockFile.              *)

\* The commands and their handlers, however many at once, use the manifest as
\* LockFile allows: every step calls one of its operations, or none.
THEOREM CommandsUseManifest == Spec => LF!Spec
PROOF
<1>1. Init => LF!Init
  BY DEF Init
<1>2. Inv /\ [Next]_vars => [LF!Next]_(LF!vars)
  <2> SUFFICES ASSUME Inv, [Next]_vars PROVE LF!Next \/ UNCHANGED LF!vars
    OBVIOUS
  <2>1. ASSUME NEW cmd \in {"build", "offline"},
               StartFails(cmd) \/ \E force \in BOOLEAN : Start(cmd, force)
        PROVE  LF!Next
    <3>1. OptionsOf(cmd) \in LF!Options
      BY ListenerAssumption DEF OptionsOf, LF!Options, LF!ReadOnly
    <3> QED
      BY <2>1, <3>1 DEF StartFails, Start, LF!Next
  <2>2. CASE Reset
    BY <2>2 DEF Reset, LF!Next, Inv, TypeOK
  <2>3. ASSUME NEW r \in Handlers, Handle(r) PROVE LF!Next \/ UNCHANGED LF!vars
    <3>1. Request(r)
      BY DEF Inv, Requests
    <3>2. CASE LookupFound(r) \/ LookupMissing(r)
      BY <3>1, <3>2 DEF LookupFound, LookupMissing, Request, LF!Next
    <3>3. CASE AddBlob(r)
      BY <3>1, <3>3 DEF AddBlob, Request, LF!Next
    <3> QED
      BY <2>3, <3>2, <3>3 DEF Handle, DummyOK, Serve, ServeFails, FetchFails,
         FetchPassed, FetchOK, Copy, CopyFails, Commit, CommitFails, fileVars, LF!vars
  <2>4. CASE Close \/ CloseFails \/ Exit \/ Kill
    BY <2>4 DEF Close, CloseFails, Exit, Kill, Gone, LF!Next
  <2>5. CASE \/ Stop \/ \E c \in Contents : LoseBlob(c)
             \/ \E r \in Handlers, u \in Urls, m \in Methods : Accept(r, u, m)
             \/ UNCHANGED vars
    BY <2>5 DEF Stop, LoseBlob, Accept, vars, fileVars, LF!vars
  <2> QED
    BY <2>1, <2>2, <2>3, <2>4, <2>5 DEF Next
<1> QED
  BY <1>1, <1>2, Invariance, PTL DEF Spec, LF!Spec
=============================================================================
