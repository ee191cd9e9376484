# A verification of htvend in TLA+

`htvend` runs a build behind an HTTP(S) proxy and records everything the build
fetches: the URL and the SHA-256 of the body in a *manifest* (`assets.json`),
the body itself in a *blob store*. Later it replays the build from them without
a network. This directory models the parts of `cli/internal` that decide
whether that is right, checks them with TLC on small instances and proves the
main safety properties with TLAPS for all instances.

## 1. The system

| component (source under `cli/internal`) | state | operations | what is hard |
|---|---|---|---|
| manifest, `lockfile/lock_file.go` | `blobs`, `previousBlobs`, `dirty`, options; the file on disk | `NewMapFile`, `Reset`, `GetBlob`, `AddBlob`, `RemoveEntry`, `Close`, `CloseAndDestroy` | handlers race; the write is truncate-then-fill; a flag decides whether it happens |
| manifest lock, same file | lock file, flock | taken in `NewMapFile`, released and removed in `Close` | several processes; crashes; unlock and remove are two steps |
| blob store interface, `blobstore/store.go` | set of blobs, open handles | `Get`, `Exists`, `Put`, `Write`, `Commit`, `Cleanup`, `Destroy`, `RemoveExcept` | a commit has to be atomic |
| directory store, `blobstore/directory` | files, temporary files | the same, as system calls | processes share the directory; partial writes; crashes; sweeps |
| registry store, `blobstore/registry` | an upload session (URL, digest, offset) | POST, PATCH, PUT, DELETE | a request that fails may have been carried out; sessions expire |
| S3 store, `blobstore/s3store` | a temporary file and its hash | collect, upload, remove | short writes; Commit can fail after the upload |
| request handlers, `htvend/flags_listener.go` | one goroutine per request | look up, serve, fetch, tee, commit, record | handlers race with each other and with the end of the command |
| `build`, `offline`, `htvend/command_*.go` | phase of the command | open, reset, serve, close | errors in deferred functions; kill; run after run on the same files |
| `verify`, `htvend/command_verify.go` | missing and wrong assets | scan, fetch, repair, close | silent failures; the store changes meanwhile; the manifest is saved after an error too |
| registry tokens, `registryauthclient` | a cache with time to live | challenge, token, final request | tokens age while they travel |
| `export`, `htvend/command_export.go`, `jobs/multitasker.go` | one task per blob, a channel, a wait group | look up, copy, commit, compare; queue, wait | who closes the channel and when; other writers; repeated runs |
| proxy life cycle, `proxyserver/http_proxy.go`, `app/` | context, two servers, child, deferred functions | start, wait, cancel, shut down | order of deferred functions; signals at any time |
| CONNECT tunnel, `proxyserver/http_proxy.go` | two connections, a goroutine | dial, hijack, copy both ways, close | no half-close: how it ends depends on who closes and how |
| CA files, same file | a key file and a certificate file | read the pair, or generate and save it | deaths between the two files; two first starts at once; the child is given a path |

How they interact: the command opens the manifest (taking its lock) and the
store, resets the manifest (build only), and calls `ServeUntilDone`, which runs
two HTTP servers and the child. Each request is a goroutine that calls the
manifest (under its mutex) and the store (no lock: atomicity comes from
`rename`). When the child ends, or a signal comes, the servers are told to shut
down, nothing waits for the handlers, and the deferred `Close` writes the
manifest. Other htvend processes share the store always and the manifest
sometimes.

What makes it correct:

* store: what is found under a hash has that hash; commit is all or nothing;
* manifest: the file is what the memory was when it was saved; entries do not
  change under a running build;
* handlers: nothing is recorded that is not stored; success is reported only
  for what is recorded; pins are respected; offline touches nothing;
* command: it ends when it should, reports what failed, leaves a usable manifest;
* lock: one writer at a time, no lost update;
* verify, export: success means that every asset is there; what is not
  confirmed is not replaced; every task's error comes out;
* tunnel and CA: a tunnel ends and leaves nothing; the child trusts its proxy.

`PROJECT.json` lists every component with its status, and every hazard with its
line and the properties aimed at it.

## 2. The modules

```
StoreConstants <-EXTENDS- DirectoryStore, RegistryStore, S3Store
BlobStore <-implements-   DirectoryStore, RegistryStore, S3Store
BlobBackends  = DirectoryStore + RegistryStore + S3Store      MCBlobBackends
LockFile                                                      MCLockFile
Listener      = LockFile + handlers + build, offline          MCListener
ManifestLock                                                  MCManifestLock
ProxyServer                                                   MCProxyServer
Connect       = TlsKeys + one tunnel                          MCConnect
Verify        = LockFile + RegistryAuth + a store             MCVerify
Export        = MultiTasker + BlobStore (the destination)     MCExport
```

`BlobBackendsProofs` (all three stores), `LockFileProofs`, `ListenerProofs`,
`ManifestLockProofs`, `ProxyServerProofs`, `ConnectProofs` (with `TlsKeys`),
`VerifyProofs` (with `RegistryAuth`) and `ExportProofs` (with `MultiTasker`) hold
the proofs about the modules of those names.

**BlobStore** is the promise of the interface: a set of stored bodies and
handles that are idle, open with the bytes accepted so far, or committed.
`Commit` makes exactly those bytes readable in one step; nothing else adds.

**DirectoryStore** is one step per system call. `files` holds name and content
separately, so that a wrong content under a name can be said; `temps` are the
files `os.CreateTemp` made; `caf` is a `ContentAddressableFile` (temporary file
and digest); `sweep` is a `RemoveExcept` or `Destroy` in progress. Every call
may fail (`WriteFails`, `CommitFails`, the second branch of `Cleanup`), a write
may be short, and the owner of a handle may die (`Crash`). `leaked` is a history
variable. Handles may belong to one process or to several. `RemoveExcept` and
`Destroy` are part of the `Store` interface and modelled as such, but none of
htvend's commands calls them (nor `CloseAndDestroy` of the manifest), and the
registry and S3 stores only return an error for them. The refinement maps
`files` to its names and a handle to the bytes in its digest.

**RegistryStore** is one step per HTTP request and, for the PUT of `Commit`, one
more for its answer (`CommitPut`, `CommitReturns`). `upload` is a
`blobBeingUploaded`: session, digest and `bw`. A failed `Write` leaves what the
tee has read in the digest and any part of that in the session; a failed
`Commit` may have stored the blob. The registry (external) checks the offset of
a PATCH and the digest of a PUT, and may drop sessions. The refinement counts a
handle as committed as soon as the registry has stored the blob.

**S3Store** collects a body in a temporary file; `CommitUpload` is the PutObject,
`CommitReturns` the `Cleanup` inside `Commit`. `Lose` is a failed `os.Remove`
(every caller drops that error) or the death of the process.

**BlobBackends** is `MakeBlobStore`: one of the three stores is chosen and the
others stand still, so one run covers all of them over the same constants.

**LockFile** is `lockfile.File` method by method; every method runs under the
mutex and is one step, except `Close`, whose `os.WriteFile` is two
(`CloseTruncates`, `CloseWrites`) with room for a death in between. A
`BlobInfo` is the hash and the cached `Content-Length`, the one header that
changes what a client sees; a length is named by the body that has it, so
bodies of equal length are one body. `disk` is the file: a map, `NoFile` or
`Torn`.

**Listener** composes the manifest with concurrent handlers and the life of the
`build` and `offline` commands, run after run. `pc[r]` is where handler `r` is:

| `pc` | code of `flags_listener.go` | steps |
|---|---|---|
| `start` | 147-185 | `DummyOK`, `LookupFound`, `LookupMissing` |
| `serve` | 295-317 | `Serve`, `ServeFails` |
| `fetch` | 190-257 | `FetchFails`, `FetchPassed`, `FetchOK` |
| `copy` | 259-267 | `Copy`, `CopyFails` |
| `commit` | 269-272 | `Commit`, `CommitFails` |
| `add` | 274-283 | `AddBlob` |
| `done` | 102-107 | the handler has returned |

`reply` is what the client has seen. `Copy` may show a body whose length was
announced completely before the handler goes on, which is what `io.Copy` does.
`Stop` does not wait for handlers, as `Shutdown` is called in a goroutine nobody
waits for; handlers run on until `Exit`. `Kill` may come at any time and
`LoseBlob` between two commands. A request has a method, which `handleMainServerRequest`
forwards and otherwise ignores: GET, HEAD, or "POST" for all others, which an
origin may answer with anything. The store is abstracted to its set of blobs,
which the refinements of `BlobStore` justify. `orig` is a history variable.

**ManifestLock** is about processes that write the same manifest. What matters
is which inode a process has open and which one has the name of the lock file:
`fslock.Lock` opens and then locks without waiting, `Close` unlocks and then
removes the name. `stolen` is a history variable that records that a lock file
was removed while another process had it open.

**ProxyServer** is `ServeUntilDone`: forward through its statements, backward
through its deferred functions in Go's order, with the two servers, the child
and signals beside it. Each failure goes to the deferred functions that had been
registered by then.

**Verify** is `htvend verify`: `Start` opens the manifest, `Scan` reads and
hashes each blob in any order, and missing assets go through `fetchAndSaveBlob`
one by one (`FetchStarts`, `Travel`, then `FetchPassed`, `SaveFails` or `Save` and
`Record`). Every return ends in the deferred `Close`, which saves what was
replaced until then. It starts from every manifest and every store, and other
commands may add blobs (`OtherStores`).

**RegistryAuth** is its transport. There is no clock: the cache entry and the
token carry how long they still have, `Tick` takes one off all of them, and a
message may be under way for at most `MaxDelay`. The token server may leave out
`expires_in`.

**MultiTasker** is the channel without a buffer, the wait group and the goroutine
that closes the channel. **Export** runs `ensureBlobExported`, operation by
operation, in its tasks; the destination is the abstract `BlobStore`, which all
three stores implement, and the source may have lost or damaged any blob.

**TlsKeys** is `newSelfSignedServer` in several processes that may share the two
files, one step per system call (`os.WriteFile` is two). A key and its
certificate are one value. The files may hold anything at first: nothing, torn
text, a pair, or a key and a certificate that do not belong together. After that
only proxies write to them; a user who replaces them under a running proxy is not
modelled. `Trusted` is what `sslCertFileAppender` gives the
child: a path, so what the child reads is what the file holds *then*. `raced` is
a history variable: two processes were generating at the same time; `given` is
another: the certificate that was there at first without its key.
**Connect** adds the tunnels of one proxy. A client closes with a TLS
`close_notify` or without one. `asked` says that a request is in flight: from
`Request` until the TLS server's handler, which is `handleMainServerRequest`,
has returned (`Answered`). The TLS server closes a connection when it is notified,
or by itself (`Shutdown` closes idle connections), but not while a handler runs
on it.

## 3. The runs

| run | instance | what it shows |
|---|---|---|
| `blob_stores` | 2 writers, 2 temporary names, 2 sessions, bodies to 2 bytes, each backend | `ContentAddressed`, `TempsOwned`, `ImplementsBlobStore`; `RegistrySessionMatchesDigest`, `RegistrySessionsOwned`, `RegistryImplementsBlobStore`; `S3ContentAddressed`, `S3TempsOwned`, `S3ImplementsBlobStore` |
| `lockfile` | 2 URLs, 2 bodies, every option | `CleanMeansSaved`, `EntryNeverChanges` |
| `listener` | 2 handlers, a cached and an uncached URL, HEAD and other methods | `Backed`, `Pinned`, `HonestSuccess`, `SuccessLeavesManifest`, `FinishedIsSaved`, `OfflineIsHermetic`, `AnswerIsStable` |
| `listener_get` | 2 handlers, one URL, GET only, an origin with two answers, fairness | `SameContentServed`, `StopLeadsToExit`, `HitIsAnswered` |
| `manifest_lock` | 3 processes, 4 inodes | `ExclusiveUnlessStolen`, `NoLostUpdate` |
| `proxy_server` | complete (no constants), fairness | `NothingLeft`, `FailureIsReported`, `CommandEnds` |
| `connect` | 2 proxies sharing files, 3 key pairs, any files at first, tunnels through one proxy, fairness | `NothingLeft`, `ChildTrustsProxy`, `PairMatches`, `TunnelEnds` |
| `verify` | 2 URLs of one repository, 1 of none and possibly not to be cached, 2 bodies, any flags | `ConfirmedUnlessRefused`, `ReplacesOnlyMissing`, `TokenInTime` |
| `export` | 2 blobs (one empty), any damage, others writing, repeated runs, fairness | `ExportComplete`, `ErrorHasReason`, `CollectsAll`, `ExportEnds` |

and three runs in which TLC finds that the code does not do what a comment or
document says. The counterexamples are short:

| run | statement | behaviour |
|---|---|---|
| `listener_shutdown` | `RecordsEveryFetchedAsset` (rules/lock.bzl:4) | fetch; the client has the body; the child ends; the manifest is saved; the handler would have recorded it now |
| `manifest_lock_exclusive` | `ExclusiveLock` (lock_file.go:67) | unlock; another process locks; the file is removed; a third one creates and locks a new one |
| `verify_confirms` | `VerifyConfirms` (README.md:149-150) | the origin answers 404 for a missing asset; nothing is saved, no error is returned, verify succeeds |

Deviations the models have but no run of their own shows:

* The response to a request of any method is recorded like that to a GET, under
  the URL alone (`flags_listener.go:168`, `:238`): a HEAD with the hash of its
  empty body and the real Content-Length, a POST with whatever it was answered. A
  later GET is served that. README.md:60 says "The same content is served". The
  `listener` run has both; `SameContentServed` holds, and is checked and
  proved, with GET only.
* Offline, a recorded asset without its blob is a 500 (`flags_listener.go:300`),
  where README.md:105-107 announces a missing asset.
* On a torn manifest a build or a repair panics instead of returning the error
  (`lock_file.go:83` calls `Close` on a nil `File`): `StartFails`.
* If the second listener cannot be opened the command hangs until a signal
  (`http_proxy.go:198` waits before `:180` cancels); `CommandEnds`
  states that a signal still ends it, and that every other failed start returns.
* With `--repair` and without `--fetch` a directory or registry store is opened
  read-only (`command_verify.go:61`), though docs/cli.md:143 says the flag implies
  fetching: `StoreWritable`, and the return value "readonly".
* On S3 a missing object is an error like any other (`s3_store.go:68`), so verify
  stops at the first missing asset: the guard of `Scan`.
* Two proxies that generate the CA pair at once can leave one that does not
  match, hence `~raced` in `PairMatches` and `ChildTrustsProxy`.
* A certificate whose key is missing is replaced by `--tls-generate-if-missing`,
  key first. A death in between leaves the new key beside the old certificate, and
  every later start fails until the user removes one; hence `given` in
  `PairMatches`.
* A client that disconnects without a `close_notify` while the server is idle
  leaves its tunnel open until the server closes it, because the end of the
  client's data is not passed on (`http_proxy.go:295-309`); hence `Over` in
  `TunnelEnds`.
* A client that says good-bye while its request is in flight leaves its tunnel
  open until the handler returns: Go's server cancels the context of the request,
  but the fetch upstream (`flags_listener.go:201-212`) uses neither that context
  nor a timeout, so `handleConnect` may sit in `io.Copy` (`http_proxy.go:305`) for
  as long as the origin keeps silent. Hence `~asked` in `Over`.

**Bounds.** Two handlers are enough for any race on one URL, since every
property relates at most two of them; one cached and one uncached URL exercise
both branches of every matcher; the empty body and one other exercise HEAD and
the empty file, and let a POST be answered with what no GET is
(the `listener` run has HEAD and POST: a POST may be answered all that a GET may,
and its properties do not ask for the method), and `listener_get` has two others
for an origin that changes its answer. A body of two bytes can be torn in the middle and written in one
call or in two. Three processes are the fewest for the lock race, and four
inodes let each have its own with one to spare. Two URLs of one
repository let the second be fetched with the cached token of the first; a token
that is good for three ticks, kept for one and needed for up to two makes it
both usable and stale. Two blobs make tasks race for the channel; with three the
run takes minutes and finds nothing more. Two proxies are enough for the race on
the CA files, and three key pairs let both generate one beside a certificate
that has lost its key, which is as many as a start can find or make. All
bounds are `CONSTANTS`; the only caps in guards are `MaxLen`, which the theorems
leave arbitrary, and `MaxDelay`.

A build that fails early saves a shorter, even an empty, manifest, because
`Reset` empties the list before the listeners start and `Close` saves it in any
case; the models have this behaviour, and no property speaks against it.

Every module has a type invariant. It is proved in every component, as part of
the inductive invariant; three runs list it as well.

**Symmetry** is used in safety runs only.

**Deadlock** is checked everywhere except in the runs of `ProxyServer` and
`Verify`, where the command really ends. (A store, a manifest and a lock can always be used
again; a command can always be started.)

**Fairness.** `Listener`: a stopping command goes on to close the manifest and
to exit (`WF` of `Close` and `Exit`), because its goroutine waits for nobody; a
handler that has its blob from the manifest runs on, because it takes a mutex
nobody keeps, reads a local store and writes to a client that reads. Nothing is assumed of upstream servers
(`http.DefaultClient` has no timeout), of the user or of the child.
`ProxyServer`: the calling goroutine and those of the servers are scheduled, and
a child killed through its context (`exec.CommandContext`) dies. Nothing is
assumed of a child that is left alone, or of signals. `Connect`: the handler and
its goroutine are scheduled, and the TLS server closes a connection whose client
has sent `close_notify` when no handler is running on it (Go's server does so on
reading it, or when the handler returns). Nothing is assumed of clients, of a
server that is told nothing, or of a handler: `Answered` is not fair, because the
handler may wait for an upstream server for ever. `Export`: every task, the
closing goroutine and the caller are scheduled, and every operation on a store
ends, with or without an error.

## 4. The proofs

Every safety property that a run checks is also proved, for every value of the
constants: invariants, action properties, and the refinements. The proofs are in
eight modules. Each has an inductive invariant, made of named parts, with three
facts (it holds initially, every step keeps it, it implies the properties), and
each was checked with TLC on the instances above before it was proved. Where
several actors share the state the argument is the same: one lemma says what a
step of one of them may change, another that such a step leaves true what the
others rely on.

* `BlobBackendsProofs`, assuming `StoreAssumption` (payloads are non-empty byte
  strings, `None` is neither a name nor a body).
  - Directory: `ContentAddressed`, `TempsOwned`, `ImplementsBlobStore`. The
    invariant says that a handle that can still be committed has a temporary file
    that is either gone (a sweep) or has exactly the bytes of the digest, that no
    two handles share a temporary file, and that every file's content is its name.
    Without the first part a rename could publish other bytes; without the second,
    the bytes of another writer. The refinement needs the invariant for
    `CommitRename` only: the name that appears is the digest.
  - Registry: `RegistrySessionMatchesDigest`, `RegistrySessionsOwned`,
    `RegistryImplementsBlobStore`. `RegistryInv` says that a session that is still
    open holds what its handle has hashed, at that offset (`UploadOK`), that a PUT
    that stored the blob has ended the session, and that sessions are not shared.
    A handle counts as committed when the registry stores the blob, so the lost
    answer of a PUT and the `Cleanup` after it are stutters.
  - S3: `S3ContentAddressed`, `S3TempsOwned`, `S3ImplementsBlobStore`. `S3Inv` says
    that file and hash agree unless a write failed, and that a handle keeps its
    file until `Commit` or `Cleanup` has removed it, also after an upload.
  - `EveryBackendKeepsItsPromise`: whichever is chosen, it implements `BlobStore`
    and leaves nothing without an owner.
* `LockFileProofs`: `CleanMeansSaved` and `EntryNeverChanges`. The invariant adds
  that a manifest that is being saved is dirty, without which a failed save would
  break the property.
* `ListenerProofs`, assuming `ListenerAssumption`: `Backed`, `Pinned`,
  `HonestSuccess`, `SuccessLeavesManifest`, `FinishedIsSaved`,
  `OfflineIsHermetic`, `AnswerIsStable`.
  The invariant `Inv` says how the phases of command and manifest go together
  (`Life`), what Reset put aside (`Aside`), where entries come from (`Entries`),
  how file and memory agree (`Clean`), and what each handler knows at each place
  (`Request`): above all, that a handler that fetches a URL has found nothing put
  aside for it, and that one about to record has its blob stored. Each step of a
  handler lets the manifest only grow (`Local`, `HandlerStep`), and a manifest that
  only grows keeps true what the others know (`HandlerKeepsInv`).
  - `SameContentServed` is proved for `Methods = {"GET"}`; with HEAD or another
    method it is false (section 3). Its invariant `Originals` reaches over all commands: every entry,
    in memory, put aside or on disk, has a body that upstream sends for its URL and
    announces no other length, since a wrong one would be served for ever after.
  - `CommandsUseManifest`: the commands, with any number of handlers, implement
    `LockFile`, so that the theorems of `LockFileProofs` hold in them
    (`ListenerAssumption` implies `LockFileAssumption`).
* `ManifestLockProofs`: `ExclusiveUnlessStolen` and `NoLostUpdate`. As long as no
  lock file was removed under another process, whoever has a lock file open has
  the one that has the name, so all compete for one flock.
* `ExportProofs`: `CollectsAll`, `ExportComplete`, `ErrorHasReason`. `MTInv` says
  that the channel is closed only when nobody is left to send (`ClosedLast`) and
  that Wait has noted an error exactly if it has received one (`Noted`); `Inv` adds
  that a result tells the truth about its blob (`ResultIsTrue`) and what the handle
  of a task is at each of its steps (`HandleOf`), so that what the comparison after
  `Commit` finds equal is in the destination. Other commands only add.
* `VerifyProofs`, assuming `VerifyAssumption`: `TokenInTime`,
  `ReplacesOnlyMissing`, `ConfirmedUnlessRefused`. `AuthInv`: a cached token that
  may be used lives longer than the cache says, by the margin less what its answer
  was under way (`CachedLives`); a token that is sent lives as long as the request
  can take (`TripLives`). `Maps`: manifest and file are derived from what was
  loaded, entry by entry. `Confirmed`: an entry is still to be dealt with, listed
  as wrong, or good, at each place of `Execute`.
  The proof needs one assumption more than the margin: a token must live as long as
  its answer and the request that carries it may take (`2 * MaxDelay <= Life`),
  because a new token goes with its request without a look at `expires_in`. TLC
  shows the failure with `Life = 1`, `MaxDelay = 1`, `Margin = 2`. The code does not
  check this; it holds of registries, whose tokens live for minutes.
* `ProxyServerProofs`: `NothingLeft`, `FailureIsReported`. The invariant says for
  each place of the calling goroutine which servers have been started by then
  (`Started`) and which have been waited for and closed on the way back
  (`WaitedFor`, `Closed`).
* `ConnectProofs`, assuming `ConnectAssumption`: `NothingLeft`, by what is open at
  each place of the handler (`Tunnel`); `ChildTrustsProxy` and `PairMatches`, for
  any number of proxies and whatever the files hold at first. Until two have been
  generating at once, the proxy that saves is alone (`Alone`) and has brought the
  files as far as its place says (`SaverOK`). One of them was missing when it began,
  so they are not a pair, and not until its last write do they become one; hence
  nobody works with a pair from the files meanwhile (`ReaderOK`). Nobody has read
  a certificate of the pair it writes, which is new, so a reader that got the old
  certificate does not find its key. A complete certificate that was not there
  before without its key has it beside it (`Files`).

Only model-checked: liveness (`StopLeadsToExit`, `HitIsAnswered`, `CommandEnds`,
`TunnelEnds`, `ExportEnds`), which needs ENABLED and is out of the prover's reach;
and the three statements of the documentation that TLC refutes.

## 5. What the models assume

* SHA-256 is injective: a hash and its body are one value.
* `os.CreateTemp` does not pick a name that a live handle still refers to.
* A process may die between any two system calls; the machine does not lose
  power. (Nothing in the code calls fsync, so after a power loss less holds.)
* Bodies of equal length are not told apart by `Content-Length`; the other cached
  headers change nothing the model can see.
* A URL is a key; two requests with the same key are for the same URL. (In the
  code the key is made from the decoded path, `flags_listener.go:329`, so two URLs
  that differ only in an encoded slash share an entry.)
* A request whose failure its client has seen is not carried out afterwards; a
  registry checks offsets and digests; PutObject is atomic; a retry inside the
  S3 client is part of the one call.
* A token or a request is under way for at most half of the 10 seconds that
  `RoundTrip` takes off `expires_in`, and for at most half of the life of a token
  (`VerifyAssumption`), and clocks agree.
* A client that finds its CA file unreadable or with another authority in it
  refuses the handshake and says so.
* Errors of the operating system come at any time and are permanent for the call.

## 6. Not modelled, and the plan

Modelled: every part of `cli/internal` that keeps state, but for the contents of
files and environment variables. Of the regular expression lists only what they
match matters, and that is a set of URLs.

Theorems worth proving next:

1. Composition: `Export` uses its destination as `BlobStore` allows, with other
   commands as further writers; `Connect` and `Verify` use `TlsKeys` and `LockFile`
   as `Listener` is proved to use `LockFile`.
2. Safety that liveness rests on: who waits for whom in `ProxyServer` and
   `MultiTasker`, as invariants that name the step that is possible in every state
   that is not final, without ENABLED.
3. More action properties of the stores: what is stored stays stored but for the
   two deletions; a handle that has failed is never committed.

Left out for good: parsing of flags, logging, the text of the environment and of
certificates (I/O and formatting), what regular expressions match, the
`download-image` tool (a sequential client of the authentication client, without
state between requests), the Bazel rules and the shell scripts (glue without
concurrent state).
