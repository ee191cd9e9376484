------------------------------ MODULE Connect ------------------------------
(***************************************************************************)
(* A CONNECT request: handleConnect and makeCertFor of                     *)
(* proxyserver/http_proxy.go, in one of the proxies of TlsKeys.  The       *)
(* handler dials the proxy's own TLS server, takes the client's connection *)
(* over and copies both ways, in a goroutine from client to server and by  *)
(* itself from server to client; then it waits for the goroutine and       *)
(* closes both connections.  It never closes one direction only.           *)
(***************************************************************************)
CONSTANTS
  Procs, CAs, NoFile, Torn,   \* as in TlsKeys
  Proxy                       \* the proxy the request comes to

VARIABLES
  keyFile, certFile, at, files, generate, read, ca, raced, given,   \* TlsKeys
  addr,      \* tlsAddr: is it set?
  pc,        \* where the handler is
  up,        \* the goroutine that copies to the server
  src, dest, \* are our ends of the two connections open?
  client,    \* the client's end: "none", "open", "notified" (closed after a
             \* TLS close_notify) or "closed" (closed without)
  peer,      \* the TLS server's end: "none", "open" or "closed"
  asked      \* is a request of the client in the server's handler, or on its
             \* way there?

K == INSTANCE TlsKeys

ASSUME ConnectAssumption ==
  /\ Proxy \in Procs
  /\ NoFile \notin CAs /\ Torn \notin CAs /\ NoFile # Torn

keyVars == <<keyFile, certFile, at, files, generate, read, ca, raced, given>>
tunVars == <<pc, up, src, dest, client, peer, asked>>
vars == <<keyVars, addr, tunVars>>

\* Every variable has its type.
TypeOK ==
  /\ K!KeysTypeOK
  /\ addr \in BOOLEAN
  /\ pc \in {"none", "dial", "hijack", "copy", "drain", "closeSrc", "closeDest", "returned"}
  /\ up \in {"none", "copying", "ended"}
  /\ src \in BOOLEAN /\ dest \in BOOLEAN
  /\ client \in {"none", "open", "notified", "closed"}
  /\ peer \in {"none", "open", "closed"}
  /\ asked \in BOOLEAN

NoTunnel ==
  /\ pc = "none" /\ up = "none" /\ src = FALSE /\ dest = FALSE
  /\ client = "none" /\ peer = "none" /\ asked = FALSE

Init == K!KeysInit /\ addr = FALSE /\ NoTunnel

Serving == at[Proxy] = "serving"

\* The second listener is open and its address stored, after the main server
\* has begun to accept.
SetTlsAddr ==
  /\ Serving /\ ~addr
  /\ addr' = TRUE
  /\ UNCHANGED <<keyVars, tunVars>>
-----------------------------------------------------------------------------
(* handleConnect.                                                          *)

Accept ==
  /\ Serving /\ pc = "none"
  /\ pc' = "dial" /\ client' = "open"
  /\ UNCHANGED <<keyVars, addr, up, src, dest, peer, asked>>

\* A read of tlsAddr before it is set is a data race, in which the dial fails.
Dial ==
  /\ pc = "dial" /\ addr
  /\ pc' = "hijack" /\ dest' = TRUE /\ peer' = "open"
  /\ UNCHANGED <<keyVars, addr, up, src, client, asked>>

\* The client gets a 500 and keeps its connection, which is not a tunnel.
DialFails ==
  /\ pc = "dial"
  /\ pc' = "returned"
  /\ UNCHANGED <<keyVars, addr, up, src, dest, client, peer, asked>>

Hijack ==
  /\ pc = "hijack"
  /\ \/ pc' = "copy" /\ src' = TRUE /\ up' = "copying"
     \/ pc' = "closeDest" /\ UNCHANGED <<src, up>>
  /\ UNCHANGED <<keyVars, addr, dest, client, peer, asked>>

\* A plausible bug: the goroutine takes the end of the client's data for a
\* pause and reads on until the server has closed.
UpReadsOn ==
  /\ up = "copying" /\ client \in {"notified", "closed"} /\ peer = "closed"
  /\ up' = "ended"
  /\ UNCHANGED <<keyVars, addr, pc, src, dest, client, peer, asked>>

\* The goroutine sees the end of what the client sends.
UpEnds ==
  /\ up = "copying" /\ client \in {"notified", "closed"}
  /\ up' = "ended"
  /\ UNCHANGED <<keyVars, addr, pc, src, dest, client, peer, asked>>

\* It cannot write to a server that has closed.
UpBreaks ==
  /\ up = "copying" /\ peer = "closed"
  /\ up' = "ended"
  /\ UNCHANGED <<keyVars, addr, pc, src, dest, client, peer, asked>>

\* A plausible bug: the goroutine is not waited for.
DownSkipsWait ==
  /\ pc = "copy" /\ peer = "closed"
  /\ pc' = "closeSrc"
  /\ UNCHANGED <<keyVars, addr, up, src, dest, client, peer, asked>>

\* The handler sees the end of what the server sends.
DownEnds ==
  /\ pc = "copy" /\ peer = "closed"
  /\ pc' = "drain"
  /\ UNCHANGED <<keyVars, addr, up, src, dest, client, peer, asked>>

\* It cannot write to a client that has closed.
DownBreaks ==
  /\ pc = "copy" /\ client \in {"notified", "closed"}
  /\ pc' = "drain"
  /\ UNCHANGED <<keyVars, addr, up, src, dest, client, peer, asked>>

\* The deferred receive from sendToServerErr.
Drain ==
  /\ pc = "drain" /\ up = "ended"
  /\ pc' = "closeSrc"
  /\ UNCHANGED <<keyVars, addr, up, src, dest, client, peer, asked>>

CloseSrc ==
  /\ pc = "closeSrc"
  /\ pc' = "closeDest" /\ src' = FALSE
  /\ client' = IF client = "open" THEN "closed" ELSE client
  /\ UNCHANGED <<keyVars, addr, up, dest, peer, asked>>

CloseDest ==
  /\ pc = "closeDest"
  /\ pc' = "returned" /\ dest' = FALSE /\ peer' = "closed"
  /\ UNCHANGED <<keyVars, addr, up, src, client, asked>>
-----------------------------------------------------------------------------
(* The two ends of the tunnel, and the processes.                          *)

\* makeCertFor signs a certificate with ca[Proxy]; a client that does not
\* trust it says so and closes.
Handshake ==
  /\ pc = "copy" /\ client = "open" /\ peer = "open"
  /\ K!Trusted(Proxy) # ca[Proxy]
  /\ client' = "notified"
  /\ UNCHANGED <<keyVars, addr, pc, up, src, dest, peer, asked>>

ClientCloses ==
  /\ client = "open"
  /\ client' \in {"notified", "closed"}
  /\ UNCHANGED <<keyVars, addr, pc, up, src, dest, peer, asked>>

\* The client sends a request through the tunnel.
Request ==
  /\ pc = "copy" /\ client = "open" /\ peer = "open" /\ ~asked
  /\ K!Trusted(Proxy) = ca[Proxy]
  /\ asked' = TRUE
  /\ UNCHANGED <<keyVars, addr, pc, up, src, dest, client, peer>>

\* The handler of the request returns.  It may never: its request upstream has
\* neither a timeout nor the context of the client's request.
Answered ==
  /\ asked
  /\ asked' = FALSE
  /\ UNCHANGED <<keyVars, addr, pc, up, src, dest, client, peer>>

\* The server is told that the client is done, and closes the connection when
\* no handler is running on it.
PeerNotified ==
  /\ peer = "open" /\ client = "notified" /\ up = "ended" /\ ~asked
  /\ peer' = "closed"
  /\ UNCHANGED <<keyVars, addr, pc, up, src, dest, client, asked>>

\* The server closes by itself, as it does with idle connections in Shutdown.
PeerCloses ==
  /\ peer = "open" /\ ~asked
  /\ peer' = "closed"
  /\ UNCHANGED <<keyVars, addr, pc, up, src, dest, client, asked>>

\* The handler has returned, and another request may come.
Reuse ==
  /\ pc = "returned"
  /\ pc' = "none" /\ up' = "none" /\ src' = FALSE /\ dest' = FALSE
  /\ client' = "none" /\ peer' = "none" /\ asked' = FALSE
  /\ UNCHANGED <<keyVars, addr>>

\* A process goes, and with the proxy its tunnel.
Gone(p) ==
  /\ K!Gone(p)
  /\ IF p = Proxy
       THEN /\ addr' = FALSE
            /\ pc' = "none" /\ up' = "none" /\ src' = FALSE /\ dest' = FALSE
            /\ client' = "none" /\ peer' = "none" /\ asked' = FALSE
       ELSE UNCHANGED <<addr, tunVars>>

Next ==
  \/ \E p \in Procs : Gone(p) \/ (K!KeysStep(p) /\ UNCHANGED <<addr, tunVars>>)
  \/ SetTlsAddr
  \/ Accept \/ Dial \/ DialFails \/ Hijack
  \/ UpEnds \/ UpBreaks \/ DownEnds \/ DownBreaks
  \/ Drain \/ CloseSrc \/ CloseDest \/ Reuse
  \/ Handshake \/ Request \/ Answered
  \/ ClientCloses \/ PeerNotified \/ PeerCloses

Spec == Init /\ [][Next]_vars

\* Goroutines run, and a TLS server closes a connection that its client has
\* said good-bye on and that no handler is running on.  Nothing is assumed of
\* clients, of a server that is told nothing, or of a handler and the upstream
\* it waits for.
FairSpec ==
  /\ Spec
  /\ WF_vars(UpEnds) /\ WF_vars(DownEnds) /\ WF_vars(PeerNotified)
  /\ WF_vars(Hijack) /\ WF_vars(Drain) /\ WF_vars(CloseSrc) /\ WF_vars(CloseDest)
-----------------------------------------------------------------------------
(* Properties.                                                             *)

\* When handleConnect returns nothing of the tunnel is left: both connections
\* are closed and the goroutine has ended (the three deferred functions).
NothingLeft == pc = "returned" => ~src /\ ~dest /\ up # "copying"

\* The client has said good-bye and no request of its is unanswered, or both
\* ends have closed.
Over ==
  \/ client = "notified" /\ pc = "copy" /\ ~asked
  \/ client \in {"notified", "closed"} /\ peer = "closed"

\* A tunnel ends once its client has said good-bye and got its last answer,
\* though the end of the client's data is not passed on as the end of a
\* connection; and when both ends have closed, in whatever order and way
\* (handleConnect).  A request that is never answered keeps it open.
TunnelEnds == Over ~> pc \in {"returned", "none"}

\* The child trusts the authority its proxy signs with: no start of a proxy
\* writes over a certificate in use, unless two generate a pair at the same
\* time (ChildTrustsProxy of TlsKeys).
ChildTrustsProxy == K!ChildTrustsProxy

\* Complete key and certificate files belong together, whatever died in the
\* middle of saving them, except for a certificate that was there before
\* without its key (PairMatches of TlsKeys).
PairMatches == K!PairMatches
=============================================================================
