----------------------------- MODULE ProxyServer -----------------------------
(***************************************************************************)
(* The life of one command: ServeUntilDone of proxyserver/http_proxy.go,   *)
(* with the child process it runs (RunListenerWithSubprocess of            *)
(* htvend/flags_listener.go, WithTempDir and RunSubprocess of app/) and    *)
(* the signals that end it (RunUntilSignals of app/).                      *)
(*                                                                         *)
(* The calling goroutine goes forward to the child and then backward       *)
(* through its deferred functions, which Go runs last in, first out.  Each *)
(* of the two HTTP servers, "main" (the proxy) and "tls" (what it sends    *)
(* CONNECT tunnels to), has a goroutine in Serve and one that waits for    *)
(* the context to call Shutdown.  Requests are the subject of Listener.    *)
(***************************************************************************)
VARIABLES
  pc,       \* where the calling goroutine is
  daemon,   \* --daemon: the child waits for the context instead of running
  ctx,      \* has the context been cancelled?
  server,   \* server[s]: "none", "serving", "closed" or "failed" (Serve's error)
  shut,     \* shut[s]: has Shutdown been called?
  list,     \* list[s]: is the listener open?
  child,    \* "none", "running", "ok" or "error"
  tempDir,  \* does the temporary directory exist?
  retErr    \* is an error going to be returned?

vars == <<pc, daemon, ctx, server, shut, list, child, tempDir, retErr>>

Servers == {"main", "tls"}

\* Every variable has its type.
TypeOK ==
  /\ pc \in {"keys", "listenMain", "listenTls", "mkTemp", "child", "rmTemp",
             "cancel", "waitTls", "closeTls", "waitMain", "closeMain",
             "lastCancel", "returned"}
  /\ daemon \in BOOLEAN /\ ctx \in BOOLEAN
  /\ server \in [Servers -> {"none", "serving", "closed", "failed"}]
  /\ shut \in [Servers -> BOOLEAN] /\ list \in [Servers -> BOOLEAN]
  /\ child \in {"none", "running", "ok", "error"}
  /\ tempDir \in BOOLEAN /\ retErr \in BOOLEAN

Init ==
  /\ pc = "keys"
  /\ daemon \in BOOLEAN
  /\ ctx = FALSE
  /\ server = [s \in Servers |-> "none"]
  /\ shut = [s \in Servers |-> FALSE]
  /\ list = [s \in Servers |-> FALSE]
  /\ child = "none"
  /\ tempDir = FALSE
  /\ retErr = FALSE
-----------------------------------------------------------------------------
(* Forward: every step may fail and go to the deferred functions that have *)
(* been registered by then.                                                *)

Fail(where) == pc' = where /\ retErr' = TRUE

Keys ==
  /\ pc = "keys"
  /\ \/ pc' = "listenMain" /\ UNCHANGED retErr
     \/ Fail("returned")
  /\ UNCHANGED <<daemon, ctx, server, shut, list, child, tempDir>>

\* net.Listen and the goroutines of a server.
Listening(s) ==
  /\ list' = [list EXCEPT ![s] = TRUE]
  /\ server' = [server EXCEPT ![s] = "serving"]

ListenMain ==
  /\ pc = "listenMain"
  /\ \/ pc' = "listenTls" /\ Listening("main") /\ UNCHANGED retErr
     \/ Fail("lastCancel") /\ UNCHANGED <<list, server>>
  /\ UNCHANGED <<daemon, ctx, shut, child, tempDir>>

\* When this one fails, the main server is serving already.
ListenTls ==
  /\ pc = "listenTls"
  /\ pc' = "mkTemp" /\ Listening("tls")
  /\ UNCHANGED <<daemon, ctx, shut, child, tempDir, retErr>>

ListenTlsFails ==
  /\ pc = "listenTls"
  /\ Fail("waitMain")
  /\ UNCHANGED <<daemon, ctx, server, shut, list, child, tempDir>>

\* WithTempDir, and the environment written to the directory.
MkTemp ==
  /\ pc = "mkTemp"
  /\ \/ pc' = "child" /\ tempDir' = TRUE /\ child' = "running" /\ UNCHANGED retErr
     \/ Fail("rmTemp") /\ tempDir' = TRUE /\ UNCHANGED child
     \/ Fail("cancel") /\ UNCHANGED <<tempDir, child>>
  /\ UNCHANGED <<daemon, ctx, server, shut, list>>

\* The child ends by itself, or is killed with the context; a daemon only
\* waits for the context, but refuses to start with a sub-process.
ChildEnds ==
  /\ pc = "child"
  /\ child' \in {"ok", "error"}
  /\ daemon /\ child' = "ok" => ctx
  /\ retErr' = (child' = "error")
  /\ pc' = "rmTemp"
  /\ UNCHANGED <<daemon, ctx, server, shut, list, tempDir>>

ChildKilled == ctx /\ ChildEnds
-----------------------------------------------------------------------------
(* Backward: the deferred functions.                                       *)

RmTemp ==
  /\ pc = "rmTemp"
  /\ pc' = "cancel"
  /\ \/ tempDir' = FALSE /\ UNCHANGED retErr
     \/ retErr' = TRUE /\ UNCHANGED tempDir
  /\ UNCHANGED <<daemon, ctx, server, shut, list, child>>

\* A plausible bug: the context is left alone when the child ends.
CancelForgotten ==
  /\ pc = "cancel"
  /\ pc' = "waitTls"
  /\ UNCHANGED <<daemon, ctx, server, shut, list, child, tempDir, retErr>>

Cancel ==
  /\ pc = "cancel"
  /\ ctx' = TRUE
  /\ pc' = "waitTls"
  /\ UNCHANGED <<daemon, server, shut, list, child, tempDir, retErr>>

\* A plausible bug: a server that failed is not reported.
WaitDropsError(s, from, to) ==
  /\ pc = from
  /\ server[s] \in {"closed", "failed"}
  /\ pc' = to
  /\ UNCHANGED <<daemon, ctx, server, shut, list, child, tempDir, retErr>>

\* A plausible bug: the goroutine of the server is not waited for.
WaitSkipped(s, from, to) ==
  /\ pc = from
  /\ pc' = to
  /\ UNCHANGED <<daemon, ctx, server, shut, list, child, tempDir, retErr>>

\* The receive from tlsServerErr or mainServerErr.
Wait(s, from, to) ==
  /\ pc = from
  /\ server[s] \in {"closed", "failed"}
  /\ retErr' = (retErr \/ server[s] = "failed")
  /\ pc' = to
  /\ UNCHANGED <<daemon, ctx, server, shut, list, child, tempDir>>

CloseListener(s, from, to) ==
  /\ pc = from
  /\ list' = [list EXCEPT ![s] = FALSE]
  /\ pc' = to
  /\ UNCHANGED <<daemon, ctx, server, shut, child, tempDir, retErr>>

WaitTls == Wait("tls", "waitTls", "closeTls")
CloseTls == CloseListener("tls", "closeTls", "waitMain")
WaitMain == Wait("main", "waitMain", "closeMain")
CloseMain == CloseListener("main", "closeMain", "lastCancel")

\* The deferred function that was registered first: it cancels the context
\* unless that has been done.
LastCancel ==
  /\ pc = "lastCancel"
  /\ ctx' = TRUE
  /\ pc' = "returned"
  /\ UNCHANGED <<daemon, server, shut, list, child, tempDir, retErr>>
-----------------------------------------------------------------------------
(* The goroutines of the servers, and the outside world.                   *)

\* Shutdown closes the listener; Serve returns ErrServerClosed.
Shutdown(s) ==
  /\ ctx /\ server[s] # "none" /\ ~shut[s]
  /\ shut' = [shut EXCEPT ![s] = TRUE]
  /\ list' = [list EXCEPT ![s] = FALSE]
  /\ UNCHANGED <<pc, daemon, ctx, server, child, tempDir, retErr>>

ServeReturns(s) ==
  /\ server[s] = "serving" /\ shut[s]
  /\ server' = [server EXCEPT ![s] = "closed"]
  /\ UNCHANGED <<pc, daemon, ctx, shut, list, child, tempDir, retErr>>

\* Serve gives up on its listener; nobody looks before the child has ended.
ServeFails(s) ==
  /\ server[s] = "serving" /\ ~shut[s]
  /\ server' = [server EXCEPT ![s] = "failed"]
  /\ list' = [list EXCEPT ![s] = FALSE]
  /\ UNCHANGED <<pc, daemon, ctx, shut, child, tempDir, retErr>>

\* SIGINT or SIGTERM.
Signal ==
  /\ pc # "returned" /\ ~ctx
  /\ ctx' = TRUE
  /\ UNCHANGED <<pc, daemon, server, shut, list, child, tempDir, retErr>>
-----------------------------------------------------------------------------
\* What the calling goroutine does without waiting for the child.
Main ==
  \/ Keys \/ ListenMain \/ ListenTls \/ ListenTlsFails \/ MkTemp \/ RmTemp
  \/ Cancel \/ WaitTls \/ CloseTls \/ WaitMain \/ CloseMain \/ LastCancel

Next ==
  \/ Main \/ ChildEnds
  \/ \E s \in Servers : Shutdown(s) \/ ServeReturns(s) \/ ServeFails(s)
  \/ Signal

Spec == Init /\ [][Next]_vars

\* Goroutines run, and a killed child dies.  Nothing is assumed of a child
\* that is left alone, of signals, or of listeners that fail.
FairSpec ==
  /\ Spec
  /\ WF_vars(Main) /\ WF_vars(ChildKilled)
  /\ \A s \in Servers : WF_vars(Shutdown(s)) /\ WF_vars(ServeReturns(s))
-----------------------------------------------------------------------------
(* Properties.                                                             *)

\* When ServeUntilDone returns nothing of it is left: no server is in Serve,
\* no listener is open, and the context is cancelled unless nothing started.
NothingLeft ==
  pc = "returned" =>
    /\ \A s \in Servers : server[s] # "serving" /\ ~list[s]
    /\ ctx \/ \A s \in Servers : server[s] = "none"

\* A server that failed while the child was running makes the command fail,
\* though nobody looks at it before the child has ended.
FailureIsReported ==
  pc = "returned" /\ (child = "error" \/ \E s \in Servers : server[s] = "failed")
    => retErr

\* What has to end the command: a signal, the end of the child, or a start that
\* failed, but not when it was the second listener that failed.  Then the wait
\* for the main server is deferred after the cancel that would end it, and so
\* comes first (http_proxy.go:182, "in case we didn't make it").
MustEnd ==
  \/ ctx
  \/ child \in {"ok", "error"}
  \/ retErr /\ (server["main"] = "serving" => server["tls"] # "none")

\* The command returns after a signal, wherever it is, also when its second
\* listener could not be opened; after the end of its child; and by itself when
\* it could not start all it needs (the deferred functions of ServeUntilDone).
CommandEnds == MustEnd ~> pc = "returned"
=============================================================================
