--------------------------- MODULE ProxyServerProofs ---------------------------
(***************************************************************************)
(* What ServeUntilDone leaves behind and what it reports, proved.  The     *)
(* properties speak of the moment it returns; the invariant says for every *)
(* place before that which servers have been started by then (Started) and *)
(* which have been waited for and closed on the way back (WaitedFor,       *)
(* Closed), whatever the goroutines of the servers, the signals and the    *)
(* child did in the meantime.                                              *)
(***************************************************************************)
EXTENDS ProxyServer, TLAPS

\* The places from which the calling goroutine no longer waits for server s,
\* and those after its listener has been closed.
AfterWait(s) ==
  IF s = "tls" THEN {"closeTls", "waitMain", "closeMain", "lastCancel", "returned"}
               ELSE {"closeMain", "lastCancel", "returned"}
AfterClose(s) ==
  IF s = "tls" THEN {"waitMain", "closeMain", "lastCancel", "returned"}
               ELSE {"lastCancel", "returned"}

\* The places at which a server has not been started yet, and those at which it
\* must have been: between them the start may have failed.
BeforeStart(s) ==
  {"keys", "listenMain"} \cup (IF s = "tls" THEN {"listenTls"} ELSE {})
Needed(s) ==
  {"mkTemp", "child", "rmTemp", "cancel", "waitTls", "closeTls"}
    \cup (IF s = "tls" THEN {} ELSE {"listenTls", "waitMain", "closeMain"})

\* A server is started at its place and not before, and its listener with it.
Started ==
  \A s \in Servers :
    /\ pc \in BeforeStart(s) => server[s] = "none"
    /\ pc \in Needed(s) => server[s] # "none"
    /\ server[s] = "none" => ~list[s]

\* Behind its wait a server is not in Serve, and if it failed that is noted.
WaitedFor ==
  \A s \in Servers :
    pc \in AfterWait(s) =>
      /\ server[s] # "serving"
      /\ server[s] = "failed" => retErr

\* Behind its close a listener is closed, and stays so.
Closed == \A s \in Servers : pc \in AfterClose(s) => ~list[s]

\* The context is cancelled in the end, unless no server was ever started.
Cancelled ==
  pc = "returned" => ctx \/ \A s \in Servers : server[s] = "none"

\* A child that failed is noted.
ChildNoted == child = "error" => retErr

Inv == TypeOK /\ Started /\ WaitedFor /\ Closed /\ Cancelled /\ ChildNoted
-----------------------------------------------------------------------------
USE DEF Servers

\* At the start no server is there.
LEMMA InitInv == Init => Inv
BY DEF Init, Inv, TypeOK, Started, WaitedFor, Closed, Cancelled, ChildNoted,
       AfterWait, AfterClose, BeforeStart, Needed

\* A step of the calling goroutine forward, to the child.
LEMMA ForwardInv ==
  Inv /\ (Keys \/ ListenMain \/ ListenTls \/ ListenTlsFails \/ MkTemp \/ ChildEnds) => Inv'
<1> SUFFICES ASSUME Inv, Keys \/ ListenMain \/ ListenTls \/ ListenTlsFails \/ MkTemp \/ ChildEnds
             PROVE  Inv'
  OBVIOUS
<1> USE DEF Inv, TypeOK, Started, WaitedFor, Closed, Cancelled, ChildNoted,
            AfterWait, AfterClose, BeforeStart, Needed, Fail, Listening
<1>1. CASE Keys
  BY <1>1 DEF Keys
<1>2. CASE ListenMain
  BY <1>2 DEF ListenMain
<1>3. CASE ListenTls
  BY <1>3 DEF ListenTls
<1>4. CASE ListenTlsFails
  BY <1>4 DEF ListenTlsFails
<1>5. CASE MkTemp
  BY <1>5 DEF MkTemp
<1>6. CASE ChildEnds
  BY <1>6 DEF ChildEnds
<1> QED BY <1>1, <1>2, <1>3, <1>4, <1>5, <1>6

\* A step of the calling goroutine backward, through its deferred functions.
LEMMA BackwardInv ==
  Inv /\ (RmTemp \/ Cancel \/ WaitTls \/ CloseTls \/ WaitMain \/ CloseMain \/ LastCancel) => Inv'
<1> SUFFICES ASSUME Inv,
                    RmTemp \/ Cancel \/ WaitTls \/ CloseTls \/ WaitMain \/ CloseMain \/ LastCancel
             PROVE  Inv'
  OBVIOUS
<1> USE DEF Inv, TypeOK, Started, WaitedFor, Closed, Cancelled, ChildNoted,
            AfterWait, AfterClose, BeforeStart, Needed, Wait, CloseListener
<1>1. CASE RmTemp
  BY <1>1 DEF RmTemp
<1>2. CASE Cancel
  BY <1>2 DEF Cancel
<1>3. CASE WaitTls
  BY <1>3 DEF WaitTls
<1>4. CASE CloseTls
  BY <1>4 DEF CloseTls
<1>5. CASE WaitMain
  BY <1>5 DEF WaitMain
<1>6. CASE CloseMain
  BY <1>6 DEF CloseMain
<1>7. CASE LastCancel
  BY <1>7 DEF LastCancel
<1> QED BY <1>1, <1>2, <1>3, <1>4, <1>5, <1>6, <1>7

\* A step of a server's goroutine, or a signal, at any place.
LEMMA OutsideInv ==
  Inv /\ ((\E s \in Servers : Shutdown(s) \/ ServeReturns(s) \/ ServeFails(s)) \/ Signal) => Inv'
<1> SUFFICES ASSUME Inv,
                    (\E s \in Servers : Shutdown(s) \/ ServeReturns(s) \/ ServeFails(s)) \/ Signal
             PROVE  Inv'
  OBVIOUS
<1> USE DEF Inv, TypeOK, Started, WaitedFor, Closed, Cancelled, ChildNoted,
            AfterWait, AfterClose, BeforeStart, Needed
<1>1. ASSUME NEW s \in Servers, Shutdown(s) PROVE Inv'
  BY <1>1 DEF Shutdown
<1>2. ASSUME NEW s \in Servers, ServeReturns(s) PROVE Inv'
  BY <1>2 DEF ServeReturns
<1>3. ASSUME NEW s \in Servers, ServeFails(s) PROVE Inv'
  BY <1>3 DEF ServeFails
<1>4. CASE Signal
  BY <1>4 DEF Signal
<1> QED BY <1>1, <1>2, <1>3, <1>4

\* The invariant holds whatever the command, its servers, its child and the
\* user do, and in whichever order.
THEOREM Invariance == Spec => []Inv
<1>1. Init => Inv
  BY InitInv
<1>2. Inv /\ [Next]_vars => Inv'
  <2> SUFFICES ASSUME Inv, [Next]_vars PROVE Inv'
    OBVIOUS
  <2>1. CASE UNCHANGED vars
    BY <2>1 DEF Inv, TypeOK, Started, WaitedFor, Closed, Cancelled, ChildNoted, vars
  <2>2. CASE Next
    BY <2>2, ForwardInv, BackwardInv, OutsideInv DEF Next, Main
  <2> QED BY <2>1, <2>2
<1> QED BY <1>1, <1>2, PTL DEF Spec

\* Every variable of the command's life has its type.
THEOREM TypeCorrect == Spec => []TypeOK
<1>1. Inv => TypeOK
  BY DEF Inv
<1> QED BY <1>1, Invariance, PTL

\* When ServeUntilDone returns, from wherever it turned back, no server is in
\* Serve, no listener is open, and the context is cancelled unless nothing had
\* started: the deferred waits and closes of http_proxy.go leave nothing.
THEOREM ReturnLeavesNothing == Spec => []NothingLeft
<1>1. Inv => NothingLeft
  BY DEF Inv, WaitedFor, Closed, Cancelled, NothingLeft, AfterWait, AfterClose
<1> QED BY <1>1, Invariance, PTL

\* A child or a server that failed makes the command fail, though a server's
\* error lies in its channel until the child has ended.
THEOREM NoFailureIsLost == Spec => []FailureIsReported
<1>1. Inv => FailureIsReported
  BY DEF Inv, WaitedFor, ChildNoted, FailureIsReported, AfterWait
<1> QED BY <1>1, Invariance, PTL
=============================================================================
