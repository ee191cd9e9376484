---------------------------- MODULE ExportProofs ----------------------------
(***************************************************************************)
(* Proofs about htvend export and the MultiTasker it runs its copies in,   *)
(* for any manifest, any source and any number of tasks: no result is      *)
(* lost, success means that everything is there, and an error has a cause. *)
(***************************************************************************)
EXTENDS Export, TLAPS

(* The MultiTasker.                                                        *)

\* The channel is closed in Wait only, when nobody is left to send, and Wait
\* does not return before.
ClosedLast ==
  /\ caller = "queueing" => open
  /\ caller = "returned" => ~open
  /\ ~open => \A t \in Hashes : task[t] \in {"none", "finished"}

\* A task has a result from the moment its function has returned.
ResultOf(t) == result[t] = "none" <=> task[t] \in {"none", "running"}

\* Wait has noted an error exactly if it has received one.
Noted == rvErr <=> \E t \in Hashes : task[t] \in {"sent", "finished"} /\ result[t] = "error"

MTInv ==
  /\ MT!TypeOK
  /\ ClosedLast
  /\ \A t \in Hashes : ResultOf(t)
  /\ Noted

(* ensureBlobExported.                                                     *)

\* A result tells the truth about its blob.
ResultIsTrue(h) ==
  /\ result[h] = "ok" => h \in stored
  /\ result[h] = "error" => ioFailed \/ src[h] # h

\* The handle of a task is as its step needs it, and what Commit has put into
\* the destination is what the source had.
HandleOf(h) ==
  /\ task[h] # "running" => step[h] = "exists"
  /\ step[h] \in {"exists", "get", "put"} => blob[h].st = "idle"
  /\ step[h] \in {"put", "copy", "check"} => src[h] # None
  /\ step[h] = "copy" => blob[h].st = "open"
  /\ step[h] = "check" =>
       blob[h].st = "committed" /\ blob[h].data = src[h] /\ src[h] \in stored

\* The tasks are the blobs of the manifest, all of them once Wait is called.
TasksAreNeeded ==
  /\ \A h \in Hashes : task[h] # "none" => h \in needed
  /\ caller # "queueing" => \A h \in needed : task[h] # "none"

Inv ==
  /\ TypeOK
  /\ MTInv
  /\ TasksAreNeeded
  /\ \A h \in Hashes : ResultIsTrue(h) /\ HandleOf(h)
-----------------------------------------------------------------------------
\* Each step of the MultiTasker keeps its invariant.
LEMMA MTStepInv ==
  ASSUME MTInv,
         \/ \E t \in Hashes : MT!Queue(t)
         \/ \E t \in Hashes, r \in {"ok", "error"} : MT!FunctionReturns(t, r)
         \/ MT!Wait \/ MT!Step
  PROVE  MTInv'
<1> USE DEF MTInv, MT!TypeOK
<1>1. ASSUME NEW t \in Hashes, MT!Queue(t) PROVE MTInv'
  BY <1>1 DEF MT!Queue, ClosedLast, ResultOf, Noted
<1>2. ASSUME NEW t \in Hashes, NEW r \in {"ok", "error"}, MT!FunctionReturns(t, r)
      PROVE  MTInv'
  BY <1>2 DEF MT!FunctionReturns, ClosedLast, ResultOf, Noted
<1>3. CASE MT!Wait
  BY <1>3 DEF MT!Wait, ClosedLast, ResultOf, Noted
<1>4. ASSUME NEW t \in Hashes, MT!Receive(t) PROVE MTInv'
  <2>1. /\ MT!TypeOK' /\ ClosedLast' /\ \A u \in Hashes : ResultOf(u)'
    BY <1>4 DEF MT!Receive, ClosedLast, ResultOf
  <2>2. Noted'
    <3>1. /\ task'[t] = "sent" /\ result' = result
          /\ \A u \in Hashes : u # t => task'[u] = task[u]
          /\ task[t] = "sending"
      BY <1>4 DEF MT!Receive
    <3>2. rvErr' <=> rvErr \/ result[t] = "error"
      BY <1>4 DEF MT!Receive
    <3> QED
      BY <3>1, <3>2 DEF Noted
  <2> QED
    BY <2>1, <2>2
<1>5. ASSUME NEW t \in Hashes, MT!Done(t) PROVE MTInv'
  BY <1>5 DEF MT!Done, ClosedLast, ResultOf, Noted
<1>6. CASE MT!CloseErrors \/ MT!WaitReturns
  <2>1. ClosedLast'
    BY <1>6 DEF MT!CloseErrors, MT!WaitReturns, ClosedLast
  <2>2. Noted' /\ \A u \in Hashes : ResultOf(u)'
    BY <1>6 DEF MT!CloseErrors, MT!WaitReturns, ResultOf, Noted
  <2>3. MT!TypeOK'
    BY <1>6 DEF MT!CloseErrors, MT!WaitReturns
  <2> QED
    BY <2>1, <2>2, <2>3
<1> QED
  BY <1>1, <1>2, <1>3, <1>4, <1>5, <1>6 DEF MT!Step

\* Before anything is queued the invariant holds.
LEMMA InitInv == Init => Inv
<1> SUFFICES ASSUME Init PROVE Inv
  OBVIOUS
<1>1. MTInv
  BY DEF Init, MT!Init, MTInv, MT!TypeOK, ClosedLast, ResultOf, Noted
<1>2. TypeOK
  <2>1. Dst!TypeOK
    BY DEF Init, Dst!TypeOK, Dst!Idle
  <2> QED
    BY <1>1, <2>1 DEF Init, TypeOK, MTInv
<1>3. TasksAreNeeded /\ \A h \in Hashes : ResultIsTrue(h) /\ HandleOf(h)
  BY DEF Init, MT!Init, TasksAreNeeded, ResultIsTrue, HandleOf, Dst!Idle
<1> QED
  BY <1>1, <1>2, <1>3 DEF Inv

\* What a step of the task of h has to respect: it touches its own handle and
\* result only, takes no blob away, and leaves them as Inv has it.
LEMMA TaskStep ==
  ASSUME Inv, NEW h \in Hashes, TypeOK', MTInv', task[h] = "running", task'[h] # "none",
         \A c \in Hashes : c # h => /\ task'[c] = task[c] /\ result'[c] = result[c]
                                    /\ step'[c] = step[c] /\ blob'[c] = blob[c],
         stored \subseteq stored', ioFailed => ioFailed', UNCHANGED <<caller, src, needed>>,
         ResultIsTrue(h)', HandleOf(h)'
  PROVE  Inv'
<1>1. ASSUME NEW c \in Hashes PROVE ResultIsTrue(c)' /\ HandleOf(c)'
  <2>1. CASE c = h
    BY <2>1
  <2>2. CASE c # h
    <3>1. ResultIsTrue(c)'
      BY <2>2 DEF Inv, ResultIsTrue
    <3>2. HandleOf(c)'
      BY <2>2 DEF Inv, HandleOf
    <3> QED
      BY <3>1, <3>2
  <2> QED
    BY <2>1, <2>2
<1>2. TasksAreNeeded'
  BY DEF Inv, TasksAreNeeded, TypeOK
<1> QED
  BY <1>1, <1>2 DEF Inv

\* Every step of a task, the collector or another command keeps it.
LEMMA StepInv == Inv /\ [Next]_vars => Inv'
<1> SUFFICES ASSUME Inv, [Next]_vars PROVE Inv'
  OBVIOUS
<1> USE ExportAssumption
<1>t. /\ MT!TypeOK /\ Dst!TypeOK /\ MTInv /\ TasksAreNeeded /\ TypeOK
      /\ src \in [Hashes -> Hashes \cup {None}] /\ needed \subseteq Hashes
      /\ step \in [Hashes -> {"exists", "get", "put", "copy", "check"}]
      /\ ioFailed \in BOOLEAN
      /\ stored \subseteq Seq(Bytes)
      /\ blob \in [Hashes -> [st : {"idle", "open", "committed"}, data : Seq(Bytes)]]
      /\ task \in [Hashes -> {"none", "running", "sending", "sent", "finished"}]
      /\ result \in [Hashes -> {"none", "ok", "error"}]
      /\ \A h \in Hashes : ResultIsTrue(h) /\ HandleOf(h) /\ ResultOf(h)
  BY DEF Inv, TypeOK, MTInv, MT!TypeOK, Dst!TypeOK
<1>u. UNCHANGED mtVars => MTInv'
  BY <1>t DEF mtVars, MTInv, MT!TypeOK, ClosedLast, ResultOf, Noted
\* The task of h goes on to another step.
<1>g. ASSUME NEW h \in Hashes, NEW from, NEW to \in {"exists", "get", "put", "copy", "check"},
             Goes(h, from, to), UNCHANGED <<mtVars, src, needed, ioFailed>>,
             Dst!TypeOK', \A c \in Hashes : c # h => blob'[c] = blob[c],
             stored \subseteq stored', HandleOf(h)'
      PROVE  Inv'
  <2>1. MTInv' /\ UNCHANGED <<caller, task, result>>
    BY <1>g, <1>u DEF mtVars
  <2>2. step' = [step EXCEPT ![h] = to] /\ task[h] = "running"
    BY <1>g DEF Goes
  <2>3. TypeOK'
    BY <1>g, <1>t, <2>1, <2>2 DEF TypeOK, MTInv
  <2>4. ResultIsTrue(h)'
    BY <1>g, <1>t, <2>1 DEF ResultIsTrue
  <2>5. \A c \in Hashes : c # h => step'[c] = step[c]
    BY <1>t, <2>2
  <2> QED
    BY <1>g, <2>1, <2>2, <2>3, <2>4, <2>5, TaskStep
\* The function of the task of h returns, and no handle is left.
<1>r. ASSUME NEW h \in Hashes, NEW r \in {"ok", "error"}, Returns(h, r),
             UNCHANGED <<stored, src, needed>>, ioFailed' \in BOOLEAN, ioFailed => ioFailed',
             Dst!TypeOK', \A c \in Hashes : c # h => blob'[c] = blob[c],
             blob'[h].st = "idle",
             r = "ok" => h \in stored, r = "error" => ioFailed' \/ src[h] # h
      PROVE  Inv'
  <2>1. MT!FunctionReturns(h, r) /\ step' = [step EXCEPT ![h] = "exists"]
    BY <1>r DEF Returns
  <2>2. MTInv'
    BY <1>t, <2>1, MTStepInv
  <2>3. /\ task[h] = "running" /\ task'[h] = "sending" /\ result'[h] = r
        /\ step'[h] = "exists" /\ UNCHANGED caller
        /\ \A c \in Hashes : c # h => /\ task'[c] = task[c] /\ result'[c] = result[c]
                                      /\ step'[c] = step[c]
    BY <1>t, <2>1 DEF MT!FunctionReturns
  <2>4. TypeOK'
    BY <1>r, <1>t, <2>1, <2>2 DEF TypeOK, MTInv
  <2>5. ResultIsTrue(h)' /\ HandleOf(h)'
    BY <1>r, <2>3 DEF ResultIsTrue, HandleOf
  <2> QED
    BY <1>r, <2>2, <2>3, <2>4, <2>5, TaskStep
\* A step of the destination that changes the handle of h only.
<1>b. ASSUME NEW h \in Hashes, NEW s \in {"idle", "open", "committed"}, NEW d \in Seq(Bytes),
             blob' = [blob EXCEPT ![h] = [st |-> s, data |-> d]],
             stored' \subseteq Seq(Bytes)
      PROVE  /\ Dst!TypeOK' /\ \A c \in Hashes : c # h => blob'[c] = blob[c]
             /\ blob'[h].st = s /\ blob'[h].data = d
  BY <1>b, <1>t DEF Dst!TypeOK
<1>d. UNCHANGED <<stored, blob>> => Dst!TypeOK' /\ \A c \in Hashes : blob'[c] = blob[c]
  BY <1>t DEF Dst!TypeOK
<1>1. ASSUME NEW h \in Hashes, Exists(h) PROVE Inv'
  <2>1. step[h] = "exists" /\ blob[h].st = "idle"
    BY <1>1, <1>t DEF Exists, HandleOf
  <2>2. CASE h \in stored
    BY <1>1, <1>d, <1>r, <1>t, <2>1, <2>2 DEF Exists
  <2>3. CASE h \notin stored
    <3>1. Goes(h, "exists", "get") /\ UNCHANGED mtVars /\ UNCHANGED <<stored, blob, src, needed, ioFailed>>
      BY <1>1, <2>3 DEF Exists
    <3>2. HandleOf(h)'
      BY <1>t, <2>1, <3>1 DEF HandleOf, Goes, mtVars
    <3> QED
      BY <1>d, <1>g, <3>1, <3>2
  <2> QED
    BY <2>2, <2>3
<1>2. ASSUME NEW h \in Hashes, Get(h) PROVE Inv'
  <2>1. step[h] = "get" /\ blob[h].st = "idle"
    BY <1>2, <1>t DEF Get, HandleOf
  <2>2. CASE src[h] = None
    <3>1. src[h] # h
      BY <2>2
    <3> QED
      BY <1>2, <1>d, <1>r, <1>t, <2>1, <2>2, <3>1 DEF Get
  <2>3. CASE src[h] # None
    <3>1. Goes(h, "get", "put") /\ UNCHANGED mtVars /\ UNCHANGED <<stored, blob, src, needed, ioFailed>>
      BY <1>2, <2>3 DEF Get
    <3>2. HandleOf(h)'
      BY <1>t, <2>1, <2>3, <3>1 DEF HandleOf, Goes, mtVars
    <3> QED
      BY <1>d, <1>g, <3>1, <3>2
  <2> QED
    BY <2>2, <2>3
<1>3. ASSUME NEW h \in Hashes, Put(h) PROVE Inv'
  <2>1. /\ Goes(h, "put", "copy") /\ UNCHANGED <<mtVars, src, needed, ioFailed>>
        /\ blob' = [blob EXCEPT ![h] = [st |-> "open", data |-> <<>>]] /\ UNCHANGED stored
        /\ <<>> \in Seq(Bytes)
    BY <1>3 DEF Put, Dst!Put
  <2>2. Dst!TypeOK' /\ (\A c \in Hashes : c # h => blob'[c] = blob[c]) /\ blob'[h].st = "open"
    BY <1>b, <1>t, <2>1
  <2>3. HandleOf(h)'
    BY <1>t, <2>1, <2>2 DEF HandleOf, Goes, mtVars
  <2> QED
    BY <1>g, <2>1, <2>2, <2>3
<1>4. ASSUME NEW h \in Hashes, Copy(h) PROVE Inv'
  <2> DEFINE d == blob[h].data \o <<src[h][Len(blob[h].data) + 1]>>
  <2>1. /\ Goes(h, "copy", "copy") /\ UNCHANGED <<mtVars, src, needed, ioFailed>>
        /\ blob' = [blob EXCEPT ![h] = [st |-> "open", data |-> d]] /\ UNCHANGED stored
        /\ Len(blob[h].data) < Len(src[h])
    BY <1>4 DEF Copy, Dst!Write
  <2>2. src[h] \in Seq(Bytes) /\ blob[h].data \in Seq(Bytes)
    BY <1>t, <2>1 DEF HandleOf, Goes
  <2>3. src[h][Len(blob[h].data) + 1] \in Bytes
    BY <2>1, <2>2
  <2>4. d \in Seq(Bytes)
    BY <2>2, <2>3
  <2> HIDE DEF d
  <2>5. Dst!TypeOK' /\ (\A c \in Hashes : c # h => blob'[c] = blob[c]) /\ blob'[h].st = "open"
    BY <1>b, <1>t, <2>1, <2>4
  <2>6. HandleOf(h)'
    BY <1>t, <2>1, <2>5 DEF HandleOf, Goes, mtVars
  <2> QED
    BY <1>g, <2>1, <2>5, <2>6
<1>5. ASSUME NEW h \in Hashes, Commit(h) PROVE Inv'
  <2>1. /\ Goes(h, "copy", "check") /\ UNCHANGED <<mtVars, src, needed, ioFailed>>
        /\ blob' = [blob EXCEPT ![h] = [st |-> "committed", data |-> blob[h].data]]
        /\ stored' = stored \cup {blob[h].data} /\ blob[h].data = src[h]
    BY <1>5 DEF Commit, Dst!Commit
  <2>2. blob[h].data \in Seq(Bytes)
    BY <1>t
  <2>3. /\ Dst!TypeOK' /\ \A c \in Hashes : c # h => blob'[c] = blob[c]
        /\ blob'[h].st = "committed" /\ blob'[h].data = src[h]
    BY <1>b, <1>t, <2>1, <2>2
  <2>4. HandleOf(h)'
    BY <1>t, <2>1, <2>3 DEF HandleOf, Goes, mtVars
  <2> QED
    BY <1>g, <2>1, <2>3, <2>4
\* A deferred Cleanup.
<1>c. ASSUME NEW h \in Hashes, Dst!Release(h)
      PROVE  /\ Dst!TypeOK' /\ UNCHANGED stored /\ blob'[h].st = "idle"
             /\ \A c \in Hashes : c # h => blob'[c] = blob[c]
  <2>1. blob' = [blob EXCEPT ![h] = [st |-> "idle", data |-> <<>>]] /\ UNCHANGED stored
    BY <1>c DEF Dst!Release, Dst!Idle
  <2>2. <<>> \in Seq(Bytes) /\ stored' \subseteq Seq(Bytes)
    BY <1>t, <2>1
  <2> QED
    BY <1>b, <2>1, <2>2
<1>6. ASSUME NEW h \in Hashes, Check(h) PROVE Inv'
  <2> DEFINE r == IF blob[h].data = h THEN "ok" ELSE "error"
  <2>1. Returns(h, r) /\ UNCHANGED <<src, needed, ioFailed>> /\ Dst!Release(h)
    BY <1>6 DEF Check
  <2>2. blob[h].data = src[h] /\ src[h] \in stored
    BY <1>6, <1>t DEF Check, HandleOf
  <2>3. r \in {"ok", "error"} /\ (r = "ok" => h \in stored) /\ (r = "error" => src[h] # h)
    BY <2>2
  <2> HIDE DEF r
  <2> QED
    BY <1>c, <1>r, <1>t, <2>1, <2>3
<1>7. ASSUME NEW h \in Hashes, Fails(h) PROVE Inv'
  <2>1. Returns(h, "error") /\ UNCHANGED <<src, needed>> /\ ioFailed' = TRUE
    BY <1>7 DEF Fails
  <2>2. /\ Dst!TypeOK' /\ UNCHANGED stored /\ blob'[h].st = "idle"
        /\ \A c \in Hashes : c # h => blob'[c] = blob[c]
    BY <1>7, <1>c, <1>d DEF Fails
  <2> QED
    BY <1>r, <2>1, <2>2
\* The steps of Execute.
<1>e. ASSUME MTInv', UNCHANGED <<stored, blob, src, needed, step, ioFailed, result>>,
             TasksAreNeeded', \A h \in Hashes : task[h] = "running" => task'[h] = "running"
      PROVE  Inv'
  <2>1. TypeOK'
    BY <1>e, <1>t, <1>d DEF TypeOK, MTInv
  <2>2. ASSUME NEW h \in Hashes PROVE ResultIsTrue(h)' /\ HandleOf(h)'
    BY <1>e, <1>t DEF ResultIsTrue, HandleOf
  <2> QED
    BY <1>e, <2>1, <2>2 DEF Inv
<1>8. ASSUME NEW h \in Hashes, Queue(h) PROVE Inv'
  <2>1. MTInv'
    BY <1>8, <1>t, MTStepInv DEF Queue
  <2>2. /\ UNCHANGED <<stored, blob, src, needed, step, ioFailed, result, caller>>
        /\ task' = [task EXCEPT ![h] = "running"] /\ h \in needed /\ task[h] = "none"
    BY <1>8 DEF Queue, MT!Queue
  <2>3. TasksAreNeeded'
    BY <1>t, <2>2 DEF TasksAreNeeded
  <2>4. TypeOK'
    BY <1>d, <1>t, <2>1, <2>2 DEF TypeOK, MTInv
  <2>5. ASSUME NEW c \in Hashes PROVE ResultIsTrue(c)' /\ HandleOf(c)'
    BY <1>t, <2>2 DEF ResultIsTrue, HandleOf
  <2> QED
    BY <2>1, <2>3, <2>4, <2>5 DEF Inv
<1>9. CASE Wait
  <2>1. MTInv'
    BY <1>9, <1>t, MTStepInv DEF Wait
  <2>2. /\ UNCHANGED <<stored, blob, src, needed, step, ioFailed, result, task>>
        /\ \A h \in needed : task[h] # "none"
    BY <1>9 DEF Wait, MT!Wait
  <2>3. TasksAreNeeded'
    BY <1>t, <2>2 DEF TasksAreNeeded
  <2> QED
    BY <1>e, <2>1, <2>2, <2>3
<1>10. CASE Collect
  <2>1. MTInv'
    BY <1>10, <1>t, MTStepInv DEF Collect
  <2>2. UNCHANGED <<stored, blob, src, needed, step, ioFailed, result>>
    BY <1>10 DEF Collect, MT!Step, MT!Receive, MT!Done, MT!CloseErrors, MT!WaitReturns
  <2>3. /\ \A h \in Hashes : task[h] = "none" <=> task'[h] = "none"
        /\ \A h \in Hashes : task[h] = "running" => task'[h] = "running"
        /\ caller = "queueing" <=> caller' = "queueing"
    BY <1>10, <1>t
    DEF Collect, MT!Step, MT!Receive, MT!Done, MT!CloseErrors, MT!WaitReturns
  <2>4. TasksAreNeeded'
    BY <1>t, <2>2, <2>3 DEF TasksAreNeeded
  <2> QED
    BY <1>e, <2>1, <2>2, <2>3, <2>4
<1>11. CASE Again
  <2>1. MTInv'
    BY <1>11 DEF Again, MTInv, MT!TypeOK, ClosedLast, ResultOf, Noted
  <2>2. Dst!TypeOK'
    BY <1>11, <1>t DEF Again, Dst!TypeOK, Dst!Idle
  <2>3. TypeOK'
    BY <1>11, <1>t, <2>1, <2>2 DEF Again, TypeOK, MTInv
  <2>4. TasksAreNeeded' /\ \A h \in Hashes : ResultIsTrue(h)' /\ HandleOf(h)'
    BY <1>11 DEF Again, TasksAreNeeded, ResultIsTrue, HandleOf, Dst!Idle
  <2> QED
    BY <2>1, <2>3, <2>4 DEF Inv
<1>12. ASSUME NEW h \in Hashes, OtherStores(h) PROVE Inv'
  <2>1. /\ MTInv' /\ stored' = stored \cup {h}
        /\ UNCHANGED <<caller, task, result, blob, src, needed, step, ioFailed>>
    BY <1>12, <1>u DEF OtherStores, mtVars
  <2>2. TypeOK'
    BY <1>t, <2>1 DEF TypeOK, MTInv, Dst!TypeOK
  <2>3. TasksAreNeeded' /\ \A c \in Hashes : ResultIsTrue(c)' /\ HandleOf(c)'
    BY <1>t, <2>1 DEF TasksAreNeeded, ResultIsTrue, HandleOf
  <2> QED
    BY <2>1, <2>2, <2>3 DEF Inv
<1>13. CASE UNCHANGED vars
  <2>1. MTInv' /\ UNCHANGED <<stored, blob, src, needed, step, ioFailed, result, task, caller>>
    BY <1>13, <1>u DEF vars, mtVars
  <2>2. TasksAreNeeded'
    BY <1>t, <2>1 DEF TasksAreNeeded
  <2> QED
    BY <1>e, <2>1, <2>2
<1> QED
  BY <1>1, <1>2, <1>3, <1>4, <1>5, <1>6, <1>7, <1>8, <1>9, <1>10, <1>11, <1>12, <1>13
  DEF Next, Task
-----------------------------------------------------------------------------
\* The invariant is inductive.
THEOREM Invariance == Spec => []Inv
  BY InitInv, StepInv, PTL DEF Spec

\* Every variable keeps its type.
THEOREM TypeCorrect == Spec => []TypeOK
  BY Invariance, PTL DEF Inv

\* For any number of tasks, the channel is closed when nobody is left to send
\* on it, and Wait returns an error exactly if a task returned one.
THEOREM NoResultIsLost == Spec => []CollectsAll
<1>1. Inv => CollectsAll
  BY DEF Inv, MTInv, MT!TypeOK, ClosedLast, ResultOf, Noted, CollectsAll, MT!CollectsAll
<1> QED
  BY <1>1, Invariance, PTL

\* For any manifest and any source, success of export means that the
\* destination has every blob the manifest names.
THEOREM SuccessIsComplete == Spec => []ExportComplete
<1>1. Inv => ExportComplete
  <2> SUFFICES ASSUME Inv, caller = "returned", ~rvErr, NEW h \in needed
               PROVE  h \in stored
    BY DEF ExportComplete
  <2>1. h \in Hashes /\ task[h] = "finished"
    BY DEF Inv, TypeOK, TasksAreNeeded, MTInv, ClosedLast
  <2>2. result[h] = "ok"
    BY <2>1 DEF Inv, MTInv, MT!TypeOK, ResultOf, Noted
  <2> QED
    BY <2>1, <2>2 DEF Inv, ResultIsTrue
<1> QED
  BY <1>1, Invariance, PTL

\* An error of export has a cause: an operation failed, or the source has lost
\* or damaged a blob the manifest names.
THEOREM ErrorIsJustified == Spec => []ErrorHasReason
<1>1. Inv => ErrorHasReason
  <2> SUFFICES ASSUME Inv, caller = "returned", rvErr
               PROVE  ioFailed \/ \E h \in needed : src[h] # h
    BY DEF ErrorHasReason
  <2>1. PICK h \in Hashes : task[h] \in {"sent", "finished"} /\ result[h] = "error"
    BY DEF Inv, MTInv, Noted
  <2>2. h \in needed
    BY <2>1 DEF Inv, TasksAreNeeded
  <2> QED
    BY <2>1, <2>2 DEF Inv, ResultIsTrue
<1> QED
  BY <1>1, Invariance, PTL
=============================================================================
