---------------------------- MODULE MultiTasker ----------------------------
(***************************************************************************)
(* Running functions in parallel: jobs/multitasker.go.  Every function has *)
(* a goroutine that sends its result on a channel without a buffer, so it  *)
(* blocks until Wait receives.  A further goroutine closes the channel     *)
(* once the wait group is down to zero, which ends the loop of Wait.       *)
(***************************************************************************)
CONSTANT Tasks

VARIABLES
  caller,   \* "queueing" until Wait is called, "waiting" in it, "returned"
  task,     \* task[t]: where the goroutine of t is
  result,   \* result[t]: what its function has returned
  open,     \* is the channel open?
  rvErr     \* the first error received

vars == <<caller, task, result, open, rvErr>>

TypeOK ==
  /\ caller \in {"queueing", "waiting", "returned"}
  /\ task \in [Tasks -> {"none", "running", "sending", "sent", "finished"}]
  /\ result \in [Tasks -> {"none", "ok", "error"}]
  /\ open \in BOOLEAN
  /\ rvErr \in BOOLEAN

Init ==
  /\ caller = "queueing"
  /\ task = [t \in Tasks |-> "none"]
  /\ result = [t \in Tasks |-> "none"]
  /\ open = TRUE
  /\ rvErr = FALSE

\* wg.Add(1), and the goroutine is started.
Queue(t) ==
  /\ caller = "queueing" /\ task[t] = "none"
  /\ task' = [task EXCEPT ![t] = "running"]
  /\ UNCHANGED <<caller, result, open, rvErr>>

\* f returns, and the goroutine goes on to send its result.
FunctionReturns(t, r) ==
  /\ task[t] = "running"
  /\ task' = [task EXCEPT ![t] = "sending"]
  /\ result' = [result EXCEPT ![t] = r]
  /\ UNCHANGED <<caller, open, rvErr>>

\* Wait starts the goroutine that closes the channel, and its own loop.
Wait ==
  /\ caller = "queueing"
  /\ caller' = "waiting"
  /\ UNCHANGED <<task, result, open, rvErr>>

\* A send meets the receive of Wait's loop.
Receive(t) ==
  /\ task[t] = "sending" /\ caller = "waiting" /\ open
  /\ task' = [task EXCEPT ![t] = "sent"]
  /\ rvErr' = (rvErr \/ result[t] = "error")
  /\ UNCHANGED <<caller, result, open>>

\* The deferred wg.Done().
Done(t) ==
  /\ task[t] = "sent"
  /\ task' = [task EXCEPT ![t] = "finished"]
  /\ UNCHANGED <<caller, result, open, rvErr>>

\* A plausible bug: wg.Done is called before the result is sent.
CloseEarly ==
  /\ caller = "waiting" /\ open
  /\ \A t \in Tasks : task[t] # "running"
  /\ open' = FALSE
  /\ UNCHANGED <<caller, task, result, rvErr>>

\* A plausible bug: the channel is closed by one of the tasks.
CloseNever ==
  /\ caller = "waiting" /\ open
  /\ \E t \in Tasks : task[t] = "finished"
  /\ \A t \in Tasks : task[t] \in {"none", "finished"}
  /\ open' = FALSE
  /\ UNCHANGED <<caller, task, result, rvErr>>

\* wg.Wait() returns and the channel is closed.
CloseErrors ==
  /\ caller = "waiting" /\ open
  /\ \A t \in Tasks : task[t] \in {"none", "finished"}
  /\ open' = FALSE
  /\ UNCHANGED <<caller, task, result, rvErr>>

\* The loop of Wait ends with the channel.
WaitReturns ==
  /\ caller = "waiting" /\ ~open
  /\ caller' = "returned"
  /\ UNCHANGED <<task, result, open, rvErr>>

\* What the goroutines do by themselves.
Step ==
  \/ \E t \in Tasks : Receive(t) \/ Done(t)
  \/ CloseErrors \/ WaitReturns

\* No goroutine is left to send on the channel when it is closed, which would
\* be a panic, and when Wait returns every result has been taken: it is an
\* error exactly if one of the functions returned one.
CollectsAll ==
  /\ ~open => \A t \in Tasks : task[t] \in {"none", "finished"}
  /\ caller = "returned" => (rvErr <=> \E t \in Tasks : result[t] = "error")
=============================================================================
