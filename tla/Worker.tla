-------------------------------- MODULE Worker --------------------------------
(***************************************************************************)
(* The thread worker of libwebp (thread_utils.c, with WEBP_USE_THREAD as   *)
(* the binding compiles it): a thread that waits for jobs, and the calls   *)
(* of the code that owns the worker, "main".  One mutex guards the status, *)
(* and both sides wait on one condition.                                   *)
(*                                                                         *)
(* Between a lock and the unlock, or the wait, that follows it nothing     *)
(* unguarded happens, so such a section is one step, except for the two    *)
(* that take long: the thread keeps the mutex while it executes a job, and *)
(* main while it creates the thread.                                       *)
(*                                                                         *)
(* Every caller resets a worker only when it has no job under way; the     *)
(* last branch of Reset, which waits for such a job, is never taken.       *)
(***************************************************************************)
EXTENDS Naturals

CONSTANT MaxJobs  \* bound: jobs launched

ASSUME WorkerAssumption == MaxJobs \in Nat

VARIABLES
  impl,       \* worker->impl_ is not NULL
  status,     \* worker->status_
  had_error,  \* worker->had_error
  main,       \* where main is; "out" of the worker's functions
  new,        \* the argument of its ChangeState
  thread,     \* where the thread is
  launched,   \* history variable: jobs launched
  ran,        \* history variable: jobs the thread has executed
  quiet,      \* history variable: main has not launched a job since it last
              \* waited for one
  bad         \* history variable: a job has failed since Reset

implVars  == <<impl, status, had_error>>
bookVars  == <<launched, ran, quiet, bad>>
workerVars == <<implVars, main, new, thread, bookVars>>

Status == {"NOT_OK", "OK", "WORK"}

(* The types of the fields and locals.                                     *)
WorkerTypeOK ==
  /\ impl \in BOOLEAN /\ status \in Status /\ had_error \in BOOLEAN
  /\ main \in {"out", "created", "lock", "blocked", "woken", "join"}
  /\ new \in Status
  /\ thread \in {"none", "lock", "blocked", "woken", "hook", "finished"}
  /\ launched \in 0..MaxJobs /\ ran \in 0..MaxJobs
  /\ quiet \in BOOLEAN /\ bad \in BOOLEAN

(* Init.                                                                   *)
WorkerInit ==
  /\ impl = FALSE /\ status = "NOT_OK" /\ had_error = FALSE
  /\ main = "out" /\ new = "OK" /\ thread = "none"
  /\ launched = 0 /\ ran = 0 /\ quiet = TRUE /\ bad = FALSE

(* Nobody has the mutex.                                                   *)
Unlocked == thread # "hook" /\ main # "created"

(* pthread_cond_signal wakes the one that waits.                           *)
Woken(who) == IF who = "blocked" THEN "woken" ELSE who
SignalThread_Never == UNCHANGED thread
SignalThread == thread' = Woken(thread)
SignalMain_Never == UNCHANGED main
SignalMain == main' = Woken(main)

-------------------------------------------------------------------------------
(* The calls of main.                                                      *)

(* Reset of a worker without a thread: one is created under the mutex, or  *)
(* memory or threads are short.                                            *)
Create ==
  /\ main = "out" /\ status = "NOT_OK"
  /\ had_error' = FALSE /\ bad' = FALSE
  /\ impl' = TRUE /\ thread' = "lock"
  /\ main' = "created"
  /\ UNCHANGED <<status, new, launched, ran, quiet>>

CreateFails ==
  /\ main = "out" /\ status = "NOT_OK"
  /\ had_error' = FALSE /\ bad' = FALSE
  /\ UNCHANGED <<impl, status, main, new, thread, launched, ran, quiet>>

Created ==
  /\ main = "created"
  /\ status' = "OK" /\ main' = "out"
  /\ UNCHANGED <<impl, had_error, new, thread, bookVars>>

(* Reset of a worker that waits for jobs.                                  *)
ClearError == had_error' = FALSE
ResetIdle ==
  /\ main = "out" /\ quiet /\ status = "OK"
  /\ ClearError /\ bad' = FALSE
  /\ UNCHANGED <<impl, status, main, new, thread, launched, ran, quiet>>

(* Sync, Launch and End are ChangeState with another status.  Without a    *)
(* thread it does nothing; nobody launches then.                           *)
ChangeState(s) ==
  /\ main = "out"
  /\ IF impl THEN new' = s /\ main' = "lock" ELSE UNCHANGED <<new, main>>
  /\ UNCHANGED <<implVars, thread, bookVars>>

Sync == ChangeState("OK")
Launch == impl /\ launched < MaxJobs /\ ChangeState("WORK")
End == ChangeState("NOT_OK")

(* Execute, called by main itself.                                         *)
Execute(ok) ==
  /\ main = "out" /\ quiet
  /\ had_error' = (had_error \/ ~ok) /\ bad' = (bad \/ ~ok)
  /\ UNCHANGED <<impl, status, main, new, thread, launched, ran, quiet>>

(* ChangeState, once it has the mutex: it waits for the job, or assigns    *)
(* the new status.                                                         *)
MustWait_OnlyOnce == status # "OK" /\ main = "lock"
MustWait == status # "OK"

Locks == main \in {"lock", "woken"} /\ Unlocked

Waits ==
  /\ Locks /\ MustWait
  /\ main' = "blocked"
  /\ UNCHANGED <<implVars, new, thread, bookVars>>

Assigns ==
  /\ Locks /\ ~MustWait
  /\ status' = new
  /\ IF new # "OK" THEN SignalThread ELSE UNCHANGED thread
  /\ main' = IF new = "NOT_OK" THEN "join" ELSE "out"
  /\ quiet' = (new # "WORK")
  /\ launched' = launched + (IF new = "WORK" THEN 1 ELSE 0)
  /\ UNCHANGED <<impl, had_error, new, ran, bad>>

(* pthread_join, and what the thread needed is given back.                 *)
Joined_AtOnce == TRUE
Joined == thread = "finished"

Join ==
  /\ main = "join" /\ Joined
  /\ impl' = FALSE /\ main' = "out"
  /\ thread' = IF thread = "finished" THEN "none" ELSE thread
  /\ UNCHANGED <<status, had_error, new, bookVars>>

-------------------------------------------------------------------------------
(* ThreadLoop.                                                             *)

ThreadLocks == thread \in {"lock", "woken"} /\ Unlocked

Idles ==
  /\ ThreadLocks /\ status = "OK"
  /\ thread' = "blocked"
  /\ UNCHANGED <<implVars, main, new, bookVars>>

Takes ==
  /\ ThreadLocks /\ status = "WORK"
  /\ thread' = "hook"
  /\ UNCHANGED <<implVars, main, new, bookVars>>

(* Execute returns: the error is kept, the status and the signal tell main *)
(* that the job is done.                                                   *)
DoneStatus == "OK"
KeptError_Last(ok) == ~ok
KeptError(ok) == had_error \/ ~ok

Ran(ok) ==
  /\ thread = "hook"
  /\ had_error' = KeptError(ok) /\ bad' = (bad \/ ~ok)
  /\ status' = DoneStatus
  /\ SignalMain
  /\ thread' = "lock"
  /\ ran' = ran + 1
  /\ UNCHANGED <<impl, new, launched, quiet>>

Quits ==
  /\ ThreadLocks /\ status = "NOT_OK"
  /\ SignalMain
  /\ thread' = "finished"
  /\ UNCHANGED <<implVars, new, bookVars>>

-------------------------------------------------------------------------------
(* pthread_cond_wait may return without a signal.                          *)
Spurious ==
  /\ \/ main = "blocked" /\ main' = "woken" /\ UNCHANGED thread
     \/ thread = "blocked" /\ thread' = "woken" /\ UNCHANGED main
  /\ UNCHANGED <<implVars, new, bookVars>>

-------------------------------------------------------------------------------
(* A call goes on until it returns, and so does the thread.                *)
MainRuns == Created \/ Waits \/ Assigns \/ Join
ThreadRuns == Idles \/ Takes \/ Quits \/ (\E ok \in BOOLEAN : Ran(ok))

(* Any code that owns a worker.                                            *)
AnyCall ==
  \/ Create \/ CreateFails \/ ResetIdle \/ Sync \/ Launch \/ End
  \/ \E ok \in BOOLEAN : Execute(ok)

WorkerNext == AnyCall \/ MainRuns \/ ThreadRuns \/ Spurious

(* The threads are scheduled, and a hook ends.                             *)
WorkerFairness == WF_workerVars(MainRuns) /\ WF_workerVars(ThreadRuns)

WorkerSpec == WorkerInit /\ [][WorkerNext]_workerVars /\ WorkerFairness

-------------------------------------------------------------------------------
(* Properties.                                                             *)

(* One condition is enough for both sides: they never wait for each other, *)
(* so that a signal always wakes the one it is meant for                   *)
(* (thread_utils.c:220, 243).                                              *)
NeverBothWait == ~(main = "blocked" /\ thread = "blocked")

(* No launched job gets lost and none is executed twice, spurious          *)
(* wake-ups and calls in any order included (thread_utils.c:213).          *)
EveryJobOnce == launched = ran + (IF status = "WORK" THEN 1 ELSE 0)

(* Sync tells of every failed job since Reset (thread_utils.c:263, 308).   *)
ErrorsKept == had_error <=> bad

(* Mutex, condition and impl_ are given back when no thread is left to use *)
(* them, and a worker that is not up has none (thread_utils.c:325).        *)
NothingLeft == ~impl => thread = "none" /\ status = "NOT_OK"

(* What the two sides owe each other, all of it.                           *)
WorkerSound == NeverBothWait /\ EveryJobOnce /\ ErrorsKept /\ NothingLeft

-------------------------------------------------------------------------------
(* The worker is a slot for one job.                                       *)
CallOf ==
  IF main = "out" THEN "out"
  ELSE IF main = "created" THEN "Reset"
  ELSE IF main = "join" \/ new = "NOT_OK" THEN "End"
  ELSE IF new = "WORK" THEN "Launch"
  ELSE "Sync"

Slot == INSTANCE JobSlot WITH
          up <- impl, err <- had_error, call <- CallOf,
          job <- IF status = "WORK" THEN "work" ELSE "idle"

(* The code keeps the promise of JobSlot (thread_utils.h): every call      *)
(* returns, and every job is done (thread_utils.c:238).                    *)
SlotKept == Slot!SlotSpec
===============================================================================
