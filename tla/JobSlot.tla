------------------------------- MODULE JobSlot --------------------------------
(***************************************************************************)
(* What a WebPWorker promises to the code that uses it (thread_utils.h): a *)
(* slot for one job.  Launch and Sync wait until the job before has been   *)
(* done, a launched job is done some time and once, its error is kept      *)
(* until Reset, and End leaves nothing behind.  Worker.tla is the code     *)
(* that keeps the promise with a thread, a mutex and a condition.          *)
(***************************************************************************)
VARIABLES
  up,       \* there is a thread for jobs
  job,      \* "idle", or "work" from Launch until the job is done
  err,      \* a job has failed since Reset
  call      \* the call the user waits for; "out" if none

slotVars == <<up, job, err, call>>

Calls == {"Reset", "Launch", "Sync", "End"}

SlotInit == up = FALSE /\ job = "idle" /\ err = FALSE /\ call = "out"

(* Reset forgets the error; it makes a thread if there is none, or fails.  *)
StartThread ==
  /\ call = "out" /\ ~up
  /\ err' = FALSE
  /\ up' = TRUE /\ call' = "Reset" /\ UNCHANGED job

StartFails ==
  /\ call = "out" /\ ~up
  /\ err' = FALSE
  /\ UNCHANGED <<up, job, call>>

Restart ==
  /\ call = "out" /\ up /\ job = "idle"
  /\ err' = FALSE
  /\ UNCHANGED <<up, job, call>>

Ask(c) ==
  /\ call = "out" /\ up
  /\ call' = c
  /\ UNCHANGED <<up, job, err>>

(* A job done by the user himself, in the slot's name.                     *)
DoItMyself ==
  /\ call = "out" /\ job = "idle"
  /\ err' \in {err, TRUE}
  /\ UNCHANGED <<up, job, call>>

Return ==
  /\ call # "out" /\ job = "idle"
  /\ call' = "out"
  /\ job' = IF call = "Launch" THEN "work" ELSE "idle"
  /\ up' = (call # "End")
  /\ UNCHANGED err

JobDone ==
  /\ job = "work"
  /\ job' = "idle"
  /\ err' \in {err, TRUE}
  /\ UNCHANGED <<up, call>>

SlotNext ==
  \/ StartThread \/ StartFails \/ Restart \/ DoItMyself \/ Return \/ JobDone
  \/ \E c \in Calls \ {"Reset"} : Ask(c)

SlotSteps == SlotInit /\ [][SlotNext]_slotVars
SlotSpec == SlotSteps /\ WF_slotVars(Return) /\ WF_slotVars(JobDone)
===============================================================================
