---------------------------- MODULE ExpirySystem ----------------------------
(***************************************************************************)
(* The scheduler with the jobs it really runs.  JobScheduler lets a job    *)
(* become uncancellable and end whenever it likes; here the job is an      *)
(* ExpireJob, which does so when its removers let it.  Every task is a     *)
(* ScheduledExpireTask, and all folders hold the same mail.                *)
(*                                                                         *)
(* The two components share mCancellable, and each step that starts, ends  *)
(* or kills a job is a step of both.                                       *)
(***************************************************************************)
EXTENDS JobScheduler

CONSTANTS Messages, Mail, Policies, NoPolicy, ExcludeImportant, BatchSize, Now, NoDate

(* ScheduledExpireTask::taskTypeId() *)
ASSUME ExpiryTypeAssumption == 1 \in TaskTypes

VARIABLES phase, policy, looked, selected, running, unanswered, marking,
          remover, mail, place, failed

Job == INSTANCE ExpireJob

jobOnly == <<phase, policy, looked, selected, running, unanswered, marking,
             remover, failed, mail, place>>
systemVars == <<vars, jobOnly>>

SystemInit == Init /\ Job!Init

(* After a scheduler step that left no job of before: the new current task *)
(* has a new job.                                                          *)
JobReplaced ==
  /\ \/ current' = NoTask /\ Job!JobGone
     \/ current' # NoTask /\ \E p \in Policies : Job!JobStarts(p)
  /\ UNCHANGED <<mail, place>>

JobUntouched == UNCHANGED jobOnly

(* registerTask, called by expireOldMessages() *)
ExpireOldMessages ==
  /\ \E folder \in Folders, imm \in BOOLEAN : RegisterTask(1, folder, imm)
  /\ \/ current = NoTask /\ JobReplaced
     \/ current # NoTask /\ JobUntouched

TimerRunsNext == TimerFires /\ JobReplaced

(* The event loop deletes the job; its destructor calls slotJobFinished.   *)
JobDeleted == phase = "doomed" /\ SlotJobFinished /\ JobReplaced

PauseSystem ==
  /\ Pause
  /\ \/ current # NoTask /\ cancellable /\ JobReplaced
     \/ ~(current # NoTask /\ cancellable) /\ JobUntouched

ResumeSystem ==
  /\ Resume
  /\ \/ current = NoTask /\ JobReplaced
     \/ current # NoTask /\ JobUntouched

(* The job's own steps; the scheduler sees at most that it can no longer   *)
(* be cancelled.                                                           *)
JobWorks ==
  /\ Job!FetchFails \/ Job!ServerAnswers \/ Job!RemoverDeleted
  /\ UNCHANGED <<queue, current, pending, timer, registered, live, urgent, paused, pauses>>

SystemNext ==
  \/ ExpireOldMessages
  \/ TimerRunsNext
  \/ JobDeleted
  \/ PauseSystem
  \/ ResumeSystem
  \/ JobWorks

SystemSpec == SystemInit /\ [][SystemNext]_systemVars

(* The timer, the mail server and the event loop do their work.  *)
FairSystemSpec ==
  /\ SystemSpec
  /\ WF_systemVars(TimerRunsNext)
  /\ WF_systemVars(JobWorks)
  /\ WF_systemVars(JobDeleted)
-----------------------------------------------------------------------------
(* The job and the scheduler agree on whether there is a job at all: no    *)
(* pointer to a dead job, and no job that nobody waits for.                *)
JobMatchesTask == (current = NoTask) <=> (phase = "none")

(* With jobs that delete mail, what is assumed of jobs in JobScheduler is  *)
(* true of ExpireJob: the system is a scheduler all of whose jobs end, and *)
(* scheduler and job agree throughout.                                     *)
ImplementsScheduler == FairSpec /\ []JobMatchesTask

(* A job that is killed by pause() has not given the server anything to    *)
(* remove, so the task that is run again later finds the folder as it was. *)
PauseLosesNothing ==
  [][(pauses' # pauses /\ unanswered # {}) => UNCHANGED jobOnly]_systemVars

(* A queued task does not wait for ever unless the scheduler is paused or  *)
(* the server refused something.  Not so: a job that has moved unread mail *)
(* never ends, although all went well.                                     *)
ExpiryQueueDrains ==
  \A i \in 1..MaxTasks :
    (i \in Ids(queue)) ~> (i \notin Ids(queue) \/ paused \/ failed)
=============================================================================
