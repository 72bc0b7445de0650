---------------------------- MODULE JobScheduler ----------------------------
(***************************************************************************)
(* The background job scheduler of libmailcommon (src/src/job/             *)
(* jobscheduler.cpp).  Clients register tasks; the scheduler turns one     *)
(* task at a time into a running job, one minute apart unless the task is  *)
(* immediate, and can be paused and resumed over D-Bus.                    *)
(*                                                                         *)
(* Everything here runs in one Qt event loop, so an action is one whole    *)
(* event: a client's call, the timer's timeout, or the destruction of the  *)
(* running job.  restartTimer, slotRunNextJob and runTaskNow call each     *)
(* other; the operators below give the effect of the whole call chain.     *)
(***************************************************************************)
EXTENDS Integers, Sequences, FiniteSets

CONSTANTS
  Folders,       \* collections a task may name
  ValidFolders,  \* those for which Collection::isValid() holds
  TaskTypes,     \* values of taskTypeId(); 0 makes every task unique
  NoTask,        \* mCurrentTask = nullptr
  MaxTasks,      \* bound: tasks ever registered
  MaxPauses      \* bound: calls of pause()

ASSUME FoldersAssumption == ValidFolders \subseteq Folders
ASSUME TypesAssumption   == TaskTypes \subseteq Nat
ASSUME BoundsAssumption  == MaxTasks \in Nat /\ MaxPauses \in Nat

(* A ScheduledTask object.  The id stands for its address. *)
Task == [id : 1..MaxTasks, type : TaskTypes, folder : Folders, imm : BOOLEAN]

ASSUME NoTaskAssumption  == NoTask \notin Task

VARIABLES
  queue,       \* mTaskList
  current,     \* mCurrentTask; a job exists exactly while it is not NoTask
  cancellable, \* mCurrentJob->isCancellable()
  pending,     \* mPendingImmediateTasks
  timer,       \* mTimer.isActive()
  registered,  \* history: tasks allocated so far; the last one's id
  live,        \* history: ids of the task objects not yet deleted
  urgent,      \* history: queued tasks somebody asked to run immediately
  paused,      \* history: pause() was called after the last resume()
  pauses       \* history: calls of pause() so far

vars == <<queue, current, cancellable, pending, timer,
          registered, live, urgent, paused, pauses>>

-----------------------------------------------------------------------------
Ids(q) == {q[i].id : i \in DOMAIN q}

ImmediatesLastOnly(q, n) == \* faulty: counts the task started, not those skipped
  IF n \in DOMAIN q /\ q[n].imm THEN 1 ELSE 0

(* How many immediate tasks the first n places of q hold. *)
Immediates(q, n) == Cardinality({i \in 1..n : i \in DOMAIN q /\ q[i].imm})

Alike(t, u) == t.type # 0 /\ t.type = u.type /\ t.folder = u.folder

RemoveTask(q, i) == [j \in 1..(Len(q) - 1) |-> IF j < i THEN q[j] ELSE q[j + 1]]
RestKeepingStarted(q, k) == \* faulty: off by one, keeps the task that is started
  [j \in 1..(Len(q) - k + 1) |-> q[j + k - 1]]
Rest(q, k) == [j \in 1..(Len(q) - k) |-> q[j + k]]
Countdown(t, p)  == IF t.imm THEN p - 1 ELSE p

(* ScheduledExpireTask::run() yields a job for a valid folder only. *)
Runnable(t) == t.folder \in ValidFolders

(* mCurrentTask = t, its job created and started. *)
StartJob(t) == current' = t /\ cancellable' = TRUE

StayIdleStale == current' = NoTask /\ cancellable' = cancellable \* faulty: no reset
StayIdle == current' = NoTask /\ cancellable' = FALSE

(* slotRunNextJob() with no job running, on task list q, count p and timer *)
(* state tm.  Tasks of dead folders at the head are taken off the list and *)
(* forgotten; the first other one runs, and runTaskNow stops the timer.    *)
SlotRunNextJob(q, p, tm) ==
  \/ \E k \in DOMAIN q :
       /\ Runnable(q[k])
       /\ \A j \in 1..(k - 1) : ~Runnable(q[j])
       /\ StartJob(q[k])
       /\ queue'   = Rest(q, k)
       /\ pending' = p - Immediates(q, k)
       /\ timer'   = FALSE
  \/ /\ \A k \in DOMAIN q : ~Runnable(q[k])
     /\ StayIdle
     /\ queue'   = << >>
     /\ pending' = p - Immediates(q, Len(q))
     /\ timer'   = (tm /\ q = << >>)

RestartTimerLate(q, p, tm) == \* faulty: starts the timer for urgent work only
  \/ p > 0  /\ SlotRunNextJob(q, p, tm)
  \/ p <= 0 /\ StayIdle /\ queue' = q /\ pending' = p /\ timer' = tm

(* restartTimer() with no job running. *)
RestartTimer(q, p, tm) ==
  \/ p > 0  /\ SlotRunNextJob(q, p, tm)
  \/ p <= 0 /\ StayIdle /\ queue' = q /\ pending' = p /\ timer' = TRUE

ContinueWhenUrgent(q, p, tm) == \* faulty: leaves ordinary tasks unattended
  \/ q # << >> /\ p > 0 /\ SlotRunNextJob(q, p, tm)
  \/ ~(q # << >> /\ p > 0) /\ StayIdle /\ queue' = q /\ pending' = p /\ timer' = tm

(* What slotJobFinished and a fruitless runTaskNow do last. *)
ContinueWith(q, p, tm) ==
  \/ q # << >> /\ RestartTimer(q, p, tm)
  \/ q = << >> /\ StayIdle /\ queue' = q /\ pending' = p /\ timer' = tm

(* runTaskNow(t) with no job running; lv are the task objects alive. *)
RunTaskNow(t, q, p, lv) ==
  \/ /\ Runnable(t)
     /\ StartJob(t)
     /\ queue' = q /\ pending' = p /\ timer' = FALSE
     /\ live' = lv
  \/ /\ ~Runnable(t)
     /\ ContinueWith(q, p, FALSE)
     /\ live' = lv \ {t.id}

(* The task already on the list that makes a new task t superfluous. *)
FirstAlike(t, q, i) ==
  /\ i \in DOMAIN q
  /\ Alike(t, q[i])
  /\ \A j \in 1..(i - 1) : ~Alike(t, q[j])

NoneAlike(t, q) == \A i \in DOMAIN q : ~Alike(t, q[i])
-----------------------------------------------------------------------------
Init ==
  /\ queue = << >> /\ current = NoTask /\ cancellable = FALSE
  /\ pending = 0 /\ timer = FALSE
  /\ registered = 0 /\ live = {} /\ urgent = {}
  /\ paused = FALSE /\ pauses = 0

(* registerTask when an identical task is queued: the new one is deleted,  *)
(* and the queued one is run at once if the new one was immediate and no   *)
(* job is running.                                                         *)
RegisterDuplicate(t) ==
  \E i \in DOMAIN queue :
    /\ FirstAlike(t, queue, i)
    /\ \/ /\ current = NoTask /\ t.imm
          /\ RunTaskNow(queue[i], RemoveTask(queue, i),
                        Countdown(queue[i], pending), live)
       \/ /\ ~(current = NoTask /\ t.imm)
          /\ UNCHANGED <<queue, current, cancellable, pending, timer, live>>
    /\ urgent' = (urgent \cup (IF t.imm THEN {queue[i].id} ELSE {})) \cap Ids(queue')

(* registerTask otherwise: run the task now, or append it to the list.     *)
RegisterNew(t) ==
  /\ NoneAlike(t, queue)
  /\ \/ /\ current = NoTask /\ t.imm
        /\ RunTaskNow(t, queue, pending, live \cup {t.id})
     \/ /\ current = NoTask /\ ~t.imm
        /\ live' = live \cup {t.id}
        /\ \/ ~timer /\ RestartTimer(Append(queue, t), pending, timer)
           \/ /\ timer
              /\ queue' = Append(queue, t)
              /\ UNCHANGED <<current, cancellable, pending, timer>>
     \/ /\ current # NoTask
        /\ live' = live \cup {t.id}
        /\ queue' = Append(queue, t)
        /\ pending' = IF t.imm THEN pending + 1 ELSE pending
        /\ UNCHANGED <<current, cancellable, timer>>
  /\ urgent' = (urgent \cup (IF t.imm THEN {t.id} ELSE {})) \cap Ids(queue')

RegisterTask(type, folder, imm) ==
  LET t == [id |-> registered + 1, type |-> type, folder |-> folder, imm |-> imm]
  IN  /\ registered < MaxTasks
      /\ registered' = registered + 1
      /\ RegisterDuplicate(t) \/ RegisterNew(t)
      /\ UNCHANGED <<paused, pauses>>

(* The timer's timeout; while a job runs slotRunNextJob does nothing. *)
TimerFires ==
  /\ timer /\ current = NoTask
  /\ SlotRunNextJob(queue, pending, timer)
  /\ urgent' = urgent \cap Ids(queue')
  /\ UNCHANGED <<registered, live, paused, pauses>>

(* The running job reaches a point after which it must not be killed. *)
JobCommits ==
  /\ current # NoTask /\ cancellable
  /\ cancellable' = FALSE
  /\ UNCHANGED <<queue, current, pending, timer, registered, live, urgent, paused, pauses>>

(* The job's destructor emits finished(): slotJobFinished.  *)
SlotJobFinished ==
  /\ current # NoTask
  /\ ContinueWith(queue, pending, timer)
  /\ live' = live \ {current.id}
  /\ urgent' = urgent \cap Ids(queue')
  /\ UNCHANGED <<registered, paused, pauses>>

InterruptKeepingPointer == \* faulty: mCurrentTask is still set when the job dies
  /\ NoneAlike(current, queue)
  /\ StayIdle /\ queue' = Append(queue, current) /\ pending' = 0 /\ timer' = FALSE
  /\ live' = live \ {current.id}

InterruptAlwaysFiling == \* faulty: does not look for an identical task
  /\ LET q == Append(queue, current)
         p == IF current.imm THEN 1 ELSE 0
     IN  \/ p > 0 /\ SlotRunNextJob(q, p, FALSE)
         \/ p = 0 /\ StayIdle /\ queue' = q /\ pending' = p /\ timer' = FALSE
  /\ live' = live

(* interruptCurrentTask, from pause(), which has just reset the counter:   *)
(* the task is filed again (or dropped in favour of an identical one) and  *)
(* the job killed, which runs slotJobFinished with mCurrentTask already 0. *)
InterruptCurrentTask ==
  \/ /\ NoneAlike(current, queue)
     /\ LET q == Append(queue, current)
            p == IF current.imm THEN 1 ELSE 0
        IN  \/ p > 0 /\ SlotRunNextJob(q, p, FALSE)
            \/ p = 0 /\ StayIdle /\ queue' = q /\ pending' = p /\ timer' = FALSE
     /\ live' = live
  \/ /\ ~NoneAlike(current, queue)
     /\ StayIdle /\ queue' = queue /\ pending' = 0 /\ timer' = FALSE
     /\ live' = live \ {current.id}

(* pause(), the D-Bus call. *)
Pause ==
  /\ pauses < MaxPauses
  /\ pauses' = pauses + 1 /\ paused' = TRUE
  /\ \/ current # NoTask /\ cancellable /\ InterruptCurrentTask
     \/ /\ ~(current # NoTask /\ cancellable)
        /\ pending' = 0 /\ timer' = FALSE
        /\ UNCHANGED <<queue, current, cancellable, live>>
  /\ urgent' = urgent \cap Ids(queue')
  /\ UNCHANGED registered

(* resume(), the D-Bus call; it starts the timer even while a job runs. *)
Resume ==
  /\ paused' = FALSE
  /\ \/ current = NoTask /\ RestartTimer(queue, pending, timer)
     \/ /\ current # NoTask
        /\ timer' = (timer \/ pending <= 0)
        /\ UNCHANGED <<queue, current, cancellable, pending>>
  /\ urgent' = urgent \cap Ids(queue')
  /\ UNCHANGED <<registered, live, pauses>>

Next ==
  \/ \E type \in TaskTypes, folder \in Folders, imm \in BOOLEAN :
       RegisterTask(type, folder, imm)
  \/ TimerFires
  \/ JobCommits
  \/ SlotJobFinished
  \/ Pause
  \/ Resume

Spec == Init /\ [][Next]_vars

(* The timer keeps firing while it is active, and a job ends some day;     *)
(* nobody is obliged to register, pause or resume.                         *)
FairSpec == Spec /\ WF_vars(TimerFires) /\ WF_vars(SlotJobFinished)
-----------------------------------------------------------------------------
(* Every variable has its type, and there is a job to ask about being      *)
(* cancellable only while a task is current.                               *)
TypeOK ==
  /\ queue \in Seq(Task)
  /\ current \in Task \cup {NoTask}
  /\ cancellable \in BOOLEAN /\ (cancellable => current # NoTask)
  /\ pending \in Int
  /\ timer \in BOOLEAN
  /\ registered \in 0..MaxTasks
  /\ live \subseteq 1..registered
  /\ urgent \subseteq Ids(queue)
  /\ paused \in BOOLEAN
  /\ pauses \in 0..MaxPauses

(* taskTypeId() exists "to automatically prevent two identical tasks from  *)
(* being scheduled for the same folder": also after an interrupted task    *)
(* has been filed again, no two queued tasks are alike.                    *)
NoDuplicateTasks ==
  \A i, j \in DOMAIN queue : i # j => ~Alike(queue[i], queue[j])

(* The task pointers the scheduler will use or delete later point to       *)
(* distinct objects that still exist, across runs, merges, interrupts and  *)
(* completions: no use after free and no double delete.                    *)
TaskOwnership ==
  /\ \A i, j \in DOMAIN queue : i # j => queue[i].id # queue[j].id
  /\ Ids(queue) \subseteq live
  /\ current # NoTask => current.id \in live \ Ids(queue)

(* mPendingImmediateTasks is the number of immediate tasks in mTaskList    *)
(* until pause() resets it, and never more than that: after a pause it may *)
(* be too small, even below zero, but never counts a task that is not on   *)
(* the list, for which restartTimer() would run another at once.           *)
PendingIsExact ==
  LET immediate == {i \in DOMAIN queue : queue[i].imm}
  IN  pending <= Cardinality(immediate) /\ (pauses = 0 => pending = Cardinality(immediate))

(* No work waits without reason: when the scheduler falls idle no          *)
(* immediate task is left to the timer, and with tasks on the list the     *)
(* timer is active, unless the scheduler has been paused.                  *)
NoLostWakeup ==
  current = NoTask => pending <= 0 /\ (queue # << >> /\ ~paused => timer)

(* pause() interrupts the running job but not the work: a task alike, or   *)
(* the task itself, is queued or running again afterwards.                 *)
InterruptKeepsWork ==
  [][(pauses' # pauses /\ current # NoTask)
      => \E t \in ({queue'[i] : i \in DOMAIN queue'} \cup {current'}) \ {NoTask} :
           t.id = current.id \/ Alike(t, current)]_vars

(* Seen from outside the scheduler is a SerialRunner: a task is never in   *)
(* two places, and one that is gone never comes back.                      *)
Stage ==
  [i \in 1..MaxTasks |->
     LET queued == i \in Ids(queue)
         active == current # NoTask /\ current.id = i
     IN  IF queued /\ active THEN "torn"  \* no stage of a SerialRunner
         ELSE IF queued THEN "waiting"
         ELSE IF active THEN "running"
         ELSE IF i > registered THEN "unborn" ELSE "gone"]

Runner == INSTANCE SerialRunner WITH Tasks <- 1..MaxTasks, stage <- Stage

(* However tasks are queued, run, interrupted and merged, the scheduler    *)
(* runs them as a SerialRunner would and pause() loses no work.            *)
RunsSerially == Runner!Spec /\ InterruptKeepsWork

(* A queued task is not left there for ever, unless the scheduler is       *)
(* paused.                                                                 *)
QueueDrains ==
  \A i \in 1..MaxTasks : (i \in Ids(queue)) ~> (i \notin Ids(queue) \/ paused)
-----------------------------------------------------------------------------
(* jobscheduler.h: with immediate set "the scheduler will run this task as *)
(* soon as possible".  Not so: an immediate request merged into a queued   *)
(* ordinary task loses its urgency.                                        *)
ImmediateRunsFirst == (pauses = 0 /\ current = NoTask) => urgent = {}
=============================================================================
