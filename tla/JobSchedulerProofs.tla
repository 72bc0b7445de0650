------------------------- MODULE JobSchedulerProofs -------------------------
(***************************************************************************)
(* Proofs about JobScheduler for every set of folders, task types and      *)
(* every bound: the invariants of its list, of its counter and timer, and  *)
(* that it implements SerialRunner.  Then about ExpirySystem: scheduler    *)
(* and expiry jobs together are a JobScheduler, so what is proved of that  *)
(* one holds of them, and pause() does no harm to a job that is removing   *)
(* mail.                                                                   *)
(***************************************************************************)
EXTENDS ExpirySystem, FiniteSetTheorems, TLAPS

(* The shape of a task list: distinct objects, no two of them alike. *)
Unalike(q)  == \A i, j \in DOMAIN q : i # j => ~Alike(q[i], q[j])
Distinct(q) == \A i, j \in DOMAIN q : i # j => q[i].id # q[j].id
TaskList(q) == q \in Seq(Task) /\ Unalike(q) /\ Distinct(q)

(* What every path through the scheduler leaves behind, when it started    *)
(* from task list q with no job running.                                   *)
Settled(q) ==
  /\ TaskList(queue')
  /\ Ids(queue') \subseteq Ids(q)
  /\ current' \in Task \cup {NoTask}
  /\ current' # NoTask => current'.id \in Ids(q) \ Ids(queue')
  /\ cancellable' \in BOOLEAN /\ (cancellable' => current' # NoTask)
  /\ pending' \in Int
  /\ timer' \in BOOLEAN

(* The number of immediate tasks in a prefix is a number. *)
LEMMA ImmediatesType ==
  ASSUME NEW q, NEW n \in Nat
  PROVE  Immediates(q, n) \in Nat
<1>1. IsFiniteSet(1..n)
  BY FS_Interval
<1>2. {i \in 1..n : i \in DOMAIN q /\ q[i].imm} \subseteq 1..n
  OBVIOUS
<1>3. QED
  BY <1>1, <1>2, FS_Subset, FS_CardinalityType DEF Immediates

(* Taking the first k tasks off a list leaves a list, without task k. *)
LEMMA RestOfList ==
  ASSUME NEW q, TaskList(q), NEW k \in DOMAIN q
  PROVE  /\ TaskList(Rest(q, k))
         /\ Ids(Rest(q, k)) \subseteq Ids(q) \ {q[k].id}
<1>1. /\ q \in Seq(Task) /\ Len(q) \in Nat /\ DOMAIN q = 1..Len(q)
      /\ k \in 1..Len(q) /\ Len(q) - k \in Nat
  BY DEF TaskList
<1>2. /\ DOMAIN Rest(q, k) = 1..(Len(q) - k)
      /\ \A j \in 1..(Len(q) - k) : /\ Rest(q, k)[j] = q[j + k]
                                    /\ j + k \in DOMAIN q /\ j + k # k
  BY <1>1 DEF Rest
<1>3. \A j \in 1..(Len(q) - k) : q[j + k] \in Task
  BY <1>1
<1>4. Rest(q, k) \in Seq(Task)
  BY <1>1, <1>3 DEF Rest
<1>5. Unalike(Rest(q, k)) /\ Distinct(Rest(q, k))
  <2>1. \A i, j \in 1..(Len(q) - k) : i # j => i + k # j + k
    BY <1>1
  <2>2. QED
    BY <1>2, <2>1 DEF TaskList, Unalike, Distinct
<1>6. Ids(Rest(q, k)) \subseteq Ids(q) \ {q[k].id}
  BY <1>2 DEF Ids, TaskList, Distinct
<1>7. QED
  BY <1>4, <1>5, <1>6 DEF TaskList

(* Taking one task out of a list leaves a list, without that task. *)
LEMMA ListWithoutTask ==
  ASSUME NEW q, TaskList(q), NEW k \in DOMAIN q
  PROVE  /\ TaskList(RemoveTask(q, k))
         /\ Ids(RemoveTask(q, k)) \subseteq Ids(q) \ {q[k].id}
<1> DEFINE at(j) == IF j < k THEN j ELSE j + 1
<1>1. /\ q \in Seq(Task) /\ Len(q) \in Nat /\ DOMAIN q = 1..Len(q)
      /\ k \in 1..Len(q) /\ Len(q) - 1 \in Nat
  BY DEF TaskList
<1>2. \A j \in 1..(Len(q) - 1) : at(j) \in DOMAIN q /\ at(j) # k
  BY <1>1
<1>3. /\ DOMAIN RemoveTask(q, k) = 1..(Len(q) - 1)
      /\ \A j \in 1..(Len(q) - 1) : RemoveTask(q, k)[j] = q[at(j)]
  BY <1>1 DEF RemoveTask
<1>4. \A j \in 1..(Len(q) - 1) : (IF j < k THEN q[j] ELSE q[j + 1]) \in Task
  BY <1>1
<1>5. RemoveTask(q, k) \in Seq(Task)
  BY <1>1, <1>4 DEF RemoveTask
<1>6. \A i, j \in 1..(Len(q) - 1) : i # j => at(i) # at(j)
  BY <1>1
<1> HIDE DEF at
<1>7. Unalike(RemoveTask(q, k)) /\ Distinct(RemoveTask(q, k))
  <2>1. ASSUME NEW i \in DOMAIN RemoveTask(q, k), NEW j \in DOMAIN RemoveTask(q, k), i # j
        PROVE  /\ ~Alike(RemoveTask(q, k)[i], RemoveTask(q, k)[j])
               /\ RemoveTask(q, k)[i].id # RemoveTask(q, k)[j].id
    <3>1. /\ at(i) \in DOMAIN q /\ at(j) \in DOMAIN q /\ at(i) # at(j)
          /\ RemoveTask(q, k)[i] = q[at(i)] /\ RemoveTask(q, k)[j] = q[at(j)]
      BY <2>1, <1>2, <1>3, <1>6
    <3>2. QED
      BY <3>1 DEF TaskList, Unalike, Distinct
  <2>2. QED
    BY <2>1 DEF Unalike, Distinct
<1>8. Ids(RemoveTask(q, k)) \subseteq Ids(q) \ {q[k].id}
  BY <1>2, <1>3 DEF Ids, TaskList, Distinct
<1>9. QED
  BY <1>5, <1>7, <1>8 DEF TaskList

(* Appending a task that is new and unlike the queued ones keeps a list. *)
LEMMA ListWithTask ==
  ASSUME NEW q, TaskList(q), NEW t \in Task, NoneAlike(t, q), t.id \notin Ids(q)
  PROVE  /\ TaskList(Append(q, t))
         /\ Ids(Append(q, t)) = Ids(q) \cup {t.id}
<1>1. /\ q \in Seq(Task) /\ Len(q) \in Nat /\ DOMAIN q = 1..Len(q)
      /\ Append(q, t) \in Seq(Task)
      /\ DOMAIN Append(q, t) = 1..(Len(q) + 1)
      /\ Append(q, t)[Len(q) + 1] = t
      /\ \A i \in 1..Len(q) : Append(q, t)[i] = q[i]
  BY DEF TaskList
<1>2. DOMAIN Append(q, t) = DOMAIN q \cup {Len(q) + 1} /\ Len(q) + 1 \notin DOMAIN q
  BY <1>1
<1>3. Unalike(Append(q, t))
  BY <1>1, <1>2 DEF TaskList, Unalike, NoneAlike, Alike
<1>4. Distinct(Append(q, t))
  BY <1>1, <1>2 DEF TaskList, Distinct, Ids
<1>5. Ids(Append(q, t)) = Ids(q) \cup {t.id}
  BY <1>1, <1>2 DEF Ids
<1>6. QED
  BY <1>1, <1>3, <1>4, <1>5 DEF TaskList

(* slotRunNextJob settles, whatever it finds on the list. *)
LEMMA SlotRunNextJobSettles ==
  ASSUME NEW q, TaskList(q), NEW p \in Int, NEW tm \in BOOLEAN,
         SlotRunNextJob(q, p, tm)
  PROVE  Settled(q)
<1>1. CASE \E k \in DOMAIN q :
              /\ Runnable(q[k])
              /\ \A j \in 1..(k - 1) : ~Runnable(q[j])
              /\ StartJob(q[k])
              /\ queue'   = Rest(q, k)
              /\ pending' = p - Immediates(q, k)
              /\ timer'   = FALSE
  <2>1. PICK k \in DOMAIN q : /\ StartJob(q[k]) /\ queue' = Rest(q, k)
                              /\ pending' = p - Immediates(q, k) /\ timer' = FALSE
    BY <1>1
  <2>2. q[k] \in Task /\ q[k].id \in Ids(q) /\ k \in Nat
    BY DEF TaskList, Ids
  <2>3. pending' \in Int
    BY <2>1, <2>2, ImmediatesType
  <2>4. /\ TaskList(queue') /\ Ids(queue') \subseteq Ids(q) \ {q[k].id}
    BY <2>1, RestOfList
  <2>5. QED
    BY <2>1, <2>2, <2>3, <2>4, NoTaskAssumption DEF Settled, StartJob
<1>2. CASE /\ StayIdle /\ queue' = << >>
           /\ pending' = p - Immediates(q, Len(q))
           /\ timer' = (tm /\ q = << >>)
  <2>1. Len(q) \in Nat
    BY DEF TaskList
  <2>2. pending' \in Int
    BY <1>2, <2>1, ImmediatesType
  <2>3. TaskList(queue') /\ Ids(queue') = {}
    BY <1>2 DEF TaskList, Unalike, Distinct, Ids
  <2>4. QED
    BY <1>2, <2>2, <2>3 DEF Settled, StayIdle
<1>3. QED
  BY <1>1, <1>2 DEF SlotRunNextJob

(* So does restartTimer ... *)
LEMMA RestartTimerSettles ==
  ASSUME NEW q, TaskList(q), NEW p \in Int, NEW tm \in BOOLEAN,
         RestartTimer(q, p, tm)
  PROVE  Settled(q)
<1>1. CASE SlotRunNextJob(q, p, tm)
  BY <1>1, SlotRunNextJobSettles
<1>2. CASE StayIdle /\ queue' = q /\ pending' = p /\ timer' = TRUE
  BY <1>2 DEF Settled, StayIdle
<1>3. QED
  BY <1>1, <1>2 DEF RestartTimer

(* ... and what slotJobFinished does last. *)
LEMMA ContinueWithSettles ==
  ASSUME NEW q, TaskList(q), NEW p \in Int, NEW tm \in BOOLEAN,
         ContinueWith(q, p, tm)
  PROVE  Settled(q)
<1>1. CASE RestartTimer(q, p, tm)
  BY <1>1, RestartTimerSettles
<1>2. CASE StayIdle /\ queue' = q /\ pending' = p /\ timer' = tm
  BY <1>2 DEF Settled, StayIdle
<1>3. QED
  BY <1>1, <1>2 DEF ContinueWith

(* runTaskNow(t) settles too, starting t or a task of q, and deletes t     *)
(* only if it is neither queued nor current afterwards.                    *)
LEMMA RunTaskNowSettles ==
  ASSUME NEW q, TaskList(q), NEW p \in Int, NEW t \in Task, NEW lv,
         t.id \notin Ids(q), Ids(q) \cup {t.id} \subseteq lv,
         RunTaskNow(t, q, p, lv)
  PROVE  /\ TaskList(queue') /\ Ids(queue') \subseteq live' /\ live' \subseteq lv
         /\ current' \in Task \cup {NoTask}
         /\ current' # NoTask => current'.id \in live' \ Ids(queue')
         /\ cancellable' \in BOOLEAN /\ (cancellable' => current' # NoTask)
         /\ pending' \in Int /\ timer' \in BOOLEAN
<1>1. CASE /\ StartJob(t) /\ queue' = q /\ pending' = p /\ timer' = FALSE
           /\ live' = lv
  BY <1>1, NoTaskAssumption DEF StartJob
<1>2. CASE ContinueWith(q, p, FALSE) /\ live' = lv \ {t.id}
  <2>1. Settled(q)
    BY <1>2, ContinueWithSettles
  <2>2. QED
    BY <1>2, <2>1 DEF Settled
<1>3. QED
  BY <1>1, <1>2 DEF RunTaskNow
-----------------------------------------------------------------------------
(* The inductive invariant: neither freedom from duplicates nor ownership  *)
(* is preserved alone, for a task is only moved to where it belongs if the *)
(* list holds distinct, live objects before the step.                      *)
Inv == TypeOK /\ NoDuplicateTasks /\ TaskOwnership

(* The part of Inv' that depends on the action. *)
TaskObjectsKept ==
  /\ TaskList(queue')
  /\ Ids(queue') \subseteq live'
  /\ live' \subseteq 1..registered'
  /\ current' \in Task \cup {NoTask}
  /\ current' # NoTask => current'.id \in live' \ Ids(queue')
  /\ cancellable' \in BOOLEAN /\ (cancellable' => current' # NoTask)
  /\ pending' \in Int
  /\ timer' \in BOOLEAN

(* The invariant in the vocabulary of the lemmas. *)
LEMMA InvMeans ==
  ASSUME Inv
  PROVE  /\ TaskList(queue)
         /\ Ids(queue) \subseteq live
         /\ live \subseteq 1..registered /\ registered \in 0..MaxTasks
         /\ current \in Task \cup {NoTask}
         /\ current # NoTask => current.id \in live \ Ids(queue)
         /\ pending \in Int /\ timer \in BOOLEAN
BY DEF Inv, TypeOK, NoDuplicateTasks, TaskOwnership, TaskList, Unalike, Distinct

(* A step that keeps the task objects in order keeps the invariant. *)
LEMMA KeptIsInv ==
  ASSUME TaskObjectsKept, registered' \in 0..MaxTasks,
         urgent' \subseteq Ids(queue'),
         paused' \in BOOLEAN, pauses' \in 0..MaxPauses
  PROVE  Inv'
<1>1. TypeOK'
  BY DEF TypeOK, TaskObjectsKept, TaskList, Ids
<1>2. NoDuplicateTasks'
  BY DEF NoDuplicateTasks, TaskObjectsKept, TaskList, Unalike
<1>3. TaskOwnership'
  BY DEF TaskOwnership, TaskObjectsKept, TaskList, Distinct, Ids
<1>4. QED
  BY <1>1, <1>2, <1>3 DEF Inv

(* A settled list whose tasks are all alive keeps the objects in order. *)
LEMMA SettledIsKept ==
  ASSUME Inv, Settled(queue), registered' = registered,
         live' \subseteq live, Ids(queue) \subseteq live'
  PROVE  TaskObjectsKept
BY InvMeans DEF Settled, TaskObjectsKept

(* registerTask leaves the invariant true. *)
LEMMA RegisterTaskKeeps ==
  ASSUME Inv, NEW type \in TaskTypes, NEW folder \in Folders, NEW imm \in BOOLEAN,
         RegisterTask(type, folder, imm)
  PROVE  Inv'
<1> DEFINE t == [id |-> registered + 1, type |-> type, folder |-> folder, imm |-> imm]
<1>1. /\ registered < MaxTasks /\ registered' = registered + 1
      /\ RegisterDuplicate(t) \/ RegisterNew(t)
      /\ UNCHANGED <<paused, pauses>>
  BY DEF RegisterTask
<1>2. registered \in Nat /\ registered' \in 0..MaxTasks
  BY <1>1, InvMeans, BoundsAssumption
<1>3. t \in Task
  BY <1>1, <1>2, BoundsAssumption DEF Task
<1>4. live \subseteq 1..registered' /\ registered + 1 \in 1..registered'
      /\ t.id = registered + 1 /\ t.id \notin live
  BY <1>1, <1>2, InvMeans
<1> HIDE DEF t
<1>5. CASE RegisterDuplicate(t)
  <2>1. PICK i \in DOMAIN queue :
          /\ \/ RunTaskNow(queue[i], RemoveTask(queue, i),
                           Countdown(queue[i], pending), live)
             \/ UNCHANGED <<queue, current, cancellable, pending, timer, live>>
          /\ urgent' \subseteq Ids(queue')
    BY <1>5 DEF RegisterDuplicate
  <2>2. queue[i] \in Task /\ queue[i].id \in Ids(queue)
    BY InvMeans DEF TaskList, Ids
  <2>3. TaskObjectsKept
    <3>3. CASE RunTaskNow(queue[i], RemoveTask(queue, i), Countdown(queue[i], pending), live)
      <4>1. /\ TaskList(RemoveTask(queue, i))
            /\ Ids(RemoveTask(queue, i)) \subseteq Ids(queue) \ {queue[i].id}
        BY InvMeans, ListWithoutTask
      <4>2. Countdown(queue[i], pending) \in Int
        BY InvMeans DEF Countdown
      <4>3. Ids(RemoveTask(queue, i)) \cup {queue[i].id} \subseteq live
        BY <2>2, <4>1, InvMeans
      <4>4. /\ TaskList(queue') /\ Ids(queue') \subseteq live' /\ live' \subseteq live
            /\ current' \in Task \cup {NoTask}
            /\ current' # NoTask => current'.id \in live' \ Ids(queue')
            /\ cancellable' \in BOOLEAN /\ (cancellable' => current' # NoTask)
            /\ pending' \in Int /\ timer' \in BOOLEAN
        BY <2>2, <3>3, <4>1, <4>2, <4>3, RunTaskNowSettles
      <4>5. QED
        BY <4>4, <1>4 DEF TaskObjectsKept
    <3>4. CASE UNCHANGED <<queue, current, cancellable, pending, timer, live>>
      BY <3>4, <1>4, InvMeans DEF TaskObjectsKept, Inv, TypeOK
    <3>5. QED
      BY <2>1, <3>3, <3>4
  <2>4. QED
    BY <1>1, <1>2, <2>1, <2>3, KeptIsInv DEF Inv, TypeOK
<1>6. CASE RegisterNew(t)
  <2>1. NoneAlike(t, queue) /\ urgent' \subseteq Ids(queue')
    BY <1>6 DEF RegisterNew
  <2>2. t.id \notin Ids(queue) /\ Ids(queue) \cup {t.id} \subseteq live \cup {t.id}
    BY <1>4, InvMeans
  <2>3. live \cup {t.id} \subseteq 1..registered'
    BY <1>4
  <2>4. TaskObjectsKept
    <3>4. CASE RunTaskNow(t, queue, pending, live \cup {t.id})
      <4>1. /\ TaskList(queue') /\ Ids(queue') \subseteq live' /\ live' \subseteq live \cup {t.id}
            /\ current' \in Task \cup {NoTask}
            /\ current' # NoTask => current'.id \in live' \ Ids(queue')
            /\ cancellable' \in BOOLEAN /\ (cancellable' => current' # NoTask)
            /\ pending' \in Int /\ timer' \in BOOLEAN
        BY <1>3, <2>2, <3>4, InvMeans, RunTaskNowSettles
      <4>2. QED
        BY <2>3, <4>1 DEF TaskObjectsKept
    <3>5. TaskList(Append(queue, t)) /\ Ids(Append(queue, t)) = Ids(queue) \cup {t.id}
      BY <1>3, <2>1, <2>2, InvMeans, ListWithTask
    <3>6. CASE /\ live' = live \cup {t.id} /\ current = NoTask
               /\ RestartTimer(Append(queue, t), pending, timer)
      <4>1. Settled(Append(queue, t))
        BY <3>5, <3>6, InvMeans, RestartTimerSettles
      <4>2. QED
        BY <2>2, <2>3, <3>5, <3>6, <4>1, InvMeans DEF Settled, TaskObjectsKept
    <3>7. CASE /\ live' = live \cup {t.id} /\ queue' = Append(queue, t)
               /\ pending' \in Int /\ UNCHANGED <<current, cancellable, timer>>
      <4>1. current' # NoTask => current'.id \in live' \ Ids(queue')
        BY <1>4, <3>5, <3>7, InvMeans
      <4>2. QED
        BY <2>2, <2>3, <3>5, <3>7, <4>1, InvMeans DEF TaskObjectsKept, Inv, TypeOK
    <3>8. QED
      BY <1>6, <3>4, <3>6, <3>7, InvMeans DEF RegisterNew
  <2>5. QED
    BY <1>1, <1>2, <2>1, <2>4, KeptIsInv DEF Inv, TypeOK
<1>7. QED
  BY <1>1, <1>5, <1>6

(* So does the timer ... *)
LEMMA TimerFiresKeeps ==
  ASSUME Inv, TimerFires
  PROVE  Inv'
<1>1. Settled(queue)
  BY InvMeans, SlotRunNextJobSettles DEF TimerFires
<1>2. TaskObjectsKept
  BY <1>1, InvMeans, SettledIsKept DEF TimerFires
<1>3. QED
  BY <1>2, KeptIsInv DEF TimerFires, Inv, TypeOK

(* ... a job's end ... *)
LEMMA SlotJobFinishedKeeps ==
  ASSUME Inv, SlotJobFinished
  PROVE  Inv'
<1>1. Settled(queue)
  BY InvMeans, ContinueWithSettles DEF SlotJobFinished
<1>2. TaskObjectsKept
  BY <1>1, InvMeans, SettledIsKept DEF SlotJobFinished
<1>3. QED
  BY <1>2, KeptIsInv DEF SlotJobFinished, Inv, TypeOK

(* ... pause() ... *)
LEMMA PauseKeeps ==
  ASSUME Inv, Pause
  PROVE  Inv'
<1>1. TaskObjectsKept
  <2>1. CASE current # NoTask /\ InterruptCurrentTask
    <3>1. current \in Task /\ current.id \in live \ Ids(queue)
      BY <2>1, InvMeans
    <3>2. CASE /\ NoneAlike(current, queue)
               /\ LET q == Append(queue, current)
                      p == IF current.imm THEN 1 ELSE 0
                  IN  \/ p > 0 /\ SlotRunNextJob(q, p, FALSE)
                      \/ p = 0 /\ StayIdle /\ queue' = q /\ pending' = p /\ timer' = FALSE
               /\ live' = live
      <4>1. /\ TaskList(Append(queue, current))
            /\ Ids(Append(queue, current)) = Ids(queue) \cup {current.id}
        BY <3>1, <3>2, InvMeans, ListWithTask
      <4>2. Settled(Append(queue, current))
        <5>1. 0 \in Int /\ 1 \in Int /\ ~(0 > 0) /\ 1 # 0
          OBVIOUS
        <5>2. CASE SlotRunNextJob(Append(queue, current), 1, FALSE)
          BY <4>1, <5>1, <5>2, SlotRunNextJobSettles, Zenon
        <5>3. CASE StayIdle /\ queue' = Append(queue, current) /\ pending' = 0 /\ timer' = FALSE
          BY <4>1, <5>1, <5>3, Zenon DEF Settled, StayIdle
        <5>4. \/ SlotRunNextJob(Append(queue, current), 1, FALSE)
              \/ StayIdle /\ queue' = Append(queue, current) /\ pending' = 0 /\ timer' = FALSE
          BY <3>2, <5>1
        <5>5. QED
          BY <5>2, <5>3, <5>4
      <4>3. QED
        BY <3>1, <3>2, <4>1, <4>2, InvMeans DEF Settled, TaskObjectsKept, Pause
    <3>3. CASE /\ StayIdle /\ queue' = queue /\ pending' = 0 /\ timer' = FALSE
               /\ live' = live \ {current.id}
      <4>1. pending' \in Int /\ live' \subseteq 1..registered' /\ Ids(queue') \subseteq live'
        BY <3>1, <3>3, InvMeans DEF Pause
      <4>2. QED
        BY <3>3, <4>1, InvMeans, Zenon DEF StayIdle, TaskObjectsKept
    <3>4. QED
      BY <2>1, <3>2, <3>3 DEF InterruptCurrentTask
  <2>2. CASE pending' = 0 /\ timer' = FALSE /\ UNCHANGED <<queue, current, cancellable, live>>
    <3>1. pending' \in Int /\ live' \subseteq 1..registered'
      BY <2>2, InvMeans DEF Pause
    <3>2. timer' \in BOOLEAN /\ cancellable' \in BOOLEAN /\ (cancellable' => current' # NoTask)
      BY <2>2, Zenon DEF Inv, TypeOK
    <3>3. QED
      BY <2>2, <3>1, <3>2, InvMeans DEF TaskObjectsKept
  <2>3. QED
    BY <2>1, <2>2 DEF Pause
<1>2. pauses' \in 0..MaxPauses
  BY BoundsAssumption DEF Pause, Inv, TypeOK
<1>3. QED
  BY <1>1, <1>2, KeptIsInv DEF Pause, Inv, TypeOK

(* ... and resume(). *)
LEMMA ResumeKeeps ==
  ASSUME Inv, Resume
  PROVE  Inv'
<1>1. TaskObjectsKept
  <2>1. CASE RestartTimer(queue, pending, timer)
    <3>1. Settled(queue)
      BY <2>1, InvMeans, RestartTimerSettles
    <3>2. QED
      BY <3>1, InvMeans, SettledIsKept DEF Resume
  <2>2. CASE /\ timer' = (timer \/ pending <= 0)
             /\ UNCHANGED <<queue, current, cancellable, pending>>
    BY <2>2, InvMeans DEF TaskObjectsKept, Resume, Inv, TypeOK
  <2>3. QED
    BY <2>1, <2>2 DEF Resume
<1>2. QED
  BY <1>1, KeptIsInv DEF Resume, Inv, TypeOK

(* The invariant holds for every set of folders, every set of task types   *)
(* and any number of tasks and pauses.                                     *)
THEOREM InvHolds == Spec => []Inv
<1>1. Init => Inv
  <2> SUFFICES ASSUME Init PROVE Inv
    OBVIOUS
  <2>1. queue = << >> /\ DOMAIN queue = {} /\ Ids(queue) = {}
    BY DEF Init, Ids
  <2>2. /\ queue \in Seq(Task) /\ pending \in Int /\ registered \in 0..MaxTasks
        /\ live \subseteq 1..registered /\ pauses \in 0..MaxPauses
    BY BoundsAssumption DEF Init
  <2>3. TypeOK
    BY <2>1, <2>2, Zenon DEF Init, TypeOK
  <2>4. QED
    BY <2>1, <2>3 DEF Init, Inv, NoDuplicateTasks, TaskOwnership
<1>2. Inv /\ [Next]_vars => Inv'
  <2> SUFFICES ASSUME Inv, [Next]_vars PROVE Inv'
    OBVIOUS
  <2>1. CASE \E type \in TaskTypes, folder \in Folders, imm \in BOOLEAN :
               RegisterTask(type, folder, imm)
    BY <2>1, RegisterTaskKeeps
  <2>2. CASE TimerFires
    BY <2>2, TimerFiresKeeps
  <2>3. CASE JobCommits
    BY <2>3 DEF JobCommits, Inv, TypeOK, NoDuplicateTasks, TaskOwnership
  <2>4. CASE SlotJobFinished
    BY <2>4, SlotJobFinishedKeeps
  <2>5. CASE Pause
    BY <2>5, PauseKeeps
  <2>6. CASE Resume
    BY <2>6, ResumeKeeps
  <2>7. CASE UNCHANGED vars
    BY <2>7 DEF vars, Inv, TypeOK, NoDuplicateTasks, TaskOwnership
  <2>8. QED
    BY <2>1, <2>2, <2>3, <2>4, <2>5, <2>6, <2>7 DEF Next
<1>3. QED
  BY <1>1, <1>2, PTL DEF Spec

(* Type correctness. *)
THEOREM TypeCorrect == Spec => []TypeOK
<1>1. Inv => TypeOK
  BY DEF Inv
<1>2. QED
  BY <1>1, InvHolds, PTL

(* registerTask's promise that identical tasks are not scheduled twice     *)
(* survives interruptions.                                                 *)
THEOREM NeverTwoAlike == Spec => []NoDuplicateTasks
<1>1. Inv => NoDuplicateTasks
  BY DEF Inv
<1>2. QED
  BY <1>1, InvHolds, PTL

(* The scheduler never holds a pointer to a deleted task, nor two pointers *)
(* to one task.                                                            *)
THEOREM NoDanglingTask == Spec => []TaskOwnership
<1>1. Inv => TaskOwnership
  BY DEF Inv
<1>2. QED
  BY <1>1, InvHolds, PTL
-----------------------------------------------------------------------------
(***************************************************************************)
(* Proofs that the scheduler counts its immediate tasks right and that no  *)
(* task is left waiting without a timer.  The second needs the first: a    *)
(* path on which nothing could be run leaves an empty list, and the count  *)
(* must have come down to zero with it.                                    *)
(***************************************************************************)

(* The places of the immediate tasks of a list, and how many there are. *)
ImmediatePlaces(q) == {i \in DOMAIN q : q[i].imm}
Count(q) == Cardinality(ImmediatePlaces(q))

(* The counter never exceeds the number of immediate tasks on the list,    *)
(* and is that number until the first pause.                               *)
Balanced(q, p, exact) == p <= Count(q) /\ (exact => p = Count(q))

(* What every path through the scheduler leaves behind besides Settled. *)
Attended(exact) ==
  /\ Balanced(queue', pending', exact)
  /\ current' = NoTask => pending' <= 0 /\ (queue' # << >> => timer')

(* The places of a list are finitely many. *)
LEMMA PlacesFinite ==
  ASSUME NEW q \in Seq(Task)
  PROVE  /\ IsFiniteSet(ImmediatePlaces(q)) /\ Count(q) \in Nat
         /\ DOMAIN q = 1..Len(q) /\ Len(q) \in Nat
<1>1. DOMAIN q = 1..Len(q) /\ Len(q) \in Nat
  OBVIOUS
<1>2. IsFiniteSet(1..Len(q))
  BY <1>1, FS_Interval
<1>3. ImmediatePlaces(q) \subseteq 1..Len(q)
  BY <1>1 DEF ImmediatePlaces
<1>4. QED
  BY <1>1, <1>2, <1>3, FS_Subset, FS_CardinalityType DEF Count

(* An empty list holds no immediate task. *)
LEMMA CountOfNone == Count(<< >>) = 0
BY FS_EmptySet DEF Count, ImmediatePlaces

(* The whole list's immediate tasks are those of its Len(q) first places. *)
LEMMA CountIsImmediates ==
  ASSUME NEW q \in Seq(Task)
  PROVE  Count(q) = Immediates(q, Len(q))
<1>1. ImmediatePlaces(q) = {i \in 1..Len(q) : i \in DOMAIN q /\ q[i].imm}
  BY PlacesFinite DEF ImmediatePlaces
<1>2. QED
  BY <1>1 DEF Count, Immediates

(* Appending a task adds one exactly if it is immediate. *)
LEMMA CountOfAppend ==
  ASSUME NEW q \in Seq(Task), NEW t \in Task
  PROVE  Count(Append(q, t)) = IF t.imm THEN Count(q) + 1 ELSE Count(q)
<1>1. /\ DOMAIN q = 1..Len(q) /\ Len(q) \in Nat
      /\ DOMAIN Append(q, t) = 1..(Len(q) + 1)
      /\ Append(q, t)[Len(q) + 1] = t
      /\ \A i \in 1..Len(q) : Append(q, t)[i] = q[i]
  OBVIOUS
<1>2. DOMAIN Append(q, t) = DOMAIN q \cup {Len(q) + 1} /\ Len(q) + 1 \notin DOMAIN q
  BY <1>1
<1>3. CASE t.imm
  <2>1. ImmediatePlaces(Append(q, t)) = ImmediatePlaces(q) \cup {Len(q) + 1}
    BY <1>1, <1>2, <1>3 DEF ImmediatePlaces
  <2>2. Len(q) + 1 \notin ImmediatePlaces(q)
    BY <1>2 DEF ImmediatePlaces
  <2>3. QED
    BY <1>3, <2>1, <2>2, PlacesFinite, FS_AddElement DEF Count
<1>4. CASE ~t.imm
  <2>1. ImmediatePlaces(Append(q, t)) = ImmediatePlaces(q)
    BY <1>1, <1>2, <1>4 DEF ImmediatePlaces
  <2>2. QED
    BY <1>4, <2>1 DEF Count
<1>5. QED
  BY <1>3, <1>4

(* Taking the first k tasks off takes their immediate ones off the count. *)
LEMMA CountOfRest ==
  ASSUME NEW q \in Seq(Task), NEW k \in DOMAIN q
  PROVE  Count(Rest(q, k)) = Count(q) - Immediates(q, k)
<1> DEFINE head == {i \in ImmediatePlaces(q) : i <= k}
           tail == {i \in ImmediatePlaces(q) : i > k}
           shift == [i \in tail |-> i - k]
<1>1. /\ DOMAIN q = 1..Len(q) /\ Len(q) \in Nat /\ k \in 1..Len(q)
      /\ DOMAIN Rest(q, k) = 1..(Len(q) - k)
      /\ \A j \in 1..(Len(q) - k) : Rest(q, k)[j] = q[j + k]
  BY PlacesFinite DEF Rest
<1>2. head = {i \in 1..k : i \in DOMAIN q /\ q[i].imm}
  BY <1>1 DEF ImmediatePlaces
<1>3. Cardinality(head) = Immediates(q, k)
  BY <1>2 DEF Immediates
<1>4. IsFiniteSet(head) /\ IsFiniteSet(tail)
      /\ Cardinality(head) \in Nat /\ Cardinality(tail) \in Nat
  BY PlacesFinite, FS_Subset, FS_CardinalityType
<1>5. Count(q) = Cardinality(head) + Cardinality(tail)
  <2>1. head \cup tail = ImmediatePlaces(q) /\ head \cap tail = {}
    BY <1>1 DEF ImmediatePlaces
  <2> HIDE DEF head, tail
  <2>2. Cardinality(head \cup tail) = Cardinality(head) + Cardinality(tail)
    <3>1. Cardinality(head \cup tail)
            = Cardinality(head) + Cardinality(tail) - Cardinality(head \cap tail)
      BY <1>4, FS_Union
    <3>2. Cardinality(head \cap tail) = 0
      BY <2>1, FS_EmptySet
    <3>3. QED
      BY <1>4, <3>1, <3>2
  <2>3. QED
    BY <2>1, <2>2 DEF Count
<1>6. Cardinality(ImmediatePlaces(Rest(q, k))) = Cardinality(tail)
  <2>1. shift \in [tail -> ImmediatePlaces(Rest(q, k))]
    <3>1. ASSUME NEW i \in tail PROVE i - k \in ImmediatePlaces(Rest(q, k))
      <4>1. i \in 1..Len(q) /\ i > k /\ q[i].imm
        BY <1>1 DEF ImmediatePlaces
      <4>2. i - k \in 1..(Len(q) - k) /\ (i - k) + k = i
        BY <1>1, <4>1
      <4>3. QED
        BY <1>1, <4>1, <4>2 DEF ImmediatePlaces
    <3> HIDE DEF tail
    <3>2. QED
      BY <3>1
  <2>2. \A i, j \in tail : shift[i] = shift[j] => i = j
    BY <1>1 DEF ImmediatePlaces
  <2>3. \A j \in ImmediatePlaces(Rest(q, k)) : j + k \in tail /\ shift[j + k] = j
    BY <1>1 DEF ImmediatePlaces
  <2>4. \A j \in ImmediatePlaces(Rest(q, k)) : \E i \in tail : shift[i] = j
    BY <2>3
  <2> HIDE DEF shift, tail
  <2>5. shift \in Bijection(tail, ImmediatePlaces(Rest(q, k)))
    BY <2>1, <2>2, <2>4 DEF Bijection, Injection, IsInjective, Surjection
  <2>6. QED
    BY <1>4, <2>5, FS_Bijection DEF ExistsBijection
<1>7. QED
  BY <1>3, <1>4, <1>5, <1>6 DEF Count

(* Taking out one task takes it off the count if it is immediate. *)
LEMMA CountOfRemove ==
  ASSUME NEW q \in Seq(Task), NEW k \in DOMAIN q
  PROVE  Count(RemoveTask(q, k)) = Countdown(q[k], Count(q))
<1> DEFINE others == ImmediatePlaces(q) \ {k}
           back(i) == IF i < k THEN i ELSE i - 1
           shift == [i \in others |-> back(i)]
<1>1. /\ DOMAIN q = 1..Len(q) /\ Len(q) \in Nat /\ k \in 1..Len(q)
      /\ DOMAIN RemoveTask(q, k) = 1..(Len(q) - 1)
      /\ \A j \in 1..(Len(q) - 1) :
           RemoveTask(q, k)[j] = IF j < k THEN q[j] ELSE q[j + 1]
  BY PlacesFinite DEF RemoveTask
<1>2. /\ IsFiniteSet(others)
      /\ Cardinality(others) = Countdown(q[k], Count(q))
  BY PlacesFinite, FS_RemoveElement DEF Countdown, Count, ImmediatePlaces
<1>3. Cardinality(ImmediatePlaces(RemoveTask(q, k))) = Cardinality(others)
  <2>1. shift \in [others -> ImmediatePlaces(RemoveTask(q, k))]
    BY <1>1 DEF ImmediatePlaces
  <2>2. \A i, j \in others : shift[i] = shift[j] => i = j
    BY <1>1 DEF ImmediatePlaces
  <2>3. \A j \in ImmediatePlaces(RemoveTask(q, k)) : \E i \in others : shift[i] = j
    <3>1. TAKE j \in ImmediatePlaces(RemoveTask(q, k))
    <3>2. CASE j < k
      <4>1. j \in others /\ shift[j] = j
        BY <1>1, <3>2 DEF ImmediatePlaces
      <4>2. QED
        BY <4>1
    <3>3. CASE ~(j < k)
      <4>1. j + 1 \in others /\ shift[j + 1] = j
        BY <1>1, <3>3 DEF ImmediatePlaces
      <4>2. QED
        BY <4>1
    <3>4. QED
      BY <3>2, <3>3
  <2> HIDE DEF shift, others
  <2>4. shift \in Bijection(others, ImmediatePlaces(RemoveTask(q, k)))
    BY <2>1, <2>2, <2>3 DEF Bijection, Injection, IsInjective, Surjection
  <2>5. QED
    BY <1>2, <2>4, FS_Bijection DEF ExistsBijection
<1>4. QED
  BY <1>2, <1>3 DEF Count
-----------------------------------------------------------------------------
(* Whichever task slotRunNextJob starts, and when it starts none, the      *)
(* counter follows the list.                                               *)
LEMMA SlotRunNextJobAttends ==
  ASSUME NEW q, TaskList(q), NEW p \in Int, NEW tm \in BOOLEAN,
         NEW exact \in BOOLEAN, Balanced(q, p, exact),
         SlotRunNextJob(q, p, tm)
  PROVE  Attended(exact)
<1> q \in Seq(Task)
  BY DEF TaskList
<1>1. CASE \E k \in DOMAIN q :
              /\ StartJob(q[k])
              /\ queue'   = Rest(q, k)
              /\ pending' = p - Immediates(q, k)
  <2>1. PICK k \in DOMAIN q : /\ StartJob(q[k]) /\ queue' = Rest(q, k)
                              /\ pending' = p - Immediates(q, k)
    BY <1>1
  <2>2. q[k] \in Task /\ k \in Nat
    OBVIOUS
  <2>3. current' # NoTask
    BY <2>1, <2>2, NoTaskAssumption DEF StartJob
  <2>4. Count(queue') = Count(q) - Immediates(q, k)
    BY <2>1, CountOfRest
  <2>5. Immediates(q, k) \in Nat /\ Count(q) \in Nat
    BY <2>2, ImmediatesType, PlacesFinite
  <2>6. Balanced(queue', pending', exact)
    BY <2>1, <2>4, <2>5 DEF Balanced
  <2>7. QED
    BY <2>3, <2>6 DEF Attended
<1>2. CASE StayIdle /\ queue' = << >> /\ pending' = p - Immediates(q, Len(q))
  <2>1. Count(q) \in Nat /\ pending' = p - Count(q)
    BY <1>2, PlacesFinite, CountIsImmediates
  <2>2. pending' <= 0 /\ (exact => pending' = 0)
    BY <2>1 DEF Balanced
  <2>3. QED
    BY <1>2, <2>2, CountOfNone DEF Attended, Balanced
<1>3. QED
  BY <1>1, <1>2 DEF SlotRunNextJob

(* restartTimer either starts the timer or finds nothing left to time. *)
LEMMA RestartTimerAttends ==
  ASSUME NEW q, TaskList(q), NEW p \in Int, NEW tm \in BOOLEAN,
         NEW exact \in BOOLEAN, Balanced(q, p, exact),
         RestartTimer(q, p, tm)
  PROVE  Attended(exact)
<1>1. CASE SlotRunNextJob(q, p, tm)
  BY <1>1, SlotRunNextJobAttends
<1>2. CASE p <= 0 /\ queue' = q /\ pending' = p /\ timer' = TRUE
  BY <1>2 DEF Attended
<1>3. QED
  BY <1>1, <1>2 DEF RestartTimer

(* So does what slotJobFinished does last: without tasks there is nothing  *)
(* to time, and a counter that is at most the count is not positive.       *)
LEMMA ContinueWithAttends ==
  ASSUME NEW q, TaskList(q), NEW p \in Int, NEW tm \in BOOLEAN,
         NEW exact \in BOOLEAN, Balanced(q, p, exact),
         ContinueWith(q, p, tm)
  PROVE  Attended(exact)
<1>1. CASE RestartTimer(q, p, tm)
  BY <1>1, RestartTimerAttends
<1>2. CASE q = << >> /\ queue' = q /\ pending' = p
  <2>1. pending' <= 0
    BY <1>2, CountOfNone DEF Balanced
  <2>2. QED
    BY <1>2, <2>1 DEF Attended
<1>3. QED
  BY <1>1, <1>2 DEF ContinueWith

(* runTaskNow starts its task or goes on as slotJobFinished does. *)
LEMMA RunTaskNowAttends ==
  ASSUME NEW q, TaskList(q), NEW p \in Int, NEW t \in Task, NEW lv,
         NEW exact \in BOOLEAN, Balanced(q, p, exact),
         RunTaskNow(t, q, p, lv)
  PROVE  Attended(exact)
<1>1. CASE StartJob(t) /\ queue' = q /\ pending' = p
  BY <1>1, NoTaskAssumption DEF StartJob, Attended
<1>2. CASE ContinueWith(q, p, FALSE)
  BY <1>2, ContinueWithAttends
<1>3. QED
  BY <1>1, <1>2 DEF RunTaskNow
-----------------------------------------------------------------------------
(* The inductive invariant.  That the counter is exact before a pause would *)
(* not do: after one it is only known not to exceed the count, and that is *)
(* what makes an emptied list leave it at zero or below.                   *)
WakeInv == Inv /\ Balanced(queue, pending, pauses = 0) /\ NoLostWakeup

(* A step that attends to the list keeps the counter and the timer right,  *)
(* if it neither pauses nor resumes.                                       *)
LEMMA AttendedIsAwake ==
  ASSUME Attended(pauses = 0), pauses' = pauses
  PROVE  Balanced(queue, pending, pauses = 0)' /\ NoLostWakeup'
<1>1. Balanced(queue, pending, pauses = 0)'
  BY DEF Attended, Balanced, Count, ImmediatePlaces
<1>2. NoLostWakeup'
  BY DEF Attended, NoLostWakeup
<1>3. QED
  BY <1>1, <1>2

(* registerTask attends to the list, or leaves it to the timer or to the   *)
(* running job.                                                            *)
LEMMA RegisterTaskAttends ==
  ASSUME WakeInv, NEW type \in TaskTypes, NEW folder \in Folders, NEW imm \in BOOLEAN,
         RegisterTask(type, folder, imm)
  PROVE  Balanced(queue, pending, pauses = 0)' /\ NoLostWakeup'
<1> DEFINE t == [id |-> registered + 1, type |-> type, folder |-> folder, imm |-> imm]
<1>1. /\ RegisterDuplicate(t) \/ RegisterNew(t)
      /\ registered < MaxTasks /\ pauses' = pauses /\ paused' = paused
  BY DEF RegisterTask
<1>2. /\ Inv /\ Balanced(queue, pending, pauses = 0) /\ NoLostWakeup
      /\ TaskList(queue) /\ queue \in Seq(Task) /\ pending \in Int /\ timer \in BOOLEAN
      /\ Count(queue) \in Nat
  BY InvMeans, PlacesFinite DEF WakeInv, TaskList
<1>3. t \in Task /\ t.id = registered + 1 /\ t.id \notin Ids(queue)
  <2>1. registered \in Nat /\ Ids(queue) \subseteq 1..registered
    BY <1>2, InvMeans
  <2>2. QED
    BY <1>1, <2>1, BoundsAssumption DEF Task
<1> HIDE DEF t
<1>4. CASE RegisterDuplicate(t)
  <2>1. PICK i \in DOMAIN queue :
          \/ RunTaskNow(queue[i], RemoveTask(queue, i),
                        Countdown(queue[i], pending), live)
          \/ UNCHANGED <<queue, current, cancellable, pending, timer, live>>
    BY <1>4 DEF RegisterDuplicate
  <2>2. CASE RunTaskNow(queue[i], RemoveTask(queue, i), Countdown(queue[i], pending), live)
    <3>1. TaskList(RemoveTask(queue, i)) /\ queue[i] \in Task
      BY <1>2, ListWithoutTask
    <3>2. /\ Countdown(queue[i], pending) \in Int
          /\ Balanced(RemoveTask(queue, i), Countdown(queue[i], pending), pauses = 0)
      BY <1>2, CountOfRemove DEF Balanced, Countdown
    <3>3. (pauses = 0) \in BOOLEAN
      OBVIOUS
    <3>4. Attended(pauses = 0)
      BY <2>2, <3>1, <3>2, <3>3, RunTaskNowAttends
    <3>5. QED
      BY <1>1, <3>4, AttendedIsAwake
  <2>3. CASE UNCHANGED <<queue, current, cancellable, pending, timer, live>>
    BY <1>1, <1>2, <2>3 DEF Balanced, NoLostWakeup, Count, ImmediatePlaces
  <2>4. QED
    BY <2>1, <2>2, <2>3
<1>5. CASE RegisterNew(t)
  <2>1. TaskList(Append(queue, t))
    BY <1>2, <1>3, <1>5, ListWithTask DEF RegisterNew
  <2>2. Count(Append(queue, t)) = IF t.imm THEN Count(queue) + 1 ELSE Count(queue)
    BY <1>2, <1>3, CountOfAppend
  <2>3. (pauses = 0) \in BOOLEAN
    OBVIOUS
  <2>4. CASE RunTaskNow(t, queue, pending, live \cup {t.id})
    <3>1. Attended(pauses = 0)
      BY <1>2, <1>3, <2>3, <2>4, RunTaskNowAttends
    <3>2. QED
      BY <1>1, <3>1, AttendedIsAwake
  <2>5. CASE ~t.imm /\ RestartTimer(Append(queue, t), pending, timer)
    <3>1. Balanced(Append(queue, t), pending, pauses = 0)
      BY <1>2, <2>2, <2>5 DEF Balanced
    <3>2. Attended(pauses = 0)
      BY <1>2, <2>1, <2>3, <2>5, <3>1, RestartTimerAttends
    <3>3. QED
      BY <1>1, <3>2, AttendedIsAwake
  <2>6. CASE /\ queue' = Append(queue, t)
             /\ pending' = IF t.imm THEN pending + 1 ELSE pending
             /\ current # NoTask \/ (~t.imm /\ timer)
             /\ UNCHANGED <<current, timer>>
    <3>1. Balanced(queue', pending', pauses = 0)
      BY <1>2, <2>2, <2>6 DEF Balanced
    <3>2. current' = NoTask => pending' <= 0 /\ timer'
      BY <1>2, <2>6 DEF NoLostWakeup
    <3>3. QED
      BY <1>1, <3>1, <3>2, AttendedIsAwake DEF Attended
  <2>7. QED
    BY <1>5, <2>4, <2>5, <2>6 DEF RegisterNew
<1>6. QED
  BY <1>1, <1>4, <1>5

(* pause() resets the counter, which an immediate task that is filed again *)
(* raises to one; it stops the timer, as NoLostWakeup allows.              *)
LEMMA PauseAttends ==
  ASSUME WakeInv, Pause
  PROVE  Balanced(queue, pending, pauses = 0)' /\ NoLostWakeup'
<1>1. /\ pauses' # 0 /\ paused'
  BY DEF Pause, WakeInv, Inv, TypeOK
<1>2. /\ Inv /\ TaskList(queue) /\ queue \in Seq(Task) /\ Count(queue) \in Nat
  BY InvMeans, PlacesFinite DEF WakeInv, TaskList
<1>3. Balanced(queue', pending', FALSE) /\ (current' = NoTask => pending' <= 0)
  <2>1. CASE current # NoTask /\ InterruptCurrentTask
    <3>1. CASE /\ NoneAlike(current, queue)
               /\ LET q == Append(queue, current)
                      p == IF current.imm THEN 1 ELSE 0
                  IN  \/ p > 0 /\ SlotRunNextJob(q, p, FALSE)
                      \/ p = 0 /\ StayIdle /\ queue' = q /\ pending' = p /\ timer' = FALSE
      <4> DEFINE q == Append(queue, current)
      <4>1. current \in Task /\ current.id \notin Ids(queue)
        BY <1>2, <2>1, InvMeans
      <4>2. TaskList(q) /\ q \in Seq(Task)
        BY <1>2, <3>1, <4>1, ListWithTask DEF TaskList
      <4>3. Count(q) = IF current.imm THEN Count(queue) + 1 ELSE Count(queue)
        BY <1>2, <4>1, CountOfAppend
      <4>4. 0 <= Count(q) /\ (current.imm => 1 <= Count(q))
        BY <1>2, <4>3
      <4> HIDE DEF q
      <4>5. \/ current.imm /\ SlotRunNextJob(q, 1, FALSE)
            \/ queue' = q /\ pending' = 0
        <5>1. ~(0 > 0) /\ 1 # 0
          OBVIOUS
        <5>2. QED
          BY <3>1, <5>1, Zenon DEF q
      <4>6. CASE current.imm /\ SlotRunNextJob(q, 1, FALSE)
        <5>1. Balanced(q, 1, FALSE) /\ 1 \in Int
          BY <4>4, <4>6 DEF Balanced
        <5>2. Attended(FALSE)
          BY <4>2, <4>6, <5>1, SlotRunNextJobAttends, Zenon
        <5>3. QED
          BY <5>2 DEF Attended
      <4>7. CASE queue' = q /\ pending' = 0
        BY <4>4, <4>7 DEF Balanced
      <4>8. QED
        BY <4>5, <4>6, <4>7
    <3>2. CASE queue' = queue /\ pending' = 0
      BY <1>2, <3>2 DEF Balanced
    <3>3. QED
      BY <2>1, <3>1, <3>2 DEF InterruptCurrentTask
  <2>2. CASE pending' = 0 /\ queue' = queue
    BY <1>2, <2>2 DEF Balanced
  <2>3. QED
    BY <2>1, <2>2 DEF Pause
<1>4. Balanced(queue, pending, pauses = 0)'
  BY <1>1, <1>3 DEF Balanced, Count, ImmediatePlaces
<1>5. QED
  BY <1>1, <1>3, <1>4 DEF NoLostWakeup

(* resume() may only start the timer; with no job it attends to the list.  *)
LEMMA ResumeAttends ==
  ASSUME WakeInv, Resume
  PROVE  Balanced(queue, pending, pauses = 0)' /\ NoLostWakeup'
<1>1. /\ Inv /\ TaskList(queue) /\ pending \in Int /\ timer \in BOOLEAN
      /\ pauses' = pauses /\ (pauses = 0) \in BOOLEAN
      /\ Balanced(queue, pending, pauses = 0)
  BY InvMeans DEF WakeInv, Resume
<1>2. CASE RestartTimer(queue, pending, timer)
  <2>1. Attended(pauses = 0)
    BY <1>1, <1>2, RestartTimerAttends
  <2>2. QED
    BY <1>1, <2>1, AttendedIsAwake
<1>3. CASE current # NoTask /\ UNCHANGED <<queue, current, pending>>
  BY <1>1, <1>3 DEF Balanced, NoLostWakeup, Count, ImmediatePlaces
<1>4. QED
  BY <1>2, <1>3 DEF Resume

(* The counter and the timer are right in every reachable state.           *)
THEOREM WakeInvHolds == Spec => []WakeInv
<1>1. Init => Balanced(queue, pending, pauses = 0) /\ NoLostWakeup
  BY CountOfNone DEF Init, Balanced, NoLostWakeup
<1>2. WakeInv /\ [Next]_vars => Balanced(queue, pending, pauses = 0)' /\ NoLostWakeup'
  <2> SUFFICES ASSUME WakeInv, [Next]_vars
               PROVE  Balanced(queue, pending, pauses = 0)' /\ NoLostWakeup'
    OBVIOUS
  <2>1. /\ Inv /\ TaskList(queue) /\ pending \in Int /\ timer \in BOOLEAN
        /\ (pauses = 0) \in BOOLEAN /\ Balanced(queue, pending, pauses = 0)
    BY InvMeans DEF WakeInv
  <2>2. CASE \E type \in TaskTypes, folder \in Folders, imm \in BOOLEAN :
               RegisterTask(type, folder, imm)
    BY <2>2, RegisterTaskAttends
  <2>3. CASE TimerFires
    <3>1. Attended(pauses = 0)
      BY <2>1, <2>3, SlotRunNextJobAttends DEF TimerFires
    <3>2. QED
      BY <2>3, <3>1, AttendedIsAwake DEF TimerFires
  <2>4. CASE JobCommits
    BY <2>4 DEF JobCommits, WakeInv, Balanced, NoLostWakeup, Count, ImmediatePlaces
  <2>5. CASE SlotJobFinished
    <3>1. Attended(pauses = 0)
      BY <2>1, <2>5, ContinueWithAttends DEF SlotJobFinished
    <3>2. QED
      BY <2>5, <3>1, AttendedIsAwake DEF SlotJobFinished
  <2>6. CASE Pause
    BY <2>6, PauseAttends
  <2>7. CASE Resume
    BY <2>7, ResumeAttends
  <2>8. CASE UNCHANGED vars
    BY <2>8 DEF vars, WakeInv, Balanced, NoLostWakeup, Count, ImmediatePlaces
  <2>9. QED
    BY <2>2, <2>3, <2>4, <2>5, <2>6, <2>7, <2>8 DEF Next
<1>3. QED
  BY <1>1, <1>2, InvHolds, PTL DEF Spec, WakeInv

(* mPendingImmediateTasks is the number of immediate tasks in mTaskList    *)
(* until pause() resets it, and never more, whatever is merged, run or     *)
(* skipped.                                                                *)
THEOREM PendingCorrect == Spec => []PendingIsExact
<1>1. WakeInv => PendingIsExact
  BY DEF WakeInv, Balanced, PendingIsExact, Count, ImmediatePlaces
<1>2. QED
  BY <1>1, WakeInvHolds, PTL

(* When the scheduler falls idle it leaves no immediate task to the timer, *)
(* and no task at all without one, unless it has been paused.              *)
THEOREM WakeupsKept == Spec => []NoLostWakeup
<1>1. WakeInv => NoLostWakeup
  BY DEF WakeInv
<1>2. QED
  BY <1>1, WakeInvHolds, PTL
-----------------------------------------------------------------------------
(***************************************************************************)
(* Proof that the scheduler implements SerialRunner, and that pause()      *)
(* interrupts the running job without losing its work.                     *)
(***************************************************************************)

(* The tasks the scheduler still has, on the list or running. *)
HeldIds == Ids(queue) \cup (IF current = NoTask THEN {} ELSE {current.id})

(* What a step may do to them: it adds the task just registered, at most.  *)
(* Together with the invariant this is all the refinement rests on.        *)
OnlyNewOnes ==
  /\ registered' \in {registered, registered + 1}
  /\ HeldIds' \subseteq HeldIds \cup ((registered + 1)..registered')

(* A path that settles holds nothing but tasks it found on the list. *)
LEMMA SettledHoldsNothingNew ==
  ASSUME NEW q, Settled(q)
  PROVE  HeldIds' \subseteq Ids(q)
BY DEF Settled, HeldIds, Ids

(* runTaskNow(t) holds t and tasks of the list, nothing else.              *)
LEMMA RunTaskNowHoldsNothingNew ==
  ASSUME NEW q, TaskList(q), NEW p \in Int, NEW t \in Task, NEW lv,
         RunTaskNow(t, q, p, lv)
  PROVE  HeldIds' \subseteq Ids(q) \cup {t.id}
<1>1. CASE StartJob(t) /\ queue' = q
  BY <1>1 DEF StartJob, HeldIds, Ids
<1>2. CASE ContinueWith(q, p, FALSE)
  BY <1>2, ContinueWithSettles, SettledHoldsNothingNew
<1>3. QED
  BY <1>1, <1>2 DEF RunTaskNow

(* registerTask adds its own task, if any. *)
LEMMA RegisterTaskAddsOne ==
  ASSUME Inv, NEW type \in TaskTypes, NEW folder \in Folders, NEW imm \in BOOLEAN,
         RegisterTask(type, folder, imm)
  PROVE  OnlyNewOnes
<1> DEFINE t == [id |-> registered + 1, type |-> type, folder |-> folder, imm |-> imm]
<1>1. /\ RegisterDuplicate(t) \/ RegisterNew(t)
      /\ registered < MaxTasks /\ registered' = registered + 1
  BY DEF RegisterTask
<1>2. /\ TaskList(queue) /\ pending \in Int /\ timer \in BOOLEAN /\ registered \in Nat
      /\ Ids(queue) \subseteq 1..registered
  BY InvMeans
<1>3. t \in Task /\ t.id = registered + 1 /\ t.id \notin Ids(queue)
      /\ (registered + 1)..registered' = {t.id}
  BY <1>1, <1>2, BoundsAssumption DEF Task
<1> HIDE DEF t
<1>4. HeldIds' \subseteq HeldIds \cup {t.id}
  <2>1. CASE RegisterDuplicate(t)
    <3>1. PICK i \in DOMAIN queue :
            \/ RunTaskNow(queue[i], RemoveTask(queue, i),
                          Countdown(queue[i], pending), live)
            \/ UNCHANGED <<queue, current>>
      BY <2>1 DEF RegisterDuplicate
    <3>2. CASE RunTaskNow(queue[i], RemoveTask(queue, i), Countdown(queue[i], pending), live)
      <4>1. /\ TaskList(RemoveTask(queue, i)) /\ queue[i] \in Task
            /\ Ids(RemoveTask(queue, i)) \cup {queue[i].id} \subseteq Ids(queue)
        <5>1. queue[i] \in Task /\ queue[i].id \in Ids(queue)
          BY <1>2 DEF TaskList, Ids
        <5>2. QED
          BY <1>2, <5>1, ListWithoutTask
      <4>2. Countdown(queue[i], pending) \in Int
        BY <1>2 DEF Countdown
      <4>3. HeldIds' \subseteq Ids(RemoveTask(queue, i)) \cup {queue[i].id}
        BY <3>2, <4>1, <4>2, RunTaskNowHoldsNothingNew
      <4>4. QED
        BY <4>1, <4>3 DEF HeldIds
    <3>3. CASE UNCHANGED <<queue, current>>
      BY <3>3 DEF HeldIds, Ids
    <3>4. QED
      BY <3>1, <3>2, <3>3
  <2>2. CASE RegisterNew(t)
    <3>1. TaskList(Append(queue, t)) /\ Ids(Append(queue, t)) = Ids(queue) \cup {t.id}
      BY <1>2, <1>3, <2>2, ListWithTask DEF RegisterNew
    <3>2. CASE RunTaskNow(t, queue, pending, live \cup {t.id})
      <4>1. HeldIds' \subseteq Ids(queue) \cup {t.id}
        BY <1>2, <1>3, <3>2, RunTaskNowHoldsNothingNew
      <4>2. QED
        BY <4>1 DEF HeldIds
    <3>3. CASE RestartTimer(Append(queue, t), pending, timer)
      <4>1. HeldIds' \subseteq Ids(Append(queue, t))
        BY <1>2, <3>1, <3>3, RestartTimerSettles, SettledHoldsNothingNew
      <4>2. QED
        BY <3>1, <4>1 DEF HeldIds
    <3>4. CASE queue' = Append(queue, t) /\ UNCHANGED current
      <4>1. Ids(queue)' = Ids(Append(queue, t))
        BY <3>4 DEF Ids
      <4>2. QED
        BY <3>1, <3>4, <4>1 DEF HeldIds
    <3>5. QED
      BY <2>2, <3>2, <3>3, <3>4 DEF RegisterNew
  <2>3. QED
    BY <1>1, <2>1, <2>2
<1>5. QED
  BY <1>1, <1>3, <1>4 DEF OnlyNewOnes

(* Nothing else adds a task: pause() files the running one again, which    *)
(* it held already.                                                        *)
LEMMA PauseAddsNone ==
  ASSUME Inv, Pause
  PROVE  HeldIds' \subseteq HeldIds
<1>1. TaskList(queue)
  BY InvMeans
<1>2. CASE current # NoTask /\ InterruptCurrentTask
  <2>1. current \in Task /\ current.id \notin Ids(queue)
    BY <1>2, InvMeans
  <2>2. CASE /\ NoneAlike(current, queue)
             /\ \/ SlotRunNextJob(Append(queue, current), 1, FALSE)
                \/ StayIdle /\ queue' = Append(queue, current)
    <3>1. /\ TaskList(Append(queue, current))
          /\ Ids(Append(queue, current)) = Ids(queue) \cup {current.id}
      BY <1>1, <2>1, <2>2, ListWithTask
    <3>2. HeldIds' \subseteq Ids(Append(queue, current))
      <4>1. CASE SlotRunNextJob(Append(queue, current), 1, FALSE)
        <5>1. 1 \in Int
          OBVIOUS
        <5>2. Settled(Append(queue, current))
          BY <3>1, <4>1, <5>1, SlotRunNextJobSettles, Zenon
        <5>3. QED
          BY <5>2, SettledHoldsNothingNew
      <4>2. CASE StayIdle /\ queue' = Append(queue, current)
        BY <4>2 DEF StayIdle, HeldIds, Ids
      <4>3. QED
        BY <2>2, <4>1, <4>2
    <3>3. QED
      BY <1>2, <3>1, <3>2 DEF HeldIds
  <2>3. CASE StayIdle /\ queue' = queue
    BY <2>3 DEF StayIdle, HeldIds, Ids
  <2>4. QED
    <3>1. ~(0 > 0) /\ 1 # 0
      OBVIOUS
    <3>2. \/ /\ NoneAlike(current, queue)
             /\ \/ SlotRunNextJob(Append(queue, current), 1, FALSE)
                \/ StayIdle /\ queue' = Append(queue, current)
          \/ StayIdle /\ queue' = queue
      BY <1>2, <3>1, Zenon DEF InterruptCurrentTask
    <3>3. QED
      BY <2>2, <2>3, <3>2
<1>3. CASE UNCHANGED <<queue, current>>
  BY <1>3 DEF HeldIds, Ids
<1>4. QED
  BY <1>2, <1>3 DEF Pause

(* What any step does to the tasks the scheduler holds. *)
LEMMA StepAddsOnlyNewOnes ==
  ASSUME Inv, [Next]_vars
  PROVE  OnlyNewOnes
<1>1. CASE \E type \in TaskTypes, folder \in Folders, imm \in BOOLEAN :
             RegisterTask(type, folder, imm)
  BY <1>1, RegisterTaskAddsOne
<1>2. TaskList(queue) /\ pending \in Int /\ timer \in BOOLEAN /\ registered \in Nat
  BY InvMeans
<1>3. ASSUME registered' = registered, HeldIds' \subseteq HeldIds
      PROVE  OnlyNewOnes
  BY <1>3 DEF OnlyNewOnes
<1>4. ASSUME Settled(queue) PROVE HeldIds' \subseteq HeldIds
  BY <1>4, SettledHoldsNothingNew DEF HeldIds
<1>5. ASSUME UNCHANGED <<queue, current>> PROVE HeldIds' \subseteq HeldIds
  BY <1>5 DEF HeldIds, Ids
<1>6. CASE TimerFires
  BY <1>2, <1>3, <1>4, <1>6, SlotRunNextJobSettles DEF TimerFires
<1>7. CASE JobCommits
  BY <1>3, <1>5, <1>7 DEF JobCommits
<1>8. CASE SlotJobFinished
  BY <1>2, <1>3, <1>4, <1>8, ContinueWithSettles DEF SlotJobFinished
<1>9. CASE Pause
  BY <1>3, <1>9, PauseAddsNone DEF Pause
<1>10. CASE Resume
  BY <1>2, <1>3, <1>4, <1>5, <1>10, RestartTimerSettles DEF Resume
<1>11. CASE UNCHANGED vars
  BY <1>3, <1>5, <1>11 DEF vars
<1>12. QED
  BY <1>1, <1>6, <1>7, <1>8, <1>9, <1>10, <1>11 DEF Next

(* In every state a task is in one place: the stages are those of a        *)
(* SerialRunner, and say where the task is.                                *)
StageMeaning ==
  \A i \in 1..MaxTasks :
    /\ Stage[i] \in Runner!Stages
    /\ Stage[i] = "running" <=> current # NoTask /\ current.id = i
    /\ Stage[i] = "unborn" <=> i \notin 1..registered
    /\ Stage[i] = "gone" <=> i \in 1..registered /\ i \notin HeldIds

(* The invariant gives the stages this meaning. *)
LEMMA StageMeans == Inv => StageMeaning
<1> SUFFICES ASSUME Inv, NEW i \in 1..MaxTasks
             PROVE  /\ Stage[i] \in Runner!Stages
                    /\ Stage[i] = "running" <=> current # NoTask /\ current.id = i
                    /\ Stage[i] = "unborn" <=> i \notin 1..registered
                    /\ Stage[i] = "gone" <=> i \in 1..registered /\ i \notin HeldIds
  BY DEF StageMeaning
<1>1. /\ Ids(queue) \subseteq 1..registered /\ registered \in 0..MaxTasks
      /\ current # NoTask => current.id \in 1..registered /\ current.id \notin Ids(queue)
  BY InvMeans
<1>2. CASE i \in Ids(queue)
  <2>1. Stage[i] = "waiting"
    BY <1>1, <1>2 DEF Stage
  <2>2. QED
    BY <1>1, <1>2, <2>1 DEF Runner!Stages, HeldIds
<1>3. CASE i \notin Ids(queue) /\ current # NoTask /\ current.id = i
  <2>1. Stage[i] = "running"
    BY <1>3 DEF Stage
  <2>2. QED
    BY <1>1, <1>3, <2>1 DEF Runner!Stages, HeldIds
<1>4. CASE i \notin Ids(queue) /\ ~(current # NoTask /\ current.id = i)
  <2>1. Stage[i] = IF i > registered THEN "unborn" ELSE "gone"
    BY <1>4 DEF Stage
  <2>2. i > registered <=> i \notin 1..registered
    BY <1>1
  <2>3. i \notin HeldIds
    BY <1>4 DEF HeldIds
  <2>4. QED
    BY <1>4, <2>1, <2>2, <2>3 DEF Runner!Stages
<1>5. QED
  BY <1>2, <1>3, <1>4

(* The initial state of the scheduler is one of SerialRunner. *)
LEMMA StartsSerially == Init => Runner!Init
<1> SUFFICES ASSUME Init PROVE Stage = [i \in 1..MaxTasks |-> "unborn"]
  BY DEF Runner!Init
<1>1. Ids(queue) = {} /\ current = NoTask /\ registered = 0
  BY DEF Init, Ids
<1>2. \A i \in 1..MaxTasks : i > 0
  BY BoundsAssumption
<1>3. QED
  BY <1>1, <1>2 DEF Stage

(* Every step of the scheduler is one of SerialRunner: the only one that   *)
(* is born is the task registered, the only one that runs is the current   *)
(* one, and what is gone is never held again.                              *)
LEMMA StepsSerially ==
  ASSUME Inv, Inv', [Next]_vars
  PROVE  Runner!Next
<1>1. OnlyNewOnes /\ registered \in Nat
  BY StepAddsOnlyNewOnes, InvMeans
<1>2. StageMeaning
  BY StageMeans
<1>3. StageMeaning'
  BY StageMeans, PTL
<1>4. Stage' \in [1..MaxTasks -> Runner!Stages]
  BY <1>3 DEF StageMeaning, Stage
<1>5. ASSUME NEW i \in 1..MaxTasks, Stage'[i] # Stage[i]
      PROVE  <<Stage[i], Stage'[i]>> \in Runner!Moves
  <2>1. Stage'[i] # "unborn"
    <3>1. 1..registered \subseteq 1..registered'
      BY <1>1 DEF OnlyNewOnes
    <3>2. QED
      BY <1>2, <1>3, <1>5, <3>1 DEF StageMeaning
  <2>2. Stage[i] # "gone"
    <3>1. HeldIds' \cap 1..registered \subseteq HeldIds /\ 1..registered \subseteq 1..registered'
      BY <1>1 DEF OnlyNewOnes
    <3>2. QED
      BY <1>2, <1>3, <1>5, <3>1 DEF StageMeaning
  <2>3. QED
    BY <1>2, <1>3, <1>5, <2>1, <2>2 DEF StageMeaning, Runner!Moves, Runner!Stages
<1>6. Runner!AtMostOne({t \in 1..MaxTasks : Stage'[t] = "running"})
  BY <1>3 DEF StageMeaning, Runner!AtMostOne
<1>7. Runner!AtMostOne({t \in 1..MaxTasks : Stage[t] = "unborn" /\ Stage'[t] # "unborn"})
  <2>1. \A t \in 1..MaxTasks : t \in 1..registered' /\ t \notin 1..registered => t = registered + 1
    BY <1>1 DEF OnlyNewOnes
  <2>2. QED
    BY <1>2, <1>3, <2>1 DEF StageMeaning, Runner!AtMostOne
<1>8. QED
  BY <1>4, <1>5, <1>6, <1>7 DEF Runner!Next, Runner!In
-----------------------------------------------------------------------------
(* A task has become a job only if its folder is valid, so a task that is  *)
(* filed again by pause() is not among those slotRunNextJob forgets.       *)
CurrentRunnable == current # NoTask => Runnable(current)

(* What is started is runnable, along each path. *)
LEMMA SlotRunNextJobStartsRunnable ==
  ASSUME NEW q, NEW p, NEW tm, SlotRunNextJob(q, p, tm)
  PROVE  CurrentRunnable'
BY DEF SlotRunNextJob, StartJob, StayIdle, CurrentRunnable, Runnable

(* The same for what slotJobFinished and restartTimer start ... *)
LEMMA ContinueWithStartsRunnable ==
  ASSUME NEW q, NEW p, NEW tm, ContinueWith(q, p, tm) \/ RestartTimer(q, p, tm)
  PROVE  CurrentRunnable'
<1>1. CASE SlotRunNextJob(q, p, tm)
  BY <1>1, SlotRunNextJobStartsRunnable
<1>2. CASE StayIdle
  BY <1>2 DEF StayIdle, CurrentRunnable
<1>3. QED
  BY <1>1, <1>2 DEF ContinueWith, RestartTimer

(* ... and for runTaskNow. *)
LEMMA RunTaskNowStartsRunnable ==
  ASSUME NEW t, NEW q, NEW p, NEW lv, RunTaskNow(t, q, p, lv)
  PROVE  CurrentRunnable'
<1>1. CASE Runnable(t) /\ StartJob(t)
  BY <1>1 DEF StartJob, CurrentRunnable, Runnable
<1>2. CASE ContinueWith(q, p, FALSE)
  BY <1>2, ContinueWithStartsRunnable
<1>3. QED
  BY <1>1, <1>2 DEF RunTaskNow

(* Every step keeps it: the current task is started, kept or let go. *)
LEMMA CurrentStaysRunnable ==
  ASSUME CurrentRunnable, [Next]_vars
  PROVE  CurrentRunnable'
<1>1. CASE current' = current
  BY <1>1 DEF CurrentRunnable, Runnable
<1>2. CASE current' = NoTask
  BY <1>2 DEF CurrentRunnable
<1>3. ASSUME NEW t, RegisterDuplicate(t) \/ RegisterNew(t)
      PROVE  CurrentRunnable'
  <2>1. CASE \E u, q, p, lv : RunTaskNow(u, q, p, lv)
    BY <2>1, RunTaskNowStartsRunnable
  <2>2. CASE \E q, p, tm : RestartTimer(q, p, tm)
    BY <2>2, ContinueWithStartsRunnable
  <2>3. QED
    BY <1>1, <1>3, <2>1, <2>2, Zenon DEF RegisterDuplicate, RegisterNew
<1>4. CASE \E type \in TaskTypes, folder \in Folders, imm \in BOOLEAN :
             RegisterTask(type, folder, imm)
  BY <1>3, <1>4 DEF RegisterTask
<1>5. CASE TimerFires
  BY <1>5, SlotRunNextJobStartsRunnable DEF TimerFires
<1>6. CASE SlotJobFinished
  BY <1>6, ContinueWithStartsRunnable DEF SlotJobFinished
<1>7. CASE Pause
  <2>1. CASE \E q, p : SlotRunNextJob(q, p, FALSE)
    BY <2>1, SlotRunNextJobStartsRunnable
  <2>2. CASE StayIdle
    BY <1>2, <2>2 DEF StayIdle
  <2>3. QED
    BY <1>1, <1>7, <2>1, <2>2, Zenon DEF Pause, InterruptCurrentTask
<1>8. CASE Resume
  BY <1>1, <1>8, ContinueWithStartsRunnable DEF Resume
<1>9. CASE JobCommits \/ UNCHANGED vars
  BY <1>1, <1>9 DEF JobCommits, vars
<1>10. QED
  BY <1>4, <1>5, <1>6, <1>7, <1>8, <1>9 DEF Next

(* slotRunNextJob neither forgets nor passes over a runnable task at the   *)
(* end of the list: it starts it, or starts an earlier one and keeps it.   *)
LEMMA LastRunnableStays ==
  ASSUME NEW q \in Seq(Task), NEW t \in Task, Runnable(t),
         NEW p, NEW tm, SlotRunNextJob(Append(q, t), p, tm)
  PROVE  t \in {queue'[i] : i \in DOMAIN queue'} \cup {current'}
<1> DEFINE r == Append(q, t)
           n == Len(q) + 1
<1>1. Len(q) \in Nat /\ Len(r) = n /\ DOMAIN r = 1..n /\ r[n] = t /\ n \in DOMAIN r
  OBVIOUS
<1> HIDE DEF r, n
<1>2. PICK k \in DOMAIN r : StartJob(r[k]) /\ queue' = Rest(r, k)
  BY <1>1 DEF SlotRunNextJob, r
<1>3. CASE k = n
  BY <1>1, <1>2, <1>3 DEF StartJob
<1>4. CASE k # n
  <2>1. n \in Nat /\ k \in 1..n /\ n - k \in 1..(n - k)
    BY <1>1, <1>4 DEF n
  <2>2. DOMAIN queue' = 1..(n - k) /\ queue'[n - k] = r[n - k + k]
    BY <1>1, <1>2, <2>1 DEF Rest
  <2>3. n - k + k = n
    BY <2>1
  <2>4. QED
    BY <1>1, <2>1, <2>2, <2>3
<1>5. QED
  BY <1>3, <1>4

(* The work of an interrupted job: its task, or one alike, is still there. *)
WorkKept ==
  (pauses' # pauses /\ current # NoTask)
    => \E t \in ({queue'[i] : i \in DOMAIN queue'} \cup {current'}) \ {NoTask} :
         t.id = current.id \/ Alike(t, current)

(* pause() keeps it. *)
LEMMA PauseKeepsWork ==
  ASSUME Inv, CurrentRunnable, Pause
  PROVE  WorkKept
<1> SUFFICES ASSUME current # NoTask
             PROVE  \E t \in ({queue'[i] : i \in DOMAIN queue'} \cup {current'}) \ {NoTask} :
                      t.id = current.id \/ Alike(t, current)
  BY DEF WorkKept
<1>1. /\ current \in Task /\ Runnable(current) /\ queue \in Seq(Task)
      /\ \A t \in Task : t # NoTask
  BY InvMeans, NoTaskAssumption DEF CurrentRunnable, TaskList
<1>2. CASE NoneAlike(current, queue) /\ SlotRunNextJob(Append(queue, current), 1, FALSE)
  BY <1>1, <1>2, LastRunnableStays
<1>3. CASE queue' = Append(queue, current)
  <2>1. Len(queue) + 1 \in DOMAIN queue' /\ queue'[Len(queue) + 1] = current
    BY <1>1, <1>3
  <2>2. QED
    BY <1>1, <2>1
<1>4. CASE ~NoneAlike(current, queue) /\ queue' = queue
  <2>1. PICK i \in DOMAIN queue : Alike(current, queue[i])
    BY <1>4 DEF NoneAlike
  <2>2. queue[i] \in Task /\ Alike(queue[i], current)
    BY <1>1, <2>1 DEF Alike
  <2>3. QED
    BY <1>1, <1>4, <2>2
<1>5. CASE current' = current
  BY <1>1, <1>5
<1>6. QED
  <2>1. ~(0 > 0) /\ 1 # 0
    OBVIOUS
  <2>2. CASE InterruptCurrentTask
    BY <1>2, <1>3, <1>4, <2>1, <2>2, Zenon DEF InterruptCurrentTask
  <2>3. QED
    BY <1>5, <2>2 DEF Pause

(* Nothing else pauses. *)
LEMMA StepKeepsWork ==
  ASSUME Inv, CurrentRunnable, [Next]_vars
  PROVE  WorkKept
<1>1. CASE Pause
  BY <1>1, PauseKeepsWork
<1>2. CASE pauses' = pauses
  BY <1>2 DEF WorkKept
<1>3. QED
  BY <1>1, <1>2 DEF Next, vars, RegisterTask, TimerFires, JobCommits, SlotJobFinished, Resume

(* For every set of folders, every set of task types and any number of     *)
(* tasks and pauses: the scheduler runs its tasks as a SerialRunner would, *)
(* and pause() interrupts the running job without losing its work.         *)
THEOREM SchedulerRunsSerially == Spec => RunsSerially
<1>1. Spec => []CurrentRunnable
  <2>1. Init => CurrentRunnable
    BY DEF Init, CurrentRunnable
  <2>2. QED
    BY <2>1, CurrentStaysRunnable, PTL DEF Spec
<1>2. Spec => Runner!Spec
  <2>1. Inv /\ Inv' /\ [Next]_vars => [Runner!Next]_Stage
    BY StepsSerially
  <2>2. QED
    BY <2>1, StartsSerially, InvHolds, PTL DEF Spec, Runner!Spec
<1>3. Spec => InterruptKeepsWork
  <2>1. Inv /\ CurrentRunnable /\ [Next]_vars
        => [(pauses' # pauses /\ current # NoTask)
            => \E t \in ({queue'[i] : i \in DOMAIN queue'} \cup {current'}) \ {NoTask} :
                 t.id = current.id \/ Alike(t, current)]_vars
    BY StepKeepsWork DEF WorkKept
  <2>2. QED
    BY <1>1, <2>1, InvHolds, PTL DEF Spec, InterruptKeepsWork
<1>4. QED
  BY <1>2, <1>3 DEF RunsSerially

-----------------------------------------------------------------------------
(* The scheduler and the expiry jobs                                       *)

(* What ties the two components together.  The scheduler knows of the job  *)
(* only its end and mCancellable, so the invariant says what these two     *)
(* tell about the job.                                                     *)
SystemInv ==
  /\ JobMatchesTask
  /\ phase = "none" => remover = "none"
  /\ phase = "fetching" => remover = "none" /\ cancellable = TRUE
  /\ remover = "none" => unanswered = {}
  /\ remover # "none" => cancellable = FALSE

(* A new job, or none, is tied to the task that is current.                *)
LEMMA ReplacedIsTied ==
  ASSUME JobReplaced
  PROVE  SystemInv'
<1>1. CASE current' = NoTask /\ Job!JobGone
  BY <1>1 DEF Job!JobGone, Job!NoRemover, SystemInv, JobMatchesTask
<1>2. CASE current' # NoTask /\ \E p \in Policies : Job!JobStarts(p)
  BY <1>2 DEF Job!JobStarts, Job!NoRemover, SystemInv, JobMatchesTask
<1>3. QED
  BY <1>1, <1>2 DEF JobReplaced

(* A step that touches neither the job nor the task unties nothing. *)
LEMMA UntouchedStaysTied ==
  ASSUME SystemInv, JobUntouched, UNCHANGED <<current, cancellable>>
  PROVE  SystemInv'
BY DEF SystemInv, JobMatchesTask, JobUntouched, jobOnly

(* While a job runs, registerTask and resume() let it run. *)
LEMMA BusyIsLeftAlone ==
  ASSUME current # NoTask,
         \/ \E folder \in Folders, imm \in BOOLEAN : RegisterTask(1, folder, imm)
         \/ Resume
  PROVE  UNCHANGED <<current, cancellable>>
BY Zenon DEF RegisterTask, RegisterDuplicate, RegisterNew, Resume

(* The job's own steps; they end no job, and take its consent to be killed *)
(* away when the fetch has been answered, if at all.                       *)
LEMMA WorkIsTied ==
  ASSUME SystemInv, JobWorks
  PROVE  SystemInv' /\ (JobCommits \/ UNCHANGED vars)
<1>1. UNCHANGED <<queue, current, pending, timer, registered, live, urgent, paused, pauses>>
  BY DEF JobWorks
<1>2. CASE Job!FetchFails
  BY <1>1, <1>2 DEF Job!FetchFails, vars, SystemInv, JobMatchesTask
<1>3. CASE Job!FetchAnswered
  <2>1. /\ phase = "fetching" /\ remover = "none" /\ cancellable = TRUE
        /\ current # NoTask /\ unanswered = {}
    BY <1>3 DEF Job!FetchAnswered, SystemInv, JobMatchesTask
  <2>2. \/ phase' = "removing" /\ remover' = "live" /\ cancellable' = FALSE
        \/ phase' = "doomed" /\ cancellable' \in BOOLEAN /\ UNCHANGED <<unanswered, remover>>
    BY <1>3, Zenon DEF Job!FetchAnswered, Job!Remove
  <2>3. SystemInv'
    BY <1>1, <2>1, <2>2 DEF SystemInv, JobMatchesTask
  <2>4. cancellable' = FALSE \/ cancellable' = cancellable
    BY <2>1, <2>2
  <2>5. QED
    BY <1>1, <2>1, <2>3, <2>4 DEF JobCommits, vars
<1>4. CASE \/ \E b, ok : Job!DeleteAnswered(b, ok) \/ Job!MoveAnswered(b, ok)
                         \/ Job!MarkAnswered(b, ok)
  <2>1. /\ remover # "none" /\ remover' # "none" /\ cancellable' = cancellable
        /\ phase' = phase \/ phase' = "doomed"
    BY <1>4, Zenon DEF Job!DeleteAnswered, Job!MoveAnswered, Job!MarkAnswered,
       Job!FinishIfLast, Job!Finished
  <2>2. QED
    BY <1>1, <2>1 DEF vars, SystemInv, JobMatchesTask
<1>5. CASE Job!RemoverDeleted
  BY <1>1, <1>5 DEF Job!RemoverDeleted, Job!NoRemover, vars, SystemInv, JobMatchesTask
<1>6. QED
  BY <1>2, <1>3, <1>4, <1>5 DEF JobWorks, Job!ServerAnswers

(* Every step of the system keeps them tied and is one of JobScheduler.    *)
LEMMA StepIsTied ==
  ASSUME SystemInv, [SystemNext]_systemVars
  PROVE  SystemInv' /\ [Next]_vars
<1>1. CASE ExpireOldMessages
  <2>1. \E folder \in Folders, imm \in BOOLEAN : RegisterTask(1, folder, imm)
    BY <1>1 DEF ExpireOldMessages
  <2>2. SystemInv'
    BY <1>1, <2>1, ReplacedIsTied, BusyIsLeftAlone, UntouchedStaysTied DEF ExpireOldMessages
  <2>3. QED
    BY <2>1, <2>2, ExpiryTypeAssumption DEF Next
<1>2. CASE TimerRunsNext \/ JobDeleted
  BY <1>2, ReplacedIsTied DEF TimerRunsNext, JobDeleted, Next
<1>3. CASE PauseSystem
  <2>1. CASE ~(current # NoTask /\ cancellable) /\ JobUntouched
    BY <1>3, <2>1, UntouchedStaysTied DEF PauseSystem, Pause, Next
  <2>2. QED
    BY <1>3, <2>1, ReplacedIsTied DEF PauseSystem, Next
<1>4. CASE ResumeSystem
  BY <1>4, ReplacedIsTied, BusyIsLeftAlone, UntouchedStaysTied DEF ResumeSystem, Next
<1>5. CASE JobWorks
  BY <1>5, WorkIsTied DEF Next
<1>6. CASE UNCHANGED systemVars
  BY <1>6, UntouchedStaysTied DEF systemVars, vars, JobUntouched
<1>7. QED
  BY <1>1, <1>2, <1>3, <1>4, <1>5, <1>6 DEF SystemNext

(* Task and job stay tied together in every reachable state.               *)
THEOREM SystemInvHolds == SystemSpec => []SystemInv
<1>1. SystemInit => SystemInv
  BY DEF SystemInit, Init, Job!Init, SystemInv, JobMatchesTask
<1>2. QED
  BY <1>1, StepIsTied, PTL DEF SystemSpec

(* With real jobs the scheduler is a JobScheduler: what that module leaves *)
(* to chance, a job's end and its consent to be killed, is what an         *)
(* ExpireJob does; and there is a job exactly while a task is current.     *)
THEOREM SystemIsScheduler == SystemSpec => Spec /\ []JobMatchesTask
<1>1. SystemInit => Init
  BY DEF SystemInit
<1>2. SystemInv => JobMatchesTask
  BY DEF SystemInv
<1>3. QED
  BY <1>1, <1>2, StepIsTied, SystemInvHolds, PTL DEF SystemSpec, Spec

(* So the system with its expiry jobs, too, is a SerialRunner that loses   *)
(* no work to pause().                                                     *)
THEOREM SystemRunsSerially == SystemSpec => RunsSerially
BY SystemIsScheduler, SchedulerRunsSerially, PTL

(* pause() never touches a job that the server is removing mail for: it    *)
(* goes on with the same messages, batches and answers.                    *)
THEOREM PauseIsHarmless == SystemSpec => PauseLosesNothing
<1>1. SystemInv /\ [SystemNext]_systemVars
      => [(pauses' # pauses /\ unanswered # {}) => UNCHANGED jobOnly]_systemVars
  <2> SUFFICES ASSUME SystemInv, [SystemNext]_systemVars, pauses' # pauses, unanswered # {}
               PROVE  UNCHANGED jobOnly
    OBVIOUS
  <2>1. cancellable = FALSE
    BY DEF SystemInv
  <2>2. PauseSystem
    BY DEF SystemNext, ExpireOldMessages, TimerRunsNext, JobDeleted, ResumeSystem, JobWorks,
       RegisterTask, TimerFires, SlotJobFinished, Resume, systemVars, vars
  <2>3. QED
    BY <2>1, <2>2 DEF PauseSystem, JobUntouched
<1>2. QED
  BY <1>1, SystemInvHolds, PTL DEF SystemSpec, PauseLosesNothing
=============================================================================
