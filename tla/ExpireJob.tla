----------------------------- MODULE ExpireJob -----------------------------
(***************************************************************************)
(* The job that expires old mail of one folder: ExpireJob, which fetches   *)
(* and selects the messages, with the object that then removes them,       *)
(* ExpireDeleteJob or ExpireMoveJob, called the remover here.              *)
(*                                                                         *)
(* The mail server answers the batches in any order and may refuse any of  *)
(* them; the user may read and flag messages while the job runs.           *)
(***************************************************************************)
EXTENDS ExpiryDates, FiniteSets, Sequences

CONSTANTS
  Messages,          \* the messages of the folder
  Mail,              \* records [payload, seen, important, date] they may be
  Policies,          \* expiry attributes: [present, read, unread, undated, action, target]
  NoPolicy,          \* no job, hence no attribute in use
  ExcludeImportant,  \* the setting excludeImportantMailFromExpiry
  BatchSize          \* 100 in the code

(* A message as the job sees it, and an expiry attribute. *)
Letters == [payload : BOOLEAN, seen : BOOLEAN, important : BOOLEAN,
            date : Int \cup {NoDate}]
Attributes == [present : BOOLEAN, read : Int, unread : Int, undated : BOOLEAN,
               action : {"delete", "move"}, target : BOOLEAN]

ASSUME NowAssumption     == Now \in Nat
ASSUME BatchAssumption   == BatchSize \in Nat \ {0}
ASSUME SettingAssumption == ExcludeImportant \in BOOLEAN
ASSUME MailAssumption    == Mail \subseteq Letters
ASSUME PolicyAssumption  == Policies \subseteq Attributes /\ NoPolicy \notin Policies

VARIABLES
  phase,       \* of the ExpireJob object; "doomed" is between deleteLater() and the deletion
  cancellable, \* mCancellable
  policy,      \* the ExpireCollectionAttribute of the job's copy of the folder
  looked,      \* the job's copy of the messages, taken by the fetch
  selected,    \* mRemovedMsgs
  running,     \* the remover's mRunningJobs, each a batch of messages
  unanswered,  \* batches the server has not answered yet
  marking,     \* ItemModifyJobs that mark moved mail as read
  remover,     \* the ExpireDeleteJob or ExpireMoveJob object
  mail,        \* the messages on the server
  place,       \* where they are: "folder", "target" or "deleted"
  failed       \* history: the server refused something since the job started

jobVars  == <<phase, cancellable, policy, looked, selected, running,
              unanswered, marking, remover, failed>>
mailVars == <<mail, place>>
vars     == <<jobVars, mailVars>>

-----------------------------------------------------------------------------
SelectSwapped(p, m) == \* faulty: the ages are swapped
  LET maxTime == IF m.seen THEN MaxTime(p.unread) ELSE MaxTime(p.read)
  IN  /\ m.payload
      /\ ~(m.important /\ ExcludeImportant)
      /\ IF m.date = NoDate THEN p.undated ELSE m.date < maxTime

(* Is message m expired under policy p? *)
Select(p, m) ==
  LET maxTime == IF m.seen THEN MaxTime(p.read) ELSE MaxTime(p.unread)
  IN  /\ m.payload
      /\ ~(m.important /\ ExcludeImportant)
      /\ IF m.date = NoDate THEN p.undated ELSE m.date < maxTime

NothingToDo(p) == ~p.present \/ (MaxTime(p.unread) = 0 /\ MaxTime(p.read) = 0)

BatchesFullOnly(S) == \* faulty: the last, partial batch is not submitted
  {P \in SUBSET SUBSET S :
     /\ \A b \in P : Cardinality(b) = BatchSize
     /\ \A b, c \in P : b # c => b \cap c = {}
     /\ Cardinality(S \ UNION P) < BatchSize}

(* The ways to cut S into batches; all are full but at most one.  *)
Batches(S) ==
  {P \in SUBSET SUBSET S :
     /\ UNION P = S
     /\ \A b \in P : Cardinality(b) \in 1..BatchSize
     /\ \A b, c \in P : b # c => b \cap c = {}
     /\ Cardinality({b \in P : Cardinality(b) < BatchSize}) <= 1}

NoRemover ==
  running' = {} /\ unanswered' = {} /\ marking' = {} /\ remover' = "none"

JobGoneKeepingRemover == \* faulty: the remover is not a child of the job
  /\ phase' = "none" /\ cancellable' = FALSE /\ policy' = NoPolicy
  /\ looked' = << >> /\ selected' = {} /\ failed' = FALSE
  /\ UNCHANGED <<running, unanswered, marking, remover>>

(* The job object is gone, and its children with it. *)
JobGone ==
  /\ phase' = "none" /\ cancellable' = FALSE /\ policy' = NoPolicy
  /\ looked' = << >> /\ selected' = {} /\ failed' = FALSE
  /\ NoRemover

(* start(), which calls execute(): a new job looks at the attribute and    *)
(* asks for the messages, or has nothing to do.                            *)
JobStarts(p) ==
  /\ policy' = p
  /\ phase' = IF NothingToDo(p) THEN "doomed" ELSE "fetching"
  /\ cancellable' = TRUE
  /\ looked' = << >> /\ selected' = {} /\ failed' = FALSE
  /\ NoRemover

Init ==
  /\ phase = "none" /\ cancellable = FALSE /\ policy = NoPolicy
  /\ looked = << >> /\ selected = {} /\ failed = FALSE
  /\ running = {} /\ unanswered = {} /\ marking = {} /\ remover = "none"
  /\ mail \in [Messages -> Mail] /\ place = [m \in Messages |-> "folder"]

Start == phase = "none" /\ UNCHANGED mailVars /\ \E p \in Policies : JobStarts(p)

(* kill() *)
Kill == phase # "none" /\ cancellable /\ JobGone /\ UNCHANGED mailVars

(* itemFetchResult() with an error *)
FetchFails ==
  /\ phase = "fetching"
  /\ phase' = "doomed" /\ failed' = TRUE
  /\ UNCHANGED <<cancellable, policy, looked, selected, running, unanswered,
                 marking, remover, mailVars>>

RemoveStillCancellable(S) == \* faulty: the job may be killed while it removes
  /\ phase' = "removing" /\ remover' = "live" /\ cancellable' = TRUE
  /\ \E P \in Batches(S) : running' = P /\ unanswered' = P

(* done(): hand the selected messages S over to a remover. *)
Remove(S) ==
  /\ phase' = "removing" /\ remover' = "live" /\ cancellable' = FALSE
  /\ \E P \in Batches(S) : running' = P /\ unanswered' = P

(* itemFetchResult() without one, and done() *)
FetchAnswered ==
  LET here == {m \in Messages : place[m] = "folder"}
      S    == {m \in here : Select(policy, mail[m])}
  IN  /\ phase = "fetching"
      /\ looked' = mail /\ selected' = S
      /\ \/ S # {} /\ (policy.action = "delete" \/ policy.target) /\ Remove(S)
         \/ /\ ~(S # {} /\ (policy.action = "delete" \/ policy.target))
            /\ phase' = "doomed"
            /\ cancellable' = (S = {})
            /\ UNCHANGED <<running, unanswered, remover>>
      /\ UNCHANGED <<policy, marking, failed, mailVars>>

(* The remover is finished(): it emits expireDeleteDone or expireMovedDone *)
(* and both it and the job are deleted later.                              *)
Finished == remover' = "doomed" /\ phase' = "doomed"

NeverFinish(left) == \* faulty: nobody is told
  running' = left /\ UNCHANGED <<remover, phase>>

(* slotExpireDone(), which leaves these batches in mRunningJobs. *)
FinishIfLast(left) ==
  /\ running' = left
  /\ \/ left = {} /\ Finished
     \/ left # {} /\ UNCHANGED <<remover, phase>>

Relocate(b, where) == place' = [m \in Messages |-> IF m \in b THEN where ELSE place[m]]

(* ExpireDeleteJob: the answer for batch b; an error is only reported. *)
DeleteAnswered(b, ok) ==
  /\ remover # "none" /\ policy.action = "delete" /\ b \in unanswered
  /\ unanswered' = unanswered \ {b}
  /\ failed' = (failed \/ ~ok)
  /\ \/ ok /\ Relocate(b, "deleted")
     \/ ~ok /\ UNCHANGED place
  /\ FinishIfLast(running \ {b})
  /\ UNCHANGED <<cancellable, policy, looked, selected, marking, mail>>

(* ExpireMoveJob::slotMoveDone for batch b.  An error deletes the remover, *)
(* and only the remover; unread mail is marked read by another job.        *)
MoveAnswered(b, ok) ==
  /\ remover # "none" /\ policy.action = "move" /\ b \in unanswered
  /\ unanswered' = unanswered \ {b}
  /\ failed' = (failed \/ ~ok)
  /\ \/ /\ ~ok
        /\ remover' = "doomed"
        /\ UNCHANGED <<running, marking, phase, place>>
     \/ /\ ok /\ \E m \in b : ~looked[m].seen
        /\ Relocate(b, "target")
        /\ marking' = marking \cup {{m \in b : ~looked[m].seen}}
        /\ UNCHANGED <<running, remover, phase>>
     \/ /\ ok /\ \A m \in b : looked[m].seen
        /\ Relocate(b, "target")
        /\ FinishIfLast(running \ {b})
        /\ UNCHANGED marking
  /\ UNCHANGED <<cancellable, policy, looked, selected, mail>>

(* ... and slotExpireDone for the ItemModifyJob of b, which mRunningJobs   *)
(* does not contain, so nothing is taken out of it.                        *)
MarkAnswered(b, ok) ==
  /\ remover # "none" /\ b \in marking
  /\ marking' = marking \ {b}
  /\ failed' = (failed \/ ~ok)
  /\ mail' = IF ok THEN [m \in Messages |-> IF m \in b THEN [mail[m] EXCEPT !.seen = TRUE] ELSE mail[m]]
                   ELSE mail
  /\ FinishIfLast(running)
  /\ UNCHANGED <<cancellable, policy, looked, selected, unanswered, place>>

ServerAnswers ==
  \/ FetchAnswered
  \/ \E b \in unanswered, ok \in BOOLEAN : DeleteAnswered(b, ok) \/ MoveAnswered(b, ok)
  \/ \E b \in marking, ok \in BOOLEAN : MarkAnswered(b, ok)

(* The event loop deletes the remover, and the jobs it still has. *)
RemoverDeleted ==
  /\ remover = "doomed" /\ phase # "doomed"
  /\ NoRemover
  /\ UNCHANGED <<phase, cancellable, policy, looked, selected, failed, mailVars>>

(* The event loop deletes the job, whose destructor emits finished(). *)
JobDeleted == phase = "doomed" /\ JobGone /\ UNCHANGED mailVars

(* The user reads a message or marks it important. *)
UserTouches ==
  \E m \in Messages :
    /\ \/ ~mail[m].seen /\ mail' = [mail EXCEPT ![m].seen = TRUE]
       \/ ~mail[m].important /\ mail' = [mail EXCEPT ![m].important = TRUE]
    /\ UNCHANGED <<jobVars, place>>

Next ==
  \/ Start \/ Kill
  \/ FetchFails \/ ServerAnswers
  \/ RemoverDeleted \/ JobDeleted
  \/ UserTouches

Spec == Init /\ [][Next]_vars

-----------------------------------------------------------------------------
TypeOK ==
  /\ phase \in {"none", "fetching", "removing", "doomed"}
  /\ cancellable \in BOOLEAN
  /\ policy \in Policies \cup {NoPolicy} /\ (policy = NoPolicy <=> phase = "none")
  /\ selected \subseteq Messages
  /\ running \subseteq SUBSET selected /\ unanswered \subseteq running
  /\ marking \subseteq SUBSET selected
  /\ remover \in {"none", "live", "doomed"} /\ (phase = "none" => remover = "none")
  /\ mail \in [Messages -> Letters]
  /\ place \in [Messages -> {"folder", "target", "deleted"}]
  /\ failed \in BOOLEAN

Leaves(m) == place[m] = "folder" /\ place'[m] # "folder"

(* The number of seconds of so many days, which the form accepts, does not *)
(* fit into an int: from 24856 days on.                                    *)
Overflows(days) == days * Day >= 2^24

(* "Expire read messages after" and "Expire unread messages after".  There *)
(* are two cases in which mail is expired that nobody asked to expire: the *)
(* age overflows, or there is none, and the mail is dated before 1970.     *)
Old(days, date) ==
  \/ days > 0 /\ Now - date > days * Day
  \/ days > 0 /\ Overflows(days)
  \/ days <= 0 /\ date < 0

Due(p, m) ==
  /\ ~(ExcludeImportant /\ m.important)
  /\ m.date = NoDate => p.undated
  /\ m.date # NoDate => Old(IF m.seen THEN p.read ELSE p.unread, m.date)

(* Only mail that is due leaves the folder: what is on the server at that  *)
(* moment, in whichever batch and however late, is too old for its status, *)
(* or undated where undated mail is expired, and not protected.  The user  *)
(* is not heard while the job runs: mail he has read or marked important   *)
(* after the job looked leaves if it was due before (ExpireJob).           *)
OnlyDueMailGoes ==
  [][\A m \in Messages : Leaves(m) =>
        \/ Due(policy, mail[m])
        \/ Due(policy, looked[m]) /\ mail[m] # looked[m]]_vars

(* The scheduler may kill a cancellable job at any time, so the job is not *)
(* cancellable while the server works on a batch.                          *)
NeverKilledHalfway == (unanswered # {} \/ marking # {}) => ~cancellable

(* A job that ends although the server refused nothing has removed all the *)
(* messages it selected, if it was able to remove any.                     *)
EndMeansDone ==
  (phase = "doomed" /\ ~failed /\ (policy.action = "delete" \/ policy.target))
     => \A m \in selected : place[m] # "folder"
=============================================================================
