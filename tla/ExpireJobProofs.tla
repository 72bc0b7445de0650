-------------------------- MODULE ExpireJobProofs --------------------------
(***************************************************************************)
(* Proofs about ExpireJob for every folder, every kind of mail, every      *)
(* attribute and every size of the batches.                                *)
(***************************************************************************)
EXTENDS ExpireJob, TLAPS

(* The job is able to remove what it selects. *)
Able(p) == p.action = "delete" \/ p.target

(* How the remover, the batches and the phase of the job go together: the  *)
(* remover exists only while the job cannot be cancelled, what it works on *)
(* dies with it, it is given up early only after a refusal, and the job    *)
(* ends with no batch left.                                                *)
RemoverMatchesJob ==
  /\ phase = "fetching" => remover = "none"
  /\ remover = "none" => running = {} /\ marking = {}
  /\ remover # "none" => phase \in {"removing", "doomed"} /\ ~cancellable
  /\ remover = "doomed" /\ phase = "removing" => failed
  /\ phase = "doomed" => running = {}

(* The messages handed over are those the attribute condemns, judged by    *)
(* the job's own copy of them.                                             *)
WellChosen ==
  remover # "none" =>
    /\ looked \in [Messages -> Letters]
    /\ \A m \in selected : Select(policy, looked[m])

(* Unless something was refused, a selected message has left the folder or *)
(* is in a batch the server has not answered.                              *)
NoneForgotten ==
  (phase \in {"removing", "doomed"} /\ ~failed /\ Able(policy)) =>
    \A m \in selected : place[m] # "folder" \/ \E b \in unanswered : m \in b

(* The inductive invariant. *)
Inv == TypeOK /\ RemoverMatchesJob /\ WellChosen /\ NoneForgotten

(* However a set is cut into batches, they make up the set. *)
LEMMA BatchesOf ==
  ASSUME NEW S, NEW P \in Batches(S)
  PROVE  P \subseteq SUBSET S /\ \A m \in S : \E b \in P : m \in b
BY DEF Batches

(* A job that has just started has nothing to remove yet, ... *)
LEMMA JobStartsKeeps ==
  ASSUME Inv, NEW p \in Policies, JobStarts(p), UNCHANGED mailVars
  PROVE  Inv'
<1>1. TypeOK'
  BY PolicyAssumption DEF Inv, TypeOK, JobStarts, NoRemover, mailVars
<1>2. (RemoverMatchesJob /\ WellChosen /\ NoneForgotten)'
  BY DEF JobStarts, NoRemover, RemoverMatchesJob, WellChosen, NoneForgotten
<1>3. QED
  BY <1>1, <1>2 DEF Inv

(* ... and one that is gone has left nothing behind. *)
LEMMA JobGoneKeeps ==
  ASSUME Inv, JobGone, UNCHANGED mailVars
  PROVE  Inv'
<1>1. TypeOK'
  BY DEF Inv, TypeOK, JobGone, NoRemover, mailVars
<1>2. (RemoverMatchesJob /\ WellChosen /\ NoneForgotten)'
  BY DEF JobGone, NoRemover, RemoverMatchesJob, WellChosen, NoneForgotten
<1>3. QED
  BY <1>1, <1>2 DEF Inv

(* The answer to the fetch: the job selects, and hands over or gives up. *)
LEMMA FetchAnsweredKeeps ==
  ASSUME Inv, FetchAnswered
  PROVE  Inv'
<1> DEFINE S == {m \in Messages : place[m] = "folder" /\ Select(policy, mail[m])}
<1>1. /\ phase = "fetching" /\ remover = "none"
      /\ running = {} /\ unanswered = {} /\ marking = {}
      /\ mail \in [Messages -> Letters]
  BY DEF FetchAnswered, Inv, TypeOK, RemoverMatchesJob
<1>2. /\ looked' = mail /\ selected' = S /\ S \subseteq Messages
      /\ UNCHANGED <<policy, marking, failed, mail, place>>
      /\ \/ Remove(S)
         \/ /\ S = {} \/ ~Able(policy)
            /\ phase' = "doomed" /\ cancellable' = (S = {})
            /\ UNCHANGED <<running, unanswered, remover>>
  BY DEF FetchAnswered, mailVars, Able
<1>3. \A m \in S : Select(policy, looked'[m])
  BY <1>2
<1> HIDE DEF S
<1>4. CASE Remove(S)
  <2>1. PICK P \in Batches(S) : running' = P /\ unanswered' = P
    BY <1>4 DEF Remove
  <2>2. P \subseteq SUBSET S /\ \A m \in S : \E b \in P : m \in b
    BY BatchesOf
  <2>3. phase' = "removing" /\ remover' = "live" /\ cancellable' = FALSE
    BY <1>4 DEF Remove
  <2>4. TypeOK'
    BY <1>1, <1>2, <2>1, <2>2, <2>3 DEF Inv, TypeOK
  <2>5. RemoverMatchesJob' /\ NoneForgotten'
    BY <1>2, <2>1, <2>2, <2>3 DEF RemoverMatchesJob, NoneForgotten
  <2>6. WellChosen'
    BY <1>1, <1>2, <1>3 DEF WellChosen
  <2>7. QED
    BY <2>4, <2>5, <2>6 DEF Inv
<1>5. CASE /\ S = {} \/ ~Able(policy)
           /\ phase' = "doomed" /\ cancellable' = (S = {})
           /\ UNCHANGED <<running, unanswered, remover>>
  <2>1. TypeOK'
    BY <1>1, <1>2, <1>5 DEF Inv, TypeOK
  <2>2. (RemoverMatchesJob /\ WellChosen /\ NoneForgotten)'
    BY <1>1, <1>2, <1>5 DEF RemoverMatchesJob, WellChosen, NoneForgotten, Able
  <2>3. QED
    BY <2>1, <2>2 DEF Inv
<1>6. QED
  BY <1>2, <1>4, <1>5

(* What an answer may change, and what it may not. *)
AnswerTo(b, ok, where) ==
  /\ b \in unanswered /\ unanswered' = unanswered \ {b}
  /\ remover # "none"
  /\ failed' = (failed \/ ~ok)
  /\ place' = IF ok THEN [m \in Messages |-> IF m \in b THEN where ELSE place[m]]
                    ELSE place
  /\ UNCHANGED <<cancellable, policy, looked, selected, mail>>

(* Whichever batch is answered, the messages not yet removed are in the    *)
(* batches that are left.                                                  *)
LEMMA AnswerForgetsNone ==
  ASSUME Inv, NEW b, NEW ok \in BOOLEAN, NEW where \in {"target", "deleted"},
         AnswerTo(b, ok, where), phase' \in {"removing", "doomed"}
  PROVE  NoneForgotten'
<1> SUFFICES ASSUME ~failed', Able(policy), NEW m \in selected
             PROVE  place'[m] # "folder" \/ \E c \in unanswered' : m \in c
  BY DEF NoneForgotten, AnswerTo
<1>1. /\ ok /\ ~failed /\ m \in Messages /\ place \in [Messages -> {"folder", "target", "deleted"}]
      /\ phase \in {"removing", "doomed"}
      /\ place' = [x \in Messages |-> IF x \in b THEN where ELSE place[x]]
  BY DEF AnswerTo, Inv, TypeOK, RemoverMatchesJob
<1>2. place[m] # "folder" \/ \E c \in unanswered : m \in c
  BY <1>1 DEF Inv, NoneForgotten
<1>3. QED
  BY <1>1, <1>2 DEF AnswerTo

(* The answer of a deletion. *)
LEMMA DeleteAnsweredKeeps ==
  ASSUME Inv, NEW b, NEW ok \in BOOLEAN, DeleteAnswered(b, ok)
  PROVE  Inv'
<1>1. AnswerTo(b, ok, "deleted")
  BY DEF DeleteAnswered, AnswerTo, Relocate
<1>2. /\ running' = running \ {b} /\ unanswered' \subseteq running' /\ marking' = marking
      /\ \/ running' = {} /\ remover' = "doomed" /\ phase' = "doomed"
         \/ running' # {} /\ UNCHANGED <<remover, phase>>
      /\ phase \in {"removing", "doomed"} /\ ~cancellable /\ remover # "none"
  BY DEF DeleteAnswered, FinishIfLast, Finished, Inv, TypeOK, RemoverMatchesJob
<1>3. place' \in [Messages -> {"folder", "target", "deleted"}] /\ failed' \in BOOLEAN
  BY <1>1 DEF AnswerTo, Inv, TypeOK
<1>4. TypeOK'
  BY <1>1, <1>2, <1>3 DEF AnswerTo, Inv, TypeOK
<1>5. RemoverMatchesJob'
  BY <1>1, <1>2 DEF AnswerTo, Inv, RemoverMatchesJob
<1>6. WellChosen'
  BY <1>1, <1>2 DEF AnswerTo, Inv, WellChosen, Select
<1>7. NoneForgotten'
  BY <1>1, <1>2, AnswerForgetsNone
<1>8. QED
  BY <1>4, <1>5, <1>6, <1>7 DEF Inv

(* The answer of a move, which may begin another job, for unread mail, and *)
(* which on an error gives up the remover alone.                           *)
LEMMA MoveAnsweredKeeps ==
  ASSUME Inv, NEW b, NEW ok \in BOOLEAN, MoveAnswered(b, ok)
  PROVE  Inv'
<1> DEFINE unread == {m \in b : ~looked[m].seen}
<1>1. AnswerTo(b, ok, "target")
  BY DEF MoveAnswered, AnswerTo, Relocate
<1>2. /\ phase \in {"removing", "doomed"} /\ ~cancellable /\ remover # "none"
      /\ b \in running /\ b \subseteq selected /\ unread \subseteq selected
  BY <1>1 DEF AnswerTo, Inv, TypeOK, RemoverMatchesJob
<1>3. /\ \/ ~ok /\ remover' = "doomed" /\ UNCHANGED <<running, phase>>
         \/ ok /\ UNCHANGED <<running, remover, phase>>
         \/ running' = running \ {b} /\ running' = {} /\ remover' = "doomed" /\ phase' = "doomed"
         \/ running' = running \ {b} /\ running' # {} /\ UNCHANGED <<remover, phase>>
      /\ marking' \in {marking, marking \cup {unread}}
  BY DEF MoveAnswered, FinishIfLast, Finished
<1> HIDE DEF unread
<1>4. phase' \in {"removing", "doomed"} /\ remover' \in {"live", "doomed"}
  BY <1>2, <1>3 DEF Inv, TypeOK
<1>5. place' \in [Messages -> {"folder", "target", "deleted"}] /\ failed' \in BOOLEAN
  BY <1>1 DEF AnswerTo, Inv, TypeOK
<1>6. TypeOK'
  <2>1. /\ running' \subseteq SUBSET selected' /\ unanswered' \subseteq running'
        /\ marking' \subseteq SUBSET selected'
    BY <1>1, <1>2, <1>3 DEF AnswerTo, Inv, TypeOK
  <2>2. QED
    BY <1>1, <1>2, <1>4, <1>5, <2>1 DEF AnswerTo, Inv, TypeOK
<1>7. RemoverMatchesJob'
  BY <1>1, <1>2, <1>3, <1>4 DEF AnswerTo, Inv, RemoverMatchesJob
<1>8. WellChosen'
  BY <1>1, <1>2 DEF AnswerTo, Inv, WellChosen, Select
<1>9. NoneForgotten'
  BY <1>1, <1>4, AnswerForgetsNone
<1>10. QED
  BY <1>6, <1>7, <1>8, <1>9 DEF Inv

(* A flag may be set on any message. *)
LEMMA FlaggedIsLetter ==
  ASSUME NEW l \in Letters
  PROVE  [l EXCEPT !.seen = TRUE] \in Letters /\ [l EXCEPT !.important = TRUE] \in Letters
BY DEF Letters

(* The answer of a marking moves nothing, and may end the job. *)
LEMMA MarkAnsweredKeeps ==
  ASSUME Inv, NEW b \in marking, NEW ok \in BOOLEAN, MarkAnswered(b, ok)
  PROVE  Inv'
<1>1. /\ marking' \subseteq marking /\ failed' = (failed \/ ~ok) /\ running' = running
      /\ \/ running = {} /\ remover' = "doomed" /\ phase' = "doomed"
         \/ running # {} /\ UNCHANGED <<remover, phase>>
      /\ UNCHANGED <<cancellable, policy, looked, selected, unanswered, place>>
  BY DEF MarkAnswered, FinishIfLast, Finished
<1>2. phase \in {"removing", "doomed"} /\ ~cancellable /\ remover # "none"
  BY DEF MarkAnswered, Inv, RemoverMatchesJob
<1>3. mail' \in [Messages -> Letters]
  <2>1. \A m \in Messages : [mail[m] EXCEPT !.seen = TRUE] \in Letters
    BY FlaggedIsLetter DEF Inv, TypeOK
  <2>2. QED
    BY <2>1 DEF MarkAnswered, Inv, TypeOK
<1>4. TypeOK'
  BY <1>1, <1>2, <1>3 DEF Inv, TypeOK
<1>5. RemoverMatchesJob'
  BY <1>1, <1>2 DEF Inv, RemoverMatchesJob
<1>6. WellChosen'
  BY <1>1, <1>2 DEF Inv, WellChosen, Select
<1>7. NoneForgotten'
  BY <1>1, <1>2 DEF Inv, NoneForgotten
<1>8. QED
  BY <1>4, <1>5, <1>6, <1>7 DEF Inv

(* A failed fetch, and the end of a remover that was given up. *)
LEMMA FailureKeeps ==
  ASSUME Inv, FetchFails \/ RemoverDeleted
  PROVE  Inv'
<1>1. TypeOK'
  BY DEF FetchFails, RemoverDeleted, NoRemover, mailVars, Inv, TypeOK
<1>2. RemoverMatchesJob'
  BY DEF FetchFails, RemoverDeleted, NoRemover, Inv, TypeOK, RemoverMatchesJob
<1>3. WellChosen'
  BY DEF FetchFails, RemoverDeleted, NoRemover, Inv, RemoverMatchesJob, WellChosen
<1>4. NoneForgotten'
  BY DEF FetchFails, RemoverDeleted, NoRemover, Inv, RemoverMatchesJob, NoneForgotten
<1>5. QED
  BY <1>1, <1>2, <1>3, <1>4 DEF Inv

(* What the user does meanwhile. *)
LEMMA UserTouchesKeeps ==
  ASSUME Inv, UserTouches
  PROVE  Inv'
<1>1. mail' \in [Messages -> Letters] /\ UNCHANGED <<jobVars, place>>
  <2>1. PICK m \in Messages :
          /\ \/ mail' = [mail EXCEPT ![m].seen = TRUE]
             \/ mail' = [mail EXCEPT ![m].important = TRUE]
          /\ UNCHANGED <<jobVars, place>>
    BY DEF UserTouches
  <2>2. /\ [mail[m] EXCEPT !.seen = TRUE] \in Letters
        /\ [mail[m] EXCEPT !.important = TRUE] \in Letters
    BY FlaggedIsLetter DEF Inv, TypeOK
  <2>3. QED
    BY <2>1, <2>2 DEF Inv, TypeOK
<1>2. TypeOK'
  BY <1>1 DEF jobVars, Inv, TypeOK
<1>3. (RemoverMatchesJob /\ WellChosen /\ NoneForgotten)'
  BY <1>1 DEF jobVars, Inv, RemoverMatchesJob, WellChosen, NoneForgotten, Select
<1>4. QED
  BY <1>2, <1>3 DEF Inv

(* The invariant holds for every folder, attribute and batch size.         *)
THEOREM InvHolds == Spec => []Inv
<1>1. Init => Inv
  <2> SUFFICES ASSUME Init PROVE Inv
    OBVIOUS
  <2>1. TypeOK
    BY MailAssumption, PolicyAssumption DEF Init, TypeOK
  <2>2. RemoverMatchesJob /\ WellChosen /\ NoneForgotten
    BY DEF Init, RemoverMatchesJob, WellChosen, NoneForgotten
  <2>3. QED
    BY <2>1, <2>2 DEF Inv
<1>2. Inv /\ [Next]_vars => Inv'
  <2> SUFFICES ASSUME Inv, [Next]_vars PROVE Inv'
    OBVIOUS
  <2>1. CASE Start
    BY <2>1, JobStartsKeeps DEF Start
  <2>2. CASE Kill \/ JobDeleted
    BY <2>2, JobGoneKeeps DEF Kill, JobDeleted
  <2>3. CASE FetchFails \/ RemoverDeleted
    BY <2>3, FailureKeeps
  <2>4. CASE ServerAnswers
    BY <2>4, FetchAnsweredKeeps, DeleteAnsweredKeeps, MoveAnsweredKeeps,
       MarkAnsweredKeeps DEF ServerAnswers
  <2>5. CASE UserTouches
    BY <2>5, UserTouchesKeeps
  <2>6. CASE UNCHANGED vars
    <3>1. TypeOK'
      BY <2>6 DEF vars, jobVars, mailVars, Inv, TypeOK
    <3>2. (RemoverMatchesJob /\ WellChosen /\ NoneForgotten)'
      BY <2>6 DEF vars, jobVars, mailVars, Inv, RemoverMatchesJob, WellChosen,
         NoneForgotten, Select
    <3>3. QED
      BY <3>1, <3>2 DEF Inv
  <2>7. QED
    BY <2>1, <2>2, <2>3, <2>4, <2>5, <2>6 DEF Next
<1>3. QED
  BY <1>1, <1>2, PTL DEF Spec

(* Type correctness. *)
THEOREM TypeCorrect == Spec => []TypeOK
<1>1. Inv => TypeOK
  BY DEF Inv
<1>2. QED
  BY <1>1, InvHolds, PTL

(* kill() never finds a job the server is working for.                     *)
THEOREM KillIsSafe == Spec => []NeverKilledHalfway
<1>1. Inv => NeverKilledHalfway
  BY DEF Inv, TypeOK, RemoverMatchesJob, NeverKilledHalfway
<1>2. QED
  BY <1>1, InvHolds, PTL

(* A job that could remove and was refused nothing ends only when every    *)
(* message it selected has left the folder.                                *)
THEOREM EndIsComplete == Spec => []EndMeansDone
<1>1. Inv => EndMeansDone
  <2> SUFFICES ASSUME Inv, phase = "doomed", ~failed,
                      policy.action = "delete" \/ policy.target, NEW m \in selected
               PROVE  place[m] # "folder"
    BY DEF EndMeansDone
  <2>1. unanswered = {}
    BY DEF Inv, TypeOK, RemoverMatchesJob
  <2>2. QED
    BY <2>1 DEF Inv, NoneForgotten, Able
<1>2. QED
  BY <1>1, InvHolds, PTL
-----------------------------------------------------------------------------
(* Only a message in a batch leaves the folder, so it is one the attribute *)
(* condemned when the job looked.                                          *)
LEMMA LeavingWasChosen ==
  ASSUME Inv, [Next]_vars, NEW m \in Messages, Leaves(m)
  PROVE  policy \in Policies /\ looked[m] \in Letters /\ Select(policy, looked[m])
<1>1. place' # place
  BY DEF Leaves
<1>2. PICK b \in unanswered, ok \in BOOLEAN : DeleteAnswered(b, ok) \/ MoveAnswered(b, ok)
  BY <1>1 DEF Next, Start, Kill, FetchFails, ServerAnswers, FetchAnswered, MarkAnswered,
     RemoverDeleted, JobDeleted, UserTouches, vars, mailVars
<1>3. m \in b /\ remover # "none"
  BY <1>2 DEF DeleteAnswered, MoveAnswered, Relocate, Leaves, Inv, TypeOK
<1>4. m \in selected /\ phase # "none"
  BY <1>2, <1>3 DEF Inv, TypeOK
<1>5. QED
  BY <1>3, <1>4 DEF Inv, TypeOK, WellChosen

(* As long as it does not overflow, the product is what it should be. *)
LEMMA SecondsAreExact ==
  ASSUME NEW days \in Nat, ~Overflows(days)
  PROVE  SecondsOf(days) = days * Day
<1> DEFINE low  == Day * (days % 2^12)
           high == 2^12 * ((Day * (days \div 2^12)) % 2^13)
<1>1. 2^12 = 4096 /\ 2^13 = 8192 /\ 2^24 = 16777216 /\ 2^25 = 33554432 /\ Day = 675
  BY DEF Day
<1>2. days * 675 < 16777216
  BY <1>1 DEF Overflows
<1>3. (days % 4096) + 4096 * (days \div 4096) = days
  OBVIOUS
<1>4. (675 * (days \div 4096)) % 8192 = 675 * (days \div 4096)
  BY <1>2
<1>5. low + high = days * 675
  BY <1>1, <1>3, <1>4
<1>6. days * 675 \in Nat /\ (days * 675) % 33554432 = days * 675
  BY <1>2
<1>7. QED
  BY <1>1, <1>2, <1>5, <1>6 DEF SecondsOf

(* A date before mMaxReadTime or mMaxUnreadTime is too old, or is it for   *)
(* the code.                                                               *)
LEMMA MaxTimeIsTheAge ==
  ASSUME NEW days \in Int, NEW date \in Int, date < MaxTime(days)
  PROVE  Old(days, date)
<1>1. Day = 675 /\ Now \in Nat
  BY NowAssumption DEF Day
<1>2. CASE days > 0 /\ ~Overflows(days)
  <2>1. SecondsOf(days) = days * Day
    BY <1>2, SecondsAreExact
  <2>2. QED
    BY <1>1, <1>2, <2>1 DEF MaxTime, Old
<1>3. CASE days > 0 /\ Overflows(days)
  BY <1>3 DEF Old
<1>4. CASE ~(days > 0)
  BY <1>1, <1>4 DEF MaxTime, Old
<1>5. QED
  BY <1>2, <1>3, <1>4

(* What the job selects is due, as the job sees it. *)
LEMMA SelectedIsDue ==
  ASSUME NEW p \in Policies, NEW m \in Letters, Select(p, m)
  PROVE  Due(p, m)
<1> DEFINE days == IF m.seen THEN p.read ELSE p.unread
<1>1. days \in Int
  BY PolicyAssumption DEF Attributes
<1>2. ASSUME m.date # NoDate PROVE Old(days, m.date)
  <2>1. m.date \in Int /\ m.date < MaxTime(days)
    BY <1>2 DEF Select, Letters
  <2>2. QED
    BY <1>1, <2>1, MaxTimeIsTheAge
<1>3. QED
  BY <1>2 DEF Select, Due

(* Only mail that is due leaves the folder, whatever ages there are,       *)
(* whatever the server refuses, in whatever order it answers, and whatever *)
(* the user does meanwhile (ExpireJob).                                    *)
THEOREM OnlyDueMailIsRemoved == Spec => OnlyDueMailGoes
<1>1. Inv /\ [Next]_vars
      => [\A m \in Messages : Leaves(m) =>
             \/ Due(policy, mail[m])
             \/ Due(policy, looked[m]) /\ mail[m] # looked[m]]_vars
  BY LeavingWasChosen, SelectedIsDue
<1>2. QED
  BY <1>1, InvHolds, PTL DEF Spec, OnlyDueMailGoes
=============================================================================
