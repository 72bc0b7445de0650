---------------------------- MODULE ExpirySettings ----------------------------
(***************************************************************************)
(* How a folder's expiry is set: collectionpage/collectionexpirywidget.cpp *)
(* and collectionexpirypage.cpp (the form), collectionexpiryjob.cpp (store *)
(* and expire), attributes/expirecollectionattribute.cpp (what is stored)  *)
(* and folder/foldercollectionmonitor.cpp (expire every folder).  One      *)
(* folder; its mail is the business of ExpireJob.                          *)
(***************************************************************************)
EXTENDS ExpiryDates, Sequences

CONSTANTS Ages,         \* ages in days the user may enter, 0 ("Never") among them
          Targets,      \* folders that mail can be moved to
          Self,         \* the folder itself
          None,         \* no folder, no attribute, no page, no task
          MaxEdits      \* how often the user does something to the form

VARIABLES stored,       \* the server's ExpireCollectionAttribute of the folder, or None
          page,         \* the open page, or None
          modify,       \* CollectionModifyJobs under way, in order
          task,         \* the folder's expiry task in the scheduler's list, or None
          entered,      \* history: what the form said when it was last stored, or None
          edits

vars == <<stored, page, modify, task, entered, edits>>

-----------------------------------------------------------------------------
(* The attribute *)

Attribute == [autoExpire |-> FALSE, unreadAge |-> 28, readAge |-> 14,
              unreadUnits |-> ExpireNever, readUnits |-> ExpireNever,
              action |-> "delete", toFolder |-> None, validDate |-> FALSE]

\* The setters refuse what is out of range, unequally at the upper end.
SetUnreadAge(a, age) == IF age >= 0 THEN [a EXCEPT !.unreadAge = age] ELSE a
SetReadAge(a, age) == IF age >= 0 THEN [a EXCEPT !.readAge = age] ELSE a
SetUnreadUnits(a, u) == IF u \in ExpireNever..(ExpireMaxUnits - 1) THEN [a EXCEPT !.unreadUnits = u] ELSE a
SetReadUnits(a, u) == IF u \in ExpireNever..ExpireMaxUnits THEN [a EXCEPT !.readUnits = u] ELSE a

Serialized(a) == <<a.toFolder, a.action, a.readUnits, a.readAge, a.unreadUnits, a.unreadAge,
                   a.autoExpire, a.validDate>>
Deserialize(s) == [toFolder |-> s[1], action |-> s[2], readUnits |-> s[3], readAge |-> s[4],
                   unreadUnits |-> s[5], unreadAge |-> s[6], autoExpire |-> s[7], validDate |-> s[8]]

\* What an expiry job makes of an attribute.
Meaning(a) ==
    LET days(number, units) == IF DaysToExpire(number, units) > 0 THEN DaysToExpire(number, units) ELSE 0
    IN  [read |-> days(a.readAge, a.readUnits), unread |-> days(a.unreadAge, a.unreadUnits),
         action |-> a.action, toFolder |-> IF a.action = "move" THEN a.toFolder ELSE None,
         undated |-> ~a.validDate]

-----------------------------------------------------------------------------
(* The form *)

Blank == [read |-> 0, unread |-> 0, move |-> FALSE, folder |-> None, undated |-> FALSE]

\* CollectionExpirySettings, and load() of the widget.
ConvertFromAttribute(a) ==
    [on |-> a.autoExpire, undated |-> ~a.validDate,
     read |-> DaysToExpire(a.readAge, a.readUnits), unread |-> DaysToExpire(a.unreadAge, a.unreadUnits),
     readUnits |-> a.readUnits, unreadUnits |-> a.unreadUnits, action |-> a.action, toFolder |-> a.toFolder]

IsValid(s) ==
    \/ s.read # -1 \/ s.unread # -1
    \/ s.readUnits # ExpireNever \/ s.unreadUnits # ExpireNever
    \/ s.action # "delete" \/ s.toFolder # None

Load(s) ==
    LET spin(days, units) == IF s.on /\ units # ExpireNever /\ days >= 0 THEN days ELSE 0
    IN  IF ~IsValid(s) THEN Blank
        ELSE [read |-> spin(s.read, s.readUnits), unread |-> spin(s.unread, s.unreadUnits),
              move |-> s.action # "delete",
              folder |-> IF s.toFolder \in Targets \cup {Self} THEN s.toFolder ELSE None,
              undated |-> s.undated]

On(form) == form.read # 0 \/ form.unread # 0

\* validateExpireFolder and assignFolderAttribute: what is wrong with the form.
NoFolderSelected(form) == On(form) /\ form.move /\ form.folder = None
WrongFolderSelected(form) == form.move /\ form.folder = Self
Wrong(form) == NoFolderSelected(form) \/ WrongFolderSelected(form)

AssignedKeepingUnits(form, attribute) == \* faulty: units the folder had before stay
    LET base == IF attribute = None THEN Attribute ELSE attribute
        target == IF form.move /\ form.folder \in Targets
                  THEN [base EXCEPT !.toFolder = form.folder] ELSE base
        units(age, was) == IF age = 0 THEN ExpireNever ELSE IF was = ExpireNever THEN ExpireDays ELSE was
        ages == SetUnreadAge(SetReadAge(target, form.read), form.unread)
        both == SetUnreadUnits(SetReadUnits(ages, units(form.read, base.readUnits)), units(form.unread, base.unreadUnits))
    IN  [both EXCEPT !.autoExpire = On(form), !.action = IF form.move THEN "move" ELSE "delete",
                     !.validDate = ~form.undated]

\* save(): the settings have been read from the form before it is corrected.
Assigned(form, attribute) ==
    LET base == IF attribute = None THEN Attribute ELSE attribute
        target == IF form.move /\ form.folder \in Targets
                  THEN [base EXCEPT !.toFolder = form.folder] ELSE base
        units(age) == IF age # 0 THEN ExpireDays ELSE ExpireNever
        ages == SetUnreadAge(SetReadAge(target, form.read), form.unread)
        both == SetUnreadUnits(SetReadUnits(ages, units(form.read)), units(form.unread))
    IN  [both EXCEPT !.autoExpire = On(form), !.action = IF form.move THEN "move" ELSE "delete",
                     !.validDate = ~form.undated]

Corrected(form) == IF Wrong(form) THEN [form EXCEPT !.move = FALSE] ELSE form

\* What the user means by a form (never asked of a form that is wrong).
Meant(form) ==
    [read |-> form.read, unread |-> form.unread, action |-> IF form.move THEN "move" ELSE "delete",
     toFolder |-> IF form.move THEN form.folder ELSE None, undated |-> form.undated]

-----------------------------------------------------------------------------
(* Requests to expire and to store *)

\* expireOldMessages: a task alike one that waits is dropped, and the one that
\* waits keeps the attribute it was made with.  "first" is the history of what was
\* meant by the request that made the task, "meant" by the last one.
ExpireOldMessages(attribute, meant) ==
    task' = IF task = None THEN [attribute |-> attribute, first |-> meant, meant |-> meant, merged |-> FALSE]
            ELSE [task EXCEPT !.meant = meant, !.merged = TRUE]

\* A folder whose read mail expires already.
Expiring(units, action) ==
    [autoExpire |-> TRUE, unreadAge |-> 28, readAge |-> 2, unreadUnits |-> ExpireNever, readUnits |-> units,
     action |-> action, toFolder |-> IF action = "move" THEN CHOOSE t \in Targets : TRUE ELSE None,
     validDate |-> FALSE]

Init ==
    /\ stored \in {None} \cup {Expiring(u, a) : u \in ExpireDays..ExpireMonths, a \in {"delete", "move"}}
    /\ page = None
    /\ modify = <<>>
    /\ task = None
    /\ entered = None
    /\ edits = 0

Edits == edits < MaxEdits /\ edits' = edits + 1

OpenPage ==
    /\ page = None
    /\ page' = [attribute |-> stored, changed |-> FALSE,
                form |-> IF stored = None THEN Blank ELSE Load(ConvertFromAttribute(stored))]
    /\ UNCHANGED <<stored, modify, task, entered, edits>>

\* The buttons for what to do are enabled only if there is something to do.
EditPage(form) ==
    /\ page # None
    /\ \/ \E age \in Ages : form = [page.form EXCEPT !.read = age]
       \/ \E age \in Ages : form = [page.form EXCEPT !.unread = age]
       \/ form = [page.form EXCEPT !.undated = ~@]
       \/ On(page.form) /\ form = [page.form EXCEPT !.move = ~@]
       \/ On(page.form) /\ page.form.move
             /\ \E f \in Targets \cup {Self} : form = [page.form EXCEPT !.folder = f]
    /\ page' = [page EXCEPT !.form = form, !.changed = TRUE]
    /\ Edits
    /\ UNCHANGED <<stored, modify, task, entered>>

\* "Save Settings and Expire Now": store first, expire when that is done.
SlotSaveAndExpire ==
    LET a == Assigned(page.form, page.attribute)
    IN  /\ page # None /\ On(page.form)
        /\ page' = [attribute |-> a, changed |-> FALSE, form |-> Corrected(page.form)]
        /\ modify' = Append(modify, [attribute |-> a, form |-> page.form, now |-> ~Wrong(page.form)])
        /\ Edits
        /\ UNCHANGED <<stored, task, entered>>

\* OK: expire at once, and let the dialog store the folder afterwards.
SavePage ==
    LET a == Assigned(page.form, page.attribute)
    IN  /\ page # None
        /\ page' = None
        /\ IF page.changed
           THEN /\ IF Wrong(page.form) THEN UNCHANGED task
                   ELSE ExpireOldMessages(a, Meant(page.form))
                /\ modify' = Append(modify, [attribute |-> a, form |-> page.form, now |-> FALSE])
           ELSE UNCHANGED <<task, modify>>
        /\ UNCHANGED <<stored, entered, edits>>

ClosePage == page # None /\ page' = None /\ UNCHANGED <<stored, modify, task, entered, edits>>

\* slotCollectionModified.
SlotCollectionModified(ok) ==
    LET job == Head(modify)
    IN  /\ modify # <<>>
        /\ modify' = Tail(modify)
        /\ IF ok THEN /\ stored' = Deserialize(Serialized(job.attribute))
                      /\ entered' = job.form
                 ELSE UNCHANGED <<stored, entered>>
        /\ IF ok /\ job.now THEN ExpireOldMessages(job.attribute, Meant(job.form)) ELSE UNCHANGED task
        /\ UNCHANGED <<page, edits>>

ExpireAllFolders ==
    /\ stored # None /\ stored.autoExpire
    /\ ExpireOldMessages(stored, Meaning(stored))
    /\ UNCHANGED <<stored, page, modify, entered, edits>>

TaskRuns == task # None /\ task' = None /\ UNCHANGED <<stored, page, modify, entered, edits>>

Forms == [read : Ages, unread : Ages, move : BOOLEAN, folder : Targets \cup {Self, None}, undated : BOOLEAN]

Edited == LET f == page.form IN
    {[f EXCEPT !.read = age] : age \in Ages} \cup {[f EXCEPT !.unread = age] : age \in Ages}
    \cup {[f EXCEPT !.undated = ~@], [f EXCEPT !.move = ~@]}
    \cup {[f EXCEPT !.folder = t] : t \in Targets \cup {Self}}

Next ==
    \/ OpenPage
    \/ page # None /\ \E form \in Edited : EditPage(form)
    \/ SlotSaveAndExpire
    \/ SavePage
    \/ ClosePage
    \/ \E ok \in BOOLEAN : SlotCollectionModified(ok)
    \/ ExpireAllFolders
    \/ TaskRuns

Spec == Init /\ [][Next]_vars

-----------------------------------------------------------------------------
(* Properties *)

\* A task expires what was meant by the last request for it, and so what the form
\* said, unless it had been waiting already: then it expires what the first request
\* meant, and what "Save Settings and Expire Now" has entered since is stored but not
\* acted upon.  What is stored is what the form said, whatever units the folder had
\* before, whatever it was set to meanwhile and whichever way of saving the user took;
\* but for a form that had to be corrected.
ExpiryAsEntered ==
    /\ task # None => Meaning(task.attribute) = IF task.merged THEN task.first ELSE task.meant
    /\ entered # None /\ ~Wrong(entered) => Meaning(stored) = Meant(entered)
=============================================================================
