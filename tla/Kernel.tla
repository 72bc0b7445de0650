-------------------------------- MODULE Kernel --------------------------------
(***************************************************************************)
(* The default folders: kernel/mailkernel.cpp.  The kernel asks for every  *)
(* default folder that is missing, and asks again when Akonadi says that   *)
(* the default folders have changed.  Akonadi creates a folder, says that  *)
(* the default folders have changed, and only then answers the request.    *)
(***************************************************************************)
EXTENDS Naturals, FiniteSets, Bags

CONSTANTS Types,        \* the default folders the kernel wants
          MaxChanges    \* how often folders come and go by themselves

VARIABLES existing,     \* the types that have a default folder
          unusable,     \* those whose folder gives no rights
          requests,     \* bag of types: SpecialMailCollectionsRequestJobs under way
          listening,    \* defaultCollectionsChanged is connected
          exit,         \* "no", "box" (an error is shown), "gone"
          started,      \* initFolders has been called
          unheard,      \* history: types that were lost while nobody listened
          idled,        \* history: the kernel last looked when nothing was missing
          changes       \* changes so far

vars == <<existing, unusable, requests, listening, exit, started, unheard, idled, changes>>

TypeOK ==
    /\ existing \subseteq Types /\ unusable \subseteq existing
    /\ IsABag(requests) /\ BagToSet(requests) \subseteq Types
    /\ exit \in {"no", "box", "gone"}
    /\ unheard \subseteq Types \ existing

Init ==
    /\ existing \in SUBSET Types
    /\ unusable \in {{}} \cup {{t} : t \in existing}
    /\ requests = EmptyBag
    /\ listening = FALSE
    /\ exit = "no"
    /\ started = FALSE
    /\ unheard = {}
    /\ idled = FALSE
    /\ changes = 0

\* An error box is shown, whose event loop lets everything else go on; a second
\* error passes unnoticed while the box is open.
EmergencyExit == exit' = "box"

\* findCreateDefaultCollection for every type, given the folders there are.
InitFolders(folders, bad, pending) ==
    /\ requests' = pending (+) SetToBag(Types \ folders)
    /\ IF bad # {} THEN EmergencyExit ELSE UNCHANGED exit

Start ==
    /\ ~started
    /\ started' = TRUE
    /\ InitFolders(existing, unusable, requests)
    /\ idled' = (existing = Types)
    /\ UNCHANGED <<existing, unusable, listening, unheard, changes>>

\* Akonadi tells of a change that leaves these folders: slotDefaultCollectionsChanged
\* stops listening and asks for all that is missing.
SlotDefaultCollectionsChanged(folders, bad, pending) ==
    IF listening
    THEN /\ listening' = FALSE
         /\ InitFolders(folders, bad, pending)
         /\ idled' = (folders = Types)
         /\ unheard' = unheard \ folders
    ELSE /\ requests' = pending
         /\ unheard' = (unheard \cup (existing \ folders)) \ folders
         /\ UNCHANGED <<listening, exit, idled>>

\* createDefaultCollectionDone without an error: listen, whatever the rights.
ListenNoMore == listening' = FALSE  \* faulty: not connected again
Listen == listening' = TRUE

\* A folder is made (or found) for a request and the request answered.  Making it
\* is heard before the answer: the answer connects the slot again.
RequestDone(t, denied) ==
    LET made == t \notin existing
        folders == existing \cup {t}
        bad == IF denied THEN unusable \cup {t} ELSE unusable
        rest == requests (-) SetToBag({t})
    IN  /\ exit # "gone"
        /\ BagIn(t, requests)
        /\ denied => made
        /\ existing' = folders
        /\ unusable' = bad
        /\ requests' = IF made /\ listening THEN rest (+) SetToBag(Types \ folders) ELSE rest
        /\ exit' = IF t \in bad \/ (made /\ listening /\ bad # {}) THEN "box" ELSE exit
        /\ unheard' = unheard \ {t}
        /\ idled' = FALSE
        /\ Listen
        /\ UNCHANGED <<started, changes>>

RequestFails(t) ==
    /\ exit # "gone"
    /\ BagIn(t, requests)
    /\ requests' = requests (-) SetToBag({t})
    /\ EmergencyExit
    /\ UNCHANGED <<existing, unusable, listening, started, unheard, idled, changes>>

\* Another program removes a default folder, or gives a type another folder.
FolderLost(t) ==
    /\ exit # "gone" /\ started
    /\ t \in existing
    /\ changes < MaxChanges /\ changes' = changes + 1
    /\ existing' = existing \ {t}
    /\ unusable' = unusable \ {t}
    /\ SlotDefaultCollectionsChanged(existing', unusable', requests)
    /\ UNCHANGED started

FolderReplaced ==
    /\ exit # "gone" /\ started
    /\ changes < MaxChanges /\ changes' = changes + 1
    /\ SlotDefaultCollectionsChanged(existing, unusable, requests)
    /\ UNCHANGED <<existing, unusable, started>>

\* The user closes the error box, and the program exits.
BoxClosed ==
    /\ exit = "box"
    /\ exit' = "gone"
    /\ UNCHANGED <<existing, unusable, requests, listening, started, unheard, idled, changes>>

Answer(t) == (\E denied \in BOOLEAN : RequestDone(t, denied)) \/ RequestFails(t)

Next ==
    \/ Start
    \/ \E t \in Types : Answer(t)
    \/ \E t \in Types : FolderLost(t)
    \/ FolderReplaced
    \/ BoxClosed

Spec == Init /\ [][Next]_vars

\* Akonadi answers every request.
FairSpec == Spec /\ WF_vars(Start) /\ \A t \in Types : WF_vars(Answer(t))

-----------------------------------------------------------------------------
(* Properties *)

\* With no request under way every default folder exists but those that were lost
\* while the kernel was not listening, and it listens unless the last change it
\* heard of (or its start) left nothing to ask for.  A change
\* heard in the middle of six requests must neither lose a folder nor end the
\* listening.
DefaultFoldersReturn ==
    (started /\ exit = "no" /\ requests = EmptyBag) =>
        /\ Types \ existing \subseteq unheard
        /\ listening \/ idled

\* However changes and answers mix, the requests come to an end: from some time on
\* none is under way.
Answered == exit # "no" \/ requests = EmptyBag
RequestsEnd == <>[]Answered
=============================================================================
