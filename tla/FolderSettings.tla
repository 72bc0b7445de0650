---------------------------- MODULE FolderSettings ----------------------------
(***************************************************************************)
(* The settings of folders: folder/foldersettings.cpp, and the pages of    *)
(* the folder's properties that show and store them,                       *)
(* collectionpage/collectiongeneralpage.cpp, collectiongeneralwidget.cpp   *)
(* and collectionviewwidget.cpp.                                           *)
(*                                                                         *)
(* Objects are shared through a cache.  Most setters change the object     *)
(* only; it is stored when it dies, if somebody has asked for it with the  *)
(* right to write.                                                         *)
(***************************************************************************)
EXTENDS Naturals, FiniteSets

CONSTANTS Folders,      \* the folders with settings
          Objects,      \* addresses of settings objects
          Dialogs,      \* dialogs that may be open
          Ids,          \* the identities there may be
          Accounts,     \* what accounts may be like: [resource, imap, useDefault, identity]
          Formats,      \* the formats of a message, "Global" and "Unknown" among them
          None,         \* no object, no entry, no identity, no dialog
          MaxEdits      \* how often users and identity manager change something

VARIABLES identities,   \* those of the identity manager
          default,      \* its default identity
          account,      \* per folder, its account
          config,       \* per folder, its group in the configuration file
          fcMap,        \* per folder, the cached object
          object,       \* per address, the object, or None
          dialog,       \* per dialog, what it shows, or None
          others,       \* objects that somebody else points to
          wanted,       \* history: per folder, what was last entered for it
          asked,        \* history: objects that were asked for in order to write
          unsure,       \* history: folders with two objects, or with a change nobody may write
          defaults,     \* history: the identities that have been the default
          unwritten,    \* history: per folder, the identities left out of the file since the
                        \* user last saved its settings
          edits         \* changes so far

vars == <<identities, default, account, config, fcMap, object, dialog, others,
          wanted, asked, unsure, defaults, unwritten, edits>>

\* "hide" stands for every switch that is stored when on and deleted when off,
\* "list" for the mailing list.
Settings(someIds, someFormats) ==
    [useDefault : BOOLEAN, identity : someIds, keep : BOOLEAN, hide : BOOLEAN,
     format : someFormats, list : BOOLEAN]

Unset == [useDefault |-> TRUE, identity |-> None, keep |-> FALSE, hide |-> FALSE,
          format |-> "Global", list |-> FALSE]

-----------------------------------------------------------------------------
(* Identities, reading and writing *)

\* The default may have become another one, the identity in use may be gone.
SlotIdentitiesChanged(v, ids, dflt) ==
    LET followed == IF v.useDefault THEN dflt ELSE v.identity
    IN  IF followed \in ids THEN [v EXCEPT !.identity = followed]
                            ELSE [v EXCEPT !.identity = dflt, !.useDefault = TRUE]

ReadConfig(entry) ==
    SlotIdentitiesChanged([entry EXCEPT !.identity = IF @ = None THEN default ELSE @],
                          identities, default)

\* The identity that gets no entry: the account's own with IMAP, else the default.
LeftUnsaid(f) == IF account[f].imap THEN account[f].identity ELSE default

WriteConfig(f, v) ==
    IF ~account[f].resource THEN config[f]
    ELSE [v EXCEPT !.identity = IF v.useDefault \/ @ = LeftUnsaid(f) THEN None ELSE @,
                   !.format = IF @ = "Unknown" THEN config[f].format ELSE @]

\* What becomes of the identities left out when v is written.
Unsaid(f, v) == IF v.useDefault THEN {} ELSE {v.identity} \cap {LeftUnsaid(f)}

FallBackIdentity(f, v) ==
    IF account[f].useDefault \/ account[f].identity \notin identities
    THEN v.identity ELSE account[f].identity

Identity(f, v) == IF v.useDefault THEN FallBackIdentity(f, v) ELSE v.identity

-----------------------------------------------------------------------------
(* Objects *)

Live == {o \in Objects : object[o] # None}
Pointed(o) == o \in others \/ \E d \in Dialogs : dialog[d] # None /\ dialog[d].object = o
Cached(o) == \E f \in Folders : fcMap[f] = o

\* forCollection, and what it returns.
ForCollection(f, write, o) ==
    \/ /\ fcMap[f] = None
       /\ object[o] = None
       /\ object' = [object EXCEPT ![o] = [folder |-> f, write |-> write,
                                           value |-> ReadConfig(config[f])]]
       /\ fcMap' = [fcMap EXCEPT ![f] = o]
       /\ asked' = IF write THEN asked \cup {o} ELSE asked \ {o}
       /\ unsure' = IF \E p \in Live : object[p].folder = f THEN unsure \cup {f} ELSE unsure
    \/ /\ fcMap[f] = o
       /\ object' = [object EXCEPT ![o].write = @ \/ write]
       /\ asked' = IF write THEN asked \cup {o} ELSE asked
       /\ UNCHANGED <<fcMap, unsure>>

DestroyUnwritten(dead) == \* faulty: what was set is not stored
    /\ object' = [o \in Objects |-> IF o \in dead THEN None ELSE object[o]]
    /\ UNCHANGED <<config, unsure, unwritten>>

\* ~FolderSettings, of at most one object of each folder.
Destroy(dead) ==
    LET last(f) == {o \in dead : object[o].folder = f /\ object[o].write}
        written(f) == object[CHOOSE o \in last(f) : TRUE].value
    IN  /\ object' = [o \in Objects |-> IF o \in dead THEN None ELSE object[o]]
        /\ config' = [f \in Folders |-> IF last(f) = {} THEN config[f] ELSE WriteConfig(f, written(f))]
        /\ unwritten' = [f \in Folders |->
               IF last(f) = {} THEN unwritten[f] ELSE unwritten[f] \cup Unsaid(f, written(f))]
        /\ unsure' = unsure \cup {object[o].folder : o \in {d \in dead \ asked :
                         object[d].value # ReadConfig(config[object[d].folder])}}

Init ==
    /\ identities = Ids
    /\ default \in Ids
    /\ account \in [Folders -> Accounts]
    /\ config = [f \in Folders |-> Unset]
    /\ fcMap = [f \in Folders |-> None]
    /\ object = [o \in Objects |-> None]
    /\ dialog = [d \in Dialogs |-> None]
    /\ others = {}
    /\ wanted = [f \in Folders |-> ReadConfig(Unset)]
    /\ asked = {}
    /\ unsure = {}
    /\ defaults = {default}
    /\ unwritten = [f \in Folders |-> {}]
    /\ edits = 0

Edits == edits < MaxEdits /\ edits' = edits + 1
NoEdit == UNCHANGED edits
Manager == <<identities, default, defaults, account>>

\* Anybody looks up the settings of a folder, to write or only to read them.
Ask(f, write) ==
    /\ \E o \in Objects : ForCollection(f, write, o) /\ others' = others \cup {o}
    /\ UNCHANGED <<Manager, config, dialog, wanted, unwritten, edits>>

LetGo(o) ==
    /\ o \in others
    /\ others' = others \ {o}
    /\ LET last == ~Cached(o) /\ \A d \in Dialogs : dialog[d] # None => dialog[d].object # o
       IN  Destroy(IF last THEN {o} ELSE {})
    /\ UNCHANGED <<Manager, fcMap, dialog, wanted, asked, edits>>

ClearCache ==
    /\ fcMap' = [f \in Folders |-> None]
    /\ Destroy({o \in Live : Cached(o) /\ ~Pointed(o)})
    /\ UNCHANGED <<Manager, dialog, others, wanted, asked, edits>>

-----------------------------------------------------------------------------
(* Setters called by others *)

SetFormatMessage(o, format) ==
    /\ o \in others
    /\ object' = [object EXCEPT ![o].value.format = format]
    /\ wanted' = [wanted EXCEPT ![object[o].folder].format = format]
    /\ Edits
    /\ UNCHANGED <<Manager, config, fcMap, dialog, others, asked, unsure, unwritten>>

\* Stored at once, whether or not the object was asked for in order to write.
SetMailingListEnabled(o, enabled) ==
    LET f == object[o].folder
        v == [object[o].value EXCEPT !.list = enabled]
    IN  /\ o \in others
        /\ object[o].value.list # enabled
        /\ object' = [object EXCEPT ![o].value = v]
        /\ config' = [config EXCEPT ![f] = WriteConfig(f, v)]
        /\ wanted' = [wanted EXCEPT ![f].list = enabled]
        /\ unwritten' = [unwritten EXCEPT ![f] = @ \cup Unsaid(f, v)]
        /\ Edits
        /\ UNCHANGED <<Manager, fcMap, dialog, others, asked, unsure>>

\* Reaches the folders in the cache only.
ResetHtmlFormat ==
    /\ object' = [o \in Objects |-> IF Cached(o) THEN [object[o] EXCEPT !.value.format = "Global"]
                                                 ELSE object[o]]
    /\ wanted' = [f \in Folders |-> IF fcMap[f] # None THEN [wanted[f] EXCEPT !.format = "Global"]
                                                       ELSE wanted[f]]
    /\ Edits
    /\ UNCHANGED <<Manager, config, fcMap, dialog, others, asked, unsure, unwritten>>

\* The identity manager says that it has changed: every live object hears it.
IdentitiesChanged(ids, dflt) ==
    /\ identities' = ids
    /\ default' = dflt
    /\ defaults' = defaults \cup {dflt}
    /\ object' = [o \in Objects |->
           IF object[o] = None THEN None
           ELSE [object[o] EXCEPT !.value = SlotIdentitiesChanged(@, ids, dflt)]]
    /\ dialog' = [d \in Dialogs |->
           IF dialog[d] = None \/ dialog[d].form.identity \in ids THEN dialog[d]
           ELSE [dialog[d] EXCEPT !.form.identity = dflt]]
    /\ Edits
    /\ UNCHANGED <<account, config, fcMap, others, wanted, asked, unsure, unwritten>>

-----------------------------------------------------------------------------
(* The dialog of a folder's properties *)

\* What the pages show, mayCreate being the folder's right to hold new messages.
Shown(f, v, mayCreate) ==
    [useDefault |-> v.useDefault, identity |-> Identity(f, v),
     keep |-> mayCreate /\ v.keep, hide |-> v.hide, format |-> v.format]

OpenDialog(d, f, mayCreate) ==
    /\ dialog[d] = None
    /\ \E o \in Objects :
           /\ ForCollection(f, TRUE, o)
           /\ dialog' = [dialog EXCEPT ![d] =
                  [object |-> o, saved |-> FALSE, mayCreate |-> mayCreate,
                   form |-> Shown(f, object'[o].value, mayCreate)]]
    /\ UNCHANGED <<Manager, config, others, wanted, unwritten, edits>>

\* The user changes a page.  Ticking "use default identity" shows that identity.
EditForm(d, form) ==
    LET o == dialog[d].object
        was == dialog[d].form
    IN  /\ dialog[d] # None /\ ~dialog[d].saved
        /\ form # was
        /\ \/ form = [was EXCEPT !.useDefault = FALSE]
           \/ form = [was EXCEPT !.useDefault = TRUE,
                                 !.identity = FallBackIdentity(object[o].folder, object[o].value)]
           \/ ~was.useDefault /\ \E i \in identities : form = [was EXCEPT !.identity = i]
           \/ dialog[d].mayCreate /\ form = [was EXCEPT !.keep = ~@]
           \/ form = [was EXCEPT !.hide = ~@]
           \/ \E m \in Formats \ {"Unknown"} : form = [was EXCEPT !.format = m]
        /\ dialog' = [dialog EXCEPT ![d].form = form]
        /\ Edits
        /\ UNCHANGED <<Manager, config, fcMap, object, others, wanted, asked, unsure, unwritten>>

\* The two pages' save(): identity first, then whether it is the default one.
Saved(form, v) ==
    [v EXCEPT !.useDefault = form.useDefault,
              !.identity = IF form.useDefault /\ ~v.useDefault THEN default ELSE form.identity,
              !.keep = form.keep, !.hide = form.hide,
              !.format = IF form.format = "Unknown" THEN @ ELSE form.format]

SaveDialog(d) ==
    LET o == dialog[d].object
        f == object[o].folder
        form == dialog[d].form
        v == Saved(form, object[o].value)
    IN  /\ dialog[d] # None /\ ~dialog[d].saved
        /\ dialog' = [dialog EXCEPT ![d].saved = TRUE]
        /\ object' = [object EXCEPT ![o].value = v]
        /\ config' = [config EXCEPT ![f] = WriteConfig(f, v)]
        /\ wanted' = [wanted EXCEPT ![f].useDefault = form.useDefault, ![f].identity = form.identity,
                                    ![f].keep = form.keep, ![f].hide = form.hide,
                                    ![f].format = IF form.format = "Unknown" THEN @ ELSE form.format]
        /\ unwritten' = [unwritten EXCEPT ![f] = Unsaid(f, v)]
        /\ UNCHANGED <<Manager, fcMap, others, asked, unsure, edits>>

CloseDialog(d) ==
    /\ dialog[d] # None
    /\ dialog' = [dialog EXCEPT ![d] = None]
    /\ LET o == dialog[d].object
           last == /\ ~Cached(o) /\ o \notin others
                   /\ \A e \in Dialogs \ {d} : dialog[e] # None => dialog[e].object # o
       IN  Destroy(IF last THEN {o} ELSE {})
    /\ UNCHANGED <<Manager, fcMap, others, wanted, asked, edits>>

Forms == {dialog[d].form : d \in {e \in Dialogs : dialog[e] # None}}
Changed(form) ==
    {[form EXCEPT !.useDefault = b, !.identity = i] : b \in BOOLEAN, i \in Ids}
    \cup {[form EXCEPT !.keep = ~@], [form EXCEPT !.hide = ~@]}
    \cup {[form EXCEPT !.format = m] : m \in Formats}

Next ==
    \/ \E f \in Folders, write \in BOOLEAN : Ask(f, write)
    \/ \E o \in Objects : LetGo(o)
    \/ ClearCache
    \/ \E o \in Objects, format \in Formats : SetFormatMessage(o, format)
    \/ \E o \in Objects, enabled \in BOOLEAN : SetMailingListEnabled(o, enabled)
    \/ ResetHtmlFormat
    \/ \E ids \in SUBSET identities : \E dflt \in ids : IdentitiesChanged(ids, dflt)
    \/ \E d \in Dialogs, f \in Folders, mayCreate \in BOOLEAN : OpenDialog(d, f, mayCreate)
    \/ \E d \in Dialogs : \E form \in UNION {Changed(g) : g \in Forms} : EditForm(d, form)
    \/ \E d \in Dialogs : SaveDialog(d)
    \/ \E d \in Dialogs : CloseDialog(d)

Spec == Init /\ [][Next]_vars

-----------------------------------------------------------------------------
(* Properties *)

TypeOK ==
    /\ default \in identities /\ identities \subseteq Ids
    /\ config \in [Folders -> Settings(Ids \cup {None}, Formats)]
    /\ fcMap \in [Folders -> Objects \cup {None}]
    /\ \A f \in Folders : fcMap[f] # None => object[fcMap[f]].folder = f
    /\ \A o \in Live : object[o].value \in Settings(Ids, Formats)
    /\ \A d \in Dialogs : dialog[d] # None => dialog[d].object \in Live
    /\ others \subseteq Live
    /\ wanted \in [Folders -> Settings(Ids, Formats)]

AsWanted(f, v) ==
    LET w == wanted[f]
    IN  /\ <<v.keep, v.hide, v.list>> = <<w.keep, w.hide, w.list>>
        /\ w.format = "Unknown" \/ v.format = w.format
        /\ w.useDefault => v.useDefault
        /\ ~w.useDefault /\ w.identity \in identities =>
               \/ ~v.useDefault /\ v.identity = w.identity
               \/ w.identity \in unwritten[f] /\ v.identity \in defaults

\* What was last entered for a folder, in whatever dialog and through whatever
\* pointer, is what its object holds while there is one, and what is read from
\* the file when there is none; but for folders that have had two objects at once
\* or a change that nobody had the right to write, and but for an identity that exists
\* no more.  One that has been left out of the file since, because it was then the
\* default or the account's own, is read as the default of the moment.
LastSettingStays ==
    \A f \in {g \in Folders \ unsure : account[g].resource} :
        /\ \A o \in Live : object[o].folder = f => AsWanted(f, object[o].value)
        /\ (\A o \in Live : object[o].folder # f) => AsWanted(f, ReadConfig(config[f]))

\* Whatever identities are removed, and whatever the account says, no folder uses
\* one that does not exist.
IdentityExists ==
    \A o \in Live : Identity(object[o].folder, object[o].value) \in identities
=============================================================================
