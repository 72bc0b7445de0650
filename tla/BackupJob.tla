----------------------------- MODULE BackupJob -----------------------------
(***************************************************************************)
(* BackupJob (src/src/job/backupjob.cpp) writes a folder, with its         *)
(* subfolders if asked to, into an archive and may delete the folder       *)
(* afterwards.  It works folder by folder and message by message; each     *)
(* answer of the server starts the next request, and in between the user   *)
(* may cancel, mail may arrive and messages may be deleted.                *)
(***************************************************************************)
EXTENDS Integers, Sequences, FiniteSets

CONSTANTS
  Folders, Root, NoFolder,
  Parent,       \* Parent[f] for every folder but Root
  Messages,
  Content,      \* Content[f]: the messages in folder f when the job starts
  Size,         \* Size[m]: the size of the encoded message
  SizeLimit,    \* 2^32: mArchivedSize is an unsigned int
  Recursive,    \* mRecursive
  DeleteAfter   \* mDeleteFoldersAfterCompletion

ASSUME FolderAssumption == IsFiniteSet(Folders) /\ Root \in Folders /\ NoFolder \notin Folders
ASSUME ParentAssumption ==
  Parent \in [Folders \ {Root} -> Folders] /\ \A f \in Folders \ {Root} : Parent[f] # f
ASSUME MailAssumption   == IsFiniteSet(Messages) /\ Content \in [Folders -> SUBSET Messages]
ASSUME SizeAssumption   == SizeLimit \in Nat \ {0} /\ Size \in [Messages -> Nat \ {0}]

VARIABLES
  state,           \* "new", "running", "doomed" (deleteLater() was called) or "gone"
  aborted,         \* mAborted
  pendingFolders,  \* mPendingFolders
  allFolders,      \* mAllFolders, as a set
  currentFolder,   \* mCurrentFolder
  pendingMessages, \* mPendingMessages
  listing,         \* the folder whose messages are being listed, or NoFolder
  fetching,        \* {m}: mCurrentJob fetches m; {}: there is no mCurrentJob
  timer,           \* a single shot timer will call archiveNextMessage
  open,            \* mArchive->isOpen()
  archive,         \* what the archive holds, in the order it was written
  archivedSize,    \* mArchivedSize
  progress,        \* mProgressItem exists, so the user can cancel
  errors, dones,   \* history: how often error and backupDone were emitted
  content,         \* the folders on the server
  listed,          \* history: the messages listed for each folder
  deleted          \* the deletion of the root folder has been asked for

jobVars == <<state, aborted, pendingFolders, allFolders, currentFolder, pendingMessages,
             listing, fetching, timer, open, archive, archivedSize, progress,
             errors, dones, listed, deleted>>
vars == <<jobVars, content>>

Entries == {"subdir", "dir"} \X Folders
Mails   == {"mail"} \X Folders \X Messages
Held    == {archive[i] : i \in DOMAIN archive}

-----------------------------------------------------------------------------
HasChildren(f) == \E c \in allFolders' \ {Root} : Parent[c] = f

Before(s, f, g) == \E i, j \in DOMAIN s : i < j /\ s[i] = f /\ s[j] = g

(* g is f, or below it: whoever goes from g from parent to parent meets f. *)
Under(f, g) ==
  \A S \in SUBSET Folders : (g \in S /\ \A x \in S \ {Root} : Parent[x] \in S) => f \in S

(* queueFolders(Root): each folder is followed by the subtrees of its      *)
(* children, in whatever order the server lists the children.              *)
FolderOrders ==
  IF ~Recursive THEN {<<Root>>}
  ELSE {s \in [1..Cardinality(Folders) -> Folders] :
          /\ {s[i] : i \in DOMAIN s} = Folders
          /\ \A i, j, k \in DOMAIN s :
               /\ Under(s[i], s[j]) => i <= j
               /\ (i < j /\ j < k /\ Under(s[i], s[k])) => Under(s[i], s[j])}

(* The orders in which the server may list the messages of a folder. *)
Listings(S) ==
  {s \in [1..Cardinality(S) -> S] : {s[i] : i \in DOMAIN s} = S}

(* abort() when mAborted is not yet set: close the archive, kill the       *)
(* message job, report the error, and ask to be deleted.                   *)
Abort ==
  /\ aborted' = TRUE /\ currentFolder' = NoFolder /\ open' = FALSE
  /\ fetching' = {} /\ progress' = FALSE
  /\ errors' = errors + 1 /\ state' = "doomed"
  /\ UNCHANGED <<archivedSize, dones, deleted>>

(* finish() after the archive has been closed; its file may be missing.    *)
Complete ==
  /\ open' = FALSE /\ progress' = FALSE
  /\ \E exists \in BOOLEAN :
       deleted' = (DeleteAfter /\ exists
                   /\ (archivedSize > 0 \/ \A i \in DOMAIN archive' : archive'[i] \notin Mails))
  /\ dones' = dones + 1 /\ state' = "doomed"
  /\ UNCHANGED <<aborted, errors, archivedSize>>

FinishUnchecked == \* faulty: a failure to close the archive goes unnoticed
  /\ open' \in BOOLEAN /\ progress' = FALSE /\ deleted' = DeleteAfter
  /\ dones' = dones + 1 /\ state' = "doomed"
  /\ UNCHANGED <<aborted, errors, archivedSize, currentFolder, fetching>>

FinishBoth == \* faulty: no return after the failure
  \/ Complete /\ UNCHANGED <<currentFolder, fetching>>
  \/ /\ aborted' = TRUE /\ currentFolder' = NoFolder /\ open' = FALSE /\ fetching' = {}
     /\ progress' = FALSE /\ deleted' \in BOOLEAN /\ state' = "doomed"
     /\ errors' = errors + 1 /\ dones' = dones + 1 /\ UNCHANGED archivedSize

(* finish(): closing the archive may fail. *)
Finish ==
  \/ Complete /\ UNCHANGED <<currentFolder, fetching>>
  \/ Abort

NoRequest == listing' = NoFolder /\ timer' = FALSE

(* The job goes on as before. *)
Unharmed == UNCHANGED <<state, aborted, open, progress, errors, dones, deleted, archivedSize>>

(* It is running from now on; start() comes here too. *)
Working ==
  /\ state' = "running" /\ open' = TRUE /\ progress' = TRUE
  /\ UNCHANGED <<aborted, fetching, errors, dones, deleted, archivedSize>>

(* archiveNextFolder() with these folders pending and this in the archive. *)
(* Each directory is written in turn and the first failure aborts.         *)
ArchiveNextFolder(folders, a) ==
  \/ /\ folders = << >> /\ pendingFolders' = folders /\ archive' = a /\ NoRequest
     /\ Finish
  \/ /\ folders # << >> /\ pendingFolders' = Tail(folders)
     /\ LET f    == Head(folders)
            dirs == IF HasChildren(f) THEN <<<<"subdir", f>>, <<"dir", f>>>> ELSE <<<<"dir", f>>>>
        IN  \/ /\ archive' = a \o dirs
               /\ currentFolder' = f /\ listing' = f /\ timer' = FALSE
               /\ Working
            \/ /\ \E n \in 0..(Len(dirs) - 1) : archive' = a \o SubSeq(dirs, 1, n)
               /\ NoRequest /\ Abort

NextMessageUnguarded(messages) == \* faulty: goes on after an abort
  \/ /\ messages = << >> /\ pendingMessages' = messages
     /\ ArchiveNextFolder(pendingFolders, archive)
  \/ /\ messages # << >> /\ pendingMessages' = Tail(messages)
     /\ fetching' = {Head(messages)} /\ NoRequest
     /\ Unharmed /\ UNCHANGED <<pendingFolders, currentFolder, archive>>

NextMessageDropsLast(messages) == \* faulty: the last one of a folder is forgotten
  \/ /\ aborted /\ pendingMessages' = messages /\ NoRequest
     /\ Unharmed /\ UNCHANGED <<pendingFolders, currentFolder, fetching, archive>>
  \/ /\ ~aborted /\ Len(messages) <= 1 /\ pendingMessages' = << >>
     /\ ArchiveNextFolder(pendingFolders, archive)
  \/ /\ ~aborted /\ Len(messages) > 1 /\ pendingMessages' = Tail(messages)
     /\ fetching' = {Head(messages)} /\ NoRequest
     /\ Unharmed /\ UNCHANGED <<pendingFolders, currentFolder, archive>>

NextMessageStops(messages) == \* faulty: nothing follows the last message of a folder
  /\ NoRequest /\ Unharmed /\ UNCHANGED <<pendingFolders, currentFolder, archive>>
  /\ \/ (aborted \/ messages = << >>) /\ pendingMessages' = messages /\ UNCHANGED fetching
     \/ /\ ~aborted /\ messages # << >> /\ pendingMessages' = Tail(messages)
        /\ fetching' = {Head(messages)}

(* archiveNextMessage() with these messages pending. *)
ArchiveNextMessage(messages) ==
  \/ /\ aborted /\ pendingMessages' = messages /\ NoRequest
     /\ Unharmed /\ UNCHANGED <<pendingFolders, currentFolder, fetching, archive>>
  \/ /\ ~aborted /\ messages = << >> /\ pendingMessages' = messages
     /\ ArchiveNextFolder(pendingFolders, archive)
  \/ /\ ~aborted /\ messages # << >> /\ pendingMessages' = Tail(messages)
     /\ fetching' = {Head(messages)} /\ NoRequest
     /\ Unharmed /\ UNCHANGED <<pendingFolders, currentFolder, archive>>
-----------------------------------------------------------------------------
Init ==
  /\ state = "new" /\ aborted = FALSE
  /\ pendingFolders = << >> /\ allFolders = {} /\ currentFolder = NoFolder
  /\ pendingMessages = << >> /\ listing = NoFolder /\ fetching = {} /\ timer = FALSE
  /\ open = FALSE /\ archive = << >> /\ archivedSize = 0 /\ progress = FALSE
  /\ errors = 0 /\ dones = 0
  /\ content = Content /\ listed = [f \in Folders |-> {}] /\ deleted = FALSE

(* start(): a subfolder may fail to list its children, and the archive to  *)
(* open; without a progress item there is no cancelling before that.       *)
Start ==
  /\ state = "new"
  /\ UNCHANGED <<pendingMessages, listed, content>>
  /\ \E s \in FolderOrders :
       \/ allFolders' = {s[i] : i \in DOMAIN s} /\ ArchiveNextFolder(s, << >>)
       \/ \E n \in 1..Len(s) : \E k \in 0..n :
            /\ pendingFolders' = SubSeq(s, 1, n) /\ allFolders' = {s[i] : i \in 1..k}
            /\ archive' = << >> /\ NoRequest /\ Abort

(* onArchiveNextFolderDone() *)
FolderListed ==
  /\ listing # NoFolder /\ state # "gone" /\ UNCHANGED <<allFolders, content>>
  /\ \/ \E s \in Listings(content[listing]) :
          /\ ArchiveNextMessage(pendingMessages \o s)
          /\ listed' = [listed EXCEPT ![listing] = content[listing]]
     \/ /\ NoRequest
        /\ \/ ~aborted /\ Abort
           \/ aborted /\ Unharmed /\ UNCHANGED <<currentFolder, fetching>>
        /\ UNCHANGED <<pendingFolders, pendingMessages, archive, listed>>

ProcessUnwrapped(m) == \* faulty: the counter is wider than the code's
  /\ archive' = Append(archive, <<"mail", currentFolder, m>>) /\ timer' = TRUE
  /\ archivedSize' = archivedSize + Size[m]
  /\ UNCHANGED <<listing, state, aborted, currentFolder, open, progress, errors, dones, deleted>>

(* processMessage(): write it and go on with the next from a timer. *)
ProcessMessage(m) ==
  /\ archive' = Append(archive, <<"mail", currentFolder, m>>)
  /\ archivedSize' = (archivedSize + Size[m]) % SizeLimit
  /\ timer' = TRUE
  /\ UNCHANGED <<listing, state, aborted, currentFolder, open, progress, errors, dones, deleted>>

(* itemFetchJobResult(); fetching fails if the message is gone, and may    *)
(* fail otherwise, as may writing it.                                      *)
MessageFetched ==
  \E m \in fetching :
    /\ state # "gone" /\ ~aborted
    /\ \/ m \in content[currentFolder] /\ ProcessMessage(m) /\ fetching' = {}
       \/ Abort /\ NoRequest /\ UNCHANGED archive
    /\ UNCHANGED <<pendingFolders, allFolders, pendingMessages, content, listed>>

TimerFires ==
  /\ timer /\ state # "gone" /\ UNCHANGED <<allFolders, content, listed>>
  /\ ArchiveNextMessage(pendingMessages)

(* cancelJob(), from the progress item *)
CancelJob ==
  /\ progress
  /\ Abort
  /\ UNCHANGED <<pendingFolders, allFolders, pendingMessages, listing, timer, archive, content, listed>>

(* The event loop deletes the job. *)
Destroyed ==
  /\ state = "doomed" /\ state' = "gone" /\ NoRequest
  /\ UNCHANGED <<aborted, pendingFolders, allFolders, currentFolder, pendingMessages, fetching,
                 open, archive, archivedSize, progress, errors, dones, content, listed, deleted>>

(* Elsewhere a message is deleted, or one arrives. *)
MessageRemoved ==
  /\ \E f \in Folders : \E m \in content[f] : content' = [content EXCEPT ![f] = @ \ {m}]
  /\ UNCHANGED jobVars

MessageArrives ==
  /\ ~deleted
  /\ \E f \in Folders : \E m \in Messages :
       /\ \A g \in Folders : m \notin content[g] \cup listed[g]
       /\ content' = [content EXCEPT ![f] = @ \cup {m}]
  /\ UNCHANGED jobVars

Next ==
  \/ Start \/ FolderListed \/ MessageFetched \/ TimerFires
  \/ CancelJob \/ Destroyed \/ MessageRemoved \/ MessageArrives

Spec == Init /\ [][Next]_vars

(* The server answers, timers fire and the event loop deletes.  *)
FairSpec ==
  /\ Spec
  /\ WF_vars(FolderListed) /\ WF_vars(MessageFetched) /\ WF_vars(TimerFires) /\ WF_vars(Destroyed)
-----------------------------------------------------------------------------
TypeOK ==
  /\ state \in {"new", "running", "doomed", "gone"}
  /\ aborted \in BOOLEAN /\ timer \in BOOLEAN /\ open \in BOOLEAN /\ progress \in BOOLEAN
  /\ pendingFolders \in Seq(Folders) /\ allFolders \subseteq Folders
  /\ currentFolder \in Folders \cup {NoFolder} /\ listing \in Folders \cup {NoFolder}
  /\ pendingMessages \in Seq(Messages)
  /\ fetching \subseteq Messages /\ Cardinality(fetching) <= 1
  /\ archive \in Seq(Entries \cup Mails)
  /\ archivedSize \in 0..(SizeLimit - 1)
  /\ errors \in Nat /\ dones \in Nat
  /\ content \in [Folders -> SUBSET Messages] /\ listed \in [Folders -> SUBSET Messages]
  /\ deleted \in BOOLEAN

(* One of the two signals is emitted, once, by the time the job is         *)
(* deleted: abort() is reached from failures, from cancelling and from the *)
(* failure that killing the message job brings about.                      *)
OneOutcome ==
  /\ errors + dones <= 1
  /\ state \in {"doomed", "gone"} <=> errors + dones = 1

(* At most one request is under way, so that its answer finds the job as   *)
(* the request left it; the folder being listed is the only exception to   *)
(* an abort stopping everything.                                           *)
OneRequest ==
  /\ Cardinality({r \in {"list", "fetch", "timer"} :
       CASE r = "list"  -> listing # NoFolder
         [] r = "fetch" -> fetching # {}
         [] r = "timer" -> timer}) <= 1
  /\ (state = "running" => (listing # NoFolder \/ fetching # {} \/ timer))

(* Nothing is written to a closed archive, whatever answer arrives late.   *)
WritesToOpenArchive ==
  [][(archive' # archive /\ state # "new") => open]_vars

(* No answer finds the job in another state than the request left it in,   *)
(* nor the archive closed.                                                 *)
AnswersInTurn == []OneRequest /\ WritesToOpenArchive

(* When backupDone is emitted the archive holds every queued folder once   *)
(* and, under it, every message its listing named, once.                   *)
DoneMeansArchived ==
  dones = 1 =>
    /\ \A f \in allFolders :
         /\ Cardinality({i \in DOMAIN archive : archive[i] = <<"dir", f>>}) = 1
         /\ \A m \in listed[f] :
              Cardinality({i \in DOMAIN archive : archive[i] = <<"mail", f, m>>}) = 1
    /\ ~open

(* The directory of a folder is in the archive before what is inside it.   *)
ParentsFirst ==
  /\ \A f \in Folders \ {Root} :
       <<"dir", f>> \in Held => Before(archive, <<"subdir", Parent[f]>>, <<"dir", f>>)
  /\ \A f \in Folders : \A m \in Messages :
       <<"mail", f, m>> \in Held => Before(archive, <<"dir", f>>, <<"mail", f, m>>)

(* Whatever the order of listing, what backupDone reports is a complete    *)
(* archive, in which each directory comes before its content.              *)
ArchiveIsWhole == DoneMeansArchived /\ ParentsFirst

(* The folder is deleted on the server only with an archive that was       *)
(* closed without error, and only if all that was listed is inside.        *)
DeletedMeansSaved ==
  deleted => /\ ~open /\ errors = 0
             /\ \A f \in allFolders : \A m \in listed[f] : <<"mail", f, m>> \in Held

(* A job that is started ends. *)
BackupEnds == (state = "running") ~> (state = "gone")
=============================================================================
