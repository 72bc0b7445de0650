---------------------------- MODULE SpecialFolders ----------------------------
(***************************************************************************)
(* Which folder is what: the predicates of kernel/mailkernel.cpp.  A       *)
(* mailbox is a record of what Akonadi and the identities know:            *)
(*   special[t]    the default folder of type t, or None,                  *)
(*   identities    records [drafts, templates, spam, fcc, disabledSpam],   *)
(*   trash         the trash folders of the accounts,                      *)
(*   inboxes       folders whose remote name or account makes them one.    *)
(***************************************************************************)
LOCAL INSTANCE FiniteSets

SpecialTypes == {"Inbox", "Outbox", "SentMail", "Drafts", "Trash", "Templates", "Spam"}

IsSystemFolderCollection(box, folder) ==
    \E t \in SpecialTypes : box.special[t] = folder

FolderIsDrafts(box, folder) ==
    folder = box.special["Drafts"] \/ \E i \in box.identities : i.drafts = folder

FolderIsDraftOrOutbox(box, folder) ==
    folder = box.special["Outbox"] \/ FolderIsDrafts(box, folder)

FolderIsTemplates(box, folder) ==
    folder = box.special["Templates"] \/ \E i \in box.identities : i.templates = folder

FolderIsSpams(box, folder) ==
    \/ folder = box.special["Spam"]
    \/ \E i \in box.identities : ~i.disabledSpam /\ i.spam = folder

FolderIsTrash(box, folder) == folder = box.special["Trash"] \/ folder \in box.trash

FolderIsSentMailFolder(box, folder) ==
    folder = box.special["SentMail"] \/ \E i \in box.identities : i.fcc = folder

FolderIsInbox(box, folder) == folder \in box.inboxes \/ folder = box.special["Inbox"]
=============================================================================
