------------------------------- MODULE Receipts -------------------------------
(***************************************************************************)
(* Receipts (message disposition notifications): mdn/mdnwarningjob.cpp.    *)
(* A message asks for a receipt; the user may be asked in several windows; *)
(* each answer is a job, which stores it on the server and sends the       *)
(* receipt without waiting for either.  Every receipt says that the        *)
(* message has been displayed, the one that is sent when the user has      *)
(* denied it too.                                                          *)
(***************************************************************************)
EXTENDS SpecialFolders, Sequences, Naturals

CONSTANTS Messages,     \* [folder, valid, isReceipt]: where it is, whether it is a message, and of what kind
          Boxes,        \* mailboxes (see SpecialFolders)
          None,         \* no folder
          MaxJobs       \* how often the user is asked

VARIABLES message,      \* the message
          box,          \* the mailbox
          state,        \* MDNStateAttribute on the server
          modify,       \* ItemModifyJobs under way: states to be stored, in order
          sent,         \* receipts sent: what each of them says
          answers,      \* history: the answers that were acted upon, in order
          failed,       \* history: the server has refused to store an answer
          jobs          \* jobs so far

vars == <<message, box, state, modify, sent, answers, failed, jobs>>

Responses == {"Unknown", "MDNIgnore", "Denied", "Send"}

Init ==
    /\ message \in Messages
    /\ box \in Boxes
    /\ state = "MDNStateUnknown"
    /\ modify = <<>>
    /\ sent = <<>>
    /\ answers = <<>>
    /\ failed = FALSE
    /\ jobs = 0

CanStart(response) == response # "Unknown"

\* Mail one has written, is writing or has thrown away asks for nothing.
WrongCollection(b, folder) ==
    \/ FolderIsSentMailFolder(b, folder) \/ FolderIsTrash(b, folder)
    \/ FolderIsDraftOrOutbox(b, folder) \/ FolderIsTemplates(b, folder)

DoSend(m, response) == ~m.isReceipt /\ response \in {"Denied", "Send"}

StateFor(m, response) ==
    IF m.isReceipt \/ response = "MDNIgnore" THEN "MDNIgnore"
    ELSE IF response = "Denied" THEN "MDNDenied" ELSE "MDNDisplayed"

\* start(): sending may fail, which is only noted in the debug output.
StartJob(response, sends) ==
    /\ jobs < MaxJobs /\ jobs' = jobs + 1
    /\ IF CanStart(response) /\ ~(message.folder # None /\ WrongCollection(box, message.folder)) /\ message.valid
       THEN /\ modify' = Append(modify, StateFor(message, response))
            /\ sent' = IF DoSend(message, response) /\ sends THEN Append(sent, "displayed") ELSE sent
            /\ answers' = Append(answers, response)
       ELSE UNCHANGED <<modify, sent, answers>>
    /\ UNCHANGED <<message, box, state, failed>>

\* The revision is not compared: the last to arrive wins.
ModifyAnswered(ok) ==
    /\ modify # <<>>
    /\ modify' = Tail(modify)
    /\ IF ok THEN state' = Head(modify) /\ UNCHANGED failed
             ELSE failed' = TRUE /\ UNCHANGED state
    /\ UNCHANGED <<message, box, sent, answers, jobs>>

Next ==
    \/ \E response \in Responses, sends \in BOOLEAN : StartJob(response, sends)
    \/ \E ok \in BOOLEAN : ModifyAnswered(ok)

Spec == Init /\ [][Next]_vars

\* An answer is acted upon only for mail that came in from others, and a receipt is
\* sent only if some answer asked for one, and never for another receipt.  However many
\* windows have asked, once all the answers have arrived the server keeps the last one
\* that was given, unless it has refused to store one: then it may still say
\* "unknown", or an earlier answer, of a message for which a receipt was sent.
AnswersAreKept ==
    /\ answers # <<>> /\ message.folder # None =>
           /\ \A t \in {"Outbox", "SentMail", "Drafts", "Trash", "Templates"} :
                  box.special[t] # message.folder
           /\ \A i \in box.identities : message.folder \notin {i.drafts, i.fcc, i.templates}
    /\ sent # <<>> =>
           ~message.isReceipt /\ \E i \in 1..Len(answers) : answers[i] \in {"Denied", "Send"}
    /\ answers # <<>> /\ modify = <<>> /\ ~failed =>
           LET last == answers[Len(answers)]
           IN  \/ (message.isReceipt \/ last = "MDNIgnore") /\ state = "MDNIgnore"
               \/ ~message.isReceipt /\ last = "Denied" /\ state = "MDNDenied"
               \/ ~message.isReceipt /\ last = "Send" /\ state = "MDNDisplayed"
=============================================================================
