-------------------------- MODULE BackupJobProofs --------------------------
(***************************************************************************)
(* Proofs about BackupJob for every tree of folders, every mailbox and     *)
(* every size of messages and counter.                                     *)
(***************************************************************************)
EXTENDS BackupJob, SequenceTheorems, FiniteSetTheorems, FunctionTheorems, TLAPS

(* At most one request is under way.  *)
RequestsExclude ==
  /\ fetching # {} => listing = NoFolder /\ timer = FALSE
  /\ listing # NoFolder => timer = FALSE

NoRequestNow == listing = NoFolder /\ fetching = {} /\ timer = FALSE

(* What the job is in each of its states.  In particular a request that is *)
(* still under way when the job is about to be deleted is one that abort() *)
(* could not stop, and then mAborted is set and stops its answer.          *)
StateMeans ==
  /\ state = "new" =>
       /\ aborted = FALSE /\ NoRequestNow /\ progress = FALSE /\ deleted = FALSE
       /\ errors = 0 /\ dones = 0
       /\ pendingMessages = << >> /\ listed = [f \in Folders |-> {}]
  /\ state = "running" =>
       /\ aborted = FALSE /\ ~NoRequestNow /\ open = TRUE /\ deleted = FALSE
       /\ errors = 0 /\ dones = 0
       /\ currentFolder \in Folders
       /\ listing # NoFolder => listing = currentFolder /\ pendingMessages = << >>
  /\ state \in {"doomed", "gone"} =>
       /\ open = FALSE /\ progress = FALSE /\ fetching = {}
       /\ \/ aborted = TRUE /\ errors = 1 /\ dones = 0 /\ deleted = FALSE
          \/ aborted = FALSE /\ errors = 0 /\ dones = 1 /\ NoRequestNow

(* The inductive invariant of the job's control. *)
Inv == TypeOK /\ RequestsExclude /\ StateMeans

(* The folders are queued in a sequence of folders. *)
LEMMA FolderOrdersType ==
  ASSUME NEW s \in FolderOrders
  PROVE  s \in Seq(Folders)
<1>1. CASE ~Recursive
  <2>1. s = <<Root>>
    BY <1>1 DEF FolderOrders
  <2>2. <<Root>> \in Seq(Folders)
    BY FolderAssumption
  <2>3. QED
    BY <2>1, <2>2
<1>2. CASE Recursive
  <2>1. Cardinality(Folders) \in Nat
    BY FolderAssumption, FS_CardinalityType
  <2>2. s \in [1..Cardinality(Folders) -> Folders]
    BY <1>2 DEF FolderOrders
  <2>3. QED
    BY <2>1, <2>2
<1>3. QED
  BY <1>1, <1>2

(* A listing is a sequence of the messages listed. *)
LEMMA ListingsType ==
  ASSUME NEW S \in SUBSET Messages, NEW s \in Listings(S)
  PROVE  s \in Seq(S) /\ s \in Seq(Messages)
<1>1. IsFiniteSet(S) /\ Cardinality(S) \in Nat
  BY MailAssumption, FS_Subset, FS_CardinalityType
<1>2. s \in [1..Cardinality(S) -> S]
  BY DEF Listings
<1>3. QED
  BY <1>1, <1>2

(* What is in the archive after one or two entries have been appended, or  *)
(* after a part of them has.                                               *)
LEMMA AppendOneOrTwo ==
  ASSUME NEW E, NEW a \in Seq(E), NEW x \in E, NEW y \in E
  PROVE  /\ a \o <<x>> = Append(a, x)
         /\ a \o <<x, y>> = Append(Append(a, x), y)
         /\ \A n \in 0..0 : a \o SubSeq(<<x>>, 1, n) = a
         /\ \A n \in 0..1 : a \o SubSeq(<<x, y>>, 1, n) \in {a, Append(a, x)}
<1>1. a \o <<x>> = Append(a, x) /\ a \o <<x, y>> = Append(Append(a, x), y) /\ a \o << >> = a
  OBVIOUS
<1>2. SubSeq(<<x>>, 1, 0) = << >> /\ SubSeq(<<x, y>>, 1, 0) = << >>
  BY SubSeqEmpty
<1>3. SubSeq(<<x, y>>, 1, 1) = <<x>>
  <2> DEFINE both == <<x, y>>
  <2>1. both \in Seq(E) /\ Len(both) = 2 /\ both[1] = x
    OBVIOUS
  <2> HIDE DEF both
  <2>2. \A i \in 1..1 : both[i] \in E
    BY <2>1
  <2>3. /\ SubSeq(both, 1, 1) \in Seq(E) /\ Len(SubSeq(both, 1, 1)) = 1
        /\ SubSeq(both, 1, 1)[1] = both[1]
    BY <2>2, SubSeqProperties
  <2>4. SubSeq(both, 1, 1) = <<x>>
    <3>1. <<x>> \in Seq(E) /\ Len(<<x>>) = 1 /\ <<x>>[1] = x
      OBVIOUS
    <3>2. PICK t : t = SubSeq(both, 1, 1)
      OBVIOUS
    <3>3. t \in Seq(E) /\ Len(t) = Len(<<x>>) /\ \A i \in 1..Len(t) : t[i] = <<x>>[i]
      BY <2>1, <2>3, <3>1, <3>2
    <3>4. t = <<x>>
      BY <3>1, <3>3, SeqEqual
    <3>5. QED
      BY <3>2, <3>4
  <2>5. QED
    BY <2>4 DEF both
<1>4. 0..0 = {0} /\ 0..1 = {0, 1}
  OBVIOUS
<1>5. QED
  BY <1>1, <1>2, <1>3, <1>4

(* The directory entry of a folder follows that for its subfolders, if it  *)
(* has any.                                                                *)
WithFolder(a, f) ==
  Append(IF HasChildren(f) THEN Append(a, <<"subdir", f>>) ELSE a, <<"dir", f>>)

(* What archiveNextFolder does to the folders and to the archive: of the   *)
(* directories of a folder an aborted job has written the first at most,   *)
(* and that only if there are two.                                         *)
LEMMA ArchiveNextFolderWrites ==
  ASSUME NEW folders \in Seq(Folders), NEW a \in Seq(Entries \cup Mails),
         ArchiveNextFolder(folders, a)
  PROVE  /\ pendingFolders' \in Seq(Folders) /\ archive' \in Seq(Entries \cup Mails)
         /\ timer' = FALSE
         /\ \/ /\ folders = << >> /\ pendingFolders' = folders
               /\ archive' = a /\ listing' = NoFolder /\ Finish
            \/ /\ folders # << >> /\ pendingFolders' = Tail(folders)
               /\ archive' = WithFolder(a, Head(folders))
               /\ currentFolder' = Head(folders) /\ listing' = Head(folders) /\ Working
            \/ /\ folders # << >> /\ pendingFolders' = Tail(folders)
               /\ archive' \in {a, Append(a, <<"subdir", Head(folders)>>)}
               /\ listing' = NoFolder /\ Abort
<1>1. CASE folders = << >>
  BY <1>1 DEF ArchiveNextFolder, NoRequest
<1>2. CASE folders # << >>
  <2>1. PICK f \in Folders : f = Head(folders) /\ Tail(folders) \in Seq(Folders)
    BY <1>2
  <2>2. PICK E : E = Entries \cup Mails
    OBVIOUS
  <2>3. <<"subdir", f>> \in E /\ <<"dir", f>> \in E /\ a \in Seq(E)
    BY <2>2 DEF Entries
  <2> DEFINE sub == <<"subdir", f>>
             dir == <<"dir", f>>
             dirs == IF HasChildren(f) THEN <<sub, dir>> ELSE <<dir>>
  <2>4. /\ pendingFolders' = Tail(folders) /\ timer' = FALSE
        /\ \/ archive' = a \o dirs /\ currentFolder' = f /\ listing' = f /\ Working
           \/ /\ \E n \in 0..(Len(dirs) - 1) : archive' = a \o SubSeq(dirs, 1, n)
              /\ listing' = NoFolder /\ Abort
    BY <1>2, <2>1, Zenon DEF ArchiveNextFolder, NoRequest
  <2>5. Len(<<sub, dir>>) - 1 = 1 /\ Len(<<dir>>) - 1 = 0
    OBVIOUS
  <2> HIDE DEF sub, dir
  <2>6. /\ a \o dirs = Append(IF HasChildren(f) THEN Append(a, sub) ELSE a, dir)
        /\ \A n \in 0..(Len(dirs) - 1) : a \o SubSeq(dirs, 1, n) \in {a, Append(a, sub)}
    BY <2>3, <2>5, AppendOneOrTwo DEF sub, dir
  <2> HIDE DEF dirs
  <2>7. WithFolder(a, f) = a \o dirs
    BY <2>6, Zenon DEF WithFolder, sub, dir
  <2>8. Append(a, sub) \in Seq(E) /\ a \o dirs \in Seq(E)
    BY <2>3, <2>6, AppendProperties DEF sub, dir
  <2>9. QED
    BY <1>2, <2>1, <2>2, <2>3, <2>4, <2>6, <2>7, <2>8 DEF sub
<1>3. QED
  BY <1>1, <1>2
-----------------------------------------------------------------------------
(* At most one message is being fetched, whatever fetching becomes. *)
LEMMA NoneOrOne ==
  Cardinality({}) <= 1 /\ \A x : Cardinality({x}) <= 1
BY FS_EmptySet, FS_Singleton

(* The variables that only the environment and the listings change. *)
DataTyped ==
  /\ allFolders' \subseteq Folders
  /\ content' \in [Folders -> SUBSET Messages] /\ listed' \in [Folders -> SUBSET Messages]

(* An abort that takes effect, and a finish, end the job: the request that *)
(* brought them about is over.                                             *)
LEMMA AbortEnds ==
  ASSUME Inv, state \in {"new", "running"}, Abort,
         listing' \in Folders \cup {NoFolder}, timer' \in BOOLEAN,
         listing' # NoFolder => timer' = FALSE,
         pendingFolders' \in Seq(Folders), pendingMessages' \in Seq(Messages),
         archive' \in Seq(Entries \cup Mails), DataTyped
  PROVE  Inv'
<1>1. aborted = FALSE /\ errors = 0 /\ dones = 0 /\ deleted = FALSE
  BY DEF Inv, StateMeans
<1>2. /\ state' = "doomed" /\ aborted' = TRUE /\ open' = FALSE /\ progress' = FALSE
      /\ fetching' = {} /\ currentFolder' = NoFolder
      /\ errors' = 1 /\ dones' = 0 /\ deleted' = FALSE /\ archivedSize' = archivedSize
  BY <1>1 DEF Abort
<1>3. TypeOK'
  BY <1>2, NoneOrOne DEF DataTyped, Inv, TypeOK
<1>4. RequestsExclude' /\ StateMeans'
  BY <1>2 DEF RequestsExclude, StateMeans
<1>5. QED
  BY <1>3, <1>4 DEF Inv

(* The same for the end that is not an abort. *)
LEMMA FinishEnds ==
  ASSUME Inv, state \in {"new", "running"}, fetching = {}, Finish,
         listing' = NoFolder, timer' = FALSE,
         pendingFolders' \in Seq(Folders), pendingMessages' \in Seq(Messages),
         archive' \in Seq(Entries \cup Mails), DataTyped
  PROVE  Inv'
<1>1. CASE Abort
  BY <1>1, AbortEnds
<1>2. CASE Complete /\ UNCHANGED <<currentFolder, fetching>>
  <2>1. aborted = FALSE /\ errors = 0 /\ dones = 0
    BY DEF Inv, StateMeans
  <2>2. /\ state' = "doomed" /\ aborted' = FALSE /\ open' = FALSE /\ progress' = FALSE
        /\ fetching' = {} /\ currentFolder' = currentFolder
        /\ errors' = 0 /\ dones' = 1 /\ archivedSize' = archivedSize
    BY <1>2, <2>1 DEF Complete
  <2>3. deleted' \in BOOLEAN
    BY <1>2, Zenon DEF Complete
  <2>4. TypeOK'
    BY <2>2, <2>3, NoneOrOne DEF DataTyped, Inv, TypeOK
  <2>5. RequestsExclude' /\ StateMeans'
    BY <2>2 DEF RequestsExclude, StateMeans, NoRequestNow
  <2>6. QED
    BY <2>4, <2>5 DEF Inv
<1>3. QED
  BY <1>1, <1>2 DEF Finish

(* archiveNextFolder, called when no message is left, ends the job or asks *)
(* for the next listing.                                                   *)
LEMMA ArchiveNextFolderKeeps ==
  ASSUME Inv, state \in {"new", "running"}, fetching = {},
         NEW folders \in Seq(Folders), NEW a \in Seq(Entries \cup Mails),
         ArchiveNextFolder(folders, a), pendingMessages' = << >>, DataTyped
  PROVE  Inv'
<1>1. /\ pendingFolders' \in Seq(Folders) /\ archive' \in Seq(Entries \cup Mails)
      /\ timer' = FALSE
      /\ \/ listing' = NoFolder /\ (Finish \/ Abort)
         \/ /\ folders # << >> /\ Working
            /\ currentFolder' = Head(folders) /\ listing' = Head(folders)
  BY ArchiveNextFolderWrites
<1>2. pendingMessages' \in Seq(Messages)
  OBVIOUS
<1>3. CASE listing' = NoFolder /\ (Finish \/ Abort)
  BY <1>1, <1>2, <1>3, AbortEnds, FinishEnds
<1>4. CASE /\ folders # << >> /\ Working
           /\ currentFolder' = Head(folders) /\ listing' = Head(folders)
  <2>1. Head(folders) \in Folders /\ Head(folders) # NoFolder
    BY <1>4, FolderAssumption
  <2>2. aborted = FALSE /\ errors = 0 /\ dones = 0 /\ deleted = FALSE
    BY DEF Inv, StateMeans
  <2>3. /\ state' = "running" /\ aborted' = FALSE /\ open' = TRUE /\ progress' = TRUE
        /\ fetching' = {} /\ errors' = 0 /\ dones' = 0 /\ deleted' = FALSE
        /\ archivedSize' = archivedSize
    BY <1>4, <2>2 DEF Working
  <2>4. TypeOK'
    BY <1>1, <1>2, <1>4, <2>1, <2>3, NoneOrOne DEF DataTyped, Inv, TypeOK
  <2>5. RequestsExclude' /\ StateMeans'
    BY <1>1, <1>4, <2>1, <2>3 DEF RequestsExclude, StateMeans, NoRequestNow
  <2>6. QED
    BY <2>4, <2>5 DEF Inv
<1>5. QED
  BY <1>1, <1>3, <1>4

(* archiveNextMessage, called for the answer to the only request, leaves   *)
(* one request under way or ends the job; when mAborted is set it does     *)
(* nothing, and no request is left.                                        *)
LEMMA ArchiveNextMessageKeeps ==
  ASSUME Inv, state # "gone", ~NoRequestNow, fetching = {},
         NEW messages \in Seq(Messages), ArchiveNextMessage(messages), DataTyped
  PROVE  Inv'
<1>1. /\ state \in {"running", "doomed"}
      /\ state = "running" <=> aborted = FALSE
      /\ state = "running" => currentFolder \in Folders
      /\ archive \in Seq(Entries \cup Mails) /\ pendingFolders \in Seq(Folders)
  BY DEF Inv, TypeOK, StateMeans
<1>2. CASE /\ aborted /\ pendingMessages' = messages /\ NoRequest
           /\ Unharmed /\ UNCHANGED <<pendingFolders, currentFolder, fetching, archive>>
  <2>1. state = "doomed" /\ state' = "doomed"
    BY <1>1, <1>2 DEF Unharmed
  <2>2. TypeOK'
    BY <1>2 DEF Unharmed, NoRequest, DataTyped, Inv, TypeOK
  <2>3. RequestsExclude' /\ StateMeans'
    BY <1>2, <2>1 DEF Unharmed, NoRequest, Inv, RequestsExclude, StateMeans, NoRequestNow
  <2>4. QED
    BY <2>2, <2>3 DEF Inv
<1>3. CASE ~aborted /\ messages = << >> /\ pendingMessages' = messages
           /\ ArchiveNextFolder(pendingFolders, archive)
  BY <1>1, <1>3, ArchiveNextFolderKeeps DEF Inv, TypeOK
<1>4. CASE /\ ~aborted /\ messages # << >> /\ pendingMessages' = Tail(messages)
           /\ fetching' = {Head(messages)} /\ NoRequest
           /\ Unharmed /\ UNCHANGED <<pendingFolders, currentFolder, archive>>
  <2>1. state = "running" /\ state' = "running" /\ currentFolder \in Folders
    BY <1>1, <1>4 DEF Unharmed
  <2>2. Head(messages) \in Messages /\ Tail(messages) \in Seq(Messages)
    BY <1>4
  <2>3. TypeOK'
    BY <1>4, <2>2, NoneOrOne DEF Unharmed, NoRequest, DataTyped, Inv, TypeOK
  <2>4. RequestsExclude' /\ StateMeans'
    BY <1>4, <2>1 DEF Unharmed, NoRequest, Inv, RequestsExclude, StateMeans, NoRequestNow
  <2>5. QED
    BY <2>3, <2>4 DEF Inv
<1>5. QED
  BY <1>2, <1>3, <1>4 DEF ArchiveNextMessage

(* start() queues the folders and begins with the first, or fails. *)
LEMMA StartKeeps ==
  ASSUME Inv, Start
  PROVE  Inv'
<1>1. /\ state = "new" /\ fetching = {} /\ pendingMessages' = << >>
      /\ content' \in [Folders -> SUBSET Messages] /\ listed' \in [Folders -> SUBSET Messages]
  BY DEF Start, Inv, TypeOK, StateMeans, NoRequestNow
<1>2. PICK s \in FolderOrders :
        \/ allFolders' = {s[i] : i \in DOMAIN s} /\ ArchiveNextFolder(s, << >>)
        \/ \E n \in 1..Len(s) : \E k \in 0..n :
             /\ pendingFolders' = SubSeq(s, 1, n) /\ allFolders' = {s[i] : i \in 1..k}
             /\ archive' = << >> /\ NoRequest /\ Abort
  BY DEF Start
<1>3. s \in Seq(Folders) /\ Len(s) \in Nat /\ \A i \in 1..Len(s) : s[i] \in Folders
  BY FolderOrdersType
<1>4. CASE allFolders' = {s[i] : i \in DOMAIN s} /\ ArchiveNextFolder(s, << >>)
  <2>1. DataTyped /\ << >> \in Seq(Entries \cup Mails)
    BY <1>1, <1>3, <1>4 DEF DataTyped
  <2>2. QED
    BY <1>1, <1>3, <1>4, <2>1, ArchiveNextFolderKeeps
<1>5. ASSUME NEW n \in 1..Len(s), NEW k \in 0..n,
             pendingFolders' = SubSeq(s, 1, n), allFolders' = {s[i] : i \in 1..k},
             archive' = << >>, NoRequest, Abort
      PROVE  Inv'
  <2>1. pendingFolders' \in Seq(Folders)
    <3>1. \A i \in 1..n : s[i] \in Folders
      BY <1>3
    <3>2. QED
      BY <1>5, <3>1, SubSeqProperties
  <2>2. DataTyped
    BY <1>1, <1>3, <1>5 DEF DataTyped
  <2>3. archive' \in Seq(Entries \cup Mails) /\ pendingMessages' \in Seq(Messages)
    BY <1>1, <1>5
  <2>4. listing' = NoFolder /\ timer' = FALSE
    BY <1>5 DEF NoRequest
  <2>5. QED
    BY <1>1, <1>5, <2>1, <2>2, <2>3, <2>4, AbortEnds
<1>6. QED
  BY <1>2, <1>4, <1>5

(* The answer to a listing. *)
LEMMA FolderListedKeeps ==
  ASSUME Inv, FolderListed
  PROVE  Inv'
<1>1. /\ listing \in Folders /\ listing # NoFolder /\ state # "gone"
      /\ fetching = {} /\ ~NoRequestNow /\ state \in {"running", "doomed"}
      /\ content \in [Folders -> SUBSET Messages] /\ listed \in [Folders -> SUBSET Messages]
      /\ pendingMessages \in Seq(Messages) /\ pendingFolders \in Seq(Folders)
      /\ archive \in Seq(Entries \cup Mails) /\ allFolders \subseteq Folders
      /\ UNCHANGED <<allFolders, content>>
  BY DEF FolderListed, Inv, TypeOK, RequestsExclude, StateMeans, NoRequestNow
<1>2. ASSUME NEW s \in Listings(content[listing]),
             ArchiveNextMessage(pendingMessages \o s),
             listed' = [listed EXCEPT ![listing] = content[listing]]
      PROVE  Inv'
  <2>1. pendingMessages \o s \in Seq(Messages)
    BY <1>1, ListingsType
  <2>2. DataTyped
    BY <1>1, <1>2 DEF DataTyped
  <2>3. QED
    BY <1>1, <1>2, <2>1, <2>2, ArchiveNextMessageKeeps
<1>3. CASE /\ NoRequest
           /\ \/ ~aborted /\ Abort
              \/ aborted /\ Unharmed /\ UNCHANGED <<currentFolder, fetching>>
           /\ UNCHANGED <<pendingFolders, pendingMessages, archive, listed>>
  <2>1. DataTyped /\ listing' = NoFolder /\ timer' = FALSE
    BY <1>1, <1>3 DEF DataTyped, NoRequest
  <2>2. CASE ~aborted /\ Abort
    <3>1. state = "running"
      BY <1>1, <2>2 DEF Inv, StateMeans
    <3>2. QED
      BY <1>1, <1>3, <2>1, <2>2, <3>1, AbortEnds
  <2>3. CASE aborted /\ Unharmed /\ UNCHANGED <<currentFolder, fetching>>
    <3>1. state = "doomed" /\ state' = "doomed"
      BY <1>1, <2>3 DEF Unharmed, Inv, StateMeans
    <3>2. TypeOK'
      BY <1>3, <2>1, <2>3 DEF Unharmed, DataTyped, Inv, TypeOK
    <3>3. RequestsExclude' /\ StateMeans'
      BY <1>1, <1>3, <2>1, <2>3, <3>1 DEF Unharmed, Inv, RequestsExclude, StateMeans, NoRequestNow
    <3>4. QED
      BY <3>2, <3>3 DEF Inv
  <2>4. QED
    BY <1>3, <2>2, <2>3
<1>4. QED
  BY <1>2, <1>3 DEF FolderListed

(* The answer to the fetch of a message. *)
LEMMA MessageFetchedKeeps ==
  ASSUME Inv, MessageFetched
  PROVE  Inv'
<1>1. PICK m \in fetching :
        /\ \/ ProcessMessage(m) /\ fetching' = {}
           \/ Abort /\ NoRequest /\ UNCHANGED archive
        /\ UNCHANGED <<pendingFolders, allFolders, pendingMessages, content, listed>>
  BY DEF MessageFetched
<1>2. /\ m \in Messages /\ state = "running" /\ listing = NoFolder /\ currentFolder \in Folders
      /\ archive \in Seq(Entries \cup Mails) /\ archivedSize \in 0..(SizeLimit - 1)
  BY DEF MessageFetched, Inv, TypeOK, RequestsExclude, StateMeans, NoRequestNow
<1>3. DataTyped
  BY <1>1 DEF DataTyped, Inv, TypeOK
<1>4. CASE ProcessMessage(m) /\ fetching' = {}
  <2>1. <<"mail", currentFolder, m>> \in Entries \cup Mails
    BY <1>2 DEF Mails
  <2>2. archive' \in Seq(Entries \cup Mails)
    BY <1>2, <1>4, <2>1 DEF ProcessMessage
  <2>3. archivedSize' \in 0..(SizeLimit - 1)
    <3>1. Size[m] \in Nat /\ SizeLimit \in Nat \ {0} /\ archivedSize + Size[m] \in Nat
      BY <1>2, SizeAssumption
    <3>2. (archivedSize + Size[m]) % SizeLimit \in 0..(SizeLimit - 1)
      BY <3>1
    <3>3. QED
      BY <1>4, <3>2 DEF ProcessMessage
  <2>4. TypeOK'
    BY <1>1, <1>3, <1>4, <2>2, <2>3, NoneOrOne DEF ProcessMessage, DataTyped, Inv, TypeOK
  <2>5. RequestsExclude' /\ StateMeans'
    BY <1>1, <1>2, <1>4 DEF ProcessMessage, Inv, RequestsExclude, StateMeans, NoRequestNow
  <2>6. QED
    BY <2>4, <2>5 DEF Inv
<1>5. CASE Abort /\ NoRequest /\ UNCHANGED archive
  BY <1>1, <1>2, <1>3, <1>5, AbortEnds DEF NoRequest, Inv, TypeOK
<1>6. QED
  BY <1>1, <1>4, <1>5

(* The timer that calls archiveNextMessage. *)
LEMMA TimerFiresKeeps ==
  ASSUME Inv, TimerFires
  PROVE  Inv'
<1>1. /\ timer = TRUE /\ state # "gone" /\ fetching = {} /\ ~NoRequestNow
      /\ pendingMessages \in Seq(Messages)
  BY DEF TimerFires, Inv, TypeOK, RequestsExclude, NoRequestNow
<1>2. DataTyped
  BY DEF TimerFires, DataTyped, Inv, TypeOK
<1>3. QED
  BY <1>1, <1>2, ArchiveNextMessageKeeps DEF TimerFires

(* The user's cancelling, which may find any request under way. *)
LEMMA CancelJobKeeps ==
  ASSUME Inv, CancelJob
  PROVE  Inv'
<1>1. state = "running"
  BY DEF CancelJob, Inv, TypeOK, StateMeans
<1>2. DataTyped
  BY DEF CancelJob, DataTyped, Inv, TypeOK
<1>3. /\ listing' \in Folders \cup {NoFolder} /\ timer' \in BOOLEAN
      /\ listing' # NoFolder => timer' = FALSE
  BY DEF CancelJob, Inv, TypeOK, RequestsExclude
<1>4. QED
  BY <1>1, <1>2, <1>3, AbortEnds DEF CancelJob, Inv, TypeOK

(* The rest leaves the job as it is or takes a dead one away. *)
LEMMA OthersKeep ==
  ASSUME Inv, Destroyed \/ MessageRemoved \/ MessageArrives \/ UNCHANGED vars
  PROVE  Inv'
<1>1. CASE Destroyed
  <2>1. TypeOK'
    BY <1>1 DEF Destroyed, NoRequest, Inv, TypeOK
  <2>2. RequestsExclude' /\ StateMeans'
    BY <1>1 DEF Destroyed, NoRequest, Inv, RequestsExclude, StateMeans, NoRequestNow
  <2>3. QED
    BY <2>1, <2>2 DEF Inv
<1>2. CASE MessageRemoved \/ MessageArrives \/ UNCHANGED vars
  <2>1. content' \in [Folders -> SUBSET Messages] /\ UNCHANGED jobVars
    BY <1>2 DEF MessageRemoved, MessageArrives, vars, Inv, TypeOK
  <2>2. TypeOK'
    BY <2>1 DEF jobVars, Inv, TypeOK
  <2>3. RequestsExclude' /\ StateMeans'
    BY <2>1 DEF jobVars, Inv, RequestsExclude, StateMeans, NoRequestNow
  <2>4. QED
    BY <2>2, <2>3 DEF Inv
<1>3. QED
  BY <1>1, <1>2

(* Every step keeps the invariant. *)
LEMMA InvKept == Inv /\ [Next]_vars => Inv'
BY StartKeeps, FolderListedKeeps, MessageFetchedKeeps, TimerFiresKeeps, CancelJobKeeps,
   OthersKeep DEF Next

(* The control of the job is sound in every reachable state.               *)
THEOREM InvHolds == Spec => []Inv
<1>1. Init => Inv
  <2> SUFFICES ASSUME Init PROVE Inv
    OBVIOUS
  <2>1. archivedSize \in 0..(SizeLimit - 1)
    BY SizeAssumption DEF Init
  <2>2. TypeOK
    <3>1. fetching \subseteq Messages /\ Cardinality(fetching) <= 1
      BY NoneOrOne DEF Init
    <3>2. /\ << >> \in Seq(Folders) /\ << >> \in Seq(Messages) /\ << >> \in Seq(Entries \cup Mails)
          /\ [f \in Folders |-> {}] \in [Folders -> SUBSET Messages]
      OBVIOUS
    <3>3. QED
      BY <2>1, <3>1, <3>2, MailAssumption DEF Init, TypeOK
  <2>3. RequestsExclude /\ StateMeans
    BY DEF Init, RequestsExclude, StateMeans, NoRequestNow
  <2>4. QED
    BY <2>2, <2>3 DEF Inv
<1>2. QED
  BY <1>1, InvKept, PTL DEF Spec

(* Type correctness. *)
THEOREM TypeCorrect == Spec => []TypeOK
<1>1. Inv => TypeOK
  BY DEF Inv
<1>2. QED
  BY <1>1, InvHolds, PTL

(* error or backupDone is emitted, once, and only by a job that ends.      *)
THEOREM OutcomeIsOne == Spec => []OneOutcome
<1>1. Inv => OneOutcome
  <2> SUFFICES ASSUME Inv PROVE OneOutcome
    OBVIOUS
  <2>1. CASE state \in {"new", "running"}
    BY <2>1 DEF Inv, StateMeans, OneOutcome
  <2>2. CASE state \in {"doomed", "gone"}
    BY <2>2 DEF Inv, StateMeans, OneOutcome
  <2>3. QED
    BY <2>1, <2>2 DEF Inv, TypeOK
<1>2. QED
  BY <1>1, InvHolds, PTL

(* The job waits for one answer at a time, and no answer writes to an      *)
(* archive that has been closed.                                           *)
THEOREM AnswersFindTheirJob == Spec => AnswersInTurn
<1>1. Inv => OneRequest
  <2> SUFFICES ASSUME Inv PROVE OneRequest
    OBVIOUS
  <2> DEFINE under == {r \in {"list", "fetch", "timer"} :
                         CASE r = "list"  -> listing # NoFolder
                           [] r = "fetch" -> fetching # {}
                           [] r = "timer" -> timer}
  <2>1. /\ "list" \in under <=> listing # NoFolder
        /\ "fetch" \in under <=> fetching # {}
        /\ "timer" \in under <=> timer
        /\ under \subseteq {"list", "fetch", "timer"}
    OBVIOUS
  <2>2. timer \in BOOLEAN /\ RequestsExclude
    BY DEF Inv, TypeOK
  <2>3. under = {} \/ \E x : under = {x}
    <3> HIDE DEF under
    <3>1. under = {} \/ under = {"list"} \/ under = {"fetch"} \/ under = {"timer"}
      BY <2>1, <2>2 DEF RequestsExclude
    <3>2. QED
      BY <3>1
  <2>4. Cardinality(under) <= 1
    BY <2>3, NoneOrOne
  <2>5. state = "running" => listing # NoFolder \/ fetching # {} \/ timer
    BY <2>2 DEF Inv, StateMeans, NoRequestNow
  <2>6. QED
    BY <2>4, <2>5 DEF OneRequest
<1>2. Inv /\ [Next]_vars => [(archive' # archive /\ state # "new") => open]_vars
  <2> SUFFICES ASSUME Inv, [Next]_vars, archive' # archive, state # "new" PROVE open
    OBVIOUS
  <2>1. ~NoRequestNow /\ ~aborted
    <3>1. \/ MessageFetched
          \/ FolderListed /\ \E s \in Listings(content[listing]) :
                               ArchiveNextMessage(pendingMessages \o s)
          \/ TimerFires
      BY DEF Next, Start, FolderListed, CancelJob, Destroyed, MessageRemoved, MessageArrives,
         vars, jobVars
    <3>2. ASSUME NEW messages, ArchiveNextMessage(messages) PROVE ~aborted
      BY <3>2 DEF ArchiveNextMessage
    <3>3. QED
      BY <3>1, <3>2 DEF MessageFetched, FolderListed, TimerFires, NoRequestNow
  <2>2. QED
    BY <2>1 DEF Inv, TypeOK, StateMeans
<1>3. QED
  BY <1>1, <1>2, InvHolds, PTL DEF Spec, AnswersInTurn, WritesToOpenArchive
-----------------------------------------------------------------------------
(***************************************************************************)
(* What BackupJob writes: for every tree of folders and every mailbox,     *)
(* backupDone means a complete archive, and the deletion of the folder is  *)
(* asked for only with everything listed inside it.                        *)
(***************************************************************************)

Distinct(s) == \A i, j \in DOMAIN s : s[i] = s[j] => i = j

(* ParentsFirst of an archive with these entries. *)
OrderedIn(a) ==
  /\ \A f \in Folders \ {Root} :
       <<"dir", f>> \in Range(a) => Before(a, <<"subdir", Parent[f]>>, <<"dir", f>>)
  /\ \A f \in Folders : \A m \in Messages :
       <<"mail", f, m>> \in Range(a) => Before(a, <<"dir", f>>, <<"mail", f, m>>)

ArchiveSound(a) == Distinct(a) /\ OrderedIn(a)

(* The folders still to be archived, in sequence: each is pending or in    *)
(* the archive, never both, and comes after its parent.                    *)
QueueSound(folders, a, all) ==
  /\ Distinct(folders) /\ Range(folders) \subseteq all
  /\ \A f \in all : <<"dir", f>> \in Range(a) \/ f \in Range(folders)
  /\ \A f \in Range(folders) : <<"dir", f>> \notin Range(a) /\ <<"subdir", f>> \notin Range(a)
  /\ \A i \in DOMAIN folders : folders[i] # Root =>
       \/ <<"subdir", Parent[folders[i]]>> \in Range(a)
       \/ \E j \in DOMAIN folders : j < i /\ folders[j] = Parent[folders[i]]

(* All that was listed is in the archive, but for the messages that still  *)
(* wait to be fetched, of the folder f.                                    *)
AllSaved(lists, a, f, waiting) ==
  \A g \in Folders : \A m \in lists[g] :
    <<"mail", g, m>> \in Range(a) \/ (g = f /\ m \in waiting)

(* The folder f can take these messages: its directory is there, and none  *)
(* of them is.                                                             *)
Ready(f, a, waiting) ==
  <<"dir", f>> \in Range(a) /\ \A m \in waiting : <<"mail", f, m>> \notin Range(a)

Waiting == fetching \cup Range(pendingMessages)

(* The inductive invariant of what the job writes. *)
WholeInv ==
  /\ ArchiveSound(archive)
  /\ state = "running" \/ dones = 1 =>
       /\ QueueSound(pendingFolders, archive, allFolders)
       /\ AllSaved(listed, archive, currentFolder, Waiting)
  /\ state = "running" =>
       /\ Ready(currentFolder, archive, Waiting)
       /\ Distinct(pendingMessages) /\ fetching \cap Range(pendingMessages) = {}
       /\ listing # NoFolder => Ready(currentFolder, archive, Messages)
  /\ dones = 1 => pendingFolders = << >> /\ pendingMessages = << >>
-----------------------------------------------------------------------------
(* The entries of a sequence to which one is appended. *)
LEMMA Appended ==
  ASSUME NEW E, NEW a \in Seq(E), NEW x \in E
  PROVE  /\ Append(a, x) \in Seq(E) /\ Range(Append(a, x)) = Range(a) \cup {x}
         /\ Distinct(a) /\ x \notin Range(a) => Distinct(Append(a, x))
         /\ \A y, z : Before(a, y, z) => Before(Append(a, x), y, z)
         /\ \A y \in Range(a) : Before(Append(a, x), y, x)
<1>1. PICK b : b = Append(a, x)
  OBVIOUS
<1>2. PICK n : n = Len(a)
  OBVIOUS
<1>3. n \in Nat /\ DOMAIN a = 1..n
  BY <1>2
<1>4. /\ b \in Seq(E) /\ Len(b) = n + 1 /\ b[n + 1] = x /\ DOMAIN b = 1..(n + 1)
      /\ \A i \in 1..n : b[i] = a[i]
  BY <1>1, <1>2, AppendProperties
<1>5. Range(b) = Range(a) \cup {x}
  <2>1. \A y : y \in Range(b) <=> \E i \in 1..(n + 1) : b[i] = y
    BY <1>4 DEF Range
  <2>2. \A y : y \in Range(a) <=> \E i \in 1..n : a[i] = y
    BY <1>3 DEF Range
  <2>3. \A y \in Range(b) : y \in Range(a) \cup {x}
    BY <2>1, <2>2, <1>3, <1>4
  <2>4. \A y \in Range(a) : y \in Range(b)
    BY <2>1, <2>2, <1>3, <1>4
  <2>5. x \in Range(b)
    BY <2>1, <1>3, <1>4
  <2>6. QED
    BY <2>3, <2>4, <2>5
<1>6. ASSUME Distinct(a), x \notin Range(a) PROVE Distinct(b)
  <2> SUFFICES ASSUME NEW i \in 1..(n + 1), NEW j \in 1..(n + 1), b[i] = b[j] PROVE i = j
    BY <1>4 DEF Distinct
  <2>1. \A k \in 1..n : a[k] # x
    BY <1>3, <1>6 DEF Range
  <2>2. QED
    BY <1>3, <1>4, <1>6, <2>1 DEF Distinct
<1>7. ASSUME NEW y, NEW z, Before(a, y, z) PROVE Before(b, y, z)
  <2>1. PICK i \in 1..n, j \in 1..n : i < j /\ a[i] = y /\ a[j] = z
    BY <1>3, <1>7 DEF Before
  <2>2. i \in 1..(n + 1) /\ j \in 1..(n + 1) /\ b[i] = y /\ b[j] = z
    BY <1>3, <1>4, <2>1
  <2>3. QED
    BY <1>4, <2>1, <2>2 DEF Before
<1>8. ASSUME NEW y \in Range(a) PROVE Before(b, y, x)
  <2>1. PICK i \in 1..n : a[i] = y
    BY <1>3, <1>8 DEF Range
  <2>2. i \in 1..(n + 1) /\ n + 1 \in 1..(n + 1) /\ i < n + 1 /\ b[i] = y
    BY <1>3, <1>4, <2>1
  <2>3. QED
    BY <1>4, <2>2 DEF Before
<1>9. QED
  BY <1>1, <1>4, <1>5, <1>6, <1>7, <1>8

(* Head and tail of a sequence without repetitions. *)
LEMMA HeadAndTail ==
  ASSUME NEW S, NEW s \in Seq(S), s # << >>
  PROVE  /\ Range(s) = {Head(s)} \cup Range(Tail(s))
         /\ Distinct(s) => Head(s) \notin Range(Tail(s)) /\ Distinct(Tail(s))
<1>1. PICK t : t = Tail(s)
  OBVIOUS
<1>2. PICK n : n = Len(t)
  OBVIOUS
<1>3. /\ n \in Nat /\ Len(s) = n + 1 /\ t \in Seq(S) /\ Head(s) = s[1]
      /\ \A i \in 1..n : t[i] = s[i + 1]
  BY <1>1, <1>2, HeadTailProperties
<1>4. DOMAIN t = 1..n /\ DOMAIN s = 1..(n + 1)
  BY <1>2, <1>3
<1>5. Range(s) = {s[1]} \cup Range(t)
  <2>1. \A y : y \in Range(s) <=> \E i \in 1..(n + 1) : s[i] = y
    BY <1>4 DEF Range
  <2>2. \A y : y \in Range(t) <=> \E i \in 1..n : t[i] = y
    BY <1>4 DEF Range
  <2>3. \A y \in Range(s) : y \in {s[1]} \cup Range(t)
    <3> SUFFICES ASSUME NEW i \in 1..(n + 1), i # 1 PROVE s[i] \in Range(t)
      BY <2>1
    <3>1. i - 1 \in 1..n /\ (i - 1) + 1 = i
      BY <1>3
    <3>2. t[i - 1] = s[i]
      BY <1>3, <3>1
    <3>3. QED
      BY <2>2, <3>1, <3>2
  <2>4. \A y \in Range(t) : y \in Range(s)
    <3> SUFFICES ASSUME NEW i \in 1..n PROVE t[i] \in Range(s)
      BY <2>2
    <3>1. i + 1 \in 1..(n + 1) /\ t[i] = s[i + 1]
      BY <1>3
    <3>2. QED
      BY <2>1, <3>1
  <2>5. s[1] \in Range(s)
    BY <2>1, <1>3
  <2>6. QED
    BY <2>3, <2>4, <2>5
<1>6. ASSUME Distinct(s) PROVE s[1] \notin Range(t) /\ Distinct(t)
  <2>1. ASSUME NEW i \in 1..n PROVE t[i] # s[1]
    <3>1. i + 1 \in 1..(n + 1) /\ 1 \in 1..(n + 1) /\ i + 1 # 1 /\ t[i] = s[i + 1]
      BY <1>3
    <3>2. QED
      BY <1>4, <1>6, <3>1 DEF Distinct
  <2>2. ASSUME NEW i \in 1..n, NEW j \in 1..n, t[i] = t[j] PROVE i = j
    <3>1. i + 1 \in 1..(n + 1) /\ j + 1 \in 1..(n + 1) /\ s[i + 1] = s[j + 1]
      BY <1>3, <2>2
    <3>2. i + 1 = j + 1
      BY <1>4, <1>6, <3>1 DEF Distinct
    <3>3. QED
      BY <3>2
  <2>3. QED
    BY <1>4, <2>1, <2>2 DEF Distinct, Range
<1>7. QED
  BY <1>1, <1>3, <1>5, <1>6
-----------------------------------------------------------------------------
(* The three kinds of entries differ. *)
LEMMA KindsDiffer ==
  \A f, g, m : /\ <<"dir", f>> # <<"subdir", g>> /\ <<"mail", f, m>> # <<"subdir", g>>
               /\ <<"mail", f, m>> # <<"dir", g>>
               /\ <<"dir", f>> = <<"dir", g>> => f = g
               /\ <<"subdir", f>> = <<"subdir", g>> => f = g
<1>1. "dir" # "subdir"
  OBVIOUS
<1>2. QED
  BY <1>1

(* The archive stays sound when the entry for the subfolders of a folder,  *)
(* its directory, or one of its messages is appended in its turn.          *)
LEMMA SubdirFits ==
  ASSUME NEW a \in Seq(Entries \cup Mails), ArchiveSound(a), NEW f \in Folders,
         <<"subdir", f>> \notin Range(a)
  PROVE  ArchiveSound(Append(a, <<"subdir", f>>))
<1> DEFINE x == <<"subdir", f>>
<1>1. x \in Entries \cup Mails
  BY DEF Entries
<1>2. \A g, m : x # <<"dir", g>> /\ x # <<"mail", g, m>>
  BY KindsDiffer
<1> HIDE DEF x
<1>3. Range(Append(a, x)) = Range(a) \cup {x}
      /\ \A y, z : Before(a, y, z) => Before(Append(a, x), y, z)
  BY <1>1, Appended
<1>4. Distinct(Append(a, x))
  BY <1>1, Appended DEF ArchiveSound, x
<1>5. OrderedIn(Append(a, x))
  BY <1>2, <1>3 DEF ArchiveSound, OrderedIn
<1>6. QED
  BY <1>4, <1>5 DEF ArchiveSound, x

(* A directory fits in when the one above it has room made for it, ... *)
LEMMA DirFits ==
  ASSUME NEW a \in Seq(Entries \cup Mails), ArchiveSound(a), NEW f \in Folders,
         <<"dir", f>> \notin Range(a), f # Root => <<"subdir", Parent[f]>> \in Range(a)
  PROVE  ArchiveSound(Append(a, <<"dir", f>>))
<1> DEFINE x == <<"dir", f>>
<1>1. x \in Entries \cup Mails
  BY DEF Entries
<1>2. \A g, m : (x = <<"dir", g>> => f = g) /\ x # <<"mail", g, m>>
  BY KindsDiffer
<1> HIDE DEF x
<1>3. Range(Append(a, x)) = Range(a) \cup {x}
      /\ (\A y, z : Before(a, y, z) => Before(Append(a, x), y, z))
      /\ \A y \in Range(a) : Before(Append(a, x), y, x)
  BY <1>1, Appended
<1>4. Distinct(Append(a, x))
  BY <1>1, Appended DEF ArchiveSound, x
<1>5. \A g \in Folders \ {Root} :
        <<"dir", g>> \in Range(Append(a, x)) =>
          Before(Append(a, x), <<"subdir", Parent[g]>>, <<"dir", g>>)
  <2> SUFFICES ASSUME NEW g \in Folders \ {Root}, <<"dir", g>> \in Range(Append(a, x))
               PROVE  Before(Append(a, x), <<"subdir", Parent[g]>>, <<"dir", g>>)
    OBVIOUS
  <2>1. CASE <<"dir", g>> \in Range(a)
    BY <1>3, <2>1 DEF ArchiveSound, OrderedIn
  <2>2. CASE <<"dir", g>> = x
    <3>1. g = f /\ <<"subdir", Parent[g]>> \in Range(a)
      BY <1>2, <2>2
    <3>2. QED
      BY <1>3, <2>2, <3>1
  <2>3. QED
    BY <1>3, <2>1, <2>2
<1>6. \A g \in Folders : \A m \in Messages :
        <<"mail", g, m>> \in Range(Append(a, x)) =>
          Before(Append(a, x), <<"dir", g>>, <<"mail", g, m>>)
  BY <1>2, <1>3 DEF ArchiveSound, OrderedIn
<1>7. QED
  BY <1>4, <1>5, <1>6 DEF ArchiveSound, OrderedIn, x

(* ... and a message when its directory is there. *)
LEMMA MailFits ==
  ASSUME NEW a \in Seq(Entries \cup Mails), ArchiveSound(a),
         NEW f \in Folders, NEW m \in Messages,
         <<"mail", f, m>> \notin Range(a), <<"dir", f>> \in Range(a)
  PROVE  ArchiveSound(Append(a, <<"mail", f, m>>))
<1> DEFINE x == <<"mail", f, m>>
<1>1. x \in Entries \cup Mails
  BY DEF Mails
<1>2. \A g, n : x # <<"dir", g>> /\ (x = <<"mail", g, n>> => f = g /\ m = n)
  BY KindsDiffer
<1> HIDE DEF x
<1>3. Range(Append(a, x)) = Range(a) \cup {x}
      /\ (\A y, z : Before(a, y, z) => Before(Append(a, x), y, z))
      /\ \A y \in Range(a) : Before(Append(a, x), y, x)
  BY <1>1, Appended
<1>4. Distinct(Append(a, x))
  BY <1>1, Appended DEF ArchiveSound, x
<1>5. \A g \in Folders \ {Root} :
        <<"dir", g>> \in Range(Append(a, x)) =>
          Before(Append(a, x), <<"subdir", Parent[g]>>, <<"dir", g>>)
  BY <1>2, <1>3 DEF ArchiveSound, OrderedIn
<1>6. \A g \in Folders : \A n \in Messages :
        <<"mail", g, n>> \in Range(Append(a, x)) =>
          Before(Append(a, x), <<"dir", g>>, <<"mail", g, n>>)
  <2> SUFFICES ASSUME NEW g \in Folders, NEW n \in Messages,
                      <<"mail", g, n>> \in Range(Append(a, x))
               PROVE  Before(Append(a, x), <<"dir", g>>, <<"mail", g, n>>)
    OBVIOUS
  <2>1. CASE <<"mail", g, n>> \in Range(a)
    BY <1>3, <2>1 DEF ArchiveSound, OrderedIn
  <2>2. CASE <<"mail", g, n>> = x
    <3>1. g = f
      BY <1>2, <2>2
    <3>2. QED
      BY <1>3, <2>2, <3>1
  <2>3. QED
    BY <1>3, <2>1, <2>2
<1>7. QED
  BY <1>4, <1>5, <1>6 DEF ArchiveSound, OrderedIn, x
-----------------------------------------------------------------------------
(* queueFolders appends each folder once, and after its parent. *)
LEMMA OrdersAreQueues ==
  ASSUME NEW s \in FolderOrders
  PROVE  QueueSound(s, << >>, Range(s))
<1>1. s \in Seq(Folders) /\ DOMAIN s = 1..Len(s) /\ Len(s) \in Nat
  BY FolderOrdersType
<1>2. CASE ~Recursive
  <2>1. s = <<Root>>
    BY <1>2 DEF FolderOrders
  <2>2. DOMAIN s = {1} /\ s[1] = Root
    BY <2>1
  <2>3. Distinct(s)
    BY <2>2 DEF Distinct
  <2>4. Range(<< >>) = {}
    BY DEF Range
  <2>5. QED
    BY <2>2, <2>3, <2>4 DEF QueueSound, Range
<1>3. CASE Recursive
  <2> DEFINE n == Cardinality(Folders)
  <2>1. /\ n \in Nat /\ IsFiniteSet(1..n) /\ Cardinality(1..n) = n
        /\ s \in [1..n -> Folders] /\ Range(s) = Folders
        /\ \A i, j \in DOMAIN s : Under(s[i], s[j]) => i <= j
    <3>1. n \in Nat
      BY FolderAssumption, FS_CardinalityType
    <3>2. IsFiniteSet(1..n) /\ Cardinality(1..n) = n
      BY <3>1, FS_Interval
    <3>3. /\ s \in [1..n -> Folders] /\ Range(s) = Folders
          /\ \A i, j \in DOMAIN s : Under(s[i], s[j]) => i <= j
      BY <1>3 DEF FolderOrders, Range
    <3>4. QED
      BY <3>1, <3>2, <3>3
  <2>2. Distinct(s)
    <3>1. s \in Surjection(1..n, Folders)
      BY <2>1, Fun_RangeProperties
    <3>2. s \in Injection(1..n, Folders)
      BY <2>1, <3>1, FS_SurjSameCardinalityImpliesInj
    <3>3. QED
      BY <2>1, <3>2, Fun_InjectionProperties DEF Distinct
  <2>3. ASSUME NEW i \in DOMAIN s, s[i] # Root
        PROVE  \E j \in DOMAIN s : j < i /\ s[j] = Parent[s[i]]
    <3>1. Parent[s[i]] \in Folders /\ Parent[s[i]] # s[i]
      BY <2>1, <2>3, ParentAssumption
    <3>2. PICK j \in DOMAIN s : s[j] = Parent[s[i]]
      BY <2>1, <3>1 DEF Range
    <3>3. Under(s[j], s[i])
      BY <2>3, <3>2 DEF Under
    <3>4. j <= i /\ j # i
      BY <2>1, <3>1, <3>2, <3>3
    <3>5. j < i
      BY <2>1, <3>4
    <3>6. QED
      BY <3>2, <3>5
  <2>4. Range(<< >>) = {}
    BY DEF Range
  <2>5. \A f \in Range(s) : <<"dir", f>> \notin Range(<< >>) /\ <<"subdir", f>> \notin Range(<< >>)
    BY <2>4
  <2>6. QED
    BY <2>2, <2>3, <2>5 DEF QueueSound
<1>4. QED
  BY <1>2, <1>3

(* The server lists each message of a folder once. *)
LEMMA ListingsAreExact ==
  ASSUME NEW S \in SUBSET Messages, NEW s \in Listings(S)
  PROVE  Distinct(s) /\ Range(s) = S
<1> DEFINE n == Cardinality(S)
<1>1. n \in Nat
  BY MailAssumption, FS_Subset, FS_CardinalityType
<1>2. IsFiniteSet(1..n) /\ Cardinality(1..n) = n
  BY <1>1, FS_Interval
<1>3. s \in [1..n -> S] /\ Range(s) = S
  BY DEF Listings, Range
<1> HIDE DEF n
<1>4. s \in Surjection(1..n, S)
  BY <1>3, Fun_RangeProperties
<1>5. s \in Injection(1..n, S)
  BY <1>2, <1>4, FS_SurjSameCardinalityImpliesInj DEF n
<1>6. \A i, j \in 1..n : s[i] = s[j] => i = j
  BY <1>5, Fun_InjectionProperties
<1>7. QED
  BY <1>3, <1>6 DEF Distinct
-----------------------------------------------------------------------------
(* The head of the queue can be written next. *)
LEMMA HeadIsNext ==
  ASSUME NEW folders \in Seq(Folders), folders # << >>, NEW a, NEW all,
         QueueSound(folders, a, all)
  PROVE  /\ Head(folders) \in Folders /\ Head(folders) \in Range(folders)
         /\ Head(folders) # Root => <<"subdir", Parent[Head(folders)]>> \in Range(a)
<1>1. Len(folders) \in Nat \ {0} /\ DOMAIN folders = 1..Len(folders)
  OBVIOUS
<1>2. 1 \in DOMAIN folders /\ folders[1] = Head(folders) /\ ~\E j \in DOMAIN folders : j < 1
  BY <1>1
<1>3. QED
  BY <1>2 DEF QueueSound, Range

(* Writing a folder's directories takes it from the queue. *)
LEMMA DirsFit ==
  ASSUME NEW folders \in Seq(Folders), folders # << >>,
         NEW a \in Seq(Entries \cup Mails), ArchiveSound(a),
         allFolders' \subseteq Folders, QueueSound(folders, a, allFolders')
  PROVE  LET f == Head(folders)
             b == WithFolder(a, f)
         IN  /\ b \in Seq(Entries \cup Mails) /\ ArchiveSound(b)
             /\ QueueSound(Tail(folders), b, allFolders')
             /\ <<"dir", f>> \in Range(b)
             /\ \A g, m : <<"mail", g, m>> \in Range(b) <=> <<"mail", g, m>> \in Range(a)
             /\ \A m \in Messages : <<"mail", f, m>> \notin Range(b)
<1> DEFINE f == Head(folders)
           sub == <<"subdir", f>>
           dir == <<"dir", f>>
           c == IF HasChildren(f) THEN Append(a, sub) ELSE a
           b == Append(c, dir)
<1>1. /\ f \in Folders /\ f \in Range(folders)
      /\ f # Root => <<"subdir", Parent[f]>> \in Range(a)
  BY HeadIsNext
<1>2. dir \notin Range(a) /\ sub \notin Range(a)
  BY <1>1 DEF QueueSound
<1>3. sub \in Entries \cup Mails /\ dir \in Entries \cup Mails
  BY <1>1 DEF Entries
<1>4. /\ c \in Seq(Entries \cup Mails) /\ ArchiveSound(c) /\ Range(a) \subseteq Range(c)
      /\ Range(c) = Range(a) \cup (IF HasChildren(f) THEN {sub} ELSE {})
  <2>1. CASE HasChildren(f)
    <3>1. c = Append(a, sub)
      BY <2>1
    <3>2. Append(a, sub) \in Seq(Entries \cup Mails) /\ Range(Append(a, sub)) = Range(a) \cup {sub}
      <4> HIDE DEF sub
      <4> QED
        BY <1>3, Appended
    <3>3. ArchiveSound(Append(a, sub))
      BY <1>1, <1>2, SubdirFits
    <3>4. QED
      BY <2>1, <3>1, <3>2, <3>3
  <2>2. CASE ~HasChildren(f)
    BY <2>2
  <2>3. QED
    BY <2>1, <2>2
<1>5. /\ b \in Seq(Entries \cup Mails) /\ ArchiveSound(b)
      /\ Range(b) = Range(a) \cup {dir} \cup (IF HasChildren(f) THEN {sub} ELSE {})
  <2> HIDE DEF c
  <2>1. b \in Seq(Entries \cup Mails) /\ Range(b) = Range(c) \cup {dir}
    <3> HIDE DEF dir
    <3> QED
      BY <1>3, <1>4, Appended
  <2>2. dir \notin Range(c)
    BY <1>2, <1>4, KindsDiffer
  <2>3. ArchiveSound(b)
    BY <1>1, <1>4, <2>2, DirFits
  <2>4. QED
    BY <1>4, <2>1, <2>3
<1>6. WithFolder(a, f) = b
  BY DEF WithFolder
<1> HIDE DEF b, c
<1>7. \A g, m : <<"mail", g, m>> \in Range(b) <=> <<"mail", g, m>> \in Range(a)
  BY <1>5, KindsDiffer DEF sub, dir
<1>8. ASSUME NEW m \in Messages PROVE <<"mail", f, m>> \notin Range(a)
  <2>1. \A z : Before(a, dir, z) => dir \in Range(a)
    BY DEF Before, Range
  <2>2. <<"mail", f, m>> \in Range(a) => Before(a, dir, <<"mail", f, m>>)
    BY <1>1 DEF ArchiveSound, OrderedIn
  <2>3. QED
    BY <1>2, <2>1, <2>2
<1>9. QueueSound(Tail(folders), b, allFolders')
  <2>1. PICK t : t = Tail(folders)
    OBVIOUS
  <2>2. PICK n : n = Len(t)
    OBVIOUS
  <2>3. /\ n \in Nat /\ Len(folders) = n + 1 /\ t \in Seq(Folders) /\ f = folders[1]
        /\ \A i \in 1..n : t[i] = folders[i + 1]
    BY <2>1, <2>2, HeadTailProperties
  <2>4. DOMAIN t = 1..n /\ DOMAIN folders = 1..(n + 1)
    BY <2>2, <2>3
  <2>5. Range(folders) = {f} \cup Range(t) /\ f \notin Range(t) /\ Distinct(t)
    BY <2>1, HeadAndTail DEF QueueSound
  <2> HIDE DEF f
  <2>6. \A g \in allFolders' : <<"dir", g>> \in Range(b) \/ g \in Range(t)
    BY <1>5, <2>5 DEF QueueSound
  <2>7. \A g \in Range(t) : <<"dir", g>> \notin Range(b) /\ <<"subdir", g>> \notin Range(b)
    BY <1>5, <2>5, KindsDiffer DEF QueueSound
  <2>8. ASSUME NEW i \in DOMAIN t, t[i] # Root
        PROVE  \/ <<"subdir", Parent[t[i]]>> \in Range(b)
               \/ \E j \in DOMAIN t : j < i /\ t[j] = Parent[t[i]]
    <3>1. i + 1 \in DOMAIN folders /\ folders[i + 1] = t[i]
      BY <2>3, <2>4
    <3>2. \/ <<"subdir", Parent[t[i]]>> \in Range(a)
          \/ \E j \in DOMAIN folders : j < i + 1 /\ folders[j] = Parent[t[i]]
      BY <2>8, <3>1 DEF QueueSound
    <3>3. CASE <<"subdir", Parent[t[i]]>> \in Range(a)
      BY <1>5, <3>3
    <3>4. ASSUME NEW j \in DOMAIN folders, j < i + 1, folders[j] = Parent[t[i]]
          PROVE  \/ <<"subdir", Parent[t[i]]>> \in Range(b)
                 \/ \E k \in DOMAIN t : k < i /\ t[k] = Parent[t[i]]
      <4>1. CASE j = 1
        <5>1. t[i] \in allFolders' \ {Root} /\ Parent[t[i]] = f
          BY <2>3, <2>5, <2>8, <3>4, <4>1 DEF QueueSound, Range
        <5>2. HasChildren(f)
          BY <5>1 DEF HasChildren
        <5>3. QED
          BY <1>5, <5>1, <5>2
      <4>2. CASE j # 1
        <5>1. j - 1 \in DOMAIN t /\ j - 1 < i /\ (j - 1) + 1 = j
          BY <2>3, <2>4, <3>4, <4>2
        <5>2. t[j - 1] = folders[j]
          BY <2>3, <2>4, <5>1
        <5>3. QED
          BY <3>4, <5>1, <5>2
      <4>3. QED
        BY <4>1, <4>2
    <3>5. QED
      BY <3>2, <3>3, <3>4
  <2>9. Range(t) \subseteq allFolders'
    BY <2>5 DEF QueueSound
  <2>10. QED
    BY <2>1, <2>5, <2>6, <2>7, <2>8, <2>9 DEF QueueSound
<1>10. QED
  BY <1>5, <1>6, <1>7, <1>8, <1>9
-----------------------------------------------------------------------------
(* Two things are two; a folder that is in the archive once is not twice. *)
LEMMA TwoHaveTwo ==
  ASSUME NEW x, NEW y, x # y
  PROVE  Cardinality({x, y}) = 2
<1>1. IsFiniteSet({x}) /\ Cardinality({x}) = 1
  BY FS_Singleton
<1>2. Cardinality({x} \cup {y}) = 2
  BY <1>1, FS_AddElement
<1>3. {x} \cup {y} = {x, y}
  OBVIOUS
<1>4. QED
  BY <1>2, <1>3

(* Before the job starts there is nothing to keep in order. *)
LEMMA NothingInEmpty == Range(<< >>) = {} /\ Distinct(<< >>)
BY DEF Range, Distinct

(* An abort leaves nothing to be proved but that the archive is in order. *)
LEMMA AbortIsSound ==
  ASSUME Inv, state \in {"new", "running"}, Abort, ArchiveSound(archive')
  PROVE  WholeInv'
<1>1. state' = "doomed" /\ dones' = 0
  BY DEF Abort, Inv, StateMeans
<1>2. QED
  BY <1>1 DEF WholeInv

(* archiveNextFolder, called when all that was listed is in the archive.   *)
LEMMA NextFolderIsSound ==
  ASSUME Inv, state \in {"new", "running"}, fetching = {}, pendingMessages' = << >>,
         NEW folders \in Seq(Folders), NEW a \in Seq(Entries \cup Mails),
         ArchiveNextFolder(folders, a), ArchiveSound(a),
         allFolders' \subseteq Folders, QueueSound(folders, a, allFolders'),
         \A g \in Folders : \A m \in listed'[g] : <<"mail", g, m>> \in Range(a)
  PROVE  WholeInv'
<1>1. Range(pendingMessages') = {} /\ Distinct(pendingMessages') /\ dones = 0
  BY NothingInEmpty DEF Inv, StateMeans
<1>2. CASE folders = << >> /\ pendingFolders' = folders /\ archive' = a /\ Finish
  <2>1. CASE Abort
    BY <1>2, <2>1, AbortIsSound
  <2>2. CASE Complete /\ UNCHANGED <<currentFolder, fetching>>
    <3>1. state' = "doomed" /\ Waiting' = {}
      BY <1>1, <2>2 DEF Complete, Waiting
    <3>2. AllSaved(listed', archive', currentFolder', Waiting')
      BY <1>2 DEF AllSaved
    <3>3. QED
      BY <1>2, <3>1, <3>2 DEF WholeInv
  <2>3. QED
    BY <1>2, <2>1, <2>2 DEF Finish
<1>3. CASE /\ folders # << >> /\ pendingFolders' = Tail(folders)
           /\ archive' = WithFolder(a, Head(folders))
           /\ currentFolder' = Head(folders) /\ listing' = Head(folders) /\ Working
  <2>1. state' = "running" /\ fetching' = {} /\ dones' = 0
    BY <1>1, <1>3 DEF Working
  <2>2. Waiting' = {}
    BY <1>1, <2>1 DEF Waiting
  <2>3. /\ ArchiveSound(archive') /\ QueueSound(pendingFolders', archive', allFolders')
        /\ <<"dir", currentFolder'>> \in Range(archive')
        /\ \A g, m : <<"mail", g, m>> \in Range(archive') <=> <<"mail", g, m>> \in Range(a)
        /\ \A m \in Messages : <<"mail", currentFolder', m>> \notin Range(archive')
    BY <1>3, DirsFit
  <2>4. AllSaved(listed', archive', currentFolder', Waiting')
    BY <2>3 DEF AllSaved
  <2>5. /\ Ready(currentFolder', archive', Waiting')
        /\ Ready(currentFolder', archive', Messages)
    BY <2>2, <2>3 DEF Ready
  <2>6. QED
    BY <1>1, <2>1, <2>3, <2>4, <2>5 DEF WholeInv
<1>4. CASE /\ folders # << >>
           /\ archive' \in {a, Append(a, <<"subdir", Head(folders)>>)} /\ Abort
  <2>1. Head(folders) \in Folders /\ <<"subdir", Head(folders)>> \notin Range(a)
    BY <1>4, HeadIsNext DEF QueueSound
  <2>2. ArchiveSound(Append(a, <<"subdir", Head(folders)>>))
    BY <2>1, SubdirFits
  <2>3. QED
    BY <1>4, <2>2, AbortIsSound
<1>5. QED
  BY <1>2, <1>3, <1>4, ArchiveNextFolderWrites

(* archiveNextMessage, called when these messages are all of the current   *)
(* folder that is listed and not in the archive.                           *)
LEMMA NextMessageIsSound ==
  ASSUME Inv, state # "gone", ~NoRequestNow, fetching = {},
         NEW messages \in Seq(Messages), ArchiveNextMessage(messages), Distinct(messages),
         allFolders' = allFolders, ArchiveSound(archive),
         state = "running" =>
           /\ QueueSound(pendingFolders, archive, allFolders)
           /\ AllSaved(listed', archive, currentFolder, Range(messages))
           /\ Ready(currentFolder, archive, Range(messages))
  PROVE  WholeInv'
<1>1. /\ state \in {"running", "doomed"} /\ dones = 0
      /\ state = "running" <=> aborted = FALSE
      /\ archive \in Seq(Entries \cup Mails) /\ pendingFolders \in Seq(Folders)
      /\ allFolders \subseteq Folders
  BY DEF Inv, TypeOK, StateMeans
<1>2. CASE aborted /\ Unharmed /\ UNCHANGED archive
  <2>1. state' = "doomed" /\ dones' = 0 /\ archive' = archive
    BY <1>1, <1>2 DEF Unharmed
  <2>2. QED
    BY <2>1 DEF WholeInv
<1>3. CASE ~aborted /\ messages = << >> /\ pendingMessages' = messages
           /\ ArchiveNextFolder(pendingFolders, archive)
  <2>1. state = "running" /\ Range(messages) = {}
    BY <1>1, <1>3, NothingInEmpty
  <2>2. \A g \in Folders : \A m \in listed'[g] : <<"mail", g, m>> \in Range(archive)
    BY <2>1 DEF AllSaved
  <2>3. QED
    BY <1>1, <1>3, <2>1, <2>2, NextFolderIsSound
<1>4. CASE /\ ~aborted /\ messages # << >> /\ pendingMessages' = Tail(messages)
           /\ fetching' = {Head(messages)} /\ NoRequest
           /\ Unharmed /\ UNCHANGED <<pendingFolders, currentFolder, archive>>
  <2>1. /\ state = "running" /\ state' = "running" /\ dones' = 0 /\ listing' = NoFolder
        /\ pendingFolders' = pendingFolders /\ currentFolder' = currentFolder
        /\ archive' = archive
    BY <1>1, <1>4 DEF Unharmed, NoRequest
  <2>2. /\ Range(messages) = {Head(messages)} \cup Range(Tail(messages))
        /\ Head(messages) \notin Range(Tail(messages)) /\ Distinct(Tail(messages))
    BY <1>4, HeadAndTail
  <2>3. Waiting' = Range(messages)
    BY <1>4, <2>2 DEF Waiting
  <2>4. Distinct(pendingMessages') /\ fetching' \cap Range(pendingMessages') = {}
    BY <1>4, <2>2
  <2>5. QED
    BY <2>1, <2>3, <2>4 DEF WholeInv
<1>5. QED
  BY <1>2, <1>3, <1>4 DEF ArchiveNextMessage
-----------------------------------------------------------------------------
(* start() queues the folders, parents first, and writes the root. *)
LEMMA StartIsSound ==
  ASSUME Inv, Inv', WholeInv, Start
  PROVE  WholeInv'
<1>1. /\ state = "new" /\ fetching = {} /\ pendingMessages' = << >>
      /\ \A f \in Folders : listed'[f] = {}
  BY DEF Start, Inv, StateMeans, NoRequestNow
<1>2. ArchiveSound(<< >>) /\ << >> \in Seq(Entries \cup Mails)
  BY NothingInEmpty DEF ArchiveSound, OrderedIn
<1>3. ASSUME NEW s \in FolderOrders, allFolders' = {s[i] : i \in DOMAIN s},
             ArchiveNextFolder(s, << >>)
      PROVE  WholeInv'
  <2>1. s \in Seq(Folders) /\ allFolders' = Range(s)
    BY <1>3, FolderOrdersType DEF Range
  <2>2. allFolders' \subseteq Folders
    BY DEF Inv, TypeOK
  <2>3. QueueSound(s, << >>, allFolders')
    BY <2>1, OrdersAreQueues
  <2>4. QED
    BY <1>1, <1>2, <1>3, <2>1, <2>2, <2>3, NextFolderIsSound
<1>4. ASSUME archive' = << >>, Abort PROVE WholeInv'
  BY <1>1, <1>2, <1>4, AbortIsSound
<1>5. QED
  BY <1>3, <1>4 DEF Start

(* What a listing names waits to be fetched, or the folder is complete and *)
(* the next one is written.                                                *)
LEMMA FolderListedIsSound ==
  ASSUME Inv, WholeInv, FolderListed
  PROVE  WholeInv'
<1>1. /\ listing \in Folders /\ listing # NoFolder /\ state # "gone"
      /\ fetching = {} /\ ~NoRequestNow /\ state \in {"running", "doomed"}
      /\ content \in [Folders -> SUBSET Messages] /\ listed \in [Folders -> SUBSET Messages]
      /\ pendingMessages \in Seq(Messages) /\ allFolders' = allFolders /\ dones = 0
      /\ state = "running" => listing = currentFolder /\ pendingMessages = << >>
      /\ state = "running" <=> aborted = FALSE
  BY DEF FolderListed, Inv, TypeOK, RequestsExclude, StateMeans, NoRequestNow
<1>2. ASSUME NEW s \in Listings(content[listing]),
             ArchiveNextMessage(pendingMessages \o s),
             listed' = [listed EXCEPT ![listing] = content[listing]]
      PROVE  WholeInv'
  <2>1. s \in Seq(Messages) /\ Distinct(s) /\ Range(s) = content[listing]
        /\ content[listing] \subseteq Messages
    BY <1>1, ListingsType, ListingsAreExact
  <2>2. CASE state = "running"
    <3>1. pendingMessages \o s = s
      BY <1>1, <2>1, <2>2
    <3>2. listing = currentFolder
      BY <1>1, <2>2
    <3>3. ArchiveSound(archive) /\ QueueSound(pendingFolders, archive, allFolders)
      BY <2>2 DEF WholeInv
    <3>4. AllSaved(listed, archive, currentFolder, Waiting)
          /\ Ready(currentFolder, archive, Messages)
      BY <1>1, <2>2 DEF WholeInv
    <3>5. AllSaved(listed', archive, currentFolder, Range(s))
      <4> SUFFICES ASSUME NEW g \in Folders, NEW m \in listed'[g]
                   PROVE  <<"mail", g, m>> \in Range(archive) \/ (g = currentFolder /\ m \in Range(s))
        BY DEF AllSaved
      <4>1. CASE g = currentFolder
        BY <1>1, <1>2, <2>1, <3>2, <4>1
      <4>2. CASE g # currentFolder
        BY <1>1, <1>2, <3>2, <3>4, <4>2 DEF AllSaved
      <4>3. QED
        BY <4>1, <4>2
    <3>6. Ready(currentFolder, archive, Range(s))
      BY <2>1, <3>4 DEF Ready
    <3>7. ArchiveNextMessage(s)
      BY <1>2, <3>1
    <3>8. QED
      BY <1>1, <2>1, <3>3, <3>5, <3>6, <3>7, NextMessageIsSound
  <2>3. CASE state = "doomed"
    <3>1. aborted = TRUE
      BY <1>1, <2>3 DEF Inv, TypeOK
    <3>2. Unharmed /\ archive' = archive
      BY <1>2, <3>1 DEF ArchiveNextMessage
    <3>3. QED
      BY <1>1, <2>3, <3>2 DEF Unharmed, WholeInv
  <2>4. QED
    BY <1>1, <2>2, <2>3
<1>3. CASE UNCHANGED archive /\ ((~aborted /\ Abort) \/ (aborted /\ Unharmed))
  <2>1. CASE ~aborted /\ Abort
    <3>1. state = "running" /\ ArchiveSound(archive')
      BY <1>1, <1>3, <2>1 DEF Inv, TypeOK, WholeInv
    <3>2. QED
      BY <2>1, <3>1, AbortIsSound
  <2>2. CASE aborted /\ Unharmed
    <3>1. state = "doomed"
      BY <1>1, <2>2
    <3>2. QED
      BY <1>1, <1>3, <2>2, <3>1 DEF Unharmed, WholeInv
  <2>3. QED
    BY <1>3, <2>1, <2>2
<1>4. QED
  BY <1>2, <1>3 DEF FolderListed

(* A message that arrives goes from those waited for into the archive; one *)
(* that is refused ends the job, so nothing is reported.                   *)
LEMMA MessageFetchedIsSound ==
  ASSUME Inv, WholeInv, MessageFetched
  PROVE  WholeInv'
<1>1. PICK m \in fetching :
        /\ \/ ProcessMessage(m) /\ fetching' = {}
           \/ Abort /\ UNCHANGED archive
        /\ UNCHANGED <<pendingFolders, allFolders, pendingMessages, content, listed>>
  BY DEF MessageFetched
<1>2. /\ m \in Messages /\ state = "running" /\ listing = NoFolder /\ currentFolder \in Folders
      /\ archive \in Seq(Entries \cup Mails) /\ dones = 0
  BY DEF MessageFetched, Inv, TypeOK, RequestsExclude, StateMeans, NoRequestNow
<1>3. CASE ProcessMessage(m) /\ fetching' = {}
  <2> DEFINE x == <<"mail", currentFolder, m>>
  <2>1. /\ state' = "running" /\ currentFolder' = currentFolder /\ listing' = NoFolder
        /\ archive' = Append(archive, x) /\ dones' = 0
    BY <1>2, <1>3 DEF ProcessMessage
  <2>2. /\ ArchiveSound(archive) /\ QueueSound(pendingFolders, archive, allFolders)
        /\ AllSaved(listed, archive, currentFolder, Waiting)
        /\ Ready(currentFolder, archive, Waiting)
        /\ Distinct(pendingMessages) /\ fetching \cap Range(pendingMessages) = {}
    BY <1>2 DEF WholeInv
  <2>3. fetching = {m}
    <3>1. \A k \in fetching : k = m
      <4> SUFFICES ASSUME NEW k \in fetching, k # m PROVE FALSE
        OBVIOUS
      <4>1. {k, m} \subseteq fetching /\ IsFiniteSet(fetching) /\ Cardinality(fetching) <= 1
        BY MailAssumption, FS_Subset DEF Inv, TypeOK
      <4>2. Cardinality({k, m}) = 2
        BY TwoHaveTwo
      <4>3. Cardinality({k, m}) <= Cardinality(fetching) /\ Cardinality(fetching) \in Nat
        BY <4>1, FS_Subset, FS_CardinalityType
      <4>4. QED
        BY <4>1, <4>2, <4>3
    <3>2. QED
      BY <3>1
  <2>4. m \in Waiting /\ Waiting' = Range(pendingMessages) /\ Waiting = {m} \cup Waiting'
        /\ m \notin Waiting'
    BY <1>1, <1>3, <2>2, <2>3 DEF Waiting
  <2>5. x \notin Range(archive) /\ <<"dir", currentFolder>> \in Range(archive)
    BY <2>2, <2>4 DEF Ready
  <2>6. ArchiveSound(archive')
    BY <1>2, <2>1, <2>2, <2>5, MailFits
  <2>7. Range(archive') = Range(archive) \cup {x}
    <3>1. x \in Entries \cup Mails
      BY <1>2 DEF Mails
    <3> HIDE DEF x
    <3>2. QED
      BY <1>2, <2>1, <3>1, Appended
  <2>8. QueueSound(pendingFolders', archive', allFolders')
    <3>1. \A f : /\ <<"dir", f>> \in Range(archive') <=> <<"dir", f>> \in Range(archive)
                 /\ <<"subdir", f>> \in Range(archive') <=> <<"subdir", f>> \in Range(archive)
      BY <2>7, KindsDiffer
    <3>2. QED
      BY <1>1, <2>2, <3>1 DEF QueueSound
  <2>9. AllSaved(listed', archive', currentFolder', Waiting')
    <3> SUFFICES ASSUME NEW g \in Folders, NEW n \in listed'[g]
                 PROVE  <<"mail", g, n>> \in Range(archive') \/ (g = currentFolder /\ n \in Waiting')
      BY <2>1 DEF AllSaved
    <3>1. <<"mail", g, n>> \in Range(archive) \/ (g = currentFolder /\ n \in Waiting)
      BY <1>1, <2>2 DEF AllSaved
    <3>2. QED
      BY <2>4, <2>7, <3>1
  <2>10. Ready(currentFolder', archive', Waiting')
    <3>1. \A n : n # m => <<"mail", currentFolder, n>> # x
      BY Zenon
    <3>2. QED
      BY <2>1, <2>2, <2>4, <2>7, <3>1 DEF Ready
  <2>11. Distinct(pendingMessages') /\ fetching' \cap Range(pendingMessages') = {}
    BY <1>1, <1>3, <2>2
  <2>12. QED
    BY <2>1, <2>6, <2>8, <2>9, <2>10, <2>11 DEF WholeInv
<1>4. CASE Abort /\ UNCHANGED archive
  BY <1>2, <1>4, AbortIsSound DEF WholeInv
<1>5. QED
  BY <1>1, <1>3, <1>4

(* The timer only asks for the next message, or goes on to the next        *)
(* folder.                                                                 *)
LEMMA TimerIsSound ==
  ASSUME Inv, WholeInv, TimerFires
  PROVE  WholeInv'
<1>1. /\ state # "gone" /\ fetching = {} /\ ~NoRequestNow /\ listed' = listed
      /\ pendingMessages \in Seq(Messages) /\ allFolders' = allFolders
      /\ ArchiveNextMessage(pendingMessages) /\ state \in {"running", "doomed"} /\ dones = 0
      /\ state = "running" <=> aborted = FALSE
  BY DEF TimerFires, Inv, TypeOK, RequestsExclude, StateMeans, NoRequestNow
<1>2. CASE state = "running"
  <2>1. Waiting = Range(pendingMessages)
    BY <1>1 DEF Waiting
  <2>2. /\ ArchiveSound(archive) /\ QueueSound(pendingFolders, archive, allFolders)
        /\ AllSaved(listed', archive, currentFolder, Range(pendingMessages))
        /\ Ready(currentFolder, archive, Range(pendingMessages))
        /\ Distinct(pendingMessages)
    BY <1>1, <1>2, <2>1 DEF WholeInv
  <2>3. QED
    BY <1>1, <2>2, NextMessageIsSound
<1>3. CASE state = "doomed"
  <2>1. aborted = TRUE
    BY <1>1, <1>3 DEF Inv, TypeOK
  <2>2. Unharmed /\ archive' = archive
    BY <1>1, <2>1 DEF ArchiveNextMessage
  <2>3. QED
    BY <1>1, <1>3, <2>2 DEF Unharmed, WholeInv
<1>4. QED
  BY <1>1, <1>2, <1>3

(* Nothing else writes, but a job may be aborted or taken away. *)
LEMMA OthersAreSound ==
  ASSUME Inv, WholeInv, CancelJob \/ Destroyed \/ MessageRemoved \/ MessageArrives \/ UNCHANGED vars
  PROVE  WholeInv'
<1>1. CASE CancelJob
  <2>1. state \in {"new", "running"} /\ archive' = archive
    BY <1>1 DEF CancelJob, Inv, TypeOK, StateMeans
  <2>2. QED
    BY <1>1, <2>1, AbortIsSound DEF CancelJob, WholeInv
<1>2. CASE Destroyed \/ MessageRemoved \/ MessageArrives \/ UNCHANGED vars
  <2>1. /\ state' = "running" => state = "running" /\ listing' = listing
        /\ UNCHANGED <<archive, dones, pendingFolders, allFolders, listed, currentFolder,
                       fetching, pendingMessages>>
    BY <1>2 DEF Destroyed, MessageRemoved, MessageArrives, vars, jobVars
  <2>2. Waiting' = Waiting
    BY <2>1 DEF Waiting
  <2>3. QED
    BY <2>1, <2>2 DEF WholeInv
<1>3. QED
  BY <1>1, <1>2

(* What the job has written and what it still has to write make up all     *)
(* that was queued and listed, in every reachable state.                   *)
THEOREM WholeInvHolds == Spec => []WholeInv
<1>1. Init => WholeInv
  <2> SUFFICES ASSUME Init PROVE WholeInv
    OBVIOUS
  <2>1. ArchiveSound(archive)
    BY NothingInEmpty DEF Init, ArchiveSound, OrderedIn
  <2>2. QED
    BY <2>1 DEF Init, WholeInv
<1>2. Inv /\ Inv' /\ WholeInv /\ [Next]_vars => WholeInv'
  BY StartIsSound, FolderListedIsSound, MessageFetchedIsSound, TimerIsSound, OthersAreSound DEF Next
<1>3. QED
  BY <1>1, <1>2, InvHolds, PTL DEF Spec

(* The folder is deleted on the server only after the archive was closed   *)
(* without an error, and with every message that was listed inside it.     *)
THEOREM DeletionIsSafe == Spec => []DeletedMeansSaved
<1>1. Inv /\ WholeInv => DeletedMeansSaved
  <2> SUFFICES ASSUME Inv, WholeInv, deleted PROVE DeletedMeansSaved
    BY DEF DeletedMeansSaved
  <2>1. /\ errors = 0 /\ dones = 1 /\ open = FALSE /\ fetching = {}
        /\ allFolders \subseteq Folders
    BY DEF Inv, TypeOK, StateMeans
  <2>2. Waiting = {} /\ AllSaved(listed, archive, currentFolder, Waiting)
    BY <2>1, NothingInEmpty DEF WholeInv, Waiting
  <2>3. \A f \in allFolders : \A m \in listed[f] : <<"mail", f, m>> \in Range(archive)
    BY <2>1, <2>2 DEF AllSaved
  <2>4. Range(archive) = Held
    BY DEF Range, Held
  <2>5. QED
    BY <2>1, <2>3, <2>4 DEF DeletedMeansSaved
<1>2. QED
  BY <1>1, InvHolds, WholeInvHolds, PTL

(* Whatever the order in which the server lists, what backupDone reports   *)
(* is an archive with every queued folder and every listed message, each   *)
(* exactly once, and each directory before what is inside it.              *)
THEOREM BackupIsWhole == Spec => []ArchiveIsWhole
<1>1. Inv /\ WholeInv => ArchiveIsWhole
  <2> SUFFICES ASSUME Inv, WholeInv PROVE ArchiveIsWhole
    OBVIOUS
  <2>1. ASSUME NEW x \in Range(archive)
        PROVE  Cardinality({i \in DOMAIN archive : archive[i] = x}) = 1
    <3>1. PICK i \in DOMAIN archive : archive[i] = x
      BY <2>1 DEF Range
    <3>2. {j \in DOMAIN archive : archive[j] = x} = {i}
      BY <3>1 DEF WholeInv, ArchiveSound, Distinct
    <3>3. QED
      BY <3>2, FS_Singleton
  <2>2. ASSUME dones = 1
        PROVE  /\ ~open
               /\ \A f \in allFolders :
                    /\ <<"dir", f>> \in Range(archive)
                    /\ \A m \in listed[f] : <<"mail", f, m>> \in Range(archive)
    <3>1. open = FALSE /\ fetching = {} /\ allFolders \subseteq Folders
      BY <2>2 DEF Inv, TypeOK, StateMeans
    <3>2. /\ Waiting = {} /\ AllSaved(listed, archive, currentFolder, Waiting)
          /\ Range(pendingFolders) = {} /\ QueueSound(pendingFolders, archive, allFolders)
      BY <2>2, <3>1, NothingInEmpty DEF WholeInv, Waiting
    <3>3. QED
      BY <3>1, <3>2 DEF AllSaved, QueueSound
  <2>3. DoneMeansArchived
    BY <2>1, <2>2 DEF DoneMeansArchived
  <2>4. ParentsFirst
    <3>1. Range(archive) = Held
      BY DEF Range, Held
    <3>2. QED
      BY <3>1 DEF WholeInv, ArchiveSound, OrderedIn, ParentsFirst
  <2>5. QED
    BY <2>3, <2>4 DEF ArchiveIsWhole
<1>2. QED
  BY <1>1, InvHolds, WholeInvHolds, PTL
=============================================================================
