# mailcommon: specifications, model checks and proofs

mailcommon is the library that KMail, the mail filter agent, the archive agent
and their relatives share: filters and search patterns, expiry of old mail,
backups of folders, snippets, folder settings, tags and the folder views.  This
directory holds TLA+ modules that model its logic, the TLC instances that check
them, and TLAPS proofs.  Paths below are relative to the repository's `src/`.

Contents: 1 the system's parts; 2 the modules and how they follow the code;
3 the runs; 4 fairness; 5 what is proved; 6 what is only model-checked;
7 disagreements met while modelling; 8 what is not modelled; 9 the plan.

## 1. The system's parts

The library has hardly any threads.  What is concurrent about it are Qt's event
loop (timers, deferred deletion), the answers of the Akonadi server to the jobs
the library starts, and the user, who goes on clicking while jobs run and
dialogs are open.  *One Qt event, with everything that is called from its
handler, is one action*; state that is kept from one event to the next is a
variable.

| part | state it keeps | operations | with whom | what is hard | what makes it correct |
|---|---|---|---|---|---|
| Job scheduler (`job/jobscheduler.cpp`) | task list, current task and job, count of immediate tasks, timer | register, timeout, job finished, pause, resume | creators of tasks (folder monitor, expiry page), jobs, D-Bus | a task is merged, interrupted, filed again, deleted; starting a job can finish it at once and call the scheduler back | no task twice, none lost or deleted twice, no lost wake-up, one at a time |
| Expiry jobs (`job/expirejob.cpp`, `expiredeletejob.cpp`, `expiremovejob.cpp`) | job, its remover, batches under way, attribute of the folder | list mail, choose, delete or move, mark read, end | scheduler, server, the user who reads mail meanwhile | answers in any order, errors, killing, arithmetic of dates | only old and unprotected mail goes; never killed while the server works; every job ends |
| Expiry settings (`collectionpage/collectionexpirywidget.cpp`, `collectionpage/attributes/`, `job/collectionexpiryjob.cpp`), folder monitor (`folder/foldercollectionmonitor.cpp`) | the folder's attribute, the form, what is being stored | load, validate, store, store and expire, expire all | scheduler, server | the attribute is stored late, while expiry is asked for and the form is changed again | what is stored and expired is what the form said |
| Backup job (`job/backupjob.cpp`) | folders and messages still to do, folder being written, archive, outcome | list, fetch, write, cancel, abort, finish, delete the folder | server, progress item, archive | abort re-enters itself; mail comes and goes; cancel against late answers | one outcome; "done" means archived; deletes only what is saved |
| Filter manager (`filter/filtermanager.cpp`) | the filters, the file they are stored in, the tags | read, write, set, append, remove, list tags | filter agent, dialog, tag monitor | the agent reads a file that somebody else writes; tags change while they are listed | the agent runs the filters the user sees; no tag is missed |
| Filter dialog (`filter/kmfilterdialog.cpp`, `kmfilterlistbox.cpp`) | list of filters, current and selected items, editors, buttons | click, edit, rename, new, copy, delete, move, import, apply, OK | manager | the editors hold pointers into a list that is reordered; values are written back late | no edit is lost, or reaches another filter; nothing invalid is saved |
| Rule editors (`search/searchpatternedit.cpp`, `search/widgethandler/`) | two stacks of widgets, of which one each is raised | show a rule, change field, function or value, read the rule back | filter dialog, search folders | a dozen handlers share the stacks; tags are fetched late | a rule that is only looked at stays; one that is edited is what is shown |
| Search patterns and rules (`search/`) | patterns, rules | match, query, required part, read, write | filters, search folders, server | one meaning in two languages; unfetched parts; old configurations | the same message matches in both |
| Filter actions (`filter/filteractions/`) and their editors, missing arguments (`filter/dialog/`) | parameters, editor | process, required part, read, write, show, ask for what is missing | the message, KMime, GnuPG, the user | an action sees what another has changed; what it names is gone, or elsewhere | what they change is stored; what was chosen is kept |
| Mail filter (`filter/mailfilter.cpp`) | pattern, actions, account, stop | run the actions, required part, read, write | filter agent | order of filters, stopping | disabled filters and those behind a stop do nothing |
| Import and export (`filter/filterimporterexporter.cpp`, `filter/filterimporter/`) | the file, the filters read from it | export, import, read seven other programs' files | filter dialog, the user who is asked for folders | folders have other numbers elsewhere; entries depend on those before them | what is imported is what the file says |
| Sieve scripts (`filter/filterconverter/`) | the script | convert | a mail server | another language with other tests | same messages, every extension required |
| Filter log (`filter/filterlog.cpp`) | entries, size | add, limit, clear | filters | size counted apart from the entries | size is exact and limited |
| Snippets (`snippets/`) | tree of groups and snippets, the actions made of them | add, edit, delete, drag, save | composer | open dialogs hold indexes into the tree | the snippet that was opened is the one that is changed |
| Folder settings and pages (`folder/foldersettings.cpp`, `collectionpage/`) | shared cache of settings, identities, forms | look up, change, store on destruction | identity manager, several dialogs | a late writer overwrites a newer one; identities go | what is set last is stored |
| Kernel (`kernel/mailkernel.cpp`) | the default folders, requests for them | request, watch, give up | server | requested again for every change, answers and changes interleave | every default folder exists |
| Folder tree and chooser (`folder/foldertreeview.cpp`, `foldertreewidget.cpp`, `folderrequester.cpp`, `folderselectiondialog.cpp`) | current folder, typed filter, chosen folder, questions about it | jump to unread mail, filter, choose | server, kernel | walking a tree round its ends; late answers | jumps arrive; what is shown is what is chosen |
| Folder order (`folder/entitycollectionorderproxymodel.cpp`, `accountconfigorderdialog.cpp`) | ranks and their cache, settings of the view | sort, order accounts | kernel, view, dialogs | a cache that must follow; settings that several views share | the order shown is the one that was set |
| Receipts (`mdn/mdnwarningjob.cpp`) | the answer stored with the message | store, send | server, transport | two windows ask; storing may fail | the last answer is kept |
| Tags (`tag/`) | a tag's look, the dialog | make, show, record | server | the dialog stays open until the server answers | a tag looks as it was entered |

`PROJECT.json` lists every part with its status, and under `hazards` every place
in this code that is hard to test, with the property that watches it.

## 2. Modules

| module | models | composed with |
|---|---|---|
| `SerialRunner` | abstract: tasks are waiting, running or gone, one runs at a time, none comes back | implemented by `JobScheduler` |
| `JobScheduler` | `jobscheduler.{h,cpp}` | `SerialRunner` (INSTANCE), `ExpirySystem` |
| `JobSchedulerProofs` | theorems on `JobScheduler` and `ExpirySystem` | |
| `ExpiryDates` | ages and units of the expiry attribute, the 32-bit arithmetic of limits | `ExpireJob`, `ExpirySettings` |
| `ExpireJob` | the expiry job, its removers and the server's answers | `ExpiryDates`, `ExpirySystem` |
| `ExpireJobProofs` | theorems on `ExpireJob` | |
| `ExpirySystem` | scheduler whose jobs are expiry jobs | `JobScheduler` and `ExpireJob` (INSTANCE) |
| `ExpirySettings` | the form, what it stores, the job that stores and expires, the monitor's "expire all" | `ExpiryDates` |
| `BackupJob` | `backupjob.cpp` | |
| `BackupJobProofs` | theorems on `BackupJob` | |
| `FilterManager` | filter manager, its file, the agent | `FilterDialog` |
| `FilterDialog` | the dialog: list, editors, check boxes, saving | `FilterManager` |
| `FilterDialogProofs` | theorems on `FilterDialog` and `FilterManager` | `ListLemmas` |
| `Lists` | lists without some of their elements, or with one moved | `FilterManager`, `FilterDialog`, `FolderOrder`, `ActionEditor` |
| `ListLemmas` | lemmas on `Lists` and on sequences | the proofs |
| `RuleEditor` | the editor of one rule | |
| `SearchRules` | rules and patterns: matching, queries, needed part, reading, writing | `MailFilter`, `FilterConfig`, `SieveScripts` |
| `FilterActions` | the actions: what each does to a message and needs of it | `MailFilter` |
| `MailFilter` | one message that is fetched, filtered and stored | `SearchRules`, `FilterActions` |
| `MailFilterProofs` | theorems on `MailFilter`, its rules and actions | |
| `ActionParameters` | what an action keeps as text, asks for when it is missing, shows and gives back | `ActionEditor`, `FilterConfig`, `FilterImporters` |
| `ActionEditor` | one action between configuration, filter and editor, and the manager's list of tags | `ActionParameters` |
| `FilterConfig` | filters as they are written, read, copied, exported and streamed | `ActionParameters`, `SearchRules` |
| `FilterImport` | export, taking the file elsewhere, import, reopening | `FilterConfig` |
| `FilterImporters` | the files of seven other programs, entry by entry | `ActionParameters` |
| `SieveScripts` | filters converted to Sieve | `SearchRules` |
| `FilterLog` | the log and its limits | |
| `Snippets` | the tree of snippets, its manager and dialogs, the actions | |
| `Tags` | a tag, the widgets that show it, the dialog that makes it | |
| `FolderSettings` | settings of folders, their cache, the pages that show them, identities | |
| `SpecialFolders` | what a folder is: inbox, outbox, drafts, ... | `Receipts` |
| `Kernel` | the default folders | |
| `FolderTree` | jumping to unread mail, the typed filter | |
| `FolderChooser` | the requester of a folder and its dialog | |
| `FolderOrder` | ranks, the accounts' order, the settings of the views | |
| `Receipts` | the job that stores an answer and sends a receipt | `SpecialFolders` |
| `Components` | the smaller components side by side | eleven modules (INSTANCE) |
| `ComponentProofs` | theorems on chooser, expiry settings, receipts, log, rule editor, Sieve, tags and action editor, in `Components` | `ListLemmas` |
| `FolderProofs` | theorems on folder order and settings, in `Components` | `ListLemmas` |
| `MC...` | instances for TLC | |

`Components` sets the smaller components side by side: a behaviour is one of the
component that the variable `part` names from the start, and the variables of
the others rest at 0.  Each component's variables and constants are declared
there under names that no other component has, and its INSTANCE says which is
which.  So one run and one specification serve many components, and a theorem
about a component is one about `Components!Spec`.  `MCComponents` gives the
constants their values and adds four components about which nothing is proved
(`Kernel`, `FolderTree`, `FilterImport`, `FilterImporters`), whose variables are
`v1`, `v2`, ...

**JobScheduler.**  `queue` is `mTaskList`, `current` is `mCurrentTask`,
`cancellable` says whether `mCurrentJob` may be killed, `pending` is
`mPendingImmediateTasks`, `timer` is `mTimer.isActive()`.  `live` (which task
objects exist), `registered`, `urgent` (tasks somebody asked to run
immediately), `paused` and `pauses` are history.  The actions are
`RegisterTask`, `TimerFires` (`slotRunNextJob`), `JobCommits` (a job ceases to
be cancellable), `SlotJobFinished`, `Pause` and `Resume`.  A task whose folder
is invalid has no job: `runTaskNow` calls `slotJobFinished` itself, which may
run the next task, so `SlotRunNextJob`, `RunTaskNow`, `ContinueWith` describe the
whole chain of calls; all of it is one step.

**ExpiryDates, ExpireJob.**  Times are counted in units of 128 seconds: TLC's
integers have 32 bits, days are a whole number of these units (675), and
`readDays * 3600 * 24` wraps where the code's `int` does.  `phase` is the life of
the job (`none`, `fetching`, `removing`, `doomed` by `deleteLater`), `remover`
that of its delete or move job, `running` is `mRunningJobs`, `unanswered` and
`marking` are the batches the server has not answered.  `mail` and `place` are
the server's; `looked` is the mail as the job saw it.  The server may refuse
anything; the user reads and marks mail in between (`UserTouches`).

**ExpirySystem.**  The scheduler starts, kills and hears of the end of one
`ExpireJob`; the actions of both are conjoined where one calls the other.

**ExpirySettings.**  `stored` is the server's attribute, `page` the open form,
`modify` the `CollectionModifyJob`s under way, in order, `task` what the
scheduler has been given.  Setters of the attribute refuse what is out of range,
a form without a target folder is corrected, "Save and Expire Now" expires when
the server has stored, and the monitor expires what is on, one folder here.
`Meaning` is what an expiry job makes of an attribute, `Meant` what the form says.
A task remembers what its first and its last request meant, since a request for
a folder whose task is waiting is dropped and the task keeps its attribute.

**BackupJob.**  `state` is the life of the job, `pendingFolders`, `allFolders`,
`currentFolder`, `pendingMessages` are the members of these names; `listing`,
`fetching`, `timer` are the requests under way; `archive` is what has been
written, in order.  `archivedSize` wraps at `SizeLimit`, as the code's counter
does at its width.  Cancelling kills the message job, whose result re-enters
`abort`; the model has that re-entry.

**FilterManager, FilterDialog.**  `filters` are the manager's, `config` the file,
`agent` what the agent has read.  In the dialog `filter` are the filter objects,
`list` the list of items in order, `text` what they show, `current` and
`selected` the list's, `edited` the filter the editors hold (`mFilter`, the
widgets' pattern and action list), `form` and `checks` what they show.  Names,
rules and actions are reduced to what decisions depend on: a name is the
field's, one's own or blank; a pattern has rules or not; actions are missing,
incomplete or complete.  `want` records, per filter, what the user has last
entered for it.

In `EndUpdate` the agent reads the file at once.  The code asks it by D-Bus
without waiting, so it may read later; the earliest moment is the one at which an
order of writing and asking that is wrong would show.

**RuleEditor.**  `editor` has the field and function combos, the widget raised in
each stack, and the value every hidden widget still holds.  A handler is a
record of the fields it is for, the functions it offers and those an index
search refuses; `given` is the rule that was set, until the user changes
something.  The flag for an index search is the editor's own here; in the code
the editors of a program share one, which the last one made has set
(`search/searchpatternedit.cpp:183`).

**SearchRules, FilterActions, MailFilter.**  The text of a field is the set of
facts a rule can ask (contains, starts with, ends with, is, ends with and an
angle bracket).  Whatever has not been fetched reads as an empty text.
`context` is `ItemContext` with its marks "payload to be stored", "flags to be
stored", "delete", "move to".  An action is a record; `Process` gives the set of
outcomes (an external program, GnuPG or the server may fail), `Needs` is
`requiredPart()`.  The filter agent's own part - fetch, match in turn, store - is
not in this repository; it is modelled from how the library is used and marked
external in the map.  A function is an entry of `Enumerators`, in the order of
`SearchRule::Function`; `Inverted` flips the last bit of its number.  A pipe
replaces the whole message by what the program prints; an identity brings its
blind copies; a transport that is not found falls back to the default.

**ActionParameters, ActionEditor.**  A text is the sequence of words between its
tabs.  For each of thirteen kinds of parameter: the text it is written as, what
is understood of a text, when the action is empty and so dropped, what the user
is asked when the folder, tag, identity, ... named is gone, and what an editor
shows and gives back.  `ActionEditor` takes one action through all of it while
tags come and go: `snapshot` is the answer to the tag listing under way, `events`
what the monitor has not yet told, `tags` is `mTagList`.  `listed` is the list of
the widget's own "add tag", taken when the widget is made (`NewWidget`) and
renewed only while that action's editor is there; what the widget shows and
offers comes from it, not from `tags`.

**FilterConfig, FilterImport.**  A group of a configuration file is a record in
which a missing key is an empty set.  `Home` and `Away` are worlds: the same
folder has another number in each, and some of what filters name is missing.
`ReadAllInteractive` gives the outcomes of every answer the user may give.

**FilterImporters.**  One state machine for all formats: `file` grows by an
entry, `s` is the importer.  A filter is begun, given conditions and actions, and
appended; each format's `Parse...` operator is the handler of its entries, with
what it skips and what it drops.

**SieveScripts.**  A block is a joint test, commands and a stop; `BlockHolds` gives
a test the meaning RFC 5228 gives it, over the same messages as `SearchRules`.

**FilterLog.**  Variables have the names of the class's members; an entry is its
length, in units of which `Unit` make a kilobyte.

**Snippets.**  `groups` is the model's tree below `mRootItem`, `variables` is
`mSavedVariables`, `config` the file, `dirty` is `mDirty`, `actions` is
`mActionCollection`, reduced to what each action inserts.  `dialogs` holds the
dialogs that stay open: the snippet and the group they were opened with
(`index`, `oldGroupIndex`, by address and by row, as an index has both), the
snippet's name of then, and the group that the combo box shows (`box`).  `made`
numbers the items: a number is an address, never used again; whoever follows an
index to an item that is gone sets `broken`, after which nothing is claimed.
`unmarked` and `worn` note the changes that the code does not mark or does not
pass on to the actions (section 7), so that the properties can say that there
are no others.  `Outdated` is the condition under which a dialog's index is
stale.

**Tags.**  `server` are the attributes stored, `pending` the `TagCreateJob`s,
`dialog` the dialog and the form in it, `given` what it returned to its opener.

**FolderSettings.**  `config` is the file, `fcMap` the cache of weak pointers,
`object` the settings objects by address, `dialog` what each dialog shows and
which object it holds.  An object stores itself when its last user lets go, if
it has been asked for with the right to write; `unsure` notes folders that have
had two objects at once, or a change that nobody may write, `unwritten` the
identities that a writing has left out of the file since the user chose.

**Kernel, SpecialFolders.**  `requests` is the bag of requests under way,
`listening` the connection to `defaultCollectionsChanged`, `exit` the error box
that `emergencyExit` shows, whose event loop lets everything else go on.

**FolderTree.**  Folders are numbered as they stand, 0 is the invalid index.
`IndexBelow`, `IndexAbove` and `TrySelectNextUnreadFolder` follow the code's walk
by parents and rows, over a tree from which the typed filter has taken folders
away.

**FolderChooser, FolderOrder, Receipts.**  `pending` are the questions to the
server about a folder.  `ranks` is the proxy's cache, `main` and `config` the
settings the main view shows and has stored; `special` is what folders are by
themselves, of which the proxy is told, `uses` what identities use them for, of
which it is not, and `stale` the folders that were ranked before such a change.
`modify` and `sent` are the answers on their way to the server and the receipts
that went out, which say "displayed" whatever was answered; `answers` is the
history of those that were acted upon.

## 3. Runs

Every action of every module fires in some passing run.  Deadlock is checked
except where the system has an end (a backup, a dialog or a filtered message is
over; freed memory has been used; the expiry job alone may wait for an answer
that an error has made impossible; a component has used up its bound).

| run | instance | shows |
|---|---|---|
| `scheduler_safety` | 4 tasks, an ordinary type and one that is never merged, 2 live folders (symmetric) and an invalid one, 1 pause | see below |
| `scheduler_immediate` | 3 tasks | violated: `ImmediateRunsFirst` |
| `expire_safety` | 3 messages (symmetric) of every age, status and flag, dated before 1970 or not at all; batches of 2; limits that fit, that overflow and none | see below |
| `expiry_system` | 3 tasks, a live folder and an invalid one, 2 messages, batches of 1, 1 pause, deleting | scheduler and jobs together |
| `expiry_stuck` | 2 tasks, 1 unread message that is moved | violated: `ExpiryQueueDrains` |
| `backup` | 4 folders in 3 levels, 3 messages of which one arrives later, a counter that wraps at 3 | see below |
| `filter_dialog` | 3 stored filters, of which one loses its only account, one foreign, one imported; at most 3 filters, 2 changes | see below |
| `mail_filter` | 6 messages; every rule alone and with another by and, or, all; every action alone and behind those that change what it sees; pairs of filters with stop, disabled, other account | see below |
| `folders` | the parts kernel, settings, tree, chooser, order, expiry, receipts of `MCComponents`; 1.4 million states | see below |
| `next_unread` | the part tree | violated: `NextUnreadIsNearest` |
| `editors` | the parts rule, action, snippets, log, import, files, sieve, tags of `MCComponents`; 1.3 million states | see below |
| `snippets_stale` | the part snippets | violated: `NoneLostByEditing` |

* **scheduler_safety** `NoDuplicateTasks`: registering, interrupting and filing
  again never leave two tasks alike in the list.  `TaskOwnership`: the list and
  the current task point to distinct objects that exist.  `PendingIsExact`: the
  counter of immediate tasks is never more than their number, and is just that
  until a pause resets it.
  `NoLostWakeup`: an idle scheduler with tasks has its timer running, and no
  immediate task among them.  `RunsSerially`: the scheduler implements
  `SerialRunner`, and pausing loses no work.
* **expire_safety** `NeverKilledHalfway`: while the server works on a batch the
  job is not cancellable.  `EndMeansDone`: a job that ends without an error has
  removed what it chose.  `OnlyDueMailGoes`: every message that leaves is, as it
  is on the server at that moment, older than the age for its status and not
  protected.  There are three exceptions, each named in the property: an age of
  24856 days or more, whose seconds overflow; mail dated before 1970, for which
  no limit is one; and a message that the user has read or marked since the job
  looked at it, which goes if it was due then.
* **expiry_system** `PauseLosesNothing`: a pause kills no job that has handed the
  server something.  `QueueDrains`: every task gets its turn unless the
  scheduler is paused.  `ImplementsScheduler`: what `JobScheduler` assumes of a
  job, its end included, is true of deleting expiry jobs, and there is a job
  exactly while there is a current task.
* **backup** `OneOutcome`: success or error is reported, once.  `AnswersInTurn`:
  one request is under way, so its answer finds the state it was made in, and no
  late answer writes to a closed archive.  `ArchiveIsWhole`: every folder and
  listed message is in the archive, once, below a directory already written.
  `DeletedMeansSaved`.  `BackupEnds`.
* **filter_dialog** `AgentFollows`: the agent's filters are those on file.
  `EditsReachTheirFilter`: the editors never hold another
  filter than the buttons act on, and what is entered reaches its filter,
  whatever is moved, copied, deleted or saved meanwhile.  `SavedSoundly`: with
  Apply disabled all is saved, and only valid filters are.
  `MovesKeepOrder` (but for Bottom, see 7).
* **mail_filter** `FetchSuffices`: matching and acting on what has been fetched
  is matching and acting on the whole message, whatever actions changed before.
  `ChangesAreStored`.  `NoneBehindTheStop`.  `PatternsAgree`: the server's query
  of a pattern finds what the pattern matches, for the rules in `Searchable`, and
  "A unless B" of old configurations keeps its meaning.
* **folders** `DefaultFoldersReturn`: however requests, answers and changes mix,
  the requests end, and then every default folder exists but those that got lost
  while the kernel did not listen.  `SettingsStay`: what was last set for a
  folder is what every object, cache and dialog shows and what is stored, with two named losses: a
  folder that had two objects at once or a change nobody may write (`unsure`), and
  an identity that was left out of the file as the default or the account's own
  (`unwritten`).  No folder uses an identity that does not exist; the order of the
  folders is the one that was set, and the cached ranks are the ranks, but for
  folders that an identity has begun or ceased to use since they were ranked
  (`stale`).  `StoredAsAnswered`: what a form said when it was saved is stored,
  and is what the task does that the last request made; a task that was waiting
  already does what the first one meant.  Only mail from others is answered, and
  once all answers have arrived the server keeps the last one, however many
  windows asked, unless it refused one.
  `ChooserShowsChoice`: once its questions are answered the line shows the
  folder that is stored, and the dialog accepts none that is gone.
  `JumpsArrive`: a jump back reaches the nearest folder with unread mail, and a
  typed filter leads to a folder that matches.
* **editors** `RuleStays`: a rule that is looked at is read back as it was, and an
  edited one is what the visible widgets show.  `ChoiceStays`: an action is
  stored as it was last chosen, the manager misses no tag, whichever of its
  listing and the reports comes first, a tag looks as it was entered.  Another
  tag may take the place of the chosen one if it was unknown when the action was
  read, if the widget that shows the action was made before the tag was known, or
  if the list changes under an open editor; the run shows that nothing else does
  it.  `Remembered`: what is not in the snippets' file is marked to be
  saved, but for the changes nobody marks.  `ActionsServe`: the shortcut of a
  snippet inserts it as it is now, unless another snippet has had the same
  action.  `EditsAsMeant`: a dialog changes the snippet it was opened for, no
  other, and puts it where it says, while its index is not outdated;
  `snippets_stale` shows what happens when it is.  `SizeIsExact`: the log's size
  is that of its entries and within the limit.  `ImportedAsWritten`: filters that
  are exported do the same elsewhere, to folders of the same path; of other
  programs' files every filter is imported or reported as empty, does all it did
  there that can be done here, and is on only if it was on; saving and reopening
  changes nothing.  `ConvertedAlike`: a script requires the extensions it uses,
  and a filter that Sieve can express acts on the messages it matches here.

**Why these bounds.**  The scheduler's four tasks suffice for one running, one
interrupted, one merged and one behind them, and with an invalid folder for the
chain of calls to be taken twice; the proofs of section 5 hold for any number.
Batches of two of three messages give a full batch, a last short one, and both
answers in both orders.  Three levels of folders are the fewest that tell depth
first from level by level.  In the dialog two changes with any number of clicks
and savings between them are the shortest histories in which one change could
stray to another's filter; three filters are the fewest with an order that a
move of two can break.  Rules and actions are all enumerated; three filters add
nothing to two, since a filter only hands the message and a stop to the next.
One snippet dialog is enough for an index to become stale, since the tree is
changed without dialogs too, and two changes are one that makes it stale and one
that uses it.  Three default folders and two changes let a folder get lost while
two requests are open.  One folder with two objects and a dialog is the least in
which a late writer can overwrite; its account is of IMAP or not.  Every tree of
four folders has the shapes in which a walk leaves a folder to its parent, its
sibling or its parent's sibling.  A rule is changed twice: what a hidden widget
keeps of the first change can show in the second.  Five entries of a file end a
filter and begin another with something skipped between.  Two tags of which one
changes once reorder the editor's list.  Sizes in the log lie below, at and
above a limit.  `MaxTasks`, `MaxPauses`, `MaxFilters`, `MaxEdits`, `MaxDialogs`,
`MaxMade`, `MaxChanges`, `MaxMoves`, `MaxQuestions`, `MaxJobs`, `MaxExports`,
`MaxImports`, `MaxTags` and `MaxEntries` bound how often the environment acts,
never what the code does; `BatchSize` stands for the code's 100, `SizeLimit` for
the width of its counter, `MaxRules` and `MaxActions` for its eight.

## 4. Fairness

`JobScheduler!FairSpec`: weak fairness of `TimerFires` (an active `QTimer`
fires) and of `SlotJobFinished` (a job ends).  The second is an assumption on the
jobs; `expiry_system` discharges it for expiry jobs that delete and
`expiry_stuck` shows that jobs that move do not satisfy it.
`FairSystemSpec`: weak fairness of the timer, of the server's answers (an
Akonadi job always emits its result) and of deferred deletion (the event loop
runs).  `BackupJob!FairSpec`: the same for listings, message fetches, the
zero-timers between messages, and deferred deletion.  `MCComponents!FairSpec`: the
kernel is started, and Akonadi answers the requests for each type of folder.
Nobody is assumed to register a task, to resume, to press a button or to cancel;
no strong fairness is used.

## 5. What is proved

Eight modules, `ListLemmas` among them, hold what TLAPS checks to the last leaf.
Each extends the module it is about, and speaks of every value of its constants: every set of
folders, every mailbox, every list of filters, any number of tasks.

| module | theorem | states |
|---|---|---|
| `JobSchedulerProofs` | `TypeCorrect`, `NeverTwoAlike`, `NoDanglingTask` | `TypeOK`, `NoDuplicateTasks`, `TaskOwnership` |
| | `PendingCorrect`, `WakeupsKept` | `PendingIsExact`, `NoLostWakeup` |
| | `SchedulerRunsSerially` | `RunsSerially`: initial states, steps, and that a pause loses nothing |
| | `SystemIsScheduler`, `SystemRunsSerially`, `PauseIsHarmless` | of `ExpirySystem`: the safety part of `ImplementsScheduler`, `RunsSerially`, `PauseLosesNothing` |
| `ExpireJobProofs` | `TypeCorrect`, `KillIsSafe`, `EndIsComplete`, `OnlyDueMailIsRemoved` | `TypeOK`, `NeverKilledHalfway`, `EndMeansDone`, `OnlyDueMailGoes` |
| `BackupJobProofs` | `TypeCorrect`, `OutcomeIsOne`, `AnswersFindTheirJob` | `TypeOK`, `OneOutcome`, `AnswersInTurn` |
| | `BackupIsWhole`, `DeletionIsSafe` | `ArchiveIsWhole`, `DeletedMeansSaved` |
| `MailFilterProofs` | `FetchIsEnough`, `StoredIsComplete`, `StopIsKept` | `FetchSuffices`, `ChangesAreStored`, `NoneBehindTheStop` |
| | `PatternsMeanTheSame` | `PatternsAgree` |
| `FilterDialogProofs` | `AgentAlwaysFollows`, `EditsAlwaysReachTheirFilter`, `AlwaysSavedSoundly`, `MovesAlwaysKeepOrder` | `AgentFollows`, `EditsReachTheirFilter`, `SavedSoundly`, `MovesKeepOrder` |
| `FolderProofs` | `OrderIsAlwaysKept`, `SettingsAlwaysStay` | `SettingsStay` (the first is its part about the order) |
| `ComponentProofs` | `ChooserAlwaysShowsChoice` | `ChooserShowsChoice` |
| | `AnswersAreAlwaysKept`, `ExpiryAlwaysAsEntered`, `AlwaysStoredAsAnswered` | `StoredAsAnswered` (the last), from its two parts |
| | `SizeIsAlwaysExact`, `RuleAlwaysStays`, `ScriptsAlwaysAct` | `SizeIsExact`, `RuleStays`, `ConvertedAlike` |
| | `ActionAlwaysStays`, `NoTagIsEverMissed`, `TagAlwaysAsEntered`, `ChoiceAlwaysStays` | `ChoiceStays` (the last), from its three parts |

Every inductive invariant was checked by TLC on the component's instance before
it was proved.

**The scheduler's tasks.**  `Inv == TypeOK /\ NoDuplicateTasks /\ TaskOwnership`
is inductive as it stands.  None of the three parts is so alone: that the list
stays a list of tasks needs that ids are those of registered tasks, a task that
is filed again is not alike any other only because `InterruptCurrentTask` looks
for one, and it is not in the list already only because the current task's id is
none of the list's.  Three lemmas on lists (`RestOfList`, `ListWithoutTask`,
`ListWithTask`) say what remains of a well-formed list when a task is taken from
it or appended.  `Settled` is what every path through the chain of calls leaves
behind; the `...Settles` lemmas show it for the operators, and one `...Keeps`
lemma per action uses them.

**Its counter and timer.** A pause sets the counter to 0 whatever is on the list, so
that it falls below 0 as immediate tasks are taken. `Balanced` says what is
always so: the counter never exceeds the number of immediate tasks, and is that
number until the first pause. `PendingIsExact` is the same in terms of sets.
`NoLostWakeup` needs it: a path on which every task is skipped leaves an empty
list, and the counter must have come down with it. `WakeInv` conjoins the three.
`Attended` is what every path leaves behind of them. The lemmas `CountOfAppend`,
`CountOfRemove` and their like say how the number of immediate tasks changes
with the list.

**It implements `SerialRunner`.**  The mapping is that of `JobScheduler`: held
tasks are those on the list or running.  All the refinement rests on is that a
step adds at most the task just registered to them (`OnlyNewOnes`), which every
action's lemma shows, and that the current task can be run (`CurrentRunnable`).
That one task runs at a time and none comes back then follows for every step at
once, rather than for each path of the chain of calls.

**Expiry jobs.**  `RemoverMatchesJob` says which remover, batches and consent to
be killed go with each phase of the job; `NeverKilledHalfway` follows from it.
`NoneForgotten` is the strengthening of `EndMeansDone`: *while* the job works,
a message that was selected has left the folder or is in a batch still to be
answered.  `WellChosen` says that what the remover got is what `Select` condemns
in the job's own copy of the mail, from which `OnlyDueMailGoes` follows as an
action property.  `MaxTimeIsTheAge` compares the code's arithmetic, which wraps, with
`Old`, which counts days and names the two cases in which they differ; no
hypothesis on the ages is needed.

**Scheduler and jobs together.**  `SystemInv` ties a job's phase to the task that
is current and to `cancellable`, all the scheduler knows of it.  Every step of the
system is then a step of `JobScheduler` or a stutter, so what is proved of that
module holds of the system, and `pause()` finds no job with a batch on the
server.

**Backup, its control.** `StateMeans` says what a new, a running, and an ended
job have under way. The case that matters is the listing that `abort()` cannot
stop: a job that has ended may have one under way only if `mAborted` is set.
`RequestsExclude` says that at most one request is under way. Without the first,
a late list would find a job it may start another request for; without the
second, two answers could each end it.

**Backup, what it writes.** `WholeInv` says what `archiveNextFolder` and
`archiveNextMessage` keep true between two requests. `ArchiveSound`: no entry
twice, each after the directory it is in. `QueueSound`: each queued folder is
either in the archive or still pending, and a pending folder's parent has made
room for it or is pending before it. `AllSaved`: what was listed is in the
archive, but for messages of the current folder still waited for. `Ready`: none
of those is in the archive yet, and their directory is. When the list of folders
is empty and no message waits, that is `ArchiveIsWhole`. It rests on
`FolderOrders`, which gives the orders that `queueFolders` can produce: parents
before their children, no folder twice.

**Mail filters.**  `FilterInv` conjoins `Shape` (types), `Control` (where the
filtering stands), `AtWork` and `StopsKept` (for `NoneBehindTheStop`),
`EnoughFetched` (what was fetched covers `RequiredPart` of every filter), `Marked`
and `ChangesAreStored`.  `Marked` is the heart: whatever differs between the
message on the server and the one in the context is marked to be stored, flags,
tags and the MDN state as flags, the rest as payload, and a payload is only
marked when all of it was fetched.  The lemmas that carry it:
`RulesMatchAlike` and `PatternsMatchAlike` - a rule does not look beyond what
`requiredPart()` says, so it matches the part as it matches the whole;
`ActionsKeep` - each of the 21 actions, in each of its outcomes, marks what it
changes (`Kept`), one lemma per group of actions; `ActionSuffices` - each does to
the part what it does to the whole; `StoredIsAll` - storing what is marked makes
the server's message the context's.  Since it is a lemma on *each* action that
two actions are composed by (`OneAfterAnother`), the result holds of filters with
any number of actions, where the run has two.

**Patterns.**  `PatternsAgree` is not an invariant of steps but of rules and
messages: a rule and the term it becomes are compared function by function, and
a pattern by its rules.  One part needs care.  An old "A unless B" is read as "A
and not B" by flipping the last bit of B's function.  `InvertedRule` shows,
function by function of `Enumerators`, that this finds the other one of the pair;
it denies B only where the functions of the pair are each other's opposite.  `Opposed` says where: the proof
showed that it must leave out functions that are not offered for the field, which
match nothing either way, and fields that are empty.

**Lists.**  Induction over a list cannot be had from the library's theorems, since
they take an operator.  `ListLemmas` gets it through sets: a set of lists that
has the empty one, and with each list every longer one by an element, has all
lists (`ByAppending`, from the fact that every set of numbers has a least one,
`LeastExists`), and a recursion over 1..n has a solution (`RecursionExists`).
What these lemmas take are sets and functions, which the provers can instantiate.
What `Keep` (a list without some elements), `RemoveAt` and `InsertAt` return is
proved with them; `Keep` is the code's loop, written as a recursive function.

**Filter manager and dialog.**  `ManagerInv`: the agent has what is read of the
file, and once the manager has loaded its filters, reading the file gives what
reading them would.  Reading and writing drop what is empty, so this rests on
`Keep` of a `Keep`, on lists of any length.  `DialogInv` has the widgets under
control (`Sane`: no item twice, current and selected items are in the list, the
editors hold the current item's filter or none) and `ItemsFit`: for *every* item
of the list, what has been entered for it - in the widgets if the editors hold it,
else in its filter - is what is wanted of it.  Every call that moves, copies,
shows or saves is shown to keep that of all items, the others included, which is
where a value written back late would show.  `SavedInv` adds, for `SavedSoundly`,
that while Apply is disabled every valid filter of the list is among the
manager's, but for order and what `purify` drops (`HasSaved`).  `MovesKeepOrder`
speaks of one step; it follows from where a move of one item after the other
leaves those that are not selected.

**Chooser, receipts, expiry settings.**  `LineInv`: the line shows the folder, or
an answer is awaited that will make it do so.  `ButtonsInv`: the dialog's buttons
are as the selection wants them.  `AnswersInv`: the answers on their way end with
the last one given, and when none is on its way that one is stored, unless the
server has refused one.  `ExpiryInv` follows one set of values through the form
(`IsPage`), the job that stores it (`IsJob`), the attribute (`IsAttribute`) and
the task, each of which must mean the same; the task means what its first
request meant.

**Filter log.**  `LogInv` needs the sum of a list, for any list.  `Log!Size` is a
fold; `Sums` gives the sum of every prefix as a function, and trimming drops the
least number of entries that will do, which exists since dropping all does.

**Rule editor.**  `EditorInv`: the raised widgets belong to the handler of the
field that is shown (`Raised`), and the rule that was set is what that handler
reads from them (`StillShown`), whatever the hidden widgets hold.  The proof found
the bound that `RuleStays` had for sizes too narrow: a size is shown in units
with decimals, and reading it back may lose six bytes or gain five.

**Sieve.**  `SieveInv` says that the blocks made so far are those of the first
filters and that their extensions are required.  That a block holds for just the
messages that the filter matches is proved test by test (`TestOf`), then for the
joints "all of", "any of" and "true".

**Tags and actions.**  `TagInv`: what is stored of a tag says what was meant, and
a job the dialog waits for carries the name in its line or OK was pressed twice.
`ListInv`: the manager knows every tag of the server, since the last report about
it that is on its way adds it, or none is on its way and it is in the list or in
the answer awaited.  `Faithful` says that what is stored, what the filter holds
and what the editor shows is what was chosen; it rests on a lemma for each kind
of parameter that what is written is read as it was (`ParameterRead`) and what is
shown is given back (`ParameterShown`), and on `ListedStays` for the tags an
editor has listed, which are those of the widget's own action.

**Folder order and settings.**  `OrderInv`: the dialog's list has each account
once, a cached rank is the rank unless it is stale, and the main view shows what
is stored.
`SettingsInv` has five parts.  Identities exist (`ManagerFits`); a folder has one
object unless it is noted as unsure (`HeldOnce`); the cache and the dialogs point
to objects that live (`PointersFit`, `PagesFit`); and what was last asked of a
folder fits its object if it has one, what would be read if it has none
(`StoredFit`).  "Fits" is weaker than "equals", and has to be: an identity that
was the default, or an IMAP account's own, when the object was written is not in
the file (`unwritten`), so the folder follows the default from then on, and an
identity that is removed is replaced.  That fitting survives writing, reading and the manager's changes are
`WrittenFits`, `StoredFits` and `FollowedFits`.

**Assumptions on constants.**  TLC evaluates them in the runs.  `JobScheduler`:
valid folders are folders, task types and bounds are naturals, "no task" is no
task.  `ExpireJob`: the time is a natural, batches are not empty, the setting is a
Boolean, policies are attributes as the expiry page can produce.  `ExpirySystem`:
expiry is a task type.  `BackupJob`: finitely many folders and messages, every
folder but the root has a parent other than itself, sizes are positive, the
counter has a width.  `MailFilter`: messages have the properties of `IsMessage`,
rules and actions are those the editors offer (`IsRule`, `IsAction`): a test for
attachments only on the whole message, parameters that the action's editor can
give.  `FilterManager`, `FilterDialog`: stored and imported filters are filters,
and "no filter" is none.  `Components` (`ChooserAssumption` to
`ScriptsAssumption`, beside the constants they are about): folders, tags,
accounts and "none" differ, ages, sizes, ranks and bounds are numbers, lists
name nothing twice, and the choices offered for an action and the filters to
convert are such as the editors make.

## 6. Only model-checked

* Liveness: `QueueDrains`, `BackupEnds`, that the kernel's requests end, and the
  fairness of `ImplementsScheduler`, which needs ENABLED, are out of the prover's
  reach; the safety part of the last is proved.
* Snippets: `Remembered`, `ActionsServe`, `EditsAsMeant`.  The tree is a list of
  groups that are lists of snippets, and what the properties rest on is that no
  two items have one address, through `FlattenSeq`, `SelectInSeq` and
  `CHOOSE` by address; the lemmas of `ListLemmas` reach one level of that.
* `ImportedAsWritten` and `JumpsArrive`: what recursive functions compute of a
  file or a tree.  The lemmas of `ListLemmas` give induction over a list that
  grows at its end; a walk that goes down, up and round a tree, and an importer
  whose state is folded over a file, would each need an induction of their own.
* `TypeOK` of a component in `Components` is checked with its other properties;
  what a proof needs of it is part of that component's invariant.

## 7. Disagreements met while modelling

With a run (see `findings`): an immediate request merged into an ordinary task
waits for the timer; a job that has moved unread mail never ends; a dialog that
moves a snippet may remove another one; the jump to the next unread folder
passes over a folder that follows an ancestor.

Without a run, as the code has them and as the models reproduce them or leave
them out:

* Scheduler: the task of an invalid folder is never deleted; `pause()` during an
  immediate job starts the next one, which it is documented to prevent, since
  killing the job re-enters the scheduler while an immediate task is pending.
* Expiry: an age of more than 24855 days wraps, and everything is expired
  (`job/expirejob.cpp:75`; the form accepts 999999); mail dated before 1970 is
  expired although shown without a limit; an error in moving leaves the job
  undeleted; the flags looked at may have changed by the time the mail is
  removed.
* Expiry settings: the correction that the form makes and shows is not what is
  stored; "Save and Expire Now" that is merged into a queued task expires by the
  settings of before, those of the first request (`ExpiryAsEntered` says so).
* Backup: folders are written depth first, where the comment of `queueFolders`
  wants level by level; with "delete afterwards", mail that arrived after the
  listing and subfolders that were not archived are deleted too.
* Filter dialog: when the user refuses to save and wants to go on, the dialog
  closes all the same (`filter/kmfilterdialog.cpp:343`, `:373` "Disable closing
  when user wants to continue editing"); the toolbar box stays ticked when the
  shortcut box is unticked; Bottom reverses several selected filters; a filter
  that lost its last rule is saved and matches everything; Apply is disabled even
  if the user refuses to save; appending with "replace" skips the first filter; a
  click on the already current item after a multiple selection leaves the editors
  empty; Delete asks about the current filter and removes the selected ones; a
  comment of `insertFilter` says append, the code inserts.
* Import: once a question about something missing has been answered, the filters
  read are written over the program's own, whether any is selected or not
  (`filter/filterimporterexporter.cpp:58`), and without regard to the server's
  namespace; imported filters keep their identifiers; a filter without rules
  counts as invalid only if it has no actions either (`filter/mailfilter.cpp:602`;
  `filterimporterexporter.cpp:113` says "e.g. containing no actions or no search
  rules") though an empty pattern matches everything; a folder whose exported
  path is a number is read as that folder's number
  (`filteractions/filteractionwithfolder.cpp:93`); a group without "apply-on" is
  read as of old, for all but IMAP accounts.
* Other programs' filters: a name or value with "AND " or "OR " in it is split as
  a condition, an opening parenthesis is dropped, and only the third part between
  commas is kept (Thunderbird); Balsa's conditions are ignored; Claws Mail and
  Gmail files give empty filters; Procmail keeps three headers and ignores
  forwarding; forwarding is dropped everywhere, since there is no such action;
  Evolution's "set status" has its value dropped; imported filters always stop.
* Filters: the value of "all folders" overlaps two other flags; a stream is
  written with the wide count and read with the narrow one, writes no name of
  the pattern, and reading it appends rules to those there were; one category
  function is described as its opposite.
* Rules: "age in days" asks the server to compare with a date ahead; queries of
  an "all" pattern still ask its rules; rules on encryption ask nothing; a query
  without a term is never reported as missing its check; the negative functions
  of the address book, and of "recipients equals", are not opposites.
* Rule editor: a tag that has been deleted, or not yet fetched, is lost when the
  rule is looked at, though a comment says that it is still shown; ages over 99
  are cut and a size may lose six bytes or gain five; a function that an index
  search refuses becomes "contains"; text typed into the combo of tags is not
  used.
* Actions: inline OpenPGP is neither decrypted nor recognised as encrypted;
  re-encrypting S/MIME to a key one holds never happens; redirecting sends
  "dispatched" before it sends; copying copies the stored message without what
  earlier actions changed; unset "unread" leaves only the read flag; setting a
  status drops flags that are not a status.
* Editors of actions: the "add tag" of a widget knows the tags of its
  construction, or of when its editor was last open
  (`filter/filteractions/filteractionaddtag.cpp:28`, `:69`), so one made before the
  tags are listed shows none, and a tag added since is shown as the first one; the
  editor falls back to the first tag when the list changes, and a tag that is gone is replaced by the name, not the
  address, of the first; who cancels the question for an identity gets number
  4294967295; a key that is not found when filters are read drops the action; the
  manager may list a tag that was removed while it asked.
* Tags: pressing OK twice makes two tags, and the label given may be the second's
  with the address of the first; the dialog opened for a missing tag is not told
  of the tags there are, so a second of the same name passes; without its flag a
  font, unlike a colour, is not reset.
* Sieve: "all" writes a block that is not well formed; sizes in bytes are written
  as kilobytes; what rules on encryption, attachments and invitations ask becomes
  a test of a header of that name; "set flag" replaces the flags where the action
  adds one; an empty "add header" becomes a remark but still requires its
  extension; negated tests match messages that lack the header.
* Snippets: two snippets whose names differ in blanks and underscores share one
  action, and deleting one takes it from both; deleting a group leaves the
  actions of its snippets; a text dropped on a snippet is neither marked to be
  saved nor passed on to its action, and a snippet dropped on another one is
  removed from its group as if it had been moved; the group "General" is made
  without being marked; text dropped on a group is offered to the selected
  group; accepting the dialog of a snippet that is gone uses freed memory; who
  cancels the question for a variable gets an empty text inserted.
* Folders: the answer about a folder chosen before may come after another was
  chosen, and if the first is gone the second is forgotten with it
  (`folder/folderrequester.cpp:123`); a double click accepts a folder for which
  OK is disabled; the search for unread mail that starts again leaves out the
  folder it starts at, and declining its question counts as "none found"; the
  identity chosen for a folder is left out of the file when it is the default, or
  the account's own with IMAP, but is read back as the default of the moment
  (`folder/foldersettings.cpp:246`); after `clearCache()`, which nothing in this
  repository calls, two objects for one folder overwrite each other; a folder
  that an identity begins to use for drafts, templates or sent mail keeps the
  rank it had in the cache (`folder/entitycollectionorderproxymodel.cpp:27`).
* Receipts: a receipt that is denied is sent with "displayed"
  (`mdn/mdnwarningjob.cpp:60`), as the model has it; asked in two windows, two
  receipts may be sent; the server may refuse to store an answer after the
  receipt has gone out.
* `folderRemoved` of the filter manager has no caller in this repository.

## 8. Not modelled, and why

Wording, icons, layout and shortcuts' keys; dialogs that ask one question and
keep nothing; views that only display the server's tree; property pages that
only copy values (templates, the folder's name); the favourite folders, whose
order Akonadi keeps; the redirection dialog, a form that is read once; running
filters from the dialog, which keeps no state; descriptions of filters;
categories of the address book, which no editor offers; replacing variables
within a snippet's text, which is a computation on characters; compacting the
server's database and other requests of the utilities that await no answer.  The
scheduler's destructor ends the system.  A listing of tags that fails ends
without a list, and is left out; so is the shared flag of the rule editors
(section 2, `RuleEditor`).

## 9. Plan

Every component that keeps state has a module, and all but five - snippets,
kernel, folder tree, import and the importers - have their safety properties
proved.  What is left to prove, in this order:

1. `Snippets`: that no address occurs twice in the tree, from which
   `ActionsServe` and `EditsAsMeant` follow with a lemma on `FlattenSeq`.
2. `Kernel`: that a kernel with nothing under way listens, and that the folders
   lost are those that went while it did not (`DefaultFoldersReturn` without its
   liveness).
3. `FolderTree`: that `IndexBelow` goes through a tree in its order, with the
   order as a given function instead of the recursive one.

Further in the model: several folders in `ExpirySettings`, composed with the
scheduler so that a merged task's settings can be seen; the filter dialog
composed with `RuleEditor` and `ActionEditor` instead of its own abstract form.
