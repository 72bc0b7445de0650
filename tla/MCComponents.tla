----------------------------- MODULE MCComponents -----------------------------
(***************************************************************************)
(* Small instances for TLC: what the constants of Components are, and the  *)
(* kernel, the folder tree, and the files filters are written to and read  *)
(* from, which stand beside its components.  A behaviour is one of the     *)
(* part that it starts with.  The parts that stand here take their         *)
(* variables from v1, v2, ..., in the order of their vars.                 *)
(***************************************************************************)
EXTENDS Components, TLC

MaxEditsIn == [expiry |-> 3, rule |-> 2, settings |-> 2, tags |-> 1, action |-> 2]
MaxChangesIn == [order |-> 2, action |-> 1, snippets |-> 2]

-----------------------------------------------------------------------------
(* Receipts: a message in an ordinary folder, or in one that is anything a *)
(* folder can be.                                                          *)
MessagesIn == [folder : {"f", "g", None}, valid : BOOLEAN, isReceipt : BOOLEAN]
Box(t) == [special |-> [k \in {"Inbox", "Outbox", "SentMail", "Drafts", "Trash", "Templates", "Spam"} |->
                          IF k = t THEN "g" ELSE None],
           identities |-> {[drafts |-> IF t = "drafts of" THEN "g" ELSE None, fcc |-> IF t = "fcc of" THEN "g" ELSE None,
                            templates |-> IF t = "templates of" THEN "g" ELSE None, spam |-> None, disabledSpam |-> TRUE]},
           trash |-> IF t = "trash of" THEN {"g"} ELSE {}, inboxes |-> {}]
BoxesIn == {Box(t) : t \in {"Inbox", "Outbox", "SentMail", "Drafts", "Trash", "Templates", "Spam",
                            "drafts of", "fcc of", "templates of", "trash of"}}

(* FilterLog: limits below, at and above what four entries take. *)
LimitsIn == {-3, -1, 5, 20, 25}

(* RuleEditor: every rule, shown and changed in every order of two changes. *)
StatusValuesIn == <<"Important", "Unread">>

(* FolderSettings: one folder of an IMAP account or another, two objects for it, a *)
(* dialog and two identities, of which the other is the default one.       *)
AccountKindsIn ==
    {[resource |-> TRUE, imap |-> i, useDefault |-> ~i, identity |-> "i1"] : i \in BOOLEAN}

(* FolderOrder: two accounts whose folders may become an inbox. *)
AccountsIn == <<"a", "b">>

(* Tags: two that are made, one edit, three ways to set the widgets. *)
Widgets(isText, back, font, toolbar) ==
    [textOn |-> isText, text |-> "red", backOn |-> back, back |-> "white",
     fontOn |-> font, bold |-> TRUE, italic |-> FALSE, toolbar |-> toolbar]
FormsIn == {Widgets(TRUE, FALSE, FALSE, TRUE), Widgets(FALSE, TRUE, TRUE, FALSE), Widgets(FALSE, FALSE, FALSE, FALSE)}

-----------------------------------------------------------------------------
(* The world the filters live in *)

Work == [url |-> <<"t1">>, name |-> <<"work">>]
Home == [url |-> <<"t2">>, name |-> <<"home">>]
NoText == <<"">>

World(known, paths, ids, transports, sounds, books, keys, accounts) ==
    [tags |-> known, paths |-> paths, identities |-> ids, transports |-> transports,
     sounds |-> sounds, books |-> books, keys |-> keys, accounts |-> accounts]

(* ActionEditor: an action of each kind of parameter, two tags that come and go. *)
OffersOf ==
    ("add tag" :> {<<Work.url>>, <<Home.url>>})
    @@ ("add to address book" :> {<<<<"From">>, <<"5">>, <<"c">>>>, <<<<"CC">>, <<"5">>, NoText>>, <<NoText, <<"5">>, <<"c">>>>})
    @@ ("set identity" :> {<<<<"5">>>>})
    @@ ("encrypt" :> {<<<<"k">>, <<"1">>>>})
    @@ ("transfer" :> {<<<<"5">>>>, <<NoText>>})
    @@ ("add header" :> {<<<<"x">>, <<"v">>>>})
    @@ ("set status" :> {<<<<"R">>>>})
    @@ ("rewrite header" :> {<<<<"h">>, <<"r">>, NoText>>, <<<<"h">>, <<"r">>, <<"v">>>>})
NewTagIn == <<"new">>
HeadersIn == <<NoText, <<"h">>, <<"g">>>>
ActionTypesIn == DOMAIN OffersOf
AllTagsIn == <<Work, Home>>
ExistingIn == World(<<>>, "5" :> <<"/inbox">>, {<<"5">>}, {<<"5">>}, {}, {<<"5">>}, {<<"k">>}, {})

(* Snippets: two groups, one with two snippets, and names of which two have the same action. *)
NormalNames == ("c" :> "c") @@ [n \in {"a b", "a_b"} |-> "a_b"]
FirstTree ==
    <<[id |-> 1, name |-> "General", items |-> <<[id |-> 3, name |-> "a b", text |-> "long"],
                                                 [id |-> 4, name |-> "c", text |-> "long"]>>],
      [id |-> 2, name |-> "own", items |-> << >>]>>
SnippetNamesIn == DOMAIN NormalNames

(* SieveScripts: one filter with every rule, or two of which the first asks two things. *)
Rules == INSTANCE SearchRules WITH MaxRules <- 2
SieveRules == [field : {"subject", "from", "<body>", "<size>", "<status>"}, func : Rules!Functions, contents : {"valid"}]
NotAtStart == [field |-> "subject", func |-> [test |-> "start-with", neg |-> TRUE], contents |-> "valid"]
Asking(op, rules, acts) == [pattern |-> [name |-> "n", op |-> op, rules |-> rules], actions |-> acts, stop |-> TRUE]
SieveFilters ==
    {<<Asking("and", <<r>>, <<"transfer", "set status">>)>> : r \in SieveRules}
    \cup {<<Asking(op, <<NotAtStart, r>>, <<"copy", "forward">>), Asking(op, <<NotAtStart, r>>, <<"add header">>)>> :
             r \in SieveRules, op \in {"or", "all", "and"}}
SieveMessages ==
    {[part |-> Rules!Complete, text |-> [f \in Rules!Fields |-> t], size |-> o] :
       t \in Rules!Texts, o \in {-1, 0, 1}}

-----------------------------------------------------------------------------
(* The parts that stand here *)

VARIABLES v1, v2, v3, v4, v5, v6, v7, v8, v9

vs == <<v1, v2, v3, v4, v5, v6, v7, v8, v9>>
allVars == <<vars, vs>>
From4 == <<v4, v5, v6, v7, v8, v9>>
From5 == <<v5, v6, v7, v8, v9>>
Unused5 == v5 = 0 /\ v6 = 0 /\ v7 = 0 /\ v8 = 0 /\ v9 = 0
Unused4 == v4 = 0 /\ Unused5

\* Three default folders, of which two get lost or are replaced.
K == INSTANCE Kernel WITH
       Types <- {"Inbox", "Outbox", "Trash"}, MaxChanges <- 2,
       existing <- v1, unusable <- v2, requests <- v3, listening <- v4, exit <- v5,
       started <- v6, unheard <- v7, idled <- v8, changes <- v9

\* Every tree of four folders, at most one of them named or treated unlike the others.
T == INSTANCE FolderTree WITH
       Size <- 4, Names <- {"a", "b"}, MaxMoves <- 1,
       parent <- v1, kind <- v2, name <- v3, pattern <- v4, shown <- v5, current <- v6,
       asked <- v7, jump <- v8, moves <- v9
Alike(f, usual) == Cardinality({i \in DOMAIN f : f[i] \notin usual}) <= 1
TreesIn == /\ Alike(v2, {"read", "unread"}) /\ Alike(v3, {"a"})
           /\ (\A i \in DOMAIN v2 : v2[i] = "read") \/ \A i \in DOMAIN v3 : v3[i] = "a"

(* FilterImport: lists of two filters taken to another computer and back, and a *)
(* group somebody has edited.                                              *)
ExportPaths == ("5" :> <<"/inbox">>) @@ ("6" :> <<"/lists">>)
HomeWorld == World(<<Work>>, ExportPaths, {<<"5">>}, {<<"5">>}, {<<"s">>}, {<<"5">>}, {<<"k">>}, {"acc"})
AwayWorld == World(<<Work>>, ("7" :> <<"/inbox">>) @@ ("5" :> <<"/else">>), {<<"7">>}, {<<"5">>}, {}, {<<"7">>}, {}, {"other"})
Config == INSTANCE FilterConfig WITH
            Headers <- <<NoText, <<"h">>>>, NewTag <- <<"new">>, Numbers <- {"0", "1", "5", "6", "7"},
            StatusCodes <- {"R"}, MdnCodes <- {"I"}, MaxRules <- 2, MaxActions <- 3

Action(name, param) == [name |-> name, param |-> param, known |-> <<Work>>]
Subject(contents) == [field |-> "subject", func |-> [test |-> "contains", neg |-> FALSE], contents |-> contents]
First ==
    [id |-> "1", pattern |-> [name |-> "f1", op |-> "and", rules |-> <<Subject("a")>>], on |-> {"check-mail"},
     applicability |-> "all", stop |-> TRUE, configureShortcut |-> FALSE, shortcut |-> "",
     configureToolbar |-> FALSE, toolbarName |-> "f1", icon |-> Config!StandardIcon, autoNaming |-> FALSE,
     enabled |-> TRUE, actions |-> <<Action("transfer", <<<<"5">>>>)>>, accounts |-> {}]
Second ==
    [First EXCEPT !.id = "2", !.pattern = [name |-> "f2", op |-> "or", rules |-> <<Subject("a"), Subject("b")>>],
                  !.applicability = "checked", !.accounts = {"acc"}, !.on = {"check-mail", "send-mail"},
                  !.shortcut = "F2", !.configureShortcut = TRUE, !.icon = "star",
                  !.actions = <<Action("copy", <<<<"6">>>>), Action("add tag", <<Work.url>>)>>]
Third ==
    [First EXCEPT !.id = "3", !.enabled = FALSE, !.stop = FALSE,
                  !.actions = <<Action("transfer", <<<<"6">>>>), Action("set identity", <<<<"5">>>>),
                                Action("set status", <<<<"R">>>>)>>]
Edited ==
    [Config!WriteAll(<<First>>, TRUE, HomeWorld)[1] EXCEPT
       !.on = {}, !.id = {},
       !.actions = <<[name |-> "forward", args |-> NoText], [name |-> "add tag", args |-> <<"t9">>]>>]
Import == INSTANCE FilterImport WITH
            Headers <- <<NoText, <<"h">>>>, NewTag <- <<"new">>, Numbers <- {"0", "1", "5", "6", "7"},
            StatusCodes <- {"R"}, MdnCodes <- {"I"}, MaxRules <- 2, MaxActions <- 3,
            FilterLists <- {<<First>>, <<Second, First>>, <<Third, Second>>}, Foreign <- {Edited},
            Home <- HomeWorld, Away <- AwayWorld, MaxExports <- 1, MaxImports <- 1,
            place <- v1, config <- v2, list <- v3, file <- v4, offered <- v5, stage <- v6, origin <- v7,
            exports <- v8, imports <- v9

(* FilterImporters: files of every format with up to four entries. *)
Line(tag, value) == [tag |-> tag, value |-> value]
ThunderbirdLines ==
    {Line("name", <<"a">>), Line("action", <<"Delete">>), Line("action", <<"Move to folder">>),
     Line("actionValue", <<"/in">>), Line("action", <<"Change priority">>), Line("actionValue", <<"High">>),
     Line("action", <<"Stop execution">>), Line("action", <<"Mark read">>), Line("enabled", <<"no">>), Line("type", <<"32">>),
     [tag |-> "condition", op |-> "OR",
      conditions |-> <<<<"size", "is less than", <<"5">>>>, <<"priority", "is", <<"1">>>>, <<"body">>>>]}
SylpheedTags ==
    {[tag |-> "rule", name |-> <<"a">>, enabled |-> "false", timing |-> "manual"],
     [tag |-> "rule", name |-> <<"b">>, enabled |-> "", timing |-> ""],
     [tag |-> "condition-list", bool |-> "or"],
     [tag |-> "condition", match |-> "match-header", header |-> "X-Other", type |-> "is", text |-> <<"x">>],
     [tag |-> "condition", match |-> "unread", header |-> "", type |-> "is", text |-> NoText],
     [tag |-> "action-list"], [tag |-> "action", name |-> "move", text |-> <<"in">>],
     [tag |-> "action", name |-> "stop-eval", text |-> NoText], [tag |-> "action", name |-> "forward", text |-> <<"x">>]}
EvolutionTags ==
    {[tag |-> "rule", enabled |-> "", grouping |-> "any", source |-> "outgoing"], [tag |-> "title", text |-> <<"a">>],
     [tag |-> "partset"], [tag |-> "part", name |-> "all", option |-> "", type |-> "", text |-> NoText],
     [tag |-> "part", name |-> "status", option |-> "is", type |-> "flag", text |-> <<"Seen">>],
     [tag |-> "actionset"], [tag |-> "action", name |-> "copy-to-folder", type |-> "folder", text |-> <<"in">>],
     [tag |-> "action", name |-> "set-status", type |-> "option", text |-> <<"Seen">>],
     [tag |-> "action", name |-> "stop", type |-> "", text |-> NoText]}
ProcmailLines ==
    {[tag |-> ":0"], [tag |-> "*", header |-> "From", text |-> <<"x">>], [tag |-> "*", header |-> "Sender", text |-> <<"x">>],
     [tag |-> "|", text |-> <<"| sh">>], [tag |-> "", text |-> <<"in">>], [tag |-> "!"]}
BalsaGroups ==
    {[tag |-> "group", name |-> <<"a">>, sound |-> <<"beep">>, type |-> "2", action |-> <<"in">>, op |-> "or"],
     [tag |-> "group", name |-> <<"b">>, sound |-> NoText, type |-> "3", action |-> NoText, op |-> ""]}
Files == INSTANCE FilterImporters WITH
           Headers <- <<NoText, <<"h">>>>, NewTag <- <<"new">>, Numbers <- {"0", "1", "5"}, StatusCodes <- {"R"}, MdnCodes <- {"I"},
           Entries <- [thunderbird |-> ThunderbirdLines, sylpheed |-> SylpheedTags, evolution |-> EvolutionTags,
                       procmail |-> ProcmailLines, balsa |-> BalsaGroups,
                       claws |-> {[tag |-> "filter", name |-> <<"a">>], [tag |-> "["]}, gmail |-> {[tag |-> "entry"], [tag |-> "title"]}],
           There <- World(<<Work>>, ("5" :> <<"in">>) @@ ("6" :> <<"High">>), {<<"5">>}, {<<"5">>}, {<<"beep">>}, {}, {}, {}),
           Slashed <- (<<"/in">> :> <<"in">>), Dates <- {}, MaxEntries <- 5,
           format <- v1, file <- v2, s <- v3, done <- v4

-----------------------------------------------------------------------------

AllInit ==
    /\ Init /\ (part = "settings" => default = "i2")
    /\ CASE part = "kernel" -> K!Init
         [] part = "tree" -> T!Init /\ TreesIn
         [] part = "import" -> Import!Init
         [] part = "files" -> Files!Init /\ Unused5
         [] OTHER -> v1 = 0 /\ v2 = 0 /\ v3 = 0 /\ Unused4

AllNext ==
    /\ Next
    /\ CASE part = "kernel" -> K!Next
         [] part = "tree" -> T!Next
         [] part = "import" -> Import!Next
         [] part = "files" -> Files!Next /\ UNCHANGED From5
         [] OTHER -> UNCHANGED vs

AllSpec == AllInit /\ [][AllNext]_allVars

\* The fairness of Kernel: it starts, and Akonadi answers every request.
Kernel(A) == part = "kernel" /\ A /\ UNCHANGED vars
FairSpec ==
    /\ AllSpec
    /\ WF_allVars(Kernel(K!Start))
    /\ \A t \in {"Inbox", "Outbox", "Trash"} : WF_allVars(Kernel(K!Answer(t)))

-----------------------------------------------------------------------------
(* Properties of the parts that stand here *)

\* Kernel: however the requests for default folders, their answers and the changes of
\* these folders mix, the requests end, and when they have every folder is there but
\* those lost unheard, and the kernel listens.
DefaultFoldersReturn ==
    /\ [](part = "kernel" => K!DefaultFoldersReturn)
    /\ <>[](part = "kernel" => K!Answered)

\* FolderTree: a jump back reaches the nearest folder with unread mail, and a typed
\* filter leads to a folder that matches it.
JumpsArrive ==
    /\ [](part = "tree" => T!JumpsToUnread)
    /\ [][part = "tree" => T!LeadsToMatch]_allVars

\* FolderTree: "find next unread collection starting from current position" (src/src/folder/
\* foldertreeview.cpp:390).  The code breaks it.
NextUnreadIsNearest == part = "tree" => T!NextUnreadIsNearest

\* FilterImport and FilterImporters: filters that come from a file do what the file says,
\* on another computer too, with nothing of one entry taken for another's; and saving and
\* reading again changes none.
ImportedAsWritten ==
    /\ [](part = "import" => Import!ImportedAsExported)
    /\ [](part = "files" => Files!ImportedAsWritten)
    /\ [][part = "import" => Import!ReopensAsSaved]_allVars
=============================================================================
