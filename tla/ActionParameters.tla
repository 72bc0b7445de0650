--------------------------- MODULE ActionParameters ---------------------------
(***************************************************************************)
(* The parameters of filter actions (src/src/filter/filteractions/): how   *)
(* they are kept as text in the configuration, what of a text is           *)
(* understood, when an action is empty, what the user is asked when what   *)
(* an action names is gone, and how an editor shows and gives back a       *)
(* parameter.                                                              *)
(***************************************************************************)
EXTENDS Integers, Sequences, SequencesExt, FiniteSets, TLC

CONSTANTS
  Headers,     \* the texts of headers offered, the empty one first
  NewTag,      \* the address of a tag made while one is asked for
  Numbers,     \* the words that are numbers: ids of folders, identities and so on
  StatusCodes, \* the letters of the statuses a filter may set
  MdnCodes     \* "I" and the letters of the dispositions of a faked receipt

(* A text is the sequence of words between its tabs, so that joining two   *)
(* texts by a tab is joining the sequences.                                *)
Words(t)  == ToSet(t)
NoText    == <<"">>
Blank(t)  == Words(t) = {""}
IsNumber(t) == Len(t) = 1 /\ t[1] \in Numbers \cup {"4294967295"} \* -1, as an unsigned number

(* What there is: the tags the filter manager knows, in the order of their *)
(* addresses, and the paths of folders, identities, transports, sounds,    *)
(* address books, keys and accounts that exist.                            *)
World(tags, paths, identities, transports, sounds, books, keys, accounts) ==
  [tags |-> tags, paths |-> paths, identities |-> identities, transports |-> transports,
   sounds |-> sounds, books |-> books, keys |-> keys, accounts |-> accounts]

(* FilterActionDict: "forward" is not among the actions there are.         *)
ActionNames ==
  {"transfer", "copy", "execute", "filter app", "redirect", "delete", "encrypt", "decrypt", "set Reply-To",
   "remove header", "play sound", "set status", "unset status", "fake mdn", "add tag", "set identity",
   "set transport", "add header", "rewrite header", "add to address book", "confirm delivery"}

KindOf ==
  [n \in ActionNames |->
     CASE n \in {"transfer", "copy"}                  -> "folder"
       [] n \in {"execute", "filter app", "redirect", "set Reply-To", "remove header"} -> "text"
       [] n = "play sound"                            -> "sound"
       [] n \in {"set status", "unset status"}        -> "status"
       [] n = "fake mdn"                              -> "mdn"
       [] n = "add tag"                               -> "tag"
       [] n = "set identity"                          -> "identity"
       [] n = "set transport"                         -> "transport"
       [] n = "add header"                            -> "pair"
       [] n = "rewrite header"                        -> "triple"
       [] n = "add to address book"                   -> "book"
       [] n = "encrypt"                               -> "key"
       [] n \in {"delete", "decrypt", "confirm delivery"} -> "none"]
-----------------------------------------------------------------------------
(* A new action.  The tags are those known at this moment.                 *)
FirstParam ==
  [folder |-> <<NoText>>, text |-> <<NoText>>, sound |-> <<NoText>>, status |-> <<NoText>>, mdn |-> <<NoText>>,
   tag |-> <<NoText>>, identity |-> <<<<"default">>>>, transport |-> <<<<"-1">>>>, pair |-> <<NoText, NoText>>,
   triple |-> <<NoText, NoText, NoText>>, book |-> <<NoText, <<"-1">>, <<"KMail Filter">>>>,
   key |-> <<NoText, <<"0">>>>, none |-> << >>]

NewAction(name, w) == [name |-> name, param |-> FirstParam[KindOf[name]], known |-> w.tags]
ParamKind(a)       == KindOf[a.name]

(* isEmpty(): an identity is none only if it is 0.                         *)
ParamIsEmpty(a) ==
  LET p == a.param IN
  CASE ParamKind(a) = "none"            -> FALSE
    [] ParamKind(a) = "identity"        -> p[1] = <<"0">>
    [] ParamKind(a) = "transport"       -> p[1] = <<"-1">>
    [] ParamKind(a) \in {"text", "sound"} -> Blank(p[1])
    [] ParamKind(a) \in {"pair", "triple"} -> p[1] = NoText \/ p[2] = NoText
    [] ParamKind(a) = "book"            -> p[1] = NoText \/ p[2] = <<"-1">>
    [] OTHER                            -> p[1] = NoText

(* argsAsString(): the parts, joined by tabs (those of a key by colons).   *)
ArgsAsString(a) ==
  IF a.param = << >> \/ (ParamKind(a) = "key" /\ a.param[1] = NoText) THEN NoText ELSE FlattenSeq(a.param)

(* argsAsStringReal(): folders are exported by their path.                 *)
ArgsAsStringReal(a, w) ==
  IF ParamKind(a) = "folder"
  THEN IF a.param[1][1] \in DOMAIN w.paths THEN w.paths[a.param[1][1]] ELSE NoText
  ELSE ArgsAsString(a)

(* argsFromString().  A folder or an identity that is no number, and a     *)
(* status or a disposition that is not known, is none.                     *)
Part(args, i) == <<args[i]>>

FolderFromString(args)      == IF IsNumber(args) THEN args ELSE NoText
StatusFromString(args)      == IF Len(args) = 1 /\ Words(args) \subseteq StatusCodes THEN args ELSE NoText
DispositionFromString(args) == IF Len(args) = 1 /\ Words(args) \subseteq MdnCodes THEN args ELSE NoText
IdentityFromString(args)    == IF IsNumber(args) THEN args ELSE <<"0">>
TransportFromString(args)   == IF IsNumber(args) THEN args ELSE <<"-1">>

(* A tag that is not known gives way to the name (not the address) of the  *)
(* first that is.                                                          *)
TagFromString(a, args) ==
  IF a.known = << >> \/ \E i \in DOMAIN a.known : a.known[i].url = args THEN args ELSE a.known[1].name

(* Of a header's value, the words after the first are lost.                *)
HeaderFromString(args) == <<Part(args, 1), IF Len(args) < 2 THEN NoText ELSE Part(args, 2)>>

RewriteFromString(a, args) ==
  IF Len(args) < 3 THEN a.param ELSE <<Part(args, 1), Part(args, 2), Part(args, 3)>>

BookFromShort(a, args) == \* faulty: the category is not looked for
  <<IF args[1] \in {"From", "To", "CC", "BCC"} THEN Part(args, 1) ELSE NoText,
    IF Len(args) >= 2 /\ args[2] \in Numbers \cup {"-1"} THEN Part(args, 2) ELSE a.param[2],
    a.param[3]>>

BookFromString(a, args) ==
  <<IF args[1] \in {"From", "To", "CC", "BCC"} THEN Part(args, 1) ELSE NoText,
    CASE Len(args) < 2 -> a.param[2]
      [] Len(args) >= 2 /\ args[2] \in Numbers \cup {"-1"} -> Part(args, 2)
      [] OTHER -> <<"0">>,
    IF Len(args) < 3 THEN NoText ELSE Part(args, 3)>>

(* A key that is not found leaves the action as it was.                    *)
KeyFromString(a, args, w) ==
  CASE Len(args) < 2 -> a.param
    [] Len(args) >= 2 /\ Part(args, 1) \in w.keys -> <<Part(args, 1), Part(args, 2)>>
    [] OTHER -> <<a.param[1], Part(args, 2)>>

ParamFromString(a, args, w) ==
  CASE ParamKind(a) = "folder"    -> <<FolderFromString(args)>>
    [] ParamKind(a) \in {"text", "sound"} -> <<args>>
    [] ParamKind(a) = "status"    -> <<StatusFromString(args)>>
    [] ParamKind(a) = "mdn"       -> <<DispositionFromString(args)>>
    [] ParamKind(a) = "identity"  -> <<IdentityFromString(args)>>
    [] ParamKind(a) = "transport" -> <<TransportFromString(args)>>
    [] ParamKind(a) = "tag"       -> <<TagFromString(a, args)>>
    [] ParamKind(a) = "pair"      -> HeaderFromString(args)
    [] ParamKind(a) = "triple"    -> RewriteFromString(a, args)
    [] ParamKind(a) = "book"      -> BookFromString(a, args)
    [] ParamKind(a) = "key"       -> KeyFromString(a, args, w)
    [] OTHER                      -> a.param

ArgsFromString(a, args, w) == [a EXCEPT !.param = ParamFromString(a, args, w)]

(* The copy constructor of MailFilter copies an action by way of its text. *)
CopyOf(a, w) == ArgsFromString(NewAction(a.name, w), ArgsAsString(a), w)
-----------------------------------------------------------------------------
(* argsFromStringInteractive(): the action it may end as, whether the      *)
(* filter is to be written again, and the folders the user has chosen for  *)
(* paths so far (FilterImporterPathCache).                                 *)
Answer(a, p, update, cache) == [action |-> [a EXCEPT !.param = <<p>>], update |-> update, cache |-> cache]
As(a, cache)                == [action |-> a, update |-> FALSE, cache |-> cache]

(* The user picks something else or cancels; what is cancelled stays       *)
(* "otherwise".                                                            *)
Asked(a, offered, otherwise, cache) ==
  {Answer(a, p, TRUE, cache) : p \in offered} \cup {Answer(a, otherwise, FALSE, cache)}

(* What the dialogs offer: any folder (a click on a proposed one puts it   *)
(* into the requester, and OK waits for one), the tags known, a new one or *)
(* none, any sound or none.                                                *)
FoldersOffered(w)    == DOMAIN w.paths
TagsOffered(known)   == {t.url : t \in ToSet(known)} \cup {NoText, NewTag}
SoundsOffered(w)     == w.sounds \cup {NoText}
IdentitiesOffered(w) == w.identities
TransportsOffered(w) == w.transports

(* potentialCorrectFolders(): of the folders with the last name of a path  *)
(* the one with this very path, if there is one.                           *)
ExactFolders(args, w) == {f \in DOMAIN w.paths : args # NoText /\ w.paths[f] = args}

(* FilterImporterPathCache                                                 *)
Convertible(args, cache)     == args \in DOMAIN cache
Inserted(args, folder, cache) == IF args = NoText THEN cache ELSE (args :> folder) @@ cache

FolderInteractive(a, args, w, cache) ==
  LET exact == ExactFolders(args, w) IN
  CASE a.param[1] # NoText                   -> {As(a, cache)}
    [] a.param[1] = NoText /\ exact # {}     -> {Answer(a, <<f>>, FALSE, cache) : f \in exact}
    [] a.param[1] = NoText /\ exact = {} /\ Convertible(args, cache) -> {Answer(a, cache[args], TRUE, cache)}
    [] OTHER -> {As(a, cache)} \cup
                {Answer(a, <<f>>, TRUE, Inserted(args, <<f>>, cache)) : f \in FoldersOffered(w)}

TagInteractive(a, w, cache) ==
  IF a.known = << >> \/ \E i \in DOMAIN a.known : a.known[i].url = a.param[1] THEN {As(a, cache)}
  ELSE Asked(a, TagsOffered(a.known), a.param[1], cache)

IdentityInteractive(a, w, cache) ==
  IF a.param[1] \in w.identities THEN {As(a, cache)}
  ELSE Asked(a, IdentitiesOffered(w), <<"4294967295">>, cache)

TransportInteractive(a, w, cache) ==
  IF a.param[1] \in w.transports THEN {As(a, cache)} ELSE Asked(a, TransportsOffered(w), <<"-1">>, cache)

SoundInteractive(a, w, cache) ==
  IF a.param[1] \in w.sounds THEN {As(a, cache)} ELSE Asked(a, SoundsOffered(w), a.param[1], cache)

ArgsFromStringInteractive(name, args, w, cache) ==
  LET a == ArgsFromString(NewAction(name, w), args, w) IN
  CASE ParamKind(a) = "folder"    -> FolderInteractive(a, args, w, cache)
    [] ParamKind(a) = "identity"  -> IdentityInteractive(a, w, cache)
    [] ParamKind(a) = "transport" -> TransportInteractive(a, w, cache)
    [] ParamKind(a) = "tag"       -> TagInteractive(a, w, cache)
    [] ParamKind(a) = "sound"     -> SoundInteractive(a, w, cache)
    [] OTHER                      -> {As(a, cache)}
-----------------------------------------------------------------------------
(* The editors.  An editor is made by an action of its own, which lists    *)
(* the tags; it is then set to the parameter of the action to be edited.   *)
(* "loaded" tells whether what it chooses from has been listed.            *)
(* What is not in a list that cannot be typed into leaves its first entry. *)
AnyOf(S)          == IF S = {} THEN NoText ELSE CHOOSE x \in S : TRUE
InSet(S, x)       == IF x \in S THEN x ELSE AnyOf(S)
InList(list, x)   == CASE list = << >>                            -> NoText
                       [] list # << >> /\ x \in ToSet(list)       -> x
                       [] list # << >> /\ x \notin ToSet(list)    -> list[1]
Typed(list, x)    == LET shown == IF x \in ToSet(list) THEN list ELSE Append(list, x)
                     IN  shown[CHOOSE i \in DOMAIN shown : shown[i] = x]

(* createParamWidget() and setParamWidgetValue()                           *)
ListShown(codes, p)         == <<IF p[1][1] \in codes THEN p[1] ELSE NoText>>
AddHeaderShown(p)           == <<Typed(Headers, p[1]), p[2]>>
RewriteHeaderShown(p)       == <<Typed(Headers, p[1]), p[2], p[3]>>
RemoveHeaderShown(p)        == <<Typed(Headers, p[1])>>
TagShown(owner, p)          == <<InList([i \in DOMAIN owner.known |-> owner.known[i].url], p[1])>>
IdentityShown(p, w)         == <<InSet(w.identities, p[1])>>
TransportShown(p, w)        == <<InSet(w.transports, p[1])>>

Shown(a, owner, w) ==
  LET p == a.param IN
  CASE ParamKind(a) = "status"    -> ListShown(StatusCodes, p)
    [] ParamKind(a) = "mdn"       -> ListShown(MdnCodes, p)
    [] ParamKind(a) = "pair"      -> AddHeaderShown(p)
    [] ParamKind(a) = "triple"    -> RewriteHeaderShown(p)
    [] a.name = "remove header"   -> RemoveHeaderShown(p)
    [] ParamKind(a) = "tag"       -> TagShown(owner, p)
    [] ParamKind(a) = "identity"  -> IdentityShown(p, w)
    [] ParamKind(a) = "transport" -> TransportShown(p, w)
    [] OTHER                      -> p

EditorOf(a, owner, w) ==
  [owner |-> owner, shows |-> Shown(a, owner, w), loaded |-> ParamKind(a) \notin {"book", "key"}]

(* When address books or keys have been listed the one there was is        *)
(* chosen, if it is there.                                                 *)
BookListed(p, w) == [p EXCEPT ![2] = IF w.books = {} THEN p[2] ELSE InSet(w.books, p[2])]
KeyListed(p, w)  == [p EXCEPT ![1] = InSet(w.keys, p[1])]
Loaded(e, w) ==
  [e EXCEPT !.loaded = TRUE,
            !.shows = IF ParamKind(e.owner) = "book" THEN BookListed(e.shows, w) ELSE KeyListed(e.shows, w)]

(* slotTagListingFinished(): the list is filled again and its first tag is *)
(* the current one.                                                        *)
TagsListed(e, tags) ==
  [e EXCEPT !.owner.known = tags, !.shows = IF tags = << >> THEN <<NoText>> ELSE <<tags[1].url>>]

(* applyParamWidgetValue(), to a new action.  The one for keys waits until *)
(* they are listed; the one for address books takes what the editor was    *)
(* given before.                                                           *)
KeyApplied(e, w)  == IF e.loaded THEN e.shows ELSE KeyListed(e.shows, w)
BookApplied(e)    == e.shows

Applied(e, w) ==
  [NewAction(e.owner.name, w) EXCEPT !.param =
     CASE ParamKind(e.owner) = "key"  -> KeyApplied(e, w)
       [] ParamKind(e.owner) = "book" -> BookApplied(e)
       [] OTHER                       -> e.shows]
=============================================================================
