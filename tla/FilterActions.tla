---------------------------- MODULE FilterActions ----------------------------
(***************************************************************************)
(* The actions of filters (src/src/filter/filteractions/).  An action      *)
(* works in a context: the message as far as it has been fetched, the      *)
(* folder it is to be moved to, whether it is to be deleted, and which of  *)
(* its parts are to be stored when all filters are done.                   *)
(***************************************************************************)
EXTENDS SearchRules

CONSTANTS
  Tags,       \* the tags that exist
  Identities, \* the identities that exist
  Transports, \* the mail transports that exist
  SecretKeys  \* the keys we can decrypt with

NoParam == "none" \* an action without its parameter

(* ItemContext.  "sent" is what has gone out of the filter by other ways.  *)
ContextOf(item, full) ==
  [item |-> item, target |-> NoParam, full |-> full,
   storePayload |-> FALSE, storeFlags |-> FALSE, delete |-> FALSE, sent |-> {}]

PayloadChanged(c) == [c EXCEPT !.storePayload = TRUE]
FlagsChanged(c)   == [c EXCEPT !.storeFlags = TRUE]
Sent(c, what)     == [c EXCEPT !.sent = @ \cup {what}]

(* What process() may do: a set of outcomes, each a return code and the    *)
(* context it leaves.                                                      *)
Outcome(code, c) == [code |-> code, context |-> c]
GoOn(c)          == {Outcome("GoOn", c)}
ErrorButGoOn(c)  == {Outcome("ErrorButGoOn", c)}
-----------------------------------------------------------------------------
Move(a, c) == IF a.param = NoParam THEN ErrorButGoOn(c) ELSE GoOn([c EXCEPT !.target = a.param])

(* A copy is asked of the server, which does not yet know the changes.     *)
Copy(a, c) == GoOn(IF a.param = NoParam THEN c ELSE Sent(c, "copy"))

Delete(a, c) == GoOn([c EXCEPT !.delete = TRUE])

(* The list of tags is the one there was when the action was made.         *)
AddTag(a, c) ==
  IF a.param \notin a.list THEN ErrorButGoOn(c)
  ELSE GoOn(FlagsChanged([c EXCEPT !.item.tags = @ \cup {a.param}]))

(* MessageStatus: read and unread are one flag; watched and ignored, spam  *)
(* and ham exclude each other.                                             *)
WithStatus(flags, status) ==
  CASE status = "unread"  -> flags \ {"read"}
    [] status = "watched" -> (flags \ {"ignored"}) \cup {status}
    [] status = "ignored" -> (flags \ {"watched"}) \cup {status}
    [] status = "spam"    -> (flags \ {"ham"}) \cup {status}
    [] status = "ham"     -> (flags \ {"spam"}) \cup {status}
    [] OTHER              -> flags \cup {status}

SetStatusUnstored(a, c) == \* faulty: the change is not marked to be stored
  LET old == c.item.flags \ {"keyword"}
      new == WithStatus(old, a.param)
  IN  CASE a.param = NoParam -> ErrorButGoOn(c)
        [] a.param # NoParam /\ new = old -> GoOn(c)
        [] OTHER -> GoOn([c EXCEPT !.item.flags = new])

(* Flags that are no status are lost whenever the status changes.          *)
SetStatus(a, c) ==
  LET old == c.item.flags \ {"keyword"}
      new == WithStatus(old, a.param)
  IN  CASE a.param = NoParam -> ErrorButGoOn(c)
        [] a.param # NoParam /\ new = old -> GoOn(c)
        [] OTHER -> GoOn(FlagsChanged([c EXCEPT !.item.flags = new]))

(* Unsetting "unread" leaves "read" as the only flag.                      *)
UnsetStatus(a, c) ==
  CASE a.param = NoParam -> ErrorButGoOn(c)
    [] a.param = "unread" /\ c.item.flags \ {"keyword"} # {"read"} ->
         GoOn(FlagsChanged([c EXCEPT !.item.flags = {"read"}]))
    [] a.param \in c.item.flags -> GoOn(FlagsChanged([c EXCEPT !.item.flags = @ \ {a.param}]))
    [] OTHER -> GoOn(c)
-----------------------------------------------------------------------------
(* Headers beyond the envelope stand for all that actions edit.            *)
AddHeader(a, c) ==
  IF a.param = NoParam \/ a.value = NoText THEN ErrorButGoOn(c)
  ELSE GoOn(PayloadChanged([c EXCEPT !.item.text["list-id"] = a.value]))

RemoveHeader(a, c) ==
  CASE a.param = NoParam -> ErrorButGoOn(c)
    [] a.param # NoParam /\ Text(c.item, "list-id") # NoText ->
         GoOn(PayloadChanged([c EXCEPT !.item.text["list-id"] = NoText]))
    [] OTHER -> GoOn(c)

RewriteHeader(a, c) ==
  CASE a.param = NoParam -> ErrorButGoOn(c)
    [] a.param # NoParam /\ Text(c.item, "list-id") \notin {NoText, a.value} -> \* the expression may match or not
         GoOn(c) \cup GoOn(PayloadChanged([c EXCEPT !.item.text["list-id"] = a.value]))
    [] OTHER -> GoOn(c)

SetReplyTo(a, c) ==
  IF a.param = NoParam THEN ErrorButGoOn(c)
  ELSE GoOn(PayloadChanged([c EXCEPT !.item.heads["reply-to"] = a.param]))

(* A transport that is gone is the default one to whoever asks for it, but *)
(* the message says which one was meant.                                   *)
SetTransport(a, c) ==
  IF a.param = NoParam \/ Transports = {} THEN ErrorButGoOn(c)
  ELSE GoOn(PayloadChanged([c EXCEPT !.item.heads["transport"] = a.param]))

(* A message that gets more blind copies. *)
Added(bcc, more) ==
  CASE more = NoText                    -> bcc
    [] more # NoText /\ bcc = NoText    -> more
    [] OTHER                            -> Joint({bcc, more}, bcc, more)

(* On its way out a message also gets the identity's sender and blind      *)
(* copies.                                                                 *)
SetIdentity(a, c, outbound) ==
  LET from == IF outbound THEN a.value ELSE c.item.text["from"]
      bcc  == IF outbound THEN Added(c.item.text["bcc"], a.bcc) ELSE c.item.text["bcc"]
  IN  CASE a.param \notin Identities -> ErrorButGoOn(c)
        [] a.param \in Identities /\ (c.item.part >= Header /\ c.item.heads["identity"] = a.param) -> GoOn(c)
        [] OTHER -> GoOn(PayloadChanged(
                      [c EXCEPT !.item = [@ EXCEPT !.heads["identity"] = a.param, !.text["from"] = from,
                                                   !.text["bcc"] = bcc]]))
-----------------------------------------------------------------------------
(* The message m with the payload of p.                                    *)
WithPayload(m, p) ==
  [part |-> m.part, text |-> p.text, flags |-> m.flags, tags |-> m.tags,
   heads |-> [h \in DOMAIN m.heads |-> IF h = "mdn" THEN m.heads[h] ELSE p.heads[h]],
   crypt |-> p.crypt, size |-> m.size, age |-> p.age, date |-> p.date,
   known |-> p.known, attached |-> p.attached]

(* genericProcess(): a command is given the message; what it prints        *)
(* becomes the message.  Files may be missing, the command may fail.       *)
Command(a, c, withOutput) ==
  IF a.param = NoParam THEN ErrorButGoOn(c)
  ELSE LET ran == Sent(c, "command") IN
       ErrorButGoOn(c) \cup ErrorButGoOn(ran) \cup {Outcome("CriticalError", c)}
         \cup (IF withOutput THEN GoOn(PayloadChanged([ran EXCEPT !.item = WithPayload(@, a.prints)])) ELSE GoOn(ran))

Exec(a, c)        == Command(a, c, FALSE)
PipeThrough(a, c) == Command(a, c, TRUE)

(* KMime finds a message encrypted by its content type, not inline.        *)
KMimeEncrypted(m) == m.crypt.how \in {"pgp", "smime"}

Plain   == [how |-> "none", key |-> NoParam]
WithEncryption(c, crypt) ==
  LET flags == IF crypt = Plain THEN c.item.flags \ {"encrypted"} ELSE c.item.flags \cup {"encrypted"}
  IN  PayloadChanged(FlagsChanged([c EXCEPT !.item = [@ EXCEPT !.crypt = crypt, !.flags = flags]]))

Decrypt(a, c) ==
  CASE ~KMimeEncrypted(c.item) -> GoOn(c)
    [] KMimeEncrypted(c.item) /\ (c.item.part # Complete \/ c.item.crypt.key \notin SecretKeys) -> ErrorButGoOn(c)
    [] OTHER -> GoOn(WithEncryption(c, Plain))

(* Is an encrypted message encrypted with the key already?  Of PGP keys    *)
(* those of the message are looked up; of S/MIME keys any that we have     *)
(* will do once the message names some.                                    *)
AlreadyWith(a, m) ==
  /\ m.crypt.how = a.how
  /\ a.how = "pgp" => m.crypt.key = a.param
  /\ a.how = "smime" => a.param \in SecretKeys

Encrypt(a, c) ==
  LET new == WithEncryption(c, [how |-> a.how, key |-> a.param])
  IN  CASE a.param = NoParam -> ErrorButGoOn(c)
        [] a.param # NoParam /\ ~KMimeEncrypted(c.item) -> GoOn(new) \cup ErrorButGoOn(c)
        [] a.param # NoParam /\ KMimeEncrypted(c.item)
             /\ (~a.reencrypt \/ AlreadyWith(a, c.item) \/ c.item.crypt.key \notin SecretKeys) -> GoOn(c)
        [] OTHER -> GoOn(new) \cup ErrorButGoOn(c)
-----------------------------------------------------------------------------
(* What leaves the filter without touching the message.  The notification  *)
(* that a message was dispatched goes out before the message does.         *)
SendMDN(c) == {c, Sent(c, "mdn")}

Redirect(a, c) ==
  IF a.param = NoParam THEN ErrorButGoOn(c)
  ELSE ErrorButGoOn(c)
    \cup UNION {ErrorButGoOn(d) \cup GoOn(Sent(d, "redirect")) : d \in SendMDN(c)}

SendReceipt(a, c) == ErrorButGoOn(c) \cup GoOn(Sent(c, "receipt"))

SendFakeDisposition(a, c) ==
  CASE a.param = NoParam  -> ErrorButGoOn(c)
    [] a.param = "ignore" -> GoOn(c) \cup GoOn(FlagsChanged([c EXCEPT !.item.heads["mdn"] = "ignore"]))
    [] OTHER              -> UNION {GoOn(d) : d \in SendMDN(c)}

PlaySound(a, c) == IF a.param = NoParam THEN ErrorButGoOn(c) ELSE GoOn(Sent(c, "sound"))

AddToAddressBook(a, c) ==
  IF a.param = NoParam \/ Text(c.item, a.value) = NoText THEN ErrorButGoOn(c) ELSE GoOn(Sent(c, "contact"))
-----------------------------------------------------------------------------
(* What has to be fetched of a message for the action.                     *)
EnvelopeActions ==
  {"transfer", "copy", "delete", "add tag", "set status", "unset status", "add to address book", "play sound"}

ActionPart(a) == IF a.type \in EnvelopeActions THEN Envelope ELSE Complete

Process(a, c, outbound) ==
  CASE a.type = "transfer"            -> Move(a, c)
    [] a.type = "copy"                -> Copy(a, c)
    [] a.type = "delete"              -> Delete(a, c)
    [] a.type = "add tag"             -> AddTag(a, c)
    [] a.type = "set status"          -> SetStatus(a, c)
    [] a.type = "unset status"        -> UnsetStatus(a, c)
    [] a.type = "add header"          -> AddHeader(a, c)
    [] a.type = "remove header"       -> RemoveHeader(a, c)
    [] a.type = "rewrite header"      -> RewriteHeader(a, c)
    [] a.type = "set Reply-To"        -> SetReplyTo(a, c)
    [] a.type = "set transport"       -> SetTransport(a, c)
    [] a.type = "set identity"        -> SetIdentity(a, c, outbound)
    [] a.type = "execute"             -> Exec(a, c)
    [] a.type = "filter app"          -> PipeThrough(a, c)
    [] a.type = "decrypt"             -> Decrypt(a, c)
    [] a.type = "encrypt"             -> Encrypt(a, c)
    [] a.type = "redirect"            -> Redirect(a, c)
    [] a.type = "confirm delivery"    -> SendReceipt(a, c)
    [] a.type = "fake mdn"            -> SendFakeDisposition(a, c)
    [] a.type = "play sound"          -> PlaySound(a, c)
    [] a.type = "add to address book" -> AddToAddressBook(a, c)
=============================================================================
