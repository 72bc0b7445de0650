--------------------------- MODULE MailFilterProofs ---------------------------
(***************************************************************************)
(* Proofs about MailFilter for every message, every list of filters that   *)
(* the editors can make, and every account.                                *)
(***************************************************************************)
EXTENDS MailFilter, TLAPS

Parts == {Envelope, Header, Complete}

(* The parts of a message contain one another. *)
LEMMA PartsAreOrdered == \A x, y, z \in Parts : x <= y /\ y <= z => x <= z
BY DEF Parts, Envelope, Header, Complete

(* The maximum of some parts is one of them, and as much as any.           *)
LEMMA MaxIsReached ==
  ASSUME NEW S \in SUBSET Parts, S # {}
  PROVE  Max(S) \in S /\ \A x \in S : x <= Max(S)
<1>1. \E x \in S : \A y \in S : x >= y
  <2>1. S \subseteq {0, 1, 2}
    BY DEF Parts, Envelope, Header, Complete
  <2>2. CASE 2 \in S
    BY <2>1, <2>2
  <2>3. CASE 2 \notin S /\ 1 \in S
    BY <2>1, <2>3
  <2>4. CASE S = {0}
    BY <2>4
  <2>5. QED
    BY <2>1, <2>2, <2>3, <2>4
<1>2. PICK n : n = Max(S)
  OBVIOUS
<1>3. n \in S /\ \A y \in S : n >= y
  BY <1>1, <1>2 DEF Max
<1>4. \A x \in S : x <= n
  BY <1>3 DEF Parts, Envelope, Header, Complete
<1>5. QED
  BY <1>2, <1>3, <1>4

(* What a pattern, an action and a filter need, none of them below what    *)
(* its parts need.                                                         *)
LEMMA PatternPartSuffices ==
  ASSUME NEW p
  PROVE  /\ PatternPart(p) \in Parts
         /\ \A i \in DOMAIN p.rules : RulePart(p.rules[i]) <= PatternPart(p)
<1> DEFINE S == {Envelope} \cup {RulePart(p.rules[i]) : i \in DOMAIN p.rules}
<1>1. \A r : RulePart(r) \in Parts
  BY DEF RulePart, Parts
<1>2. S \in SUBSET Parts /\ S # {}
  BY <1>1 DEF Parts
<1>3. \A i \in DOMAIN p.rules : RulePart(p.rules[i]) \in S
  OBVIOUS
<1> HIDE DEF S
<1>4. Max(S) \in S /\ \A x \in S : x <= Max(S)
  BY <1>2, MaxIsReached
<1>5. PatternPart(p) = Max(S)
  BY DEF PatternPart, S
<1>6. QED
  BY <1>2, <1>3, <1>4, <1>5

(* requiredPart() covers the pattern and the actions of a filter that may  *)
(* work.                                                                   *)
LEMMA RequiredPartSuffices ==
  ASSUME NEW f, NEW id
  PROVE  /\ RequiredPart(f, id) \in Parts
         /\ f.enabled /\ ApplyOnAccount(f, id) =>
              /\ PatternPart(f.pattern) <= RequiredPart(f, id)
              /\ \A i \in DOMAIN f.actions : ActionPart(f.actions[i]) <= RequiredPart(f, id)
<1> DEFINE S == {PatternPart(f.pattern)} \cup {ActionPart(f.actions[i]) : i \in DOMAIN f.actions}
<1>1. \A a : ActionPart(a) \in Parts
  BY DEF ActionPart, Parts
<1>2. S \in SUBSET Parts /\ S # {}
  BY <1>1, PatternPartSuffices
<1>3. PatternPart(f.pattern) \in S /\ \A i \in DOMAIN f.actions : ActionPart(f.actions[i]) \in S
  OBVIOUS
<1>4. RequiredPart(f, id) = IF ~f.enabled \/ ~ApplyOnAccount(f, id) THEN Envelope ELSE Max(S)
  BY DEF RequiredPart
<1> HIDE DEF S
<1>5. Max(S) \in S /\ \A x \in S : x <= Max(S)
  BY <1>2, MaxIsReached
<1>6. CASE f.enabled /\ ApplyOnAccount(f, id)
  <2>1. RequiredPart(f, id) = Max(S)
    BY <1>4, <1>6
  <2>2. QED
    BY <1>2, <1>3, <1>5, <2>1
<1>7. CASE ~(f.enabled /\ ApplyOnAccount(f, id))
  BY <1>4, <1>7 DEF Parts
<1>8. QED
  BY <1>6, <1>7

(* The agent fetches no less than any of the filters needs, and can always *)
(* tell how much that is.                                                  *)
LEMMA FetchedSuffices ==
  ASSUME NEW part, Fetched(part)
  PROVE  part \in Parts /\ \A i \in DOMAIN filters : RequiredPart(filters[i], account) <= part
<1> DEFINE S == {Envelope} \cup {RequiredPart(filters[i], account) : i \in DOMAIN filters}
<1>1. S \in SUBSET Parts /\ S # {}
  BY RequiredPartSuffices DEF Parts
<1>2. \A i \in DOMAIN filters : RequiredPart(filters[i], account) \in S
  OBVIOUS
<1>3. Max(S) = part
  BY DEF Fetched
<1> HIDE DEF S
<1>4. QED
  BY <1>1, <1>2, <1>3, MaxIsReached
-----------------------------------------------------------------------------
(* The same message, and the same work, with all of the message fetched.   *)
Whole(m) == [m EXCEPT !.part = Complete]

(* The whole of a message differs from it in the part only. *)
LEMMA WholeMessage ==
  ASSUME NEW m, IsMessage(m)
  PROVE  /\ IsMessage(Whole(m)) /\ Whole(m).part = Complete
         /\ Whole(m).text = m.text /\ Whole(m).flags = m.flags /\ Whole(m).tags = m.tags
         /\ Whole(m).heads = m.heads /\ Whole(m).crypt = m.crypt
         /\ Whole(m).size = m.size /\ Whole(m).age = m.age /\ Whole(m).date = m.date
         /\ Whole(m).known = m.known /\ Whole(m).attached = m.attached
         /\ m.part = Complete => Whole(m) = m
BY DEF IsMessage, Whole

(* A rule that is about what has been fetched finds it as in the whole     *)
(* message.                                                                *)
LEMMA RulesMatchAlike ==
  ASSUME NEW m, IsMessage(m), NEW r, IsRule(r), RulePart(r) <= m.part
  PROVE  RuleMatches(r, Whole(m)) <=> RuleMatches(r, m)
<1> DEFINE n == Whole(m)
<1>1. /\ n.part = Complete /\ n.text = m.text /\ n.flags = m.flags /\ n.crypt = m.crypt
      /\ n.size = m.size /\ n.age = m.age /\ n.date = m.date
      /\ n.known = m.known /\ n.attached = m.attached
      /\ m.part = Complete => n = m
  BY WholeMessage
<1> HIDE DEF n
<1>2. m.part \in {0, 1, 2} /\ RulePart(r) \in {0, 1, 2}
  BY DEF IsMessage, RulePart, Envelope, Header, Complete
<1>3. CASE m.part = Complete
  BY <1>1, <1>3 DEF n
<1>4. CASE m.part # Complete
  <2>1. /\ r.field \notin {"<message>", "<body>", "<encryption>", "body"}
        /\ r.func.test # "has-attachment"
        /\ r.field \in {"list-id", "<any header>"} => m.part >= Header
    <3>1. RulePart(r) # Complete
      BY <1>2, <1>4 DEF Complete
    <3>2. r.field \notin {"<message>", "<body>", "<encryption>"}
      BY <3>1 DEF RulePart
    <3>3. r.field \in {"list-id", "<any header>"} => RulePart(r) = Header
      BY DEF RulePart
    <3>4. QED
      BY <3>2, <3>3 DEF IsRule
  <2>2. CASE r.field \in {"<status>", "<size>", "<age in days>", "<date>", "<attachment>", "<invitation>"}
    BY <1>1, <2>2 DEF RuleMatches, StatusMatches, HasStatus, AttachmentMatches, InvitationMatches, n
  <2>3. CASE r.field \notin {"<status>", "<size>", "<age in days>", "<date>", "<attachment>", "<invitation>"}
    <3>1. \A x : RuleMatches(r, x) <=> r.contents # "" /\ StringMatches(r, x)
      BY <2>1, <2>3 DEF RuleMatches
    <3>2. \A f \in {"subject", "from", "to", "cc", "bcc"} : Text(n, f) = Text(m, f)
      BY <1>1 DEF Text, Covers
    <3>3. m.part >= Header => Text(n, "list-id") = Text(m, "list-id")
      BY <1>1 DEF Text, Covers, Header, Complete
    <3>4. r.field \notin Fields => Text(n, r.field) = Text(m, r.field)
      BY DEF Text, Covers, Fields
    <3>5. CASE r.field = "<any header>"
      <4>1. \A f \in Fields \ {"body"} : Text(n, f) = Text(m, f)
        BY <2>1, <3>2, <3>3, <3>5 DEF Fields
      <4>2. {Text(n, f) : f \in Fields \ {"body"}} = {Text(m, f) : f \in Fields \ {"body"}}
        BY <4>1
      <4>3. StringMatches(r, n) <=> StringMatches(r, m)
        BY <1>1, <2>1, <3>5, <4>2 DEF StringMatches, Fields
      <4>4. QED
        BY <3>1, <4>3 DEF n
    <3>6. CASE r.field = "<recipients>"
      <4>1. {Text(n, f) : f \in {"to", "cc", "bcc"}} = {Text(m, f) : f \in {"to", "cc", "bcc"}}
        BY <3>2
      <4>2. StringMatches(r, n) <=> StringMatches(r, m)
        BY <1>1, <2>1, <3>2, <3>6, <4>1 DEF StringMatches, Fields
      <4>3. QED
        BY <3>1, <4>2 DEF n
    <3>7. CASE r.field \notin {"<any header>", "<recipients>"}
      <4>1. Text(n, r.field) = Text(m, r.field)
        BY <2>1, <3>2, <3>3, <3>4 DEF Fields
      <4>2. AddressMatches(r.func, n) <=> AddressMatches(r.func, m)
        BY <1>1 DEF AddressMatches
      <4>3. StringMatches(r, n) <=> StringMatches(r, m)
        BY <2>1, <3>7, <4>1, <4>2 DEF StringMatches
      <4>4. QED
        BY <3>1, <4>3 DEF n
    <3>8. QED
      BY <3>5, <3>6, <3>7
  <2>4. QED
    BY <2>2, <2>3
<1>5. QED
  BY <1>3, <1>4

(* A pattern that needs no more than the part fetched matches it exactly   *)
(* if it matches the whole.                                                *)
LEMMA PatternsMatchAlike ==
  ASSUME NEW m, IsMessage(m), NEW p, IsList(p.rules, IsRule), PatternPart(p) <= m.part
  PROVE  PatternMatches(p, Whole(m)) <=> PatternMatches(p, m)
<1>1. ASSUME NEW i \in DOMAIN p.rules
      PROVE  RuleMatches(p.rules[i], Whole(m)) <=> RuleMatches(p.rules[i], m)
  <2>1. IsRule(p.rules[i])
    BY <1>1 DEF IsList, ToSet
  <2>2. PatternPart(p) \in Parts /\ RulePart(p.rules[i]) <= PatternPart(p)
    BY <1>1, PatternPartSuffices
  <2>3. RulePart(p.rules[i]) \in Parts /\ m.part \in Parts
    BY DEF IsMessage, Parts, RulePart
  <2>4. RulePart(p.rules[i]) <= m.part
    BY <2>2, <2>3, PartsAreOrdered
  <2>5. QED
    BY <2>1, <2>4, RulesMatchAlike
<1>2. QED
  BY <1>1 DEF PatternMatches
-----------------------------------------------------------------------------
Ctx(item, target, full, storePayload, storeFlags, delete, sent) ==
  [item |-> item, target |-> target, full |-> full, storePayload |-> storePayload,
   storeFlags |-> storeFlags, delete |-> delete, sent |-> sent]

IsCtx(c) == c = Ctx(c.item, c.target, c.full, c.storePayload, c.storeFlags, c.delete, c.sent)

IsContext(c) ==
  /\ IsCtx(c) /\ IsMessage(c.item)
  /\ c.full \in BOOLEAN /\ c.storePayload \in BOOLEAN /\ c.storeFlags \in BOOLEAN /\ c.delete \in BOOLEAN

(* What a context is made of. *)
LEMMA CtxFields ==
  ASSUME NEW n, NEW t, NEW full, NEW p, NEW f, NEW d, NEW s, NEW c, c = Ctx(n, t, full, p, f, d, s)
  PROVE  /\ IsCtx(c)
         /\ c.item = n /\ c.target = t /\ c.full = full /\ c.storePayload = p
         /\ c.storeFlags = f /\ c.delete = d /\ c.sent = s
BY DEF Ctx, IsCtx

(* The changes of the message and of the context, named: the provers     *)
(* take EXCEPT of known records only.                                      *)
FlagsSet(m, x)   == [m EXCEPT !.flags = x]
TagsSet(m, x)    == [m EXCEPT !.tags = x]
HeadSet(m, h, x) == [m EXCEPT !.heads[h] = x]
TextSet(m, f, x) == [m EXCEPT !.text[f] = x]
IdentitySet(m, x, from, bcc) ==
  [m EXCEPT !.heads["identity"] = x, !.text["from"] = from, !.text["bcc"] = bcc]
CryptSet(m, crypt, flags)  == [m EXCEPT !.crypt = crypt, !.flags = flags]
WithTarget(c, x)  == [c EXCEPT !.target = x]
Deleted(c)        == [c EXCEPT !.delete = TRUE]
WithFlags(c, x)   == [c EXCEPT !.item.flags = x]
WithTags(c, x)    == [c EXCEPT !.item.tags = x]
WithHead(c, h, x) == [c EXCEPT !.item.heads[h] = x]
WithText(c, f, x) == [c EXCEPT !.item.text[f] = x]
Identified(c, x, from, bcc) ==
  [c EXCEPT !.item = [@ EXCEPT !.heads["identity"] = x, !.text["from"] = from, !.text["bcc"] = bcc]]
WithMessage(c, n)          == [c EXCEPT !.item = n]
Encrypted(c, crypt, flags) == [c EXCEPT !.item = [@ EXCEPT !.crypt = crypt, !.flags = flags]]

(* What they do to the fields of a context. *)
LEMMA CtxChanges ==
  ASSUME NEW c, IsCtx(c)
  PROVE  /\ \A x : WithTarget(c, x) =
                     Ctx(c.item, x, c.full, c.storePayload, c.storeFlags, c.delete, c.sent)
         /\ Deleted(c) = Ctx(c.item, c.target, c.full, c.storePayload, c.storeFlags, TRUE, c.sent)
         /\ PayloadChanged(c) = Ctx(c.item, c.target, c.full, TRUE, c.storeFlags, c.delete, c.sent)
         /\ FlagsChanged(c) = Ctx(c.item, c.target, c.full, c.storePayload, TRUE, c.delete, c.sent)
         /\ \A x : Sent(c, x) =
                     Ctx(c.item, c.target, c.full, c.storePayload, c.storeFlags, c.delete, c.sent \cup {x})
<1>1. PICK n, t, full, p, f, d, s : c = Ctx(n, t, full, p, f, d, s)
  BY DEF IsCtx
<1>2. \A x : WithTarget(c, x) = Ctx(n, x, full, p, f, d, s)
  BY <1>1 DEF Ctx, WithTarget
<1>3. \A x : [c EXCEPT !.delete = x] = Ctx(n, t, full, p, f, x, s)
  BY <1>1 DEF Ctx
<1>4. \A x : [c EXCEPT !.storePayload = x] = Ctx(n, t, full, x, f, d, s)
  BY <1>1 DEF Ctx
<1>5. \A x : [c EXCEPT !.storeFlags = x] = Ctx(n, t, full, p, x, d, s)
  BY <1>1 DEF Ctx
<1>6. \A x : Sent(c, x) = Ctx(n, t, full, p, f, d, s \cup {x})
  BY <1>1 DEF Ctx, Sent
<1>7. /\ n = c.item /\ t = c.target /\ full = c.full /\ p = c.storePayload
      /\ f = c.storeFlags /\ d = c.delete /\ s = c.sent
  BY <1>1 DEF Ctx
<1>8. /\ Deleted(c) = Ctx(n, t, full, p, f, TRUE, s)
      /\ PayloadChanged(c) = Ctx(n, t, full, TRUE, f, d, s)
      /\ FlagsChanged(c) = Ctx(n, t, full, p, TRUE, d, s)
  BY <1>3, <1>4, <1>5, Zenon DEF Deleted, PayloadChanged, FlagsChanged
<1>9. QED
  BY <1>2, <1>6, <1>7, <1>8

WithItem(c, n) == Ctx(n, c.target, c.full, c.storePayload, c.storeFlags, c.delete, c.sent)

(* Changing the message in a context makes the context of the changed      *)
(* message.                                                                *)
LEMMA CtxMessageChanges ==
  ASSUME NEW c, IsCtx(c)
  PROVE  /\ \A x : WithFlags(c, x) = WithItem(c, FlagsSet(c.item, x))
         /\ \A x : WithTags(c, x) = WithItem(c, TagsSet(c.item, x))
         /\ \A x, h : WithHead(c, h, x) = WithItem(c, HeadSet(c.item, h, x))
         /\ \A x, h : WithText(c, h, x) = WithItem(c, TextSet(c.item, h, x))
         /\ \A x, y, z : Identified(c, x, y, z) = WithItem(c, IdentitySet(c.item, x, y, z))
         /\ \A n : WithMessage(c, n) = WithItem(c, n)
         /\ \A x, y : Encrypted(c, x, y) = WithItem(c, CryptSet(c.item, x, y))
         /\ AllOf(c) = WithItem(c, Whole(c.item))
<1>1. PICK n, t, full, p, f, d, s : c = Ctx(n, t, full, p, f, d, s)
  BY DEF IsCtx
<1>2. \A x : WithFlags(c, x) = Ctx(FlagsSet(n, x), t, full, p, f, d, s)
  BY <1>1 DEF Ctx, WithFlags, FlagsSet
<1>3. \A x : WithTags(c, x) = Ctx(TagsSet(n, x), t, full, p, f, d, s)
  BY <1>1 DEF Ctx, WithTags, TagsSet
<1>4. \A x, h : WithHead(c, h, x) = Ctx(HeadSet(n, h, x), t, full, p, f, d, s)
  BY <1>1 DEF Ctx, WithHead, HeadSet
<1>5. \A x, h : WithText(c, h, x) = Ctx(TextSet(n, h, x), t, full, p, f, d, s)
  BY <1>1 DEF Ctx, WithText, TextSet
<1>6. \A x, y, z : Identified(c, x, y, z) =
                     Ctx(IdentitySet(n, x, y, z), t, full, p, f, d, s)
  BY <1>1 DEF Ctx, Identified, IdentitySet
<1>12. \A m : WithMessage(c, m) = Ctx(m, t, full, p, f, d, s)
  BY <1>1 DEF Ctx, WithMessage
<1>7. \A x, y : Encrypted(c, x, y) = Ctx(CryptSet(n, x, y), t, full, p, f, d, s)
  BY <1>1 DEF Ctx, Encrypted, CryptSet
<1>8. AllOf(c) = Ctx(Whole(n), t, full, p, f, d, s)
  BY <1>1 DEF Ctx, AllOf, Whole
<1>9. /\ n = c.item /\ t = c.target /\ full = c.full /\ p = c.storePayload
      /\ f = c.storeFlags /\ d = c.delete /\ s = c.sent
  BY <1>1 DEF Ctx
<1>10. \A m : WithItem(c, m) = Ctx(m, t, full, p, f, d, s)
  BY <1>9 DEF WithItem
<1>11. QED
  BY <1>2, <1>3, <1>4, <1>5, <1>6, <1>7, <1>8, <1>9, <1>10, <1>12

(* The message n is m but for what these marks allow to be another. *)
Tracks(m, n, storeFlags, storePayload) ==
  /\ n.size = m.size
  /\ storeFlags = FALSE => n.flags = m.flags /\ n.tags = m.tags /\ n.heads["mdn"] = m.heads["mdn"]
  /\ storePayload = FALSE => /\ n.text = m.text /\ n.crypt = m.crypt /\ n.age = m.age /\ n.date = m.date
                             /\ n.known = m.known /\ n.attached = m.attached
                             /\ \A h \in Heads \ {"mdn"} : n.heads[h] = m.heads[h]

(* What an action may make of the context c: what it changes is marked to  *)
(* be stored, and the text only of a message fetched completely.           *)
Kept(c, d) ==
  /\ IsContext(d) /\ d.full = c.full /\ d.item.part = c.item.part
  /\ Tracks(c.item, d.item, d.storeFlags, d.storePayload)
  /\ c.storeFlags = TRUE => d.storeFlags = TRUE
  /\ c.storePayload = TRUE => d.storePayload = TRUE
  /\ d.storePayload = TRUE => c.storePayload = TRUE \/ c.full = TRUE

(* A context whose fields are known. *)
LEMMA KeptIfSo ==
  ASSUME NEW c, IsContext(c), NEW n, IsMessage(n), n.part = c.item.part,
         NEW storePayload \in BOOLEAN, NEW storeFlags \in BOOLEAN, NEW delete \in BOOLEAN,
         NEW target, NEW sent, NEW d,
         d = Ctx(n, target, c.full, storePayload, storeFlags, delete, sent),
         Tracks(c.item, n, storeFlags, storePayload),
         c.storeFlags = TRUE => storeFlags = TRUE,
         c.storePayload = TRUE => storePayload = TRUE,
         storePayload = TRUE => c.storePayload = TRUE \/ c.full = TRUE
  PROVE  Kept(c, d)
<1>1. /\ IsCtx(d) /\ d.item = n /\ d.target = target /\ d.full = c.full /\ d.storePayload = storePayload
      /\ d.storeFlags = storeFlags /\ d.delete = delete /\ d.sent = sent
  BY CtxFields
<1>2. IsContext(d)
  BY <1>1 DEF IsContext
<1>3. QED
  BY <1>1, <1>2 DEF Kept

(* What is not changed need not be marked. *)
LEMMA SameMessage ==
  ASSUME NEW m, NEW storeFlags, NEW storePayload
  PROVE  Tracks(m, m, storeFlags, storePayload)
BY DEF Tracks

(* An action that does nothing is sound, ... *)
LEMMA NothingDone ==
  ASSUME NEW c, IsContext(c)
  PROVE  Kept(c, c)
BY SameMessage DEF IsContext, Kept

(* ... and so are two changes, one after the other. *)
LEMMA OneAfterAnother ==
  ASSUME NEW c, NEW d, NEW e, IsContext(c), Kept(c, d), Kept(d, e)
  PROVE  Kept(c, e)
<1>1. /\ c.storeFlags \in BOOLEAN /\ d.storeFlags \in BOOLEAN /\ e.storeFlags \in BOOLEAN
      /\ c.storePayload \in BOOLEAN /\ d.storePayload \in BOOLEAN /\ e.storePayload \in BOOLEAN
  BY DEF IsContext, Kept
<1>2. /\ e.storeFlags = FALSE => d.storeFlags = FALSE
      /\ e.storePayload = FALSE => d.storePayload = FALSE
  BY <1>1 DEF Kept
<1>3. Tracks(c.item, e.item, e.storeFlags, e.storePayload)
  BY <1>2 DEF Kept, Tracks
<1>4. QED
  BY <1>3 DEF Kept

(* Changes of the context alone. *)
LEMMA ContextChanges ==
  ASSUME NEW c, IsContext(c)
  PROVE  /\ \A what : Kept(c, Sent(c, what))
         /\ \A target : Kept(c, WithTarget(c, target))
         /\ Kept(c, Deleted(c))
<1>1. /\ IsMessage(c.item)
      /\ c.storePayload \in BOOLEAN /\ c.storeFlags \in BOOLEAN /\ c.delete \in BOOLEAN
      /\ Tracks(c.item, c.item, c.storeFlags, c.storePayload)
  BY SameMessage DEF IsContext
<1>2. ASSUME NEW what PROVE Kept(c, Sent(c, what))
  <2>1. Sent(c, what) =
          Ctx(c.item, c.target, c.full, c.storePayload, c.storeFlags, c.delete, c.sent \cup {what})
    BY CtxChanges, Zenon DEF IsContext
  <2>2. QED
    BY <1>1, <2>1, KeptIfSo
<1>3. ASSUME NEW target PROVE Kept(c, WithTarget(c, target))
  <2>1. WithTarget(c, target) =
          Ctx(c.item, target, c.full, c.storePayload, c.storeFlags, c.delete, c.sent)
    BY CtxChanges, Zenon DEF IsContext
  <2>2. QED
    BY <1>1, <2>1, KeptIfSo
<1>4. Kept(c, Deleted(c))
  <2>1. Deleted(c) = Ctx(c.item, c.target, c.full, c.storePayload, c.storeFlags, TRUE, c.sent)
    BY CtxChanges, Zenon DEF IsContext
  <2>2. QED
    BY <1>1, <2>1, KeptIfSo
<1>5. QED
  BY <1>2, <1>3, <1>4

(* Changes of the message: of what is stored with the flags, and, if all   *)
(* of it has been fetched, of the text.                                    *)
LEMMA MessageChanges ==
  ASSUME NEW c, IsContext(c), NEW n, IsMessage(n), n.part = c.item.part
  PROVE  /\ Tracks(c.item, n, TRUE, c.storePayload) => Kept(c, FlagsChanged(WithItem(c, n)))
         /\ c.full = TRUE /\ Tracks(c.item, n, c.storeFlags, TRUE) => Kept(c, PayloadChanged(WithItem(c, n)))
         /\ c.full = TRUE /\ Tracks(c.item, n, TRUE, TRUE) =>
              Kept(c, PayloadChanged(FlagsChanged(WithItem(c, n))))
<1> DEFINE d == WithItem(c, n)
<1>1. c.storePayload \in BOOLEAN /\ c.storeFlags \in BOOLEAN /\ c.delete \in BOOLEAN
  BY DEF IsContext
<1>2. /\ IsCtx(d) /\ d.item = n /\ d.target = c.target /\ d.full = c.full
      /\ d.storePayload = c.storePayload /\ d.storeFlags = c.storeFlags /\ d.delete = c.delete
      /\ d.sent = c.sent
  BY CtxFields DEF WithItem
<1> HIDE DEF d
<1>3. FlagsChanged(d) = Ctx(n, c.target, c.full, c.storePayload, TRUE, c.delete, c.sent)
  BY <1>2, CtxChanges, Zenon
<1>4. PayloadChanged(d) = Ctx(n, c.target, c.full, TRUE, c.storeFlags, c.delete, c.sent)
  BY <1>2, CtxChanges, Zenon
<1> DEFINE e == FlagsChanged(d)
<1>5. /\ IsCtx(e) /\ e.item = n /\ e.target = c.target /\ e.full = c.full
      /\ e.storePayload = c.storePayload /\ e.storeFlags = TRUE /\ e.delete = c.delete
      /\ e.sent = c.sent
  <2>1. PICK yes : yes = TRUE
    OBVIOUS
  <2>2. e = Ctx(n, c.target, c.full, c.storePayload, yes, c.delete, c.sent)
    BY <1>3, <2>1, Zenon
  <2> HIDE DEF e
  <2>3. /\ IsCtx(e) /\ e.item = n /\ e.target = c.target /\ e.full = c.full
        /\ e.storePayload = c.storePayload /\ e.storeFlags = yes /\ e.delete = c.delete
        /\ e.sent = c.sent
    BY <2>2, CtxFields
  <2>4. QED
    BY <2>1, <2>3, Zenon
<1>6. PayloadChanged(e) = Ctx(n, c.target, c.full, TRUE, TRUE, c.delete, c.sent)
  <2> HIDE DEF e
  <2>1. QED
    BY <1>5, CtxChanges, Zenon
<1>7. ASSUME Tracks(c.item, n, TRUE, c.storePayload) PROVE Kept(c, FlagsChanged(d))
  BY <1>1, <1>3, <1>7, KeptIfSo
<1>8. ASSUME c.full = TRUE, Tracks(c.item, n, c.storeFlags, TRUE) PROVE Kept(c, PayloadChanged(d))
  BY <1>1, <1>4, <1>8, KeptIfSo
<1>9. ASSUME c.full = TRUE, Tracks(c.item, n, TRUE, TRUE) PROVE Kept(c, PayloadChanged(e))
  BY <1>1, <1>6, <1>9, KeptIfSo
<1>10. QED
  BY <1>7, <1>8, <1>9, Zenon DEF d

(* Changes of flags, tags and the MDN state are sound if they are marked   *)
(* as flags to be stored, ...                                              *)
LEMMA FlagChanges ==
  ASSUME NEW c, IsContext(c)
  PROVE  /\ \A F \in SUBSET Flags : Kept(c, FlagsChanged(WithFlags(c, F)))
         /\ \A T \in SUBSET Tags : Kept(c, FlagsChanged(WithTags(c, T)))
         /\ \A x : Kept(c, FlagsChanged(WithHead(c, "mdn", x)))
<1>1. IsMessage(c.item) /\ IsCtx(c)
  BY DEF IsContext
<1>2. ASSUME NEW F \in SUBSET Flags PROVE Kept(c, FlagsChanged(WithFlags(c, F)))
  <2> DEFINE n == FlagsSet(c.item, F)
  <2>1. IsMessage(n) /\ n.part = c.item.part /\ Tracks(c.item, n, TRUE, c.storePayload)
    BY <1>1 DEF IsMessage, Tracks, FlagsSet
  <2>2. WithFlags(c, F) = WithItem(c, n)
    BY <1>1, CtxMessageChanges
  <2> HIDE DEF n
  <2>3. QED
    BY <2>1, <2>2, MessageChanges, Zenon
<1>3. ASSUME NEW T \in SUBSET Tags PROVE Kept(c, FlagsChanged(WithTags(c, T)))
  <2> DEFINE n == TagsSet(c.item, T)
  <2>1. IsMessage(n) /\ n.part = c.item.part /\ Tracks(c.item, n, TRUE, c.storePayload)
    BY <1>1 DEF IsMessage, Tracks, TagsSet
  <2>2. WithTags(c, T) = WithItem(c, n)
    BY <1>1, CtxMessageChanges
  <2> HIDE DEF n
  <2>3. QED
    BY <2>1, <2>2, MessageChanges, Zenon
<1>4. ASSUME NEW x PROVE Kept(c, FlagsChanged(WithHead(c, "mdn", x)))
  <2> DEFINE n == HeadSet(c.item, "mdn", x)
  <2>1. IsMessage(n) /\ n.part = c.item.part /\ Tracks(c.item, n, TRUE, c.storePayload)
    BY <1>1 DEF IsMessage, Tracks, Heads, HeadSet
  <2>2. WithHead(c, "mdn", x) = WithItem(c, n)
    BY <1>1, CtxMessageChanges
  <2> HIDE DEF n
  <2>3. QED
    BY <2>1, <2>2, MessageChanges, Zenon
<1>5. QED
  BY <1>2, <1>3, <1>4

OnlyCryptSet(m, crypt) == [m EXCEPT !.crypt = crypt]

(* Two changes that the code makes at once are the two, one after the      *)
(* other.                                                                  *)
LEMMA TwoChanges ==
  ASSUME NEW m, IsMessage(m), NEW x, NEW y, NEW z
  PROVE  /\ IdentitySet(m, x, y, z) = TextSet(TextSet(HeadSet(m, "identity", x), "from", y), "bcc", z)
         /\ CryptSet(m, x, y) = FlagsSet(OnlyCryptSet(m, x), y)
<1>1. SUFFICES ASSUME NEW part, NEW text, NEW flags, NEW tags, NEW heads, NEW crypt, NEW size, NEW age,
                      NEW date, NEW known, NEW attached, NEW k,
                      k = [part |-> part, text |-> text, flags |-> flags, tags |-> tags, heads |-> heads,
                           crypt |-> crypt, size |-> size, age |-> age, date |-> date,
                           known |-> known, attached |-> attached]
               PROVE  /\ IdentitySet(k, x, y, z) = TextSet(TextSet(HeadSet(k, "identity", x), "from", y), "bcc", z)
                      /\ CryptSet(k, x, y) = FlagsSet(OnlyCryptSet(k, x), y)
  BY DEF IsMessage
<1>2. IdentitySet(k, x, y, z) = TextSet(TextSet(HeadSet(k, "identity", x), "from", y), "bcc", z)
  BY <1>1 DEF IdentitySet, TextSet, HeadSet
<1>3. CryptSet(k, x, y) = FlagsSet(OnlyCryptSet(k, x), y)
  BY <1>1 DEF CryptSet, FlagsSet, OnlyCryptSet
<1>4. QED
  BY <1>2, <1>3

(* A message with another's payload is a message, which is changed in its  *)
(* payload only.                                                           *)
LEMMA PayloadOfAnother ==
  ASSUME NEW m, IsMessage(m), NEW p, IsMessage(p), NEW storeFlags
  PROVE  LET n == WithPayload(m, p)
         IN  IsMessage(n) /\ n.part = m.part /\ Tracks(m, n, storeFlags, TRUE)
<1> DEFINE heads == [h \in DOMAIN m.heads |-> IF h = "mdn" THEN m.heads[h] ELSE p.heads[h]]
           n == [part |-> m.part, text |-> p.text, flags |-> m.flags, tags |-> m.tags, heads |-> heads,
                 crypt |-> p.crypt, size |-> m.size, age |-> p.age, date |-> p.date,
                 known |-> p.known, attached |-> p.attached]
<1>1. heads = [h \in Heads |-> heads[h]] /\ heads["mdn"] = m.heads["mdn"]
  BY DEF IsMessage, Heads
<1> HIDE DEF heads
<1>2. IsMessage(n) /\ n.part = m.part /\ Tracks(m, n, storeFlags, TRUE)
  BY <1>1 DEF IsMessage, Tracks
<1>3. n = WithPayload(m, p)
  BY Zenon DEF WithPayload, heads
<1> HIDE DEF n
<1>4. QED
  BY <1>2, <1>3

(* ... and those of the text and of headers if they are marked as payload, *)
(* and all has been fetched.                                               *)
LEMMA PayloadChanges ==
  ASSUME NEW c, IsContext(c), c.full = TRUE
  PROVE  /\ \A f \in Fields : \A t \in Texts : Kept(c, PayloadChanged(WithText(c, f, t)))
         /\ \A h \in Heads \ {"mdn"} : \A x : Kept(c, PayloadChanged(WithHead(c, h, x)))
         /\ \A x : \A t, u \in Texts : Kept(c, PayloadChanged(Identified(c, x, t, u)))
         /\ \A p : IsMessage(p) => Kept(c, PayloadChanged(WithMessage(c, WithPayload(c.item, p))))
         /\ \A x : \A F \in SUBSET Flags : Kept(c, PayloadChanged(FlagsChanged(Encrypted(c, x, F))))
<1>1. IsMessage(c.item) /\ IsCtx(c)
  BY DEF IsContext
<1>2. ASSUME NEW f \in Fields, NEW t \in Texts PROVE Kept(c, PayloadChanged(WithText(c, f, t)))
  <2> DEFINE n == TextSet(c.item, f, t)
  <2>1. IsMessage(n) /\ n.part = c.item.part /\ Tracks(c.item, n, c.storeFlags, TRUE)
    BY <1>1 DEF IsMessage, Tracks, TextSet
  <2>2. WithText(c, f, t) = WithItem(c, n)
    BY <1>1, CtxMessageChanges
  <2> HIDE DEF n
  <2>3. QED
    BY <2>1, <2>2, MessageChanges, Zenon
<1>3. ASSUME NEW h \in Heads \ {"mdn"}, NEW x PROVE Kept(c, PayloadChanged(WithHead(c, h, x)))
  <2> DEFINE n == HeadSet(c.item, h, x)
  <2>1. IsMessage(n) /\ n.part = c.item.part /\ Tracks(c.item, n, c.storeFlags, TRUE)
    BY <1>1 DEF IsMessage, Tracks, Heads, HeadSet
  <2>2. WithHead(c, h, x) = WithItem(c, n)
    BY <1>1, CtxMessageChanges
  <2> HIDE DEF n
  <2>3. QED
    BY <2>1, <2>2, MessageChanges, Zenon
<1>4. ASSUME NEW x, NEW t \in Texts, NEW u \in Texts PROVE Kept(c, PayloadChanged(Identified(c, x, t, u)))
  <2> DEFINE k == HeadSet(c.item, "identity", x)
             l == TextSet(k, "from", t)
             n == TextSet(l, "bcc", u)
  <2>1. IsMessage(k) /\ k.part = c.item.part /\ Tracks(c.item, k, c.storeFlags, TRUE)
    BY <1>1 DEF IsMessage, Tracks, Heads, HeadSet
  <2>2. Identified(c, x, t, u) = WithItem(c, n)
    BY <1>1, CtxMessageChanges, TwoChanges
  <2>3. "from" \in Fields /\ "bcc" \in Fields
    BY DEF Fields
  <2> HIDE DEF k
  <2>4. IsMessage(l) /\ l.part = k.part /\ Tracks(k, l, c.storeFlags, TRUE)
    BY <2>1, <2>3 DEF IsMessage, Tracks, TextSet
  <2> HIDE DEF l
  <2>5. IsMessage(n) /\ n.part = l.part /\ Tracks(l, n, c.storeFlags, TRUE)
    BY <2>3, <2>4 DEF IsMessage, Tracks, TextSet
  <2> HIDE DEF n
  <2>6. n.part = c.item.part /\ Tracks(c.item, n, c.storeFlags, TRUE)
    BY <2>1, <2>4, <2>5 DEF Tracks
  <2>7. QED
    BY <2>2, <2>5, <2>6, MessageChanges, Zenon
<1>5. ASSUME NEW x, NEW F \in SUBSET Flags
      PROVE  Kept(c, PayloadChanged(FlagsChanged(Encrypted(c, x, F))))
  <2> DEFINE k == OnlyCryptSet(c.item, x)
             n == FlagsSet(k, F)
  <2>1. IsMessage(k) /\ k.part = c.item.part /\ Tracks(c.item, k, TRUE, TRUE)
    BY <1>1 DEF IsMessage, Tracks, OnlyCryptSet
  <2>2. Encrypted(c, x, F) = WithItem(c, n)
    BY <1>1, CtxMessageChanges, TwoChanges
  <2> HIDE DEF k
  <2>3. IsMessage(n) /\ n.part = k.part /\ Tracks(k, n, TRUE, TRUE)
    BY <2>1 DEF IsMessage, Tracks, FlagsSet
  <2> HIDE DEF n
  <2>4. n.part = c.item.part /\ Tracks(c.item, n, TRUE, TRUE)
    BY <2>1, <2>3 DEF Tracks
  <2>5. QED
    BY <2>2, <2>3, <2>4, MessageChanges, Zenon
<1>6. ASSUME NEW p, IsMessage(p) PROVE Kept(c, PayloadChanged(WithMessage(c, WithPayload(c.item, p))))
  <2> DEFINE n == WithPayload(c.item, p)
  <2>1. IsMessage(n) /\ n.part = c.item.part /\ Tracks(c.item, n, c.storeFlags, TRUE)
    BY <1>1, <1>6, PayloadOfAnother
  <2>2. WithMessage(c, n) = WithItem(c, n)
    BY <1>1, CtxMessageChanges
  <2>3. SUFFICES Kept(c, PayloadChanged(WithMessage(c, n)))
    OBVIOUS
  <2> HIDE DEF n
  <2>4. QED
    BY <2>1, <2>2, MessageChanges, Zenon
<1>7. QED
  BY <1>2, <1>3, <1>4, <1>5, <1>6
-----------------------------------------------------------------------------
(* Whatever an action may do to the context c is sound. *)
Sound(S, c) == \A o \in S : o = Outcome(o.code, o.context) /\ Kept(c, o.context)

(* An action with one outcome is sound if that one is, ... *)
LEMMA SoundOne ==
  ASSUME NEW c, NEW d, Kept(c, d)
  PROVE  Sound(GoOn(d), c) /\ Sound(ErrorButGoOn(d), c) /\ Sound({Outcome("CriticalError", d)}, c)
BY DEF Sound, Outcome, GoOn, ErrorButGoOn

(* ... and one with several if each is. *)
LEMMA SoundUnion ==
  ASSUME NEW c, NEW S, NEW T, Sound(S, c), Sound(T, c)
  PROVE  Sound(S \cup T, c)
BY DEF Sound

(* Setting a status leaves flags. *)
LEMMA StatusesAreFlags ==
  ASSUME NEW F \in SUBSET Flags, NEW status \in Flags \cup {"unread"}
  PROVE  WithStatus(F, status) \in SUBSET Flags
BY DEF WithStatus, Flags

(* The actions that need only the envelope. *)
LEMMA EnvelopeActionsKeep ==
  ASSUME NEW a, IsAction(a), NEW c, IsContext(c), NEW outbound, a.type \in EnvelopeActions
  PROVE  Sound(Process(a, c, outbound), c)
<1>1. Sound(GoOn(c), c) /\ Sound(ErrorButGoOn(c), c)
  BY NothingDone, SoundOne
<1>2. c.item.flags \in SUBSET Flags /\ c.item.tags \in SUBSET Tags
  BY DEF IsContext, IsMessage
<1>3. CASE a.type = "transfer"
  <2>1. Process(a, c, outbound) = Move(a, c)
    BY <1>3 DEF Process
  <2>2. Move(a, c) = ErrorButGoOn(c) \/ Move(a, c) = GoOn(WithTarget(c, a.param))
    BY Zenon DEF Move, WithTarget
  <2>3. QED
    BY <1>1, <2>1, <2>2, ContextChanges, SoundOne, Zenon
<1>4. CASE a.type = "copy"
  <2>1. Process(a, c, outbound) = Copy(a, c)
    BY <1>4 DEF Process
  <2>2. Copy(a, c) = GoOn(c) \/ Copy(a, c) = GoOn(Sent(c, "copy"))
    BY Zenon DEF Copy
  <2>3. QED
    BY <1>1, <2>1, <2>2, ContextChanges, SoundOne, Zenon
<1>5. CASE a.type = "delete"
  <2>1. Process(a, c, outbound) = Delete(a, c)
    BY <1>5 DEF Process
  <2>2. Delete(a, c) = GoOn(Deleted(c))
    BY Zenon DEF Delete, Deleted
  <2>3. QED
    BY <2>1, <2>2, ContextChanges, SoundOne, Zenon
<1>6. CASE a.type = "add tag"
  <2>1. Process(a, c, outbound) = AddTag(a, c)
    BY <1>6 DEF Process
  <2>2. \/ AddTag(a, c) = ErrorButGoOn(c)
        \/ a.param \in a.list /\ AddTag(a, c) = GoOn(FlagsChanged(WithTags(c, c.item.tags \cup {a.param})))
    BY Zenon DEF AddTag, WithTags
  <2>3. a.param \in a.list => c.item.tags \cup {a.param} \in SUBSET Tags
    BY <1>2, <1>6 DEF IsAction
  <2>4. QED
    BY <1>1, <2>1, <2>2, <2>3, FlagChanges, SoundOne, Zenon
<1>7. CASE a.type = "set status"
  <2> DEFINE old == c.item.flags \ {"keyword"}
             new == WithStatus(old, a.param)
  <2>1. Process(a, c, outbound) = SetStatus(a, c)
    BY <1>7 DEF Process
  <2>2. \/ SetStatus(a, c) = ErrorButGoOn(c)
        \/ SetStatus(a, c) = GoOn(c)
        \/ a.param # NoParam /\ SetStatus(a, c) = GoOn(FlagsChanged(WithFlags(c, new)))
    <3> DEFINE e == FlagsChanged([c EXCEPT !.item.flags = new])
    <3>1. SetStatus(a, c) = CASE a.param = NoParam -> ErrorButGoOn(c)
                              [] a.param # NoParam /\ new = old -> GoOn(c)
                              [] OTHER -> GoOn(e)
      BY Zenon DEF SetStatus
    <3>2. e = FlagsChanged(WithFlags(c, new))
      BY Zenon DEF WithFlags
    <3> HIDE DEF e, new, old
    <3>3. QED
      BY <3>1, <3>2
  <2>3. a.param # NoParam => new \in SUBSET Flags
    BY <1>2, <1>7, StatusesAreFlags DEF IsAction
  <2> HIDE DEF new, old
  <2>4. QED
    BY <1>1, <2>1, <2>2, <2>3, FlagChanges, SoundOne, Zenon
<1>8. CASE a.type = "unset status"
  <2>1. Process(a, c, outbound) = UnsetStatus(a, c)
    BY <1>8 DEF Process
  <2>2. \/ UnsetStatus(a, c) = ErrorButGoOn(c)
        \/ UnsetStatus(a, c) = GoOn(c)
        \/ UnsetStatus(a, c) = GoOn(FlagsChanged(WithFlags(c, {"read"})))
        \/ UnsetStatus(a, c) = GoOn(FlagsChanged(WithFlags(c, c.item.flags \ {a.param})))
    <3> DEFINE d == FlagsChanged([c EXCEPT !.item.flags = {"read"}])
               e == FlagsChanged([c EXCEPT !.item.flags = c.item.flags \ {a.param}])
    <3>1. UnsetStatus(a, c) =
            CASE a.param = NoParam -> ErrorButGoOn(c)
              [] a.param = "unread" /\ c.item.flags \ {"keyword"} # {"read"} -> GoOn(d)
              [] a.param \in c.item.flags -> GoOn(e)
              [] OTHER -> GoOn(c)
      BY Zenon DEF UnsetStatus
    <3>2. d = FlagsChanged(WithFlags(c, {"read"})) /\ e = FlagsChanged(WithFlags(c, c.item.flags \ {a.param}))
      BY Zenon DEF WithFlags
    <3> HIDE DEF d, e
    <3>3. QED
      BY <3>1, <3>2
  <2>3. {"read"} \in SUBSET Flags /\ c.item.flags \ {a.param} \in SUBSET Flags
    BY <1>2 DEF Flags
  <2>4. QED
    BY <1>1, <2>1, <2>2, <2>3, FlagChanges, SoundOne, Zenon
<1>9. CASE a.type = "play sound"
  <2>1. Process(a, c, outbound) = PlaySound(a, c)
    BY <1>9 DEF Process
  <2>2. PlaySound(a, c) = ErrorButGoOn(c) \/ PlaySound(a, c) = GoOn(Sent(c, "sound"))
    BY Zenon DEF PlaySound
  <2>3. QED
    BY <1>1, <2>1, <2>2, ContextChanges, SoundOne, Zenon
<1>10. CASE a.type = "add to address book"
  <2>1. Process(a, c, outbound) = AddToAddressBook(a, c)
    BY <1>10 DEF Process
  <2>2. AddToAddressBook(a, c) = ErrorButGoOn(c) \/ AddToAddressBook(a, c) = GoOn(Sent(c, "contact"))
    BY Zenon DEF AddToAddressBook
  <2>3. QED
    BY <1>1, <2>1, <2>2, ContextChanges, SoundOne, Zenon
<1>11. QED
  BY <1>3, <1>4, <1>5, <1>6, <1>7, <1>8, <1>9, <1>10 DEF EnvelopeActions

(* A message with more blind copies has text there. *)
LEMMA AddedIsText ==
  ASSUME NEW bcc \in Texts, NEW more \in Texts
  PROVE  Added(bcc, more) \in Texts
<1>1. CASE more = NoText \/ bcc = NoText
  BY <1>1 DEF Added
<1>2. CASE more # NoText /\ bcc # NoText
  <2> DEFINE t == (UNION {x \cap {"contains"} : x \in {bcc, more}}) \cup (bcc \cap {"starts"}) \cup (more \cap {"ends"})
  <2>1. Added(bcc, more) = t
    BY <1>2 DEF Added, Joint
  <2>2. /\ t \subseteq {"contains", "starts", "ends"}
        /\ "starts" \in t => "contains" \in bcc
        /\ "ends" \in t => "contains" \in more
        /\ "contains" \in bcc \/ "contains" \in more => "contains" \in t
    BY <1>2 DEF Texts, NoText
  <2> HIDE DEF t
  <2>3. t \in Texts
    BY <2>2 DEF Texts
  <2>4. QED
    BY <2>1, <2>3
<1>3. QED
  BY <1>1, <1>2

(* The actions that edit headers. *)
LEMMA HeaderActionsKeep ==
  ASSUME NEW a, IsAction(a), NEW c, IsContext(c), c.full = TRUE, NEW outbound \in BOOLEAN,
         a.type \in {"add header", "remove header", "rewrite header", "set Reply-To", "set transport", "set identity"}
  PROVE  Sound(Process(a, c, outbound), c)
<1>1. Sound(GoOn(c), c) /\ Sound(ErrorButGoOn(c), c)
  BY NothingDone, SoundOne
<1>2. /\ "list-id" \in Fields /\ NoText \in Texts /\ c.item.text["from"] \in Texts
      /\ "reply-to" \in Heads \ {"mdn"} /\ "transport" \in Heads \ {"mdn"}
      /\ c.item.text["bcc"] \in Texts
  <2>1. "list-id" \in Fields /\ "from" \in Fields /\ "bcc" \in Fields
    BY DEF Fields
  <2>2. c.item.text["from"] \in Texts /\ c.item.text["bcc"] \in Texts
    BY <2>1 DEF IsContext, IsMessage
  <2>3. NoText \in Texts
    BY DEF NoText, Texts
  <2>4. "reply-to" \in Heads \ {"mdn"} /\ "transport" \in Heads \ {"mdn"}
    BY DEF Heads
  <2>5. QED
    BY <2>1, <2>2, <2>3, <2>4
<1>3. CASE a.type = "add header"
  <2>1. Process(a, c, outbound) = AddHeader(a, c)
    BY <1>3 DEF Process
  <2>2. \/ AddHeader(a, c) = ErrorButGoOn(c)
        \/ AddHeader(a, c) = GoOn(PayloadChanged(WithText(c, "list-id", a.value)))
    BY Zenon DEF AddHeader, WithText
  <2>3. a.value \in Texts
    BY <1>3 DEF IsAction
  <2>4. QED
    BY <1>1, <1>2, <2>1, <2>2, <2>3, PayloadChanges, SoundOne, Zenon
<1>4. CASE a.type = "remove header"
  <2>1. Process(a, c, outbound) = RemoveHeader(a, c)
    BY <1>4 DEF Process
  <2>2. \/ RemoveHeader(a, c) = ErrorButGoOn(c)
        \/ RemoveHeader(a, c) = GoOn(c)
        \/ RemoveHeader(a, c) = GoOn(PayloadChanged(WithText(c, "list-id", NoText)))
    <3> DEFINE d == PayloadChanged([c EXCEPT !.item.text["list-id"] = NoText])
    <3>1. RemoveHeader(a, c) =
            CASE a.param = NoParam -> ErrorButGoOn(c)
              [] a.param # NoParam /\ Text(c.item, "list-id") # NoText -> GoOn(d)
              [] OTHER -> GoOn(c)
      BY Zenon DEF RemoveHeader
    <3>2. d = PayloadChanged(WithText(c, "list-id", NoText))
      BY Zenon DEF WithText
    <3> HIDE DEF d
    <3>3. QED
      BY <3>1, <3>2
  <2>3. QED
    BY <1>1, <1>2, <2>1, <2>2, PayloadChanges, SoundOne, Zenon
<1>5. CASE a.type = "rewrite header"
  <2> DEFINE e == PayloadChanged(WithText(c, "list-id", a.value))
  <2>1. Process(a, c, outbound) = RewriteHeader(a, c)
    BY <1>5 DEF Process
  <2>2. \/ RewriteHeader(a, c) = ErrorButGoOn(c)
        \/ RewriteHeader(a, c) = GoOn(c)
        \/ RewriteHeader(a, c) = GoOn(c) \cup GoOn(e)
    <3> DEFINE d == PayloadChanged([c EXCEPT !.item.text["list-id"] = a.value])
    <3>1. RewriteHeader(a, c) =
            CASE a.param = NoParam -> ErrorButGoOn(c)
              [] a.param # NoParam /\ Text(c.item, "list-id") \notin {NoText, a.value} -> GoOn(c) \cup GoOn(d)
              [] OTHER -> GoOn(c)
      BY Zenon DEF RewriteHeader
    <3>2. d = e
      BY Zenon DEF WithText
    <3> HIDE DEF d, e
    <3>3. QED
      BY <3>1, <3>2
  <2>3. a.value \in Texts
    BY <1>5 DEF IsAction
  <2>4. Sound(GoOn(e), c)
    BY <1>2, <2>3, PayloadChanges, SoundOne, Zenon
  <2> HIDE DEF e
  <2>5. QED
    BY <1>1, <2>1, <2>2, <2>4, SoundUnion, Zenon
<1>6. CASE a.type = "set Reply-To"
  <2>1. Process(a, c, outbound) = SetReplyTo(a, c)
    BY <1>6 DEF Process
  <2>2. \/ SetReplyTo(a, c) = ErrorButGoOn(c)
        \/ SetReplyTo(a, c) = GoOn(PayloadChanged(WithHead(c, "reply-to", a.param)))
    BY Zenon DEF SetReplyTo, WithHead
  <2>3. QED
    BY <1>1, <1>2, <2>1, <2>2, PayloadChanges, SoundOne, Zenon
<1>7. CASE a.type = "set transport"
  <2>1. Process(a, c, outbound) = SetTransport(a, c)
    BY <1>7 DEF Process
  <2>2. \/ SetTransport(a, c) = ErrorButGoOn(c)
        \/ SetTransport(a, c) = GoOn(PayloadChanged(WithHead(c, "transport", a.param)))
    BY Zenon DEF SetTransport, WithHead
  <2>3. QED
    BY <1>1, <1>2, <2>1, <2>2, PayloadChanges, SoundOne, Zenon
<1>8. CASE a.type = "set identity"
  <2> DEFINE from == IF outbound THEN a.value ELSE c.item.text["from"]
             bcc == IF outbound THEN Added(c.item.text["bcc"], a.bcc) ELSE c.item.text["bcc"]
             e == PayloadChanged(Identified(c, a.param, from, bcc))
  <2>1. Process(a, c, outbound) = SetIdentity(a, c, outbound)
    BY <1>8 DEF Process
  <2>2. \/ SetIdentity(a, c, outbound) = ErrorButGoOn(c)
        \/ SetIdentity(a, c, outbound) = GoOn(c)
        \/ SetIdentity(a, c, outbound) = GoOn(e)
    <3> DEFINE d == PayloadChanged(
                      [c EXCEPT !.item = [@ EXCEPT !.heads["identity"] = a.param, !.text["from"] = from,
                                                   !.text["bcc"] = bcc]])
    <3>1. SetIdentity(a, c, outbound) =
            CASE a.param \notin Identities -> ErrorButGoOn(c)
              [] a.param \in Identities /\ (c.item.part >= Header /\ c.item.heads["identity"] = a.param) -> GoOn(c)
              [] OTHER -> GoOn(d)
      BY Zenon DEF SetIdentity
    <3>2. d = e
      BY Zenon DEF Identified
    <3> HIDE DEF d, e, from, bcc
    <3>3. QED
      BY <3>1, <3>2
  <2>3. from \in Texts /\ bcc \in Texts
    BY <1>2, <1>8, AddedIsText DEF IsAction
  <2> HIDE DEF from, bcc
  <2>4. QED
    BY <1>1, <2>1, <2>2, <2>3, PayloadChanges, SoundOne, Zenon
<1>9. QED
  BY <1>3, <1>4, <1>5, <1>6, <1>7, <1>8

(* The actions that run commands, encrypt and decrypt, or answer. *)
LEMMA CommandsKeep ==
  ASSUME NEW a, NEW c, IsContext(c), c.full = TRUE, NEW withOutput \in BOOLEAN, withOutput => IsMessage(a.prints)
  PROVE  Sound(Command(a, c, withOutput), c)
<1> DEFINE ran == Sent(c, "command")
           e == PayloadChanged(WithMessage(ran, WithPayload(ran.item, a.prints)))
           all == ErrorButGoOn(c) \cup ErrorButGoOn(ran) \cup {Outcome("CriticalError", c)}
<1>1. Kept(c, c) /\ Kept(c, ran) /\ ran.full = TRUE /\ IsContext(ran)
  BY NothingDone, ContextChanges DEF Kept
<1>2. \/ Command(a, c, withOutput) = ErrorButGoOn(c)
      \/ Command(a, c, withOutput) = all \cup GoOn(ran)
      \/ withOutput /\ Command(a, c, withOutput) = all \cup GoOn(e)
  <2> DEFINE d == PayloadChanged([ran EXCEPT !.item = WithPayload(@, a.prints)])
  <2>1. Command(a, c, withOutput) =
          IF a.param = NoParam THEN ErrorButGoOn(c) ELSE all \cup (IF withOutput THEN GoOn(d) ELSE GoOn(ran))
    BY Zenon DEF Command
  <2>2. d = e
    BY Zenon DEF WithMessage
  <2> HIDE DEF d, e, all, ran
  <2>3. QED
    BY <2>1, <2>2
<1>3. Sound(ErrorButGoOn(c), c) /\ Sound(GoOn(ran), c) /\ Sound(all, c)
  <2> HIDE DEF ran
  <2>1. /\ Sound(ErrorButGoOn(c), c) /\ Sound(ErrorButGoOn(ran), c) /\ Sound(GoOn(ran), c)
        /\ Sound({Outcome("CriticalError", c)}, c)
    BY <1>1, SoundOne, Zenon
  <2>2. QED
    BY <2>1, SoundUnion, Zenon
<1>4. ASSUME withOutput PROVE Sound(GoOn(e), c)
  <2> HIDE DEF ran
  <2>1. Kept(ran, e)
    BY <1>1, <1>4, PayloadChanges, Zenon
  <2>2. Kept(c, e)
    BY <1>1, <2>1, OneAfterAnother
  <2>3. QED
    BY <2>2, SoundOne, Zenon
<1> HIDE DEF ran, e, all
<1>5. QED
  BY <1>2, <1>3, <1>4, SoundUnion, Zenon

(* Encrypting and decrypting mark the payload and the flags they change. *)
LEMMA EncryptionKept ==
  ASSUME NEW c, IsContext(c), c.full = TRUE, NEW crypt
  PROVE  Kept(c, WithEncryption(c, crypt))
<1> DEFINE F == IF crypt = Plain THEN c.item.flags \ {"encrypted"} ELSE c.item.flags \cup {"encrypted"}
<1>1. F \in SUBSET Flags
  BY DEF IsContext, IsMessage, Flags
<1>2. WithEncryption(c, crypt) = PayloadChanged(FlagsChanged(Encrypted(c, crypt, F)))
  BY Zenon DEF WithEncryption, Encrypted
<1> HIDE DEF F
<1>3. QED
  BY <1>1, <1>2, PayloadChanges, Zenon

(* Sending a receipt changes only the MDN state, which is marked. *)
LEMMA AnswersKeep ==
  ASSUME NEW c, IsContext(c), NEW what
  PROVE  /\ Sound(UNION {ErrorButGoOn(d) \cup GoOn(Sent(d, what)) : d \in SendMDN(c)}, c)
         /\ Sound(UNION {GoOn(d) : d \in SendMDN(c)}, c)
<1>1. \A d \in SendMDN(c) : Kept(c, d) /\ IsContext(d)
  <2>1. Kept(c, c) /\ Kept(c, Sent(c, "mdn"))
    BY NothingDone, ContextChanges, Zenon
  <2>2. IsContext(Sent(c, "mdn"))
    BY <2>1, Zenon DEF Kept
  <2>3. QED
    BY <2>1, <2>2 DEF SendMDN
<1>2. ASSUME NEW d \in SendMDN(c)
      PROVE  Sound(GoOn(d), c) /\ Sound(ErrorButGoOn(d) \cup GoOn(Sent(d, what)), c)
  <2>1. Kept(c, d) /\ Kept(d, Sent(d, what))
    BY <1>1, ContextChanges
  <2>2. Kept(c, Sent(d, what))
    BY <2>1, OneAfterAnother
  <2>3. Sound(GoOn(d), c) /\ Sound(ErrorButGoOn(d), c) /\ Sound(GoOn(Sent(d, what)), c)
    BY <2>1, <2>2, SoundOne, Zenon
  <2>4. QED
    BY <2>3, SoundUnion, Zenon
<1>3. Sound(UNION {ErrorButGoOn(d) \cup GoOn(Sent(d, what)) : d \in SendMDN(c)}, c)
  BY <1>2 DEF Sound
<1>4. Sound(UNION {GoOn(d) : d \in SendMDN(c)}, c)
  BY <1>2 DEF Sound
<1>5. QED
  BY <1>3, <1>4

(* The actions that hand the message to another program, or answer it. *)
LEMMA OtherActionsKeep ==
  ASSUME NEW a, IsAction(a), NEW c, IsContext(c), c.full = TRUE, NEW outbound \in BOOLEAN,
         a.type \in {"execute", "filter app", "decrypt", "encrypt", "redirect", "confirm delivery", "fake mdn"}
  PROVE  Sound(Process(a, c, outbound), c)
<1>1. Sound(GoOn(c), c) /\ Sound(ErrorButGoOn(c), c)
  BY NothingDone, SoundOne
<1>2. CASE a.type = "execute"
  <2>1. Process(a, c, outbound) = Command(a, c, FALSE)
    BY <1>2 DEF Process, Exec
  <2>2. QED
    BY <2>1, CommandsKeep, Zenon
<1>3. CASE a.type = "filter app"
  <2>1. Process(a, c, outbound) = Command(a, c, TRUE)
    BY <1>3 DEF Process, PipeThrough
  <2>2. IsMessage(a.prints)
    BY <1>3 DEF IsAction
  <2>3. QED
    BY <2>1, <2>2, CommandsKeep, Zenon
<1>4. CASE a.type = "decrypt"
  <2>1. Process(a, c, outbound) = Decrypt(a, c)
    BY <1>4 DEF Process
  <2>2. \/ Decrypt(a, c) = GoOn(c)
        \/ Decrypt(a, c) = ErrorButGoOn(c)
        \/ Decrypt(a, c) = GoOn(WithEncryption(c, Plain))
    BY DEF Decrypt
  <2>3. QED
    BY <1>1, <2>1, <2>2, EncryptionKept, SoundOne, Zenon
<1>5. CASE a.type = "encrypt"
  <2> DEFINE new == WithEncryption(c, [how |-> a.how, key |-> a.param])
  <2>1. Process(a, c, outbound) = Encrypt(a, c)
    BY <1>5 DEF Process
  <2>2. \/ Encrypt(a, c) = GoOn(c)
        \/ Encrypt(a, c) = ErrorButGoOn(c)
        \/ Encrypt(a, c) = GoOn(new) \cup ErrorButGoOn(c)
    BY DEF Encrypt
  <2>3. Sound(GoOn(new), c)
    BY EncryptionKept, SoundOne, Zenon
  <2> HIDE DEF new
  <2>4. QED
    BY <1>1, <2>1, <2>2, <2>3, SoundUnion, Zenon
<1>6. CASE a.type = "redirect"
  <2> DEFINE all == UNION {ErrorButGoOn(d) \cup GoOn(Sent(d, "redirect")) : d \in SendMDN(c)}
  <2>1. Process(a, c, outbound) = Redirect(a, c)
    BY <1>6 DEF Process
  <2>2. Redirect(a, c) = ErrorButGoOn(c) \/ Redirect(a, c) = ErrorButGoOn(c) \cup all
    BY Zenon DEF Redirect
  <2>3. Sound(all, c)
    BY AnswersKeep
  <2> HIDE DEF all
  <2>4. QED
    BY <1>1, <2>1, <2>2, <2>3, SoundUnion, Zenon
<1>7. CASE a.type = "confirm delivery"
  <2>1. Process(a, c, outbound) = ErrorButGoOn(c) \cup GoOn(Sent(c, "receipt"))
    BY <1>7 DEF Process, SendReceipt
  <2>2. Sound(GoOn(Sent(c, "receipt")), c)
    BY ContextChanges, SoundOne, Zenon
  <2>3. QED
    BY <1>1, <2>1, <2>2, SoundUnion, Zenon
<1>8. CASE a.type = "fake mdn"
  <2> DEFINE e == FlagsChanged(WithHead(c, "mdn", "ignore"))
             all == UNION {GoOn(d) : d \in SendMDN(c)}
  <2>1. Process(a, c, outbound) = SendFakeDisposition(a, c)
    BY <1>8 DEF Process
  <2>2. \/ SendFakeDisposition(a, c) = ErrorButGoOn(c)
        \/ SendFakeDisposition(a, c) = GoOn(c) \cup GoOn(e)
        \/ SendFakeDisposition(a, c) = all
    <3> DEFINE d == FlagsChanged([c EXCEPT !.item.heads["mdn"] = "ignore"])
    <3>1. SendFakeDisposition(a, c) =
            CASE a.param = NoParam  -> ErrorButGoOn(c)
              [] a.param = "ignore" -> GoOn(c) \cup GoOn(d)
              [] OTHER              -> all
      BY Zenon DEF SendFakeDisposition
    <3>2. d = e
      BY Zenon DEF WithHead
    <3> HIDE DEF d, e, all
    <3>3. QED
      BY <3>1, <3>2
  <2>3. Sound(GoOn(e), c)
    BY FlagChanges, SoundOne, Zenon
  <2>4. Sound(all, c)
    BY AnswersKeep
  <2> HIDE DEF e, all
  <2>5. QED
    BY <1>1, <2>1, <2>2, <2>3, <2>4, SoundUnion, Zenon
<1>9. QED
  BY <1>2, <1>3, <1>4, <1>5, <1>6, <1>7, <1>8

(* Whatever any action does is sound, if what it needs has been fetched. *)
LEMMA ActionsKeep ==
  ASSUME NEW a, IsAction(a), NEW c, IsContext(c), ActionPart(a) = Complete => c.full = TRUE,
         NEW outbound \in BOOLEAN
  PROVE  Sound(Process(a, c, outbound), c)
<1>1. CASE a.type \in EnvelopeActions
  BY <1>1, EnvelopeActionsKeep
<1>2. CASE a.type \notin EnvelopeActions
  <2>1. c.full = TRUE
    BY <1>2 DEF ActionPart
  <2>2. a.type \in {"add header", "remove header", "rewrite header", "set Reply-To", "set transport", "set identity"}
           \cup {"execute", "filter app", "decrypt", "encrypt", "redirect", "confirm delivery", "fake mdn"}
    BY <1>2 DEF IsAction
  <2>3. CASE a.type \in {"add header", "remove header", "rewrite header", "set Reply-To", "set transport", "set identity"}
    BY <2>1, <2>3, HeaderActionsKeep
  <2>4. CASE a.type \in {"execute", "filter app", "decrypt", "encrypt", "redirect", "confirm delivery", "fake mdn"}
    BY <2>1, <2>4, OtherActionsKeep
  <2>5. QED
    BY <2>2, <2>3, <2>4
<1>3. QED
  BY <1>1, <1>2
-----------------------------------------------------------------------------
(* With all of the message, an action does the same to it. *)
AllOfEach(S) == {Outcome(o.code, AllOf(o.context)) : o \in S}

(* One outcome, of the part and of all. *)
LEMMA AllOfOne ==
  ASSUME NEW d
  PROVE  AllOfEach(GoOn(d)) = GoOn(AllOf(d)) /\ AllOfEach(ErrorButGoOn(d)) = ErrorButGoOn(AllOf(d))
BY DEF AllOfEach, GoOn, ErrorButGoOn, Outcome

(* Fetching the rest changes the message's part only. *)
LEMMA AllOfContext ==
  ASSUME NEW c, IsContext(c)
  PROVE  /\ IsContext(AllOf(c)) /\ AllOf(c).item = Whole(c.item)
         /\ AllOf(c).target = c.target /\ AllOf(c).full = c.full
         /\ AllOf(c).storePayload = c.storePayload /\ AllOf(c).storeFlags = c.storeFlags
         /\ AllOf(c).delete = c.delete /\ AllOf(c).sent = c.sent
         /\ c.item.part = Complete => AllOf(c) = c
<1>1. IsCtx(c) /\ IsMessage(c.item)
  BY DEF IsContext
<1>2. AllOf(c) = WithItem(c, Whole(c.item))
  BY <1>1, CtxMessageChanges
<1>3. IsMessage(Whole(c.item)) /\ (c.item.part = Complete => Whole(c.item) = c.item)
  BY <1>1, WholeMessage
<1> DEFINE d == AllOf(c)
<1>4. /\ IsCtx(d) /\ d.item = Whole(c.item) /\ d.target = c.target /\ d.full = c.full
      /\ d.storePayload = c.storePayload /\ d.storeFlags = c.storeFlags /\ d.delete = c.delete
      /\ d.sent = c.sent
  BY <1>2, CtxFields DEF WithItem
<1>5. c.item.part = Complete => d = c
  BY <1>1, <1>2, <1>3 DEF WithItem, IsCtx
<1> HIDE DEF d
<1>6. IsContext(d)
  BY <1>3, <1>4 DEF IsContext
<1>7. QED
  BY <1>4, <1>5, <1>6 DEF d

(* What an action notes in the context it notes alike of the part and of   *)
(* all, ...                                                                *)
LEMMA AllOfContextChanges ==
  ASSUME NEW c, IsCtx(c)
  PROVE  /\ \A x : AllOf(Sent(c, x)) = Sent(AllOf(c), x)
         /\ \A x : AllOf(WithTarget(c, x)) = WithTarget(AllOf(c), x)
         /\ AllOf(Deleted(c)) = Deleted(AllOf(c))
         /\ AllOf(FlagsChanged(c)) = FlagsChanged(AllOf(c))
<1>1. SUFFICES ASSUME NEW n, NEW t, NEW full, NEW p, NEW f, NEW d, NEW s, NEW e,
                      e = Ctx(n, t, full, p, f, d, s)
               PROVE  /\ \A x : AllOf(Sent(e, x)) = Sent(AllOf(e), x)
                      /\ \A x : AllOf(WithTarget(e, x)) = WithTarget(AllOf(e), x)
                      /\ AllOf(Deleted(e)) = Deleted(AllOf(e))
                      /\ AllOf(FlagsChanged(e)) = FlagsChanged(AllOf(e))
  BY DEF IsCtx
<1>2. \A x : AllOf(Sent(e, x)) = Sent(AllOf(e), x)
  BY <1>1 DEF AllOf, Sent, Ctx
<1>3. \A x : AllOf(WithTarget(e, x)) = WithTarget(AllOf(e), x)
  BY <1>1 DEF AllOf, WithTarget, Ctx
<1>4. \A x : AllOf([e EXCEPT !.delete = x]) = [AllOf(e) EXCEPT !.delete = x]
  BY <1>1 DEF AllOf, Ctx
<1>5. \A x : AllOf([e EXCEPT !.storeFlags = x]) = [AllOf(e) EXCEPT !.storeFlags = x]
  BY <1>1 DEF AllOf, Ctx
<1>6. AllOf(Deleted(e)) = Deleted(AllOf(e)) /\ AllOf(FlagsChanged(e)) = FlagsChanged(AllOf(e))
  BY <1>4, <1>5, Zenon DEF Deleted, FlagsChanged
<1>7. QED
  BY <1>2, <1>3, <1>6

(* ... flags and tags are the same in the part as in all, ... *)
LEMMA WholeChanges ==
  ASSUME NEW m, IsMessage(m), NEW x
  PROVE  Whole(FlagsSet(m, x)) = FlagsSet(Whole(m), x) /\ Whole(TagsSet(m, x)) = TagsSet(Whole(m), x)
<1>1. SUFFICES ASSUME NEW part, NEW text, NEW flags, NEW tags, NEW heads, NEW crypt, NEW size, NEW age,
                      NEW date, NEW known, NEW attached, NEW k,
                      k = [part |-> part, text |-> text, flags |-> flags, tags |-> tags, heads |-> heads,
                           crypt |-> crypt, size |-> size, age |-> age, date |-> date,
                           known |-> known, attached |-> attached]
               PROVE  Whole(FlagsSet(k, x)) = FlagsSet(Whole(k), x) /\ Whole(TagsSet(k, x)) = TagsSet(Whole(k), x)
  BY DEF IsMessage
<1>2. QED
  BY <1>1 DEF Whole, FlagsSet, TagsSet

(* ... and so changing them in the part does what it does to all. *)
LEMMA AllOfMessageChanges ==
  ASSUME NEW c, IsContext(c), NEW x
  PROVE  /\ AllOf(FlagsChanged(WithFlags(c, x))) = FlagsChanged(WithFlags(AllOf(c), x))
         /\ AllOf(FlagsChanged(WithTags(c, x))) = FlagsChanged(WithTags(AllOf(c), x))
<1> DEFINE m == c.item
<1>1. \A n, k : IsCtx(WithItem(c, n)) /\ WithItem(c, n).item = n /\ WithItem(WithItem(c, n), k) = WithItem(c, k)
  BY CtxFields DEF WithItem
<1>2. AllOf(c) = WithItem(c, Whole(m)) /\ IsCtx(AllOf(c))
  BY <1>1, CtxMessageChanges DEF IsContext
<1>3. /\ WithFlags(c, x) = WithItem(c, FlagsSet(m, x))
      /\ WithTags(c, x) = WithItem(c, TagsSet(m, x))
  BY CtxMessageChanges DEF IsContext
<1>4. \A n : AllOf(WithItem(c, n)) = WithItem(c, Whole(n))
  BY <1>1, CtxMessageChanges
<1>5. /\ WithFlags(AllOf(c), x) = WithItem(c, FlagsSet(Whole(m), x))
      /\ WithTags(AllOf(c), x) = WithItem(c, TagsSet(Whole(m), x))
  BY <1>1, <1>2, CtxMessageChanges
<1>6. Whole(FlagsSet(m, x)) = FlagsSet(Whole(m), x) /\ Whole(TagsSet(m, x)) = TagsSet(Whole(m), x)
  BY WholeChanges DEF IsContext
<1>7. /\ AllOf(WithFlags(c, x)) = WithFlags(AllOf(c), x) /\ IsCtx(WithFlags(c, x))
      /\ AllOf(WithTags(c, x)) = WithTags(AllOf(c), x) /\ IsCtx(WithTags(c, x))
  BY <1>1, <1>3, <1>4, <1>5, <1>6
<1>8. QED
  BY <1>7, AllOfContextChanges, Zenon

(* The actions that need only the envelope do not look beyond it. *)
LEMMA EnvelopeSuffices ==
  ASSUME NEW a, IsAction(a), NEW c, IsContext(c), NEW outbound \in BOOLEAN, a.type \in EnvelopeActions
  PROVE  AllOfEach(Process(a, c, outbound)) = Process(a, AllOf(c), outbound)
<1> DEFINE whole == AllOf(c)
<1>1. IsCtx(c) /\ IsCtx(whole) /\ IsMessage(c.item) /\ whole.item = Whole(c.item)
  BY AllOfContext DEF IsContext
<1>2. whole.item.flags = c.item.flags /\ whole.item.tags = c.item.tags
  BY <1>1, WholeMessage
<1> HIDE DEF whole
<1>3. CASE a.type = "transfer"
  <2>1. \A d : Process(a, d, outbound) = IF a.param = NoParam THEN ErrorButGoOn(d) ELSE GoOn(WithTarget(d, a.param))
    <3>1. \A d : Process(a, d, outbound) = Move(a, d)
      BY <1>3 DEF Process
    <3>2. QED
      BY <3>1, Zenon DEF Move, WithTarget
  <2>2. QED
    BY <1>1, <2>1, AllOfOne, AllOfContextChanges DEF whole
<1>4. CASE a.type = "copy"
  <2>1. \A d : Process(a, d, outbound) = GoOn(IF a.param = NoParam THEN d ELSE Sent(d, "copy"))
    BY <1>4 DEF Process, Copy
  <2>2. QED
    BY <1>1, <2>1, AllOfOne, AllOfContextChanges DEF whole
<1>5. CASE a.type = "delete"
  <2>1. \A d : Process(a, d, outbound) = GoOn(Deleted(d))
    <3>1. \A d : Process(a, d, outbound) = Delete(a, d)
      BY <1>5 DEF Process
    <3>2. QED
      BY <3>1, Zenon DEF Delete, Deleted
  <2>2. QED
    BY <1>1, <2>1, AllOfOne, AllOfContextChanges DEF whole
<1>6. CASE a.type = "play sound"
  <2>1. \A d : Process(a, d, outbound) = IF a.param = NoParam THEN ErrorButGoOn(d) ELSE GoOn(Sent(d, "sound"))
    BY <1>6 DEF Process, PlaySound
  <2>2. QED
    BY <1>1, <2>1, AllOfOne, AllOfContextChanges DEF whole
<1>7. CASE a.type = "add to address book"
  <2>1. \A d : Process(a, d, outbound) =
                 IF a.param = NoParam \/ Text(d.item, a.value) = NoText THEN ErrorButGoOn(d) ELSE GoOn(Sent(d, "contact"))
    BY <1>7 DEF Process, AddToAddressBook
  <2>2. a.param # NoParam => Text(whole.item, a.value) = Text(c.item, a.value)
    BY <1>1, <1>7, WholeMessage DEF IsAction, Text, Covers
  <2>3. QED
    BY <1>1, <2>1, <2>2, AllOfOne, AllOfContextChanges DEF whole
<1>8. CASE a.type = "add tag"
  <2>1. \A d : Process(a, d, outbound) =
                 IF a.param \notin a.list THEN ErrorButGoOn(d)
                 ELSE GoOn(FlagsChanged(WithTags(d, d.item.tags \cup {a.param})))
    <3>1. \A d : Process(a, d, outbound) = AddTag(a, d)
      BY <1>8 DEF Process
    <3>2. QED
      BY <3>1, Zenon DEF AddTag, WithTags
  <2>2. PICK T : T = c.item.tags \cup {a.param}
    OBVIOUS
  <2>3. CASE a.param \in a.list
    <3>1. /\ Process(a, c, outbound) = GoOn(FlagsChanged(WithTags(c, T)))
          /\ Process(a, whole, outbound) = GoOn(FlagsChanged(WithTags(whole, T)))
      BY <1>2, <2>1, <2>2, <2>3
    <3>2. QED
      BY <3>1, AllOfOne, AllOfMessageChanges DEF whole
  <2>4. CASE a.param \notin a.list
    <3>1. \A d \in {c, whole} : Process(a, d, outbound) = ErrorButGoOn(d)
      BY <2>1, <2>4
    <3>2. QED
      BY <3>1, AllOfOne DEF whole
  <2>5. QED
    BY <2>3, <2>4
<1>9. CASE a.type = "set status"
  <2> DEFINE Old(d) == d.item.flags \ {"keyword"}
             New(d) == WithStatus(Old(d), a.param)
  <2>1. \A d : \/ a.param = NoParam /\ Process(a, d, outbound) = ErrorButGoOn(d)
               \/ a.param # NoParam /\ New(d) = Old(d) /\ Process(a, d, outbound) = GoOn(d)
               \/ a.param # NoParam /\ New(d) # Old(d) /\ Process(a, d, outbound) = GoOn(FlagsChanged(WithFlags(d, New(d))))
    <3> TAKE d
    <3> DEFINE e == FlagsChanged([d EXCEPT !.item.flags = New(d)])
    <3>1. Process(a, d, outbound) = SetStatus(a, d)
      BY <1>9 DEF Process
    <3>2. SetStatus(a, d) = CASE a.param = NoParam -> ErrorButGoOn(d)
                              [] a.param # NoParam /\ New(d) = Old(d) -> GoOn(d)
                              [] OTHER -> GoOn(e)
      BY Zenon DEF SetStatus
    <3>3. e = FlagsChanged(WithFlags(d, New(d)))
      BY Zenon DEF WithFlags
    <3> HIDE DEF e, New, Old
    <3>4. QED
      BY <3>1, <3>2, <3>3
  <2>2. Old(whole) = Old(c) /\ New(whole) = New(c)
    BY <1>2
  <2> HIDE DEF Old, New
  <2>3. QED
    BY <2>1, <2>2, AllOfOne, AllOfMessageChanges DEF whole
<1>10. CASE a.type = "unset status"
  <2> DEFINE old == c.item.flags
  <2>1. old \in SUBSET Flags
    BY <1>1 DEF IsMessage
  <2>2. \A d : Process(a, d, outbound) =
                 CASE a.param = NoParam -> ErrorButGoOn(d)
                   [] a.param = "unread" /\ d.item.flags \ {"keyword"} # {"read"} ->
                        GoOn(FlagsChanged(WithFlags(d, {"read"})))
                   [] a.param \in d.item.flags -> GoOn(FlagsChanged(WithFlags(d, d.item.flags \ {a.param})))
                   [] OTHER -> GoOn(d)
    <3>1. \A d : Process(a, d, outbound) = UnsetStatus(a, d)
      BY <1>10 DEF Process
    <3>2. QED
      BY <3>1, Zenon DEF UnsetStatus, WithFlags
  <2>3. \A d \in {c, whole} :
          Process(a, d, outbound) =
            CASE a.param = NoParam -> ErrorButGoOn(d)
              [] a.param = "unread" /\ old \ {"keyword"} # {"read"} -> GoOn(FlagsChanged(WithFlags(d, {"read"})))
              [] a.param \in old -> GoOn(FlagsChanged(WithFlags(d, old \ {a.param})))
              [] OTHER -> GoOn(d)
    BY <1>2, <2>2
  <2> HIDE DEF old
  <2>4. a.param \in old => a.param # NoParam /\ a.param # "unread"
    BY <2>1 DEF Flags, NoParam
  <2>5. CASE a.param = NoParam
    <3>1. \A d \in {c, whole} : Process(a, d, outbound) = ErrorButGoOn(d)
      BY <2>3, <2>4, <2>5 DEF NoParam
    <3>2. QED
      BY <3>1, AllOfOne DEF whole
  <2>6. CASE a.param = "unread" /\ old \ {"keyword"} # {"read"}
    <3>1. \A d \in {c, whole} : Process(a, d, outbound) = GoOn(FlagsChanged(WithFlags(d, {"read"})))
      BY <2>3, <2>4, <2>6 DEF NoParam
    <3>2. QED
      BY <3>1, AllOfOne, AllOfMessageChanges DEF whole
  <2>7. CASE a.param \in old
    <3>1. \A d \in {c, whole} : Process(a, d, outbound) = GoOn(FlagsChanged(WithFlags(d, old \ {a.param})))
      BY <2>3, <2>4, <2>7
    <3>2. QED
      BY <3>1, AllOfOne, AllOfMessageChanges DEF whole
  <2>8. CASE a.param # NoParam /\ ~(a.param = "unread" /\ old \ {"keyword"} # {"read"}) /\ a.param \notin old
    <3>1. \A d \in {c, whole} : Process(a, d, outbound) = GoOn(d)
      BY <2>3, <2>8
    <3>2. QED
      BY <3>1, AllOfOne DEF whole
  <2>9. QED
    BY <2>5, <2>6, <2>7, <2>8
<1>11. QED
  BY <1>3, <1>4, <1>5, <1>6, <1>7, <1>8, <1>9, <1>10 DEF EnvelopeActions

(* What has been fetched suffices for an action that needs no more. *)
LEMMA ActionSuffices ==
  ASSUME NEW a, IsAction(a), NEW c, IsContext(c), NEW outbound \in BOOLEAN,
         ActionPart(a) = Complete => c.full = TRUE /\ c.item.part = Complete
  PROVE  AllOfEach(Process(a, c, outbound)) = Process(a, AllOf(c), outbound)
<1>1. CASE a.type \in EnvelopeActions
  BY <1>1, EnvelopeSuffices
<1>2. CASE a.type \notin EnvelopeActions
  <2>1. c.full = TRUE /\ c.item.part = Complete
    BY <1>2 DEF ActionPart
  <2> DEFINE S == Process(a, c, outbound)
  <2>2. Sound(S, c)
    BY <2>1, ActionsKeep
  <2> HIDE DEF S
  <2>3. \A o \in S : Outcome(o.code, AllOf(o.context)) = o
    BY <2>1, <2>2, AllOfContext DEF Sound, Kept
  <2>4. AllOfEach(S) = S
    BY <2>3 DEF AllOfEach
  <2>5. AllOf(c) = c
    BY <2>1, AllOfContext
  <2>6. QED
    BY <2>4, <2>5 DEF S
<1>3. QED
  BY <1>1, <1>2
-----------------------------------------------------------------------------
(* The inductive invariant. *)
Shape ==
  /\ IsList(filters, IsFilter) /\ account \in Accounts
  /\ IsMessage(message) /\ message.part = Complete /\ IsContext(context)
  /\ phase \in {"new", "filtering", "stored", "failed"}

Control ==
  /\ current \in 0..(Len(filters) + 1) /\ next \in Nat
  /\ phase = "new" => next = 0
  /\ phase # "new" => current # 0
  /\ next # 0 => current \in DOMAIN filters /\ next <= Len(filters[current].actions) + 1

AtWork ==
  next # 0 => filters[current].enabled = TRUE /\ account \in filters[current].accounts

StopsKept ==
  phase = "filtering" /\ current \in DOMAIN filters =>
    \A i \in 1..(current - 1) : ~(Unconditional(filters[i]) /\ filters[i].stop = TRUE)

EnoughFetched ==
  phase = "filtering" =>
    /\ context.full = TRUE <=> context.item.part = Complete
    /\ \A i \in DOMAIN filters : RequiredPart(filters[i], account) <= context.item.part

Marked ==
  phase = "filtering" =>
    /\ Tracks(message, context.item, context.storeFlags, context.storePayload)
    /\ context.storePayload = TRUE => context.full = TRUE

FilterInv ==
  /\ Shape /\ Control /\ AtWork /\ StopsKept /\ EnoughFetched /\ Marked /\ ChangesAreStored

(* What the filters' shape says of each of them. *)
LEMMA FilterFacts ==
  ASSUME Shape
  PROVE  /\ Len(filters) \in Nat /\ DOMAIN filters = 1..Len(filters)
         /\ \A i \in DOMAIN filters :
              /\ IsFilter(filters[i])
              /\ Len(filters[i].actions) \in Nat
              /\ DOMAIN filters[i].actions = 1..Len(filters[i].actions)
              /\ \A j \in DOMAIN filters[i].actions : IsAction(filters[i].actions[j])
              /\ IsList(filters[i].pattern.rules, IsRule)
<1>1. IsList(filters, IsFilter)
  BY DEF Shape
<1>2. Len(filters) \in Nat /\ DOMAIN filters = 1..Len(filters) /\ \A i \in DOMAIN filters : IsFilter(filters[i])
  BY <1>1 DEF IsList, ToSet
<1>3. ASSUME NEW i \in DOMAIN filters
      PROVE  /\ Len(filters[i].actions) \in Nat
             /\ DOMAIN filters[i].actions = 1..Len(filters[i].actions)
             /\ \A j \in DOMAIN filters[i].actions : IsAction(filters[i].actions[j])
             /\ IsList(filters[i].pattern.rules, IsRule)
  <2>1. IsList(filters[i].actions, IsAction) /\ IsList(filters[i].pattern.rules, IsRule)
    BY <1>2 DEF IsFilter
  <2>2. QED
    BY <2>1 DEF IsList, ToSet
<1>4. QED
  BY <1>2, <1>3

(* A new context marks nothing. *)
LEMMA NewContext ==
  ASSUME NEW m, IsMessage(m), NEW full \in BOOLEAN
  PROVE  /\ IsContext(ContextOf(m, full)) /\ ContextOf(m, full).item = m /\ ContextOf(m, full).full = full
         /\ ContextOf(m, full).storeFlags = FALSE /\ ContextOf(m, full).storePayload = FALSE
BY DEF ContextOf, IsContext, IsCtx, Ctx

(* Fetching a part of a message changes nothing in it. *)
LEMMA PartFetched ==
  ASSUME NEW m, IsMessage(m), NEW part \in Parts
  PROVE  /\ IsMessage([m EXCEPT !.part = part]) /\ [m EXCEPT !.part = part].part = part
         /\ Tracks(m, [m EXCEPT !.part = part], FALSE, FALSE)
BY DEF IsMessage, Tracks, Parts

(* At the start nothing has been fetched. *)
LEMMA InvInit == Init => FilterInv
<1>1. SUFFICES ASSUME Init PROVE FilterInv
  OBVIOUS
<1>2. IsList(filters, IsFilter) /\ account \in Accounts /\ IsMessage(message) /\ message.part = Complete
  BY <1>1, FilterAssumption, MessageAssumption DEF Init
<1>3. IsContext(context)
  BY <1>1, <1>2, NewContext DEF Init
<1>4. Shape
  BY <1>1, <1>2, <1>3 DEF Init, Shape
<1>5. Control
  BY <1>1, <1>4, FilterFacts DEF Init, Control
<1>6. AtWork /\ StopsKept /\ EnoughFetched /\ Marked /\ ChangesAreStored
  BY <1>1 DEF Init, AtWork, StopsKept, EnoughFetched, Marked, ChangesAreStored
<1>7. QED
  BY <1>4, <1>5, <1>6 DEF FilterInv

(* The agent fetches the largest part any filter needs. *)
LEMMA FetchKeeps ==
  ASSUME FilterInv, Fetch
  PROVE  FilterInv'
<1>1. PICK part \in {Envelope, Header, Complete} :
        Fetched(part) /\ context' = ContextOf([message EXCEPT !.part = part], part = Complete)
  BY DEF Fetch
<1> DEFINE m == [message EXCEPT !.part = part]
<1>2. PICK full \in BOOLEAN : full <=> part = Complete
  OBVIOUS
<1>3. IsMessage(m) /\ m.part = part /\ Tracks(message, m, FALSE, FALSE)
  BY PartFetched DEF FilterInv, Shape, Parts
<1>4. context' = ContextOf(m, full)
  BY <1>1, <1>2
<1> HIDE DEF m
<1>5. /\ IsContext(context') /\ context'.item = m /\ context'.full = full
      /\ context'.storeFlags = FALSE /\ context'.storePayload = FALSE
  BY <1>3, <1>4, NewContext
<1>6. Shape'
  BY <1>5 DEF FilterInv, Shape, Fetch
<1>7. Control' /\ AtWork' /\ StopsKept'
  BY FilterFacts DEF FilterInv, Control, AtWork, StopsKept, Fetch
<1>8. EnoughFetched'
  <2>1. \A i \in DOMAIN filters : RequiredPart(filters[i], account) <= part
    BY <1>1, FetchedSuffices
  <2>2. context'.full = TRUE <=> context'.item.part = Complete
    BY <1>2, <1>3, <1>5
  <2>3. QED
    BY <1>3, <1>5, <2>1, <2>2 DEF EnoughFetched, Fetch
<1>9. Marked'
  BY <1>3, <1>5 DEF Marked, Fetch
<1>10. ChangesAreStored'
  BY DEF ChangesAreStored, Fetch
<1>11. QED
  BY <1>6, <1>7, <1>8, <1>9, <1>10 DEF FilterInv

(* A filter that matches is due; one that is passed over was not due for   *)
(* every message.                                                          *)
LEMMA MatchKeeps ==
  ASSUME FilterInv, Match
  PROVE  FilterInv'
<1>1. Shape /\ Control /\ Shape'
  BY DEF FilterInv, Shape, Match
<1>2. current \in DOMAIN filters
  BY <1>1, FilterFacts DEF Control, Match
<1> DEFINE f == filters[current]
<1>3. IsFilter(f) /\ f.enabled \in BOOLEAN /\ f.stop \in BOOLEAN
  BY <1>1, <1>2, FilterFacts DEF IsFilter
<1>4. EnoughFetched' /\ Marked' /\ ChangesAreStored'
  BY DEF FilterInv, EnoughFetched, Marked, ChangesAreStored, Match
<1>5. CASE Applied(f, context.item)
  <2>1. next' = 1 /\ current' = current
    BY <1>5 DEF Match
  <2>2. f.enabled = TRUE /\ account \in f.accounts
    BY <1>3, <1>5 DEF Applied, ApplyOnAccount
  <2>3. Control'
    BY <1>1, <1>2, <2>1, FilterFacts DEF Control, Match
  <2>4. AtWork' /\ StopsKept'
    BY <2>1, <2>2 DEF FilterInv, AtWork, StopsKept, Match, Unconditional
  <2>5. QED
    BY <1>1, <1>4, <2>3, <2>4 DEF FilterInv
<1>6. CASE ~Applied(f, context.item)
  <2>1. next' = 0 /\ current' = current + 1
    BY <1>6 DEF Match
  <2>2. Control' /\ AtWork'
    BY <1>1, <1>2, <2>1, FilterFacts DEF Control, AtWork, Match
  <2>3. ~Unconditional(f)
    BY <1>6 DEF Unconditional, Applied, ApplyOnAccount, PatternMatches
  <2>4. StopsKept'
    BY <1>1, <1>2, <2>1, <2>3, FilterFacts DEF FilterInv, StopsKept, Match, Unconditional, Control
  <2>5. QED
    BY <1>1, <1>4, <2>2, <2>4 DEF FilterInv
<1>7. QED
  BY <1>5, <1>6

(* The action at work, and that what it needs has been fetched. *)
LEMMA ActionAtWork ==
  ASSUME FilterInv, phase = "filtering", next > 0, next <= Len(filters[current].actions)
  PROVE  /\ IsAction(filters[current].actions[next]) /\ IsContext(context)
         /\ ActionPart(filters[current].actions[next]) = Complete =>
              context.full = TRUE /\ context.item.part = Complete
<1> DEFINE f == filters[current]
           a == f.actions[next]
<1>1. Shape /\ Control /\ AtWork /\ EnoughFetched
  BY DEF FilterInv
<1>2. current \in DOMAIN filters /\ next \in DOMAIN f.actions
  BY <1>1, FilterFacts DEF Control
<1>3. IsAction(a)
  BY <1>1, <1>2, FilterFacts
<1>4. f.enabled = TRUE /\ ApplyOnAccount(f, account)
  BY <1>1 DEF AtWork, ApplyOnAccount, Control
<1>5. ActionPart(a) <= RequiredPart(f, account) /\ RequiredPart(f, account) \in Parts
  BY <1>2, <1>4, RequiredPartSuffices
<1>6. RequiredPart(f, account) <= context.item.part
  BY <1>1, <1>2 DEF EnoughFetched
<1>7. context.item.part \in Parts /\ ActionPart(a) \in Parts
  BY <1>1 DEF Shape, IsContext, IsMessage, Parts, ActionPart
<1> HIDE DEF a, f
<1>8. ActionPart(a) <= context.item.part
  BY <1>5, <1>6, <1>7, PartsAreOrdered
<1>9. ActionPart(a) = Complete => context.item.part = Complete
  BY <1>7, <1>8 DEF Parts, Envelope, Header, Complete
<1>10. IsAction(a) /\ IsContext(context) /\ (ActionPart(a) = Complete => context.full = TRUE /\ context.item.part = Complete)
  BY <1>1, <1>3, <1>9 DEF EnoughFetched, Shape
<1>11. QED
  BY <1>10 DEF a, f

(* An action leaves the context sound, by ActionsKeep. *)
LEMMA ExecActionKeeps ==
  ASSUME FilterInv, ExecAction
  PROVE  FilterInv'
<1> DEFINE a == filters[current].actions[next]
<1>1. /\ phase = "filtering" /\ next > 0 /\ next <= Len(filters[current].actions)
      /\ UNCHANGED <<filters, account, message, current>>
  BY DEF ExecAction
<1>2. PICK o \in Process(a, context, Outbound) :
        /\ context' = o.context
        /\ IF o.code = "CriticalError" THEN phase' = "failed" /\ UNCHANGED next
           ELSE next' = next + 1 /\ UNCHANGED phase
  BY DEF ExecAction
<1>3. Sound(Process(a, context, Outbound), context)
  BY <1>1, ActionAtWork, ActionsKeep, OutboundAssumption
<1>4. Kept(context, context') /\ IsContext(context) /\ IsContext(context')
  BY <1>2, <1>3 DEF Sound, FilterInv, Shape, Kept
<1>5. Shape'
  BY <1>1, <1>2, <1>4 DEF FilterInv, Shape
<1>6. Control /\ Shape
  BY DEF FilterInv
<1>7. Control'
  BY <1>1, <1>2, <1>6, FilterFacts DEF Control
<1>8. AtWork' /\ StopsKept'
  BY <1>1, <1>2 DEF FilterInv, AtWork, StopsKept, Unconditional
<1>9. EnoughFetched'
  BY <1>1, <1>2, <1>4 DEF FilterInv, EnoughFetched, Kept
<1>10. Marked'
  <2>1. Tracks(message, context.item, context.storeFlags, context.storePayload)
    BY <1>1 DEF FilterInv, Marked
  <2>2. /\ context'.storeFlags = FALSE => context.storeFlags = FALSE
        /\ context'.storePayload = FALSE => context.storePayload = FALSE
    BY <1>4 DEF Kept, IsContext
  <2>3. Tracks(message, context'.item, context'.storeFlags, context'.storePayload)
    BY <1>4, <2>1, <2>2 DEF Tracks, Kept
  <2>4. context'.storePayload = TRUE => context'.full = TRUE
    BY <1>1, <1>4 DEF FilterInv, Marked, Kept
  <2>5. QED
    BY <1>1, <2>3, <2>4 DEF Marked
<1>11. ChangesAreStored'
  BY <1>1, <1>2 DEF ChangesAreStored
<1>12. QED
  BY <1>5, <1>7, <1>8, <1>9, <1>10, <1>11 DEF FilterInv

(* The next filter is reached only if this one does not stop. *)
LEMMA EndActionsKeeps ==
  ASSUME FilterInv, EndActions
  PROVE  FilterInv'
<1> DEFINE f == filters[current]
<1>1. Shape /\ Control /\ Shape' /\ f.stop \in BOOLEAN /\ current \in DOMAIN filters
  <2>1. Shape /\ Control
    BY DEF FilterInv
  <2>2. Shape'
    BY <2>1 DEF Shape, EndActions
  <2>3. current \in DOMAIN filters
    BY <2>1 DEF Control, EndActions
  <2>4. f.stop \in BOOLEAN
    BY <2>1, <2>3, FilterFacts DEF IsFilter
  <2>5. QED
    BY <2>1, <2>2, <2>3, <2>4
<1>2. /\ next' = 0 /\ phase = "filtering" /\ UNCHANGED <<filters, account, message, context, phase>>
      /\ current' = IF f.stop THEN Len(filters) + 1 ELSE current + 1
  BY DEF EndActions
<1>3. Control' /\ AtWork'
  BY <1>1, <1>2, FilterFacts DEF Control, AtWork
<1>4. StopsKept'
  <2>1. CASE f.stop = TRUE
    BY <1>1, <1>2, <2>1, FilterFacts DEF StopsKept
  <2>2. CASE f.stop = FALSE
    BY <1>1, <1>2, <2>2, FilterFacts DEF FilterInv, StopsKept, Control, Unconditional
  <2>3. QED
    BY <1>1, <2>1, <2>2
<1>5. EnoughFetched' /\ Marked' /\ ChangesAreStored'
  BY <1>2 DEF FilterInv, EnoughFetched, Marked, ChangesAreStored
<1>6. QED
  BY <1>1, <1>3, <1>4, <1>5 DEF FilterInv

(* What the agent stores. *)
AllSet(m, flags, tags, mdn) == [m EXCEPT !.flags = flags, !.tags = tags, !.heads["mdn"] = mdn]
MdnSet(m, mdn) == [m EXCEPT !.heads["mdn"] = mdn]

(* A message that has another's text, and gets its flags, is the other.    *)
LEMMA AllIsSet ==
  ASSUME NEW m, NEW n, IsMessage(n), NEW flags, NEW tags, NEW heads, heads = [h \in Heads |-> heads[h]],
         \A h \in Heads \ {"mdn"} : heads[h] = n.heads[h],
         m = [part |-> n.part, text |-> n.text, flags |-> flags, tags |-> tags, heads |-> heads,
              crypt |-> n.crypt, size |-> n.size, age |-> n.age, date |-> n.date,
              known |-> n.known, attached |-> n.attached]
  PROVE  AllSet(m, n.flags, n.tags, n.heads["mdn"]) = n
<1> DEFINE Message(v, w, z) ==
             [part |-> n.part, text |-> n.text, flags |-> v, tags |-> w, heads |-> z, crypt |-> n.crypt,
              size |-> n.size, age |-> n.age, date |-> n.date, known |-> n.known, attached |-> n.attached]
<1>1. FlagsSet(m, n.flags) = Message(n.flags, tags, heads)
  BY DEF FlagsSet
<1>2. TagsSet(FlagsSet(m, n.flags), n.tags) = Message(n.flags, n.tags, heads)
  BY <1>1 DEF TagsSet
<1>3. [heads EXCEPT !["mdn"] = n.heads["mdn"]] = n.heads
  <2>1. n.heads = [h \in Heads |-> n.heads[h]] /\ "mdn" \in Heads
    BY DEF IsMessage, Heads
  <2>2. QED
    BY <2>1
<1>4. MdnSet(TagsSet(FlagsSet(m, n.flags), n.tags), n.heads["mdn"]) = Message(n.flags, n.tags, n.heads)
  BY <1>2, <1>3 DEF MdnSet
<1>5. AllSet(m, n.flags, n.tags, n.heads["mdn"])
        = MdnSet(TagsSet(FlagsSet(m, n.flags), n.tags), n.heads["mdn"])
  BY Zenon DEF AllSet, MdnSet, FlagsSet, TagsSet
<1>6. n = Message(n.flags, n.tags, n.heads)
  BY DEF IsMessage
<1>7. QED
  BY <1>4, <1>5, <1>6

(* What the marks say is to be stored makes the message as the filters     *)
(* left it.                                                                *)
LEMMA StoredIsAll ==
  ASSUME NEW m, IsMessage(m), m.part = Complete, NEW c, IsContext(c),
         Tracks(m, c.item, c.storeFlags, c.storePayload), c.storePayload = TRUE => c.full = TRUE,
         NEW payload \in BOOLEAN, payload <=> c.storePayload = TRUE /\ c.full = TRUE,
         NEW sent, sent = IF payload THEN WithPayload(m, c.item) ELSE m
  PROVE  AllSet(sent, IF c.storeFlags THEN c.item.flags ELSE sent.flags,
                      IF c.storeFlags THEN c.item.tags ELSE sent.tags,
                      IF c.storeFlags THEN c.item.heads["mdn"] ELSE sent.heads["mdn"])
           = Whole(c.item)
<1> DEFINE n == Whole(c.item)
<1>1. /\ IsMessage(n) /\ n.part = m.part /\ n.text = c.item.text /\ n.flags = c.item.flags
      /\ n.tags = c.item.tags /\ n.heads = c.item.heads /\ n.crypt = c.item.crypt
      /\ n.size = c.item.size /\ n.age = c.item.age /\ n.date = c.item.date
      /\ n.known = c.item.known /\ n.attached = c.item.attached
  BY WholeMessage DEF IsContext
<1> HIDE DEF n
<1>2. c.storeFlags \in BOOLEAN /\ (payload <=> c.storePayload = TRUE) /\ c.storePayload \in BOOLEAN
  BY DEF IsContext
<1>3. m.heads = [h \in Heads |-> m.heads[h]] /\ n.heads = [h \in Heads |-> n.heads[h]] /\ "mdn" \in Heads
  BY <1>1 DEF IsMessage, Heads
<1> DEFINE heads == IF payload THEN [h \in Heads |-> IF h = "mdn" THEN m.heads[h] ELSE n.heads[h]] ELSE m.heads
<1>4. sent = [part |-> n.part, text |-> n.text, flags |-> m.flags, tags |-> m.tags, heads |-> heads,
              crypt |-> n.crypt, size |-> n.size, age |-> n.age, date |-> n.date,
              known |-> n.known, attached |-> n.attached]
  <2>1. n.size = m.size
    BY <1>1 DEF Tracks
  <2>2. CASE payload
    <3>1. sent = WithPayload(m, c.item) /\ DOMAIN m.heads = Heads
      BY <1>3, <2>2
    <3>2. heads = [h \in DOMAIN m.heads |-> IF h = "mdn" THEN m.heads[h] ELSE c.item.heads[h]]
      BY <1>1, <2>2, <3>1
    <3> HIDE DEF heads
    <3>3. QED
      BY <1>1, <2>1, <3>1, <3>2 DEF WithPayload
  <2>3. CASE ~payload
    <3>1. heads = m.heads /\ sent = m
      BY <2>3
    <3> HIDE DEF heads
    <3>2. /\ n.text = m.text /\ n.crypt = m.crypt /\ n.age = m.age /\ n.date = m.date
          /\ n.known = m.known /\ n.attached = m.attached
      BY <1>1, <1>2, <2>3 DEF Tracks
    <3>3. QED
      BY <1>1, <2>1, <3>1, <3>2 DEF IsMessage
  <2>4. QED
    BY <2>2, <2>3
<1>5. heads = [h \in Heads |-> heads[h]] /\ \A h \in Heads \ {"mdn"} : heads[h] = n.heads[h]
  <2>1. CASE payload
    BY <2>1
  <2>2. CASE ~payload
    BY <1>1, <1>2, <1>3, <2>2 DEF Tracks
  <2>3. QED
    BY <2>1, <2>2
<1>6. heads["mdn"] = m.heads["mdn"]
  BY <1>3
<1> HIDE DEF heads
<1>7. /\ (IF c.storeFlags THEN c.item.flags ELSE sent.flags) = n.flags
      /\ (IF c.storeFlags THEN c.item.tags ELSE sent.tags) = n.tags
      /\ (IF c.storeFlags THEN c.item.heads["mdn"] ELSE sent.heads["mdn"]) = n.heads["mdn"]
  <2>1. sent.flags = m.flags /\ sent.tags = m.tags /\ sent.heads = heads
    BY <1>4
  <2>2. CASE c.storeFlags
    BY <1>1, <2>2
  <2>3. CASE ~c.storeFlags
    BY <1>1, <1>2, <1>6, <2>1, <2>3 DEF Tracks
  <2>4. QED
    BY <2>2, <2>3
<1>8. AllSet(sent, n.flags, n.tags, n.heads["mdn"]) = n
  BY <1>1, <1>4, <1>5, AllIsSet
<1>9. QED
  BY <1>7, <1>8, Zenon DEF n

(* The agent stores what is marked. *)
LEMMA StoreKeeps ==
  ASSUME FilterInv, Store
  PROVE  FilterInv'
<1>1. Shape /\ Control /\ phase = "filtering" /\ IsContext(context) /\ IsMessage(message) /\ message.part = Complete
  BY DEF FilterInv, Shape, Store
<1>2. /\ Tracks(message, context.item, context.storeFlags, context.storePayload)
      /\ context.storePayload = TRUE => context.full = TRUE
  BY <1>1 DEF FilterInv, Marked
<1>3. PICK payload \in BOOLEAN : payload <=> context.storePayload = TRUE /\ context.full = TRUE
  OBVIOUS
<1>4. payload <=> context.storePayload /\ context.full
  BY <1>1, <1>3 DEF IsContext
<1>5. UNCHANGED <<filters, account, context, current, next>> /\ phase' = "stored"
  BY DEF Store
<1>6. message' = IF context.delete THEN message ELSE Whole(context.item)
  <2> DEFINE sent == IF payload THEN WithPayload(message, context.item) ELSE message
             new == AllSet(sent, IF context.storeFlags THEN context.item.flags ELSE sent.flags,
                                 IF context.storeFlags THEN context.item.tags ELSE sent.tags,
                                 IF context.storeFlags THEN context.item.heads["mdn"] ELSE sent.heads["mdn"])
  <2>1. new = Whole(context.item)
    <3> HIDE DEF sent
    <3>1. sent = IF payload THEN WithPayload(message, context.item) ELSE message
      BY DEF sent
    <3>2. QED
      BY <1>1, <1>2, <1>3, <3>1, StoredIsAll
  <2>2. message' = IF context.delete THEN message ELSE new
    <3>1. (context.storePayload /\ context.full) = payload
      BY <1>4
    <3>2. QED
      BY <3>1, Zenon DEF Store, AllSet
  <2> HIDE DEF new
  <2>3. QED
    BY <2>1, <2>2
<1>7. IsMessage(message') /\ message'.part = Complete
  BY <1>1, <1>6, WholeMessage DEF IsContext
<1>8. Shape'
  BY <1>1, <1>5, <1>7 DEF Shape
<1>9. Control' /\ AtWork' /\ StopsKept' /\ EnoughFetched' /\ Marked'
  BY <1>1, <1>5 DEF FilterInv, Control, AtWork, StopsKept, EnoughFetched, Marked
<1>10. ChangesAreStored'
  <2>1. (AllOf(context).item)' = Whole(context.item)
    BY <1>1, <1>5, AllOfContext
  <2>2. context.delete \in BOOLEAN
    BY <1>1 DEF IsContext
  <2>3. QED
    BY <1>5, <1>6, <2>1, <2>2 DEF ChangesAreStored
<1>11. QED
  BY <1>8, <1>9, <1>10 DEF FilterInv

(* Every step keeps the invariant. *)
LEMMA InvStep == FilterInv /\ [Next]_vars => FilterInv'
<1>1. SUFFICES ASSUME FilterInv, [Next]_vars PROVE FilterInv'
  OBVIOUS
<1>2. CASE UNCHANGED vars
  BY <1>1, <1>2 DEF vars, FilterInv, Shape, Control, AtWork, StopsKept, EnoughFetched, Marked,
                    ChangesAreStored, Unconditional
<1>3. QED
  BY <1>1, <1>2, FetchKeeps, MatchKeeps, ExecActionKeeps, EndActionsKeeps, StoreKeeps DEF Next

(* Control, marks and fetched parts are as FilterInv says in every         *)
(* reachable state: for all lists of filters and all messages              *)
(* (mailfilter.cpp, itemcontext.cpp).                                      *)
THEOREM FilterInvHolds == Spec => []FilterInv
BY InvInit, InvStep, PTL DEF Spec

(* What the filters did is on the server when the message has been         *)
(* filtered: whichever actions there are, with whatever parameters, each   *)
(* marks what it changes (mailfilter.cpp, filteractions/).                 *)
THEOREM StoredIsComplete == Spec => []ChangesAreStored
<1>1. FilterInv => ChangesAreStored
  BY DEF FilterInv
<1>2. QED
  BY <1>1, FilterInvHolds, PTL

(* No filter works that is not due, or behind one that was due for every   *)
(* message and stops the filtering.                                        *)
THEOREM StopIsKept == Spec => []NoneBehindTheStop
<1>1. ASSUME FilterInv PROVE NoneBehindTheStop
  <2>1. Shape /\ Control /\ AtWork /\ StopsKept
    BY <1>1 DEF FilterInv
  <2>2. TypeOK
    <3>1. IsMessage(message) /\ IsMessage(context.item)
      BY <2>1 DEF Shape, IsContext
    <3>2. message.flags \subseteq Flags /\ (\A f \in Fields : message.text[f] \in Texts)
          /\ context.item.tags \subseteq Tags /\ context.item.flags \subseteq Flags
      BY <3>1 DEF IsMessage
    <3>3. \A i \in DOMAIN filters : \A r \in ToSet(filters[i].pattern.rules) : r.func \in Functions
      BY <2>1, FilterFacts DEF IsList, IsRule
    <3>4. /\ current \in 0..(Len(filters) + 1)
          /\ next # 0 => current \in DOMAIN filters /\ next <= Len(filters[current].actions) + 1
      BY <2>1 DEF Control
    <3>5. QED
      BY <2>1, <3>2, <3>3, <3>4 DEF TypeOK, Shape
  <2>3. phase = "filtering" /\ next > 0 =>
          /\ filters[current].enabled /\ account \in filters[current].accounts
          /\ \A i \in 1..(current - 1) : ~(Unconditional(filters[i]) /\ filters[i].stop)
    <3>1. SUFFICES ASSUME phase = "filtering", next > 0
                   PROVE  /\ filters[current].enabled /\ account \in filters[current].accounts
                          /\ \A i \in 1..(current - 1) : ~(Unconditional(filters[i]) /\ filters[i].stop)
      OBVIOUS
    <3>2. current \in DOMAIN filters /\ DOMAIN filters = 1..Len(filters) /\ Len(filters) \in Nat
      BY <2>1, <3>1, FilterFacts DEF Control
    <3>3. filters[current].enabled /\ account \in filters[current].accounts
      BY <2>1, <3>1 DEF AtWork, Control
    <3>4. ASSUME NEW i \in 1..(current - 1) PROVE ~(Unconditional(filters[i]) /\ filters[i].stop)
      <4>1. i \in DOMAIN filters
        BY <3>2, <3>4
      <4>2. filters[i].stop \in BOOLEAN
        BY <2>1, <4>1, FilterFacts DEF IsFilter
      <4>3. ~(Unconditional(filters[i]) /\ filters[i].stop = TRUE)
        BY <2>1, <3>1, <3>2, <3>4 DEF StopsKept
      <4>4. QED
        BY <4>2, <4>3
    <3>5. QED
      BY <3>3, <3>4
  <2>4. QED
    BY <2>2, <2>3 DEF NoneBehindTheStop
<1>2. QED
  BY <1>1, FilterInvHolds, PTL

(* What requiredPart() asks for is enough: with the rest of the message    *)
(* no filter would match otherwise, and no action do otherwise.            *)
THEOREM FetchIsEnough == Spec => []FetchSuffices
<1>1. ASSUME FilterInv PROVE FetchSuffices
  <2>1. Shape /\ Control /\ AtWork /\ EnoughFetched /\ IsContext(context)
    BY <1>1 DEF FilterInv, Shape
  <2>2. ASSUME phase = "filtering", next = 0, current \in DOMAIN filters
        PROVE  Applied(filters[current], context.item) <=> Applied(filters[current], AllOf(context).item)
    <3> DEFINE f == filters[current]
               m == context.item
    <3>1. CASE f.enabled /\ ApplyOnAccount(f, account)
      <4>1. PatternPart(f.pattern) <= RequiredPart(f, account) /\ RequiredPart(f, account) \in Parts
        BY <3>1, RequiredPartSuffices
      <4>2. RequiredPart(f, account) <= m.part
        BY <2>1, <2>2 DEF EnoughFetched
      <4>3. m.part \in Parts /\ PatternPart(f.pattern) \in Parts /\ IsMessage(m)
        BY <2>1, PatternPartSuffices DEF IsContext, IsMessage, Parts
      <4>4. PatternPart(f.pattern) <= m.part
        BY <4>1, <4>2, <4>3, PartsAreOrdered
      <4>5. IsList(f.pattern.rules, IsRule)
        BY <2>1, <2>2, FilterFacts
      <4>6. PatternMatches(f.pattern, Whole(m)) <=> PatternMatches(f.pattern, m)
        BY <4>3, <4>4, <4>5, PatternsMatchAlike
      <4>7. AllOf(context).item = Whole(m)
        BY <2>1, AllOfContext
      <4>8. QED
        BY <4>6, <4>7 DEF Applied
    <3>2. CASE ~(f.enabled /\ ApplyOnAccount(f, account))
      BY <3>2 DEF Applied
    <3>3. QED
      BY <3>1, <3>2
  <2>3. ASSUME phase = "filtering", next > 0, next \in DOMAIN filters[current].actions
        PROVE  AllOfEach(Process(filters[current].actions[next], context, Outbound))
                 = Process(filters[current].actions[next], AllOf(context), Outbound)
    <3>1. next <= Len(filters[current].actions)
      <4>1. current \in DOMAIN filters
        BY <2>1, <2>3 DEF Control
      <4>2. QED
        BY <2>1, <2>3, <4>1, FilterFacts
    <3>2. QED
      BY <1>1, <2>1, <2>3, <3>1, ActionAtWork, ActionSuffices, OutboundAssumption
  <2>4. QED
    BY <2>2, <2>3 DEF FetchSuffices, AllOfEach
<1>2. QED
  BY <1>1, FilterInvHolds, PTL

-----------------------------------------------------------------------------
(* What patterns mean.                                                     *)

(* All of a message's text can be read when all of it is there.            *)
LEMMA AllTextIsThere ==
  ASSUME NEW m, IsMessage(m), m.part = Complete
  PROVE  /\ \A f \in Fields : Text(m, f) = m.text[f] /\ m.text[f] \in Texts
         /\ \A f : f \notin Fields => Text(m, f) = NoText
BY DEF IsMessage, Text, Covers, Fields, Complete, Header

(* Who starts, ends or is the same as something contains it.               *)
LEMMA TextsContain ==
  ASSUME NEW t \in Texts, t \cap {"starts", "ends", "same", "angled"} # {}
  PROVE  "contains" \in t
BY DEF Texts

(* What a text that is found has in it ...                                 *)
LEMMA TextFound ==
  ASSUME NEW f, f.neg = FALSE, NEW t, TextMatches(f, t)
  PROVE  /\ t # NoText
         /\ f.test \in {"contains", "regexp"} => "contains" \in t
         /\ f.test = "equals" => "same" \in t
         /\ f.test = "start-with" => "starts" \in t
         /\ f.test = "end-with" => "ends" \in t
<1>0. f.neg \in BOOLEAN /\ ~f.neg
  OBVIOUS
<1>1. CASE f.test \in {"contains", "regexp"}
  BY <1>0, <1>1 DEF TextMatches
<1>2. CASE f.test = "equals"
  BY <1>0, <1>2 DEF TextMatches
<1>3. CASE f.test = "start-with"
  BY <1>0, <1>3 DEF TextMatches
<1>4. CASE f.test = "end-with"
  BY <1>0, <1>4 DEF TextMatches
<1>5. QED
  BY <1>0, <1>1, <1>2, <1>3, <1>4 DEF TextMatches

(* ... and what one that is not lacks.                                     *)
LEMMA TextNotFound ==
  ASSUME NEW f, f.neg = TRUE, NEW t, TextMatches(f, t)
  PROVE  /\ t # NoText
         /\ f.test = "contains" => "contains" \notin t
         /\ f.test = "equals" => "same" \notin t
<1>0. f.neg \in BOOLEAN /\ f.neg
  OBVIOUS
<1>1. CASE f.test = "contains"
  BY <1>0, <1>1 DEF TextMatches
<1>2. CASE f.test = "equals"
  BY <1>0, <1>2 DEF TextMatches
<1>3. QED
  BY <1>0, <1>1, <1>2 DEF TextMatches

(* Nothing but what it contains, how it starts and ends is in several.     *)
LEMMA JointText ==
  ASSUME NEW S, NEW a, NEW b
  PROVE  /\ Joint(S, a, b) # NoText /\ "same" \notin Joint(S, a, b)
         /\ "contains" \in Joint(S, a, b) => \E t \in S : "contains" \in t
<1>1. \A x : x \in Joint(S, a, b) <=>
             \/ \E t \in S : x \in t /\ x = "contains"
             \/ x \in a /\ x = "starts"
             \/ x \in b /\ x = "ends"
  BY DEF Joint
<1>2. "empty" \notin Joint(S, a, b)
  BY <1>1
<1>3. Joint(S, a, b) # NoText
  BY <1>2 DEF NoText
<1>4. "same" \notin Joint(S, a, b)
  BY <1>1
<1>5. "contains" \in Joint(S, a, b) => \E t \in S : "contains" \in t
  BY <1>1
<1>6. QED
  BY <1>3, <1>4, <1>5

(* What is asked of several texts by a function that is not negated ...    *)
LEMMA TextAsked ==
  ASSUME NEW f, f.neg = FALSE, f.test \in {"contains", "equals", "start-with", "end-with"}, NEW T,
         f.test # "equals" => \E t \in T : "contains" \in t,
         f.test = "equals" => \E t \in T : "same" \in t
  PROVE  TextQuery(f, T)
<1>1. Negated(f) \in BOOLEAN /\ ~Negated(f)
  BY DEF Negated
<1>2. CASE f.test = "equals"
  BY <1>1, <1>2 DEF TextQuery
<1>3. CASE f.test # "equals"
  BY <1>1, <1>3 DEF TextQuery
<1>4. QED
  BY <1>2, <1>3

(* ... and by one that is.                                                 *)
LEMMA TextNotAsked ==
  ASSUME NEW f, f.neg = TRUE, f.test \in {"contains", "equals"}, NEW T,
         f.test # "equals" => \A t \in T : "contains" \notin t,
         f.test = "equals" => \A t \in T : "same" \notin t
  PROVE  TextQuery(f, T)
<1>1. Negated(f) \in BOOLEAN /\ Negated(f)
  BY DEF Negated
<1>2. CASE f.test = "equals"
  BY <1>1, <1>2 DEF TextQuery
<1>3. CASE f.test # "equals"
  BY <1>1, <1>3 DEF TextQuery
<1>4. QED
  BY <1>2, <1>3

(* Everything of a message that a rule on several texts looks at.          *)
Sources(field) ==
  CASE field = "<recipients>" -> {"to", "cc", "bcc"}
    [] field = "<message>"    -> Fields
    [] OTHER                  -> Fields \ {"body"}

(* A rule on several fields, which asks for a text in one of them.         *)
LEMMA SeveralAreFound ==
  ASSUME NEW m, IsMessage(m), m.part = Complete, NEW r, r.func.neg = FALSE,
         r.func.test \in {"contains", "equals"}, StringMatches(r, m),
         r.field \in {"<recipients>", "<message>", "<any header>"}
  PROVE  StringQuery(r, m)
<1>1. /\ \A f \in Fields : Text(m, f) = m.text[f] /\ m.text[f] \in Texts
      /\ \A f : f \notin Fields => Text(m, f) = NoText
  BY AllTextIsThere
<1> DEFINE F == Sources(r.field)
           T == {m.text[g] : g \in F}
<1>2. F \subseteq Fields
  BY DEF Sources, Fields
<1>3. StringQuery(r, m) <=> TextQuery(r.func, T)
  BY DEF StringQuery, Sources
<1>4. CASE r.field = "<recipients>" /\ r.func.test = "equals"
  <2>1. PICK f \in {"to", "cc", "bcc"} : TextMatches(r.func, Text(m, f))
    BY <1>4 DEF StringMatches
  <2>2. f \in F /\ f \in Fields
    BY <1>4, <1>2 DEF Sources
  <2>3. "same" \in m.text[f]
    BY <1>1, <1>4, <2>1, <2>2, TextFound
  <2>4. \E t \in T : "same" \in t
    BY <2>2, <2>3
  <2>5. QED
    BY <1>3, <1>4, <2>4, TextAsked
<1>5. CASE ~(r.field = "<recipients>" /\ r.func.test = "equals")
  <2> DEFINE Of(S) == \A t \in S : \E f \in F : t = Text(m, f)
  <2>1. PICK S, a, b : TextMatches(r.func, Joint(S, a, b)) /\ Of(S)
    <3>1. CASE r.field = "<recipients>"
      <4>1. TextMatches(r.func, Joint({Text(m, f) : f \in {"to", "cc", "bcc"}}, Text(m, "to"), Text(m, "bcc")))
        BY <1>5, <3>1 DEF StringMatches
      <4>2. Of({Text(m, f) : f \in {"to", "cc", "bcc"}})
        BY <3>1 DEF Sources
      <4>3. QED
        BY <4>1, <4>2
    <3>2. CASE r.field = "<message>"
      <4>1. TextMatches(r.func, Joint({Text(m, f) : f \in Fields} \ {NoText}, {}, Text(m, "body")))
        BY <3>2 DEF StringMatches
      <4>2. Of({Text(m, f) : f \in Fields} \ {NoText})
        BY <3>2 DEF Sources
      <4>3. QED
        BY <4>1, <4>2
    <3>3. CASE r.field = "<any header>"
      <4>1. TextMatches(r.func, Joint({Text(m, f) : f \in Fields \ {"body"}} \ {NoText}, {}, {}))
        BY <3>3 DEF StringMatches
      <4>2. Of({Text(m, f) : f \in Fields \ {"body"}} \ {NoText})
        BY <3>3 DEF Sources
      <4>3. QED
        BY <4>1, <4>2
    <3>4. QED
      BY <3>1, <3>2, <3>3
  <2>2. "same" \notin Joint(S, a, b) /\ ("contains" \in Joint(S, a, b) => \E t \in S : "contains" \in t)
    BY JointText
  <2>3. r.func.test = "contains" /\ "contains" \in Joint(S, a, b)
    BY <2>1, <2>2, TextFound
  <2>4. PICK t \in S : "contains" \in t
    BY <2>2, <2>3
  <2>5. PICK f \in F : t = Text(m, f)
    BY <2>1
  <2>6. \E u \in T : "contains" \in u
    BY <1>1, <1>2, <2>4, <2>5
  <2>7. QED
    BY <1>3, <2>3, <2>6, TextAsked
<1>6. QED
  BY <1>4, <1>5

(* A rule on one field.                                                    *)
LEMMA OneIsFound ==
  ASSUME NEW m, IsMessage(m), m.part = Complete, NEW r, r.func \in Functions, StringMatches(r, m),
         r.func.test \in {"contains", "equals", "start-with", "end-with"},
         r.func.test \in {"start-with", "end-with"} => r.func.neg = FALSE,
         r.field \notin {"<recipients>", "<message>", "<any header>", "<tag>"}
  PROVE  StringQuery(r, m)
<1>1. /\ \A f \in Fields : Text(m, f) = m.text[f] /\ m.text[f] \in Texts
      /\ \A f : f \notin Fields => Text(m, f) = NoText
  BY AllTextIsThere
<1> DEFINE g == IF r.field = "<body>" THEN "body" ELSE r.field
<1>2. \/ TextMatches(r.func, Text(m, g))
      \/ r.func.test = "end-with" /\ "angled" \in Text(m, g)
  BY DEF StringMatches
<1>3. StringQuery(r, m) <=> TextQuery(r.func, {m.text[g]})
  BY DEF StringQuery
<1> HIDE DEF g
<1>4. Text(m, g) # NoText
  BY <1>2 DEF TextMatches, NoText
<1>5. g \in Fields
  BY <1>1, <1>4
<1>6. PICK t \in Texts : t = m.text[g]
  BY <1>1, <1>5
<1>7. TextMatches(r.func, t) \/ (r.func.test = "end-with" /\ "angled" \in t)
  BY <1>1, <1>2, <1>5, <1>6
<1>8. CASE r.func.neg = TRUE
  <2>1. r.func.test \in {"contains", "equals"} /\ TextMatches(r.func, t)
    BY <1>7, <1>8
  <2>2. /\ r.func.test = "contains" => "contains" \notin t
        /\ r.func.test = "equals" => "same" \notin t
    BY <1>8, <2>1, TextNotFound
  <2>3. TextQuery(r.func, {t})
    <3> DEFINE T == {t}
    <3>1. /\ r.func.test # "equals" => \A u \in T : "contains" \notin u
          /\ r.func.test = "equals" => \A u \in T : "same" \notin u
      BY <2>1, <2>2
    <3> HIDE DEF T
    <3>2. TextQuery(r.func, T)
      BY <1>8, <2>1, <3>1, TextNotAsked
    <3>3. QED
      BY <3>2 DEF T
  <2>4. QED
    BY <1>3, <1>6, <2>3
<1>9. CASE r.func.neg = FALSE
  <2>1. /\ r.func.test = "contains" => "contains" \in t
        /\ r.func.test = "equals" => "same" \in t
        /\ r.func.test = "start-with" => "starts" \in t
        /\ r.func.test = "end-with" => "ends" \in t \/ "angled" \in t
    BY <1>7, <1>9, TextFound
  <2>2. t \cap {"starts", "ends", "same", "angled"} # {} => "contains" \in t
    BY TextsContain
  <2>3. r.func.test # "equals" => "contains" \in t
    BY <2>1, <2>2
  <2>4. TextQuery(r.func, {t})
    BY <1>9, <2>1, <2>3, TextAsked
  <2>5. QED
    BY <1>3, <1>6, <2>4
<1>10. QED
  BY <1>8, <1>9 DEF Functions

(* The rules that a search folder is right to ask: it finds what they      *)
(* match.                                                                  *)
LEMMA SearchFindsMatch ==
  ASSUME NEW m, IsMessage(m), m.part = Complete, NEW r, IsRule(r), Searchable(r), RuleMatches(r, m)
  PROVE  RuleQuery(r, m)
<1>0. r.func.test \in Tests /\ r.func.neg \in BOOLEAN
  BY DEF IsRule, Functions
<1>1. r.func.test \in {"contains", "equals"} => Negated(r.func) = r.func.neg
  BY <1>0 DEF Negated
<1>2. CASE r.field = "<status>"
  <2>1. r.func.test \in {"equals", "contains"} /\ HasStatus(m, r.contents) # r.func.neg
    BY <1>2 DEF RuleMatches, StatusMatches
  <2>2. CASE r.contents = "unread"
    <3>1. ("read" \notin m.flags) # r.func.neg
      BY <2>1, <2>2 DEF HasStatus
    <3>2. ("read" \in m.flags) # ~Negated(r.func)
      BY <1>0, <1>1, <2>1, <3>1
    <3>3. QED
      BY <1>2, <2>2, <3>2 DEF RuleQuery, StatusQuery
  <2>3. CASE r.contents # "unread"
    <3>1. (r.contents \in m.flags) # Negated(r.func)
      BY <1>1, <2>1, <2>3 DEF HasStatus
    <3>2. QED
      BY <1>2, <2>3, <3>1 DEF RuleQuery, StatusQuery
  <2>4. QED
    BY <2>2, <2>3
<1>3. CASE r.field \in {"<attachment>", "<invitation>"}
  <2> DEFINE flag == IF r.field = "<attachment>" THEN "attachment" ELSE "invitation"
  <2>1. r.func.test = "equals" /\ (flag \in m.flags) # r.func.neg
    BY <1>3 DEF RuleMatches, AttachmentMatches, InvitationMatches
  <2>2. RuleQuery(r, m) <=> FlagQuery(r, m, flag)
    BY <1>3 DEF RuleQuery
  <2> HIDE DEF flag
  <2>3. QED
    BY <1>1, <2>1, <2>2 DEF FlagQuery
<1>4. CASE r.field \in {"<size>", "<date>"}
  BY <1>4 DEF RuleMatches, RuleQuery, NumberQuery, DateMatches
<1>5. CASE r.field \notin {"<status>", "<attachment>", "<invitation>", "<size>", "<date>"}
  <2>1. /\ r.field \notin {"<encryption>", "<age in days>", "<tag>"}
        /\ r.func.test \in {"contains", "equals", "start-with", "end-with"}
        /\ r.func.test \in {"start-with", "end-with"} => ~r.func.neg
        /\ r.field \in {"<recipients>", "<message>", "<any header>"} =>
             r.func.test \in {"contains", "equals"} /\ ~r.func.neg
    BY <1>5 DEF Searchable, Fields
  <2>2. StringMatches(r, m)
    BY <1>5, <2>1 DEF RuleMatches
  <2>3. StringQuery(r, m)
    <3>1. CASE r.field \in {"<recipients>", "<message>", "<any header>"}
      <4>1. r.func.neg = FALSE /\ r.func.test \in {"contains", "equals"}
        BY <1>0, <2>1, <3>1
      <4>2. QED
        BY <2>2, <3>1, <4>1, SeveralAreFound
    <3>2. CASE r.field \notin {"<recipients>", "<message>", "<any header>"}
      <4>1. r.func.test \in {"start-with", "end-with"} => r.func.neg = FALSE
        BY <1>0, <2>1
      <4>2. /\ r.field \notin {"<recipients>", "<message>", "<any header>", "<tag>"}
            /\ r.func.test \in {"contains", "equals", "start-with", "end-with"}
        BY <2>1, <3>2
      <4>3. QED
        BY <2>2, <4>1, <4>2, OneIsFound DEF IsRule
    <3>3. QED
      BY <3>1, <3>2
  <2>4. QED
    BY <1>5, <2>1, <2>3 DEF RuleQuery
<1>6. QED
  BY <1>2, <1>3, <1>4, <1>5

(* Filters and search folders.                                             *)
LEMMA FoundWhereMatched ==
  ASSUME Shape
  PROVE  FoundIfMatched
<1> SUFFICES ASSUME NEW i \in DOMAIN filters,
                    filters[i].pattern.rules # << >>, filters[i].pattern.op # "all",
                    \A j \in DOMAIN filters[i].pattern.rules : Searchable(filters[i].pattern.rules[j]),
                    PatternMatches(filters[i].pattern, message)
             PROVE  PatternFinds(filters[i].pattern, message)
  BY DEF FoundIfMatched
<1> DEFINE p == filters[i].pattern
<1>1. IsMessage(message) /\ message.part = Complete
  BY DEF Shape
<1>2. p.rules \in Seq(ToSet(p.rules)) /\ \A j \in DOMAIN p.rules : IsRule(p.rules[j])
  BY FilterFacts DEF Shape, IsList, ToSet
<1>3. \A j \in DOMAIN p.rules : RuleMatches(p.rules[j], message) => RuleQuery(p.rules[j], message)
  BY <1>1, <1>2, SearchFindsMatch
<1>4. Asked(p) = DOMAIN p.rules
  BY DEF Asked, Searchable, Fields
<1>5. CASE p.op = "and"
  <2>1. DOMAIN p.rules # {}
    BY <1>2
  <2>2. QED
    BY <1>3, <1>4, <1>5, <2>1 DEF PatternMatches, PatternFinds
<1>6. CASE p.op = "or"
  BY <1>3, <1>4, <1>6 DEF PatternMatches, PatternFinds
<1>7. QED
  BY <1>5, <1>6 DEF PatternMatches

(* The other rule of the pair.                                             *)
LEMMA InvertedRule ==
  ASSUME NEW r, IsRule(r), r.func.test # "none"
  PROVE  /\ Inverted(r) = [field |-> r.field, func |-> Inverted(r).func, contents |-> r.contents]
         /\ Inverted(r).func \in Functions /\ Inverted(r).func.test = r.func.test
         /\ r.func.neg = FALSE => Inverted(r).func.neg = TRUE
         /\ r.func.neg = TRUE => Inverted(r).func.neg = FALSE
<1> DEFINE At(test) == CASE test = "contains"       -> 1  [] test = "equals"         -> 3
                         [] test = "regexp"         -> 5  [] test = "greater"        -> 7
                         [] test = "less"           -> 9  [] test = "in-addressbook" -> 11
                         [] test = "has-attachment" -> 15 [] test = "start-with"     -> 17
                         [] test = "end-with"       -> 19
            Other(f) == IF f.neg THEN Is(f.test) ELSE IsNot(f.test)
            i == CHOOSE j \in DOMAIN Enumerators : Enumerators[j] = r.func
            k == IF r.func.neg THEN At(r.func.test) + 1 ELSE At(r.func.test)
<1>1. r.func \in Functions /\ r.func.test \in Tests \ {"none"} /\ r.func.neg \in BOOLEAN
      /\ r.func = [test |-> r.func.test, neg |-> r.func.neg]
  BY DEF IsRule, Functions
<1>2. DOMAIN Enumerators = 1..22
  BY DEF Enumerators
<1>3. /\ \A test \in Tests \ {"none"} :
           /\ At(test) \in {1, 3, 5, 7, 9, 11, 15, 17, 19}
           /\ Enumerators[At(test)] = Is(test) /\ Enumerators[At(test) + 1] = IsNot(test)
  BY DEF Tests, Enumerators
<1>4. \A j \in 1..22 : Enumerators[j] = r.func => j = k
  BY <1>1 DEF Enumerators, Is, IsNot, Tests
<1> HIDE DEF At
<1>5. k \in 1..22 /\ Enumerators[k] = r.func
  <2>1. /\ At(r.func.test) \in {1, 3, 5, 7, 9, 11, 15, 17, 19}
        /\ Enumerators[At(r.func.test)] = Is(r.func.test)
        /\ Enumerators[At(r.func.test) + 1] = IsNot(r.func.test)
    BY <1>1, <1>3
  <2>2. CASE r.func.neg = TRUE
    <3>1. k = At(r.func.test) + 1
      BY <2>2
    <3>2. r.func = IsNot(r.func.test)
      BY <1>1, <2>2 DEF IsNot
    <3> HIDE DEF k
    <3>3. Enumerators[k] = r.func
      BY <2>1, <3>1, <3>2, Zenon
    <3>4. k \in 1..22
      BY <2>1, <3>1
    <3>5. QED
      BY <3>3, <3>4
  <2>3. CASE r.func.neg = FALSE
    <3>1. k = At(r.func.test)
      BY <2>3
    <3>2. r.func = Is(r.func.test)
      BY <1>1, <2>3 DEF Is
    <3> HIDE DEF k
    <3>3. Enumerators[k] = r.func
      BY <2>1, <3>1, <3>2, Zenon
    <3>4. k \in 1..22
      BY <2>1, <3>1
    <3>5. QED
      BY <3>3, <3>4
  <2>4. QED
    BY <1>1, <2>2, <2>3
<1>6. i = k
  <2> HIDE DEF k
  <2>1. QED
    BY <1>2, <1>4, <1>5
<1>7. Enumerators[IF k % 2 = 1 THEN k + 1 ELSE k - 1] = Other(r.func)
  <2>1. At(r.func.test) \in {1, 3, 5, 7, 9, 11, 15, 17, 19}
    BY <1>1, <1>3
  <2>2. CASE r.func.neg
    <3>1. k = At(r.func.test) + 1
      BY <2>2
    <3>2. k % 2 = 0 /\ k - 1 = At(r.func.test)
      BY <2>1, <3>1
    <3>3. QED
      BY <1>1, <1>3, <2>2, <3>2
  <2>3. CASE ~r.func.neg
    <3>1. k = At(r.func.test)
      BY <2>3
    <3>2. k % 2 = 1
      BY <2>1, <3>1
    <3>3. QED
      BY <1>1, <1>3, <2>3, <3>1, <3>2
  <2>4. QED
    BY <2>2, <2>3
<1> HIDE DEF i, k
<1>8. Inverted(r) = [r EXCEPT !.func = Other(r.func)]
  <2>1. Inverted(r) = [r EXCEPT !.func = Enumerators[IF i % 2 = 1 THEN i + 1 ELSE i - 1]]
    BY Zenon DEF Inverted, i
  <2>2. QED
    BY <1>6, <1>7, <2>1, Zenon
<1>9. Other(r.func) \in Functions /\ Other(r.func).test = r.func.test
      /\ (r.func.neg = FALSE => Other(r.func).neg = TRUE) /\ (r.func.neg = TRUE => Other(r.func).neg = FALSE)
  BY <1>1 DEF Is, IsNot, Functions
<1> HIDE DEF Other
<1>10. Inverted(r) = [field |-> r.field, func |-> Other(r.func), contents |-> r.contents]
  BY <1>8 DEF IsRule
<1>11. QED
  BY <1>9, <1>10

(* Of a function and its opposite one matches a text that is there.        *)
LEMMA OppositeTexts ==
  ASSUME NEW f, f.neg = FALSE, NEW g, g.neg = TRUE, g.test = f.test,
         f.test \in {"contains", "equals", "regexp", "start-with"}, NEW t, t # NoText
  PROVE  TextMatches(f, t) <=> ~TextMatches(g, t)
<1> DEFINE sought == CASE f.test \in {"contains", "regexp"} -> "contains"
                       [] f.test = "equals" -> "same"
                       [] OTHER -> "starts"
<1>1. TextMatches(f, t) <=> sought \in t
  <2>0. f.neg \in BOOLEAN /\ ~f.neg
    OBVIOUS
  <2>1. CASE f.test \in {"contains", "regexp"}
    BY <2>0, <2>1 DEF TextMatches
  <2>2. CASE f.test = "equals"
    BY <2>0, <2>2 DEF TextMatches
  <2>3. CASE f.test = "start-with"
    BY <2>0, <2>3 DEF TextMatches
  <2>4. QED
    BY <2>1, <2>2, <2>3
<1>2. TextMatches(g, t) <=> sought \notin t
  <2>0. g.neg \in BOOLEAN /\ g.neg
    OBVIOUS
  <2>1. CASE f.test \in {"contains", "regexp"}
    BY <2>0, <2>1 DEF TextMatches
  <2>2. CASE f.test = "equals"
    BY <2>0, <2>2 DEF TextMatches
  <2>3. CASE f.test = "start-with"
    BY <2>0, <2>3 DEF TextMatches
  <2>4. QED
    BY <2>1, <2>2, <2>3
<1>3. QED
  BY <1>1, <1>2

(* Of a function and its opposite one matches a number.                    *)
LEMMA OppositeNumbers ==
  ASSUME NEW f, f.neg = FALSE, NEW g, g.neg = TRUE, g.test = f.test,
         f.test \in {"equals", "greater", "less"}, NEW n
  PROVE  NumberMatches(f, n) <=> ~NumberMatches(g, n)
<1> DEFINE so == CASE f.test = "equals" -> n = 0 [] f.test = "greater" -> n > 0 [] OTHER -> n < 0
<1>1. NumberMatches(f, n) <=> so
  <2>0. f.neg \in BOOLEAN /\ ~f.neg
    OBVIOUS
  <2>1. CASE f.test = "equals"
    BY <2>0, <2>1 DEF NumberMatches
  <2>2. CASE f.test = "greater"
    BY <2>0, <2>2 DEF NumberMatches
  <2>3. CASE f.test = "less"
    BY <2>0, <2>3 DEF NumberMatches
  <2>4. QED
    BY <2>1, <2>2, <2>3
<1>2. NumberMatches(g, n) <=> ~so
  <2>0. g.neg \in BOOLEAN /\ g.neg
    OBVIOUS
  <2>1. CASE f.test = "equals"
    BY <2>0, <2>1 DEF NumberMatches
  <2>2. CASE f.test = "greater"
    BY <2>0, <2>2 DEF NumberMatches
  <2>3. CASE f.test = "less"
    BY <2>0, <2>3 DEF NumberMatches
  <2>4. QED
    BY <2>1, <2>2, <2>3
<1>3. QED
  BY <1>1, <1>2

(* The text that a string rule is about.                                   *)
TextOf(field, m) ==
  CASE field = "<message>"    -> Joint({Text(m, f) : f \in Fields} \ {NoText}, {}, Text(m, "body"))
    [] field = "<any header>" -> Joint({Text(m, f) : f \in Fields \ {"body"}} \ {NoText}, {}, {})
    [] field = "<recipients>" -> Joint({Text(m, f) : f \in {"to", "cc", "bcc"}}, Text(m, "to"), Text(m, "bcc"))
    [] OTHER                  -> Text(m, IF field = "<body>" THEN "body" ELSE field)

LEMMA StringRuleMatches ==
  ASSUME NEW m, NEW r, r.func.test \in {"contains", "equals", "regexp", "start-with"},
         ~(r.field = "<recipients>" /\ r.func.test = "equals"), r.field # "<tag>"
  PROVE  StringMatches(r, m) <=> TextMatches(r.func, TextOf(r.field, m))
<1>1. CASE r.field = "<message>"
  BY <1>1 DEF StringMatches, TextOf
<1>2. CASE r.field = "<any header>"
  BY <1>2 DEF StringMatches, TextOf
<1>3. CASE r.field = "<recipients>"
  BY <1>3 DEF StringMatches, TextOf
<1>4. CASE r.field = "<body>"
  BY <1>4 DEF StringMatches, TextOf
<1>5. CASE r.field \notin {"<message>", "<any header>", "<recipients>", "<body>"}
  BY <1>5 DEF StringMatches, TextOf
<1>6. QED
  BY <1>1, <1>2, <1>3, <1>4, <1>5

(* Of two rules of a pair one matches, if the functions are opposites.     *)
LEMMA OppositeRules ==
  ASSUME NEW m, IsMessage(m), m.part = Complete, NEW a, IsRule(a), a.func.neg = FALSE,
         NEW b, IsRule(b), b.func.neg = TRUE,
         b.field = a.field, b.contents = a.contents, b.func.test = a.func.test,
         ~RuleIsEmpty(a), Opposed(a, m)
  PROVE  RuleMatches(a, m) <=> ~RuleMatches(b, m)
<1>0. a.func.neg \in BOOLEAN /\ ~a.func.neg /\ b.func.neg \in BOOLEAN /\ b.func.neg
  OBVIOUS
<1>1. CASE a.field = "<status>"
  <2>1. a.func.test \in {"contains", "equals"}
    BY <1>1 DEF Opposed
  <2>2. StatusMatches(a, m) <=> HasStatus(m, a.contents)
    BY <1>0, <2>1 DEF StatusMatches, HasStatus
  <2>3. StatusMatches(b, m) <=> ~HasStatus(m, a.contents)
    BY <1>0, <2>1 DEF StatusMatches, HasStatus
  <2>4. QED
    BY <1>1, <2>2, <2>3 DEF RuleMatches
<1>2. CASE a.field \in {"<size>", "<age in days>", "<date>"}
  <2>1. a.func.test \in {"equals", "greater", "less"}
    BY <1>2 DEF Opposed
  <2>2. \A n : NumberMatches(a.func, n) <=> ~NumberMatches(b.func, n)
    BY <2>1, OppositeNumbers
  <2>3. QED
    BY <1>2, <2>2 DEF RuleMatches, DateMatches
<1>3. CASE a.field = "<encryption>"
  <2>1. a.func.test = "equals"
    BY <1>3 DEF Opposed
  <2> DEFINE f == [test |-> "equals", neg |-> FALSE]
  <2>2. a.func = f /\ b.func # f
    BY <1>0, <2>1 DEF IsRule, Functions
  <2>3. IsEncrypted(m) \in BOOLEAN
    BY DEF IsEncrypted
  <2>4. EncryptionMatches(a, m) <=> IsEncrypted(m)
    BY <2>2, <2>3 DEF EncryptionMatches
  <2>5. EncryptionMatches(b, m) <=> ~IsEncrypted(m)
    BY <2>2, <2>3 DEF EncryptionMatches
  <2>6. QED
    BY <1>3, <2>4, <2>5 DEF RuleMatches
<1>4. CASE a.field = "<attachment>"
  <2>1. a.func.test = "equals"
    BY <1>4 DEF Opposed
  <2>2. AttachmentMatches(a, m) <=> "attachment" \in m.flags
    BY <1>0, <2>1 DEF AttachmentMatches
  <2>3. AttachmentMatches(b, m) <=> "attachment" \notin m.flags
    BY <1>0, <2>1 DEF AttachmentMatches
  <2>4. QED
    BY <1>4, <2>2, <2>3 DEF RuleMatches
<1>5. CASE a.field = "<invitation>"
  <2>1. a.func.test = "equals"
    BY <1>5 DEF Opposed
  <2>2. InvitationMatches(a, m) <=> "invitation" \in m.flags
    BY <1>0, <2>1 DEF InvitationMatches
  <2>3. InvitationMatches(b, m) <=> "invitation" \notin m.flags
    BY <1>0, <2>1 DEF InvitationMatches
  <2>4. QED
    BY <1>5, <2>2, <2>3 DEF RuleMatches
<1>6. CASE a.field \notin {"<status>", "<size>", "<age in days>", "<date>", "<encryption>",
                         "<attachment>", "<invitation>"}
  <2>1. (RuleMatches(a, m) <=> StringMatches(a, m)) /\ (RuleMatches(b, m) <=> StringMatches(b, m))
    BY <1>6 DEF RuleMatches, RuleIsEmpty
  <2>2. CASE a.func.test = "has-attachment"
    <3>1. m.attached \in BOOLEAN
      BY DEF IsMessage
    <3>2. a.field = "<message>"
      BY <2>2 DEF IsRule
    <3>3. StringMatches(a, m) <=> m.attached
      BY <1>0, <2>2, <3>1, <3>2 DEF StringMatches
    <3>4. StringMatches(b, m) <=> ~m.attached
      BY <1>0, <2>2, <3>1, <3>2 DEF StringMatches
    <3>5. QED
      BY <2>1, <3>3, <3>4
  <2>3. CASE a.func.test # "has-attachment"
    <3>1. /\ a.func.test \in {"contains", "equals", "regexp", "start-with"}
          /\ ~(a.field = "<recipients>" /\ a.func.test = "equals")
          /\ a.field \notin {"<message>", "<any header>", "<recipients>"} =>
               Text(m, IF a.field = "<body>" THEN "body" ELSE a.field) # NoText
      <4>1. CASE a.field \in {"<message>", "<any header>", "<recipients>"}
        BY <2>3, <4>1 DEF Opposed
      <4>2. CASE a.field \notin {"<message>", "<any header>", "<recipients>"}
        BY <1>6, <4>2 DEF Opposed
      <4>3. QED
        BY <4>1, <4>2
    <3>2. a.field # "<tag>"
      <4>1. SUFFICES ASSUME a.field = "<tag>" PROVE Text(m, a.field) = NoText
        BY <3>1
      <4>2. QED
        BY <4>1, AllTextIsThere DEF Fields
    <3>3. /\ StringMatches(a, m) <=> TextMatches(a.func, TextOf(a.field, m))
          /\ StringMatches(b, m) <=> TextMatches(b.func, TextOf(a.field, m))
      <4>1. \A r \in {a, b} : /\ r.func.test \in {"contains", "equals", "regexp", "start-with"}
                              /\ ~(r.field = "<recipients>" /\ r.func.test = "equals") /\ r.field # "<tag>"
        BY <3>1, <3>2
      <4>2. \A r \in {a, b} : StringMatches(r, m) <=> TextMatches(r.func, TextOf(r.field, m))
        BY <4>1, StringRuleMatches
      <4>3. QED
        BY <4>2
    <3>4. TextOf(a.field, m) # NoText
      <4>1. CASE a.field \in {"<message>", "<any header>", "<recipients>"}
        BY <4>1, JointText DEF TextOf
      <4>2. CASE a.field \notin {"<message>", "<any header>", "<recipients>"}
        BY <3>1, <4>2 DEF TextOf
      <4>3. QED
        BY <4>1, <4>2
    <3>5. TextMatches(a.func, TextOf(a.field, m)) <=> ~TextMatches(b.func, TextOf(a.field, m))
      BY <3>1, <3>4, OppositeTexts
    <3>6. QED
      BY <2>1, <3>3, <3>5
  <2>4. QED
    BY <2>2, <2>3
<1>7. QED
  BY <1>1, <1>2, <1>3, <1>4, <1>5, <1>6

(* Reading a rule of old the other way round means not.                    *)
LEMMA InvertedMeansNot ==
  ASSUME NEW m, IsMessage(m), m.part = Complete, NEW r, IsRule(r), ~RuleIsEmpty(r), Opposed(r, m)
  PROVE  RuleMatches(Inverted(r), m) <=> ~RuleMatches(r, m)
<1> DEFINE b == Inverted(r)
<1>0. r.func.test # "none"
  BY DEF Opposed
<1>1. /\ b.field = r.field /\ b.contents = r.contents /\ b.func.test = r.func.test
      /\ r.func.neg = FALSE => b.func.neg = TRUE
      /\ r.func.neg = TRUE => b.func.neg = FALSE
  <2>1. /\ b = [field |-> r.field, func |-> b.func, contents |-> r.contents]
        /\ b.func.test = r.func.test
        /\ r.func.neg = FALSE => b.func.neg = TRUE
        /\ r.func.neg = TRUE => b.func.neg = FALSE
    BY <1>0, InvertedRule
  <2> HIDE DEF b
  <2>2. b.field = r.field /\ b.contents = r.contents
    BY <2>1
  <2>3. QED
    BY <2>1, <2>2
<1>2. IsRule(b)
  <2>1. b.func \in Functions /\ b = [field |-> r.field, func |-> b.func, contents |-> r.contents]
    BY <1>0, InvertedRule
  <2> HIDE DEF b
  <2>2. QED
    BY <1>1, <2>1 DEF IsRule
<1> HIDE DEF b
<1>3. ~RuleIsEmpty(b)
  BY <1>1, Zenon DEF RuleIsEmpty
<1>4. Opposed(b, m)
  BY <1>1, Zenon DEF Opposed
<1>5. CASE r.func.neg = FALSE
  <2>1. RuleMatches(r, m) <=> ~RuleMatches(b, m)
    BY <1>1, <1>2, <1>5, OppositeRules
  <2>2. QED
    BY <2>1 DEF b
<1>6. CASE r.func.neg = TRUE
  <2>1. RuleMatches(b, m) <=> ~RuleMatches(r, m)
    BY <1>1, <1>2, <1>3, <1>4, <1>6, OppositeRules
  <2>2. QED
    BY <2>1 DEF b
<1>7. QED
  BY <1>5, <1>6 DEF IsRule, Functions

(* Filters of old.                                                         *)
LEMMA UnlessIsNot ==
  ASSUME Shape
  PROVE  UnlessMeansNot
<1> SUFFICES ASSUME NEW i \in DOMAIN filters, NEW rules, rules = filters[i].pattern.rules,
                    Len(rules) = 2, ~RuleIsEmpty(rules[1]), ~RuleIsEmpty(rules[2]), Opposed(rules[2], message)
             PROVE  PatternMatches(LegacyRead(rules[1], "unless", rules[2]), message)
                      <=> RuleMatches(rules[1], message) /\ ~RuleMatches(rules[2], message)
  BY DEF UnlessMeansNot
<1>1. IsMessage(message) /\ message.part = Complete
  BY DEF Shape
<1>2. IsRule(rules[2])
  <2>1. IsList(rules, IsRule)
    BY FilterFacts
  <2>2. 2 \in DOMAIN rules
    BY <2>1 DEF IsList
  <2>3. QED
    BY <2>1, <2>2 DEF IsList, ToSet
<1>3. RuleMatches(Inverted(rules[2]), message) <=> ~RuleMatches(rules[2], message)
  BY <1>1, <1>2, InvertedMeansNot
<1> DEFINE p == [op |-> "and", rules |-> <<rules[1], Inverted(rules[2])>>]
<1>4. LegacyRead(rules[1], "unless", rules[2]) = p
  BY DEF LegacyRead
<1>5. PatternMatches(p, message) <=>
        RuleMatches(rules[1], message) /\ RuleMatches(Inverted(rules[2]), message)
  BY DEF PatternMatches
<1>6. QED
  BY <1>3, <1>4, <1>5

(* What a pattern means does not depend on who asks: a search folder with  *)
(* the pattern finds what the filter matches, and a filter of old, read    *)
(* today, matches what it matched (asAkonadiQuery(), importLegacyConfig()). *)
THEOREM PatternsMeanTheSame == Spec => []PatternsAgree
<1>1. FilterInv => PatternsAgree
  BY FoundWhereMatched, UnlessIsNot DEF FilterInv, PatternsAgree
<1>2. QED
  BY <1>1, FilterInvHolds, PTL
=============================================================================
