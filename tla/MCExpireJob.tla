---------------------------- MODULE MCExpireJob ----------------------------
(***************************************************************************)
(* The small instances of ExpireJob that TLC checks.                       *)
(***************************************************************************)
EXTENDS ExpireJob, TLC

CONSTANTS m1, m2, m3

Today == 13000000  \* some day of 2022
ThreeMessages == {m1, m2, m3}

SameMessages == Permutations(Messages)

Letter(dates) ==
  [payload : {TRUE}, seen : BOOLEAN, important : BOOLEAN, date : dates]
EmptyLetter == [payload |-> FALSE, seen |-> FALSE, important |-> FALSE, date |-> NoDate]

(* Dated before 1970. *)
Ancient(seens) == [payload : {TRUE}, seen : seens, important : {FALSE}, date : {-1}]

(* Mail older than both ages, than the age for read mail only, undated, and *)
(* older than any age.                                                      *)
SomeMail ==
  Letter({Now - 40 * Day, Now - 20 * Day, NoDate}) \cup {EmptyLetter} \cup Ancient(BOOLEAN)

Policy(actions, reads, unreads, targets) ==
  [present : {TRUE}, read : reads, unread : unreads, undated : BOOLEAN,
   action : actions, target : targets]

NoAttribute == [present |-> FALSE, read |-> -1, unread |-> -1, undated |-> FALSE,
                action |-> "delete", target |-> FALSE]

(* Ages that overflow: all mail is expired, and mail of the last millennium. *)
TooLong == 30000
Longer  == 60000

AnyPolicy == Policy({"delete", "move"}, {14}, {28}, BOOLEAN) \cup
                Policy({"delete"}, {14, -1, TooLong, Longer}, {-1}, {FALSE}) \cup {NoAttribute}
=============================================================================
