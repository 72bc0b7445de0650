--------------------------- MODULE MCExpirySystem ---------------------------
(***************************************************************************)
(* The small instances of ExpirySystem that TLC checks.                    *)
(***************************************************************************)
EXTENDS ExpirySystem

CONSTANTS inbox, lists, deleted, m1, m2

AllFolders  == {inbox, deleted}
LiveFolders == {inbox}
TwoFolders  == {inbox, lists}
ExpiryOnly  == {1}
Today == 13000000

OneMessage  == {m1}
TwoMessages == {m1, m2}
Old(seens) == [payload : {TRUE}, seen : seens, important : {FALSE}, date : {Now - 40 * 675}]
OldMail    == Old(BOOLEAN)
UnreadMail == Old({FALSE})

Policy(action, target) ==
  [present : {TRUE}, read : {14}, unread : {28}, undated : {FALSE},
   action : {action}, target : {target}]
DeletePolicy == Policy("delete", FALSE) \cup Policy("move", FALSE)
MovePolicy   == Policy("move", TRUE)
=============================================================================
