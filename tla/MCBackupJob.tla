---------------------------- MODULE MCBackupJob ----------------------------
(***************************************************************************)
(* The small instance of BackupJob that TLC checks: a folder with two      *)
(* subfolders, one of them with a subfolder, and up to three messages.     *)
(***************************************************************************)
EXTENDS BackupJob

CONSTANTS top, sub, subsub, other, m1, m2, m3

Tree        == {top, sub, subsub, other}
Family      == [f \in Tree \ {top} |-> IF f = subsub THEN sub ELSE top]
Mailbox     == {m1, m2, m3}
FirstMail   == [f \in Tree |-> CASE f = top -> {m1} [] f = sub -> {m2} [] OTHER -> {}]
NoMail      == [f \in Tree |-> {}]
Nothing     == {}
SizeOne     == [m \in Mailbox |-> 1]
=============================================================================
