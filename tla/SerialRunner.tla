---------------------------- MODULE SerialRunner ----------------------------
(***************************************************************************)
(* What the scheduler promises its clients, without queue, timer or        *)
(* counters: every task object goes through one life, at most one of them  *)
(* runs at any time, and a task that is gone never comes back.             *)
(***************************************************************************)
EXTENDS FiniteSets, Naturals

CONSTANT Tasks  \* identities of the task objects

VARIABLE stage  \* where in its life each task is

Stages == {"unborn", "waiting", "running", "gone"}

(* A task may be run, merged into another or dropped as soon as it is      *)
(* registered; a running one may be interrupted and has to wait again.     *)
Moves ==
  {<<"unborn", "waiting">>, <<"unborn", "running">>, <<"unborn", "gone">>,
   <<"waiting", "running">>, <<"waiting", "gone">>,
   <<"running", "waiting">>, <<"running", "gone">>}

In(s)       == {t \in Tasks : stage[t] = s}
AtMostOne(S) == \A x, y \in S : x = y

Init == stage = [t \in Tasks |-> "unborn"]

Next ==
  /\ stage' \in [Tasks -> Stages]
  /\ \A t \in Tasks : stage'[t] # stage[t] => <<stage[t], stage'[t]>> \in Moves
  /\ AtMostOne(In("running")')
  /\ AtMostOne({t \in Tasks : stage[t] = "unborn" /\ stage'[t] # "unborn"})

Spec == Init /\ [][Next]_stage
=============================================================================
