---------------------------- MODULE MCScheduler ----------------------------
(***************************************************************************)
(* A scheduler for TLC.  Day 1 is a Tuesday in Python's numbering; days    *)
(* have three to five slots, restore_test and daily are due in slot 1,     *)
(* backup in 2.  Only restore_test has a day of its own.                   *)
(***************************************************************************)
EXTENDS Scheduler, TLC

CONSTANTS daily, backup, restore, c1, c2

MCRank == [j \in Jobs |-> CASE j = daily -> 1 [] j = backup -> 2 [] j = restore -> 3]
MCAt == [j \in Jobs |-> CASE j = daily -> 1 [] j = backup -> 2 [] j = restore -> 1]
MCCronDays == [j \in Jobs |-> CASE j = daily -> {<<1, 5>>}
                                [] j = backup -> {<<0, 6>>}
                                [] j = restore -> {<<3, 3>>}]
=============================================================================
