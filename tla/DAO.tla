---------------------------------- MODULE DAO ----------------------------------
(***************************************************************************)
(* The treasury of src/src/governance/dao.cpp.  A spending names no        *)
(* proposal: the governance object beside it is not asked.                 *)
(***************************************************************************)
EXTENDS Integers

CONSTANTS Amount,   \* amounts of additions and spendings
          Word,     \* 2^w for the w-bit unsigned integers of the code (2^64)
          MaxAdded  \* bound: what is added in all

VARIABLES treasury, added, spent  \* the last two are history

daoVars == <<treasury, added, spent>>

Init == treasury = 0 /\ added = 0 /\ spent = 0

AddFunds(amount) ==
  /\ added + amount <= MaxAdded
  /\ treasury' = (treasury + amount) % Word
  /\ added' = added + amount
  /\ UNCHANGED spent

\* Mutant: the treasury may be overdrawn.
Overspend(amount) ==
  /\ spent + amount <= 2 * MaxAdded
  /\ treasury' = (treasury - amount) % Word
  /\ spent' = spent + amount
  /\ UNCHANGED added

SpendTreasury(amount) ==
  /\ amount <= treasury
  /\ treasury' = (treasury - amount) % Word
  /\ spent' = spent + amount
  /\ UNCHANGED added

Next == \E a \in Amount : AddFunds(a) \/ SpendTreasury(a)

Spec == Init /\ [][Next]_daoVars

(* The treasury never pays out more than it took in, also when the sum of   *)
(* what it took in does not fit its word, and never creates anything: the  *)
(* rest is what it holds, but for whole words lost to overflow             *)
(* (dao.cpp:4-18).                                                          *)
TreasuryCovered ==
  /\ spent <= added
  /\ treasury <= added - spent
  /\ (added - spent - treasury) % Word = 0
=============================================================================
