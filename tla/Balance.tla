------------------------------- MODULE Balance -------------------------------
(***************************************************************************)
(* The account operations of matchengine/src/me_balance.c.                 *)
(*                                                                         *)
(* dict_balance maps (user, type, asset) to a decimal.  The markets of one *)
(* group settle in one money asset, so an account is a record of its two   *)
(* balance types, AVAILABLE and FREEZE.  The code deletes an entry when it *)
(* reaches zero; an absent entry and a zero one are the same here.         *)
(*                                                                         *)
(* Amounts are integers of the precision the decimals are computed with;   *)
(* a stored balance is rescaled (rounded down) to a multiple of Quantum,   *)
(* the asset's prec_save.  An operation that fails returns NULL in the     *)
(* code and leaves the account alone; the caller sees it through the Can   *)
(* predicates.                                                             *)
(***************************************************************************)
EXTENDS Integers

CONSTANT Quantum      \* smallest amount a stored balance can tell apart

ASSUME QuantumAssumption == Quantum \in Nat \ {0}

Account == [available : Nat, freeze : Nat]

\* mpd_rescale(result, amount, -prec_save) with MPD_ROUND_DOWN.
Rescale(amount) == (amount \div Quantum) * Quantum

balance_set(acc, type, amount) ==
  IF amount < 0 THEN acc ELSE [acc EXCEPT ![type] = Rescale(amount)]

balance_add(acc, type, amount) ==
  IF amount < 0 THEN acc ELSE [acc EXCEPT ![type] = Rescale(@ + amount)]

CanSub(acc, type, amount) == amount >= 0 /\ acc[type] >= amount

balance_sub(acc, type, amount) ==
  IF CanSub(acc, type, amount)
  THEN [acc EXCEPT ![type] = Rescale(@ - amount)]
  ELSE acc

\* Both transfers credit one type and debit the other, or do nothing.
balance_freeze(acc, amount) ==
  IF CanSub(acc, "available", amount)
  THEN [available |-> Rescale(acc.available - amount),
        freeze    |-> Rescale(acc.freeze + amount)]
  ELSE acc

balance_unfreeze(acc, amount) ==
  IF CanSub(acc, "freeze", amount)
  THEN [available |-> Rescale(acc.available + amount),
        freeze    |-> Rescale(acc.freeze - amount)]
  ELSE acc
==============================================================================
