----------------------------- MODULE LedgerSums -----------------------------
(***************************************************************************)
(* The sums a reader of a ledger takes: the rows are a function, by what   *)
(* the reader groups them by.                                              *)
(***************************************************************************)
EXTENDS Integers, FiniteSetsExt

SumOf(f) == MapThenSumSet(LAMBDA x : f[x], DOMAIN f)
=============================================================================
