----------------------------- MODULE MCFixSession -----------------------------
(* FixSession for TLC; the constants are all numbers, strings and Booleans.  *)
EXTENDS FixSession

\* The venue names no interval, or a zero one.
MCOffers == {Unset, 0}
====
