----------------------------- MODULE MCAccounts -----------------------------
(* Model checking instances of Accounts.                                   *)
EXTENDS Accounts, TLC

\* Random values are request names, so requests are interchangeable.
RequestSymmetry == Permutations(Requests)

CONSTANTS e1, s1

\* s1 is e1 with a space in front.
LowerTrim == [e \in Spellings |-> IF e = s1 THEN e1 ELSE e]

\* No two of the addresses differ in case alone, and CITEXT sees every other
\* difference: addresses that differ in case it refuses without any help.
Citext == [e \in Addresses |-> e]
=============================================================================
