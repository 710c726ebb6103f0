----------------------------- MODULE MCAccounts -----------------------------
(***************************************************************************)
(* Instance of Accounts: one Indian number whose account is still stored   *)
(* under its ten digits, and the requests of two processes.                *)
(***************************************************************************)
EXTENDS Accounts, TLC

CONSTANTS n1, l1, u1, u2, p1, p2, c1, c2, a1, a2

MCNumbers == {n1}
MCLegacyForms == {l1}
MCLegacy == n1 :> l1
MCOldAccount == n1 :> u1
MCUsers == {u1, u2}
MCCodes == {c1, c2}
MCAddresses == {a1, a2}
MCCalls == {p1, p2}

MCWorks == {{"otp", "widget"}, {"widget", "addresses"}}

Symmetry == Permutations(MCCalls) \cup Permutations(MCCodes) \cup Permutations(MCAddresses)
=============================================================================
