----------------------------- MODULE MCAccounts -----------------------------
(* Accounts on two requests at a time and a few accounts.                  *)
EXTENDS Accounts, TLC

CONSTANTS h1, h2, admin, bob, default

HandlersSymmetry == Permutations(Handlers)
=============================================================================
