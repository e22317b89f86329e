----------------------------- MODULE MCAccounts -----------------------------
(* A small instance of Accounts for TLC. *)
EXTENDS Accounts, TLC

CONSTANTS boss, clerk

MCStaff      == {boss, clerk}
MCStaffRole  == (boss :> "admin") @@ (clerk :> "employee")
MCStaffEmail == (boss :> "boss") @@ (clerk :> "clerk")
MCEmails     == {"boss", "clerk", "new", "New"}
MCLower      == [e \in MCEmails |-> IF e = "New" THEN "new" ELSE e]

Symmetry == Permutations(Registrations) \cup Permutations(Creations)
            \cup Permutations(Invitations) \cup Permutations(Updates)
=============================================================================
