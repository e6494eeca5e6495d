----------------------------- MODULE MCAccounts -----------------------------
(***************************************************************************)
(* Small instances of Accounts for TLC: two administrators against each    *)
(* other, the lifetime of an editor, and guesses against the throttle.     *)
(***************************************************************************)
EXTENDS Accounts, TLC

UpTo(f) == f @@ [o \in Operations |-> 0]

Choices == {{"administrator"}, {"student"}, {"editor"}, {"student", "editor"}}

Administration ==
  UpTo("bootstrap" :> 1 @@ "login" :> 2 @@ "createAdmin" :> 1 @@ "roles" :> 1
       @@ "disable" :> 1)
Editors ==
  UpTo("bootstrap" :> 1 @@ "login" :> 1 @@ "create" :> 1 @@ "grant" :> 2
       @@ "logout" :> 1)
Revoked ==
  UpTo("bootstrap" :> 1 @@ "login" :> 2 @@ "create" :> 1 @@ "revoke" :> 1)
Resets == UpTo("bootstrap" :> 1 @@ "login" :> 3 @@ "reset" :> 1)
Mistakes == UpTo("register" :> 1 @@ "login" :> 4)
Guesses == UpTo("login" :> 6)
Registrations == UpTo("register" :> 4)
Symmetric == Permutations(Requests)
All ==
  {Administration, Editors, Revoked, Resets, Mistakes, Guesses,
   Registrations}
=============================================================================
