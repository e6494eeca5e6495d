----------------------------- MODULE MCCatalog -----------------------------
(***************************************************************************)
(* Small instances of Catalog for TLC.  Each bounds how often every        *)
(* operation that can be repeated without end may happen.                  *)
(***************************************************************************)
EXTENDS Catalog, TLC

\* k cards, and each operation of S once.
UpTo(S, k) ==
  [o \in Operations |-> IF o = "create" THEN k ELSE IF o \in S THEN 1 ELSE 0]

OneCard == {UpTo({"edit", "sync", "rework", "hide", "archive", "restore"}, 1),
            UpTo({"edit", "sync", "pictures", "attach", "archive", "restore"}, 1)}
TwoCards == {UpTo({"edit", "merge"}, 2), UpTo({"merge", "restore"}, 2)}
OneOrTwoCards == OneCard \cup TwoCards
Symmetric == Permutations(Actors)
=============================================================================
