------------------------------- MODULE MCLink -------------------------------
(***************************************************************************)
(* Small instances of Link.                                                *)
(***************************************************************************)
EXTENDS Link, TLC

CONSTANTS c1, c2, s1, s2, m1, m2

OwnerOne == c1 :> s1

\* Two secondaries with a connection each.
OwnerEach == c1 :> s1 @@ c2 :> s2

\* One secondary that connects again when its connection is gone.
OwnerSame == c1 :> s1 @@ c2 :> s1

\* Announces are alike, and so are secondaries with their connections.
Alike ==
  Permutations({m1, m2})
    \cup {c1 :> c2 @@ c2 :> c1 @@ s1 :> s2 @@ s2 :> s1}
=============================================================================
