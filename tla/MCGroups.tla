----------------------------- MODULE MCGroups -----------------------------
(* Instances of Groups for TLC: a group "app" with two services, a group   *)
(* "app-web", whose only service takes a name "app" could use too, and a   *)
(* branch.  Sandboxes are interchangeable.                                 *)
EXTENDS Groups

CONSTANTS app, web, db, api, preview, main

TwoGroups == {<<app>>, <<app, web>>}

TwoManifests == (<<app>> :> <<<<api>>, <<web, db>>>>) @@ (<<app, web>> :> <<<<db>>>>)

Branch == {<<preview, main>>}

Symmetric == Permutations(Ids)
============================================================================
