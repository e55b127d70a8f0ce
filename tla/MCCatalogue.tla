---------------------------- MODULE MCCatalogue ----------------------------
(* A small instance of Catalogue for TLC. *)
EXTENDS Catalogue, TLC

CONSTANTS p1, p2, e1, u1, u2, c1, c2, s1, s2

\* A path, one below it, and one that only starts with the same letters.
SmallPaths == {<<"v1">>, <<"v1", "orders">>, <<"v11">>}
Form(s, path) == [slug |-> s, path |-> path, published |-> TRUE, icon |-> "builtin"]
Illustrated == [Form(s1, <<"v1">>) EXCEPT !.icon = "upload"]
Draft == [Form(s1, <<"v1">>) EXCEPT !.published = FALSE]
Ordinary == {Form(s1, <<"v1">>), Form(s2, <<"v1", "orders">>), Form(s2, <<"v11">>), Form(s1, <<"v11">>)}
SmallBodies == Ordinary \cup {Illustrated, Draft}

\* Saves against saves; icons and changelogs against saves and deletion;
\* ratings against each other and deletion.
SmallWorlds ==
    {[ops |-> {"create", "update", "delete"}, bodies |-> Ordinary],
     [ops |-> {"create", "update", "upload"}, bodies |-> {Form(s1, <<"v1">>), Illustrated}],
     [ops |-> {"create", "update", "upload", "changelog", "delete", "fail"}, bodies |-> {Illustrated, Form(s2, <<"v11">>)}],
     [ops |-> {"create", "update", "rate", "subscribe", "delete", "fail"}, bodies |-> {Form(s1, <<"v1">>), Draft}]}
\* Ratings alone, and an image with saves that may stop half way.
RatingWorlds == {[ops |-> {"create", "rate", "subscribe"}, bodies |-> {Form(s1, <<"v1">>)}]}
ImageWorlds == {[ops |-> {"create", "update", "upload", "fail"}, bodies |-> {Form(s1, <<"v1">>)}]}
CatalogueSymmetry == Permutations(Calls) \cup Permutations(Products) \cup Permutations(Users)

=============================================================================
