------------------------------ MODULE MCPages ------------------------------
(***************************************************************************)
(* Pages for TLC: an old page with a password and one that may be created,  *)
(* a file of its own in a sub-directory, a directory with hidden files, an  *)
(* archive of one top directory next to a single file; one request places   *)
(* files while the other one does the same, edits or visits. A file to be   *)
(* shown is named whether the upload has it or not.                         *)
(***************************************************************************)
EXTENDS Pages, TLC

CONSTANTS p1, p2, u0, u1, u2, r1, r2, x1, x2

Root == <<"index.html">>
Deep == <<"sub", "index.html">>
MCNames == {Root, Deep}

MCSource ==
    (u0 :> {[kind |-> "files", files |-> {Deep}]})
    @@ (u1 :> {[kind |-> "archive", files |-> {<<"site", "index.html">>, <<"site", "my__MACOSX">>}],
               [kind |-> "files", files |-> {Deep}]})
    @@ (u2 :> {[kind |-> "directory",
                files |-> {Root, <<".git", "index.html">>, <<"__MACOSX", "._index.html">>}]})

MCOps == (r1 :> {"create", "replace", "edit"}) @@ (r2 :> {"replace", "edit", "visit"})
MCOld == [page |-> p1, upload |-> u0, password |-> x1, entry |-> Deep]
MCEdits == ("create" :> {[Nothing EXCEPT !.pass = x2, !.entry = Deep]})
           @@ ("replace" :> {Nothing, [Nothing EXCEPT !.pass = x2, !.entry = Root]})
           @@ ("edit" :> {[Nothing EXCEPT !.status = "disabled"],
                          [Nothing EXCEPT !.pass = x2, !.entry = Root],
                          [Nothing EXCEPT !.pass = NoPassword, !.entry = Deep]})
=============================================================================
