----------------------------- MODULE MCDbAccess -----------------------------
(***************************************************************************)
(* Three calls over three servers, the aliases of two of which become the  *)
(* same file name: an introspection, statements the rules refuse or allow, *)
(* and reads under each approval mode, with and without an approval.       *)
(***************************************************************************)
EXTENDS DbAccess, TLC

Ask == [server |-> "a_b", what |-> "read", rule |-> "allow", mode |-> "auto", approve |-> FALSE]

MCGrantFile == [s \in Server |-> IF s = "c" THEN "c.json" ELSE "a_b.json"]
MCElsewhere == {<<"a_b", "read">>}
MCInputs ==
  {[Ask EXCEPT !.server = "a b", !.what = "schema"],
   [Ask EXCEPT !.what = "write"],
   [Ask EXCEPT !.what = "write", !.rule = "deny"],
   [Ask EXCEPT !.what = "unbounded"],
   [Ask EXCEPT !.mode = "confirm_each", !.approve = TRUE],
   [Ask EXCEPT !.server = "a b", !.mode = "confirm_once", !.approve = TRUE],
   [Ask EXCEPT !.mode = "confirm_once"],
   [Ask EXCEPT !.server = "c", !.mode = "confirm_once"],
   [Ask EXCEPT !.mode = "grant_required"]}
Calls == Permutations(Call)
=============================================================================
