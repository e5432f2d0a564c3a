----------------------------- MODULE MCAskMemo ------------------------------
(***************************************************************************)
(* Two sessions over one repository with a feature branch and main: the    *)
(* bare push, whose scope follows HEAD, and a push that names main by its  *)
(* full ref.                                                               *)
(***************************************************************************)
EXTENDS AskMemo, TLC

MCNamed == [r \in Ref |-> IF r = "a" THEN "a" ELSE "main"]
MCTarget == [c \in Push |-> IF c = "push" THEN None ELSE "refs/heads/main"]
Sessions == Permutations(Session)
=============================================================================
