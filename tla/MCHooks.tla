------------------------------- MODULE MCHooks -------------------------------
(***************************************************************************)
(* The programs Claude Code starts for each hook: a behaviour is one of    *)
(* AskMemo's or one of PluginBootstrap's, which share no state; the other  *)
(* part stays where it begins.  The memo is taken with MaxCalls calls of   *)
(* the bare push and switches ("bare"), and with one call less and every   *)
(* push ("any").                                                           *)
(***************************************************************************)
EXTENDS MCAskMemo, PluginBootstrap

VARIABLE part

MCInit ==
  /\ part \in {"bare", "any", "bootstrap"}
  /\ Init /\ InitBootstrap
  /\ budget = IF part = "bare" THEN MaxCalls ELSE MaxCalls - 1
  /\ part # "bootstrap" => newest = 1
  /\ part = "bootstrap" => head = "main"

MCNext ==
  /\ \/ part = "bare" /\ Next /\ UNCHANGED bvars
        /\ \A s \in Session : call'[s].cmd # "push full"
     \/ part = "any" /\ Next /\ UNCHANGED bvars
     \/ part = "bootstrap" /\ BootstrapNext /\ UNCHANGED vars
  /\ UNCHANGED part

MCSpec == MCInit /\ [][MCNext]_<<vars, bvars, part>>
=============================================================================
