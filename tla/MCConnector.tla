---------------------------- MODULE MCConnector -----------------------------
(***************************************************************************)
(* A connector like the GitHub one, for TLC: a floor aspect "delete", an   *)
(* aspect "bulk" without a floor, one action of each kind and a deleting   *)
(* write, and configuration files that set, omit, loosen and break every   *)
(* key.                                                                    *)
(***************************************************************************)
EXTENDS Connector

MCAction == {"get", "dump", "create", "remove", "merge"}

MCActionClass ==
  [a \in MCAction |->
     CASE a = "get"    -> [kind |-> "read", aspects |-> {}]
       [] a = "dump"   -> [kind |-> "read", aspects |-> {"bulk"}]
       [] a = "create" -> [kind |-> "write", aspects |-> {}]
       [] a = "remove" -> [kind |-> "write", aspects |-> {"delete"}]
       [] a = "merge"  -> [kind |-> "admin", aspects |-> {"bulk"}]]

MCDefaultRules ==
  [read |-> "success", write |-> "escalate", admin |-> "denied",
   aspects |-> [delete |-> "escalate", bulk |-> Unset]]

Silent == [read |-> Unset, write |-> Unset, admin |-> Unset, aspects |-> Unset]
Policy(section) == [policy |-> section, mode |-> Unset]

\* Files that loosen, tighten, break or empty one thing.
MCUserFiles ==
  {NoFile, Malformed,
   [policy |-> [Silent EXCEPT !.read = "denied", !.write = "success"], mode |-> "confirm_each"],
   Policy([Silent EXCEPT !.admin = "success"]),
   Policy([Silent EXCEPT !.write = "success", !.admin = "escalate",
                         !.aspects = [delete |-> "denied", bulk |-> "success"]]),
   Policy([Silent EXCEPT !.aspects = [delete |-> "success", bulk |-> Unset]])}

MCRepoFiles ==
  {NoFile, Policy(Null),
   [policy |-> [Silent EXCEPT !.read = "success"], mode |-> Null],
   Policy([Silent EXCEPT !.read = "escalate",
                         !.aspects = [delete |-> "escalate", bulk |-> "success"]]),
   Policy([Silent EXCEPT !.aspects = [delete |-> Unset, bulk |-> "denied"],
                         !.admin = "denied"]),
   [policy |-> [Silent EXCEPT !.write = "success"], mode |-> "confirm_once"],
   Policy([Silent EXCEPT !.aspects = Invalid]),
   [policy |-> Unset, mode |-> Invalid]}
=============================================================================
