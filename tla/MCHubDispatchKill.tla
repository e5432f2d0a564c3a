------------------------- MODULE MCHubDispatchKill -------------------------
(* One step whose child may ignore SIGTERM. *)
EXTENDS HubDispatch
=============================================================================
