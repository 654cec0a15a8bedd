---------------------------- MODULE MCWorkspaces ----------------------------
(***************************************************************************)
(* One task after the other in one workspace, each of which writes the     *)
(* digest of the image that it built.                                      *)
(***************************************************************************)
EXTENDS TaskWorkspaces

Builds ==
  {[url |-> u, ref |-> r, dir |-> "none", publishes |-> TRUE] : u \in {"none", "u"}, r \in {"none", "main"}}

=============================================================================
