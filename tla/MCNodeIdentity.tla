--------------------------- MODULE MCNodeIdentity ---------------------------
(***************************************************************************)
(* Volumes that are new, or hold the ring of this node, of its short name  *)
(* alone, or of a cluster that does not, or does, know it.                 *)
(***************************************************************************)
EXTENDS NodeIdentity

MCRings == {{}, {"fqdn"}, {"short"}, {"short", "peer"}, {"fqdn", "peer"}}

=============================================================================
