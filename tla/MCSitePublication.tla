-------------------------- MODULE MCSitePublication --------------------------
(* Small instances of SitePublication for TLC. *)
EXTENDS SitePublication, TLC

PublicationSymmetry == Permutations(Pub)
=============================================================================
