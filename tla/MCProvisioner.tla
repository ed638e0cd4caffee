---------------------------- MODULE MCProvisioner ----------------------------
(* Provisioner with small sets of model values for TLC. *)
EXTENDS Provisioner

Both == {"hetzner", "kubernetes"}
=============================================================================
