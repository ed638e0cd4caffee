---------------------------- MODULE MCNixSession ----------------------------
(* NixSession for TLC: the environments of its runs. *)
EXTENDS NixSession

Env(ops, faults) ==
  [storeHost : BOOLEAN, ops : {ops}, faults : {faults}]

\* Every operation with every failure, and the benign part of them.
Sessions == Env(AllOps, AllFaults) \union Env(AllOps \ RefusedOps, MildFaults)

\* A client that leaves during a build.
LeavingClient == Env({"BuildDerivation"}, {"disconnect"})
=============================================================================
