------------------------- MODULE ProvisionerContract -------------------------
(***************************************************************************)
(* What the pool relies on when it calls a Provisioner: the effect that    *)
(* BuilderPool gives to CreateOK, CreateFail and DestroyReturns, with the  *)
(* result of Destroy, which the pool only logs.  Provisioner implements    *)
(* this for both backends.                                                 *)
(***************************************************************************)
CONSTANT Builder

VARIABLES
  use,  \* each builder ID: unborn, creating, ready, destroying, failed (its
        \* Create did), gone or leaked (its Destroy succeeded or failed)
  vm    \* as in BuilderPool: none, up, or stuck where nobody looks for it

contractVars == <<use, vm>>

ContractInit ==
  /\ use = [b \in Builder |-> "unborn"]
  /\ vm = [b \in Builder |-> "none"]

\* A call starts, or returns with the effect that the pool may count on.
Step(b, from, to, vms) ==
  /\ use[b] = from
  /\ use' = [use EXCEPT ![b] = to]
  /\ \E v \in vms : vm' = [vm EXCEPT ![b] = v]

CreateStarts(b)  == Step(b, "unborn", "creating", {"none"})
CreateOK(b)      == Step(b, "creating", "ready", {"up"})
CreateFails(b)   == \/ Step(b, "creating", "failed", {"none", "stuck"})
                    \/ Step(b, "unborn", "failed", {"none"})
DestroyStarts(b) == Step(b, "ready", "destroying", {"up"})
DestroyOK(b)     == Step(b, "destroying", "gone", {"none"})
DestroyFails(b)  == Step(b, "destroying", "leaked", {"none", "stuck"})

ContractNext ==
  \E b \in Builder :
    \/ CreateStarts(b) \/ CreateOK(b) \/ CreateFails(b)
    \/ DestroyStarts(b) \/ DestroyOK(b) \/ DestroyFails(b)

ContractSpec == ContractInit /\ [][ContractNext]_contractVars
=============================================================================
