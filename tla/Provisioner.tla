----------------------------- MODULE Provisioner -----------------------------
(***************************************************************************)
(* The two implementations of the Provisioner interface: hetzner-ubuntu,   *)
(* which runs tofu and waits for cloud-init, and kubernetes, which creates *)
(* a Secret and a Pod and waits for its SSH port.  Create and Destroy of   *)
(* several builders run concurrently, each step may fail, and the context  *)
(* of a call may expire between or during its steps.                       *)
(*                                                                         *)
(* The callers are those of pool.go: one Create for a fresh ID, and one    *)
(* Destroy for an ID whose Create succeeded.  tofu, the machines it makes  *)
(* and the Kubernetes API are external.                                    *)
(***************************************************************************)
EXTENDS Integers

CONSTANTS
  Builder,         \* builder IDs
  Arch,            \* architectures that builds ask for
  ServedArch,      \* those with a server type, or that Kubernetes knows
  NoArch,          \* the empty string of an absent map entry
  Backends,        \* which of the two implementations
  PortTries,       \* 30 in the code
  CloudInitTries,  \* 60 in the code
  SSHTries         \* 60 in the code

ASSUME ProvisionerAssumption ==
  /\ ServedArch \subseteq Arch
  /\ NoArch \notin Arch
  /\ Backends \subseteq {"hetzner", "kubernetes"}
  /\ {PortTries, CloudInitTries, SSHTries} \subseteq Nat \ {0}

VARIABLES
  backend,      \* the implementation in use
  pc,           \* each ID: the step of the call on it, or how it ended
  expired,      \* the context of the call on the ID is done
  tries,        \* attempts of the waiting loop of the call
  failures,     \* Destroy has an error to return (errs)
  \* the fields of the Provisioner, guarded by its mutex
  builderArch,
  provConfig,   \* whether the hetzner provisioner has been given one
  \* the world
  server,       \* the IDs that have a server at Hetzner
  tfstate,      \* the IDs whose server is in their state file
  secret,       \* the IDs that have a Secret
  pod,          \* each ID: its Pod
  vague         \* the IDs with a request that failed and took effect, or
                \* with a deletion that failed

callVars  == <<pc, expired, tries, failures>>
fieldVars == <<builderArch, provConfig>>
cloud     == <<server, tfstate>>
cluster   == <<secret, pod>>
pvars == <<backend, callVars, fieldVars, cloud, cluster, vague>>

-----------------------------------------------------------------------------
(* Types *)

Ended == {"unborn", "ready", "failed", "gone", "leaked"}

Creating == {"apply", "output", "port", "key", "cloudinit",
             "createSecret", "createPod", "running", "ssh",
             "undoSecret", "undoPod", "undoPodSecret"}

Destroying == {"tofuDestroy", "deletePod", "deleteSecret"}

ProvTypeOK ==
  /\ backend \in Backends
  /\ pc \in [Builder -> Ended \union Creating \union Destroying]
  /\ expired \in [Builder -> BOOLEAN]
  /\ tries \in [Builder -> Nat]
  /\ \A b \in Builder : /\ pc[b] = "port" => tries[b] < PortTries
                        /\ pc[b] = "cloudinit" => tries[b] < CloudInitTries
                        /\ pc[b] = "ssh" => tries[b] < SSHTries
  /\ failures \in [Builder -> BOOLEAN]
  /\ builderArch \in [Builder -> ServedArch \union {NoArch}]
  /\ provConfig \in BOOLEAN
  /\ server \subseteq Builder /\ tfstate \subseteq Builder
  /\ secret \subseteq Builder /\ vague \subseteq Builder
  /\ pod \in [Builder -> {"none", "Pending", "Running", "Failed"}]

ProvInit ==
  /\ backend \in Backends
  /\ pc = [b \in Builder |-> "unborn"]
  /\ expired = [b \in Builder |-> FALSE]
  /\ tries = [b \in Builder |-> 0]
  /\ failures = [b \in Builder |-> FALSE]
  /\ builderArch = [b \in Builder |-> NoArch]
  /\ provConfig = FALSE
  /\ server = {} /\ tfstate = {} /\ secret = {} /\ vague = {}
  /\ pod = [b \in Builder |-> "none"]

-----------------------------------------------------------------------------
(* The steps of a call *)

\* The call on b is at step s and goes on with step t.
Goto(b, s, t) == pc[b] = s /\ pc' = [pc EXCEPT ![b] = t]

\* Mutant: one attempt too many.
Retry_OneMore(b, s, n, t) ==
  /\ ~expired[b]
  /\ tries' = [tries EXCEPT ![b] = IF @ = n THEN 0 ELSE @ + 1]
  /\ Goto(b, s, IF tries[b] = n THEN t ELSE s)

\* A waiting loop at step s makes another attempt, the last of which leads to t.
Retry(b, s, n, t) ==
  /\ ~expired[b]
  /\ tries' = [tries EXCEPT ![b] = IF @ + 1 = n THEN 0 ELSE @ + 1]
  /\ Goto(b, s, IF tries[b] + 1 = n THEN t ELSE s)

\* The context expires; it is looked at by whoever has it.
Deadline(b) ==
  /\ pc[b] \notin Ended
  /\ ~expired[b]
  /\ expired' = [expired EXCEPT ![b] = TRUE]
  /\ UNCHANGED <<backend, pc, tries, failures, fieldVars, cloud, cluster, vague>>

-----------------------------------------------------------------------------
(* hetzner-ubuntu: Create *)

\* Without a server type nothing is recorded.
HetznerCreate(b, a) ==
  /\ backend = "hetzner"
  /\ IF a \in ServedArch
     THEN /\ Goto(b, "unborn", "apply")
          /\ builderArch' = [builderArch EXCEPT ![b] = a]
          /\ provConfig' = TRUE
     ELSE Goto(b, "unborn", "failed") /\ UNCHANGED fieldVars
  /\ UNCHANGED <<backend, expired, tries, failures, cloud, cluster, vague>>

\* The state directory and tofu apply.  An apply that fails may have made the
\* server, which is then in its state, or not; one that is killed with its
\* context may have made it without writing that down.
tofuApply(b) ==
  /\ \/ /\ Goto(b, "apply", "output")
        /\ ~expired[b]
        /\ server' = server \union {b} /\ tfstate' = tfstate \union {b}
        /\ UNCHANGED vague
     \/ /\ Goto(b, "apply", "failed")
        /\ \/ UNCHANGED <<cloud, vague>>
           \/ /\ server' = server \union {b} /\ tfstate' = tfstate \union {b}
              /\ UNCHANGED vague
           \/ /\ expired[b]
              /\ server' = server \union {b} /\ UNCHANGED tfstate
              /\ vague' = vague \union {b}
  /\ UNCHANGED <<backend, expired, tries, failures, fieldVars, cluster>>

tofuOutput(b) ==
  /\ \/ Goto(b, "output", "port") /\ ~expired[b]
     \/ Goto(b, "output", "failed")
  /\ UNCHANGED <<backend, expired, tries, failures, fieldVars, cloud, cluster, vague>>

\* waitForBuilder, first part: the port opens, or after the last attempt the
\* wait for cloud-init begins all the same.
waitForPort(b) ==
  /\ \/ expired[b] /\ Goto(b, "port", "failed") /\ UNCHANGED tries
     \/ /\ ~expired[b]
        /\ Goto(b, "port", "key")
        /\ tries' = [tries EXCEPT ![b] = 0]
     \/ Retry(b, "port", PortTries, "key")
  /\ UNCHANGED <<backend, expired, failures, fieldVars, cloud, cluster, vague>>

\* The private key of the proxy is read from a file and parsed.
readProxyKey(b) ==
  /\ Goto(b, "key", "cloudinit") \/ Goto(b, "key", "failed")
  /\ UNCHANGED <<backend, expired, tries, failures, fieldVars, cloud, cluster, vague>>

waitForCloudInit(b) ==
  /\ \/ expired[b] /\ Goto(b, "cloudinit", "failed") /\ UNCHANGED tries
     \/ /\ ~expired[b]
        /\ Goto(b, "cloudinit", "ready")
        /\ tries' = [tries EXCEPT ![b] = 0]
     \/ Retry(b, "cloudinit", CloudInitTries, "failed")
  /\ UNCHANGED <<backend, expired, failures, fieldVars, cloud, cluster, vague>>
-----------------------------------------------------------------------------
(* hetzner-ubuntu: Destroy *)

\* The entry goes before the server does, so that a second attempt after a
\* failure would find nothing to destroy.
TakeArch(b) == builderArch' = [builderArch EXCEPT ![b] = NoArch]

HetznerDestroy(b) ==
  /\ backend = "hetzner"
  /\ TakeArch(b)
  /\ Goto(b, "ready", IF provConfig /\ builderArch[b] # NoArch
                      THEN "tofuDestroy" ELSE "leaked")
  /\ expired' = [expired EXCEPT ![b] = FALSE]
  /\ UNCHANGED <<backend, tries, failures, provConfig, cloud, cluster, vague>>

\* Mutant: the state file is removed however tofu destroy ends.
tofuDestroy_DropState(b) ==
  /\ \/ Goto(b, "tofuDestroy", "gone") /\ ~expired[b] /\ server' = server \ {b}
     \/ Goto(b, "tofuDestroy", "leaked") /\ UNCHANGED server
  /\ tfstate' = tfstate \ {b}
  /\ UNCHANGED <<backend, expired, tries, failures, fieldVars, cluster, vague>>

\* tofu destroys what the state file records; the file is removed when it
\* succeeds.  A tofu that fails has destroyed the server or not.
tofuDestroy(b) ==
  /\ \/ /\ Goto(b, "tofuDestroy", "gone")
        /\ ~expired[b]
        /\ server' = server \ (tfstate \intersect {b})
        /\ tfstate' = tfstate \ {b}
     \/ /\ Goto(b, "tofuDestroy", "leaked")
        /\ \/ UNCHANGED cloud
           \/ server' = server \ {b} /\ UNCHANGED tfstate
  /\ UNCHANGED <<backend, expired, tries, failures, fieldVars, cluster, vague>>

-----------------------------------------------------------------------------
(* kubernetes: Create *)

KubernetesCreate(b, a) ==
  /\ backend = "kubernetes"
  /\ IF a \in ServedArch
     THEN /\ Goto(b, "unborn", "createSecret")
          /\ builderArch' = [builderArch EXCEPT ![b] = a]
     ELSE Goto(b, "unborn", "failed") /\ UNCHANGED builderArch
  /\ UNCHANGED <<backend, expired, tries, failures, provConfig, cloud, cluster, vague>>

\* A request that creates something succeeds, is refused, or takes effect
\* while its answer is lost.
CreateRequest(b, s, next, undo, take, leave) ==
  \/ Goto(b, s, next) /\ ~expired[b] /\ take /\ UNCHANGED vague
  \/ Goto(b, s, undo) /\ leave /\ UNCHANGED vague
  \/ Goto(b, s, undo) /\ ~expired[b] /\ take /\ vague' = vague \union {b}

createSecret(b) ==
  /\ CreateRequest(b, "createSecret", "createPod", "failed",
                   secret' = secret \union {b}, UNCHANGED secret)
  /\ UNCHANGED <<backend, expired, tries, failures, fieldVars, cloud, pod>>

\* A Pod that is refused takes the Secret with it.
createPod(b) ==
  /\ CreateRequest(b, "createPod", "running", "undoSecret",
                   pod' = [pod EXCEPT ![b] = "Pending"], UNCHANGED pod)
  /\ UNCHANGED <<backend, expired, tries, failures, fieldVars, cloud, secret>>

\* The cluster starts the Pod once it has the Secret that the Pod mounts, or
\* gives it up; it is never restarted.
PodProgress(b) ==
  /\ \/ /\ pod[b] = "Pending" /\ b \in secret
        /\ pod' = [pod EXCEPT ![b] = "Running"]
     \/ /\ pod[b] \in {"Pending", "Running"}
        /\ pod' = [pod EXCEPT ![b] = "Failed"]
  /\ UNCHANGED <<backend, callVars, fieldVars, cloud, secret, vague>>

\* Mutant: the loop polls the Pod until it runs.
waitForBuilder_Forever(b) ==
  /\ \/ Goto(b, "running", "undoPod") /\ pod[b] = "Failed"
     \/ Goto(b, "running", "ssh") /\ pod[b] = "Running"
  /\ UNCHANGED <<backend, expired, tries, failures, fieldVars, cloud, cluster, vague>>

\* Polls the Pod: without end, but for the context.
waitForBuilder(b) ==
  /\ \/ Goto(b, "running", "undoPod") /\ (expired[b] \/ pod[b] = "Failed")
     \/ Goto(b, "running", "ssh") /\ ~expired[b] /\ pod[b] = "Running"
  /\ UNCHANGED <<backend, expired, tries, failures, fieldVars, cloud, cluster, vague>>

\* One failed Get ends the wait.
PollFails(b) ==
  /\ Goto(b, "running", "undoPod")
  /\ UNCHANGED <<backend, expired, tries, failures, fieldVars, cloud, cluster, vague>>

waitForSSH(b) ==
  /\ \/ expired[b] /\ Goto(b, "ssh", "undoPod") /\ UNCHANGED tries
     \/ /\ ~expired[b]
        /\ Goto(b, "ssh", "ready")
        /\ tries' = [tries EXCEPT ![b] = 0]
     \/ Retry(b, "ssh", SSHTries, "undoPod")
  /\ UNCHANGED <<backend, expired, failures, fieldVars, cloud, cluster, vague>>

-----------------------------------------------------------------------------
(* kubernetes: deletions.  A missing object counts as deleted. *)

\* What a deletion with a done, or a live, context may report and do.
Deletion(done) ==
  IF done THEN {[ok |-> FALSE, gone |-> FALSE]}
  ELSE {[ok |-> TRUE, gone |-> TRUE], [ok |-> FALSE, gone |-> FALSE],
        [ok |-> FALSE, gone |-> TRUE]}

Note(b, r, done) ==
  vague' = IF r.ok \/ r.gone \/ done THEN vague ELSE vague \union {b}

deletePod(b, r) == pod' = [pod EXCEPT ![b] = IF r.gone THEN "none" ELSE @]

deleteSecret(b, r) == secret' = IF r.gone THEN secret \ {b} ELSE secret

\* Mutant: the undo uses the context of the call.
UndoContext_OfCall(b) == expired[b]

\* The undo of a Create uses context.Background().
UndoContext(b) == FALSE

undoSecret(b) ==
  /\ Goto(b, "undoSecret", "failed")
  /\ \E r \in Deletion(UndoContext(b)) : deleteSecret(b, r) /\ Note(b, r, UndoContext(b))
  /\ UNCHANGED <<backend, expired, tries, failures, fieldVars, cloud, pod>>

undoPod(b) ==
  /\ Goto(b, "undoPod", "undoPodSecret")
  /\ \E r \in Deletion(UndoContext(b)) : deletePod(b, r) /\ Note(b, r, UndoContext(b))
  /\ UNCHANGED <<backend, expired, tries, failures, fieldVars, cloud, secret>>

\* Only a Create that got as far as its Pod forgets the architecture.
undoPodSecret(b) ==
  /\ Goto(b, "undoPodSecret", "failed")
  /\ \E r \in Deletion(UndoContext(b)) : deleteSecret(b, r) /\ Note(b, r, UndoContext(b))
  /\ TakeArch(b)
  /\ UNCHANGED <<backend, expired, tries, failures, provConfig, cloud, pod>>

-----------------------------------------------------------------------------
(* kubernetes: Destroy *)

KubernetesDestroy(b) ==
  /\ backend = "kubernetes"
  /\ TakeArch(b)
  /\ Goto(b, "ready", "deletePod")
  /\ expired' = [expired EXCEPT ![b] = FALSE]
  /\ UNCHANGED <<backend, tries, failures, provConfig, cloud, cluster, vague>>

DestroyPod(b) ==
  /\ Goto(b, "deletePod", "deleteSecret")
  /\ \E r \in Deletion(expired[b]) :
       /\ deletePod(b, r)
       /\ Note(b, r, expired[b])
       /\ failures' = [failures EXCEPT ![b] = ~r.ok]
  /\ UNCHANGED <<backend, expired, tries, fieldVars, cloud, secret>>

\* Mutant: the error of the first deletion is lost.
Result_LastOnly(b, r) == IF r.ok THEN "gone" ELSE "leaked"

Result(b, r) == IF r.ok /\ ~failures[b] THEN "gone" ELSE "leaked"

DestroySecret(b) ==
  /\ \E r \in Deletion(expired[b]) :
       /\ Goto(b, "deleteSecret", Result(b, r))
       /\ deleteSecret(b, r)
       /\ Note(b, r, expired[b])
  /\ UNCHANGED <<backend, expired, tries, failures, fieldVars, cloud, pod>>

-----------------------------------------------------------------------------
\* A call that is running, or that the pool starts.
Call(b) ==
  \/ tofuApply(b) \/ tofuOutput(b) \/ waitForPort(b) \/ readProxyKey(b)
  \/ waitForCloudInit(b) \/ tofuDestroy(b)
  \/ createSecret(b) \/ createPod(b) \/ waitForBuilder(b) \/ waitForSSH(b)
  \/ undoSecret(b) \/ undoPod(b) \/ undoPodSecret(b)
  \/ DestroyPod(b) \/ DestroySecret(b)

Start(b) ==
  \/ \E a \in Arch : HetznerCreate(b, a) \/ KubernetesCreate(b, a)
  \/ HetznerDestroy(b) \/ KubernetesDestroy(b)

ProvNext ==
  \E b \in Builder : \/ Start(b) \/ Call(b) \/ PollFails(b)
                     \/ Deadline(b) \/ PodProgress(b)

ProvSpec == ProvInit /\ [][ProvNext]_pvars

\* The commands and requests of a call return and its deadline comes; nothing
\* makes a Pod start or a poll fail, and nothing makes the pool call.
FairProvSpec ==
  ProvSpec /\ \A b \in Builder : WF_pvars(Call(b)) /\ WF_pvars(Deadline(b))

-----------------------------------------------------------------------------
(* Properties *)

\* A Create that fails on Kubernetes leaves neither Pod nor Secret behind, at
\* whatever step it failed and although its context may be done, unless the
\* API lost an answer or refused a deletion.
KubernetesCleansUp ==
  \A b \in Builder :
    pc[b] = "failed" /\ b \notin vague => pod[b] = "none" /\ b \notin secret

\* A server is never without the state file that tofu needs to destroy it,
\* whatever failed, unless tofu was killed while it made the server.
ServersOnRecord == server \subseteq tfstate \union vague

\* Every Create and every Destroy returns, even for a Pod that stays Pending
\* and a server that never opens its port.
CallsEnd ==
  \A b \in Builder : (pc[b] \notin Ended) ~> (pc[b] \in Ended)

\* Anything that exists for b.
Exists(b) == b \in server \/ b \in secret \/ pod[b] # "none"

Whole(b) == IF backend = "hetzner" THEN b \in server
            ELSE b \in secret /\ pod[b] # "none"

Contract == INSTANCE ProvisionerContract WITH
  use <- [b \in Builder |-> IF pc[b] \in Creating THEN "creating"
                            ELSE IF pc[b] \in Destroying THEN "destroying"
                            ELSE pc[b]],
  vm  <- [b \in Builder |->
            IF pc[b] \in Creating THEN "none"
            ELSE IF pc[b] \in Destroying THEN "up"
            ELSE IF pc[b] = "ready" THEN (IF Whole(b) THEN "up" ELSE "none")
            ELSE IF Exists(b) THEN "stuck" ELSE "none"]

\* Both provisioners do what BuilderPool assumes of Create and Destroy: a
\* builder that Create returned is there until it is destroyed, a Destroy
\* that reports success has left nothing, and nothing appears later.
ImplementsContract == Contract!ContractSpec
=============================================================================
