-------------------------- MODULE ProvisionerProofs --------------------------
(* Invariance and refinement proofs for Provisioner: any number of builders  *)
(* and attempts, either backend.                                             *)
EXTENDS Provisioner, TLAPS

-----------------------------------------------------------------------------
(* The inductive invariant *)

HetznerSteps == {"apply", "output", "port", "key", "cloudinit", "tofuDestroy"}

KubernetesSteps == {"createSecret", "createPod", "running", "ssh", "undoSecret",
                    "undoPod", "undoPodSecret", "deletePod", "deleteSecret"}

\* A call is at a step of the backend in use, and there is nothing of the
\* other backend.
OneBackend(b) ==
  /\ pc[b] \in HetznerSteps => backend = "hetzner"
  /\ pc[b] \in KubernetesSteps => backend = "kubernetes"
  /\ backend = "hetzner" => b \notin secret /\ pod[b] = "none"
  /\ backend = "kubernetes" => b \notin server

\* The waiting loops start to count at zero.
CountFresh(b) ==
  pc[b] \in {"unborn", "apply", "output", "key", "createSecret", "createPod",
             "running"} => tries[b] = 0

\* What there is for b at each step of a call of the hetzner provisioner, and
\* what the provisioner remembers of it.
HetznerHas(b) ==
  /\ pc[b] = "apply" => b \notin server
  /\ pc[b] \in {"output", "port", "key", "cloudinit", "tofuDestroy"}
       => b \in server /\ b \in tfstate
  /\ backend = "hetzner" /\ pc[b] = "ready" => b \in server /\ b \in tfstate
  /\ pc[b] \in {"apply", "output", "port", "key", "cloudinit"}
       => builderArch[b] # NoArch /\ provConfig
  /\ backend = "hetzner" /\ pc[b] = "ready" => builderArch[b] # NoArch /\ provConfig

\* The same for kubernetes.
KubernetesHas(b) ==
  /\ pc[b] = "createSecret" => b \notin secret /\ pod[b] = "none"
  /\ pc[b] = "createPod" => b \in secret /\ pod[b] = "none"
  /\ pc[b] \in {"running", "ssh"} => b \in secret /\ pod[b] # "none"
  /\ backend = "kubernetes" /\ pc[b] = "ready" => b \in secret /\ pod[b] # "none"
  /\ pc[b] \in {"undoSecret", "undoPodSecret"} => pod[b] = "none" \/ b \in vague
  /\ pc[b] = "deleteSecret" /\ ~failures[b] => pod[b] = "none"
  /\ pc[b] = "failed" /\ b \notin vague => pod[b] = "none" /\ b \notin secret

Nothing(b) == b \notin server /\ b \notin secret /\ pod[b] = "none"

Standing(b) ==
  /\ OneBackend(b) /\ CountFresh(b) /\ HetznerHas(b) /\ KubernetesHas(b)
  /\ pc[b] \in {"unborn", "gone"} => Nothing(b)
  /\ b \in server => b \in tfstate \/ b \in vague

ProvInv == ProvTypeOK /\ \A b \in Builder : Standing(b)

-----------------------------------------------------------------------------
\* What a call on b leaves of another builder: everything.
SameFor(c) ==
  /\ pc'[c] = pc[c] /\ tries'[c] = tries[c] /\ failures'[c] = failures[c]
  /\ builderArch'[c] = builderArch[c] /\ pod'[c] = pod[c]
  /\ c \in server' <=> c \in server
  /\ c \in tfstate' <=> c \in tfstate
  /\ c \in secret' <=> c \in secret
  /\ c \in vague' <=> c \in vague

BuilderNext(b) == Start(b) \/ Call(b) \/ PollFails(b) \/ Deadline(b) \/ PodProgress(b)

\* The calls of different builders do not touch each other's things.  Only the
\* configuration is shared, and it is never taken back.
LEMMA CallsApart ==
  ASSUME ProvTypeOK, NEW b \in Builder, BuilderNext(b)
  PROVE  /\ backend' = backend /\ (provConfig => provConfig')
         /\ \A c \in Builder \ {b} : SameFor(c)
<1>1. CASE HetznerDestroy(b) \/ KubernetesDestroy(b)
           \/ \E a \in Arch : HetznerCreate(b, a) \/ KubernetesCreate(b, a)
  BY <1>1 DEF HetznerCreate, KubernetesCreate, HetznerDestroy, KubernetesDestroy,
     Goto, TakeArch, SameFor, ProvTypeOK, fieldVars, cloud, cluster
<1>2. CASE tofuApply(b) \/ tofuOutput(b) \/ waitForPort(b) \/ readProxyKey(b)
           \/ waitForCloudInit(b) \/ tofuDestroy(b)
  BY <1>2 DEF tofuApply, tofuOutput, waitForPort, readProxyKey, waitForCloudInit,
     tofuDestroy, Goto, Retry, SameFor, ProvTypeOK, fieldVars, cloud, cluster
<1>3. CASE createSecret(b) \/ createPod(b) \/ waitForBuilder(b) \/ waitForSSH(b)
           \/ PollFails(b) \/ Deadline(b) \/ PodProgress(b)
  BY <1>3 DEF createSecret, createPod, CreateRequest, waitForBuilder, waitForSSH,
     PollFails, Deadline, PodProgress, Goto, Retry, SameFor, ProvTypeOK, callVars,
     fieldVars, cloud, cluster
<1>4. CASE undoSecret(b) \/ undoPod(b) \/ undoPodSecret(b) \/ DestroyPod(b)
           \/ DestroySecret(b)
  BY <1>4 DEF undoSecret, undoPod, undoPodSecret, DestroyPod, DestroySecret,
     Goto, Note, deletePod, deleteSecret, TakeArch, SameFor, ProvTypeOK, fieldVars,
     cloud, cluster
<1>5. QED
  BY <1>1, <1>2, <1>3, <1>4 DEF BuilderNext, Start, Call

\* A builder that a step does not concern stands as before.
LEMMA StandingFrame ==
  ASSUME NEW c \in Builder, Standing(c), SameFor(c), backend' = backend,
         provConfig => provConfig'
  PROVE  Standing(c)'
  BY DEF Standing, SameFor, OneBackend, CountFresh, HetznerHas, KubernetesHas,
     Nothing

\* Every step keeps the types.
LEMMA ProvTypeStep ==
  ASSUME ProvInv, NEW b \in Builder, BuilderNext(b)
  PROVE  ProvTypeOK'
<1> USE ProvisionerAssumption
<1>0. ProvTypeOK /\ CountFresh(b)
  BY DEF ProvInv, Standing
<1>1. CASE \E a \in Arch : HetznerCreate(b, a) \/ KubernetesCreate(b, a)
  <2>1. PICK a \in Arch : HetznerCreate(b, a) \/ KubernetesCreate(b, a)
    BY <1>1
  <2>2. PICK p \in {"apply", "createSecret", "failed"} : Goto(b, "unborn", p)
    BY <2>1 DEF HetznerCreate, KubernetesCreate
  <2>3. builderArch' \in [Builder -> ServedArch \union {NoArch}]
    BY <1>0, <2>1 DEF HetznerCreate, KubernetesCreate, ProvTypeOK, fieldVars
  <2>4. provConfig' \in BOOLEAN
    BY <1>0, <2>1 DEF HetznerCreate, KubernetesCreate, ProvTypeOK, fieldVars
  <2>5. UNCHANGED <<backend, expired, tries, failures, cloud, cluster, vague>>
    BY <2>1 DEF HetznerCreate, KubernetesCreate
  <2>6. QED
    BY <1>0, <2>2, <2>3, <2>4, <2>5 DEF Goto, ProvTypeOK, cloud, cluster, Ended,
       Creating, Destroying
<1>2. CASE HetznerDestroy(b) \/ KubernetesDestroy(b)
  BY <1>0, <1>2 DEF HetznerDestroy, KubernetesDestroy, Goto, TakeArch, ProvTypeOK,
     fieldVars, cloud, cluster, Ended, Creating, Destroying
<1>3. CASE tofuApply(b) \/ tofuOutput(b) \/ readProxyKey(b) \/ tofuDestroy(b)
  BY <1>0, <1>3 DEF tofuApply, tofuOutput, readProxyKey,
     tofuDestroy, Goto, CountFresh, ProvTypeOK, fieldVars, cloud, cluster, Ended,
     Creating, Destroying
<1>4. CASE waitForPort(b) \/ waitForCloudInit(b) \/ waitForSSH(b)
  BY <1>0, <1>4 DEF waitForPort, waitForCloudInit, waitForSSH, Goto, Retry,
     CountFresh, ProvTypeOK, fieldVars, cloud, cluster, Ended, Creating, Destroying
<1>5. CASE createSecret(b) \/ createPod(b)
  BY <1>0, <1>5 DEF createSecret, createPod, CreateRequest, Goto, ProvTypeOK,
     fieldVars, cloud, cluster, Ended, Creating, Destroying
<1>6. CASE waitForBuilder(b) \/ PollFails(b)
  BY <1>0, <1>6 DEF waitForBuilder, PollFails, Goto, CountFresh, ProvTypeOK,
     fieldVars, cloud, cluster, Ended, Creating, Destroying
<1>7. CASE Deadline(b) \/ PodProgress(b)
  BY <1>0, <1>7 DEF Deadline, PodProgress, ProvTypeOK, callVars, fieldVars, cloud,
     cluster
<1>8. CASE undoSecret(b) \/ undoPod(b) \/ undoPodSecret(b)
  BY <1>0, <1>8 DEF undoSecret, undoPod, undoPodSecret, Goto, Note, deletePod,
     deleteSecret, TakeArch, ProvTypeOK, fieldVars, cloud, cluster, Ended, Creating,
     Destroying
<1>9. CASE DestroyPod(b)
  <2>1. PICK r \in Deletion(expired[b]) :
          /\ pod' = [pod EXCEPT ![b] = IF r.gone THEN "none" ELSE @]
          /\ Note(b, r, expired[b])
          /\ failures' = [failures EXCEPT ![b] = ~r.ok]
    BY <1>9 DEF DestroyPod, deletePod
  <2>2. failures' \in [Builder -> BOOLEAN]
    BY <1>0, <2>1, Zenon DEF ProvTypeOK
  <2>3. QED
    BY <1>0, <1>9, <2>1, <2>2 DEF DestroyPod, Goto, Note, ProvTypeOK,
       fieldVars, cloud, cluster, Ended, Creating, Destroying
<1>10. CASE DestroySecret(b)
  BY <1>0, <1>10 DEF DestroySecret, Goto, Note, Result, deleteSecret, ProvTypeOK,
     fieldVars, cloud, cluster, Ended, Creating, Destroying
<1>11. QED
  BY <1>1, <1>2, <1>3, <1>4, <1>5, <1>6, <1>7, <1>8, <1>9, <1>10
     DEF BuilderNext, Start, Call

\* Every step of a call leaves its builder standing as the next step needs it.
LEMMA StandingStep ==
  ASSUME ProvInv, NEW b \in Builder, BuilderNext(b)
  PROVE  Standing(b)'
<1> USE ProvisionerAssumption
<1>0. ProvTypeOK /\ Standing(b)
  BY DEF ProvInv
<1>1. CASE \E a \in Arch : HetznerCreate(b, a) \/ KubernetesCreate(b, a)
  BY <1>0, <1>1 DEF HetznerCreate, KubernetesCreate, Goto, ProvTypeOK,
     fieldVars, cloud, cluster, Standing, OneBackend, CountFresh, HetznerHas,
     KubernetesHas, Nothing, HetznerSteps, KubernetesSteps
<1>2. CASE HetznerDestroy(b) \/ KubernetesDestroy(b)
  BY <1>0, <1>2 DEF HetznerDestroy, KubernetesDestroy, Goto, TakeArch, ProvTypeOK,
     fieldVars, cloud, cluster, Standing, OneBackend, CountFresh, HetznerHas,
     KubernetesHas, Nothing, HetznerSteps, KubernetesSteps
<1>3. CASE tofuApply(b)
  BY <1>0, <1>3 DEF tofuApply, Goto, ProvTypeOK, fieldVars, cloud, cluster,
     Standing, OneBackend, CountFresh, HetznerHas, KubernetesHas, Nothing,
     HetznerSteps, KubernetesSteps
<1>4. CASE tofuOutput(b) \/ readProxyKey(b)
  BY <1>0, <1>4 DEF tofuOutput, readProxyKey, Goto, ProvTypeOK, fieldVars, cloud,
     cluster, Standing, OneBackend, CountFresh, HetznerHas, KubernetesHas, Nothing,
     HetznerSteps, KubernetesSteps
<1>5. CASE tofuDestroy(b)
  BY <1>0, <1>5 DEF tofuDestroy, Goto, ProvTypeOK, fieldVars, cloud, cluster,
     Standing, OneBackend, CountFresh, HetznerHas, KubernetesHas, Nothing,
     HetznerSteps, KubernetesSteps
<1>6. CASE waitForPort(b) \/ waitForCloudInit(b) \/ waitForSSH(b)
  <2>1. UNCHANGED <<backend, failures, fieldVars, cloud, cluster, vague>>
    BY <1>6 DEF waitForPort, waitForCloudInit, waitForSSH
  <2>2. \/ pc[b] = "port" /\ pc'[b] = "key" /\ tries'[b] = 0
        \/ pc[b] = "port" /\ pc'[b] \in {"port", "failed"}
        \/ pc[b] = "cloudinit" /\ pc'[b] \in {"cloudinit", "ready", "failed"}
        \/ pc[b] = "ssh" /\ pc'[b] \in {"ssh", "ready", "undoPod"}
    BY <1>0, <1>6 DEF waitForPort, waitForCloudInit, waitForSSH, Goto, Retry,
       ProvTypeOK
  <2>3. CASE pc[b] \in {"port", "cloudinit"}
    <3>1. /\ backend = "hetzner" /\ b \in server /\ b \in tfstate /\ b \notin secret
          /\ pod[b] = "none" /\ builderArch[b] # NoArch /\ provConfig
      BY <1>0, <2>3 DEF Standing, OneBackend, HetznerHas, HetznerSteps
    <3>2. /\ backend' = "hetzner" /\ b \in server' /\ b \in tfstate' /\ b \notin secret'
          /\ pod'[b] = "none" /\ builderArch'[b] # NoArch /\ provConfig'
      BY <2>1, <3>1 DEF fieldVars, cloud, cluster
    <3>3. pc'[b] \in {"port", "cloudinit", "key", "ready", "failed"}
          /\ (pc'[b] = "key" => tries'[b] = 0)
      BY <2>2, <2>3
    <3>4. QED
      BY <3>2, <3>3 DEF Standing, OneBackend,
         CountFresh, HetznerHas, KubernetesHas, HetznerSteps, KubernetesSteps
  <2>4. CASE pc[b] = "ssh"
    BY <1>0, <2>1, <2>2, <2>4 DEF fieldVars, cloud, cluster, Standing, OneBackend,
       CountFresh, HetznerHas, KubernetesHas, HetznerSteps, KubernetesSteps
  <2>5. QED
    BY <2>2, <2>3, <2>4
<1>7. CASE createSecret(b)
  BY <1>0, <1>7 DEF createSecret, CreateRequest, Goto, ProvTypeOK, fieldVars, cloud,
     Standing, OneBackend, CountFresh, HetznerHas, KubernetesHas, Nothing,
     HetznerSteps, KubernetesSteps
<1>8. CASE createPod(b)
  BY <1>0, <1>8 DEF createPod, CreateRequest, Goto, ProvTypeOK, fieldVars, cloud,
     Standing, OneBackend, CountFresh, HetznerHas, KubernetesHas, Nothing,
     HetznerSteps, KubernetesSteps
<1>9. CASE waitForBuilder(b) \/ PollFails(b)
  BY <1>0, <1>9 DEF waitForBuilder, PollFails, Goto, ProvTypeOK, fieldVars, cloud,
     cluster, Standing, OneBackend, CountFresh, HetznerHas, KubernetesHas, Nothing,
     HetznerSteps, KubernetesSteps
<1>10. CASE Deadline(b) \/ PodProgress(b)
  BY <1>0, <1>10 DEF Deadline, PodProgress, ProvTypeOK, callVars, fieldVars, cloud,
     cluster, Standing, OneBackend, CountFresh, HetznerHas, KubernetesHas, Nothing
<1>11. CASE undoSecret(b) \/ undoPodSecret(b)
  BY <1>0, <1>11 DEF undoSecret, undoPodSecret, Goto, Note, deleteSecret, Deletion,
     UndoContext, TakeArch, ProvTypeOK, fieldVars, cloud, Standing, OneBackend,
     CountFresh, HetznerHas, KubernetesHas, Nothing, HetznerSteps, KubernetesSteps
<1>12. CASE undoPod(b)
  BY <1>0, <1>12 DEF undoPod, Goto, Note, deletePod, Deletion,
     UndoContext, ProvTypeOK, fieldVars, cloud, Standing, OneBackend,
     CountFresh, HetznerHas, KubernetesHas, Nothing, HetznerSteps, KubernetesSteps
<1>13. CASE DestroyPod(b)
  <2>1. PICK r \in Deletion(expired[b]) :
          /\ pod' = [pod EXCEPT ![b] = IF r.gone THEN "none" ELSE @]
          /\ Note(b, r, expired[b])
          /\ failures' = [failures EXCEPT ![b] = ~r.ok]
    BY <1>13 DEF DestroyPod, deletePod
  <2>2. r.ok => r.gone
    BY DEF Deletion
  <2>3. ~failures'[b] => r.ok
    BY <1>0, <2>1, Zenon DEF ProvTypeOK
  <2>4. ~failures'[b] => pod'[b] = "none"
    BY <1>0, <2>1, <2>2, <2>3 DEF ProvTypeOK
  <2>5. pod[b] = "none" => pod'[b] = "none"
    BY <1>0, <2>1 DEF ProvTypeOK
  <2>6. /\ pc[b] = "deletePod" /\ pc'[b] = "deleteSecret"
        /\ UNCHANGED <<backend, expired, tries, fieldVars, cloud, secret>>
    BY <1>0, <1>13 DEF DestroyPod, Goto, ProvTypeOK
  <2>7. b \in vague => b \in vague'
    BY <2>1 DEF Note
  <2>8. QED
    BY <1>0, <2>4, <2>5, <2>6, <2>7 DEF fieldVars, cloud, Standing, OneBackend,
       CountFresh, HetznerHas, KubernetesHas, Nothing, HetznerSteps,
       KubernetesSteps
<1>14. CASE DestroySecret(b)
  BY <1>0, <1>14 DEF DestroySecret, Result, Goto, Note, deleteSecret, Deletion,
     ProvTypeOK, fieldVars, cloud, Standing, OneBackend,
     CountFresh, HetznerHas, KubernetesHas, Nothing, HetznerSteps, KubernetesSteps
<1>15. QED
  BY <1>1, <1>2, <1>3, <1>4, <1>5, <1>6, <1>7, <1>8, <1>9, <1>10, <1>11, <1>12,
     <1>13, <1>14 DEF BuilderNext, Start, Call

\* At the start there is nothing and no call.
LEMMA ProvInvInit == ProvInit => ProvInv
<1> SUFFICES ASSUME ProvInit PROVE ProvInv
  OBVIOUS
<1>1. ProvTypeOK
  BY ProvisionerAssumption DEF ProvInit, ProvTypeOK, Ended
<1>2. ASSUME NEW b \in Builder PROVE Standing(b)
  BY DEF ProvInit, Standing, OneBackend, CountFresh, HetznerHas, KubernetesHas,
     Nothing, HetznerSteps, KubernetesSteps
<1>3. QED
  BY <1>1, <1>2 DEF ProvInv

\* The invariant is inductive: the calls of the other builders are left alone.
LEMMA ProvInvStep == ProvInv /\ [ProvNext]_pvars => ProvInv'
<1> SUFFICES ASSUME ProvInv, [ProvNext]_pvars PROVE ProvInv'
  OBVIOUS
<1>1. ASSUME NEW b \in Builder, BuilderNext(b) PROVE ProvInv'
  <2>1. \A c \in Builder : Standing(c)'
    BY <1>1, CallsApart, StandingFrame, StandingStep DEF ProvInv
  <2>2. QED
    BY <1>1, <2>1, ProvTypeStep DEF ProvInv
<1>2. CASE UNCHANGED pvars
  BY <1>2 DEF pvars, callVars, fieldVars, cloud, cluster, ProvInv, ProvTypeOK,
     Standing, OneBackend, CountFresh, HetznerHas, KubernetesHas, Nothing
<1>3. QED
  BY <1>1, <1>2 DEF ProvNext, BuilderNext

\* The fields, the counters and the steps of every call keep their types; no
\* waiting loop exceeds its number of attempts.
THEOREM ProvTypeCorrect == ProvSpec => []ProvTypeOK
<1>1. ProvInv => ProvTypeOK
  BY DEF ProvInv
<1>2. QED
  BY <1>1, ProvInvInit, ProvInvStep, PTL DEF ProvSpec

\* A failed Create on Kubernetes leaves nothing behind, at whatever step and
\* with whatever context it failed, unless the API lost an answer or refused a
\* deletion.
THEOREM FailedCreateCleansUp == ProvSpec => []KubernetesCleansUp
<1>1. ProvInv => KubernetesCleansUp
  BY DEF ProvInv, Standing, KubernetesHas, KubernetesCleansUp
<1>2. QED
  BY <1>1, ProvInvInit, ProvInvStep, PTL DEF ProvSpec

\* A server always has the state file that tofu needs to destroy it, unless
\* tofu was killed while it made the server.
THEOREM NoUnrecordedServer == ProvSpec => []ServersOnRecord
<1>1. ProvInv => ServersOnRecord
  BY DEF ProvInv, ProvTypeOK, Standing, ServersOnRecord
<1>2. QED
  BY <1>1, ProvInvInit, ProvInvStep, PTL DEF ProvSpec

-----------------------------------------------------------------------------
(* The refinement *)

\* What the contract sees of b.
UseOf(b) == IF pc[b] \in Creating THEN "creating"
            ELSE IF pc[b] \in Destroying THEN "destroying" ELSE pc[b]

VMOf(b) == IF pc[b] \in Creating THEN "none"
           ELSE IF pc[b] \in Destroying THEN "up"
           ELSE IF pc[b] = "ready" THEN (IF Whole(b) THEN "up" ELSE "none")
           ELSE IF Exists(b) THEN "stuck" ELSE "none"

\* A step as the contract sees it.
Moves(b, from, to, vms) == UseOf(b) = from /\ UseOf(b)' = to /\ VMOf(b)' \in vms

Stays(b) == UseOf(b)' = UseOf(b) /\ VMOf(b)' = VMOf(b)

\* How a call proceeds, and what an ID without a call keeps.
LEMMA CallGraph ==
  ASSUME ProvInv, NEW b \in Builder, BuilderNext(b)
  PROVE  \/ pc'[b] = pc[b] /\ pc[b] \in Creating
         \/ /\ pc'[b] = pc[b] /\ pc[b] \notin Creating
            /\ Exists(b)' <=> Exists(b)
            /\ Whole(b)' <=> Whole(b)
         \/ pc[b] \in {"unborn"} \union Creating /\ pc'[b] \in Creating
         \/ pc[b] \in Creating /\ pc'[b] \in {"ready", "failed"}
         \/ pc[b] = "unborn" /\ pc'[b] = "failed" /\ ~Exists(b)'
         \/ pc[b] = "ready" /\ pc'[b] \in Destroying
         \/ pc[b] \in Destroying /\ pc'[b] \in Destroying \union {"gone", "leaked"}
<1> USE ProvisionerAssumption
<1>0. ProvTypeOK /\ Standing(b)
  BY DEF ProvInv
<1>1. CASE Deadline(b)
  BY <1>1 DEF Deadline, cloud, cluster, Exists, Whole
<1>2. CASE PodProgress(b)
  BY <1>0, <1>2 DEF PodProgress, callVars, cloud, Exists, Whole, ProvTypeOK
<1>3. CASE \E a \in Arch : HetznerCreate(b, a) \/ KubernetesCreate(b, a)
  BY <1>0, <1>3 DEF HetznerCreate, KubernetesCreate, Goto, ProvTypeOK, Creating,
     Exists, Standing, Nothing, cloud, cluster
<1>4. CASE HetznerDestroy(b) \/ KubernetesDestroy(b)
  BY <1>0, <1>4 DEF HetznerDestroy, KubernetesDestroy, Goto, ProvTypeOK, Destroying,
     Standing, HetznerHas
<1>5. CASE tofuApply(b) \/ tofuOutput(b) \/ waitForPort(b) \/ readProxyKey(b)
           \/ waitForCloudInit(b)
  BY <1>0, <1>5 DEF tofuApply, tofuOutput, waitForPort, readProxyKey,
     waitForCloudInit, Retry, Goto, ProvTypeOK, Creating
<1>6. CASE createSecret(b) \/ createPod(b) \/ waitForBuilder(b) \/ waitForSSH(b)
           \/ PollFails(b) \/ undoSecret(b) \/ undoPod(b) \/ undoPodSecret(b)
  BY <1>0, <1>6 DEF createSecret, createPod, CreateRequest, waitForBuilder,
     waitForSSH, PollFails, undoSecret, undoPod, undoPodSecret, Retry, Goto,
     ProvTypeOK, Creating
<1>7. CASE tofuDestroy(b) \/ DestroyPod(b) \/ DestroySecret(b)
  BY <1>0, <1>7 DEF tofuDestroy, DestroyPod, DestroySecret, Result, Goto, ProvTypeOK,
     Destroying
<1>8. QED
  BY <1>1, <1>2, <1>3, <1>4, <1>5, <1>6, <1>7 DEF BuilderNext, Start, Call

\* Every step of b is a step of the contract or none.
LEMMA ContractMove ==
  ASSUME ProvInv, NEW b \in Builder, BuilderNext(b)
  PROVE  \/ Stays(b)
         \/ Moves(b, "unborn", "creating", {"none"})
         \/ Moves(b, "creating", "ready", {"up"})
         \/ Moves(b, "creating", "failed", {"none", "stuck"})
         \/ Moves(b, "unborn", "failed", {"none"})
         \/ Moves(b, "ready", "destroying", {"up"})
         \/ Moves(b, "destroying", "gone", {"none"})
         \/ Moves(b, "destroying", "leaked", {"none", "stuck"})
<1>1. CASE pc'[b] = pc[b]
  BY <1>1, CallGraph DEF Stays, UseOf, VMOf, Creating, Destroying
<1>2. CASE pc[b] \in {"unborn"} \union Creating /\ pc'[b] \in Creating
  BY <1>2 DEF Stays, Moves, UseOf, VMOf, Creating, Destroying
<1>3. CASE pc[b] \in Creating /\ pc'[b] = "ready"
  <2>1. ProvTypeOK' /\ Standing(b)'
    BY StandingStep, ProvTypeStep
  <2>2. Whole(b)'
    BY <1>3, <2>1, ProvisionerAssumption DEF Standing, HetznerHas, KubernetesHas,
       Whole, ProvTypeOK
  <2>3. QED
    BY <1>3, <2>2 DEF Moves, UseOf, VMOf, Creating, Destroying
<1>4. CASE /\ pc[b] \in Creating /\ pc'[b] = "failed"
  BY <1>4 DEF Moves, UseOf, VMOf, Creating, Destroying
<1>5. CASE pc[b] = "unborn" /\ pc'[b] = "failed" /\ ~Exists(b)'
  BY <1>5 DEF Moves, UseOf, VMOf, Creating, Destroying
<1>6. CASE pc[b] = "ready" /\ pc'[b] \in Destroying
  BY <1>6 DEF Moves, UseOf, VMOf, Creating, Destroying
<1>7. CASE pc[b] \in Destroying /\ pc'[b] \in Destroying
  BY <1>7 DEF Stays, UseOf, VMOf, Creating, Destroying
<1>8. CASE pc[b] \in Destroying /\ pc'[b] = "gone"
  <2>1. ~Exists(b)'
    BY <1>8, StandingStep DEF Standing, Nothing, Exists
  <2>2. QED
    BY <1>8, <2>1 DEF Moves, UseOf, VMOf, Creating, Destroying
<1>9. CASE pc[b] \in Destroying /\ pc'[b] = "leaked"
  BY <1>9 DEF Moves, UseOf, VMOf, Creating, Destroying
<1>10. QED
  BY <1>1, <1>2, <1>3, <1>4, <1>5, <1>6, <1>7, <1>8, <1>9, CallGraph

\* A builder that a step does not concern looks the same to the contract.
LEMMA ContractFrame ==
  ASSUME NEW c \in Builder, SameFor(c), backend' = backend
  PROVE  Stays(c)
  BY DEF Stays, UseOf, VMOf, SameFor, Whole, Exists

\* The contract's variables, under the mapping, follow UseOf and VMOf.
LEMMA ContractStep == ProvInv /\ [ProvNext]_pvars =>
                        [Contract!ContractNext]_(Contract!contractVars)
<1> SUFFICES ASSUME ProvInv, [ProvNext]_pvars
             PROVE  [Contract!ContractNext]_(Contract!contractVars)
  OBVIOUS
<1> DEFINE use == [b \in Builder |-> UseOf(b)]
           vm  == [b \in Builder |-> VMOf(b)]
<1>1. ASSUME NEW b \in Builder, NEW from, NEW to, NEW vms, Moves(b, from, to, vms),
             \A c \in Builder \ {b} : Stays(c)
      PROVE  Contract!Step(b, from, to, vms)
  <2>1. use[b] = from /\ use' = [use EXCEPT ![b] = to]
    BY <1>1 DEF Moves, Stays
  <2>2. \E v \in vms : vm' = [vm EXCEPT ![b] = v]
    BY <1>1 DEF Moves, Stays
  <2>3. QED
    BY <2>1, <2>2 DEF Contract!Step, UseOf, VMOf
<1>2. ASSUME \A c \in Builder : Stays(c) PROVE UNCHANGED Contract!contractVars
  <2>1. use' = use /\ vm' = vm
    BY <1>2 DEF Stays
  <2>2. QED
    BY <2>1 DEF Contract!contractVars, UseOf, VMOf
<1>3. ASSUME NEW b \in Builder, BuilderNext(b)
      PROVE  [Contract!ContractNext]_(Contract!contractVars)
  <2>1. \A c \in Builder \ {b} : Stays(c)
    BY <1>3, CallsApart, ContractFrame DEF ProvInv
  <2>2. CASE Stays(b)
    BY <1>2, <2>1, <2>2
  <2>3. CASE ~Stays(b)
    BY <1>1, <1>3, <2>1, <2>3, ContractMove DEF Contract!ContractNext,
       Contract!CreateStarts, Contract!CreateOK, Contract!CreateFails,
       Contract!DestroyStarts, Contract!DestroyOK, Contract!DestroyFails
  <2>4. QED
    BY <2>2, <2>3
<1>4. CASE UNCHANGED pvars
  <2>1. \A c \in Builder : Stays(c)
    BY <1>4 DEF pvars, callVars, cloud, cluster, Stays, UseOf, VMOf, Exists, Whole
  <2>2. QED
    BY <1>2, <2>1
<1>5. QED
  BY <1>3, <1>4 DEF ProvNext, BuilderNext

\* Both provisioners implement the contract that BuilderPool relies on, with
\* calls on any number of builders interleaved and any step failing.
THEOREM ProvisionersKeepContract == ProvSpec => ImplementsContract
<1>1. ProvInit => Contract!ContractInit
  BY DEF ProvInit, Contract!ContractInit, Creating, Destroying, Exists, Whole
<1>2. QED
  BY <1>1, ProvInvInit, ProvInvStep, ContractStep, PTL
     DEF ProvSpec, ImplementsContract, Contract!ContractSpec
=============================================================================
