----------------------------- MODULE BuilderPool -----------------------------
(***************************************************************************)
(* The pool of builder VMs of provisioner/pool.go, with the goroutines     *)
(* that act on it:                                                         *)
(*   - callers: one GetBuilder ... ReleaseBuilder session each (a          *)
(*     BuildDerivation handler or a gradient build task);                  *)
(*   - the maintenance worker (provision signals and the 30 s ticker);     *)
(*   - one provisionBackground goroutine for each VM being created;        *)
(*   - one goroutine for each VM being destroyed;                          *)
(*   - the signal handler of main, which runs DestroyAll and exits.        *)
(* Every critical section of Pool.mu is one action.  The provisioner that  *)
(* creates and destroys VMs is external here: Create and Destroy may       *)
(* succeed or fail at any time.                                            *)
(***************************************************************************)
EXTENDS Integers, FiniteSets, Sequences, SequencesExt, PoolSeq

CONSTANTS
  Client,        \* the goroutines that call GetBuilder
  Builder,       \* builder IDs; bounds the VMs that exist at one time
  Arch,          \* architectures
  NoArch, NoBuilder,
  Reuse,         \* PoolConfig.Reuse
  MaxPoolSize,   \* PoolConfig.MaxPoolSize
  SignalCap      \* capacity of provisionSignal (10 in NewPool)

ASSUME PoolAssumption ==
  /\ Reuse \in BOOLEAN
  /\ MaxPoolSize \in Nat
  /\ SignalCap \in Nat \ {0}
  /\ NoBuilder \notin Builder
  /\ NoArch \notin Arch
  /\ IsFiniteSet(Client)
  /\ IsFiniteSet(Builder)

VARIABLES
  \* the fields of Pool, guarded by mu
  builders,          \* keys of the builders map: every tracked builder
  availablePool,     \* arch -> idle builders, oldest first
  activeBuilders,    \* keys of the activeBuilders map
  waiters,           \* the callers whose BuilderRequest is queued
  provisioningCount, \* arch -> count of provisioning goroutines
  rec,               \* the Builder structs
  \* channels and goroutines
  provisionSignal,   \* number of buffered signals
  call,              \* each caller's session: its stack and its BuilderRequest
  worker,            \* where the maintenance worker stands
  spawned,           \* arch -> provisionBackground goroutines not yet running
  prov,              \* the provisionBackground goroutine of a builder ID
  sleeping,          \* builders whose scheduleDestruction is in its delay
  destroyGo,         \* Destroy calls in progress: <<who called, builder>>
  \* environment
  vm,                \* what runs at the provider under this ID
  mode               \* main: serving, in DestroyAll, or exited

poolVars == <<builders, availablePool, activeBuilders, waiters,
              provisioningCount, rec>>
goVars   == <<provisionSignal, call, worker, spawned, prov, sleeping,
              destroyGo>>
vars     == <<poolVars, goVars, vm, mode>>

-----------------------------------------------------------------------------
(* Types *)

\* "Provisioning" stands for a record that Create has not returned yet.
BuilderStatus == {"Provisioning", "Ready", "InUse", "Pooled", "Destroying"}

\* time.Time LastUsed: never set, within IdleTimeout of now, or older.
Time == {"zero", "recent", "old"}

BuilderRec == [arch : Arch \union {NoArch}, status : BuilderStatus,
               lastUsed : Time]

\* A caller is outside the pool, about to signal, in the select of
\* acquireBuilder, dialling the builder, or building on it.
CallPC == {"idle", "signal", "select", "dial", "build"}

Call == [pc      : CallPC,
         arch    : Arch \union {NoArch},        \* request.Arch
         expired : BOOLEAN,                     \* request.Ctx.Err() # nil
         resp    : Builder \union {NoBuilder},  \* in ResponseChan
         held    : Builder \union {NoBuilder}]  \* returned by acquireBuilder

Idle == [pc |-> "idle", arch |-> NoArch, expired |-> FALSE,
         resp |-> NoBuilder, held |-> NoBuilder]

\* Who may call Destroy: scheduleDestruction, cleanupOldBuilders, DestroyAll.
Destroyer == {"schedule", "idle", "shutdown"}

\* "stuck": the VM runs but the call that should have removed it failed.
VMState == {"none", "up", "stuck"}

TypeOK ==
  /\ builders \in SUBSET Builder
  /\ availablePool \in [Arch -> Seq(Builder)]
  /\ activeBuilders \in SUBSET Builder
  /\ waiters \in Seq(Client)
  /\ provisioningCount \in [Arch -> Int]
  /\ rec \in [Builder -> BuilderRec]
  /\ provisionSignal \in 0..SignalCap
  /\ call \in [Client -> Call]
  /\ worker \in {"select", "scale", "cleanup"}
  /\ spawned \in [Arch -> Nat]
  /\ prov \in [Builder -> {"none", "create", "created", "exit"}]
  /\ sleeping \in SUBSET Builder
  /\ destroyGo \in SUBSET (Destroyer \X Builder)
  /\ vm \in [Builder -> VMState]
  /\ mode \in {"serving", "destroying", "exited"}

NewPool ==
  /\ builders = {}
  /\ availablePool = [a \in Arch |-> <<>>]
  /\ activeBuilders = {}
  /\ waiters = <<>>
  /\ provisioningCount = [a \in Arch |-> 0]
  /\ provisionSignal = 0

Init ==
  /\ NewPool
  /\ rec = [b \in Builder |->
              [arch |-> NoArch, status |-> "Provisioning", lastUsed |-> "zero"]]
  /\ call = [c \in Client |-> Idle]
  /\ worker = "select"
  /\ spawned = [a \in Arch |-> 0]
  /\ prov = [b \in Builder |-> "none"]
  /\ sleeping = {}
  /\ destroyGo = {}
  /\ vm = [b \in Builder |-> "none"]
  /\ mode = "serving"

\* os.Exit has not ended the process and its goroutines.
Alive == mode # "exited"

-----------------------------------------------------------------------------
(* Waiters.  A request whose context has expired stays in the queue until  *)
(* its own caller removes it, and is skipped meanwhile.                    *)

Wants(c, a) == ~call[c].expired /\ call[c].arch = a

LiveWaiters(a) == {c \in ToSet(waiters) : Wants(c, a)}

\* Mutant: any matching waiter may be taken, not the first.
IsFirstWaiter_Any(i, a) == Wants(waiters[i], a)

IsFirstWaiter(i, a) ==
  /\ Wants(waiters[i], a)
  /\ \A j \in 1..(i - 1) : ~Wants(waiters[j], a)

\* Take the first live waiter of the builder's arch off the queue and put
\* the builder in its response channel; calls is the rest of the step's
\* effect on the callers.
HandToWaiter(b, calls) ==
  \E i \in DOMAIN waiters :
    /\ IsFirstWaiter(i, rec[b].arch)
    /\ waiters' = RemoveAt(waiters, i)
    /\ call' = [calls EXCEPT ![waiters[i]].resp = b]

\* Mutant: only the head of the queue is looked at.
NoWaiterFor_HeadOnly(a) == waiters = <<>> \/ ~Wants(Head(waiters), a)

NoWaiterFor(a) == \A i \in DOMAIN waiters : ~Wants(waiters[i], a)

-----------------------------------------------------------------------------
(* GetBuilder and ReleaseBuilder.  A platform without an architecture is   *)
(* refused before the pool is touched, so calls start with an arch.        *)

\* The builder as acquireBuilder marks it for its new user.
InUse(b) == [rec EXCEPT ![b].status = "InUse", ![b].lastUsed = "recent"]

\* Mutant: the builder is read from the pool but not taken out of it.
TakeOldest_Peek(a) == availablePool

TakeOldest(a) == [availablePool EXCEPT ![a] = Tail(@)]

AcquirePooled(c, a) ==
  /\ Alive
  /\ call[c].pc = "idle"
  /\ availablePool[a] # <<>>
  /\ LET b == Head(availablePool[a]) IN
       /\ availablePool' = TakeOldest(a)
       /\ rec' = InUse(b)
       /\ activeBuilders' = activeBuilders \union {b}
       /\ call' = [call EXCEPT ![c] = [Idle EXCEPT !.pc = "dial", !.arch = a,
                                                   !.held = b]]
  /\ UNCHANGED <<builders, waiters, provisioningCount, provisionSignal, worker,
                 spawned, prov, sleeping, destroyGo, vm, mode>>

AcquireEnqueue(c, a) ==
  /\ Alive
  /\ call[c].pc = "idle"
  /\ availablePool[a] = <<>>
  /\ waiters' = Append(waiters, c)
  /\ call' = [call EXCEPT ![c] = [Idle EXCEPT !.pc = "signal", !.arch = a]]
  /\ UNCHANGED <<builders, availablePool, activeBuilders, provisioningCount,
                 rec, provisionSignal, worker, spawned, prov, sleeping,
                 destroyGo, vm, mode>>

\* Mutant: the channel is taken for an unbounded one.
AfterSend_Unbounded == provisionSignal + 1

\* The non-blocking send: a full channel drops the signal.
AfterSend == IF provisionSignal < SignalCap THEN provisionSignal + 1
             ELSE provisionSignal

SendSignal(c) ==
  /\ Alive
  /\ call[c].pc = "signal"
  /\ provisionSignal' = AfterSend
  /\ call' = [call EXCEPT ![c].pc = "select"]
  /\ UNCHANGED <<poolVars, worker, spawned, prov, sleeping, destroyGo, vm,
                 mode>>

\* Mutant: the request waits on a context without a timeout.
Expire_Never(c) == FALSE /\ UNCHANGED vars

\* The 10 minute timeout of the request's context fires.
Expire(c) ==
  /\ Alive
  /\ call[c].pc \in {"signal", "select"}
  /\ ~call[c].expired
  /\ call' = [call EXCEPT ![c].expired = TRUE]
  /\ UNCHANGED <<poolVars, provisionSignal, worker, spawned, prov, sleeping,
                 destroyGo, vm, mode>>

\* select takes the ResponseChan branch.
Receive(c) ==
  /\ Alive
  /\ call[c].pc = "select"
  /\ call[c].resp # NoBuilder
  /\ LET b == call[c].resp IN
       /\ rec' = InUse(b)
       /\ activeBuilders' = activeBuilders \union {b}
       /\ call' = [call EXCEPT ![c] = [Idle EXCEPT !.pc = "dial",
                                          !.arch = call[c].arch, !.held = b]]
  /\ UNCHANGED <<builders, availablePool, waiters, provisioningCount,
                 provisionSignal, worker, spawned, prov, sleeping, destroyGo,
                 vm, mode>>

\* select takes the ctx.Done branch, which Go may choose even when the
\* response channel holds a builder: that builder then becomes garbage.
TimeOut(c) ==
  /\ Alive
  /\ call[c].pc = "select"
  /\ call[c].expired
  /\ waiters' = RemoveFirst(waiters, c)
  /\ call' = [call EXCEPT ![c] = Idle]
  /\ UNCHANGED <<builders, availablePool, activeBuilders, provisioningCount,
                 rec, provisionSignal, worker, spawned, prov, sleeping,
                 destroyGo, vm, mode>>

DialOK(c) ==
  /\ Alive
  /\ call[c].pc = "dial"
  /\ call' = [call EXCEPT ![c].pc = "build"]
  /\ UNCHANGED <<poolVars, provisionSignal, worker, spawned, prov, sleeping,
                 destroyGo, vm, mode>>

ReleasedRec(b, st) == [rec EXCEPT ![b].status = st, ![b].lastUsed = "recent"]

\* Mutant: off by one.
KeepForReuse_OffByOne(a) == Reuse /\ Len(availablePool[a]) <= MaxPoolSize

KeepForReuse(a) == Reuse /\ Len(availablePool[a]) < MaxPoolSize

\* releaseBuilder, called by c for the builder it got; c then returns.
releaseBuilder(c) ==
  LET b    == call[c].held
      a    == rec[b].arch
      done == [call EXCEPT ![c] = Idle]
  IN \/ /\ b \notin activeBuilders
        /\ call' = done
        /\ UNCHANGED <<availablePool, activeBuilders, waiters, rec, sleeping>>
     \/ /\ b \in activeBuilders
        /\ activeBuilders' = activeBuilders \ {b}
        /\ HandToWaiter(b, done)
        /\ rec' = ReleasedRec(b, rec[b].status)
        /\ UNCHANGED <<availablePool, sleeping>>
     \/ /\ b \in activeBuilders
        /\ activeBuilders' = activeBuilders \ {b}
        /\ NoWaiterFor(a)
        /\ KeepForReuse(a)
        /\ rec' = ReleasedRec(b, "Pooled")
        /\ availablePool' = [availablePool EXCEPT ![a] = Append(@, b)]
        /\ call' = done
        /\ UNCHANGED <<waiters, sleeping>>
     \/ /\ b \in activeBuilders
        /\ activeBuilders' = activeBuilders \ {b}
        /\ NoWaiterFor(a)
        /\ ~KeepForReuse(a)
        /\ rec' = ReleasedRec(b, "Destroying")
        /\ sleeping' = sleeping \union {b}
        /\ call' = done
        /\ UNCHANGED <<availablePool, waiters>>

\* Mutant: GetBuilder returns the dial error without releasing the builder.
DialFail_NoRelease(c) ==
  /\ Alive
  /\ call[c].pc = "dial"
  /\ call' = [call EXCEPT ![c] = Idle]
  /\ activeBuilders' = activeBuilders \ {call[c].held}
  /\ UNCHANGED <<builders, availablePool, waiters, provisioningCount, rec,
                 provisionSignal, worker, spawned, prov, sleeping, destroyGo,
                 vm, mode>>

\* ssh.Dial fails (GetBuilder releases the builder), or the build is over.
DialFail(c) ==
  /\ Alive
  /\ call[c].pc = "dial"
  /\ releaseBuilder(c)
  /\ UNCHANGED <<builders, provisioningCount, provisionSignal, worker, spawned,
                 prov, destroyGo, vm, mode>>

ReleaseBuilder(c) ==
  /\ Alive
  /\ call[c].pc = "build"
  /\ releaseBuilder(c)
  /\ UNCHANGED <<builders, provisioningCount, provisionSignal, worker, spawned,
                 prov, destroyGo, vm, mode>>

-----------------------------------------------------------------------------
(* The maintenance worker *)

Needed(a) ==
  LET n == Cardinality(LiveWaiters(a))
  IN IF n > provisioningCount[a] THEN n - provisioningCount[a] ELSE 0

checkAndScale ==
  /\ provisioningCount' = [a \in Arch |-> provisioningCount[a] + Needed(a)]
  /\ spawned' = [a \in Arch |-> spawned[a] + Needed(a)]

TakeSignal ==
  /\ Alive
  /\ worker = "select"
  /\ provisionSignal > 0
  /\ provisionSignal' = provisionSignal - 1
  /\ worker' = "scale"
  /\ UNCHANGED <<poolVars, call, spawned, prov, sleeping, destroyGo, vm, mode>>

ScaleOnSignal ==
  /\ Alive
  /\ worker = "scale"
  /\ checkAndScale
  /\ worker' = "select"
  /\ UNCHANGED <<builders, availablePool, activeBuilders, waiters, rec,
                 provisionSignal, call, prov, sleeping, destroyGo, vm, mode>>

\* Mutant: the ticker only cleans up.
ScaleOnTick_CleanupOnly ==
  /\ Alive
  /\ worker = "select"
  /\ worker' = "cleanup"
  /\ UNCHANGED <<poolVars, provisionSignal, call, spawned, prov, sleeping,
                 destroyGo, vm, mode>>

\* The ticker fires; cleanupOldBuilders follows in a second critical section.
ScaleOnTick ==
  /\ Alive
  /\ worker = "select"
  /\ checkAndScale
  /\ worker' = "cleanup"
  /\ UNCHANGED <<builders, availablePool, activeBuilders, waiters, rec,
                 provisionSignal, call, prov, sleeping, destroyGo, vm, mode>>

\* now.Sub(LastUsed) > IdleTimeout; a LastUsed that was never set is older
\* than any timeout.
IsStale(b) == rec[b].lastUsed # "recent"

\* Mutant: every tracked builder is examined, not only the pooled ones.
Stale_AllTracked(a) == {b \in builders : rec[b].arch = a /\ IsStale(b)}

Stale(a) == {b \in ToSet(availablePool[a]) : IsStale(b)}

cleanupOldBuilders ==
  LET old == UNION {Stale(a) : a \in Arch} IN
    /\ Alive
    /\ worker = "cleanup"
    /\ worker' = "select"
    /\ availablePool' = [a \in Arch |-> Without(availablePool[a], old)]
    /\ builders' = builders \ old
    /\ rec' = [b \in Builder |->
         IF b \in old THEN [rec[b] EXCEPT !.status = "Destroying"] ELSE rec[b]]
    /\ destroyGo' = destroyGo \union ({"idle"} \X old)
    /\ UNCHANGED <<activeBuilders, waiters, provisioningCount, provisionSignal,
                   call, spawned, prov, sleeping, vm, mode>>

\* Time passes: a pooled builder gets past IdleTimeout (15 min).  During the
\* at most 10 minutes of DestroyAll nothing that was released then can.
GrowIdle(b) ==
  /\ mode = "serving"
  /\ rec[b].status = "Pooled"
  /\ rec[b].lastUsed = "recent"
  /\ rec' = [rec EXCEPT ![b].lastUsed = "old"]
  /\ UNCHANGED <<builders, availablePool, activeBuilders, waiters,
                 provisioningCount, goVars, vm, mode>>

-----------------------------------------------------------------------------
(* provisionBackground *)

\* generateID never returns an ID that is still in use somewhere.
Unused(b) ==
  /\ prov[b] = "none"
  /\ vm[b] = "none"
  /\ b \notin builders \union activeBuilders \union sleeping
  /\ \A k \in Destroyer : <<k, b>> \notin destroyGo
  /\ \A a \in Arch : b \notin ToSet(availablePool[a])
  /\ \A c \in Client : b # call[c].resp /\ b # call[c].held

StartProvision(a, b) ==
  /\ Alive
  /\ spawned[a] > 0
  /\ Unused(b)
  /\ spawned' = [spawned EXCEPT ![a] = @ - 1]
  /\ prov' = [prov EXCEPT ![b] = "create"]
  /\ rec' = [rec EXCEPT ![b] = [arch |-> a, status |-> "Provisioning",
                                lastUsed |-> "zero"]]
  /\ UNCHANGED <<builders, availablePool, activeBuilders, waiters,
                 provisioningCount, provisionSignal, call, worker, sleeping,
                 destroyGo, vm, mode>>

CreateOK(b) ==
  /\ Alive
  /\ prov[b] = "create"
  /\ prov' = [prov EXCEPT ![b] = "created"]
  /\ vm' = [vm EXCEPT ![b] = "up"]
  /\ UNCHANGED <<poolVars, provisionSignal, call, worker, spawned, sleeping,
                 destroyGo, mode>>

\* Mutant: the failure path returns before the decrement is deferred.
CreateFail_NoDecrement(b) ==
  /\ Alive
  /\ prov[b] = "create"
  /\ prov' = [prov EXCEPT ![b] = "none"]
  /\ UNCHANGED <<poolVars, provisionSignal, call, worker, spawned, sleeping,
                 destroyGo, vm, mode>>

\* Create fails after cleaning up, or (hetzner-ubuntu, once tofu apply has
\* run) leaves a VM behind that the pool never hears of.
CreateFail(b) ==
  /\ Alive
  /\ prov[b] = "create"
  /\ prov' = [prov EXCEPT ![b] = "exit"]
  /\ \E s \in {"none", "stuck"} : vm' = [vm EXCEPT ![b] = s]
  /\ UNCHANGED <<poolVars, provisionSignal, call, worker, spawned, sleeping,
                 destroyGo, mode>>

RegisterHandOff(b) ==
  /\ Alive
  /\ prov[b] = "created"
  /\ builders' = builders \union {b}
  /\ rec' = [rec EXCEPT ![b].status = "Ready"]
  /\ HandToWaiter(b, call)
  /\ prov' = [prov EXCEPT ![b] = "exit"]
  /\ UNCHANGED <<availablePool, activeBuilders, provisioningCount,
                 provisionSignal, worker, spawned, sleeping, destroyGo, vm,
                 mode>>

RegisterPooled(b) ==
  /\ Alive
  /\ prov[b] = "created"
  /\ NoWaiterFor(rec[b].arch)
  /\ builders' = builders \union {b}
  /\ rec' = [rec EXCEPT ![b].status = "Pooled"]
  /\ availablePool' = [availablePool EXCEPT ![rec[b].arch] = Append(@, b)]
  /\ prov' = [prov EXCEPT ![b] = "exit"]
  /\ UNCHANGED <<activeBuilders, waiters, provisioningCount, provisionSignal,
                 call, worker, spawned, sleeping, destroyGo, vm, mode>>

\* The deferred decrement, a critical section of its own.
EndProvision(b) ==
  /\ Alive
  /\ prov[b] = "exit"
  /\ prov' = [prov EXCEPT ![b] = "none"]
  /\ provisioningCount' = [provisioningCount EXCEPT ![rec[b].arch] = @ - 1]
  /\ UNCHANGED <<builders, availablePool, activeBuilders, waiters, rec,
                 provisionSignal, call, worker, spawned, sleeping, destroyGo,
                 vm, mode>>

-----------------------------------------------------------------------------
(* Destruction and shutdown *)

\* Mutants: the map is not consulted; the wrong status is compared.
StillToDestroy_AnyID(b) == rec[b].status = "Destroying"
StillToDestroy_Pooled(b) == b \in builders /\ rec[b].status = "Pooled"

StillToDestroy(b) == b \in builders /\ rec[b].status = "Destroying"

\* scheduleDestruction after its delay: give up, or untrack and destroy.
scheduleDestruction(b) ==
  /\ Alive
  /\ b \in sleeping
  /\ sleeping' = sleeping \ {b}
  /\ IF StillToDestroy(b)
     THEN /\ builders' = builders \ {b}
          /\ destroyGo' = destroyGo \union {<<"schedule", b>>}
     ELSE UNCHANGED <<builders, destroyGo>>
  /\ UNCHANGED <<availablePool, activeBuilders, waiters, provisioningCount,
                 rec, provisionSignal, call, worker, spawned, prov, vm, mode>>

\* Destroy returns; an error is only logged, nobody retries.
DestroyReturns(k, b) ==
  /\ Alive
  /\ <<k, b>> \in destroyGo
  /\ destroyGo' = destroyGo \ {<<k, b>>}
  /\ \E s \in {"none", "stuck"} : vm' = [vm EXCEPT ![b] = s]
  /\ UNCHANGED <<poolVars, provisionSignal, call, worker, spawned, prov,
                 sleeping, mode>>

\* SIGINT or SIGTERM: the critical section of DestroyAll.  The waiters and
\* the goroutines in flight are left alone.
DestroyAll ==
  /\ mode = "serving"
  /\ mode' = "destroying"
  /\ destroyGo' = destroyGo \union ({"shutdown"} \X builders)
  /\ builders' = {}
  /\ availablePool' = [a \in Arch |-> <<>>]
  /\ activeBuilders' = {}
  /\ UNCHANGED <<waiters, provisioningCount, rec, provisionSignal, call,
                 worker, spawned, prov, sleeping, vm>>

\* DestroyAll's Wait is over; os.Exit ends every goroutine.
Exit ==
  /\ mode = "destroying"
  /\ \A b \in Builder : <<"shutdown", b>> \notin destroyGo
  /\ mode' = "exited"
  /\ UNCHANGED <<poolVars, goVars, vm>>

Exited == mode = "exited" /\ UNCHANGED vars

-----------------------------------------------------------------------------
Caller(c) ==
  \/ \E a \in Arch : AcquirePooled(c, a) \/ AcquireEnqueue(c, a)
  \/ SendSignal(c) \/ Expire(c) \/ Receive(c) \/ TimeOut(c)
  \/ DialOK(c) \/ DialFail(c) \/ ReleaseBuilder(c)

maintenanceWorker ==
  TakeSignal \/ ScaleOnSignal \/ ScaleOnTick \/ cleanupOldBuilders

provisionBackground(b) ==
  \/ \E a \in Arch : StartProvision(a, b)
  \/ CreateOK(b) \/ CreateFail(b)
  \/ RegisterHandOff(b) \/ RegisterPooled(b) \/ EndProvision(b)

Destruction(b) ==
  scheduleDestruction(b) \/ \E k \in Destroyer : DestroyReturns(k, b)

Next ==
  \/ \E c \in Client : Caller(c)
  \/ maintenanceWorker
  \/ \E b \in Builder : provisionBackground(b) \/ Destruction(b) \/ GrowIdle(b)
  \/ DestroyAll
  \/ Exit
  \/ Exited

Spec == Init /\ [][Next]_vars

\* Goroutines run when they can, the timers (request timeout, ticker, destroy
\* delay) fire, and Create and Destroy return: each is called with a context
\* that has a timeout.  Nothing makes a build end or a client call.
Fairness ==
  /\ \A c \in Client :
       /\ WF_vars(SendSignal(c))
       /\ WF_vars(Expire(c))
       /\ WF_vars(Receive(c) \/ TimeOut(c))
  /\ WF_vars(maintenanceWorker)
  /\ \A b \in Builder :
       /\ WF_vars(provisionBackground(b))
       /\ WF_vars(Destruction(b))

FairSpec == Spec /\ Fairness

-----------------------------------------------------------------------------
(* Properties *)

Has(c, b) == call[c].resp = b \/ call[c].held = b

InPool(b) == \E a \in Arch : b \in ToSet(availablePool[a])

BeingDestroyed(b) == \E k \in Destroyer : <<k, b>> \in destroyGo

OneHolder ==
  \A b \in Builder, c, d \in Client : Has(c, b) /\ Has(d, b) => c = d

PoolsDistinct ==
  \A a1, a2 \in Arch :
    \A i \in DOMAIN availablePool[a1], j \in DOMAIN availablePool[a2] :
      availablePool[a1][i] = availablePool[a2][j] => a1 = a2 /\ i = j

\* A builder has one home at a time: the response channel or the hands of one
\* caller, or one slot of one arch's pool.  This is what lets two concurrent
\* builds trust that they are not given the same VM, whatever the order of
\* acquire, release, handoff, timeout and shutdown.
OneHome ==
  /\ OneHolder
  /\ \A b \in Builder, c \in Client : Has(c, b) => ~InPool(b)
  /\ PoolsDistinct

\* Until shutdown, the builder a caller dials or builds on is a tracked,
\* running VM of the arch it asked for, however it came to the caller, and no
\* goroutine is destroying or about to destroy it.
HeldIsUp ==
  mode = "serving" =>
    \A c \in Client, b \in Builder : call[c].held = b =>
      /\ vm[b] = "up"
      /\ rec[b].arch = call[c].arch
      /\ b \in builders
      /\ b \in activeBuilders
      /\ ~BeingDestroyed(b)
      /\ b \notin sleeping

\* No builder idles in the pool while a live request for its arch is queued:
\* a request enters the queue only when the pool is empty, and a builder
\* enters the pool only when no live request wants it.
NoIdleWhileWaiting ==
  \A a \in Arch : availablePool[a] # <<>> => LiveWaiters(a) = {}

\* provisioningCount is exactly the number of provisioning goroutines that
\* have not yet run their deferred decrement, on success and failure paths.
CountExact ==
  \A a \in Arch : provisioningCount[a] =
    spawned[a]
      + Cardinality({b \in Builder : prov[b] # "none" /\ rec[b].arch = a})

\* Destroy runs at most once for a VM: scheduleDestruction, the idle cleanup
\* and DestroyAll never both pick the same builder, and none of them picks
\* one whose Destroy has already returned.
DestroyOnce ==
  \A k \in Destroyer, b \in Builder : <<k, b>> \in destroyGo =>
    /\ vm[b] = "up"
    /\ \A j \in Destroyer : <<j, b>> \in destroyGo => j = k

\* Tracked builders that nobody holds, nobody will destroy and no acquire can
\* find: only DestroyAll can still reach them.
Stranded ==
  {b \in builders : /\ ~InPool(b)
                    /\ b \notin sleeping
                    /\ \A c \in Client : ~Has(c, b)}

\* The race of a request's timeout with a handoff is the only way the pool
\* loses a builder.
StrandedOnlyByTimeout ==
  [][\A b \in Stranded' \ Stranded :
       \E c \in Client : call[c].resp = b /\ call[c].expired]_vars

\* A pool grows past "MaxPoolSize int // Per arch" only by a VM that has just
\* been provisioned and finds no waiter left: no release takes it there.
OverfullOnlyByProvision ==
  [][\A a \in Arch :
       Len(availablePool'[a]) > Len(availablePool[a])
         /\ Len(availablePool'[a]) > MaxPoolSize
       => \E b \in Builder : prov[b] = "created" /\ prov'[b] = "exit"]_vars

GetsBuilder(c) ==
  \/ call[c].resp = NoBuilder /\ call'[c].resp # NoBuilder
  \/ call[c].pc = "idle" /\ call'[c].held # NoBuilder

\* A builder never goes to a caller while a live request for the same arch
\* has been queued longer: neither a handoff nor the fast path of a new
\* acquire overtakes the queue.
NoOvertaking ==
  [][\A c \in Client : GetsBuilder(c) =>
       \A i \in DOMAIN waiters :
         Wants(waiters[i], call'[c].arch) =>
           \E j \in 1..i : waiters[j] = c]_vars

\* Every request ends: with a builder or with the timeout error.
CallsReturn ==
  \A c \in Client : call[c].pc \in {"signal", "select"}
                     ~> call[c].pc \notin {"signal", "select"}
                        \/ mode = "exited"

\* Too few VMs under way for the live requests is only ever temporary, even
\* when a signal is dropped, a Create fails, or a request arrives between a
\* handoff and the deferred decrement.
ScaleUp ==
  \A a \in Arch :
    Cardinality(LiveWaiters(a)) > provisioningCount[a]
      ~> Cardinality(LiveWaiters(a)) <= provisioningCount[a]
         \/ mode = "exited"

\* A builder that was marked for destruction is eventually destroyed (or its
\* Destroy fails): it does not stay in the builders map.
DestroyedEventually ==
  \A b \in Builder :
    (b \in builders /\ rec[b].status = "Destroying")
      ~> (b \notin builders \/ mode = "exited")

-----------------------------------------------------------------------------
(* The pool as a lease service *)

\* A caller waits in GetBuilder, or uses what it returned: it dials the builder
\* or builds on it.
LeasePhase(c) ==
  CASE call[c].pc = "idle"               -> "out"
    [] call[c].pc \in {"signal", "select"} -> "waiting"
    [] call[c].pc \in {"dial", "build"}    -> "using"

\* A caller leases every builder in its response channel or in its hands.
Leased(c) == {b \in Builder : Has(c, b)}

Idling == {b \in Builder : InPool(b)}

\* The VMs that the pool has been told of, or that a failed Create left behind,
\* and that Destroy has not removed.
KnownUp ==
  {b \in Builder : vm[b] # "none" /\ prov[b] \notin {"create", "created"}}

Lease == INSTANCE BuilderLease WITH
           phase  <- [c \in Client |-> LeasePhase(c)],
           leases <- [c \in Client |-> Leased(c)],
           free   <- Idling,
           up     <- KnownUp,
           open   <- (mode = "serving")

\* The pool implements the lease service: no interleaving of handoffs,
\* timeouts, idle cleanup and shutdown leases a builder twice, gives a caller
\* a builder it did not wait for, or takes one, or its VM, from the caller
\* that holds it.
ImplementsLease == Lease!LeaseSpec

-----------------------------------------------------------------------------
(* What comments of the code promise and the code does not keep *)

\* "destroy all builders before exiting": no VM runs after the exit except
\* one whose own Create or Destroy failed.
NoVMAfterExit == mode = "exited" => \A b \in Builder : vm[b] # "up"
=============================================================================
