----------------------------- MODULE BuilderLease -----------------------------
(***************************************************************************)
(* What the builder pool promises its callers, without queues, channels or *)
(* goroutines: a builder is leased to at most one caller, a caller leases  *)
(* at most one builder at a time, a caller works only on a builder that it *)
(* leases, and as long as the service is open a lease ends only by an act  *)
(* of the caller that holds it.  Every action is named by its caller, and  *)
(* what a caller is doing (phase) is a state of its own, so that a builder *)
(* taken from a caller, or leased a second time, is no step of this        *)
(* specification.  BuilderPool implements it.                              *)
(***************************************************************************)
CONSTANTS Client, Builder

VARIABLES
  phase,    \* what each caller does: "out", "waiting" or "using"
  leases,   \* the builders that each caller has, or that are on their way to it
  free,     \* the builders that idle in the pool
  up,       \* the builders that the pool has been told of and whose VM runs
  open      \* FALSE once the service shuts down

leaseVars == <<phase, leases, free, up, open>>

LeaseTypeOK ==
  /\ phase \in [Client -> {"out", "waiting", "using"}]
  /\ leases \in [Client -> SUBSET Builder]
  /\ free \in SUBSET Builder
  /\ up \in SUBSET Builder
  /\ open \in BOOLEAN

LeaseInit ==
  /\ phase = [c \in Client |-> "out"]
  /\ leases = [c \in Client |-> {}]
  /\ free = {}
  /\ up = {}
  /\ open = TRUE

Unleased(b) == \A c \in Client : b \notin leases[c]

\* A caller that asked for a builder and is not given one yet.
Waits(c) == phase[c] = "waiting" /\ leases[c] = {}

-----------------------------------------------------------------------------
(* What a caller does *)

Ask(c) ==
  /\ phase[c] = "out" /\ leases[c] = {}
  /\ phase' = [phase EXCEPT ![c] = "waiting"]
  /\ UNCHANGED <<leases, free, up, open>>

\* A free builder is leased on the spot.
Grant(c, b) ==
  /\ phase[c] = "out" /\ leases[c] = {}
  /\ b \in free
  /\ phase' = [phase EXCEPT ![c] = "using"]
  /\ leases' = [leases EXCEPT ![c] = {b}]
  /\ free' = free \ {b}
  /\ UNCHANGED <<up, open>>

\* The caller takes up the builder that was given to it.
Take(c) ==
  /\ phase[c] = "waiting" /\ leases[c] # {}
  /\ phase' = [phase EXCEPT ![c] = "using"]
  /\ UNCHANGED <<leases, free, up, open>>

\* The caller no longer waits; a builder already on its way is retired.
GiveUp(c) ==
  /\ phase[c] = "waiting"
  /\ phase' = [phase EXCEPT ![c] = "out"]
  /\ leases' = [leases EXCEPT ![c] = {}]
  /\ UNCHANGED <<free, up, open>>

\* The caller brings its builder back: to be free or retired, or straight to
\* a caller that waits.
Return(c, b) ==
  /\ phase[c] = "using" /\ leases[c] = {b}
  /\ phase' = [phase EXCEPT ![c] = "out"]
  /\ \/ leases' = [leases EXCEPT ![c] = {}] /\ free' \in {free, free \union {b}}
     \/ \E d \in Client : /\ Waits(d)
                          /\ leases' = [leases EXCEPT ![c] = {}, ![d] = {b}]
                          /\ free' = free
  /\ UNCHANGED <<up, open>>

-----------------------------------------------------------------------------
(* What the service does *)

\* A builder comes up: free, for a caller that waits, or retired at once.
Boot(b) ==
  /\ b \notin up \union free /\ Unleased(b)
  /\ up' = up \union {b}
  /\ \/ leases' = leases /\ free' \in {free, free \union {b}}
     \/ \E d \in Client : /\ Waits(d)
                          /\ leases' = [leases EXCEPT ![d] = {b}]
                          /\ free' = free
  /\ UNCHANGED <<phase, open>>

\* Free builders are withdrawn, several at once.
Withdraw ==
  /\ free' \subseteq free
  /\ UNCHANGED <<phase, leases, up, open>>

\* The VM of a builder goes; while the service is open only that of one which
\* is neither leased nor free.
Remove(b) ==
  /\ b \in up
  /\ open => b \notin free /\ Unleased(b)
  /\ up' = up \ {b}
  /\ UNCHANGED <<phase, leases, free, open>>

\* The shutdown withdraws every free builder and takes none from its caller.
Close ==
  /\ open /\ open' = FALSE
  /\ free' = {}
  /\ UNCHANGED <<phase, leases, up>>

-----------------------------------------------------------------------------
CallerStep(c) ==
  \/ Ask(c) \/ Take(c) \/ GiveUp(c)
  \/ \E b \in Builder : Grant(c, b) \/ Return(c, b)

LeaseNext ==
  \/ \E c \in Client : CallerStep(c)
  \/ \E b \in Builder : Boot(b) \/ Remove(b)
  \/ Withdraw \/ Close

LeaseSpec == LeaseInit /\ [][LeaseNext]_leaseVars

-----------------------------------------------------------------------------
(* What the lease service guarantees *)

\* No builder is leased twice, none is both leased and free, a caller leases
\* one builder at most and nothing before it asks, a caller works only on a
\* builder that it leases, and the VMs of leased and of free builders run as
\* long as the service is open.
LeaseOK ==
  /\ open => free \subseteq up
  /\ \A c, d \in Client : c # d => leases[c] \intersect leases[d] = {}
  /\ \A c \in Client :
       /\ leases[c] \intersect free = {}
       /\ \A b1, b2 \in leases[c] : b1 = b2
       /\ phase[c] = "out" => leases[c] = {}
       /\ phase[c] = "using" => leases[c] # {}
       /\ open => leases[c] \subseteq up
=============================================================================
