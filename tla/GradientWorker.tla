---------------------------- MODULE GradientWorker ----------------------------
(***************************************************************************)
(* A worker of a Gradient server: the session of gradientproto/client.go   *)
(* (handshake, job requests, one reader loop), one goroutine for each      *)
(* assigned job (gradientproto/executor.go and narupload.go), the          *)
(* heartbeat, and the reconnect loop of main.go, which runs one session    *)
(* after the other on the same Client.                                     *)
(*                                                                         *)
(* The goroutines of a session that ended are left running with a          *)
(* cancelled context, next to those of the new session.  The server, the   *)
(* builder pool and the commands run over ssh are external: they may       *)
(* answer or fail in any way their interface allows.                       *)
(***************************************************************************)
EXTENDS Integers, FiniteSets

CONSTANTS
  Handler,              \* bounds the goroutines that run jobs at one time
  JobID, QueryID,
  NoHandler, NoJob, NoQuery,
  MaxConcurrentBuilds,  \* ClientConfig.MaxConcurrentBuilds
  Tasks,                \* len(job.Builds)
  Outputs,              \* len(drv.Outputs)
  MaxRequests           \* bounds the requests that heartbeats add

ASSUME GradientAssumption ==
  /\ MaxConcurrentBuilds \in Nat
  /\ Tasks \in Nat
  /\ Outputs \in Nat \ {0}
  /\ MaxRequests \in Nat
  /\ IsFiniteSet(Handler)
  /\ NoHandler \notin Handler /\ NoJob \notin JobID /\ NoQuery \notin QueryID

VARIABLES
  sess,          \* where Client.Run stands
  sent,          \* initial RequestJobs sent by this session
  heartbeat,     \* the heartbeat goroutine
  cancels,       \* jobID -> the goroutine whose context it cancels
  running,       \* count of JobHandler calls
  cacheWaiters,  \* query ID -> the goroutine whose channel is registered
  h,             \* the JobHandler goroutines
  \* the server, as the worker's messages have left it
  requests,      \* RequestJobs of this session not answered by AssignJob
  queries,       \* query ID -> the goroutine that asked, CacheQuery unanswered
  assigned       \* job IDs assigned so far

clientVars == <<sess, sent, heartbeat, cancels, running, cacheWaiters, h>>
serverVars == <<requests, queries, assigned>>
gvars      == <<clientVars, serverVars>>

-----------------------------------------------------------------------------
(* Types *)

\* "broken": the connection is dead and the reader has not noticed yet.
Sess == {"down", "init", "auth", "request", "loop", "broken"}

HandlerPC == {"free", "start", "announce", "read", "get", "exec", "info",
              "ask", "await", "push", "uploaded", "output", "fail",
              "complete", "exit", "rerequest"}

\* What a CacheStatus with one entry, or anything else, tells uploadOutput.
Answer == {"cached", "missing", "error"}

HandlerRec ==
  [pc        : HandlerPC,
   job       : JobID \union {NoJob},
   live      : BOOLEAN,               \* its session is the current one
   cancelled : BOOLEAN,               \* its context is done
   task      : 0..Tasks,              \* tasks completed
   done      : 0..Outputs,            \* outputs of the task dealt with
   holds     : BOOLEAN,               \* it has a builder of the pool
   query     : QueryID \union {NoQuery},
   resp      : Answer \union {"none"},\* in its query's channel
   respFor   : Handler \union {NoHandler}, \* whose query that answers
   stored    : Nat,                   \* outputs the server has or was sent
   reported  : 0..Tasks,              \* BuildOutput updates delivered
   outcome   : {"none", "completed", "failed"}] \* delivered

Free == [pc |-> "free", job |-> NoJob, live |-> FALSE, cancelled |-> FALSE,
         task |-> 0, done |-> 0, holds |-> FALSE, query |-> NoQuery,
         resp |-> "none", respFor |-> NoHandler, stored |-> 0, reported |-> 0,
         outcome |-> "none"]

WorkerTypeOK ==
  /\ sess \in Sess
  /\ sent \in 0..MaxConcurrentBuilds
  /\ heartbeat \in {"off", "wait", "send"}
  /\ cancels \in [JobID -> Handler \union {NoHandler}]
  /\ running \in Int
  /\ cacheWaiters \in [QueryID -> Handler \union {NoHandler}]
  /\ h \in [Handler -> HandlerRec]
  /\ requests \in Nat
  /\ queries \in [QueryID -> Handler \union {NoHandler}]
  /\ assigned \in SUBSET JobID

WorkerInit ==
  /\ sess = "down" /\ sent = 0 /\ heartbeat = "off"
  /\ cancels = [j \in JobID |-> NoHandler]
  /\ running = 0
  /\ cacheWaiters = [q \in QueryID |-> NoHandler]
  /\ h = [x \in Handler |-> Free]
  /\ requests = 0
  /\ queries = [q \in QueryID |-> NoHandler]
  /\ assigned = {}

-----------------------------------------------------------------------------
(* The session *)

\* Dial, and InitConnection.
StartSession ==
  /\ sess = "down"
  /\ sess' = "init"
  /\ UNCHANGED <<sent, heartbeat, cancels, running, cacheWaiters, h, serverVars>>

\* AuthChallenge arrives; AuthResponse goes out.
RecvChallenge ==
  /\ sess = "init"
  /\ sess' = "auth"
  /\ UNCHANGED <<sent, heartbeat, cancels, running, cacheWaiters, h, serverVars>>

\* InitAck with the build capability arrives; WorkerCapabilities goes out.
RecvAck ==
  /\ sess = "auth"
  /\ sess' = "request"
  /\ sent' = 0
  /\ UNCHANGED <<heartbeat, cancels, running, cacheWaiters, h, serverVars>>

SendInitialRequest ==
  /\ sess = "request"
  /\ sent < MaxConcurrentBuilds
  /\ sent' = sent + 1
  /\ requests' = requests + 1
  /\ UNCHANGED <<sess, heartbeat, cancels, running, cacheWaiters, h, queries,
                 assigned>>

EnterLoop ==
  /\ sess = "request"
  /\ sent = MaxConcurrentBuilds
  /\ sess' = "loop"
  /\ heartbeat' = "wait"
  /\ UNCHANGED <<sent, cancels, running, cacheWaiters, h, serverVars>>

ConnBreaks ==
  /\ sess = "loop"
  /\ sess' = "broken"
  /\ UNCHANGED <<sent, heartbeat, cancels, running, cacheWaiters, h, serverVars>>

\* Mutant: ending the session does not cancel its goroutines.
Orphaned_NotCancelled ==
  [x \in Handler |-> [h[x] EXCEPT !.live = FALSE]]

\* The session's goroutines, cut off from the server and cancelled.
Orphaned ==
  [x \in Handler |-> IF h[x].live
                     THEN [h[x] EXCEPT !.live = FALSE, !.cancelled = TRUE]
                     ELSE h[x]]

\* Run returns: Dial, handshake or an initial send failed, the read failed or
\* the server sent Reject.  The deferred calls cancel the session's context
\* and close the connection; the maps and the count are kept.
RunReturns ==
  /\ sess # "down"
  /\ sess' = "down"
  /\ heartbeat' = "off"
  /\ h' = Orphaned
  /\ requests' = 0
  /\ queries' = [q \in QueryID |-> NoHandler]
  /\ UNCHANGED <<sent, cancels, running, cacheWaiters, assigned>>

\* Mutant: off by one.
spareCapacity_OffByOne == running + 1 < MaxConcurrentBuilds

spareCapacity == running < MaxConcurrentBuilds

HeartbeatTick ==
  /\ sess = "loop"
  /\ heartbeat = "wait"
  /\ spareCapacity
  /\ heartbeat' = "send"
  /\ UNCHANGED <<sess, sent, cancels, running, cacheWaiters, h, serverVars>>

\* The send follows the check of the capacity without the lock.
HeartbeatSend ==
  /\ heartbeat = "send"
  /\ IF sess = "loop"
     THEN /\ requests < MaxRequests
          /\ requests' = requests + 1
          /\ heartbeat' = "wait"
     ELSE heartbeat' = "off" /\ UNCHANGED requests
  /\ UNCHANGED <<sess, sent, cancels, running, cacheWaiters, h, queries,
                 assigned>>

-----------------------------------------------------------------------------
(* The messages of the server, as the reader loop handles them.  Draining   *)
(* is only logged and is no step: the worker goes on requesting jobs.       *)

\* The goroutine's job is no longer with the worker as far as the server can
\* know: it is reported, aborted, or its session is over.
Over(x) == ~h[x].live \/ h[x].cancelled \/ h[x].outcome # "none"

\* Mutant: an entry that a leftover goroutine has under the ID is kept.
Registered_IfAbsent(j, x) ==
  IF cancels[j] = NoHandler THEN [cancels EXCEPT ![j] = x] ELSE cancels

Registered(j, x) == [cancels EXCEPT ![j] = x]

\* AssignJob: dispatch registers the job, accepts it and starts its goroutine.
\* The server may assign an ID again while the goroutine that worked on it
\* before has still to end; dispatch overwrites that one's entry.
dispatch(j, x) ==
  /\ sess = "loop"
  /\ requests > 0
  /\ \A y \in Handler : h[y].job = j => Over(y)
  /\ h[x].pc = "free"
  /\ requests' = requests - 1
  /\ assigned' = assigned \union {j}
  /\ cancels' = Registered(j, x)
  /\ running' = running + 1
  /\ h' = [h EXCEPT ![x] = [Free EXCEPT !.pc = "start", !.job = j,
                                         !.live = TRUE]]
  /\ UNCHANGED <<sess, sent, heartbeat, cacheWaiters, queries>>

\* AbortJob: the registered context is cancelled; an unknown job is logged.
abort(j) ==
  /\ sess = "loop"
  /\ j \in assigned
  /\ cancels[j] # NoHandler
  /\ h' = [h EXCEPT ![cancels[j]].cancelled = TRUE]
  /\ UNCHANGED <<sess, sent, heartbeat, cancels, running, cacheWaiters,
                 serverVars>>

\* The server loses a pending request, which the heartbeat is there for.
ServerForgets ==
  /\ sess = "loop"
  /\ requests > 0
  /\ requests' = requests - 1
  /\ UNCHANGED <<clientVars, queries, assigned>>

\* CacheStatus or CacheError for query q: into the channel registered for q if
\* there is one and it is empty, else dropped.
routeCacheResponse(q, a) ==
  /\ sess = "loop"
  /\ queries[q] # NoHandler
  /\ queries' = [queries EXCEPT ![q] = NoHandler]
  /\ LET x == cacheWaiters[q] IN
       IF x # NoHandler /\ h[x].resp = "none"
       THEN h' = [h EXCEPT ![x].resp = a, ![x].respFor = queries[q]]
       ELSE UNCHANGED h
  /\ UNCHANGED <<sess, sent, heartbeat, cancels, running, cacheWaiters,
                 requests, assigned>>

-----------------------------------------------------------------------------
(* HandleJob: the goroutine of one job *)

\* A send of the job's goroutine reaches the server unless its context is
\* done or its connection is gone; otherwise it returns an error.
CanSend(x) == h[x].live /\ ~h[x].cancelled /\ sess = "loop"

Goto(x, p) == h' = [h EXCEPT ![x].pc = p]

OnlyHandler ==
  UNCHANGED <<sess, sent, heartbeat, cancels, running, cacheWaiters, serverVars>>

\* The head of the loop over the tasks: the one place that asks whether the
\* context is done.  After the last task it is not asked again.
LoopHead(x) ==
  /\ h[x].pc = "start"
  /\ Goto(x, IF h[x].task = Tasks THEN "complete"
             ELSE IF h[x].cancelled THEN "exit" ELSE "announce")
  /\ OnlyHandler

\* JobUpdate{Building}.  A failed send ends the job without JobFailed.  An
\* external_cached task and a missing store host connection fail the task.
Announce(x) ==
  /\ h[x].pc = "announce"
  /\ IF CanSend(x) THEN \E p \in {"read", "fail"} : Goto(x, p)
     ELSE Goto(x, "exit")
  /\ OnlyHandler

readDerivation(x) ==
  /\ h[x].pc = "read"
  /\ \E p \in {"get", "fail"} : Goto(x, p)
  /\ OnlyHandler

\* GetBuilder has no context: it returns in its own time, cancelled or not.
GetBuilder(x) ==
  /\ h[x].pc = "get"
  /\ \/ h' = [h EXCEPT ![x].pc = "exec", ![x].holds = TRUE]
     \/ Goto(x, "fail")
  /\ OnlyHandler

\* ExecuteBuild and, if the build succeeded, resolveOutputPath.
ExecuteBuild(x) ==
  /\ h[x].pc = "exec"
  /\ \E p \in {"info", "fail"} : Goto(x, p)
  /\ OnlyHandler

\* Mutant: the ID of the query is not fresh.
FreshQuery_Any(q) == cacheWaiters[q] = NoHandler

FreshQuery(q) == cacheWaiters[q] = NoHandler /\ queries[q] = NoHandler

\* queryPathInfo, then the head of QueryCache: the channel is registered.
RegisterQuery(x) ==
  /\ h[x].pc = "info"
  /\ \/ Goto(x, "fail") /\ UNCHANGED cacheWaiters
     \/ \E q \in QueryID :
          /\ FreshQuery(q)
          /\ cacheWaiters' = [cacheWaiters EXCEPT ![q] = x]
          /\ h' = [h EXCEPT ![x].pc = "ask", ![x].query = q]
  /\ UNCHANGED <<sess, sent, heartbeat, cancels, running, serverVars>>

\* QueryCache returns: its deferred call removes the channel.
EndQuery(x, p) ==
  /\ cacheWaiters' = [cacheWaiters EXCEPT ![h[x].query] = NoHandler]
  /\ h' = [h EXCEPT ![x].pc = p, ![x].query = NoQuery, ![x].resp = "none",
                    ![x].respFor = NoHandler]

SendQuery(x) ==
  /\ h[x].pc = "ask"
  /\ IF CanSend(x)
     THEN /\ queries' = [queries EXCEPT ![h[x].query] = x]
          /\ Goto(x, "await")
          /\ UNCHANGED cacheWaiters
     ELSE EndQuery(x, "fail") /\ UNCHANGED queries
  /\ UNCHANGED <<sess, sent, heartbeat, cancels, running, requests, assigned>>

\* Mutant: off by one at the last output.
AfterOutput_OneMore(x) ==
  [h[x] EXCEPT !.pc = IF h[x].done = Outputs THEN "output" ELSE "info",
               !.done = @ + 1, !.stored = @ + 1, !.query = NoQuery,
               !.resp = "none", !.respFor = NoHandler]

\* One output is done: the next one, or the report of the task.
AfterOutput(x) ==
  [h[x] EXCEPT !.pc = IF h[x].done + 1 = Outputs THEN "output" ELSE "info",
               !.done = @ + 1, !.stored = @ + 1, !.query = NoQuery,
               !.resp = "none", !.respFor = NoHandler]

\* The answer arrives, and nothing has to be uploaded when it says "cached".
AwaitAnswer(x) ==
  /\ h[x].pc = "await"
  /\ h[x].resp # "none"
  /\ \/ h[x].resp = "cached"
        /\ cacheWaiters' = [cacheWaiters EXCEPT ![h[x].query] = NoHandler]
        /\ h' = [h EXCEPT ![x] = AfterOutput(x)]
     \/ h[x].resp = "missing" /\ EndQuery(x, "push")
     \/ h[x].resp = "error" /\ EndQuery(x, "fail")
  /\ UNCHANGED <<sess, sent, heartbeat, cancels, running, serverVars>>

\* Mutant: QueryCache waits for the answer only.
AwaitCancelled_Never(x) == FALSE /\ UNCHANGED gvars

AwaitCancelled(x) ==
  /\ h[x].pc = "await"
  /\ h[x].cancelled
  /\ EndQuery(x, "fail")
  /\ UNCHANGED <<sess, sent, heartbeat, cancels, running, serverVars>>

\* compressNarToPipe with putPresigned or pushOverWebSocket; both fail once
\* the context is done.
Upload(x) ==
  /\ h[x].pc = "push"
  /\ \/ ~h[x].cancelled /\ Goto(x, "uploaded")
     \/ Goto(x, "fail")
  /\ OnlyHandler

SendNarUploaded(x) ==
  /\ h[x].pc = "uploaded"
  /\ IF CanSend(x) THEN h' = [h EXCEPT ![x] = AfterOutput(x)]
     ELSE Goto(x, "fail")
  /\ OnlyHandler

\* JobUpdate{BuildOutput}, then the deferred ReleaseBuilder.  A failed send
\* ends the job without JobFailed.
SendBuildOutput(x) ==
  /\ h[x].pc = "output"
  /\ h' = IF CanSend(x)
          THEN [h EXCEPT ![x].pc = "start", ![x].task = @ + 1, ![x].done = 0,
                         ![x].holds = FALSE, ![x].reported = @ + 1]
          ELSE [h EXCEPT ![x].pc = "exit", ![x].holds = FALSE]
  /\ OnlyHandler

\* Mutant: runTask fails the job and keeps the builder.
failTask_KeepBuilder(x) ==
  /\ h[x].pc = "fail"
  /\ h' = [h EXCEPT ![x].pc = "exit",
                    ![x].outcome = IF CanSend(x) THEN "failed" ELSE @]
  /\ OnlyHandler

\* Mutant: runTask reports the failure and returns true.
failTask_GoOn(x) ==
  /\ h[x].pc = "fail"
  /\ h' = [h EXCEPT ![x].pc = "start", ![x].task = @ + 1, ![x].done = 0,
                    ![x].holds = FALSE,
                    ![x].outcome = IF CanSend(x) THEN "failed" ELSE @]
  /\ OnlyHandler

\* JobFailed, with the same context, then the deferred ReleaseBuilder.
failTask(x) ==
  /\ h[x].pc = "fail"
  /\ h' = [h EXCEPT ![x].pc = "exit", ![x].holds = FALSE,
                    ![x].outcome = IF CanSend(x) THEN "failed" ELSE @]
  /\ OnlyHandler

SendJobCompleted(x) ==
  /\ h[x].pc = "complete"
  /\ h' = [h EXCEPT ![x].pc = "exit",
                    ![x].outcome = IF CanSend(x) THEN "completed" ELSE @]
  /\ OnlyHandler

ExitCount(x) == running - 1

\* The deferred call of dispatch's goroutine: its critical section ...
HandlerExit(x) ==
  /\ h[x].pc = "exit"
  /\ cancels' = [cancels EXCEPT ![h[x].job] = NoHandler]
  /\ running' = ExitCount(x)
  /\ h' = IF ExitCount(x) < MaxConcurrentBuilds
          THEN [h EXCEPT ![x].pc = "rerequest"]
          ELSE [h EXCEPT ![x] = Free]
  /\ UNCHANGED <<sess, sent, heartbeat, cacheWaiters, serverVars>>

\* ... and the RequestJob after it, with the session's context.
Rerequest(x) ==
  /\ h[x].pc = "rerequest"
  /\ requests' = IF h[x].live /\ sess = "loop" THEN requests + 1 ELSE requests
  /\ h' = [h EXCEPT ![x] = Free]
  /\ UNCHANGED <<sess, sent, heartbeat, cancels, running, cacheWaiters, queries,
                 assigned>>

-----------------------------------------------------------------------------
Session ==
  \/ StartSession \/ RecvChallenge \/ RecvAck \/ SendInitialRequest \/ EnterLoop
  \/ ConnBreaks \/ RunReturns

Heartbeat == HeartbeatTick \/ HeartbeatSend

Server ==
  \/ \E j \in JobID : abort(j) \/ \E x \in Handler : dispatch(j, x)
  \/ ServerForgets
  \/ \E q \in QueryID, a \in Answer : routeCacheResponse(q, a)

HandleJob(x) ==
  \/ LoopHead(x) \/ Announce(x) \/ readDerivation(x) \/ GetBuilder(x)
  \/ ExecuteBuild(x) \/ RegisterQuery(x) \/ SendQuery(x) \/ AwaitAnswer(x)
  \/ AwaitCancelled(x) \/ Upload(x) \/ SendNarUploaded(x) \/ SendBuildOutput(x)
  \/ failTask(x) \/ SendJobCompleted(x) \/ HandlerExit(x) \/ Rerequest(x)

WorkerNext ==
  Session \/ Heartbeat \/ Server \/ \E x \in Handler : HandleJob(x)

WorkerSpec == WorkerInit /\ [][WorkerNext]_gvars

\* A goroutine whose context is done gets on: the ssh commands, the build and
\* the sends end with the context, GetBuilder by its own timeout.  Without
\* that a build or an unanswered query may take forever.  The heartbeat's
\* ticker fires, and a dead connection is noticed.
WorkerFairness ==
  /\ \A x \in Handler : WF_gvars(h[x].cancelled /\ HandleJob(x))
  /\ WF_gvars(Heartbeat)
  /\ WF_gvars(sess = "broken" /\ RunReturns)

FairWorkerSpec == WorkerSpec /\ WorkerFairness

-----------------------------------------------------------------------------
(* Properties *)

\* The goroutine has not yet run its deferred critical section.
Active(x) == h[x].pc \notin {"free", "rerequest"}

\* The goroutine works on a job of the current session.
AtWork(x) == h[x].live /\ h[x].pc \notin {"free", "exit", "rerequest"}

\* The context of the goroutine is done, or the one that abort finds for its job.
Abortable(x) == h[x].cancelled \/ cancels[h[x].job] = x

\* The deferred call of goroutine x, which removes the entry of its job ID
\* whoever registered it.
RunsDeferred(x) == h[x].pc = "exit" /\ h'[x].pc # "exit"

\* "The context is cancelled if the server sends AbortJob for this job ID": from
\* its first step to its last a goroutine can be aborted, whatever the others
\* do and also if its job ID was in use before, with one exception: a goroutine
\* left over from an earlier assignment of the ID, one that was aborted,
\* reported or cut off from its session, ends and removes the entry.
AbortReaches ==
  [][\A x \in Handler : AtWork(x)' /\ ~Abortable(x)' =>
       \/ AtWork(x) /\ ~Abortable(x)
       \/ \E y \in Handler \ {x} : h[y].job = h[x].job /\ Over(y) /\ RunsDeferred(y)]_gvars

\* JobCompleted reaches the server only after a BuildOutput for every task
\* did, and every output is in the cache by then.
CompletedMeansBuilt ==
  \A x \in Handler : h[x].outcome = "completed" =>
    h[x].reported = Tasks /\ h[x].stored = Tasks * Outputs

\* A goroutine has a builder exactly while it works on a task that got one:
\* on no path, cancelled or failed, does it leave the task with the builder
\* or go on building without one.
BuilderPerTask ==
  \A x \in Handler :
    /\ h[x].pc \in {"exec", "info", "ask", "await", "push", "uploaded", "output"}
         => h[x].holds
    /\ h[x].holds => h[x].pc \notin {"free", "start", "announce", "read", "get",
                                     "complete", "exit", "rerequest"}

\* The answer in a query's channel is the answer to that query, although the
\* queries of all goroutines share one reader and late answers keep coming
\* for queries that were given up; no channel stays registered.
OwnAnswer ==
  /\ \A x \in Handler : h[x].resp # "none" => h[x].respFor = x
  /\ \A q \in QueryID, x \in Handler : cacheWaiters[q] = x <=> h[x].query = q

\* A goroutine whose job was aborted or whose session is over ends, and its
\* builder is free again, wherever it stood.
CancelledStops ==
  \A x \in Handler : (Active(x) /\ h[x].cancelled) ~> ~Active(x)

\* A goroutine that a session leaves behind does not outlive it for ever: the
\* capacity it takes from the next session comes back.
OrphansStop ==
  \A x \in Handler : (Active(x) /\ ~h[x].live) ~> ~Active(x)

\* A worker with a free slot does not stay without a pending request: the
\* heartbeat makes up for a request that the server lost.
RequestsResume ==
  (sess = "loop" /\ running < MaxConcurrentBuilds /\ requests = 0)
    ~> (requests > 0 \/ running >= MaxConcurrentBuilds \/ sess # "loop")

-----------------------------------------------------------------------------
(* What comments of the code promise and the code does not keep *)

\* A handler finishes "with JobCompleted or JobFailed", also when its job is
\* aborted, as long as the session that assigned the job is up.
JobAlwaysReported ==
  \A x \in Handler : h[x].pc = "exit" /\ h[x].live /\ sess = "loop"
                       => h[x].outcome # "none"
=============================================================================
