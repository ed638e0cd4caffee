------------------------- MODULE GradientWorkerProofs -------------------------
(* Invariance proofs for GradientWorker, for any number of goroutines, jobs,  *)
(* tasks, outputs and queries.                                                *)
EXTENDS GradientWorker, TLAPS

-----------------------------------------------------------------------------
(* The inductive invariant *)

\* The goroutine works on a task that it has not reported yet.
Working == {"announce", "read", "get", "exec", "info", "ask", "await", "push",
            "uploaded", "output"}

\* The outputs of t tasks and d more.
Due(t, d) == t * Outputs + d

\* It has a builder.
Building == {"exec", "info", "ask", "await", "push", "uploaded", "output"}

\* What a goroutine at pc has done and what it has.  The bounds of the
\* counters in the type invariant follow from this only.
ProgressOf(r) ==
  /\ r.pc \in Working => r.task < Tasks
  /\ r.pc \in {"start", "announce", "read", "get", "exec"} => r.done = 0
  /\ r.pc \in {"info", "ask", "await", "push", "uploaded"} => r.done < Outputs
  /\ r.pc = "output" => r.done = Outputs
  /\ r.pc = "complete" => r.task = Tasks /\ r.done = 0
  /\ r.pc \in Working \union {"start", "complete"} =>
       r.reported = r.task /\ r.stored = Due(r.task, r.done)
  /\ r.pc \notin {"exit", "rerequest"} => r.outcome = "none"
  /\ r.outcome = "completed" =>
       r.reported = Tasks /\ r.stored = Due(Tasks, 0)
  /\ r.pc \in Building => r.holds
  /\ r.holds => r.pc \in Building \union {"fail"}
  /\ r.query # NoQuery => r.pc \in {"ask", "await"}

Progress == \A x \in Handler : ProgressOf(h[x])

-----------------------------------------------------------------------------
\* A step that changes the record of one goroutine to one that is in order.
LEMMA OneHandler ==
  ASSUME WorkerTypeOK, Progress, NEW x \in Handler,
         h' = [h EXCEPT ![x] = h'[x]], h'[x] \in HandlerRec, ProgressOf(h'[x])
  PROVE  h' \in [Handler -> HandlerRec] /\ Progress'
  BY DEF WorkerTypeOK, Progress

\* The outputs of the tasks, counted one by one.
LEMMA DueFacts ==
  /\ Due(0, 0) = 0
  /\ Due(Tasks, 0) = Tasks * Outputs
  /\ \A t, d \in Nat : Due(t, d + 1) = Due(t, d) + 1
  /\ \A t \in Nat : Due(t + 1, 0) = Due(t, Outputs)
  BY GradientAssumption DEF Due

\* A slot without a goroutine.
LEMMA FreeOK == Free \in HandlerRec /\ ProgressOf(Free)
<1>1. Free \in HandlerRec
  BY GradientAssumption DEF HandlerRec, HandlerPC, Free, Answer
<1>2. ProgressOf(Free)
  BY DEF ProgressOf, Free, Working, Building
<1>3. QED
  BY <1>1, <1>2

\* Types and progress, for the steps of a job's goroutine.
LEMMA HandleJobProgress ==
  ASSUME WorkerTypeOK, Progress, NEW x \in Handler, HandleJob(x)
  PROVE  h' \in [Handler -> HandlerRec] /\ Progress'
<1> USE GradientAssumption
<1>0. h[x] \in HandlerRec /\ ProgressOf(h[x])
  BY DEF WorkerTypeOK, Progress
<1> SUFFICES h' = [h EXCEPT ![x] = h'[x]] /\ h'[x] \in HandlerRec /\ ProgressOf(h'[x])
  BY OneHandler
<1>1. ASSUME NEW p \in HandlerPC, Goto(x, p)
      PROVE  h' = [h EXCEPT ![x] = h'[x]] /\ h'[x] = [h[x] EXCEPT !.pc = p]
             /\ h'[x] \in HandlerRec
  <2>1. h' = [h EXCEPT ![x] = h'[x]] /\ h'[x] = [h[x] EXCEPT !.pc = p]
    BY <1>1 DEF Goto, WorkerTypeOK
  <2>2. h'[x] \in HandlerRec
    BY <1>0, <2>1 DEF HandlerRec
  <2>3. QED
    BY <2>1, <2>2
<1>2. CASE LoopHead(x)
  <2>1. PICK p \in {"complete", "exit", "announce"} :
          Goto(x, p) /\ (p = "complete" <=> h[x].task = Tasks)
    BY <1>2 DEF LoopHead
  <2>2. QED
    BY <1>0, <1>1, <1>2, <2>1 DEF LoopHead, HandlerRec, HandlerPC, ProgressOf, Working, Building
<1>3. CASE Announce(x) \/ readDerivation(x) \/ ExecuteBuild(x) \/ Upload(x)
  <2>1. PICK p \in {"read", "fail", "exit", "get", "info", "uploaded"} :
          /\ Goto(x, p)
          /\ p = "read" => h[x].pc = "announce"
          /\ p = "get" => h[x].pc = "read"
          /\ p = "info" => h[x].pc = "exec"
          /\ p = "uploaded" => h[x].pc = "push"
          /\ p = "exit" => h[x].pc = "announce"
          /\ h[x].pc \in {"announce", "read", "exec", "push"}
    BY <1>3 DEF Announce, readDerivation, ExecuteBuild, Upload
  <2>2. QED
    BY <1>0, <1>1, <2>1 DEF HandlerRec, HandlerPC, ProgressOf, Working, Building
<1>4. CASE GetBuilder(x)
  <2>1. CASE Goto(x, "fail")
    BY <1>0, <1>1, <1>4, <2>1 DEF GetBuilder, HandlerRec, HandlerPC, ProgressOf, Working, Building
  <2>2. CASE ~Goto(x, "fail")
    <3>1. h' = [h EXCEPT ![x] = h'[x]]
          /\ h'[x] = [h[x] EXCEPT !.pc = "exec", !.holds = TRUE]
      BY <1>4, <2>2 DEF GetBuilder, WorkerTypeOK
    <3>2. h'[x] \in HandlerRec
      BY <1>0, <3>1 DEF HandlerRec, HandlerPC
    <3>3. ProgressOf(h'[x])
      BY <1>0, <1>4, <3>1 DEF GetBuilder, HandlerRec, ProgressOf, Working, Building
    <3>4. QED
      BY <3>1, <3>2, <3>3
  <2>3. QED
    BY <2>1, <2>2
<1>5. CASE RegisterQuery(x)
  <2>1. CASE Goto(x, "fail")
    BY <1>0, <1>1, <1>5, <2>1 DEF RegisterQuery, HandlerRec, HandlerPC, ProgressOf, Working, Building
  <2>2. CASE ~Goto(x, "fail")
    <3>1. PICK q \in QueryID : h' = [h EXCEPT ![x].pc = "ask", ![x].query = q]
      BY <1>5, <2>2 DEF RegisterQuery
    <3>2. h' = [h EXCEPT ![x] = h'[x]]
          /\ h'[x] = [h[x] EXCEPT !.pc = "ask", !.query = q]
      BY <3>1 DEF WorkerTypeOK
    <3>3. h'[x] \in HandlerRec
      BY <1>0, <3>2 DEF HandlerRec, HandlerPC
    <3>4. ProgressOf(h'[x])
      BY <1>0, <1>5, <3>2 DEF RegisterQuery, HandlerRec, ProgressOf, Working, Building
    <3>5. QED
      BY <3>2, <3>3, <3>4
  <2>3. QED
    BY <2>1, <2>2
<1>6. ASSUME NEW p \in {"fail", "push"}, EndQuery(x, p), h[x].pc \in {"ask", "await"}
      PROVE  h' = [h EXCEPT ![x] = h'[x]] /\ h'[x] \in HandlerRec /\ ProgressOf(h'[x])
  <2>1. h' = [h EXCEPT ![x] = h'[x]]
        /\ h'[x] = [h[x] EXCEPT !.pc = p, !.query = NoQuery, !.resp = "none",
                                !.respFor = NoHandler]
    BY <1>6 DEF EndQuery, WorkerTypeOK
  <2>2. h'[x] \in HandlerRec
    BY <1>0, <2>1 DEF HandlerRec, HandlerPC
  <2>3. ProgressOf(h'[x])
    BY <1>0, <1>6, <2>1 DEF HandlerRec, ProgressOf, Working, Building
  <2>4. QED
    BY <2>1, <2>2, <2>3
<1>7. CASE SendQuery(x)
  <2>1. CASE Goto(x, "await")
    BY <1>0, <1>1, <1>7, <2>1 DEF SendQuery, HandlerRec, HandlerPC, ProgressOf, Working, Building
  <2>2. CASE ~Goto(x, "await")
    BY <1>6, <1>7, <2>2 DEF SendQuery
  <2>3. QED
    BY <2>1, <2>2
<1>8. ASSUME h' = [h EXCEPT ![x] = AfterOutput(x)], h[x].pc \in {"await", "uploaded"}
      PROVE  h' = [h EXCEPT ![x] = h'[x]] /\ h'[x] \in HandlerRec /\ ProgressOf(h'[x])
  <2>1. PICK p \in {"output", "info"} :
          /\ p = "output" <=> h[x].done + 1 = Outputs
          /\ AfterOutput(x) = [h[x] EXCEPT !.pc = p, !.done = @ + 1,
               !.stored = @ + 1, !.query = NoQuery, !.resp = "none",
               !.respFor = NoHandler]
    BY DEF AfterOutput
  <2>2. /\ h' = [h EXCEPT ![x] = h'[x]]
        /\ h'[x] = [h[x] EXCEPT !.pc = p, !.done = h[x].done + 1,
               !.stored = h[x].stored + 1, !.query = NoQuery, !.resp = "none",
               !.respFor = NoHandler]
    BY <1>8, <2>1 DEF WorkerTypeOK
  <2>3. h[x].done + 1 \in 0..Outputs /\ h[x].stored + 1 \in Nat
        /\ h[x].task \in Nat /\ h[x].done \in Nat
    BY <1>0, <1>8 DEF HandlerRec, ProgressOf
  <2>4. h'[x] \in HandlerRec
    BY <1>0, <2>2, <2>3 DEF HandlerRec, HandlerPC
  <2>5. ProgressOf(h'[x])
    BY <1>0, <1>8, <2>1, <2>2, <2>3, DueFacts DEF HandlerRec, ProgressOf, Working, Building
  <2>6. QED
    BY <2>2, <2>4, <2>5
<1>9. CASE AwaitAnswer(x) \/ AwaitCancelled(x)
  BY <1>6, <1>8, <1>9 DEF AwaitAnswer, AwaitCancelled
<1>10. CASE SendNarUploaded(x)
  <2>1. CASE CanSend(x)
    BY <1>8, <1>10, <2>1 DEF SendNarUploaded
  <2>2. CASE ~CanSend(x)
    BY <1>0, <1>1, <1>10, <2>2 DEF SendNarUploaded, HandlerRec, HandlerPC, ProgressOf, Working, Building
  <2>3. QED
    BY <2>1, <2>2
<1>11. CASE SendBuildOutput(x)
  <2>0. /\ h[x].pc = "output" /\ h[x].task < Tasks /\ h[x].done = Outputs
        /\ h[x].task \in Nat /\ h[x].reported = h[x].task
        /\ h[x].stored = Due(h[x].task, Outputs) /\ h[x].outcome = "none"
    BY <1>0, <1>11 DEF SendBuildOutput, HandlerRec, ProgressOf, Working, Building
  <2>1. CASE CanSend(x)
    <3>1. /\ h' = [h EXCEPT ![x] = h'[x]]
          /\ h'[x] = [h[x] EXCEPT !.pc = "start", !.task = h[x].task + 1, !.done = 0,
                         !.holds = FALSE, !.reported = h[x].task + 1]
      BY <1>11, <2>0, <2>1 DEF SendBuildOutput, WorkerTypeOK
    <3>2. h[x].task + 1 \in 0..Tasks /\ 0 \in 0..Outputs
      BY <2>0
    <3>3. h'[x] \in HandlerRec
      BY <1>0, <3>1, <3>2 DEF HandlerRec, HandlerPC
    <3>4. ProgressOf(h'[x])
      BY <1>0, <2>0, <3>1, DueFacts DEF HandlerRec, ProgressOf, Working, Building
    <3>5. QED
      BY <3>1, <3>3, <3>4
  <2>2. CASE ~CanSend(x)
    <3>1. /\ h' = [h EXCEPT ![x] = h'[x]]
          /\ h'[x] = [h[x] EXCEPT !.pc = "exit", !.holds = FALSE]
      BY <1>11, <2>2 DEF SendBuildOutput, WorkerTypeOK
    <3>2. h'[x] \in HandlerRec
      BY <1>0, <3>1 DEF HandlerRec, HandlerPC
    <3>3. ProgressOf(h'[x])
      BY <1>0, <2>0, <3>1 DEF HandlerRec, ProgressOf, Working, Building
    <3>4. QED
      BY <3>1, <3>2, <3>3
  <2>3. QED
    BY <2>1, <2>2
<1>12. CASE failTask(x)
  <2>1. PICK o \in {"none", "failed"} :
          h' = [h EXCEPT ![x].pc = "exit", ![x].holds = FALSE, ![x].outcome = o]
    <3>1. h[x].outcome = "none"
      BY <1>0, <1>12 DEF failTask, ProgressOf
    <3>2. QED
      BY <1>12, <3>1 DEF failTask, WorkerTypeOK
  <2>2. /\ h' = [h EXCEPT ![x] = h'[x]]
        /\ h'[x] = [h[x] EXCEPT !.pc = "exit", !.holds = FALSE, !.outcome = o]
    BY <2>1 DEF WorkerTypeOK
  <2>3. h'[x] \in HandlerRec
    BY <1>0, <2>2 DEF HandlerRec, HandlerPC
  <2>4. h[x].pc = "fail"
    BY <1>12 DEF failTask
  <2>5. ProgressOf(h'[x])
    BY <1>0, <2>2, <2>4 DEF HandlerRec, ProgressOf, Working, Building
  <2>6. QED
    BY <2>2, <2>3, <2>5
<1>13. CASE SendJobCompleted(x)
  <2>1. PICK o \in {"none", "completed"} :
          h' = [h EXCEPT ![x].pc = "exit", ![x].outcome = o]
    <3>1. h[x].outcome = "none"
      BY <1>0, <1>13 DEF SendJobCompleted, ProgressOf
    <3>2. QED
      BY <1>13, <3>1 DEF SendJobCompleted, WorkerTypeOK
  <2>2. /\ h' = [h EXCEPT ![x] = h'[x]]
        /\ h'[x] = [h[x] EXCEPT !.pc = "exit", !.outcome = o]
    BY <2>1 DEF WorkerTypeOK
  <2>3. h'[x] \in HandlerRec
    BY <1>0, <2>2 DEF HandlerRec, HandlerPC
  <2>4. h[x].pc = "complete"
    BY <1>13 DEF SendJobCompleted
  <2>5. ProgressOf(h'[x])
    BY <1>0, <2>2, <2>4 DEF HandlerRec, ProgressOf, Working, Building
  <2>6. QED
    BY <2>2, <2>3, <2>5
<1>14. CASE HandlerExit(x) \/ Rerequest(x)
  <2>1. \/ h' = [h EXCEPT ![x].pc = "rerequest"] /\ h[x].pc = "exit"
        \/ h' = [h EXCEPT ![x] = Free]
    BY <1>14 DEF HandlerExit, Rerequest
  <2>2. CASE h' = [h EXCEPT ![x].pc = "rerequest"] /\ h[x].pc = "exit"
    BY <1>0, <1>1, <2>2 DEF Goto, HandlerRec, HandlerPC, ProgressOf, Working, Building
  <2>3. CASE h' = [h EXCEPT ![x] = Free]
    BY <2>3, FreeOK DEF WorkerTypeOK
  <2>4. QED
    BY <2>1, <2>2, <2>3
<1>15. QED
  BY <1>2, <1>3, <1>4, <1>5, <1>7, <1>9, <1>10, <1>11, <1>12, <1>13, <1>14
     DEF HandleJob

\* Types and progress are kept by every step: inductive together, not alone.
LEMMA TypeProgressStep ==
  WorkerTypeOK /\ Progress /\ [WorkerNext]_gvars => WorkerTypeOK' /\ Progress'
<1> SUFFICES ASSUME WorkerTypeOK, Progress, [WorkerNext]_gvars
             PROVE  WorkerTypeOK' /\ Progress'
  OBVIOUS
<1> USE GradientAssumption
<1>0. ASSUME NEW x \in Handler PROVE h[x] \in HandlerRec /\ ProgressOf(h[x])
  BY DEF WorkerTypeOK, Progress
<1>1. CASE StartSession \/ RecvChallenge \/ RecvAck \/ SendInitialRequest
           \/ EnterLoop \/ ConnBreaks
  BY <1>1 DEF StartSession, RecvChallenge, RecvAck, SendInitialRequest,
     EnterLoop, ConnBreaks, WorkerTypeOK, Progress, serverVars, Sess
<1>2. CASE RunReturns
  <2>1. ASSUME NEW x \in Handler
        PROVE  h'[x] \in HandlerRec /\ ProgressOf(h'[x])
    <3>1. \/ h'[x] = [h[x] EXCEPT !.live = FALSE, !.cancelled = TRUE]
          \/ h'[x] = h[x]
      BY <1>2 DEF RunReturns, Orphaned
    <3>2. CASE h'[x] = [h[x] EXCEPT !.live = FALSE, !.cancelled = TRUE]
      <4>1. h'[x] \in HandlerRec
        BY <1>0, <3>2 DEF HandlerRec
      <4>2. ProgressOf(h'[x])
        BY <1>0, <3>2 DEF HandlerRec, ProgressOf
      <4>3. QED
        BY <4>1, <4>2
    <3>3. QED
      BY <1>0, <3>1, <3>2
  <2>2. h' \in [Handler -> HandlerRec]
    BY <1>2, <2>1 DEF RunReturns, Orphaned
  <2>3. QED
    BY <1>2, <2>1, <2>2 DEF RunReturns, WorkerTypeOK, Progress, Sess
<1>3. CASE Heartbeat
  BY <1>3 DEF Heartbeat, HeartbeatTick, HeartbeatSend, WorkerTypeOK, Progress,
     serverVars
<1>4. ASSUME NEW j \in JobID, NEW x \in Handler, dispatch(j, x)
      PROVE  WorkerTypeOK' /\ Progress'
  <2>1. /\ h'[x] = [Free EXCEPT !.pc = "start", !.job = j, !.live = TRUE]
        /\ h' = [h EXCEPT ![x] = h'[x]]
    BY <1>4 DEF dispatch, WorkerTypeOK
  <2>2. h'[x] \in HandlerRec
    BY <2>1, FreeOK DEF HandlerRec, HandlerPC
  <2>3. ProgressOf(h'[x])
    BY <2>1, DueFacts DEF Free, ProgressOf, Working, Building
  <2>4. h' \in [Handler -> HandlerRec] /\ Progress'
    BY <2>1, <2>2, <2>3, OneHandler
  <2>5. QED
    BY <1>4, <2>4 DEF dispatch, Registered, WorkerTypeOK
<1>5. ASSUME NEW j \in JobID, abort(j) PROVE WorkerTypeOK' /\ Progress'
  <2>1. PICK x \in Handler : /\ h'[x] = [h[x] EXCEPT !.cancelled = TRUE]
                             /\ h' = [h EXCEPT ![x] = h'[x]]
    BY <1>5 DEF abort, WorkerTypeOK
  <2>2. h'[x] \in HandlerRec
    BY <1>0, <2>1 DEF HandlerRec
  <2>3. ProgressOf(h'[x])
    BY <1>0, <2>1 DEF HandlerRec, ProgressOf
  <2>4. h' \in [Handler -> HandlerRec] /\ Progress'
    BY <2>1, <2>2, <2>3, OneHandler
  <2>5. QED
    BY <1>5, <2>4 DEF abort, WorkerTypeOK, serverVars
<1>6. CASE ServerForgets
  BY <1>6 DEF ServerForgets, clientVars, WorkerTypeOK, Progress
<1>7. ASSUME NEW q \in QueryID, NEW a \in Answer, routeCacheResponse(q, a)
      PROVE  WorkerTypeOK' /\ Progress'
  <2>1. CASE UNCHANGED h
    BY <1>7, <2>1 DEF routeCacheResponse, WorkerTypeOK, Progress
  <2>2. CASE h' # h
    <3>1. PICK x \in Handler, y \in Handler :
            h' = [h EXCEPT ![x].resp = a, ![x].respFor = y]
      BY <1>7, <2>2 DEF routeCacheResponse, WorkerTypeOK
    <3>2. /\ h'[x] = [h[x] EXCEPT !.resp = a, !.respFor = y]
          /\ h' = [h EXCEPT ![x] = h'[x]]
      BY <3>1 DEF WorkerTypeOK
    <3>3. h[x] \in HandlerRec /\ ProgressOf(h[x])
      BY <1>0
    <3>4. h'[x] \in HandlerRec
      BY <3>2, <3>3 DEF HandlerRec
    <3>5. ProgressOf(h'[x])
      BY <3>2, <3>3 DEF HandlerRec, ProgressOf
    <3>6. h' \in [Handler -> HandlerRec] /\ Progress'
      BY <3>2, <3>4, <3>5, OneHandler
    <3>7. QED
      BY <1>7, <3>6 DEF routeCacheResponse, WorkerTypeOK
  <2>3. QED
    BY <2>1, <2>2
<1>8. ASSUME NEW x \in Handler, HandleJob(x) PROVE WorkerTypeOK' /\ Progress'
  <2>1. h' \in [Handler -> HandlerRec] /\ Progress'
    BY <1>8, HandleJobProgress
  <2>2. CASE UNCHANGED <<sess, sent, heartbeat, cancels, running, cacheWaiters,
                         serverVars>>
    BY <2>1, <2>2 DEF WorkerTypeOK, serverVars
  <2>3. CASE RegisterQuery(x) \/ SendQuery(x) \/ AwaitAnswer(x)
             \/ AwaitCancelled(x)
    BY <2>1, <2>3 DEF RegisterQuery, SendQuery, AwaitAnswer, AwaitCancelled,
       EndQuery, WorkerTypeOK, serverVars
  <2>4. CASE HandlerExit(x) \/ Rerequest(x)
    BY <2>1, <2>4 DEF HandlerExit, ExitCount, Rerequest, WorkerTypeOK, serverVars
  <2>5. QED
    BY <1>8, <2>2, <2>3, <2>4 DEF HandleJob, LoopHead, Announce, readDerivation,
       GetBuilder, ExecuteBuild, Upload, SendNarUploaded, SendBuildOutput,
       failTask, SendJobCompleted, OnlyHandler
<1>9. CASE UNCHANGED gvars
  BY <1>9 DEF gvars, clientVars, serverVars, WorkerTypeOK, Progress
<1>10. QED
  BY <1>1, <1>2, <1>3, <1>4, <1>5, <1>6, <1>7, <1>8, <1>9
     DEF WorkerNext, Session, Server

\* They hold at the start, when no goroutine runs.
LEMMA ProgressInit == WorkerInit => WorkerTypeOK /\ Progress
<1> SUFFICES ASSUME WorkerInit PROVE WorkerTypeOK /\ Progress
  OBVIOUS
<1>1. h \in [Handler -> HandlerRec] /\ Progress
  BY FreeOK DEF WorkerInit, Progress
<1>2. QED
  BY <1>1, GradientAssumption DEF WorkerInit, WorkerTypeOK, Sess

\* The maps, the counters and the goroutines of a worker keep their types: the
\* counters of tasks and outputs never leave their ranges.
THEOREM WorkerTypeCorrect == WorkerSpec => []WorkerTypeOK
  BY ProgressInit, TypeProgressStep, PTL DEF WorkerSpec

\* A goroutine has a builder exactly while it works on a task that got one, on
\* every path through HandleJob, however many tasks and goroutines there are.
THEOREM BuilderReleased == WorkerSpec => []BuilderPerTask
<1>1. WorkerTypeOK /\ Progress => BuilderPerTask
  BY DEF WorkerTypeOK, Progress, ProgressOf, Building, HandlerRec, HandlerPC,
     BuilderPerTask
<1>2. QED
  BY <1>1, ProgressInit, TypeProgressStep, PTL DEF WorkerSpec

\* JobCompleted reaches the server only after every task of the job was
\* reported and all its outputs are in the cache.
THEOREM CompletedIsBuilt == WorkerSpec => []CompletedMeansBuilt
<1>1. Progress => CompletedMeansBuilt
  BY DueFacts DEF Progress, ProgressOf, CompletedMeansBuilt
<1>2. QED
  BY <1>1, ProgressInit, TypeProgressStep, PTL DEF WorkerSpec

-----------------------------------------------------------------------------
(* Queries and their answers *)

\* The server answers a query to the goroutine that asked, so a channel that
\* is registered under the ID of a query on its way belongs to its asker.
AskerRegistered ==
  \A q \in QueryID : queries[q] # NoHandler /\ cacheWaiters[q] # NoHandler
                        => queries[q] = cacheWaiters[q]

\* A step that leaves every goroutine's query and channel alone.
SameChannels ==
  \A x \in Handler : /\ h'[x].query = h[x].query
                      /\ h'[x].resp = h[x].resp
                      /\ h'[x].respFor = h[x].respFor

\* OwnAnswer holds after a step that touches no channel and at most forgets
\* queries.
LEMMA ChannelsFrame ==
  ASSUME OwnAnswer, AskerRegistered, SameChannels, UNCHANGED cacheWaiters,
         \A q \in QueryID : queries'[q] \in {queries[q], NoHandler}
  PROVE  OwnAnswer' /\ AskerRegistered'
  BY DEF OwnAnswer, AskerRegistered, SameChannels

\* A goroutine that gives up its channel, with the query it had or without
\* one, leaves the others' channels alone.
LEMMA ChannelClosed ==
  ASSUME WorkerTypeOK, OwnAnswer, AskerRegistered, NEW x \in Handler,
         NEW r, r.query = NoQuery, r.resp = "none",
         h' = [h EXCEPT ![x] = r],
         cacheWaiters' = [cacheWaiters EXCEPT ![h[x].query] = NoHandler],
         UNCHANGED queries
  PROVE  OwnAnswer' /\ AskerRegistered'
<1> USE GradientAssumption
<1>1. ASSUME NEW y \in Handler
      PROVE  h'[y] = IF y = x THEN r ELSE h[y]
  BY DEF WorkerTypeOK
<1>2. ASSUME NEW q \in QueryID
      PROVE  cacheWaiters'[q] = IF q = h[x].query THEN NoHandler ELSE cacheWaiters[q]
  BY DEF WorkerTypeOK
<1>3. ASSUME NEW y \in Handler, h'[y].resp # "none" PROVE h'[y].respFor = y
  BY <1>1, <1>3 DEF OwnAnswer
<1>4. ASSUME NEW q \in QueryID, NEW y \in Handler
      PROVE  cacheWaiters'[q] = y <=> h'[y].query = q
  BY <1>1, <1>2 DEF OwnAnswer
<1>5. AskerRegistered'
  BY <1>2 DEF AskerRegistered
<1>6. QED
  BY <1>3, <1>4, <1>5 DEF OwnAnswer

\* Every step keeps the answers with their askers.
LEMMA OwnAnswerStep ==
  WorkerTypeOK /\ Progress /\ OwnAnswer /\ AskerRegistered /\ [WorkerNext]_gvars
    => OwnAnswer' /\ AskerRegistered'
<1> SUFFICES ASSUME WorkerTypeOK, Progress, OwnAnswer, AskerRegistered,
                    [WorkerNext]_gvars
             PROVE  OwnAnswer' /\ AskerRegistered'
  OBVIOUS
<1> USE GradientAssumption
<1>0. ASSUME NEW x \in Handler
      PROVE  /\ h[x] \in HandlerRec
             /\ h[x].query # NoQuery => h[x].pc \in {"ask", "await"}
  BY DEF WorkerTypeOK, Progress, ProgressOf
<1>1. CASE UNCHANGED <<h, cacheWaiters, queries>>
  BY <1>1, ChannelsFrame DEF SameChannels
<1>2. CASE RunReturns
  <2>1. SameChannels
    <3>1. ASSUME NEW x \in Handler
          PROVE  \/ h'[x] = [h[x] EXCEPT !.live = FALSE, !.cancelled = TRUE]
                 \/ h'[x] = h[x]
      BY <1>2 DEF RunReturns, Orphaned
    <3>2. QED
      BY <1>0, <3>1 DEF SameChannels, HandlerRec
  <2>2. QED
    BY <1>2, <2>1, ChannelsFrame DEF RunReturns
<1>3. ASSUME NEW x \in Handler, NEW p, Goto(x, p),
             UNCHANGED <<cacheWaiters, queries>>
      PROVE  OwnAnswer' /\ AskerRegistered'
  <2>1. SameChannels
    BY <1>0, <1>3 DEF Goto, SameChannels, WorkerTypeOK, HandlerRec
  <2>2. QED
    BY <1>3, <2>1, ChannelsFrame
<1>4. ASSUME NEW x \in Handler, h[x].query = NoQuery, NEW r,
             h' = [h EXCEPT ![x] = r], r.query = NoQuery, r.resp = "none",
             UNCHANGED <<cacheWaiters, queries>>
      PROVE  OwnAnswer' /\ AskerRegistered'
  <2>1. cacheWaiters' = [cacheWaiters EXCEPT ![h[x].query] = NoHandler]
    BY <1>4 DEF WorkerTypeOK
  <2>2. QED
    BY <1>4, <2>1, ChannelClosed
<1>5. ASSUME NEW j \in JobID, NEW x \in Handler, dispatch(j, x)
      PROVE  OwnAnswer' /\ AskerRegistered'
  <2> DEFINE r == [Free EXCEPT !.pc = "start", !.job = j, !.live = TRUE]
  <2>1. r.query = NoQuery /\ r.resp = "none"
    BY DEF Free
  <2>2. h[x].query = NoQuery
    BY <1>0, <1>5 DEF dispatch
  <2>3. h' = [h EXCEPT ![x] = r] /\ UNCHANGED <<cacheWaiters, queries>>
    BY <1>5 DEF dispatch
  <2> HIDE DEF r
  <2>4. QED
    BY <1>4, <2>1, <2>2, <2>3
<1>6. ASSUME NEW j \in JobID, abort(j) PROVE OwnAnswer' /\ AskerRegistered'
  <2>1. SameChannels
    BY <1>0, <1>6 DEF abort, SameChannels, WorkerTypeOK, HandlerRec
  <2>2. QED
    BY <1>6, <2>1, ChannelsFrame DEF abort, serverVars
<1>7. ASSUME NEW q \in QueryID, NEW a \in Answer, routeCacheResponse(q, a)
      PROVE  OwnAnswer' /\ AskerRegistered'
  <2>1. /\ UNCHANGED cacheWaiters
        /\ \A p \in QueryID : queries'[p] \in {queries[p], NoHandler}
    BY <1>7 DEF routeCacheResponse, WorkerTypeOK
  <2>2. CASE UNCHANGED h
    BY <2>1, <2>2, ChannelsFrame DEF SameChannels
  <2>3. CASE h' # h
    <3>1. PICK x \in Handler :
            h' = [h EXCEPT ![x].resp = a, ![x].respFor = x]
      BY <1>7, <2>3 DEF routeCacheResponse, WorkerTypeOK, AskerRegistered
    <3>2. /\ h'[x].respFor = x
          /\ \A y \in Handler : /\ h'[y].query = h[y].query
                                /\ y # x => h'[y] = h[y]
      BY <1>0, <3>1 DEF WorkerTypeOK, HandlerRec
    <3>3. QED
      BY <2>1, <3>2 DEF OwnAnswer, AskerRegistered
  <2>4. QED
    BY <2>2, <2>3
<1>8. ASSUME NEW x \in Handler, NEW p \in {"fail", "push"}, EndQuery(x, p),
             UNCHANGED queries
      PROVE  OwnAnswer' /\ AskerRegistered'
  <2> DEFINE r == [h[x] EXCEPT !.pc = p, !.query = NoQuery, !.resp = "none",
                               !.respFor = NoHandler]
  <2>1. r.query = NoQuery /\ r.resp = "none"
    BY <1>0 DEF HandlerRec
  <2>2. h' = [h EXCEPT ![x] = r]
    BY <1>8 DEF EndQuery, WorkerTypeOK
  <2> HIDE DEF r
  <2>3. QED
    BY <1>8, <2>1, <2>2, ChannelClosed DEF EndQuery
<1>9. ASSUME NEW x \in Handler
      PROVE  AfterOutput(x).query = NoQuery /\ AfterOutput(x).resp = "none"
  BY <1>0 DEF AfterOutput, HandlerRec
<1>10. ASSUME NEW x \in Handler, HandleJob(x)
       PROVE  OwnAnswer' /\ AskerRegistered'
  <2>1. CASE LoopHead(x) \/ Announce(x) \/ readDerivation(x) \/ ExecuteBuild(x)
             \/ Upload(x)
    BY <1>3, <2>1 DEF LoopHead, Announce, readDerivation, ExecuteBuild, Upload,
       OnlyHandler, serverVars
  <2>2. CASE GetBuilder(x) \/ SendBuildOutput(x) \/ failTask(x)
             \/ SendJobCompleted(x)
    <3>1. SameChannels
      BY <1>0, <2>2 DEF GetBuilder, SendBuildOutput, failTask, SendJobCompleted,
         Goto, SameChannels, WorkerTypeOK, HandlerRec
    <3>2. QED
      BY <2>2, <3>1, ChannelsFrame DEF GetBuilder, SendBuildOutput, failTask,
         SendJobCompleted, OnlyHandler, serverVars
  <2>3. CASE RegisterQuery(x)
    <3>1. CASE Goto(x, "fail") /\ UNCHANGED cacheWaiters
      BY <1>3, <2>3, <3>1 DEF RegisterQuery, serverVars
    <3>2. CASE ~(Goto(x, "fail") /\ UNCHANGED cacheWaiters)
      <4>1. PICK q \in QueryID :
              /\ cacheWaiters[q] = NoHandler /\ queries[q] = NoHandler
              /\ cacheWaiters' = [cacheWaiters EXCEPT ![q] = x]
              /\ h' = [h EXCEPT ![x].pc = "ask", ![x].query = q]
        BY <2>3, <3>2 DEF RegisterQuery, FreshQuery
      <4>2. h[x].query = NoQuery /\ UNCHANGED queries
        BY <1>0, <2>3 DEF RegisterQuery, serverVars
      <4>3. ASSUME NEW y \in Handler
            PROVE  /\ h'[y].resp = h[y].resp /\ h'[y].respFor = h[y].respFor
                   /\ h'[y].query = IF y = x THEN q ELSE h[y].query
        BY <1>0, <4>1 DEF WorkerTypeOK, HandlerRec
      <4>4. ASSUME NEW p \in QueryID
            PROVE  cacheWaiters'[p] = IF p = q THEN x ELSE cacheWaiters[p]
        BY <4>1 DEF WorkerTypeOK
      <4>5. ASSUME NEW p \in QueryID, NEW y \in Handler
            PROVE  cacheWaiters'[p] = y <=> h'[y].query = p
        <5>1. cacheWaiters[p] = y <=> h[y].query = p
          BY DEF OwnAnswer
        <5>2. CASE p = q
          BY <4>1, <4>3, <4>4, <5>1, <5>2
        <5>3. CASE p # q
          BY <4>2, <4>3, <4>4, <5>1, <5>3
        <5>4. QED
          BY <5>2, <5>3
      <4>6. ASSUME NEW y \in Handler, h'[y].resp # "none" PROVE h'[y].respFor = y
        BY <4>3, <4>6 DEF OwnAnswer
      <4>7. AskerRegistered'
        BY <4>1, <4>2, <4>4 DEF AskerRegistered
      <4>8. QED
        BY <4>5, <4>6, <4>7 DEF OwnAnswer
    <3>3. QED
      BY <3>1, <3>2
  <2>4. CASE SendQuery(x)
    <3>1. CASE CanSend(x)
      <4>1. SameChannels /\ UNCHANGED cacheWaiters
        BY <1>0, <2>4, <3>1 DEF SendQuery, Goto, SameChannels, WorkerTypeOK,
           HandlerRec
      <4>2. \A q \in QueryID : queries'[q] = IF q = h[x].query THEN x ELSE queries[q]
        BY <2>4, <3>1 DEF SendQuery, WorkerTypeOK
      <4>3. QED
        BY <4>1, <4>2 DEF OwnAnswer, AskerRegistered, SameChannels
    <3>2. CASE ~CanSend(x)
      BY <1>8, <2>4, <3>2 DEF SendQuery
    <3>3. QED
      BY <3>1, <3>2
  <2>5. CASE AwaitAnswer(x) \/ AwaitCancelled(x)
    BY <1>8, <1>9, <2>5, ChannelClosed DEF AwaitAnswer, AwaitCancelled, serverVars
  <2>6. CASE SendNarUploaded(x)
    BY <1>0, <1>3, <1>4, <1>9, <2>6 DEF SendNarUploaded, OnlyHandler, serverVars
  <2>7. CASE HandlerExit(x) \/ Rerequest(x)
    <3>1. UNCHANGED <<cacheWaiters, queries>> /\ h[x].query = NoQuery
      BY <1>0, <2>7 DEF HandlerExit, Rerequest, serverVars
    <3>2. Goto(x, "rerequest") \/ h' = [h EXCEPT ![x] = Free]
      BY <2>7 DEF HandlerExit, Rerequest, Goto
    <3>3. Free.query = NoQuery /\ Free.resp = "none"
      BY DEF Free
    <3>4. QED
      BY <1>3, <1>4, <3>1, <3>2, <3>3
  <2>8. QED
    BY <1>10, <2>1, <2>2, <2>3, <2>4, <2>5, <2>6, <2>7 DEF HandleJob
<1>11. QED
  BY <1>1, <1>2, <1>5, <1>6, <1>7, <1>10 DEF WorkerNext, Session, Heartbeat,
     Server, StartSession, RecvChallenge, RecvAck, SendInitialRequest, EnterLoop,
     ConnBreaks, HeartbeatTick, HeartbeatSend, ServerForgets, gvars, clientVars,
     serverVars

\* The answer a goroutine finds in its channel is the answer to its own query,
\* and no channel outlives the query it was registered for, for any number of
\* goroutines and queries in flight.
THEOREM AnswersReachAsker == WorkerSpec => []OwnAnswer
<1>1. WorkerInit => OwnAnswer /\ AskerRegistered
  BY GradientAssumption DEF WorkerInit, OwnAnswer, AskerRegistered, Free
<1>2. QED
  BY <1>1, ProgressInit, TypeProgressStep, OwnAnswerStep, PTL DEF WorkerSpec

-----------------------------------------------------------------------------
(* Aborts *)

\* Of two goroutines with the same job ID one at least is over for the server:
\* it does not assign an ID that it takes to be in work.
OneInWork ==
  \A x, y \in Handler :
    x # y /\ h[x].job = h[y].job /\ h[x].job # NoJob => Over(x) \/ Over(y)

\* Where a goroutine is no longer, or not yet, at work.
Ended == {"free", "exit", "rerequest"}

\* Only dispatch gives a goroutine a job and puts it to work; its session, its
\* context and its report do not come back.
MayBecome(r, s) ==
  \/ s = Free
  \/ /\ s.job = r.job
     /\ s.live => r.live
     /\ r.cancelled => s.cancelled
     /\ r.outcome # "none" => s.outcome # "none"
     /\ s.pc \notin Ended => r.pc \notin Ended

JobsKept == \A x \in Handler : MayBecome(h[x], h'[x])

\* The steps of a goroutine keep its job until it is a free slot again.
LEMMA HandleJobKeeps ==
  ASSUME WorkerTypeOK, NEW x \in Handler, HandleJob(x)
  PROVE  JobsKept /\ \A y \in Handler \ {x} : h'[y] = h[y]
<1>0. h[x] \in HandlerRec
  BY DEF WorkerTypeOK
<1>1. PICK r : h' = [h EXCEPT ![x] = r] /\ MayBecome(h[x], r)
  <2>1. CASE LoopHead(x) \/ Announce(x) \/ readDerivation(x) \/ ExecuteBuild(x)
             \/ Upload(x) \/ GetBuilder(x) \/ RegisterQuery(x)
    BY <1>0, <2>1 DEF LoopHead, Announce, readDerivation, ExecuteBuild, Upload,
       GetBuilder, RegisterQuery, Goto, HandlerRec, MayBecome, Ended
  <2>2. CASE SendQuery(x) \/ AwaitAnswer(x) \/ AwaitCancelled(x) \/ SendNarUploaded(x)
    <3>1. h[x].pc \notin Ended
      BY <2>2 DEF SendQuery, AwaitAnswer, AwaitCancelled, SendNarUploaded, Ended
    <3>2. MayBecome(h[x], AfterOutput(x))
      BY <1>0, <3>1 DEF AfterOutput, HandlerRec, MayBecome
    <3>3. CASE h' = [h EXCEPT ![x] = AfterOutput(x)]
      BY <3>2, <3>3
    <3>4. CASE \E q : Goto(x, q) \/ EndQuery(x, q)
      BY <1>0, <3>1, <3>4 DEF Goto, EndQuery, HandlerRec, MayBecome
    <3>5. QED
      BY <2>2, <3>3, <3>4 DEF SendQuery, AwaitAnswer, AwaitCancelled, SendNarUploaded
  <2>3. CASE SendBuildOutput(x)
    <3>1. CASE CanSend(x)
      <4> DEFINE r == [h[x] EXCEPT !.pc = "start", !.task = @ + 1, !.done = 0,
                                   !.holds = FALSE, !.reported = @ + 1]
      <4>1. h' = [h EXCEPT ![x] = r]
        BY <2>3, <3>1 DEF SendBuildOutput
      <4>2. MayBecome(h[x], r)
        BY <1>0, <2>3 DEF SendBuildOutput, HandlerRec, MayBecome, Ended
      <4>3. QED
        BY <4>1, <4>2
    <3>2. CASE ~CanSend(x)
      <4> DEFINE r == [h[x] EXCEPT !.pc = "exit", !.holds = FALSE]
      <4>1. h' = [h EXCEPT ![x] = r]
        BY <2>3, <3>2 DEF SendBuildOutput
      <4>2. MayBecome(h[x], r)
        BY <1>0 DEF HandlerRec, MayBecome, Ended
      <4>3. QED
        BY <4>1, <4>2
    <3>3. QED
      BY <3>1, <3>2
  <2>4. CASE failTask(x)
    <3> DEFINE r == [h[x] EXCEPT !.pc = "exit", !.holds = FALSE,
                                 !.outcome = IF CanSend(x) THEN "failed" ELSE @]
    <3>1. h' = [h EXCEPT ![x] = r]
      BY <2>4 DEF failTask
    <3>2. MayBecome(h[x], r)
      BY <1>0 DEF HandlerRec, MayBecome, Ended
    <3>3. QED
      BY <3>1, <3>2
  <2>5. CASE SendJobCompleted(x)
    <3> DEFINE r == [h[x] EXCEPT !.pc = "exit",
                                 !.outcome = IF CanSend(x) THEN "completed" ELSE @]
    <3>1. h' = [h EXCEPT ![x] = r]
      BY <2>5 DEF SendJobCompleted
    <3>2. MayBecome(h[x], r)
      BY <1>0 DEF HandlerRec, MayBecome, Ended
    <3>3. QED
      BY <3>1, <3>2
  <2>6. CASE HandlerExit(x) \/ Rerequest(x)
    BY <1>0, <2>6 DEF HandlerExit, Rerequest, HandlerRec, MayBecome, Ended
  <2>7. QED
    BY <2>1, <2>2, <2>3, <2>4, <2>5, <2>6 DEF HandleJob
<1>2. h'[x] = r /\ \A y \in Handler \ {x} : h'[y] = h[y]
  BY <1>1 DEF WorkerTypeOK
<1>3. QED
  BY <1>1, <1>2 DEF JobsKept, MayBecome

\* A step without dispatch keeps the jobs of the goroutines.
LEMMA StepKeepsJobs ==
  ASSUME WorkerTypeOK, [WorkerNext]_gvars,
         \A j \in JobID, x \in Handler : ~dispatch(j, x)
  PROVE  JobsKept
<1>0. ASSUME NEW x \in Handler PROVE h[x] \in HandlerRec
  BY DEF WorkerTypeOK
<1>1. CASE UNCHANGED h
  BY <1>1 DEF JobsKept, MayBecome
<1>2. CASE RunReturns
  <2>1. ASSUME NEW x \in Handler
        PROVE  h'[x] = [h[x] EXCEPT !.live = FALSE, !.cancelled = TRUE] \/ h'[x] = h[x]
    BY <1>2 DEF RunReturns, Orphaned
  <2>2. QED
    BY <1>0, <2>1 DEF JobsKept, MayBecome, HandlerRec
<1>3. ASSUME NEW j \in JobID, abort(j) PROVE JobsKept
  <2>1. ASSUME NEW x \in Handler
        PROVE  h'[x] = [h[x] EXCEPT !.cancelled = TRUE] \/ h'[x] = h[x]
    BY <1>3 DEF abort, WorkerTypeOK
  <2>2. QED
    BY <1>0, <2>1 DEF JobsKept, MayBecome, HandlerRec
<1>4. ASSUME NEW q \in QueryID, NEW a \in Answer, routeCacheResponse(q, a)
      PROVE  JobsKept
  <2>1. ASSUME NEW x \in Handler
        PROVE  /\ h'[x].job = h[x].job /\ h'[x].live = h[x].live /\ h'[x].pc = h[x].pc
               /\ h'[x].cancelled = h[x].cancelled /\ h'[x].outcome = h[x].outcome
    BY <1>0, <1>4 DEF routeCacheResponse, WorkerTypeOK, HandlerRec
  <2>2. QED
    BY <2>1 DEF JobsKept, MayBecome
<1>5. QED
  BY <1>1, <1>2, <1>3, <1>4, HandleJobKeeps DEF WorkerNext, Session, Heartbeat, Server,
     StartSession, RecvChallenge, RecvAck, SendInitialRequest, EnterLoop, ConnBreaks,
     HeartbeatTick, HeartbeatSend, ServerForgets, gvars, clientVars, serverVars

\* Every step leaves at most one goroutine of a job ID in work.
LEMMA OneInWorkStep ==
  WorkerTypeOK /\ OneInWork /\ [WorkerNext]_gvars => OneInWork'
<1> SUFFICES ASSUME WorkerTypeOK, OneInWork, [WorkerNext]_gvars PROVE OneInWork'
  OBVIOUS
<1>1. ASSUME NEW j \in JobID, NEW x \in Handler, dispatch(j, x) PROVE OneInWork'
  <2>1. /\ h'[x].job = j /\ \A y \in Handler \ {x} : h'[y] = h[y]
        /\ \A y \in Handler : h[y].job = j => Over(y)
    BY <1>1 DEF dispatch, WorkerTypeOK, Free
  <2>2. \A y \in Handler \ {x} : Over(y)' <=> Over(y)
    BY <2>1 DEF Over
  <2>3. QED
    BY <2>1, <2>2 DEF OneInWork
<1>2. CASE JobsKept
  <2>1. Free.job = NoJob
    BY DEF Free
  <2>2. ASSUME NEW x \in Handler, h'[x].job # NoJob
        PROVE  h'[x].job = h[x].job /\ (Over(x) => Over(x)')
    BY <1>2, <2>1, <2>2 DEF JobsKept, MayBecome, Over
  <2>3. QED
    BY <2>2 DEF OneInWork
<1>3. QED
  BY <1>1, <1>2, StepKeepsJobs

\* A goroutine at work that can be aborted before a step can be aborted after
\* it, unless the step is the deferred call of a leftover with its job ID.
LEMMA AbortStep ==
  ASSUME WorkerTypeOK, Progress, OneInWork, [WorkerNext]_gvars, NEW x \in Handler,
         AtWork(x)', ~Abortable(x)', ~AtWork(x) \/ Abortable(x)
  PROVE  \E y \in Handler \ {x} : h[y].job = h[x].job /\ Over(y) /\ RunsDeferred(y)
<1>1. ASSUME NEW j \in JobID, NEW y \in Handler, dispatch(j, y) PROVE FALSE
  <2>1. /\ \A z \in Handler \ {y} : h'[z] = h[z]
        /\ h'[y].job = j
        /\ cancels'[j] = y /\ \A k \in JobID \ {j} : cancels'[k] = cancels[k]
        /\ cancels' = [cancels EXCEPT ![j] = y]
        /\ \A z \in Handler : h[z].job = j => Over(z)
    BY <1>1 DEF dispatch, Registered, WorkerTypeOK, Free
  <2>2. x # y
    BY <2>1 DEF Abortable
  <2>3. AtWork(x) /\ ~h[x].cancelled /\ cancels[h[x].job] = x /\ cancels'[h[x].job] # x
    BY <2>1, <2>2 DEF AtWork, Abortable
  <2>4. h[x].job = j
    BY <2>1, <2>3 DEF WorkerTypeOK
  <2>5. h[x].outcome = "none"
    BY <2>3 DEF Progress, ProgressOf, AtWork
  <2>6. QED
    BY <2>1, <2>3, <2>4, <2>5 DEF Over, AtWork
<1>2. CASE \A j \in JobID, y \in Handler : ~dispatch(j, y)
  <2>1. MayBecome(h[x], h'[x]) /\ h'[x] # Free
    BY <1>2, StepKeepsJobs DEF JobsKept, AtWork, Free
  <2>2. /\ h'[x].job = h[x].job /\ AtWork(x) /\ ~h[x].cancelled
        /\ cancels[h[x].job] = x /\ cancels'[h[x].job] # x
    BY <2>1 DEF MayBecome, AtWork, Abortable, Ended
  <2>3. h[x].outcome = "none" /\ ~Over(x)
    BY <2>2 DEF Progress, ProgressOf, AtWork, Over
  <2>4. PICK y \in Handler : HandlerExit(y)
    <3>1. CASE \E y \in Handler : HandleJob(y) /\ ~HandlerExit(y)
      <4>1. UNCHANGED cancels
        BY <3>1 DEF HandleJob, LoopHead, Announce, readDerivation, GetBuilder,
           ExecuteBuild, RegisterQuery, SendQuery, AwaitAnswer, AwaitCancelled, Upload,
           SendNarUploaded, SendBuildOutput, failTask, SendJobCompleted, Rerequest,
           OnlyHandler
      <4>2. QED
        BY <2>2, <4>1
    <3>2. CASE ~\E y \in Handler : HandleJob(y)
      <4>1. UNCHANGED cancels
        BY <1>2, <3>2 DEF WorkerNext, Session, Heartbeat, Server, StartSession,
           RecvChallenge, RecvAck, SendInitialRequest, EnterLoop, ConnBreaks, RunReturns,
           HeartbeatTick, HeartbeatSend, ServerForgets, abort, routeCacheResponse,
           gvars, clientVars, serverVars
      <4>2. QED
        BY <2>2, <4>1
    <3>3. QED
      BY <3>1, <3>2
  <2>5. /\ h[y].pc = "exit" /\ cancels' = [cancels EXCEPT ![h[y].job] = NoHandler]
        /\ h' = [h EXCEPT ![y].pc = "rerequest"] \/ h' = [h EXCEPT ![y] = Free]
    BY <2>4 DEF HandlerExit
  <2>6. x # y
    BY <2>2, <2>5 DEF AtWork
  <2>7. h[y].job \in JobID /\ h[x].job = h[y].job
    BY <2>2, <2>5 DEF WorkerTypeOK
  <2>8. h'[y].pc # "exit"
    BY <2>5 DEF WorkerTypeOK, HandlerRec, Free
  <2>9. Over(y)
    BY <2>3, <2>6, <2>7, GradientAssumption DEF OneInWork
  <2>10. QED
    BY <2>5, <2>6, <2>7, <2>8, <2>9 DEF RunsDeferred
<1>3. QED
  BY <1>1, <1>2

\* AbortJob finds the context of the goroutine that works on the job, whatever
\* the goroutines of this session and of earlier ones do and whichever job IDs
\* the server assigns again: the entry goes only with the deferred call of
\* another goroutine that had the ID before and is over for the server.
THEOREM AbortFindsJob == WorkerSpec => AbortReaches
<1>1. WorkerInit => OneInWork
  BY DEF WorkerInit, OneInWork, Free
<1>2. WorkerTypeOK /\ Progress /\ OneInWork /\ [WorkerNext]_gvars =>
        [\A x \in Handler : AtWork(x)' /\ ~Abortable(x)' =>
           \/ AtWork(x) /\ ~Abortable(x)
           \/ \E y \in Handler \ {x} :
                h[y].job = h[x].job /\ Over(y) /\ RunsDeferred(y)]_gvars
  BY AbortStep
<1>3. QED
  BY <1>1, <1>2, ProgressInit, TypeProgressStep, OneInWorkStep, PTL
     DEF WorkerSpec, AbortReaches
=============================================================================
