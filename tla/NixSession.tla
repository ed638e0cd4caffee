------------------------------ MODULE NixSession ------------------------------
(***************************************************************************)
(* One connection of a Nix client: the operation loop and the handlers of  *)
(* nixproto/proxy.go, on the byte stream of nixproto/conn.go, in the       *)
(* session that main.go opens for it.  A handler has to take exactly its   *)
(* own part of the stream and to answer exactly once, or every later       *)
(* operation of the connection is misread.                                 *)
(*                                                                         *)
(* The stream is a sequence of tokens: an opcode, the arguments of an      *)
(* operation (one token for all of them), the length header of a frame     *)
(* and 32 KiB chunks of frame data.  A reply is a marker (StderrLast or    *)
(* StderrError) and what follows it.  The client, the nix-daemon on the    *)
(* store host and the builder are external.                                *)
(***************************************************************************)
EXTENDS Integers, Sequences, FiniteSets

CONSTANTS
  Environments, \* what a session may meet (records of the type Environment)
  Minor,      \* minor version of the negotiated protocol
  MaxOps,     \* bounds the operations of a connection
  MaxFrames,  \* bounds the frames of an upload
  MaxChunks,  \* bounds the chunks of a frame, and of a NAR
  MaxPipe     \* bounds the tokens in flight to the proxy

AllOps == {"SetOptions", "IsValidPath", "QueryValidPaths", "QueryPathInfo",
           "BuildDerivation", "AddToStore", "AddMultipleToStore",
           "NarFromPath", "QueryReferrers", "AddTempRoot", "QueryMissing",
           "Unhandled"}

\* What the proxy refuses without reading all of it.
RefusedOps == {"AddToStore", "Unhandled"}

\* "earlyLast": the daemon ends its stderr stream before it has the end of the
\* source.  "daemonHangs": the store host stops reading and answering.
AllFaults == {"dial", "daemonError", "daemonDies", "daemonHangs", "earlyLast",
              "dumpFails", "disconnect"}

\* The failures that neither end a connection to the store host nor answer an
\* upload before its time.
MildFaults == {"dial", "daemonError", "daemonHangs", "disconnect"}

\* Whether there is a store host (ProxyConfig.StoreHostAddr), the operations
\* that the client sends and what may go wrong outside of the proxy.
Environment == [storeHost : BOOLEAN, ops : SUBSET AllOps,
                faults : SUBSET AllFaults]

ASSUME SessionAssumption ==
  /\ Environments \subseteq Environment
  /\ {Minor, MaxOps} \subseteq Nat
  /\ {MaxFrames, MaxChunks, MaxPipe} \subseteq Nat \ {0}

VARIABLES
  \* the client
  client,     \* what it does
  cop,        \* its operation
  frames,     \* frames it has yet to send
  sent,       \* chunks of frame data it has sent in this upload
  nops,       \* operations sent so far
  \* the streams
  in,         \* tokens from the client to the proxy
  out,        \* tokens from the proxy to the client
  \* the proxy
  pc,         \* where the handler of the operation stands
  op,         \* the operation
  toRead,     \* chunks left of the current frame, or of the NAR
  reply,      \* the reply after the drain of a framed source
  fwd,        \* chunks forwarded to the store host
  markers,    \* markers written for the operation
  ctxDone,    \* the session's context is cancelled
  \* the store host
  daemon,     \* the nix-daemon that takes the upload
  readErr,    \* readErrCh: what the reader of its stderr stream returned
  cutShort,   \* the upload loop was left before the end of the source
  env         \* the environment of the session, fixed when it starts

clientVars == <<client, cop, frames, sent, nops>>
hostVars   == <<daemon, readErr>>
svars == <<clientVars, in, out, pc, op, toRead, reply, fwd, markers, ctxDone,
           env, cutShort, hostVars>>

-----------------------------------------------------------------------------
(* Initial states *)

\* Where the proxy reads from the client, and the token it takes that for.
Expected == [readop |-> "op", args |-> "args", len |-> "len", data |-> "data",
             rest |-> "data", drain |-> "len"]

SessionInit ==
  /\ client = "idle" /\ cop = "SetOptions" /\ frames = 0 /\ sent = 0
  /\ nops = 0
  /\ in = <<>> /\ out = <<>>
  /\ pc = "readop" /\ op = "SetOptions" /\ toRead = 0 /\ reply = "last"
  /\ fwd = 0 /\ markers = 1 /\ ctxDone = FALSE
  /\ env \in Environments
  /\ daemon = "off" /\ readErr = "none" /\ cutShort = FALSE

-----------------------------------------------------------------------------
(* The client *)

Tok(k, v) == [k |-> k, v |-> v]

FramedOps == {"AddToStore", "AddMultipleToStore"}

PayloadOps == {"IsValidPath", "QueryValidPaths", "QueryPathInfo",
               "BuildDerivation", "QueryReferrers", "QueryMissing"}

envVars   == <<env, cutShort>>
proxyVars == <<pc, op, toRead, reply, fwd, markers, ctxDone, envVars>>

\* It sends an operation when the one before is answered.
SendOp(o) ==
  /\ client = "idle"
  /\ out = <<>>
  /\ nops < MaxOps
  /\ nops' = nops + 1
  /\ cop' = o
  /\ sent' = 0
  /\ in' = in \o <<Tok("op", o), Tok("args", 0)>>
  /\ IF o \in FramedOps THEN client' = "stream" /\ frames' \in 1..MaxFrames
                        ELSE client' = "marker" /\ UNCHANGED frames
  /\ UNCHANGED <<out, proxyVars, hostVars>>

\* After AddToStore or AddMultipleToStore it streams the frames, whatever the
\* proxy does with them, and the zero length that ends them.
SendFrame ==
  /\ client = "stream"
  /\ Len(in) < MaxPipe
  /\ IF frames = 0
     THEN /\ in' = Append(in, Tok("len", 0))
          /\ client' = "marker"
          /\ UNCHANGED <<frames, sent>>
     ELSE \E n \in 1..MaxChunks :
            /\ in' = in \o <<Tok("len", n)>> \o [i \in 1..n |-> Tok("data", 0)]
            /\ frames' = frames - 1
            /\ sent' = sent + n
            /\ UNCHANGED client
  /\ UNCHANGED <<cop, nops, out, proxyVars, hostVars>>

\* What it expects next after a marker.
AfterMarker(m) ==
  IF m = "error" THEN "idle"
  ELSE IF cop \in PayloadOps THEN "payload"
  ELSE IF cop = "NarFromPath" THEN "nar" ELSE "idle"

ReadReply ==
  /\ out # <<>>
  /\ out' = Tail(out)
  /\ \/ client = "marker" /\ client' = AfterMarker(Head(out))
     \/ client = "payload" /\ client' = "idle"
     \/ client = "nar" /\ client' = IF Head(out) = "narEnd" THEN "idle" ELSE "nar"
  /\ UNCHANGED <<cop, frames, sent, nops, in, proxyVars, hostVars>>

\* It leaves, at the end or in the middle of anything.
Disconnect ==
  /\ client # "gone"
  /\ client = "idle" \/ "disconnect" \in env.faults
  /\ client' = "gone"
  /\ out' = <<>>
  /\ UNCHANGED <<cop, frames, sent, nops, in, proxyVars, hostVars>>

-----------------------------------------------------------------------------
(* Reading and writing *)

Has(k) == in # <<>> /\ Head(in).k = k

\* Tokens written for a client that is gone are lost.
Write(s) == IF client = "gone" THEN out ELSE out \o s

Markers(s) == Cardinality({i \in DOMAIN s : s[i] \in {"last", "error"}})

\* The handler writes s and returns to the loop; its deferred calls close the
\* session on the store host.
Return(s) ==
  /\ pc' = "readop"
  /\ out' = Write(s)
  /\ markers' = markers + Markers(s)
  /\ daemon' = "off" /\ readErr' = "none"

StopWork == <<"last">>
StopWorkWithError == <<"error">>

\* A token is not what the proxy takes it for: all that follows is undefined.
Misread ==
  /\ pc \in DOMAIN Expected
  /\ in # <<>>
  /\ Head(in).k # Expected[pc]
  /\ pc' = "garbled"
  /\ UNCHANGED <<clientVars, in, out, op, toRead, reply, fwd, markers,
                 ctxDone, envVars, hostVars>>

\* The connection is closed and read to its end: cancelOnCloseReader cancels
\* the context.  The loop ends; a handler returns to it, after an attempt at a
\* reply if it was draining.
ReadFails ==
  /\ pc \in DOMAIN Expected
  /\ client = "gone" /\ in = <<>>
  /\ ctxDone' = TRUE
  /\ pc' = IF pc = "readop" THEN "closed" ELSE "readop"
  /\ daemon' = "off" /\ readErr' = "none"
  /\ UNCHANGED <<clientVars, in, out, op, toRead, reply, fwd, markers, envVars>>

ReadOp ==
  /\ pc = "readop"
  /\ Has("op")
  /\ in' = Tail(in)
  /\ op' = Head(in).v
  /\ IF Head(in).v = "Unhandled"  \* refused before its arguments are read
     THEN /\ out' = Write(StopWorkWithError)
          /\ markers' = 1
          /\ UNCHANGED pc
     ELSE pc' = "args" /\ markers' = 0 /\ UNCHANGED out
  /\ UNCHANGED <<clientVars, toRead, reply, fwd, ctxDone, envVars, hostVars>>

-----------------------------------------------------------------------------
(* The handlers that answer once they have their arguments: the replies that *)
(* each may give.  A store host that cannot be asked has no valid path.      *)

WithPayload == StopWork \o <<"payload">>

handleSetOptions      == {StopWork}
handleIsValidPath     == {WithPayload}
handleQueryValidPaths == {WithPayload}
handleQueryReferrers  == {WithPayload}
handleAddTempRoot     == {StopWork}
handleQueryMissing    == {WithPayload}

\* The path is found, or not: then a client that is too old for a "not found"
\* payload gets an error after the marker that was already sent.
handleQueryPathInfo ==
  (IF env.storeHost THEN {WithPayload} ELSE {})
    \union {StopWork \o (IF Minor >= 17 THEN <<"payload">> ELSE StopWorkWithError)}

\* Not implemented: the framed source after the arguments is not read.
handleAddToStore == {StopWorkWithError}

PlainReplies(o) ==
  CASE o = "SetOptions"      -> handleSetOptions
    [] o = "IsValidPath"     -> handleIsValidPath
    [] o = "QueryValidPaths" -> handleQueryValidPaths
    [] o = "QueryPathInfo"   -> handleQueryPathInfo
    [] o = "AddToStore"      -> handleAddToStore
    [] o = "QueryReferrers"  -> handleQueryReferrers
    [] o = "AddTempRoot"     -> handleAddTempRoot
    [] o = "QueryMissing"    -> handleQueryMissing

PlainOps == AllOps \ {"BuildDerivation", "AddMultipleToStore", "NarFromPath",
                      "Unhandled"}

\* The operations whose handlers turn to the store host before they answer.
StoreQueries == {"IsValidPath", "QueryValidPaths", "QueryPathInfo"}

Asks(o) == env.storeHost /\ o \in StoreQueries \union {"NarFromPath"}

HandlePlain ==
  /\ pc = "args" /\ op \in PlainOps /\ ~Asks(op)
  /\ Has("args")
  /\ in' = Tail(in)
  /\ \E s \in PlainReplies(op) : Return(s)
  /\ UNCHANGED <<clientVars, op, toRead, reply, fwd, ctxDone, envVars>>

ReadQueryArgs ==
  /\ pc = "args" /\ Asks(op)
  /\ Has("args")
  /\ in' = Tail(in)
  /\ pc' = "ask"
  /\ UNCHANGED <<clientVars, out, op, toRead, reply, fwd, markers, ctxDone,
                 envVars, hostVars>>

\* The ssh session with the store host, its handshake, SetOptions and query or
\* its command.  Only the dial has a timeout: while the store host hangs the
\* handler waits.
AnswerQuery ==
  /\ pc = "ask" /\ op \in StoreQueries
  /\ daemon # "hung"
  /\ \E s \in PlainReplies(op) : Return(s)
  /\ UNCHANGED <<clientVars, in, op, toRead, reply, fwd, ctxDone, envVars>>

-----------------------------------------------------------------------------
(* handleBuildDerivation *)

ReadBuildArgs ==
  /\ pc = "args" /\ op = "BuildDerivation"
  /\ Has("args")
  /\ in' = Tail(in)
  /\ pc' = "get"
  /\ UNCHANGED <<clientVars, out, op, toRead, reply, fwd, markers, ctxDone,
                 envVars, hostVars>>

\* Mutant: no reply when there is no builder.
GetBuilderFails_Silent ==
  /\ pc = "get"
  /\ Return(<<>>)
  /\ UNCHANGED <<clientVars, in, op, toRead, reply, fwd, ctxDone, envVars>>

GetBuilderFails ==
  /\ pc = "get"
  /\ Return(StopWorkWithError)
  /\ UNCHANGED <<clientVars, in, op, toRead, reply, fwd, ctxDone, envVars>>

GetBuilderOK ==
  /\ pc = "get"
  /\ pc' = "build"
  /\ UNCHANGED <<clientVars, in, out, op, toRead, reply, fwd, markers,
                 ctxDone, envVars, hostVars>>

\* The build fails, or it has a result; a done context aborts it.
ExecuteBuild == IF ctxDone THEN {"error"} ELSE {"error", "result"}

\* A result is signed and recorded as far as that works, and sent; the
\* deferred call releases the builder.  The inputs and the signatures go
\* through the store host, with no timeout.
BuildReturns ==
  /\ pc = "build"
  /\ daemon # "hung"
  /\ \E r \in ExecuteBuild :
       Return(IF r = "result" THEN WithPayload ELSE StopWorkWithError)
  /\ UNCHANGED <<clientVars, in, op, toRead, reply, fwd, ctxDone, envVars>>

-----------------------------------------------------------------------------
(* handleNarFromPath: the NAR follows StderrLast and marks its own end *)

NarUnavailable ==
  /\ pc = "args" /\ op = "NarFromPath" /\ ~Asks(op)
  /\ Has("args")
  /\ in' = Tail(in)
  /\ Return(StopWorkWithError)
  /\ UNCHANGED <<clientVars, op, toRead, reply, fwd, ctxDone, envVars>>

\* Dial, session and the start of nix-store --dump.
StartDump ==
  /\ pc = "ask" /\ op = "NarFromPath"
  /\ \/ /\ daemon = "dead" \/ (daemon = "off" /\ "dial" \in env.faults)
        /\ Return(StopWorkWithError)
        /\ UNCHANGED toRead
     \/ /\ daemon = "off"
        /\ pc' = "nar"
        /\ toRead' \in 0..MaxChunks
        /\ out' = Write(StopWork)
        /\ markers' = markers + 1
        /\ UNCHANGED hostVars
  /\ UNCHANGED <<clientVars, in, op, reply, fwd, ctxDone, envVars>>

NarChunk ==
  /\ pc = "nar" /\ toRead > 0
  /\ daemon = "off"
  /\ toRead' = toRead - 1
  /\ out' = Write(<<"nar">>)
  /\ UNCHANGED <<clientVars, in, pc, op, reply, fwd, markers, ctxDone,
                 envVars, hostVars>>

NarEnd ==
  /\ pc = "nar" /\ toRead = 0
  /\ daemon = "off"
  /\ Return(<<"narEnd">>)
  /\ UNCHANGED <<clientVars, in, op, toRead, reply, fwd, ctxDone, envVars>>

\* nix-store --dump fails, or its output cannot be read on: the handler
\* returns and the loop waits for the next operation.
NarFails ==
  /\ pc = "nar"
  /\ daemon = "dead" \/ (daemon = "off" /\ "dumpFails" \in env.faults)
  /\ Return(<<>>)
  /\ UNCHANGED <<clientVars, in, op, toRead, reply, fwd, ctxDone, envVars>>
-----------------------------------------------------------------------------
(* handleAddMultipleToStore *)

\* The flags.  Without a store host the source is discarded and accepted.
ReadUploadArgs ==
  /\ pc = "args" /\ op = "AddMultipleToStore"
  /\ Has("args")
  /\ in' = Tail(in)
  /\ pc' = IF env.storeHost THEN "connect" ELSE "drain"
  /\ reply' = "last"
  /\ fwd' = 0
  /\ UNCHANGED <<clientVars, out, op, toRead, markers, ctxDone, envVars, hostVars>>

\* Dial, session, nix-daemon, handshake, SetOptions and the operation itself,
\* where only the dial has a timeout; then the goroutine that reads the
\* daemon's stderr stream.
Connect ==
  /\ pc = "connect" /\ daemon = "off"
  /\ pc' = "check"
  /\ daemon' = "up"
  /\ UNCHANGED <<clientVars, in, out, op, toRead, reply, fwd, markers,
                 ctxDone, envVars, readErr>>

ConnectFails ==
  /\ pc = "connect"
  /\ daemon = "dead" \/ (daemon = "off" /\ "dial" \in env.faults)

\* Mutant: the error is reported and the source is left in the stream.
failWithDrain_NoDrain ==
  /\ ConnectFails
  /\ Return(StopWorkWithError)
  /\ UNCHANGED <<clientVars, in, op, toRead, reply, fwd, ctxDone, envVars>>

failWithDrain ==
  /\ ConnectFails
  /\ pc' = "drain"
  /\ reply' = "error"
  /\ UNCHANGED <<clientVars, in, out, op, toRead, fwd, markers, ctxDone,
                 envVars, hostVars>>

\* Mutant: the rest of the current frame is forgotten.
failMidUpload_FrameOnly(n) ==
  /\ toRead' = n
  /\ pc' = "drain"
  /\ reply' = "error"

\* The rest of the current frame, n chunks, is discarded first, then all
\* frames to the end of the source; then the error is reported.
failMidUpload(n) ==
  /\ toRead' = n
  /\ pc' = IF n > 0 THEN "rest" ELSE "drain"
  /\ reply' = "error"

\* The head of the upload loop asks whether the reader has returned already.
\* If it failed, so does the upload.  If it saw StderrLast the loop is left
\* with the rest of the source unread, and the answer is taken: the wait below
\* can only time out.
CheckReader ==
  /\ pc = "check"
  /\ \/ /\ readErr = "err"
        /\ failMidUpload(0)
        /\ readErr' = "none"
        /\ UNCHANGED cutShort
     \/ /\ readErr = "ok"
        /\ pc' = "flush"
        /\ readErr' = "taken"
        /\ cutShort' = TRUE
        /\ UNCHANGED <<toRead, reply>>
     \/ /\ readErr = "none"
        /\ pc' = "len"
        /\ UNCHANGED <<toRead, reply, readErr, cutShort>>
  /\ UNCHANGED <<clientVars, in, out, op, fwd, markers, ctxDone, env, daemon>>

\* A write to a dead daemon fails, or is still buffered.  The first header
\* always fits into the buffer, which has just been flushed.  A write to a
\* daemon that has stopped reading does not return.
WriteOutcomes ==
  IF daemon = "dead" /\ (pc = "data" \/ fwd > 0) THEN {"ok", "fails"} ELSE {"ok"}

ForwardLen ==
  /\ pc = "len" /\ daemon # "hung"
  /\ Has("len")
  /\ in' = Tail(in)
  /\ LET n == Head(in).v IN \E w \in WriteOutcomes :
       IF w = "fails" THEN failMidUpload(n)
       ELSE pc' = (IF n = 0 THEN "flush" ELSE "data") /\ toRead' = n
            /\ UNCHANGED reply
  /\ UNCHANGED <<clientVars, out, op, fwd, markers, ctxDone, envVars, hostVars>>

ForwardData ==
  /\ pc = "data" /\ daemon # "hung"
  /\ Has("data")
  /\ in' = Tail(in)
  /\ \E w \in WriteOutcomes :
       IF w = "fails" THEN failMidUpload(toRead - 1) /\ UNCHANGED fwd
       ELSE /\ toRead' = toRead - 1
            /\ fwd' = fwd + 1
            /\ pc' = IF toRead = 1 THEN "check" ELSE "data"
            /\ UNCHANGED reply
  /\ UNCHANGED <<clientVars, out, op, markers, ctxDone, envVars, hostVars>>

discardRawBytes ==
  /\ pc = "rest"
  /\ Has("data")
  /\ in' = Tail(in)
  /\ toRead' = toRead - 1
  /\ pc' = IF toRead = 1 THEN "drain" ELSE "rest"
  /\ UNCHANGED <<clientVars, out, op, reply, fwd, markers, ctxDone, envVars, hostVars>>

discardFramedSourceBody ==
  /\ pc = "drain"
  /\ Has("len")
  /\ in' = Tail(in)
  /\ IF Head(in).v = 0
     THEN Return(<< reply >>) /\ UNCHANGED toRead
     ELSE /\ toRead' = Head(in).v
          /\ pc' = "rest"
          /\ UNCHANGED <<out, markers, hostVars>>
  /\ UNCHANGED <<clientVars, op, reply, fwd, ctxDone, envVars>>

FlushOK ==
  /\ pc = "flush" /\ daemon # "hung"
  /\ pc' = "wait"
  /\ UNCHANGED <<clientVars, in, out, op, toRead, reply, fwd, markers,
                 ctxDone, envVars, hostVars>>

FlushFails ==
  /\ pc = "flush"
  /\ daemon = "dead"
  /\ Return(<<>>)
  /\ UNCHANGED <<clientVars, in, op, toRead, reply, fwd, ctxDone, envVars>>

WaitReturns ==
  /\ pc = "wait"
  /\ readErr \in {"ok", "err"}
  /\ Return(IF readErr = "ok" THEN StopWork ELSE StopWorkWithError)
  /\ UNCHANGED <<clientVars, in, op, toRead, reply, fwd, ctxDone, envVars>>

\* Mutant: the timeout counts as acceptance.
WaitTimesOut_Accept ==
  /\ pc = "wait"
  /\ Return(StopWork)
  /\ UNCHANGED <<clientVars, in, op, toRead, reply, fwd, ctxDone, envVars>>

\* Mutant: there is no timeout.
WaitTimesOut_Never == FALSE /\ UNCHANGED svars

\* The five minutes are over.  An answer that comes later is dropped.
WaitTimesOut ==
  /\ pc = "wait"
  /\ Return(StopWorkWithError)
  /\ UNCHANGED <<clientVars, in, op, toRead, reply, fwd, ctxDone, envVars>>

-----------------------------------------------------------------------------
(* The store host's nix-daemon *)

\* It accepts once it has the end of the source, or too early.
DaemonAccepts ==
  /\ \/ pc = "wait"
     \/ "earlyLast" \in env.faults /\ pc \in {"check", "len", "data", "flush"}
  /\ daemon = "up" /\ readErr = "none"
  /\ readErr' = "ok"
  /\ UNCHANGED <<clientVars, in, out, proxyVars, daemon>>

DaemonRefuses ==
  /\ "daemonError" \in env.faults
  /\ daemon = "up" /\ readErr = "none"
  /\ pc \in {"check", "len", "data", "flush", "wait"}
  /\ readErr' = "err"
  /\ UNCHANGED <<clientVars, in, out, proxyVars, daemon>>

\* It stops reading and answering, or does not even begin to: then the next
\* handler that turns to it finds it so.
DaemonHangs ==
  /\ "daemonHangs" \in env.faults
  /\ \/ daemon = "up"
     \/ daemon = "off" /\ pc \in {"connect", "ask", "nar", "build"}
  /\ daemon' = "hung"
  /\ UNCHANGED <<clientVars, in, out, proxyVars, readErr>>

\* Its host goes away, and the connection with it.
DaemonDies ==
  /\ "daemonDies" \in env.faults
  /\ daemon \in {"up", "hung"}
  /\ daemon' = "dead"
  /\ UNCHANGED <<clientVars, in, out, proxyVars, readErr>>

\* readStderrStream fails on the closed connection.
ReaderFails ==
  /\ daemon = "dead" /\ readErr = "none"
  /\ pc \in {"check", "len", "data", "flush", "wait"}
  /\ readErr' = "err"
  /\ UNCHANGED <<clientVars, in, out, proxyVars, daemon>>

-----------------------------------------------------------------------------
Client == (\E o \in env.ops : SendOp(o)) \/ SendFrame \/ ReadReply \/ Disconnect

Upload ==
  \/ ReadUploadArgs \/ Connect \/ failWithDrain \/ CheckReader \/ ForwardLen
  \/ ForwardData \/ discardRawBytes \/ discardFramedSourceBody \/ FlushOK
  \/ FlushFails \/ WaitReturns \/ WaitTimesOut

\* The steps of the proxy that do not wait for a build.
Proxy ==
  \/ Misread \/ ReadFails \/ ReadOp \/ HandlePlain \/ ReadQueryArgs \/ AnswerQuery
  \/ ReadBuildArgs \/ GetBuilderFails \/ GetBuilderOK
  \/ NarUnavailable \/ StartDump \/ NarChunk \/ NarEnd \/ NarFails
  \/ Upload

Daemon ==
  DaemonAccepts \/ DaemonRefuses \/ DaemonHangs \/ DaemonDies \/ ReaderFails

SessionNext == Client \/ Proxy \/ BuildReturns \/ Daemon

SessionSpec == SessionInit /\ [][SessionNext]_svars

\* The proxy gets on, its timers included, and the client reads replies and
\* sends all of a source it has begun.  An aborted build ends; nothing is
\* assumed about how long a build takes.
PromptSpec ==
  /\ SessionSpec
  /\ WF_svars(Proxy)
  /\ WF_svars(ctxDone /\ BuildReturns)
  /\ WF_svars(SendFrame) /\ WF_svars(ReadReply)

\* Builds end, too.  Nothing is assumed about the daemon on the store host.
FairSessionSpec == PromptSpec /\ WF_svars(BuildReturns)

-----------------------------------------------------------------------------
(* Properties *)

\* Whatever handler ran before and however it ended, the token that the proxy
\* reads next is what it takes it for: no leftover of an operation is misread
\* as the next one ("the leftover bytes desync the rest of the session").
\* Two things break this: AddToStore and operations without a handler, which
\* are refused with their source or their arguments still in the stream, and
\* an upload whose loop was left early because the daemon sent StderrLast
\* before the end of the source.
InSync ==
  pc \in DOMAIN Expected /\ in # <<>> /\ op \notin RefusedOps /\ ~cutShort
    => Head(in).k = Expected[pc]

\* The client's side of the same: what it reads is what it waits for, it is
\* never answered before its source is through, and nothing is left over when
\* it sends its next operation, with the same exceptions.
RepliesMatch == op \notin RefusedOps /\ ~cutShort =>
  /\ client \in {"idle", "stream"} => out = <<>>
  /\ out # <<>> =>
       CASE client = "marker"  -> Head(out) \in {"last", "error"}
         [] client = "payload" -> Head(out) = "payload"
         [] client = "nar"     -> Head(out) \in {"nar", "narEnd"}
         [] OTHER -> TRUE

\* A client is told that its upload succeeded only when the daemon on the
\* store host has accepted it and was sent every chunk the client sent, also
\* when it accepts too early.
UploadHonest ==
  [][pc # "readop" /\ pc' = "readop" /\ op = "AddMultipleToStore" /\ env.storeHost
       /\ markers' > markers /\ client # "gone" /\ out' = out \o StopWork
     => readErr = "ok" /\ fwd = sent]_svars

\* An environment in which a connection to the store host holds, although
\* nothing may come over it any more, dumps succeed, uploads are accepted after
\* their end and the client sends what handleOperation implements.
Benign == env.faults \subseteq MildFaults /\ env.ops \cap RefusedOps = {}

\* "The error should have been sent to the client already": a handler that
\* returns to the loop has sent one reply, and not two, in every environment
\* that is Benign.
OneReplyPerOp ==
  Benign /\ pc = "readop" /\ client # "gone" => markers = 1

\* A handler waits for a store host that hangs, at a place where it has no
\* timer: only the wait for the result of an upload has one.
HungWithoutTimer ==
  daemon = "hung" /\ pc \in {"ask", "nar", "build", "connect", "len", "data", "flush"}

\* A client that waits for an answer gets it in every environment that is
\* Benign, even from a daemon that never replies to an upload, unless the
\* store host hangs before the upload is through, in a query, a dump or a build.
EveryOpAnswered ==
  Benign /\ client \in {"stream", "marker", "payload", "nar"}
    ~> client \in {"idle", "gone"} \/ HungWithoutTimer

-----------------------------------------------------------------------------
(* What comments of the code promise and the code does not keep *)

\* "Create a context that gets cancelled when the channel closes": the build
\* of a client that has left is aborted.
AbortOnDisconnect ==
  (pc = "build" /\ client = "gone") ~> pc # "build"
=============================================================================
