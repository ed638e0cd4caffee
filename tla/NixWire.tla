------------------------------- MODULE NixWire -------------------------------
(***************************************************************************)
(* One build over the three connections it uses: the Nix client's, which   *)
(* the proxy serves, and those to the nix-daemons of the builder and of    *)
(* the store host, where the proxy is the client.  Nothing on a wire says  *)
(* what a word means: both ends have to agree on the format of every       *)
(* message, which depends on the version they negotiated and on the words  *)
(* (flags, counts, lengths) that went before.                              *)
(*                                                                         *)
(* Every party executes the instructions of NixFormat.  The client and the *)
(* two daemons are external: they keep to the formats of their version.    *)
(*                                                                         *)
(* ExecuteBuild has a second caller, the executor of a Gradient job, which *)
(* has no client connection and leaves the outputs unsigned.               *)
(***************************************************************************)
EXTENDS NixFormat

CONSTANTS
  Environments,  \* what the other ends are like (records of Environment)
  Outputs        \* the outputs of the derivation: 1..n

Conn == {"client", "builder", "store"}
Party == Conn \union {"proxy"}

(* What an environment fixes. *)
Chats == {"none", "next", "activity", "write"}
Environment ==
  [caller    : {"client", "job"}, \* whose build it is
   minor     : [Conn -> 0..255],  \* the minor version each peer speaks
   pinned    : BOOLEAN,           \* the client sends a CPU affinity
   supplied  : BOOLEAN,           \* the pool has a builder for it
   signs     : BOOLEAN,           \* the proxy has a key and a store host
   chat      : Chats,             \* what the daemons say before an answer
   status    : 0..14,             \* of the build
   outs      : SUBSET Outputs,    \* the realisations the builder reports
   cpu       : BOOLEAN,           \* it reports the CPU times
   error     : {"none", "plain", "positioned"},  \* it answers by an error
   present   : SUBSET Outputs,    \* the outputs the store host has
   signable  : SUBSET Outputs,    \* those with a NAR hash SignPath accepts
   deriver   : BOOLEAN,           \* it knows their deriver
   trusted   : BOOLEAN,           \* it takes signatures from the proxy
   acks      : BOOLEAN,           \* it ends AddSignatures by a word
   dies      : SUBSET Conn,       \* which peers may go away
   hangs     : SUBSET Conn]       \* which peers may stop answering

ASSUME WireAssumption ==
  /\ IsFiniteSet(Outputs) /\ Outputs = 1..Cardinality(Outputs)
  /\ Environments \subseteq Environment

VARIABLES
  env,         \* the environment of the session, fixed when it starts
  todo,        \* each party: the instructions it has yet to execute
  mem,         \* each party: what it has read and still needs
  version,     \* each end of a connection: the version it goes by
  buf,         \* each end: what it has written and not flushed
  wire,        \* each direction of a connection: the words in flight
  closed,      \* the connections that one of their ends has closed
  hung,        \* the peers that no longer do anything
  \* the proxy
  phase,       \* the part of the session it is in
  toSign,      \* the outputs signAndRegisterOutputs has yet to visit
  held,        \* the caller holds a builder of the pool
  cancelled,   \* the context of the caller is done
  \* the peers
  registered,  \* the signatures the store host has taken
  answer,      \* what the caller got for its build
  \* for the properties
  misread      \* the connections where a word was taken for another field

ends == <<todo, mem, version, buf, wire>>
wvars == <<env, cancelled, ends, closed, hung, phase, toSign, held, registered,
           answer, misread>>

-----------------------------------------------------------------------------
(* Parts of a session *)

\* The connection that the proxy uses in each part of a session.
At == [handshake |-> "client", op |-> "client", args |-> "client",
       build |-> "builder", failed |-> "client",
       signing |-> "store", output |-> "store", reply |-> "client"]

\* Mutants: an output that could not be signed is shown as signed, or ends
\* the signing.
OnError_Shown ==
  [handshake |-> "End", op |-> "End", args |-> "ReadOp",
   build |-> "BuildFailed", failed |-> "Return",
   signing |-> "Reply", output |-> "Signed", reply |-> "Return"]

OnError_FirstOnly == [OnError_Shown EXCEPT !.output = "Reply"]

\* Where an error leads: the session ends, the loop goes on with the next
\* operation, the client is told, or the outputs stay without a signature.
OnError == [handshake |-> "End", op |-> "End", args |-> "ReadOp",
            build |-> "BuildFailed", failed |-> "Return",
            signing |-> "Reply", output |-> "NextOutput", reply |-> "Return"]

Link == {<<"proxy", c>> : c \in Conn} \union {<<c, "proxy">> : c \in Conn}

ConnOf(p) == IF p = "proxy" THEN At[phase] ELSE p
Out(p) == IF p = "proxy" THEN <<"proxy", At[phase]>> ELSE <<p, "proxy">>
In(p)  == IF p = "proxy" THEN <<At[phase], "proxy">> ELSE <<"proxy", p>>

MinorOf(v) == v % 256
OwnVersion(p) ==
  Version(IF p = "proxy" THEN ProtocolVersionMinor ELSE env.minor[p])
M(p) == MinorOf(version[Out(p)])

Nothing == [status |-> 0, cpu |-> FALSE, outs |-> {}, drv |-> {},
            fields |-> <<>>, path |-> 0, narHash |-> 0, narSize |-> 0,
            sig |-> <<0, 0>>]

\* The first instructions of a client, a daemon and the proxy.  A job starts
\* with the derivation it has read.
Start(p) ==
  CASE p = "client" /\ env.caller = "job" -> <<>>
    [] p = "proxy" /\ env.caller = "job" -> Do("GetBuilder")
    [] p = "client" /\ env.caller # "job" ->
         Send(WriteUint64("clientMagic", ClientMagic))
           \o Require("serverMagic", ServerMagic) \o ReadVersion \o Do("hello")
    [] p = "proxy" /\ env.caller # "job" -> Do("Handshake")
    [] OTHER ->
         Require("clientMagic", ClientMagic) \o ReadVersion
           \o Send(WriteUint64("serverMagic", ServerMagic)
                     \o WriteUint64("version", Version(env.minor[p])))
           \o Do("hello")

WireInit ==
  /\ env \in Environments
  /\ todo = [p \in Party |-> Start(p)]
  /\ mem = [p \in Party |-> IF env.caller = "job" /\ p = "proxy"
                             THEN [Nothing EXCEPT !.drv = Outputs] ELSE Nothing]
  /\ version = [l \in Link |-> 0]
  /\ buf = [l \in Link |-> <<>>] /\ wire = [l \in Link |-> <<>>]
  /\ closed = {} /\ hung = {} /\ misread = {}
  /\ phase = (IF env.caller = "job" THEN "build" ELSE "handshake")
  /\ toSign = {} /\ held = FALSE /\ cancelled = FALSE
  /\ registered = {} /\ answer = "none"

-----------------------------------------------------------------------------
(* Reading and writing *)

\* The words that the read i takes from w: the characters of a string follow
\* its length, padded to a multiple of eight.
Takes(i, w) ==
  IF i.k = "str" /\ w[1].n <= maxReadBytesLength
  THEN 1 + (w[1].n + 7) \div 8 ELSE 1

\* Whether the read i rejects the number n.
Refused(i, n) ==
  \/ i.k = "str" /\ n > maxReadBytesLength
  \/ i.k = "strs" /\ n > maxReadStringsCount
  \/ i.k = "require" /\ n # i.n
  \/ i.k = "nonzero" /\ n = 0

\* The handlers of the operations of this conversation, by opcode.  The first
\* two are the proxy's and a daemon's, the others a daemon's; NixSession has
\* the other handlers of the proxy.
handleOperation(n) ==
  Do(CASE n = OpSetOptions -> "handleSetOptions"
       [] n = OpBuildDerivation -> "handleBuildDerivation"
       [] n = OpQueryPathInfo -> "handleQueryPathInfo"
       [] n = OpAddSignatures -> "handleAddSignatures"
       [] OTHER -> "unhandled")

\* How the message goes on after the read i of n, in version m.
Continue(i, n, m) ==
  CASE i.k = "opt" -> When(n # 0, i.x)
    [] i.k = "rep" -> Loop(n, i.x)
    [] i.k = "strs" -> Loop(n, ReadString(i.f))
    [] i.k = "field" -> IF n = 0 THEN ReadUint64("intVal")
                                 ELSE ReadString("strVal")
    [] i.k = "marker" -> readStderrStream(m, n)
    [] i.k = "op" -> handleOperation(n)
    [] OTHER -> <<>>

\* The output that the word w is about, if it is the field f at all.
Owner(f, w) == IF w.f = f THEN w.o ELSE 0

\* What a reader with the memory a keeps of the field that i reads, w being
\* the last word of it.
Learn(a, i, w) ==
  CASE i.f = "status" -> [a EXCEPT !.status = w.n]
    [] i.f = "cpuUser" -> [a EXCEPT !.cpu = TRUE]
    [] i.f = "json" -> [a EXCEPT !.outs = @ \union {<<w.o, w.s>>}]
    [] i.f = "outPath" -> [a EXCEPT !.drv = @ \union {w.o}]
    [] i.f = "act" -> [a EXCEPT !.fields = <<>>]
    [] i.f = "fieldType" -> [a EXCEPT !.fields = Append(@, w.n)]
    [] i.f = "path" -> [a EXCEPT !.path = w.o]
    [] i.f = "sig" /\ i.k = "str" -> [a EXCEPT !.sig = <<w.o, w.s>>]
    [] i.f = "narHash" -> [a EXCEPT !.narHash = Owner("narHash", w)]
    [] i.f = "narSize" -> [a EXCEPT !.narSize = Owner("narSize", w)]
    [] OTHER -> a

\* Both ends go by the smaller of their versions.
Negotiated(own, n) == IF own < n THEN own ELSE n

Ready(p) == p \notin hung /\ todo[p] # <<>>
Now(p) == Head(todo[p])

Fail(p) ==
  todo' = [todo EXCEPT ![p] = Do(IF p = "proxy" THEN OnError[phase]
                                                ELSE "leave")]

others == <<env, cancelled, closed, hung, phase, toSign, held, registered,
            answer>>

Reads == {"num", "str", "strs", "require", "nonzero", "opt", "rep", "field",
          "version", "op", "marker"}

Complete(i, w) == w # <<>> /\ Takes(i, w) <= Len(w)

Read(p) ==
  LET i == Now(p)
      w == wire[In(p)]
      size == Takes(i, w)
  IN /\ Ready(p) /\ i.k \in Reads /\ Complete(i, w)
     /\ \/ /\ Refused(i, w[1].n)
           /\ Fail(p)
           /\ UNCHANGED <<mem, version>>
        \/ /\ ~Refused(i, w[1].n)
           /\ todo' = [todo EXCEPT ![p] = Continue(i, w[1].n, M(p)) \o Tail(@)]
           /\ mem' = [mem EXCEPT ![p] = Learn(@, i, w[size])]
           /\ version' = IF i.k = "version"
                         THEN [version EXCEPT ![Out(p)] =
                                 Negotiated(OwnVersion(p), w[1].n)]
                         ELSE version
     /\ wire' = [wire EXCEPT ![In(p)] = SubSeq(@, size + 1, Len(@))]
     /\ misread' = IF \A k \in 1..size : w[k].f = i.f
                   THEN misread ELSE misread \union {ConnOf(p)}
     /\ UNCHANGED <<buf, others>>

\* The other end has closed the connection before the read was complete.  A
\* read from the client that fails cancels the context (cancelOnCloseReader);
\* nothing else does.
ReadFails(p) ==
  /\ Ready(p) /\ Now(p).k \in Reads /\ ~Complete(Now(p), wire[In(p)])
  /\ ConnOf(p) \in closed
  /\ Fail(p)
  /\ cancelled' = (cancelled \/ (p = "proxy" /\ ConnOf(p) = "client"))
  /\ UNCHANGED <<mem, version, buf, wire, misread,
                 env, closed, hung, phase, toSign, held, registered, answer>>

\* Write to the buffer of the connection, and to the client's buffer what the
\* builder says while a build runs (clientLogSink).
WriteWords(p) ==
  LET i == Now(p)
      sink == <<"proxy", "client">>
  IN /\ Ready(p) /\ i.k \in {"write", "forward"}
     /\ todo' = [todo EXCEPT ![p] = Tail(@)]
     /\ buf' = CASE i.k = "write" -> [buf EXCEPT ![Out(p)] = @ \o i.x]
                 [] i.k = "forward" /\ p = "proxy" /\ phase = "build"
                      /\ env.caller = "client" ->
                      [buf EXCEPT ![sink] =
                         @ \o WriteStderr(i.f, mem[p].fields)]
                 [] OTHER -> buf
     /\ UNCHANGED <<mem, version, wire, misread, others>>

FlushWords(p) ==
  /\ Ready(p) /\ Now(p).k = "flush"
  /\ \/ /\ ConnOf(p) \notin closed
        /\ wire' = [wire EXCEPT ![Out(p)] = @ \o buf[Out(p)]]
        /\ buf' = [buf EXCEPT ![Out(p)] = <<>>]
        /\ todo' = [todo EXCEPT ![p] = Tail(@)]
     \/ /\ ConnOf(p) \in closed
        /\ Fail(p)
        /\ UNCHANGED <<wire, buf>>
  /\ UNCHANGED <<mem, version, misread, others>>

\* One more round of a loop, or the error that ends a message.
Control(p) ==
  LET i == Now(p)
  IN /\ Ready(p)
     /\ \/ /\ i.k = "loop"
           /\ todo' = [todo EXCEPT ![p] =
                When(i.n > 0, i.x \o Loop(i.n - 1, i.x)) \o Tail(@)]
        \/ i.k = "fail" /\ Fail(p)
     /\ UNCHANGED <<mem, version, buf, wire, misread, others>>

-----------------------------------------------------------------------------
(* The proxy *)

\* Where the proxy goes by itself: the part of its program that l names.
ProxyAt(l) == Ready("proxy") /\ Now("proxy").k = "do" /\ Now("proxy").f = l
Goes(program) == todo' = [todo EXCEPT !["proxy"] = program]

\* As a server: the features are exchanged whatever the version is.
ServeHandshake ==
  Require("clientMagic", ClientMagic)
    \o Send(WriteUint64("serverMagic", ServerMagic)
              \o WriteUint64("version", Version(ProtocolVersionMinor)))
    \o ReadVersion \o ReadStrings("features")
    \o Send(WriteStrings("features", 0)) \o Do("PostHandshake")

ServePostHandshake(m) ==
  ReadAffinity(m) \o Flush \o Send(HandshakeInfo(m)) \o Do("ReadOp")

\* The handlers, up to the point where the arguments are read.
ServeOp(l, m) ==
  LET goOn == Flush \o Do("ReadOp")
  IN CASE l = "handleSetOptions" ->
            handleSetOptions(m) \o Send(WriteUint64("marker", StderrLast))
              \o goOn
       [] l = "handleBuildDerivation" -> ReadBuildArgs \o Do("GetBuilder")
       [] l = "unhandled" -> Send(StopWorkWithError(m)) \o goOn

Handshake ==
  /\ ProxyAt("Handshake")
  /\ Goes(ServeHandshake)
  /\ UNCHANGED <<mem, version, buf, wire, misread, others>>

PostHandshake ==
  /\ ProxyAt("PostHandshake")
  /\ Goes(ServePostHandshake(M("proxy")))
  /\ UNCHANGED <<mem, version, buf, wire, misread, others>>

\* The loop of HandleConnectionWithContext, and its end.
NextOp ==
  /\ ProxyAt("ReadOp")
  /\ phase' = "op"
  /\ Goes(ReadOp)
  /\ UNCHANGED <<mem, version, buf, wire, misread,
                 env, cancelled, closed, hung, toSign, held, registered,
                 answer>>

EndSession ==
  /\ ProxyAt("End")
  /\ Goes(<<>>)
  /\ closed' = closed \union {"client"}
  /\ UNCHANGED <<mem, version, buf, wire, misread,
                 env, cancelled, hung, phase, toSign, held, registered, answer>>

HandleOp ==
  /\ phase = "op"
  /\ phase' = "args"
  /\ \E l \in {"handleSetOptions", "handleBuildDerivation", "unhandled"} :
       ProxyAt(l) /\ Goes(ServeOp(l, M("proxy")))
  /\ UNCHANGED <<mem, version, buf, wire, misread,
                 env, cancelled, closed, hung, toSign, held, registered,
                 answer>>

\* Mutant: the proxy waits for the magic before it has flushed its own.
handshakeWithBuilder_Unflushed ==
  Write(WriteUint64("clientMagic", ClientMagic)
          \o WriteUint64("version", Version(ProtocolVersionMinor)))
    \o Require("serverMagic", ServerMagic) \o ReadVersion
    \o Send(WriteStrings("features", 0)) \o ReadStrings("features")
    \o Do("HandshakeInfo")

\* As a client, of the builder and of the store host.
handshakeWithBuilder ==
  Send(WriteUint64("clientMagic", ClientMagic)
         \o WriteUint64("version", Version(ProtocolVersionMinor)))
    \o Require("serverMagic", ServerMagic) \o ReadVersion
    \o Send(WriteStrings("features", 0)) \o ReadStrings("features")
    \o Do("HandshakeInfo")

\* Without a builder there is nothing to release: the client is told, or the
\* task fails.
GetBuilder ==
  /\ ProxyAt("GetBuilder")
  /\ phase' = "build"
  /\ held' = env.supplied
  /\ Goes(IF env.supplied THEN handshakeWithBuilder ELSE Do("BuildFailed"))
  /\ UNCHANGED <<mem, version, buf, wire, misread,
                 env, cancelled, closed, hung, toSign, registered, answer>>

AskOptions(m, next) ==
  When(m >= 14, Send(WriteUint64("affinity", 0) \o WriteUint64("reserve", 0)))
    \o ReadHandshakeInfo(m)
    \o Send(WriteUint64("op", OpSetOptions) \o WriteOptions(m))
    \o ReadMarker \o Do(next)

sendSetOptions ==
  /\ ProxyAt("HandshakeInfo")
  /\ Goes(AskOptions(M("proxy"),
                     IF phase = "build" THEN "ExecuteBuild" ELSE "NextOutput"))
  /\ UNCHANGED <<mem, version, buf, wire, misread, others>>

AskBuild(m, drv) ==
  Send(WriteBuildArgs(drv)) \o ReadMarker \o ReadBuildResult(m)
    \o Do("BuildDone")

ExecuteBuild ==
  /\ ProxyAt("ExecuteBuild")
  /\ Goes(AskBuild(M("proxy"), mem["proxy"].drv))
  /\ UNCHANGED <<mem, version, buf, wire, misread, others>>

\* Mutant: the context of the build is not watched.
AbortBuild_Never == FALSE /\ UNCHANGED wvars

\* The goroutine that watches the context of the build.
AbortBuild ==
  /\ phase = "build" /\ held /\ cancelled /\ "builder" \notin closed
  /\ closed' = closed \union {"builder"}
  /\ UNCHANGED <<ends, misread, env, cancelled, hung, phase, toSign, held,
                 registered, answer>>

Success == {0, 1, 2}  \* Built, Substituted, AlreadyValid

\* Mutant: the result is passed on as it is.
Populated_Never(r) == r

\* A successful result without realisations gets those of the derivation.
Populated(r) ==
  IF r.status \in Success /\ r.outs = {}
  THEN [r EXCEPT !.outs = {<<o, 0>> : o \in r.drv}] ELSE r

\* ExecuteBuild returns, and signAndRegisterOutputs starts on the outputs of a
\* successful build, if there is something to sign with.
BuildDone ==
  LET r == Populated(mem["proxy"])
      outs == {q[1] : q \in r.outs}
  IN /\ ProxyAt("BuildDone") /\ env.caller = "client"
     /\ mem' = [mem EXCEPT !["proxy"] = r]
     /\ closed' = closed \union {"builder"}
     /\ \/ /\ env.signs /\ r.status \in Success /\ outs # {}
           /\ toSign' = outs /\ phase' = "signing"
           /\ Goes(handshakeWithBuilder)
        \/ /\ ~env.signs \/ r.status \notin Success \/ outs = {}
           /\ Goes(Do("Reply"))
           /\ UNCHANGED <<toSign, phase>>
     /\ UNCHANGED <<version, buf, wire, misread,
                    env, cancelled, hung, held, registered, answer>>

TellError(m) == Send(StopWorkWithError(m)) \o Do("Return")

BuildFailed ==
  /\ ProxyAt("BuildFailed") /\ env.caller = "client"
  /\ phase' = "failed"
  /\ closed' = closed \union {"builder"}
  /\ Goes(TellError(MinorOf(version[<<"proxy", "client">>])))
  /\ UNCHANGED <<mem, version, buf, wire, misread,
                 env, cancelled, hung, toSign, held, registered, answer>>

\* ExecuteBuild returns to the task of a job, whose deferred calls release the
\* builder; NarPush has the upload of the outputs.
TaskReturns ==
  /\ env.caller = "job"
  /\ \/ /\ ProxyAt("BuildDone")
        /\ mem' = [mem EXCEPT !["proxy"] = Populated(@)]
        /\ answer' = "result"
     \/ /\ ProxyAt("BuildFailed")
        /\ answer' = "error"
        /\ UNCHANGED mem
  /\ closed' = closed \union {"builder"} /\ held' = FALSE
  /\ Goes(<<>>)
  /\ UNCHANGED <<version, buf, wire, misread,
                 env, cancelled, hung, phase, toSign, registered>>

\* The context of a job is cancelled: AbortJob, or the end of its session.
AbortJob ==
  /\ env.caller = "job" /\ ~cancelled
  /\ cancelled' = TRUE
  /\ UNCHANGED <<ends, misread, env, closed, hung, phase, toSign, held,
                 registered, answer>>

\* queryPathInfoViaDaemon for one of the outputs, in the order of a Go map.
AskPathInfo(m, o) ==
  Send(WriteUint64("op", OpQueryPathInfo) \o WriteStringOf("path", o, 0))
    \o ReadMarker \o ReadPathInfo(m) \o Do("SignPath")

NextOutput ==
  /\ ProxyAt("NextOutput")
  /\ phase' = "output"
  /\ \/ \E o \in toSign :
          /\ toSign' = toSign \ {o}
          /\ mem' = [mem EXCEPT !["proxy"].path = o]
          /\ Goes(AskPathInfo(M("proxy"), o))
     \/ /\ toSign = {}
        /\ Goes(Do("Reply"))
        /\ UNCHANGED <<toSign, mem>>
  /\ UNCHANGED <<version, buf, wire, misread,
                 env, cancelled, closed, hung, held, registered, answer>>

\* What the signature is computed from: a hash and a size.  A text that is not
\* a NAR hash (0) is refused by normalizeNarHashToNix32.
SignedFrom(a) == IF a.narHash = a.narSize THEN a.narHash ELSE -1

\* sendAddSignatures.
AskSignature(a) ==
  Send(WriteUint64("op", OpAddSignatures) \o WriteStringOf("path", a.path, 0)
         \o WriteUint64("sig", 1)
         \o WriteStringOf("sig", a.path, SignedFrom(a)))
    \o ReadMarker \o Do("Signed")

SignPath ==
  /\ ProxyAt("SignPath")
  /\ \/ mem["proxy"].narHash # 0 /\ Goes(AskSignature(mem["proxy"]))
     \/ mem["proxy"].narHash = 0 /\ Fail("proxy")
  /\ UNCHANGED <<mem, version, buf, wire, misread, others>>

ShowSignature ==
  LET a == mem["proxy"]
  IN /\ ProxyAt("Signed")
     /\ mem' = [mem EXCEPT !["proxy"].outs =
                  (@ \ {<<a.path, 0>>}) \union {<<a.path, SignedFrom(a)>>}]
     /\ Goes(Do("NextOutput"))
     /\ UNCHANGED <<version, buf, wire, misread, others>>

\* The rest of handleBuildDerivation.
TellResult(m, r) ==
  Send(WriteUint64("marker", StderrLast)) \o Send(WriteBuildResult(m, r))
    \o Do("Return")

ReplyToClient ==
  /\ ProxyAt("Reply")
  /\ phase' = "reply"
  /\ closed' = closed \union {"store"}
  /\ Goes(TellResult(MinorOf(version[<<"proxy", "client">>]), mem["proxy"]))
  /\ UNCHANGED <<mem, version, buf, wire, misread,
                 env, cancelled, hung, toSign, held, registered, answer>>

ReleaseBuilder ==
  /\ ProxyAt("Return")
  /\ held' = FALSE
  /\ Goes(Do("ReadOp"))
  /\ UNCHANGED <<mem, version, buf, wire, misread,
                 env, cancelled, closed, hung, phase, toSign, registered,
                 answer>>

ProxyDo ==
  \/ Handshake \/ PostHandshake \/ NextOp \/ EndSession \/ HandleOp
  \/ GetBuilder \/ sendSetOptions \/ ExecuteBuild \/ BuildDone \/ BuildFailed
  \/ NextOutput \/ SignPath \/ ShowSignature \/ ReplyToClient
  \/ ReleaseBuilder \/ TaskReturns

-----------------------------------------------------------------------------
(* The client and the daemons, in the version they negotiated. *)

PeerAt(c, l) == Ready(c) /\ Now(c).k = "do" /\ Now(c).f = l
PeerGoes(c, program) == todo' = [todo EXCEPT ![c] = program]

\* What a daemon says before it answers.
Chatter(e) ==
  CASE e.chat = "none" -> <<>>
    [] e.chat = "next" -> WriteStderr("next", <<>>)
    [] e.chat = "write" ->
         WriteUint64("marker", StderrWrite) \o WriteString("sink")
    [] e.chat = "activity" ->
         WriteStderr("start", <<0, 1>>) \o WriteStderr("result", <<1>>)
           \o WriteStderr("stop", <<>>)

LastMarker(e) == Chatter(e) \o WriteUint64("marker", StderrLast)

\* An error with a position and a trace, or without.
PeerError(e, m) ==
  LET pos == WriteString("file") \o WriteUint64("line", 3)
               \o WriteUint64("column", 4)
  IN IF e.error = "positioned" /\ m >= 26
     THEN WriteUint64("marker", StderrError) \o WriteString("errType")
            \o WriteUint64("errLevel", 0) \o WriteEmpty("errName")
            \o WriteString("errMsg") \o WriteUint64("havePos", 1) \o pos
            \o WriteUint64("traces", 2)
            \o WriteUint64("haveTracePos", 0) \o WriteString("hint")
            \o WriteUint64("haveTracePos", 1) \o pos \o WriteString("hint")
     ELSE StopWorkWithError(m)

\* The client: it exchanges features only when both ends are at 1.38, and
\* builds one derivation.
ClientHello(e, m) ==
  LET affinity == WriteBool("affinity", e.pinned)
                    \o When(e.pinned, WriteUint64("mask", 3))
                    \o WriteUint64("reserve", 0)
  IN Send(WriteUint64("version", Version(e.minor["client"]))
            \o When(m >= 38, WriteStrings("features", 0)))
       \o When(m >= 38, ReadStrings("features"))
       \o Send(When(m >= 14, affinity)) \o ReadHandshakeInfo(m)
       \o Send(WriteUint64("op", OpSetOptions) \o WriteOptions(m))
       \o ReadMarker \o Send(WriteBuildArgs(Outputs)) \o ReadMarker
       \o ReadBuildResult(m) \o Do("got")

ClientSync == Send(WriteUint64("op", OpSyncWithGC)) \o ReadMarker

ClientDo ==
  /\ \/ /\ PeerAt("client", "hello")
        /\ PeerGoes("client", ClientHello(env, M("client")))
        /\ UNCHANGED answer
     \/ /\ PeerAt("client", "got")
        /\ answer' = "result"
        /\ PeerGoes("client", ClientSync)
  /\ UNCHANGED <<mem, version, buf, wire, misread,
                 env, cancelled, closed, hung, phase, toSign, held,
                 registered>>

\* A daemon's side of the handshake, its loop and its operations; a is what it
\* has read.
DaemonParts == {"hello", "serve", "handleSetOptions", "handleBuildDerivation",
                "handleQueryPathInfo", "info", "handleAddSignatures"}

DaemonServes(e, l, m, a) ==
  LET result == [status |-> e.status, cpu |-> e.cpu,
                 outs |-> {<<o, 0>> : o \in e.outs}]
      info == [path |-> a.path, found |-> a.path \in e.present,
               deriver |-> e.deriver, signable |-> a.path \in e.signable]
      built == IF e.error # "none" THEN Chatter(e) \o PeerError(e, m)
               ELSE LastMarker(e) \o WriteBuildResult(m, result)
      serve == Do("serve")
  IN CASE l = "hello" ->
            When(m >= 38, ReadStrings("features")
                            \o Send(WriteStrings("features", 0)))
              \o ReadAffinity(m) \o Send(HandshakeInfo(m)) \o serve
       [] l = "serve" -> ReadOp
       [] l = "handleSetOptions" ->
            handleSetOptions(m) \o Send(LastMarker(e)) \o serve
       [] l = "handleBuildDerivation" -> ReadBuildArgs \o Send(built) \o serve
       [] l = "handleQueryPathInfo" -> ReadString("path") \o Do("info")
       [] l = "info" ->
            Send(LastMarker(e) \o WritePathInfo(m, info)) \o serve
       [] l = "handleAddSignatures" ->
            ReadString("path") \o ReadStrings("sig") \o Do("register")

DaemonDo(c) ==
  /\ \E l \in DaemonParts :
       PeerAt(c, l) /\ PeerGoes(c, DaemonServes(env, l, M(c), mem[c]))
  /\ UNCHANGED <<mem, version, buf, wire, misread, others>>

\* AddSignatures on the store host.
AnswerSignature(e, m) ==
  Send(IF e.trusted THEN LastMarker(e) \o When(e.acks, WriteUint64("ack", 1))
                    ELSE PeerError(e, m))
    \o Do("serve")

Register ==
  /\ PeerAt("store", "register")
  /\ registered' = IF env.trusted THEN registered \union {mem["store"].sig}
                                  ELSE registered
  /\ PeerGoes("store", AnswerSignature(env, M("store")))
  /\ UNCHANGED <<mem, version, buf, wire, misread,
                 env, cancelled, closed, hung, phase, toSign, held, answer>>

\* A peer that is done, or met an error, closes its connection.
Leave(c) ==
  /\ PeerAt(c, "leave")
  /\ PeerGoes(c, <<>>)
  /\ closed' = closed \union {c}
  /\ answer' = IF c = "client" /\ answer = "none" THEN "error" ELSE answer
  /\ UNCHANGED <<mem, version, buf, wire, misread,
                 env, cancelled, hung, phase, toSign, held, registered>>

Die(c) ==
  /\ c \in env.dies \ closed
  /\ PeerGoes(c, <<>>)
  /\ closed' = closed \union {c}
  /\ UNCHANGED <<mem, version, buf, wire, misread,
                 env, cancelled, hung, phase, toSign, held, registered, answer>>

Hang(c) ==
  /\ c \in env.hangs \ hung
  /\ hung' = hung \union {c}
  /\ UNCHANGED <<ends, misread, env, cancelled, closed, phase, toSign, held,
                 registered, answer>>

-----------------------------------------------------------------------------
(* The specification *)

Step(p) == Read(p) \/ ReadFails(p) \/ WriteWords(p) \/ FlushWords(p)
             \/ Control(p)

ProxyNext == Step("proxy") \/ ProxyDo

PeerNext(c) ==
  \/ Step(c)
  \/ c = "client" /\ ClientDo
  \/ c # "client" /\ DaemonDo(c)
  \/ c = "store" /\ Register
  \/ Leave(c)

WireNext ==
  \/ ProxyNext \/ AbortBuild \/ AbortJob
  \/ \E c \in Conn : PeerNext(c) \/ Die(c) \/ Hang(c)

WireSpec == WireInit /\ [][WireNext]_wvars

\* A goroutine that can go on does, and so does a peer that has not hung.
WireFairness ==
  /\ WF_wvars(ProxyNext) /\ WF_wvars(AbortBuild)
  /\ \A c \in Conn : WF_wvars(PeerNext(c))

FairWireSpec == WireSpec /\ WireFairness

-----------------------------------------------------------------------------
(* Properties *)

Ended == todo["proxy"] = <<>>

\* The peers the proxy can talk to: it exchanges features with everyone.
Modern(c) == env.minor[c] >= 38

\* In a session with a peer of version 1.38 or later no end takes a word for
\* another field than its writer wrote, whatever the peer says in the stderr
\* stream, reports, or fails on, and both go by the same version.  A store
\* host that ends AddSignatures by a word is the exception: sendAddSignatures
\* leaves that word to the next answer.
InStep ==
  \A c \in Conn : Modern(c) /\ ~(c = "store" /\ env.acks) =>
    /\ c \notin misread
    /\ 0 \notin {version[<<c, "proxy">>], version[<<"proxy", c>>]} =>
         version[<<c, "proxy">>] = version[<<"proxy", c>>]

\* A signature that the client is shown was computed from the path info of
\* the very output it is shown for, and the store host has registered it, also
\* when that host ends AddSignatures by a word and the next answer is read out
\* of step.  With a third output it can be off by one answer then, and sign the
\* output by the path info of another.
OffByOne == "store" \in misread /\ Cardinality(Outputs) > 2

SignaturesSound ==
  \A q \in mem["client"].outs :
    q[2] # 0 => (q[1] = q[2] /\ q \in registered) \/ OffByOne

\* The caller gets the status, the CPU times and the outputs that the builder
\* reported (those of the derivation if a successful build has none), and an
\* error only if there was no builder to be had, the builder answered by one, a
\* peer failed or the context of the job was cancelled.
AnswerTrue ==
  LET got == mem[IF env.caller = "job" THEN "proxy" ELSE "client"]
  IN /\ answer = "result" =>
          /\ got.status = env.status
          /\ got.cpu = env.cpu
          /\ {q[1] : q \in got.outs} =
               IF env.status \in Success /\ env.outs = {}
               THEN Outputs ELSE env.outs
     /\ answer = "error" =>
          \/ ~env.supplied \/ env.error # "none"
          \/ env.dies # {} \/ env.hangs # {}
          \/ env.caller = "job" /\ cancelled

\* signAndRegisterOutputs leaves no output of a successful build without a
\* signature, if the store host has it with a hash that can be signed, trusts
\* the proxy, speaks 1.38 or later and stays; unless it ended AddSignatures by
\* a word and that was read as the next answer.
AllSigned ==
  answer = "result" /\ env.signs /\ env.status \in Success /\ env.trusted
    /\ Modern("store") /\ "store" \notin env.dies \union misread =>
       \A q \in mem["client"].outs :
         q[1] \in env.present \intersect env.signable => q[2] # 0

\* A store host that answers what it is asked, and no more.
StoreAnswers == Modern("store") /\ ~env.acks /\ "store" \notin env.hangs

\* A session ends when its client leaves or dies, and a task with its build;
\* the builder is back in the pool by then.  The exceptions are a peer that
\* never answers (one that hangs, or is older than 1.38 and waits for the proxy
\* in the handshake) and a store host whose answers are read out of step.
SessionEnds ==
  StoreAnswers /\ (\A c \in Conn : Modern(c)) /\ env.hangs = {} =>
    <>(Ended /\ ~held)

\* A builder is given back once the context of its build is done, also when it
\* hangs or is stuck in the handshake.  (A client that disconnects during its
\* build does not get so far: nobody reads from it, see AbortOnDisconnect.)
BuilderReturned == cancelled ~> ~held

=============================================================================
