-------------------------- MODULE NixSessionProofs --------------------------
(***************************************************************************)
(* Proofs about the connection of a Nix client: for every environment and  *)
(* every bound, the proxy takes each token for what it is, the client gets *)
(* the replies it waits for, one to an operation, and a success of an      *)
(* upload only after the store host has accepted every chunk of it.        *)
(***************************************************************************)
EXTENDS NixSession, FiniteSetTheorems, TLAPS

-----------------------------------------------------------------------------
(* The inductive invariant *)

Token == [k : {"op"}, v : AllOps] \union [k : {"args", "len", "data"}, v : Nat]
ReplyToken == {"last", "error", "payload", "nar", "narEnd"}

\* Where a handler stands: it has the source of an upload to read, or it has
\* read all that belongs to its operation.
SourcePc == {"connect", "check", "len", "data", "rest", "drain"}
AfterPc == {"ask", "get", "build", "flush", "wait"}

\* The types of the variables.
SessionTypeOK ==
  /\ client \in {"idle", "stream", "marker", "payload", "nar", "gone"}
  /\ cop \in AllOps /\ frames \in Nat /\ sent \in Nat /\ nops \in Nat
  /\ in \in Seq(Token) /\ out \in Seq(ReplyToken)
  /\ pc \in {"readop", "args", "nar", "closed", "garbled"}
              \union SourcePc \union AfterPc
  /\ op \in AllOps /\ toRead \in Nat /\ reply \in {"last", "error"}
  /\ fwd \in Nat /\ markers \in Nat
  /\ env \in Environment
  /\ daemon \in {"off", "up", "hung", "dead"}
  /\ readErr \in {"none", "ok", "err", "taken"} /\ cutShort \in BOOLEAN

\* What the client puts into the stream: an operation only into an empty one,
\* its arguments, frames with as many chunks as their length says, a zero.
Grammar(s) == \A i \in 1..Len(s) :
  /\ s[i].k = "op" => i = 1 /\ Len(s) > 1 /\ s[2].k = "args"
  /\ s[i].k = "args" /\ i < Len(s) => s[i + 1].k = "len"
  /\ s[i].k = "len" /\ s[i].v = 0 => i = Len(s)
  /\ s[i].k = "len" /\ s[i].v > 0 =>
       /\ i + s[i].v <= Len(s)
       /\ \A j \in i + 1 .. i + s[i].v : s[j].k = "data"
       /\ i + s[i].v < Len(s) => s[i + s[i].v + 1].k = "len"

\* The stream starts with n chunks, the rest of a frame.
Leads(s, n) ==
  /\ n <= Len(s)
  /\ \A j \in 1..n : s[j].k = "data"
  /\ n < Len(s) => s[n + 1].k = "len"

\* The zero that ends a source is not in the stream, or is the last of it.
Open(s) == \A i \in 1..Len(s) : s[i].k = "len" => s[i].v # 0
Ends(s) == s # <<>> /\ s[Len(s)].k = "len" /\ s[Len(s)].v = 0

\* The chunks in the stream.
Data(s) == Cardinality({i \in 1..Len(s) : s[i].k = "data"})

\* No operation was refused so far, but the one whose arguments are next.
Tracked == op \notin RefusedOps \/ pc = "args"

\* The loop has an operation to read, or it has none.
Fresh == pc = "readop" /\ in # <<>>
Answered == pc = "readop" /\ in = <<>>

\* The operation that each handler serves.
HandlerInv ==
  /\ pc = "args" => op # "Unhandled"
  /\ pc \in {"get", "build"} => op = "BuildDerivation"
  /\ pc = "ask" => op \in StoreQueries \union {"NarFromPath"}
  /\ pc = "nar" => op = "NarFromPath"
  /\ pc \in SourcePc \union {"flush", "wait"} => op = "AddMultipleToStore"
  /\ pc \notin {"readop", "closed", "garbled"} => op = cop
  /\ pc = "closed" => client = "gone"
  /\ pc = "garbled" => op \in RefusedOps
  /\ pc \in {"data", "rest"} => toRead > 0

\* What is at the head of the stream where the proxy stands.
StreamInv == Tracked =>
  /\ Grammar(in)
  /\ Fresh => Head(in).k = "op" /\ Head(in).v = cop
  /\ pc = "args" => in # <<>> /\ Head(in).k = "args"
  /\ pc \in SourcePc \ {"data", "rest"} /\ in # <<>> => Head(in).k = "len"
  /\ pc \in {"data", "rest"} => Leads(in, toRead)
  /\ pc \in AfterPc \union {"nar", "closed"} => in = <<>>

\* The end of a source is in the stream once the client has sent it, until the
\* proxy takes it.  When the store host refuses that very token, the proxy is
\* left draining a source that has ended.  An operation without a source has
\* only its arguments.
SourceInv == Tracked =>
  /\ client = "stream" =>
       /\ cop \in FramedOps
       /\ Fresh \/ pc = "args" \/ pc \in SourcePc
       /\ Open(in)
  /\ client = "marker" /\ cop \in FramedOps
       /\ (Fresh \/ pc = "args" \/ pc \in SourcePc)
       => Ends(in) \/ (in = <<>> /\ pc = "drain")
  /\ cop \notin FramedOps =>
       /\ Fresh => Len(in) = 2
       /\ pc = "args" => Len(in) = 1

\* A NAR that is under way, and one that may be complete.
NarOpen(s) == \A i \in 1..Len(s) : s[i] = "nar"
NarRest(s) == \A i \in 1..Len(s) :
  s[i] = "nar" \/ (s[i] = "narEnd" /\ i = Len(s))

\* What follows the marker; a client older than 1.17 may find an error there.
PayloadToken(r) == r = "payload" \/ (r = "error" /\ Minor < 17)

\* A reply as a whole; the empty one is that of a handler that failed.
FullReply(s) ==
  \/ s = <<>> \/ s = <<"error">>
  \/ /\ s # <<>> /\ Head(s) = "last"
     /\ CASE cop \in PayloadOps -> Len(s) = 2 /\ PayloadToken(s[2])
          [] cop = "NarFromPath" -> NarRest(Tail(s))
          [] OTHER -> Len(s) = 1

\* What the proxy has written and the client has yet to read.
ReplyInv == Tracked =>
  /\ client \in {"stream", "gone"} => out = <<>>
  /\ client = "idle" => Answered /\ out = <<>>
  /\ client = "payload" => Answered /\ Len(out) = 1 /\ PayloadToken(out[1])
  /\ client = "nar" =>
       \/ Answered /\ NarRest(out)
       \/ pc = "nar" /\ NarOpen(out)
  /\ client = "marker" =>
       \/ Answered /\ FullReply(out)
       \/ pc = "nar" /\ out # <<>> /\ Head(out) = "last" /\ NarOpen(Tail(out))
       \/ ~Answered /\ pc # "nar" /\ out = <<>>

\* After an operation that is refused the loop finds something else than an
\* operation, and it never gets further.
RefusedInv == op \in RefusedOps =>
  /\ pc \in {"args", "readop", "closed", "garbled"}
  /\ Fresh => Head(in).k # "op"
  /\ Answered => client \in {"stream", "gone"}

SessionInv ==
  SessionTypeOK /\ HandlerInv /\ StreamInv /\ SourceInv /\ ReplyInv /\ RefusedInv

\* Who sends StderrLast before the end of a source.
EarlyInv ==
  readErr = "ok" /\ pc # "wait" => "earlyLast" \in env.faults

\* What is left of all this when an upload was cut short: the proxy is done with
\* the source, the next token of the stream is still a frame header, and the
\* answer of the daemon was taken by the loop.
CutInv == cutShort =>
  /\ "earlyLast" \in env.faults /\ op = "AddMultipleToStore"
  /\ pc \in {"flush", "wait", "readop", "garbled", "closed"}
  /\ pc \in {"flush", "wait"} => readErr = "taken"
  /\ pc \in {"flush", "wait", "readop"} =>
       IF in = <<>> THEN client \in {"stream", "gone"} ELSE Head(in).k = "len"

\* The invariant: everything above until an upload is cut short.
WholeInv == SessionTypeOK /\ EarlyInv /\ CutInv /\ (~cutShort => SessionInv)

\* The chunks of an upload are in the stream or forwarded, and after a failure
\* the reply is settled.
UploadInv ==
  /\ env.storeHost /\ pc \in {"rest", "drain"} => reply = "error"
  /\ Tracked /\ (Fresh \/ pc = "args") => sent = Data(in)
  /\ pc \in {"connect", "check", "len", "data", "flush", "wait"}
       => sent = fwd + Data(in)

\* The markers written so far.
MarkerInv ==
  /\ daemon = "dead" => "daemonDies" \in env.faults
  /\ pc \in {"args"} \union SourcePc \union AfterPc => markers = 0
  /\ pc = "nar" => markers = 1
  /\ Benign /\ pc = "readop" => markers = 1 \/ client = "gone"

-----------------------------------------------------------------------------
(* Streams *)

\* Taking the first token of a stream leaves a stream in which the next token
\* is what the first one announced.
LEMMA TakeToken ==
  ASSUME NEW s \in Seq(Token), s # <<>>, Grammar(s)
  PROVE  /\ Tail(s) \in Seq(Token) /\ Grammar(Tail(s))
         /\ Head(s) \in Token
         /\ Tail(s) # <<>> => Head(Tail(s)).k # "op"
         /\ Head(s).k = "op" => Tail(s) # <<>> /\ Head(Tail(s)).k = "args"
         /\ Head(s).k = "args" /\ Tail(s) # <<>> => Head(Tail(s)).k = "len"
         /\ Head(s).k = "len" /\ Head(s).v = 0 => Tail(s) = <<>>
         /\ Head(s).k = "len" /\ Head(s).v > 0 => Leads(Tail(s), Head(s).v)
<1> DEFINE t == Tail(s)
<1>1. /\ Len(s) \in Nat /\ Len(s) > 0 /\ t \in Seq(Token) /\ Len(t) = Len(s) - 1
      /\ \A i \in 1..Len(t) : t[i] = s[i + 1]
      /\ \A i \in 1..Len(s) : s[i] \in Token
      /\ Head(s) = s[1]
  OBVIOUS
<1>2. \A i \in 1..Len(s) : s[i].k = "len" => s[i].v \in Nat
  BY <1>1 DEF Token
<1>3. Tail(s) # <<>> => Len(t) > 0 /\ Head(t) = t[1]
  BY <1>1
<1> HIDE DEF t
<1>4. Grammar(t)
  <2> SUFFICES ASSUME NEW i \in 1..Len(t)
               PROVE  /\ t[i].k = "op" => i = 1 /\ Len(t) > 1 /\ t[2].k = "args"
                      /\ t[i].k = "args" /\ i < Len(t) => t[i + 1].k = "len"
                      /\ t[i].k = "len" /\ t[i].v = 0 => i = Len(t)
                      /\ t[i].k = "len" /\ t[i].v > 0 =>
                           /\ i + t[i].v <= Len(t)
                           /\ \A j \in i + 1 .. i + t[i].v : t[j].k = "data"
                           /\ i + t[i].v < Len(t) => t[i + t[i].v + 1].k = "len"
    BY DEF Grammar
  <2>1. i + 1 \in 1..Len(s) /\ t[i] = s[i + 1]
    BY <1>1
  <2>2. t[i].k # "op"
    BY <2>1, <1>1 DEF Grammar
  <2>3. t[i].k = "args" /\ i < Len(t) => t[i + 1].k = "len"
    BY <2>1, <1>1 DEF Grammar
  <2>4. t[i].k = "len" /\ t[i].v = 0 => i = Len(t)
    BY <2>1, <1>1 DEF Grammar
  <2>5. ASSUME t[i].k = "len", t[i].v > 0
        PROVE  /\ i + t[i].v <= Len(t)
               /\ \A j \in i + 1 .. i + t[i].v : t[j].k = "data"
               /\ i + t[i].v < Len(t) => t[i + t[i].v + 1].k = "len"
    <3> DEFINE n == t[i].v
    <3>1. n \in Nat /\ n > 0 /\ s[i + 1].k = "len" /\ s[i + 1].v = n
      BY <2>1, <2>5, <1>2
    <3> HIDE DEF n
    <3>2. /\ (i + 1) + n <= Len(s)
          /\ \A j \in (i + 1) + 1 .. (i + 1) + n : s[j].k = "data"
          /\ (i + 1) + n < Len(s) => s[(i + 1) + n + 1].k = "len"
      BY <2>1, <3>1 DEF Grammar
    <3>3. i + n <= Len(t)
      BY <3>1, <3>2, <1>1
    <3>4. ASSUME NEW j \in i + 1 .. i + n PROVE t[j].k = "data"
      <4>1. j \in 1..Len(t) /\ j + 1 \in (i + 1) + 1 .. (i + 1) + n
        BY <3>1, <3>3, <1>1
      <4> QED BY <4>1, <3>2, <1>1
    <3>5. ASSUME i + n < Len(t) PROVE t[i + n + 1].k = "len"
      <4>1. i + n + 1 \in 1..Len(t) /\ (i + 1) + n < Len(s)
        BY <3>1, <3>5, <1>1
      <4>2. t[i + n + 1] = s[(i + n + 1) + 1] /\ (i + n + 1) + 1 = (i + 1) + n + 1
        BY <4>1, <3>1, <1>1
      <4> QED BY <4>1, <4>2, <3>2
    <3> QED BY <3>3, <3>4, <3>5 DEF n
  <2> QED BY <2>2, <2>3, <2>4, <2>5
<1>5. t # <<>> => Head(t).k # "op"
  <2>1. t # <<>> => 2 \in 1..Len(s) /\ Head(t) = s[2]
    BY <1>1, <1>3 DEF t
  <2> QED BY <2>1, <1>1 DEF Grammar
<1>6. Head(s).k = "op" => t # <<>> /\ Head(t).k = "args"
  <2> SUFFICES ASSUME s[1].k = "op" PROVE t # <<>> /\ Head(t).k = "args"
    BY <1>1
  <2>1. 1 \in 1..Len(s) /\ Len(s) > 1 /\ s[2].k = "args"
    BY <1>1 DEF Grammar
  <2>2. t # <<>> /\ 1 \in 1..Len(t)
    BY <2>1, <1>1
  <2> QED BY <2>1, <2>2, <1>1, <1>3 DEF t
<1>7. Head(s).k = "args" /\ t # <<>> => Head(t).k = "len"
  <2> SUFFICES ASSUME s[1].k = "args", t # <<>> PROVE Head(t).k = "len"
    BY <1>1
  <2>1. 1 \in 1..Len(s) /\ 1 < Len(s) /\ Head(t) = s[1 + 1]
    BY <1>1, <1>3 DEF t
  <2> QED BY <2>1 DEF Grammar
<1>8. Head(s).k = "len" /\ Head(s).v = 0 => t = <<>>
  <2> SUFFICES ASSUME s[1].k = "len", s[1].v = 0 PROVE t = <<>>
    BY <1>1
  <2>1. 1 = Len(s)
    BY <1>1 DEF Grammar
  <2> QED BY <2>1, <1>1
<1>9. Head(s).k = "len" /\ Head(s).v > 0 => Leads(t, Head(s).v)
  <2> SUFFICES ASSUME s[1].k = "len", s[1].v > 0 PROVE Leads(t, s[1].v)
    BY <1>1
  <2> DEFINE n == s[1].v
  <2>1. n \in Nat /\ 1 \in 1..Len(s)
    BY <1>1, <1>2
  <2>2. /\ 1 + n <= Len(s)
        /\ \A j \in 1 + 1 .. 1 + n : s[j].k = "data"
        /\ 1 + n < Len(s) => s[1 + n + 1].k = "len"
    BY <2>1 DEF Grammar
  <2> HIDE DEF n
  <2>3. n <= Len(t)
    BY <2>1, <2>2, <1>1
  <2>4. ASSUME NEW j \in 1..n PROVE t[j].k = "data"
    <3>1. j \in 1..Len(t) /\ j + 1 \in 1 + 1 .. 1 + n
      BY <2>1, <2>3, <1>1
    <3> QED BY <3>1, <2>2, <1>1
  <2>5. n < Len(t) => t[n + 1].k = "len"
    <3> SUFFICES ASSUME n < Len(t) PROVE t[n + 1].k = "len"
      OBVIOUS
    <3>1. n + 1 \in 1..Len(t) /\ 1 + n < Len(s) /\ (n + 1) + 1 = 1 + n + 1
      BY <2>1, <1>1
    <3> QED BY <3>1, <2>2, <1>1
  <2> QED BY <2>3, <2>4, <2>5 DEF Leads, n
<1> QED BY <1>1, <1>4, <1>5, <1>6, <1>7, <1>8, <1>9 DEF t

\* Taking a chunk of a frame.
LEMMA TakeChunk ==
  ASSUME NEW s \in Seq(Token), NEW n \in Nat, n > 0, Leads(s, n)
  PROVE  /\ s # <<>> /\ Head(s).k = "data"
         /\ Leads(Tail(s), n - 1)
         /\ n = 1 /\ Tail(s) # <<>> => Head(Tail(s)).k = "len"
<1> DEFINE t == Tail(s)
<1>1. Len(s) > 0 /\ s # <<>> /\ Head(s) = s[1] /\ s[1].k = "data"
  <2>1. Len(s) \in Nat /\ n <= Len(s) /\ 1 \in 1..n
    BY DEF Leads
  <2> QED BY <2>1 DEF Leads
<1>2. /\ Len(s) \in Nat /\ t \in Seq(Token) /\ Len(t) = Len(s) - 1
      /\ \A i \in 1..Len(t) : t[i] = s[i + 1]
      /\ t # <<>> => Len(t) > 0 /\ Head(t) = t[1]
  BY <1>1
<1> HIDE DEF t
<1>3. Leads(t, n - 1)
  <2>1. n - 1 <= Len(t)
    BY <1>2 DEF Leads
  <2>2. ASSUME NEW j \in 1..(n - 1) PROVE t[j].k = "data"
    <3>1. j \in 1..Len(t) /\ j + 1 \in 1..n
      BY <2>1, <1>2
    <3> QED BY <3>1, <1>2 DEF Leads
  <2>3. n - 1 < Len(t) => t[(n - 1) + 1].k = "len"
    <3> SUFFICES ASSUME n - 1 < Len(t) PROVE t[n].k = "len"
      OBVIOUS
    <3>1. n \in 1..Len(t) /\ n < Len(s)
      BY <1>2
    <3> QED BY <3>1, <1>2 DEF Leads
  <2> QED BY <2>1, <2>2, <2>3 DEF Leads
<1>4. n = 1 /\ t # <<>> => Head(t).k = "len"
  <2> SUFFICES ASSUME n = 1, t # <<>> PROVE Head(t).k = "len"
    OBVIOUS
  <2>1. n < Len(s) /\ Head(t) = s[n + 1]
    BY <1>2
  <2> QED BY <2>1 DEF Leads
<1> QED BY <1>1, <1>3, <1>4 DEF t

\* Taking a token does not change whether the end of the source is to come.
LEMMA TakeEnds ==
  ASSUME NEW s \in Seq(Token), s # <<>>
  PROVE  /\ Open(s) => Open(Tail(s)) /\ ~(Head(s).k = "len" /\ Head(s).v = 0)
         /\ Ends(s) /\ ~(Head(s).k = "len" /\ Head(s).v = 0) => Ends(Tail(s))
<1> DEFINE t == Tail(s)
<1>1. /\ Len(s) \in Nat /\ Len(s) > 0 /\ t \in Seq(Token) /\ Len(t) = Len(s) - 1
      /\ \A i \in 1..Len(t) : t[i] = s[i + 1]
      /\ Head(s) = s[1] /\ (Len(t) > 0 => t # <<>>)
  OBVIOUS
<1> HIDE DEF t
<1>2. Open(s) => Open(t) /\ ~(s[1].k = "len" /\ s[1].v = 0)
  <2> SUFFICES ASSUME Open(s)
               PROVE  /\ \A i \in 1..Len(t) : t[i].k = "len" => t[i].v # 0
                      /\ ~(s[1].k = "len" /\ s[1].v = 0)
    BY DEF Open
  <2>1. \A i \in 1..Len(t) : i + 1 \in 1..Len(s)
    BY <1>1
  <2> QED BY <2>1, <1>1 DEF Open
<1>3. Ends(s) /\ ~(s[1].k = "len" /\ s[1].v = 0) => Ends(t)
  <2> SUFFICES ASSUME Ends(s), ~(s[1].k = "len" /\ s[1].v = 0) PROVE Ends(t)
    OBVIOUS
  <2>1. Len(s) # 1
    BY <1>1 DEF Ends
  <2>2. Len(t) > 0 /\ Len(t) \in 1..Len(t) /\ t[Len(t)] = s[Len(s)]
    BY <2>1, <1>1
  <2> QED BY <2>2, <1>1 DEF Ends
<1> QED BY <1>1, <1>2, <1>3 DEF t

\* The tokens of a frame (of length zero: the end of a source) and those of an
\* operation.
Frame(n) == <<Tok("len", n)>> \o [i \in 1..n |-> Tok("data", 0)]
OpTokens(o) == <<Tok("op", o), Tok("args", 0)>>

\* The tokens of two streams, one after the other.
LEMMA JoinTokens ==
  ASSUME NEW s \in Seq(Token), NEW t \in Seq(Token)
  PROVE  /\ s \o t \in Seq(Token) /\ Len(s \o t) = Len(s) + Len(t)
         /\ \A i \in 1..Len(s) : (s \o t)[i] = s[i]
         /\ \A i \in 1..Len(t) : (s \o t)[Len(s) + i] = t[i]
OBVIOUS

\* What is added to a stream does not change its head.
LEMMA AddTokens ==
  ASSUME NEW s \in Seq(Token), NEW t \in Seq(Token), t # <<>>
  PROVE  /\ s \o t \in Seq(Token) /\ s \o t # <<>>
         /\ Head(s \o t) = IF s = <<>> THEN Head(t) ELSE Head(s)
<1>1. /\ Len(s) \in Nat /\ Len(t) \in Nat /\ Len(t) > 0
      /\ s \o t \in Seq(Token) /\ Len(s \o t) = Len(s) + Len(t)
      /\ \A i \in 1..Len(s) : (s \o t)[i] = s[i]
      /\ \A i \in 1..Len(t) : (s \o t)[Len(s) + i] = t[i]
      /\ (s = <<>> <=> Len(s) = 0)
  OBVIOUS
<1>2. s \o t # <<>> /\ Head(s \o t) = (s \o t)[1]
  BY <1>1
<1>3. CASE s = <<>>
  <2>1. 1 \in 1..Len(t) /\ Len(s) + 1 = 1 /\ Head(t) = t[1]
    BY <1>1, <1>3
  <2> QED BY <1>1, <1>2, <1>3, <2>1
<1>4. CASE s # <<>>
  <2>1. 1 \in 1..Len(s) /\ Head(s) = s[1]
    BY <1>1, <1>4
  <2> QED BY <1>1, <1>2, <1>4, <2>1
<1> QED BY <1>3, <1>4

\* The tokens of a frame.
LEMMA FrameTokens ==
  ASSUME NEW n \in Nat
  PROVE  /\ Frame(n) \in Seq(Token) /\ Len(Frame(n)) = n + 1 /\ Frame(n) # <<>>
         /\ Frame(n)[1] = Tok("len", n) /\ Head(Frame(n)) = Tok("len", n)
         /\ \A i \in 1..n : Frame(n)[i + 1] = Tok("data", 0)
<1> DEFINE a == <<Tok("len", n)>>
           d == [i \in 1..n |-> Tok("data", 0)]
<1>1. Tok("len", n) \in Token /\ Tok("data", 0) \in Token
  BY DEF Tok, Token
<1>2. a \in Seq(Token) /\ Len(a) = 1 /\ a[1] = Tok("len", n)
  BY <1>1
<1>3. d \in Seq(Token) /\ Len(d) = n /\ \A i \in 1..n : d[i] = Tok("data", 0)
  BY <1>1
<1>4. Frame(n) = a \o d
  BY DEF Frame
<1> HIDE DEF a, d
<1>5. /\ a \o d \in Seq(Token) /\ Len(a \o d) = n + 1
      /\ (a \o d)[1] = Tok("len", n)
      /\ \A i \in 1..n : (a \o d)[i + 1] = Tok("data", 0)
  <2>1. /\ a \o d \in Seq(Token) /\ Len(a \o d) = Len(a) + Len(d)
        /\ \A i \in 1..Len(a) : (a \o d)[i] = a[i]
        /\ \A i \in 1..Len(d) : (a \o d)[Len(a) + i] = d[i]
    BY <1>2, <1>3, JoinTokens
  <2>2. 1 \in 1..Len(a) /\ Len(a) + Len(d) = n + 1 /\ \A i \in 1..n : Len(a) + i = i + 1
    BY <1>2, <1>3
  <2> QED BY <2>1, <2>2, <1>2, <1>3
<1>6. a \o d # <<>> /\ Head(a \o d) = (a \o d)[1]
  BY <1>5
<1> QED BY <1>4, <1>5, <1>6

\* SendFrame adds the tokens of a frame.
LEMMA SendsFrame ==
  ASSUME NEW s \in Seq(Token), NEW n \in Nat
  PROVE  s \o <<Tok("len", n)>> \o [i \in 1..n |-> Tok("data", 0)] = s \o Frame(n)
<1> DEFINE a == <<Tok("len", n)>>
           d == [i \in 1..n |-> Tok("data", 0)]
<1>1. Tok("len", n) \in Token /\ Tok("data", 0) \in Token
  BY DEF Tok, Token
<1>2. a \in Seq(Token) /\ d \in Seq(Token)
  BY <1>1
<1> HIDE DEF a, d
<1>3. (s \o a) \o d = s \o (a \o d)
  BY <1>2
<1> QED BY <1>3 DEF Frame, a, d

\* A frame, or the end of the source, after a stream that has not ended.
LEMMA AddFrame ==
  ASSUME NEW s \in Seq(Token), Grammar(s), Open(s), NEW n \in Nat
  PROVE  /\ Grammar(s \o Frame(n))
         /\ n > 0 => Open(s \o Frame(n))
         /\ n = 0 => Ends(s \o Frame(n))
         /\ \A m \in Nat : Leads(s, m) => Leads(s \o Frame(n), m)
<1> DEFINE f == Frame(n)
           t == s \o f
<1>1. /\ f \in Seq(Token) /\ Len(f) = n + 1 /\ f # <<>> /\ f[1] = Tok("len", n)
      /\ \A i \in 1..n : f[i + 1] = Tok("data", 0)
  BY FrameTokens
<1> HIDE DEF f
<1>2. /\ Len(s) \in Nat /\ t \in Seq(Token) /\ Len(t) = Len(s) + n + 1
      /\ \A i \in 1..Len(s) : t[i] = s[i]
      /\ \A i \in 1..(n + 1) : t[Len(s) + i] = f[i]
  BY <1>1
<1> HIDE DEF t
<1>3. t # <<>>
  BY <1>2
<1>4. t[Len(s) + 1] = Tok("len", n)
  <2>1. 1 \in 1..(n + 1)
    OBVIOUS
  <2> QED BY <2>1, <1>1, <1>2
<1>5. ASSUME NEW j \in Len(s) + 2 .. Len(t) PROVE t[j] = Tok("data", 0)
  <2>1. /\ j - Len(s) \in 1..(n + 1) /\ Len(s) + (j - Len(s)) = j
        /\ j - Len(s) - 1 \in 1..n /\ (j - Len(s) - 1) + 1 = j - Len(s)
    BY <1>2
  <2> QED BY <2>1, <1>1, <1>2
<1>6. \A i \in 1..Len(s) : s[i].k = "len" => s[i].v \in Nat
  BY DEF Token
<1>7. Grammar(t)
  <2> SUFFICES ASSUME NEW i \in 1..Len(t)
               PROVE  /\ t[i].k = "op" => i = 1 /\ Len(t) > 1 /\ t[2].k = "args"
                      /\ t[i].k = "args" /\ i < Len(t) => t[i + 1].k = "len"
                      /\ t[i].k = "len" /\ t[i].v = 0 => i = Len(t)
                      /\ t[i].k = "len" /\ t[i].v > 0 =>
                           /\ i + t[i].v <= Len(t)
                           /\ \A j \in i + 1 .. i + t[i].v : t[j].k = "data"
                           /\ i + t[i].v < Len(t) => t[i + t[i].v + 1].k = "len"
    BY DEF Grammar
  <2>1. CASE i \in 1..Len(s)
    <3>1. t[i] = s[i]
      BY <2>1, <1>2
    <3>2. t[i].k = "op" => i = 1 /\ Len(t) > 1 /\ t[2].k = "args"
      <4> SUFFICES ASSUME s[i].k = "op" PROVE i = 1 /\ Len(t) > 1 /\ t[2].k = "args"
        BY <3>1
      <4>1. i = 1 /\ Len(s) > 1 /\ s[2].k = "args"
        BY <2>1 DEF Grammar
      <4>2. 2 \in 1..Len(s)
        BY <4>1, <1>2
      <4> QED BY <4>1, <4>2, <1>2
    <3>3. t[i].k = "args" => t[i + 1].k = "len"
      <4> SUFFICES ASSUME s[i].k = "args" PROVE t[i + 1].k = "len"
        BY <3>1
      <4>1. CASE i < Len(s)
        <5>1. i + 1 \in 1..Len(s) /\ s[i + 1].k = "len"
          BY <4>1, <2>1, <1>2 DEF Grammar
        <5> QED BY <5>1, <1>2
      <4>2. CASE i = Len(s)
        BY <4>2, <1>4 DEF Tok
      <4> QED BY <4>1, <4>2, <2>1, <1>2
    <3>4. t[i].k = "len" => t[i].v # 0
      BY <3>1, <2>1 DEF Open
    <3>5. ASSUME t[i].k = "len", t[i].v > 0
          PROVE  /\ i + t[i].v <= Len(t)
                 /\ \A j \in i + 1 .. i + t[i].v : t[j].k = "data"
                 /\ i + t[i].v < Len(t) => t[i + t[i].v + 1].k = "len"
      <4> DEFINE m == t[i].v
      <4>1. m \in Nat /\ m > 0 /\ s[i].k = "len" /\ s[i].v = m
        BY <2>1, <3>1, <3>5, <1>6
      <4> HIDE DEF m
      <4>2. /\ i + m <= Len(s)
            /\ \A j \in i + 1 .. i + m : s[j].k = "data"
            /\ i + m < Len(s) => s[i + m + 1].k = "len"
        BY <2>1, <4>1 DEF Grammar
      <4>3. i + m <= Len(t)
        BY <4>1, <4>2, <1>2
      <4>4. ASSUME NEW j \in i + 1 .. i + m PROVE t[j].k = "data"
        <5>1. j \in 1..Len(s)
          BY <4>1, <4>2, <1>2
        <5> QED BY <5>1, <4>2, <1>2
      <4>5. t[i + m + 1].k = "len"
        <5>1. CASE i + m < Len(s)
          <6>1. i + m + 1 \in 1..Len(s)
            BY <5>1, <4>1, <1>2
          <6> QED BY <6>1, <5>1, <4>2, <1>2
        <5>2. CASE i + m = Len(s)
          BY <5>2, <1>4 DEF Tok
        <5> QED BY <5>1, <5>2, <4>1, <4>2, <1>2
      <4> QED BY <4>3, <4>4, <4>5 DEF m
    <3> QED BY <3>2, <3>3, <3>4, <3>5
  <2>2. CASE i = Len(s) + 1
    <3>1. t[i].k = "len" /\ t[i].v = n
      BY <2>2, <1>4 DEF Tok
    <3>2. n = 0 => i = Len(t)
      BY <2>2, <1>2
    <3>3. i + n = Len(t) /\ \A j \in i + 1 .. i + n : j \in Len(s) + 2 .. Len(t)
      BY <2>2, <1>2
    <3>4. \A j \in i + 1 .. i + n : t[j].k = "data"
      BY <3>3, <1>5 DEF Tok
    <3>5. i + n <= Len(t) /\ ~(i + n < Len(t))
      BY <3>3, <1>2
    <3> QED BY <3>1, <3>2, <3>4, <3>5
  <2>3. CASE i \in Len(s) + 2 .. Len(t)
    BY <2>3, <1>5 DEF Tok
  <2> QED BY <2>1, <2>2, <2>3, <1>2
<1>8. ASSUME n > 0 PROVE Open(t)
  <2> SUFFICES ASSUME NEW i \in 1..Len(t), t[i].k = "len" PROVE t[i].v # 0
    BY DEF Open
  <2>1. CASE i \in 1..Len(s)
    BY <2>1, <1>2 DEF Open
  <2>2. CASE i = Len(s) + 1
    BY <2>2, <1>4, <1>8 DEF Tok
  <2>3. CASE i \in Len(s) + 2 .. Len(t)
    BY <2>3, <1>5 DEF Tok
  <2> QED BY <2>1, <2>2, <2>3, <1>2
<1>9. n = 0 => Ends(t)
  <2> SUFFICES ASSUME n = 0 PROVE Ends(t)
    OBVIOUS
  <2>1. Len(t) = Len(s) + 1
    BY <1>2
  <2> QED BY <2>1, <1>3, <1>4 DEF Ends, Tok
<1>10. ASSUME NEW m \in Nat, Leads(s, m) PROVE Leads(t, m)
  <2>1. m <= Len(s) /\ m <= Len(t)
    BY <1>2, <1>10 DEF Leads
  <2>2. \A j \in 1..m : j \in 1..Len(s)
    BY <2>1, <1>2
  <2>3. \A j \in 1..m : t[j].k = "data"
    BY <2>2, <1>2, <1>10 DEF Leads
  <2>4. t[m + 1].k = "len"
    <3>1. CASE m < Len(s)
      <4>1. m + 1 \in 1..Len(s)
        BY <3>1, <1>2
      <4> QED BY <3>1, <4>1, <1>2, <1>10 DEF Leads
    <3>2. CASE m = Len(s)
      BY <3>2, <1>4 DEF Tok
    <3> QED BY <3>1, <3>2, <2>1, <1>2
  <2> QED BY <2>1, <2>3, <2>4 DEF Leads
<1> QED BY <1>7, <1>8, <1>9, <1>10 DEF t, f

\* An operation in an empty stream.
LEMMA AddOp ==
  ASSUME NEW o \in AllOps
  PROVE  /\ OpTokens(o) \in Seq(Token) /\ OpTokens(o) # <<>>
         /\ Head(OpTokens(o)) = Tok("op", o)
         /\ Grammar(OpTokens(o)) /\ Open(OpTokens(o)) /\ Len(OpTokens(o)) = 2
<1>1. Tok("op", o) \in Token /\ Tok("args", 0) \in Token
  BY DEF Tok, Token
<1> DEFINE s == OpTokens(o)
<1>2. /\ s \in Seq(Token) /\ Len(s) = 2
      /\ s[1] = Tok("op", o) /\ s[2] = Tok("args", 0) /\ s # <<>> /\ Head(s) = s[1]
  BY <1>1 DEF OpTokens
<1> HIDE DEF s
<1>3. \A i \in 1..Len(s) : i = 1 \/ i = 2
  BY <1>2
<1>4. Grammar(s) /\ Open(s)
  BY <1>2, <1>3 DEF Grammar, Open, Tok
<1> QED BY <1>2, <1>4 DEF s

\* The end of a source is a frame without chunks.
LEMMA SendsEnd ==
  ASSUME NEW s \in Seq(Token)
  PROVE  Append(s, Tok("len", 0)) = s \o Frame(0)
<1>1. Tok("len", 0) \in Token
  BY DEF Tok, Token
<1>2. /\ Frame(0) \in Seq(Token) /\ Len(Frame(0)) = 1
      /\ Frame(0)[1] = Tok("len", 0)
  <2>1. 0 \in Nat /\ 0 + 1 = 1
    OBVIOUS
  <2> QED BY <2>1, FrameTokens
<1>3. Frame(0) = <<Tok("len", 0)>>
  <2> DEFINE f == Frame(0)
             a == <<Tok("len", 0)>>
  <2>1. a \in Seq(Token) /\ Len(a) = 1 /\ a[1] = Tok("len", 0)
    BY <1>1
  <2>2. f \in Seq(Token) /\ Len(f) = 1 /\ f[1] = Tok("len", 0)
    BY <1>2
  <2> HIDE DEF f, a
  <2>3. f = a
    BY <2>1, <2>2
  <2> QED BY <2>3 DEF f, a
<1>4. ASSUME NEW x \in Token PROVE Append(s, x) = s \o <<x>>
  OBVIOUS
<1> QED BY <1>1, <1>3, <1>4

\* The positions of the chunks in a stream.
Chunks(s) == {i \in 1..Len(s) : s[i].k = "data"}

\* A stream has finitely many chunks.
LEMMA DataType ==
  ASSUME NEW s \in Seq(Token)
  PROVE  IsFiniteSet(Chunks(s)) /\ Data(s) = Cardinality(Chunks(s)) /\ Data(s) \in Nat
<1>1. IsFiniteSet(1..Len(s))
  BY FS_Interval
<1>2. Chunks(s) \in SUBSET (1..Len(s))
  BY DEF Chunks
<1>3. IsFiniteSet(Chunks(s))
  BY <1>1, <1>2, FS_Subset
<1> QED BY <1>3, FS_CardinalityType DEF Data, Chunks

\* An empty stream has no chunk, and that of an operation has none yet.
LEMMA DataNone ==
  /\ Data(<<>>) = 0
  /\ \A o \in AllOps : Data(OpTokens(o)) = 0
<1>1. Chunks(<<>>) = {}
  BY DEF Chunks
<1>2. ASSUME NEW o \in AllOps PROVE Chunks(OpTokens(o)) = {}
  <2> DEFINE s == OpTokens(o)
  <2>1. Len(s) = 2 /\ s[1].k = "op" /\ s[2].k = "args"
    BY DEF OpTokens, Tok
  <2> HIDE DEF s
  <2>2. \A i \in 1..Len(s) : i = 1 \/ i = 2
    BY <2>1
  <2>3. Chunks(s) = {}
    BY <2>1, <2>2 DEF Chunks
  <2> QED BY <2>3 DEF s
<1> QED BY <1>1, <1>2, FS_EmptySet DEF Data, Chunks

\* The chunks of a stream of which the first token is taken.
LEMMA DataTake ==
  ASSUME NEW s \in Seq(Token), s # <<>>
  PROVE  Data(Tail(s)) = IF Head(s).k = "data" THEN Data(s) - 1 ELSE Data(s)
<1> DEFINE t == Tail(s)
           C == Chunks(s) \ {1}
           f == [i \in C |-> i - 1]
<1>1. /\ Len(s) \in Nat /\ Len(s) > 0 /\ t \in Seq(Token) /\ Len(t) = Len(s) - 1
      /\ \A i \in 1..Len(t) : t[i] = s[i + 1]
      /\ Head(s) = s[1]
  OBVIOUS
<1> HIDE DEF t
<1>2. IsFiniteSet(Chunks(s)) /\ Data(s) = Cardinality(Chunks(s)) /\ Data(s) \in Nat
  BY DataType
<1>3. /\ IsFiniteSet(C)
      /\ Cardinality(C) = IF 1 \in Chunks(s) THEN Data(s) - 1 ELSE Data(s)
  BY <1>2, FS_RemoveElement
<1>4. 1 \in Chunks(s) <=> Head(s).k = "data"
  BY <1>1 DEF Chunks
<1>5. ASSUME NEW i \in C PROVE i - 1 \in Chunks(t)
  <2>1. i \in 1..Len(s) /\ i # 1 /\ s[i].k = "data"
    BY DEF Chunks
  <2>2. i - 1 \in 1..Len(t) /\ (i - 1) + 1 = i
    BY <2>1, <1>1
  <2> QED BY <2>1, <2>2, <1>1 DEF Chunks
<1>6. ASSUME NEW j \in Chunks(t) PROVE j + 1 \in C /\ (j + 1) - 1 = j
  <2>1. j \in 1..Len(t) /\ t[j].k = "data"
    BY DEF Chunks
  <2>2. j + 1 \in 1..Len(s) /\ j + 1 # 1 /\ s[j + 1].k = "data"
    BY <2>1, <1>1
  <2> QED BY <2>1, <2>2 DEF Chunks
<1>7. C \subseteq Int
  BY DEF Chunks
<1>8. f \in Bijection(C, Chunks(t))
  <2>1. f \in [C -> Chunks(t)]
    BY <1>5
  <2>2. \A a, b \in C : f[a] = f[b] => a = b
    BY <1>7
  <2>3. \A j \in Chunks(t) : \E i \in C : f[i] = j
    BY <1>6
  <2> HIDE DEF C, f
  <2> QED BY <2>1, <2>2, <2>3 DEF Bijection, Injection, Surjection,
                                    IsInjective
<1>9. Cardinality(Chunks(t)) = Cardinality(C)
  BY <1>3, <1>8, FS_Bijection DEF ExistsBijection
<1>10. Data(t) = Cardinality(Chunks(t))
  BY <1>1, DataType
<1> QED BY <1>3, <1>4, <1>9, <1>10 DEF t

\* A frame of n chunks adds n chunks.
LEMMA DataFrame ==
  ASSUME NEW s \in Seq(Token), NEW n \in Nat
  PROVE  Data(s \o Frame(n)) = Data(s) + n
<1> DEFINE f == Frame(n)
           t == s \o f
           N == Len(s) + 2 .. Len(s) + n + 1
<1>1. /\ f \in Seq(Token) /\ Len(f) = n + 1 /\ f[1] = Tok("len", n)
      /\ \A i \in 1..n : f[i + 1] = Tok("data", 0)
  BY FrameTokens
<1> HIDE DEF f
<1>2. /\ Len(s) \in Nat /\ t \in Seq(Token) /\ Len(t) = Len(s) + (n + 1)
      /\ \A i \in 1..Len(s) : t[i] = s[i]
      /\ \A i \in 1..(n + 1) : t[Len(s) + i] = f[i]
  BY <1>1, JoinTokens
<1> HIDE DEF t
<1>3. t[Len(s) + 1].k = "len"
  <2>1. 1 \in 1..(n + 1)
    OBVIOUS
  <2>2. t[Len(s) + 1] = Tok("len", n)
    BY <2>1, <1>1, <1>2
  <2> QED BY <2>2 DEF Tok
<1>4. ASSUME NEW j \in N PROVE j \in 1..Len(t) /\ t[j].k = "data"
  <2>1. /\ j - Len(s) \in 1..(n + 1) /\ Len(s) + (j - Len(s)) = j
        /\ j - Len(s) - 1 \in 1..n /\ (j - Len(s) - 1) + 1 = j - Len(s)
        /\ j \in 1..Len(t)
    BY <1>2
  <2>2. t[j] = Tok("data", 0)
    BY <2>1, <1>1, <1>2
  <2> QED BY <2>1, <2>2 DEF Tok
<1>5. Chunks(t) = Chunks(s) \union N
  <2>1. ASSUME NEW i \in Chunks(t) PROVE i \in Chunks(s) \/ i \in N
    <3>1. i \in 1..Len(t) /\ t[i].k = "data"
      BY DEF Chunks
    <3>2. CASE i \in 1..Len(s)
      BY <3>1, <3>2, <1>2 DEF Chunks
    <3>3. CASE i = Len(s) + 1
      BY <3>1, <3>3, <1>3
    <3>4. CASE i \notin 1..Len(s) /\ i # Len(s) + 1
      BY <3>1, <3>4, <1>2
    <3> QED BY <3>2, <3>3, <3>4
  <2>2. ASSUME NEW i \in Chunks(s) PROVE i \in Chunks(t)
    <3>1. i \in 1..Len(s) /\ s[i].k = "data"
      BY DEF Chunks
    <3>2. i \in 1..Len(t)
      BY <3>1, <1>2
    <3> QED BY <3>1, <3>2, <1>2 DEF Chunks
  <2>3. \A i \in N : i \in Chunks(t)
    BY <1>4 DEF Chunks
  <2> HIDE DEF N
  <2> QED BY <2>1, <2>2, <2>3
<1>6. Chunks(s) \cap N = {}
  BY <1>2 DEF Chunks
<1>7. IsFiniteSet(N) /\ Cardinality(N) = n
  <2>1. Len(s) + 2 \in Int /\ Len(s) + n + 1 \in Int
    BY <1>2
  <2>2. /\ IsFiniteSet(N)
        /\ Cardinality(N) = IF Len(s) + 2 > Len(s) + n + 1 THEN 0
                            ELSE (Len(s) + n + 1) - (Len(s) + 2) + 1
    BY <2>1, FS_Interval
  <2> QED BY <2>2, <1>2
<1>8. /\ IsFiniteSet(Chunks(s)) /\ Data(s) = Cardinality(Chunks(s)) /\ Data(s) \in Nat
      /\ Data(t) = Cardinality(Chunks(t))
  BY <1>2, DataType
<1> HIDE DEF N
<1>9. Cardinality(Chunks(t)) = Cardinality(Chunks(s)) + Cardinality(N) - Cardinality({})
  BY <1>5, <1>6, <1>7, <1>8, FS_Union
<1> QED BY <1>7, <1>8, <1>9, FS_EmptySet DEF t, f

-----------------------------------------------------------------------------
(* Replies *)

\* The replies of the handlers that answer once they have their arguments.
LEMMA PlainReply ==
  ASSUME NEW o \in PlainOps, NEW s \in PlainReplies(o)
  PROVE  \/ s = StopWorkWithError
         \/ s = StopWork /\ o \notin PayloadOps
         \/ /\ o \in PayloadOps
            /\ s = <<"last", "payload">> \/ (s = <<"last", "error">> /\ Minor < 17)
<1> USE DEF PlainReplies, PlainOps, PayloadOps, AllOps, StopWork,
            StopWorkWithError, WithPayload, handleSetOptions, handleIsValidPath,
            handleQueryValidPaths, handleQueryReferrers, handleAddTempRoot,
            handleQueryMissing, handleQueryPathInfo, handleAddToStore
<1>1. CASE o = "SetOptions"
  BY <1>1
<1>2. CASE o = "IsValidPath"
  BY <1>2
<1>3. CASE o = "QueryValidPaths"
  BY <1>3
<1>4. CASE o = "QueryPathInfo"
  <2>1. Minor \in Nat
    BY SessionAssumption
  <2> QED BY <1>4, <2>1
<1>5. CASE o = "AddToStore"
  BY <1>5
<1>6. CASE o = "QueryReferrers"
  BY <1>6
<1>7. CASE o = "AddTempRoot"
  BY <1>7
<1>8. CASE o = "QueryMissing"
  BY <1>8
<1> QED BY <1>1, <1>2, <1>3, <1>4, <1>5, <1>6, <1>7, <1>8

\* The queries of the store host are among them.
LEMMA QueriesArePlain == StoreQueries \subseteq PlainOps
BY DEF StoreQueries, PlainOps, AllOps

\* The tokens of two replies, one after the other.
LEMMA JoinReplies ==
  ASSUME NEW s \in Seq(ReplyToken), NEW t \in Seq(ReplyToken)
  PROVE  /\ s \o t \in Seq(ReplyToken) /\ Len(s \o t) = Len(s) + Len(t)
         /\ \A i \in 1..Len(s) : (s \o t)[i] = s[i]
         /\ \A i \in 1..Len(t) : (s \o t)[Len(s) + i] = t[i]
OBVIOUS

\* Two tokens, one after the other.
LEMMA PairReply ==
  ASSUME NEW r \in ReplyToken, NEW q \in ReplyToken
  PROVE  <<r>> \o <<q>> = <<r, q>>
<1> DEFINE a == <<r>>
           b == <<q>>
           c == <<r, q>>
<1>1. /\ a \in Seq(ReplyToken) /\ Len(a) = 1 /\ a[1] = r
      /\ b \in Seq(ReplyToken) /\ Len(b) = 1 /\ b[1] = q
      /\ c \in Seq(ReplyToken) /\ Len(c) = 2 /\ c[1] = r /\ c[2] = q
  OBVIOUS
<1> HIDE DEF a, b, c
<1>2. /\ a \o b \in Seq(ReplyToken) /\ Len(a \o b) = 2
      /\ (a \o b)[1] = r /\ (a \o b)[2] = q
  <2>1. /\ a \o b \in Seq(ReplyToken) /\ Len(a \o b) = Len(a) + Len(b)
        /\ \A i \in 1..Len(a) : (a \o b)[i] = a[i]
        /\ \A i \in 1..Len(b) : (a \o b)[Len(a) + i] = b[i]
    BY <1>1, JoinReplies
  <2>2. 1 \in 1..Len(a) /\ 1 \in 1..Len(b) /\ Len(a) + 1 = 2 /\ Len(a) + Len(b) = 2
    BY <1>1
  <2> QED BY <1>1, <2>1, <2>2
<1>3. a \o b = c
  BY <1>1, <1>2
<1> QED BY <1>3 DEF a, b, c

\* Taking the first token of a reply.
LEMMA TakeReply ==
  ASSUME NEW s \in Seq(ReplyToken), s # <<>>
  PROVE  /\ NarOpen(s) => NarOpen(Tail(s)) /\ Head(s) = "nar"
         /\ NarRest(s) => NarRest(Tail(s))
         /\ NarRest(s) /\ Head(s) = "narEnd" => Tail(s) = <<>>
         /\ Len(s) = 1 => Tail(s) = <<>> /\ Head(s) = s[1]
         /\ Len(s) = 2 => Len(Tail(s)) = 1 /\ Tail(s)[1] = s[2]
<1> DEFINE t == Tail(s)
<1>1. /\ Len(s) \in Nat /\ Len(s) > 0 /\ t \in Seq(ReplyToken) /\ Len(t) = Len(s) - 1
      /\ \A i \in 1..Len(t) : t[i] = s[i + 1]
      /\ Head(s) = s[1]
  OBVIOUS
<1> HIDE DEF t
<1>0. Len(t) = 0 => t = <<>>
  BY <1>1
<1>2. 1 \in 1..Len(s) /\ \A i \in 1..Len(t) : i + 1 \in 1..Len(s)
  BY <1>1
<1>3. NarOpen(s) => NarOpen(t) /\ s[1] = "nar"
  BY <1>1, <1>2 DEF NarOpen
<1>4. NarRest(s) => NarRest(t)
  <2> SUFFICES ASSUME NarRest(s), NEW i \in 1..Len(t)
               PROVE  t[i] = "nar" \/ (t[i] = "narEnd" /\ i = Len(t))
    BY DEF NarRest
  <2>1. s[i + 1] = "nar" \/ (s[i + 1] = "narEnd" /\ i + 1 = Len(s))
    BY <1>2 DEF NarRest
  <2> QED BY <2>1, <1>1
<1>5. NarRest(s) /\ s[1] = "narEnd" => t = <<>>
  <2>1. NarRest(s) /\ s[1] = "narEnd" => 1 = Len(s)
    BY <1>2 DEF NarRest
  <2> QED BY <2>1, <1>0, <1>1
<1>6. Len(s) = 1 => t = <<>>
  BY <1>0, <1>1
<1>7. Len(s) = 2 => Len(t) = 1 /\ t[1] = s[2]
  BY <1>1
<1> QED BY <1>1, <1>3, <1>4, <1>5, <1>6, <1>7 DEF t

\* How many markers each reply has.
LEMMA MarkersOf ==
  /\ Markers(<<>>) = 0
  /\ \A r \in {"last", "error"} : Markers(<<r>>) = 1
  /\ Markers(<<"last", "payload">>) = 1
  /\ Markers(<<"last", "error">>) \in Nat
  /\ Markers(<<"narEnd">>) = 0
<1> DEFINE At(s) == {i \in DOMAIN s : s[i] \in {"last", "error"}}
<1>1. At(<<>>) = {} /\ At(<<"narEnd">>) = {}
  OBVIOUS
<1>2. ASSUME NEW r \in {"last", "error"} PROVE At(<<r>>) = {1}
  OBVIOUS
<1>3. At(<<"last", "payload">>) = {1}
  OBVIOUS
<1>4. At(<<"last", "error">>) = {1} \union {2}
  OBVIOUS
<1>5. Cardinality({1} \union {2}) \in Nat
  <2>1. IsFiniteSet({1})
    BY FS_Singleton
  <2>2. IsFiniteSet({1} \union {2})
    BY <2>1, FS_AddElement
  <2> QED BY <2>2, FS_CardinalityType
<1> HIDE DEF At
<1>6. \A s : Markers(s) = Cardinality(At(s))
  BY DEF Markers, At
<1> QED BY <1>1, <1>2, <1>3, <1>4, <1>5, <1>6, FS_EmptySet, FS_Singleton

-----------------------------------------------------------------------------
(* Types *)

\* What is written for the client is a reply.
LEMMA WriteType ==
  ASSUME SessionTypeOK, NEW s \in Seq(ReplyToken)
  PROVE  Write(s) \in Seq(ReplyToken)
BY DEF SessionTypeOK, Write

\* The replies are sequences of tokens.
LEMMA ReplyType ==
  /\ <<>> \in Seq(ReplyToken)
  /\ \A r \in ReplyToken : <<r>> \in Seq(ReplyToken)
  /\ \A r, q \in ReplyToken : <<r, q>> \in Seq(ReplyToken)
OBVIOUS

\* A handler that returns leaves the types as they are.
LEMMA ReturnType ==
  ASSUME SessionTypeOK, NEW s,
         s \in {<<>>, <<"last">>, <<"error">>, <<"last", "payload">>,
                <<"last", "error">>, <<"narEnd">>},
         Return(s)
  PROVE  /\ pc' = "readop" /\ out' \in Seq(ReplyToken) /\ markers' \in Nat
         /\ daemon' = "off" /\ readErr' = "none"
<1>1. s \in Seq(ReplyToken)
  BY ReplyType DEF ReplyToken
<1>2. Markers(s) \in Nat
  BY MarkersOf
<1> QED BY <1>1, <1>2, WriteType DEF Return, SessionTypeOK

\* What the token at the head of the stream holds.
LEMMA HeadToken ==
  ASSUME SessionTypeOK, in # <<>>
  PROVE  /\ Tail(in) \in Seq(Token)
         /\ Head(in).k = "op" => Head(in).v \in AllOps
         /\ Head(in).k = "len" => Head(in).v \in Nat
<1>1. Head(in) \in Token /\ Tail(in) \in Seq(Token)
  BY DEF SessionTypeOK
<1> QED BY <1>1 DEF Token

\* The steps of the client keep the types.
LEMMA ClientType ==
  ASSUME SessionTypeOK, Client
  PROVE  SessionTypeOK'
<1> USE DEF proxyVars, envVars, hostVars, SourcePc, AfterPc
<1>1. ASSUME NEW o \in env.ops, SendOp(o) PROVE SessionTypeOK'
  <2>1. o \in AllOps
    BY DEF SessionTypeOK, Environment
  <2>2. in' = in \o OpTokens(o)
    BY <1>1 DEF SendOp, OpTokens
  <2>3. in' \in Seq(Token)
    BY <2>1, <2>2, AddOp, AddTokens DEF SessionTypeOK
  <2>4. client' \in {"stream", "marker"} /\ frames' \in Nat
    <3>1. MaxFrames \in Nat
      BY SessionAssumption
    <3> QED BY <1>1, <3>1 DEF SendOp, SessionTypeOK
  <2> QED BY <1>1, <2>1, <2>3, <2>4 DEF SendOp, SessionTypeOK
<1>2. CASE SendFrame
  <2>1. CASE frames = 0
    <3>1. in' \in Seq(Token)
      <4>1. in' = in \o Frame(0)
        BY <1>2, <2>1, SendsEnd DEF SendFrame, SessionTypeOK
      <4>2. Frame(0) \in Seq(Token)
        BY FrameTokens
      <4> QED BY <4>1, <4>2, JoinTokens DEF SessionTypeOK
    <3> QED BY <1>2, <2>1, <3>1 DEF SendFrame, SessionTypeOK
  <2>2. CASE frames # 0
    <3>1. PICK n \in 1..MaxChunks :
            /\ in' = in \o <<Tok("len", n)>> \o [i \in 1..n |-> Tok("data", 0)]
            /\ frames' = frames - 1 /\ sent' = sent + n /\ UNCHANGED client
      BY <1>2, <2>2 DEF SendFrame
    <3>2. n \in Nat
      BY SessionAssumption
    <3>3. in' = in \o Frame(n)
      BY <3>1, <3>2, SendsFrame DEF SessionTypeOK
    <3>4. in' \in Seq(Token)
      BY <3>2, <3>3, FrameTokens, JoinTokens DEF SessionTypeOK
    <3>5. frames' \in Nat /\ sent' \in Nat /\ client' = client
      BY <3>1, <3>2, <2>2 DEF SessionTypeOK
    <3> QED BY <1>2, <3>4, <3>5 DEF SendFrame, SessionTypeOK
  <2> QED BY <2>1, <2>2
<1>3. CASE ReadReply
  BY <1>3 DEF ReadReply, AfterMarker, SessionTypeOK
<1>4. CASE Disconnect
  BY <1>4 DEF Disconnect, SessionTypeOK
<1> QED BY <1>1, <1>2, <1>3, <1>4 DEF Client

\* The steps of the proxy keep the types.
LEMMA ProxyType ==
  ASSUME SessionTypeOK, pc \in {"data", "rest"} => toRead > 0, Proxy \/ BuildReturns
  PROVE  SessionTypeOK'
<1> USE DEF clientVars, envVars, hostVars, SourcePc, AfterPc
<1>1. CASE Misread
  BY <1>1 DEF Misread, SessionTypeOK
<1>2. CASE ReadFails
  BY <1>2 DEF ReadFails, SessionTypeOK
<1>3. CASE ReadOp
  <2>1. in' \in Seq(Token) /\ op' \in AllOps
    BY <1>3, HeadToken DEF ReadOp, Has
  <2>2. out' \in Seq(ReplyToken)
    <3>1. <<"error">> \in Seq(ReplyToken)
      BY ReplyType DEF ReplyToken
    <3> QED BY <1>3, <3>1, WriteType DEF ReadOp, StopWorkWithError, SessionTypeOK
  <2> QED BY <1>3, <2>1, <2>2 DEF ReadOp, SessionTypeOK
<1>4. CASE HandlePlain \/ AnswerQuery
  <2>1. op \in PlainOps /\ \E s \in PlainReplies(op) : Return(s)
    BY <1>4, QueriesArePlain DEF HandlePlain, AnswerQuery
  <2>2. PICK s \in PlainReplies(op) : Return(s)
    BY <2>1
  <2>3. s \in {<<"last">>, <<"error">>, <<"last", "payload">>, <<"last", "error">>}
    BY <2>1, PlainReply DEF StopWork, StopWorkWithError
  <2>4. /\ pc' = "readop" /\ out' \in Seq(ReplyToken) /\ markers' \in Nat
        /\ daemon' = "off" /\ readErr' = "none"
    BY <2>2, <2>3, ReturnType
  <2>5. in' \in Seq(Token)
    BY <1>4, HeadToken DEF HandlePlain, AnswerQuery, Has, SessionTypeOK
  <2> QED BY <1>4, <2>4, <2>5 DEF HandlePlain, AnswerQuery, SessionTypeOK
<1>5. CASE ReadBuildArgs \/ ReadUploadArgs \/ ReadQueryArgs
  <2>1. in' \in Seq(Token)
    BY <1>5, HeadToken DEF ReadBuildArgs, ReadUploadArgs, ReadQueryArgs, Has
  <2> QED BY <1>5, <2>1 DEF ReadBuildArgs, ReadUploadArgs, ReadQueryArgs, SessionTypeOK
<1>6. CASE GetBuilderFails
  <2>1. Return(<<"error">>)
    BY <1>6 DEF GetBuilderFails, StopWorkWithError
  <2>2. /\ pc' = "readop" /\ out' \in Seq(ReplyToken) /\ markers' \in Nat
        /\ daemon' = "off" /\ readErr' = "none"
    BY <2>1, ReturnType
  <2> QED BY <1>6, <2>2 DEF GetBuilderFails, SessionTypeOK
<1>7. CASE GetBuilderOK \/ Connect \/ failWithDrain \/ FlushOK
  BY <1>7 DEF GetBuilderOK, Connect, failWithDrain, FlushOK, SessionTypeOK
<1>8. CASE BuildReturns
  <2>1. PICK r \in ExecuteBuild :
          Return(IF r = "result" THEN WithPayload ELSE StopWorkWithError)
    BY <1>8 DEF BuildReturns
  <2>2. (IF r = "result" THEN WithPayload ELSE StopWorkWithError)
          \in {<<"error">>, <<"last", "payload">>}
    <3>1. WithPayload = <<"last", "payload">>
      BY PairReply DEF WithPayload, StopWork, ReplyToken
    <3> QED BY <3>1 DEF StopWorkWithError
  <2>3. /\ pc' = "readop" /\ out' \in Seq(ReplyToken) /\ markers' \in Nat
        /\ daemon' = "off" /\ readErr' = "none"
    BY <2>1, <2>2, ReturnType
  <2> QED BY <1>8, <2>3 DEF BuildReturns, SessionTypeOK
<1>9. CASE NarUnavailable \/ StartDump
  <2>1. in' \in Seq(Token)
    BY <1>9, HeadToken DEF NarUnavailable, StartDump, Has, SessionTypeOK
  <2>2. CASE Return(<<"error">>) /\ UNCHANGED toRead
    <3>1. /\ pc' = "readop" /\ out' \in Seq(ReplyToken) /\ markers' \in Nat
          /\ daemon' = "off" /\ readErr' = "none"
      BY <2>2, ReturnType
    <3> QED BY <1>9, <2>1, <2>2, <3>1 DEF NarUnavailable, StartDump, SessionTypeOK
  <2>3. CASE /\ StartDump
             /\ pc' = "nar" /\ toRead' \in 0..MaxChunks /\ out' = Write(StopWork)
             /\ markers' = markers + 1 /\ UNCHANGED hostVars
    <3>1. <<"last">> \in Seq(ReplyToken)
      BY ReplyType DEF ReplyToken
    <3>2. out' \in Seq(ReplyToken)
      BY <2>3, <3>1, WriteType DEF StopWork
    <3>3. toRead' \in Nat
      BY <2>3, SessionAssumption
    <3> QED BY <2>1, <2>3, <3>2, <3>3 DEF StartDump, SessionTypeOK
  <2> QED BY <1>9, <2>2, <2>3 DEF NarUnavailable, StartDump, StopWorkWithError
<1>10. CASE NarChunk
  <2>1. <<"nar">> \in Seq(ReplyToken)
    BY ReplyType DEF ReplyToken
  <2>2. out' \in Seq(ReplyToken)
    BY <1>10, <2>1, WriteType DEF NarChunk
  <2> QED BY <1>10, <2>2 DEF NarChunk, SessionTypeOK
<1>11. CASE NarEnd
  <2>1. /\ pc' = "readop" /\ out' \in Seq(ReplyToken) /\ markers' \in Nat
        /\ daemon' = "off" /\ readErr' = "none"
    BY <1>11, ReturnType DEF NarEnd
  <2> QED BY <1>11, <2>1 DEF NarEnd, SessionTypeOK
<1>12. CASE NarFails \/ FlushFails
  <2>1. /\ pc' = "readop" /\ out' \in Seq(ReplyToken) /\ markers' \in Nat
        /\ daemon' = "off" /\ readErr' = "none"
    BY <1>12, ReturnType DEF NarFails, FlushFails
  <2> QED BY <1>12, <2>1 DEF NarFails, FlushFails, SessionTypeOK
<1>13. CASE CheckReader
  <2>1. /\ toRead' \in Nat /\ pc' \in {"drain", "flush", "len"}
        /\ reply' \in {"last", "error"} /\ readErr' \in {"none", "taken"}
        /\ cutShort' \in BOOLEAN
    <3>1. toRead \in Nat /\ reply \in {"last", "error"} /\ cutShort \in BOOLEAN
      BY DEF SessionTypeOK
    <3>2. CASE readErr = "err"
      BY <1>13, <3>1, <3>2 DEF CheckReader, failMidUpload
    <3>3. CASE readErr = "ok"
      BY <1>13, <3>1, <3>3 DEF CheckReader
    <3>4. CASE readErr = "none"
      BY <1>13, <3>1, <3>4 DEF CheckReader
    <3> QED BY <1>13, <3>2, <3>3, <3>4 DEF CheckReader
  <2> QED BY <1>13, <2>1 DEF CheckReader, SessionTypeOK
<1>14. CASE ForwardLen
  <2>1. in' \in Seq(Token) /\ Head(in).v \in Nat
    BY <1>14, HeadToken DEF ForwardLen, Has
  <2> QED BY <1>14, <2>1 DEF ForwardLen, failMidUpload, SessionTypeOK
<1>15. CASE ForwardData
  <2>1. in' \in Seq(Token)
    BY <1>15, HeadToken DEF ForwardData, Has
  <2>2. toRead - 1 \in Nat /\ fwd + 1 \in Nat
    BY <1>15 DEF ForwardData, SessionTypeOK
  <2> QED BY <1>15, <2>1, <2>2 DEF ForwardData, failMidUpload, SessionTypeOK
<1>16. CASE discardRawBytes
  <2>1. in' \in Seq(Token)
    BY <1>16, HeadToken DEF discardRawBytes, Has
  <2>2. toRead - 1 \in Nat
    BY <1>16 DEF discardRawBytes, SessionTypeOK
  <2> QED BY <1>16, <2>1, <2>2 DEF discardRawBytes, SessionTypeOK
<1>17. CASE discardFramedSourceBody
  <2>1. in' \in Seq(Token) /\ Head(in).v \in Nat
    BY <1>17, HeadToken DEF discardFramedSourceBody, Has
  <2>2. Return(<< reply >>) =>
          /\ pc' = "readop" /\ out' \in Seq(ReplyToken) /\ markers' \in Nat
          /\ daemon' = "off" /\ readErr' = "none"
    BY ReturnType DEF SessionTypeOK
  <2> QED BY <1>17, <2>1, <2>2 DEF discardFramedSourceBody, SessionTypeOK
<1>18. CASE WaitReturns \/ WaitTimesOut
  <2>1. Return(<<"last">>) \/ Return(<<"error">>)
    BY <1>18 DEF WaitReturns, WaitTimesOut, StopWork, StopWorkWithError
  <2>2. /\ pc' = "readop" /\ out' \in Seq(ReplyToken) /\ markers' \in Nat
        /\ daemon' = "off" /\ readErr' = "none"
    BY <2>1, ReturnType
  <2> QED BY <1>18, <2>2 DEF WaitReturns, WaitTimesOut, SessionTypeOK
<1> QED
  BY <1>1, <1>2, <1>3, <1>4, <1>5, <1>6, <1>7, <1>8, <1>9, <1>10, <1>11, <1>12,
     <1>13, <1>14, <1>15, <1>16, <1>17, <1>18 DEF Proxy, Upload

-----------------------------------------------------------------------------
(* The steps of the client *)

\* SendOp: the stream is empty unless an operation was refused.
LEMMA SendOpStep ==
  ASSUME SessionInv, NEW o \in env.ops, SendOp(o)
  PROVE  HandlerInv' /\ StreamInv' /\ SourceInv' /\ ReplyInv' /\ RefusedInv'
<1> USE DEF SessionInv, Tracked, Fresh, Answered, SourcePc, AfterPc
<1>1. o \in AllOps /\ in' = in \o OpTokens(o)
  BY DEF SendOp, OpTokens, SessionTypeOK, Environment
<1>2. /\ OpTokens(o) \in Seq(Token) /\ OpTokens(o) # <<>>
      /\ Head(OpTokens(o)) = Tok("op", o)
      /\ Grammar(OpTokens(o)) /\ Open(OpTokens(o)) /\ Len(OpTokens(o)) = 2
  BY <1>1, AddOp
<1>3. in' # <<>> /\ Head(in') = IF in = <<>> THEN Tok("op", o) ELSE Head(in)
  BY <1>1, <1>2, AddTokens DEF SessionTypeOK
<1>4. /\ client = "idle" /\ pc' = pc /\ op' = op /\ cop' = o /\ out = <<>>
      /\ out' = out /\ toRead' = toRead
      /\ client' = IF o \in FramedOps THEN "stream" ELSE "marker"
  BY DEF SendOp, proxyVars
<1>5. CASE Tracked
  <2>1. pc = "readop" /\ in = <<>> /\ out = <<>> /\ op \notin RefusedOps
    BY <1>4, <1>5 DEF ReplyInv
  <2>2. in' = OpTokens(o)
    BY <1>1, <1>2, <2>1
  <2>3. HandlerInv'
    BY <2>1, <1>4 DEF HandlerInv
  <2>4. StreamInv'
    BY <2>1, <2>2, <1>2, <1>3, <1>4 DEF StreamInv, Tok
  <2>5. SourceInv'
    BY <2>1, <2>2, <1>2, <1>3, <1>4 DEF SourceInv
  <2>6. ReplyInv'
    BY <2>1, <1>3, <1>4 DEF ReplyInv
  <2>7. RefusedInv'
    BY <2>1, <1>4 DEF RefusedInv
  <2> QED BY <2>3, <2>4, <2>5, <2>6, <2>7
<1>6. CASE ~Tracked
  <2>1. pc \in {"readop", "closed", "garbled"} /\ op \in RefusedOps
    BY <1>6 DEF RefusedInv
  <2>2. pc # "closed" /\ (pc = "readop" => in # <<>>)
    BY <2>1, <1>4 DEF RefusedInv, HandlerInv
  <2>3. ~Tracked'
    BY <1>4, <1>6
  <2>4. HandlerInv'
    BY <2>1, <2>2, <1>4 DEF HandlerInv
  <2>5. RefusedInv'
    BY <2>1, <2>2, <1>3, <1>4 DEF RefusedInv
  <2> QED BY <2>3, <2>4, <2>5 DEF StreamInv, SourceInv, ReplyInv
<1> QED BY <1>5, <1>6

\* SendFrame: the source goes on, or ends.
LEMMA SendFrameStep ==
  ASSUME SessionInv, SendFrame
  PROVE  HandlerInv' /\ StreamInv' /\ SourceInv' /\ ReplyInv' /\ RefusedInv'
<1> USE DEF SessionInv, Tracked, Fresh, Answered, SourcePc, AfterPc
<1>1. PICK n \in Nat :
        /\ in' = in \o Frame(n)
        /\ n > 0 => client' = "stream"
        /\ n = 0 => client' = "marker"
  <2>1. CASE frames = 0
    <3>1. in' = in \o Frame(0) /\ client' = "marker"
      BY <2>1, SendsEnd DEF SendFrame, SessionTypeOK
    <3> QED BY <3>1
  <2>2. CASE frames # 0
    <3>1. PICK n \in 1..MaxChunks :
            /\ in' = in \o <<Tok("len", n)>> \o [i \in 1..n |-> Tok("data", 0)]
            /\ UNCHANGED client
      BY <2>2 DEF SendFrame
    <3>2. n \in Nat /\ n > 0
      BY SessionAssumption
    <3>3. in' = in \o Frame(n)
      BY <3>1, <3>2, SendsFrame DEF SessionTypeOK
    <3>4. client' = "stream"
      BY <3>1 DEF SendFrame
    <3> QED BY <3>2, <3>3, <3>4
  <2> QED BY <2>1, <2>2
<1>2. Frame(n) \in Seq(Token) /\ Frame(n) # <<>> /\ Head(Frame(n)).k = "len"
  <2>1. Tok("len", n).k = "len"
    BY DEF Tok
  <2> QED BY <2>1, FrameTokens
<1>3. /\ in' # <<>>
      /\ Head(in') = IF in = <<>> THEN Head(Frame(n)) ELSE Head(in)
  BY <1>1, <1>2, AddTokens DEF SessionTypeOK
<1>4. /\ client = "stream" /\ pc' = pc /\ op' = op /\ cop' = cop
      /\ out' = out /\ toRead' = toRead
  BY DEF SendFrame, proxyVars
<1>5. CASE Tracked
  <2>1. /\ cop \in FramedOps /\ Open(in) /\ out = <<>> /\ Grammar(in)
        /\ Fresh \/ pc = "args" \/ pc \in SourcePc
    BY <1>4, <1>5 DEF ReplyInv, SourceInv, StreamInv
  <2>2. /\ Grammar(in') /\ (n > 0 => Open(in')) /\ (n = 0 => Ends(in'))
        /\ Leads(in, toRead) => Leads(in', toRead')
    BY <1>1, <1>4, <2>1, AddFrame DEF SessionTypeOK
  <2>3. HandlerInv'
    BY <2>1, <1>4 DEF HandlerInv
  <2>4. StreamInv'
    BY <2>1, <2>2, <1>2, <1>3, <1>4, <1>5 DEF StreamInv
  <2>5. SourceInv'
    BY <2>1, <2>2, <1>1, <1>3, <1>4 DEF SourceInv
  <2>6. ReplyInv'
    BY <2>1, <1>1, <1>3, <1>4 DEF ReplyInv
  <2>7. RefusedInv'
    BY <2>1, <1>1, <1>3, <1>4, <1>5 DEF RefusedInv, HandlerInv
  <2> QED BY <2>3, <2>4, <2>5, <2>6, <2>7
<1>6. CASE ~Tracked
  <2>1. pc \in {"readop", "closed", "garbled"} /\ op \in RefusedOps
    BY <1>6 DEF RefusedInv
  <2>2. pc # "closed"
    BY <1>4 DEF HandlerInv
  <2>3. ~Tracked'
    BY <1>4, <1>6
  <2>4. HandlerInv'
    BY <2>1, <2>2, <1>4 DEF HandlerInv
  <2>5. RefusedInv'
    BY <2>1, <2>2, <1>2, <1>3, <1>4 DEF RefusedInv
  <2> QED BY <2>3, <2>4, <2>5 DEF StreamInv, SourceInv, ReplyInv
<1> QED BY <1>5, <1>6

\* ReadReply: the client takes the next token of the reply.
LEMMA ReadReplyStep ==
  ASSUME SessionInv, ReadReply
  PROVE  HandlerInv' /\ StreamInv' /\ SourceInv' /\ ReplyInv' /\ RefusedInv'
<1> USE DEF SessionInv, Tracked, Fresh, Answered, SourcePc, AfterPc
<1>1. /\ out # <<>> /\ out' = Tail(out) /\ in' = in /\ pc' = pc /\ op' = op
      /\ cop' = cop /\ toRead' = toRead
      /\ client \in {"marker", "payload", "nar"}
      /\ client' \in {"idle", "payload", "nar"}
  BY DEF ReadReply, proxyVars, AfterMarker
<1>2. /\ NarOpen(out) => NarOpen(Tail(out)) /\ Head(out) = "nar"
      /\ NarRest(out) => NarRest(Tail(out))
      /\ NarRest(out) /\ Head(out) = "narEnd" => Tail(out) = <<>>
      /\ Len(out) = 1 => Tail(out) = <<>> /\ Head(out) = out[1]
      /\ Len(out) = 2 => Len(Tail(out)) = 1 /\ Tail(out)[1] = out[2]
  BY <1>1, TakeReply DEF SessionTypeOK
<1>3. HandlerInv'
  BY <1>1 DEF HandlerInv
<1>4. StreamInv'
  BY <1>1 DEF StreamInv
<1>5. SourceInv'
  BY <1>1 DEF SourceInv
<1>6. RefusedInv'
  BY <1>1 DEF RefusedInv
<1>7. ASSUME Tracked PROVE ReplyInv'
  <2>4. CASE client = "payload"
    BY <2>4, <1>1, <1>2, <1>7 DEF ReadReply, ReplyInv
  <2>5. CASE client = "nar"
    <3>1. client' = IF Head(out) = "narEnd" THEN "idle" ELSE "nar"
      BY <2>5 DEF ReadReply
    <3> QED BY <3>1, <2>5, <1>1, <1>2, <1>7 DEF ReplyInv
  <2>6. CASE client = "marker"
    <3>1. client' = AfterMarker(Head(out))
      BY <2>6 DEF ReadReply
    <3>2. CASE pc = "nar"
      <4>1. Head(out) = "last" /\ NarOpen(Tail(out)) /\ cop = "NarFromPath"
        BY <2>6, <3>2, <1>7 DEF ReplyInv, HandlerInv
      <4>2. client' = "nar"
        BY <3>1, <4>1 DEF AfterMarker, PayloadOps
      <4> QED BY <3>2, <4>1, <4>2, <1>1 DEF ReplyInv
    <3>3. CASE pc # "nar"
      <4>1. Answered /\ FullReply(out)
        BY <2>6, <3>3, <1>1, <1>7 DEF ReplyInv
      <4>2. CASE out = <<"error">>
        <5>1. Head(out) = "error" /\ Tail(out) = <<>>
          BY <4>2
        <5> QED BY <5>1, <4>1, <3>1, <1>1 DEF AfterMarker, ReplyInv
      <4>3. CASE Head(out) = "last" /\ cop \in PayloadOps
        <5>1. Len(out) = 2 /\ PayloadToken(out[2])
          <6>1. out # <<"error">>
            BY <4>3
          <6> QED BY <6>1, <4>1, <4>3, <1>1 DEF FullReply, PayloadOps
        <5>2. Len(Tail(out)) = 1 /\ Tail(out)[1] = out[2]
          BY <5>1, <1>2
        <5>3. client' = "payload"
          BY <3>1, <4>3 DEF AfterMarker
        <5> QED BY <5>1, <5>2, <5>3, <4>1, <1>1 DEF ReplyInv
      <4>4. CASE Head(out) = "last" /\ cop = "NarFromPath"
        <5>1. NarRest(Tail(out))
          <6>1. out # <<"error">> /\ cop \notin PayloadOps
            BY <4>4 DEF PayloadOps
          <6> QED BY <6>1, <4>1, <4>4, <1>1 DEF FullReply
        <5>2. client' = "nar"
          BY <3>1, <4>4 DEF AfterMarker, PayloadOps
        <5> QED BY <5>1, <5>2, <4>1, <1>1 DEF ReplyInv
      <4>5. CASE Head(out) = "last" /\ cop \notin PayloadOps \union {"NarFromPath"}
        <5>1. Len(out) = 1
          <6>1. out # <<"error">>
            BY <4>5
          <6> QED BY <6>1, <4>1, <4>5, <1>1 DEF FullReply
        <5>2. client' = "idle"
          BY <3>1, <4>5 DEF AfterMarker
        <5> QED BY <5>1, <5>2, <4>1, <1>1, <1>2 DEF ReplyInv
      <4>6. out = <<"error">> \/ Head(out) = "last"
        BY <4>1, <1>1 DEF FullReply
      <4> QED BY <4>2, <4>3, <4>4, <4>5, <4>6
    <3> QED BY <3>2, <3>3
  <2> QED BY <2>4, <2>5, <2>6, <1>1
<1>8. ~Tracked => ReplyInv'
  BY <1>1 DEF ReplyInv
<1> QED BY <1>3, <1>4, <1>5, <1>6, <1>7, <1>8

\* Disconnect: what the proxy has sent is lost, what the client has sent stays.
LEMMA DisconnectStep ==
  ASSUME SessionInv, Disconnect
  PROVE  HandlerInv' /\ StreamInv' /\ SourceInv' /\ ReplyInv' /\ RefusedInv'
<1>1. /\ client' = "gone" /\ out' = <<>> /\ in' = in /\ pc' = pc /\ op' = op
      /\ cop' = cop /\ toRead' = toRead
  BY DEF Disconnect, proxyVars
<1> QED BY <1>1 DEF SessionInv, HandlerInv, StreamInv, SourceInv, ReplyInv,
                    RefusedInv, Tracked, Fresh, Answered, SourcePc, AfterPc

-----------------------------------------------------------------------------
(* The steps of the proxy *)

\* Taking a token makes a stream shorter by one.
LEMMA TakeLast ==
  ASSUME NEW s \in Seq(Token), s # <<>>
  PROVE  Len(Tail(s)) = Len(s) - 1 /\ Len(s) \in Nat /\ (Len(s) = 1 => Tail(s) = <<>>)
<1> DEFINE t == Tail(s)
<1>1. t \in Seq(Token) /\ Len(t) = Len(s) - 1 /\ Len(s) \in Nat
  OBVIOUS
<1> HIDE DEF t
<1>2. Len(t) = 0 => t = <<>>
  BY <1>1
<1> QED BY <1>1, <1>2 DEF t

\* The stream after the proxy has taken a token from it.
LEMMA TakeStep ==
  ASSUME SessionInv, Tracked, in # <<>>, in' = Tail(in)
  PROVE  /\ Grammar(in') /\ Head(in) \in Token
         /\ in' # <<>> => Head(in').k # "op"
         /\ Head(in).k = "op" => in' # <<>> /\ Head(in').k = "args"
         /\ Head(in).k = "args" /\ in' # <<>> => Head(in').k = "len"
         /\ Head(in).k = "len" /\ Head(in).v = 0 => in' = <<>>
         /\ Head(in).k = "len" /\ Head(in).v > 0 => Leads(in', Head(in).v)
         /\ Open(in) => Open(in') /\ ~(Head(in).k = "len" /\ Head(in).v = 0)
         /\ Ends(in) /\ ~(Head(in).k = "len" /\ Head(in).v = 0) => Ends(in')
         /\ Len(in') = Len(in) - 1 /\ Len(in) \in Nat
         /\ Len(in) = 1 => in' = <<>>
<1>1. /\ Len(Tail(in)) = Len(in) - 1 /\ Len(in) \in Nat
      /\ Len(in) = 1 => Tail(in) = <<>>
  BY TakeLast DEF SessionInv, SessionTypeOK
<1> QED BY <1>1, TakeToken, TakeEnds DEF SessionInv, StreamInv, SessionTypeOK

\* An empty stream has nothing wrong with it.
LEMMA EmptyStream == Grammar(<<>>)
BY DEF Grammar

\* A handler of an operation that was taken completely returns with the reply
\* s to a client that waits for it.
LEMMA ReturnStep ==
  ASSUME SessionInv, NEW s \in Seq(ReplyToken), Return(s), FullReply(s),
         op \notin RefusedOps, out = <<>>, client \in {"marker", "gone"},
         in' = <<>>, op' = op, cop' = cop, client' = client
  PROVE  HandlerInv' /\ StreamInv' /\ SourceInv' /\ ReplyInv' /\ RefusedInv'
<1> USE DEF Tracked, Fresh, Answered, SourcePc, AfterPc
<1>1. pc' = "readop" /\ out' = IF client = "gone" THEN <<>> ELSE s
  <2>1. <<>> \o s = s
    OBVIOUS
  <2> QED BY <2>1 DEF Return, Write
<1>2. FullReply(s)'
  BY DEF FullReply
<1>3. client' = "marker" => FullReply(out)'
  <2>1. client' = "marker" => out' = s
    BY <1>1
  <2> QED BY <2>1, <1>2 DEF FullReply
<1>4. HandlerInv'
  BY <1>1 DEF HandlerInv
<1>5. StreamInv'
  BY <1>1, EmptyStream DEF StreamInv
<1>6. SourceInv'
  BY <1>1 DEF SourceInv
<1>7. ReplyInv'
  BY <1>1, <1>3 DEF ReplyInv
<1>8. RefusedInv'
  BY DEF RefusedInv
<1> QED BY <1>4, <1>5, <1>6, <1>7, <1>8

\* Misread: only after a refused operation.
LEMMA MisreadStep ==
  ASSUME SessionInv, Misread
  PROVE  ~Tracked /\ HandlerInv' /\ StreamInv' /\ SourceInv' /\ ReplyInv' /\ RefusedInv'
<1> USE DEF SessionInv, Tracked, Fresh, Answered, SourcePc, AfterPc
<1>1. /\ in # <<>> /\ pc' = "garbled" /\ op' = op /\ in' = in /\ client' = client
      /\ pc \in {"readop", "args", "len", "data", "rest", "drain"}
      /\ Head(in).k # Expected[pc]
  BY DEF Misread, clientVars, Expected
<1>2. ~Tracked
  <2> SUFFICES ASSUME Tracked PROVE FALSE
    OBVIOUS
  <2>1. CASE pc \in {"data", "rest"}
    <3>1. Leads(in, toRead) /\ toRead > 0 /\ toRead \in Nat /\ in \in Seq(Token)
      BY <2>1 DEF StreamInv, HandlerInv, SessionTypeOK
    <3>2. Head(in).k = "data"
      BY <3>1, TakeChunk
    <3> QED BY <1>1, <2>1, <3>2 DEF Expected
  <2>2. CASE pc \in {"readop", "args", "len", "drain"}
    BY <1>1, <2>2 DEF StreamInv, Expected
  <2> QED BY <1>1, <2>1, <2>2
<1>3. op' \in RefusedOps /\ ~Tracked'
  BY <1>1, <1>2
<1>4. HandlerInv'
  BY <1>1, <1>3 DEF HandlerInv
<1>5. RefusedInv'
  BY <1>1 DEF RefusedInv
<1> QED BY <1>2, <1>3, <1>4, <1>5 DEF StreamInv, SourceInv, ReplyInv

\* ReadFails: the client is gone and the stream is empty.
LEMMA ReadFailsStep ==
  ASSUME SessionInv, ReadFails
  PROVE  HandlerInv' /\ StreamInv' /\ SourceInv' /\ ReplyInv' /\ RefusedInv'
<1> USE DEF SessionInv, Tracked, Fresh, Answered, SourcePc, AfterPc
<1>1. /\ in' = <<>> /\ op' = op /\ client' = "gone" /\ out' = out /\ cop' = cop
      /\ client = "gone" /\ in = <<>> /\ pc' \in {"closed", "readop"}
  BY DEF ReadFails, clientVars
<1>2. HandlerInv'
  BY <1>1 DEF HandlerInv
<1>3. StreamInv'
  BY <1>1, EmptyStream DEF StreamInv
<1>4. SourceInv'
  BY <1>1 DEF SourceInv
<1>5. ReplyInv'
  BY <1>1 DEF ReplyInv
<1>6. RefusedInv'
  BY <1>1 DEF RefusedInv
<1> QED BY <1>2, <1>3, <1>4, <1>5, <1>6

\* ReadOp: the operation that the client has sent last.
LEMMA ReadOpStep ==
  ASSUME SessionInv, ReadOp
  PROVE  Tracked /\ HandlerInv' /\ StreamInv' /\ SourceInv' /\ ReplyInv' /\ RefusedInv'
<1> USE DEF SessionInv, Tracked, Fresh, Answered, SourcePc, AfterPc
<1>1. /\ pc = "readop" /\ in # <<>> /\ Head(in).k = "op" /\ in' = Tail(in)
      /\ op' = Head(in).v /\ client' = client /\ cop' = cop
  BY DEF ReadOp, Has, clientVars
<1>2. Tracked
  BY <1>1 DEF RefusedInv
<1>3. op' = cop /\ out = <<>> /\ client \in {"stream", "marker", "gone"}
  BY <1>1, <1>2 DEF StreamInv, ReplyInv, SessionTypeOK
<1>4. /\ Grammar(in') /\ in' # <<>> /\ Head(in').k = "args"
      /\ Open(in) => Open(in') /\ ~(Head(in).k = "len" /\ Head(in).v = 0)
      /\ Ends(in) /\ ~(Head(in).k = "len" /\ Head(in).v = 0) => Ends(in')
      /\ Len(in) = 2 => Len(in') = 1
  BY <1>1, <1>2, TakeStep
<1>5. CASE op' = "Unhandled"
  <2>1. pc' = "readop" /\ op' \in RefusedOps
    BY <1>1, <1>5 DEF ReadOp, RefusedOps
  <2>2. HandlerInv'
    BY <2>1 DEF HandlerInv
  <2>3. RefusedInv'
    BY <2>1, <1>4 DEF RefusedInv
  <2> QED BY <2>1, <2>2, <2>3, <1>2 DEF StreamInv, SourceInv, ReplyInv
<1>6. CASE op' # "Unhandled"
  <2>1. pc' = "args" /\ out' = out
    BY <1>1, <1>6 DEF ReadOp
  <2>2. HandlerInv'
    BY <2>1, <1>1, <1>3, <1>6 DEF HandlerInv
  <2>3. StreamInv'
    BY <2>1, <1>4 DEF StreamInv
  <2>4. SourceInv'
    BY <2>1, <1>1, <1>2, <1>4 DEF SourceInv
  <2>5. ReplyInv'
    BY <2>1, <1>1, <1>3 DEF ReplyInv
  <2>6. RefusedInv'
    BY <2>1 DEF RefusedInv
  <2> QED BY <2>2, <2>3, <2>4, <2>5, <2>6, <1>2
<1> QED BY <1>5, <1>6

\* What is left when the arguments are taken: nothing, unless a source follows.
LEMMA TakeArgs ==
  ASSUME SessionInv, pc = "args", Has("args"), in' = Tail(in)
  PROVE  /\ in # <<>> /\ Grammar(in') /\ op = cop /\ out = <<>>
         /\ in' # <<>> => Head(in').k = "len"
         /\ client \in {"stream", "marker", "gone"}
         /\ client = "stream" => op \in FramedOps /\ Open(in')
         /\ client = "marker" /\ op \in FramedOps => Ends(in')
         /\ in' # <<>> => Head(in').k # "op"
         /\ op \notin FramedOps => in' = <<>>
<1> USE DEF SessionInv, Tracked, Fresh, Answered, SourcePc, AfterPc
<1>1. in # <<>> /\ Head(in).k = "args" /\ Tracked
  BY DEF Has
<1>2. /\ Grammar(in') /\ (in' # <<>> => Head(in').k # "op")
      /\ in' # <<>> => Head(in').k = "len"
      /\ Open(in) => Open(in')
      /\ Ends(in) => Ends(in')
      /\ Len(in) = 1 => in' = <<>>
  BY <1>1, TakeStep
<1>3. op = cop
  BY DEF HandlerInv
<1>4. out = <<>> /\ client \in {"stream", "marker", "gone"}
  BY <1>1 DEF ReplyInv, SessionTypeOK
<1>5. /\ client = "stream" => op \in FramedOps /\ Open(in)
      /\ client = "marker" /\ op \in FramedOps => Ends(in)
      /\ op \notin FramedOps => Len(in) = 1
  BY <1>1, <1>3 DEF SourceInv
<1> QED BY <1>1, <1>2, <1>3, <1>4, <1>5

\* HandlePlain: the operation is answered, or AddToStore is refused.
LEMMA HandlePlainStep ==
  ASSUME SessionInv, HandlePlain
  PROVE  HandlerInv' /\ StreamInv' /\ SourceInv' /\ ReplyInv' /\ RefusedInv'
<1> USE DEF SessionInv, Tracked, Fresh, Answered, SourcePc, AfterPc
<1>1. /\ pc = "args" /\ op \in PlainOps /\ Has("args") /\ in' = Tail(in)
      /\ op' = op /\ cop' = cop /\ client' = client
  BY DEF HandlePlain, clientVars
<1>2. PICK s \in PlainReplies(op) : Return(s)
  BY DEF HandlePlain
<1>3. /\ in # <<>> /\ op = cop /\ out = <<>>
      /\ client \in {"stream", "marker", "gone"}
      /\ client = "stream" => op \in FramedOps
      /\ client = "marker" /\ op \in FramedOps => Ends(in')
      /\ in' # <<>> => Head(in').k # "op"
      /\ op \notin FramedOps => in' = <<>>
  BY <1>1, TakeArgs
<1>4. CASE op = "AddToStore"
  <2>1. pc' = "readop" /\ op' \in RefusedOps /\ op \in FramedOps
    BY <1>1, <1>2, <1>4 DEF Return, RefusedOps, FramedOps
  <2>2. HandlerInv'
    BY <2>1 DEF HandlerInv
  <2>3. RefusedInv'
    BY <2>1, <1>1, <1>3 DEF RefusedInv, Ends
  <2> QED BY <2>1, <2>2, <2>3 DEF StreamInv, SourceInv, ReplyInv
<1>5. CASE op # "AddToStore"
  <2>1. op \notin RefusedOps /\ op \notin FramedOps /\ op # "NarFromPath"
    BY <1>1, <1>5 DEF PlainOps, AllOps, RefusedOps, FramedOps
  <2>2. \/ s = <<"error">>
        \/ s = <<"last">> /\ op \notin PayloadOps
        \/ /\ op \in PayloadOps
           /\ s = <<"last", "payload">> \/ (s = <<"last", "error">> /\ Minor < 17)
    BY <1>1, PlainReply DEF StopWork, StopWorkWithError
  <2>3. s \in Seq(ReplyToken)
    BY <2>2, ReplyType DEF ReplyToken
  <2>4. FullReply(s)
    <3>1. CASE s = <<"error">>
      BY <3>1 DEF FullReply
    <3>2. CASE s = <<"last">> /\ op \notin PayloadOps
      <4>1. s # <<>> /\ Head(s) = "last" /\ Len(s) = 1
        BY <3>2
      <4> QED BY <4>1, <3>2, <2>1, <1>3 DEF FullReply
    <3>3. CASE /\ op \in PayloadOps
               /\ s = <<"last", "payload">> \/ (s = <<"last", "error">> /\ Minor < 17)
      <4>1. s # <<>> /\ Head(s) = "last" /\ Len(s) = 2 /\ PayloadToken(s[2])
        BY <3>3 DEF PayloadToken
      <4> QED BY <4>1, <3>3, <2>1, <1>3 DEF FullReply
    <3> QED BY <2>2, <3>1, <3>2, <3>3
  <2>5. client \in {"marker", "gone"}
    BY <2>1, <1>3
  <2> QED BY <1>1, <1>2, <1>3, <2>1, <2>3, <2>4, <2>5, ReturnStep
<1> QED BY <1>4, <1>5

\* What holds while a handler that has all it reads is at work.
LEMMA AtWork ==
  ASSUME SessionInv, pc \in AfterPc
  PROVE  /\ op \notin RefusedOps /\ in = <<>> /\ out = <<>> /\ op = cop
         /\ client \in {"marker", "gone"}
         /\ pc \in {"get", "build"} => op = "BuildDerivation"
         /\ pc = "ask" => op \in StoreQueries \union {"NarFromPath"}
         /\ pc \in {"flush", "wait"} => op = "AddMultipleToStore"
<1> USE DEF SessionInv, Tracked, Fresh, Answered, SourcePc, AfterPc
<1>1. /\ op = cop
      /\ pc \in {"get", "build"} => op = "BuildDerivation"
      /\ pc = "ask" => op \in StoreQueries \union {"NarFromPath"}
      /\ pc \in {"flush", "wait"} => op = "AddMultipleToStore"
  BY DEF HandlerInv
<1>2. op \notin RefusedOps
  BY <1>1 DEF RefusedOps, StoreQueries
<1>3. in = <<>>
  BY <1>2 DEF StreamInv
<1>4. client \in {"marker", "gone"} /\ out = <<>>
  BY <1>2 DEF ReplyInv, SourceInv, SessionTypeOK
<1> QED BY <1>1, <1>2, <1>3, <1>4

\* The replies that a handler gives when it is done.
LEMMA ReturnReply ==
  ASSUME SessionInv, pc \in AfterPc, NEW s, Return(s),
         \/ s \in {<<>>, <<"error">>}
         \/ s = <<"last">> /\ op = "AddMultipleToStore"
         \/ s = <<"last", "payload">> /\ op \in StoreQueries \union {"BuildDerivation"}
         \/ s = <<"last", "error">> /\ Minor < 17 /\ op \in StoreQueries,
         in' = in, op' = op, cop' = cop, client' = client
  PROVE  HandlerInv' /\ StreamInv' /\ SourceInv' /\ ReplyInv' /\ RefusedInv'
<1>1. /\ op \notin RefusedOps /\ in = <<>> /\ out = <<>> /\ op = cop
      /\ client \in {"marker", "gone"}
  BY AtWork
<1>2. s \in Seq(ReplyToken)
  BY ReplyType DEF ReplyToken
<1>3. FullReply(s)
  <2>1. CASE s \in {<<>>, <<"error">>}
    BY <2>1 DEF FullReply
  <2>2. CASE s = <<"last">> /\ op = "AddMultipleToStore"
    <3>1. s # <<>> /\ Head(s) = "last" /\ Len(s) = 1
      BY <2>2
    <3>2. cop \notin PayloadOps /\ cop # "NarFromPath"
      BY <2>2, <1>1 DEF PayloadOps
    <3> QED BY <3>1, <3>2 DEF FullReply
  <2>3. CASE \/ s = <<"last", "payload">> /\ op \in StoreQueries \union {"BuildDerivation"}
             \/ s = <<"last", "error">> /\ Minor < 17 /\ op \in StoreQueries
    <3>1. s # <<>> /\ Head(s) = "last" /\ Len(s) = 2 /\ PayloadToken(s[2])
      BY <2>3 DEF PayloadToken
    <3>2. op \in PayloadOps
      BY <2>3 DEF StoreQueries, PayloadOps
    <3>3. cop \in PayloadOps /\ cop # "NarFromPath"
      BY <3>2, <1>1 DEF PayloadOps
    <3> QED BY <3>1, <3>3 DEF FullReply
  <2> QED BY <2>1, <2>2, <2>3
<1> QED BY <1>1, <1>2, <1>3, ReturnStep

\* handleBuildDerivation.
LEMMA BuildStep ==
  ASSUME SessionInv,
         ReadBuildArgs \/ GetBuilderFails \/ GetBuilderOK \/ BuildReturns
  PROVE  HandlerInv' /\ StreamInv' /\ SourceInv' /\ ReplyInv' /\ RefusedInv'
<1> USE DEF SessionInv, Tracked, Fresh, Answered, SourcePc, AfterPc
<1>1. CASE ReadBuildArgs
  <2>1. /\ pc = "args" /\ op = "BuildDerivation" /\ Has("args") /\ in' = Tail(in)
        /\ pc' = "get" /\ op' = op /\ cop' = cop /\ client' = client /\ out' = out
    BY <1>1 DEF ReadBuildArgs, clientVars
  <2>2. op \notin FramedOps /\ op \notin RefusedOps
    BY <2>1 DEF FramedOps, RefusedOps
  <2>3. /\ in' = <<>> /\ op = cop /\ out = <<>> /\ client \in {"marker", "gone"}
    BY <2>1, <2>2, TakeArgs
  <2>4. HandlerInv'
    BY <2>1, <2>3 DEF HandlerInv
  <2>5. StreamInv'
    BY <2>1, <2>3, EmptyStream DEF StreamInv
  <2>6. SourceInv'
    BY <2>1, <2>3 DEF SourceInv
  <2>7. ReplyInv'
    BY <2>1, <2>3 DEF ReplyInv
  <2>8. RefusedInv'
    BY <2>1, <2>2 DEF RefusedInv
  <2> QED BY <2>4, <2>5, <2>6, <2>7, <2>8
<1>2. CASE GetBuilderFails
  <2>1. /\ pc = "get" /\ Return(<<"error">>)
        /\ in' = in /\ op' = op /\ cop' = cop /\ client' = client
    BY <1>2 DEF GetBuilderFails, StopWorkWithError, clientVars
  <2> QED BY <2>1, ReturnReply
<1>3. CASE GetBuilderOK
  <2>1. /\ pc = "get" /\ pc' = "build" /\ in' = in /\ op' = op /\ cop' = cop
        /\ client' = client /\ out' = out
    BY <1>3 DEF GetBuilderOK, clientVars
  <2> QED BY <2>1 DEF HandlerInv, StreamInv, SourceInv, ReplyInv, RefusedInv
<1>4. CASE BuildReturns
  <2>1. PICK r \in ExecuteBuild :
          Return(IF r = "result" THEN WithPayload ELSE StopWorkWithError)
    BY <1>4 DEF BuildReturns
  <2>2. WithPayload = <<"last", "payload">>
    BY PairReply DEF WithPayload, StopWork, ReplyToken
  <2>3. Return(<<"last", "payload">>) \/ Return(<<"error">>)
    BY <2>1, <2>2 DEF StopWorkWithError
  <2>4. /\ pc = "build" /\ in' = in /\ op' = op /\ cop' = cop /\ client' = client
    BY <1>4 DEF BuildReturns, clientVars
  <2>5. op = "BuildDerivation"
    BY <2>4 DEF HandlerInv
  <2> QED BY <2>3, <2>4, <2>5, ReturnReply
<1> QED BY <1>1, <1>2, <1>3, <1>4

\* The queries of the store host.
LEMMA QueryStep ==
  ASSUME SessionInv, ReadQueryArgs \/ AnswerQuery
  PROVE  HandlerInv' /\ StreamInv' /\ SourceInv' /\ ReplyInv' /\ RefusedInv'
<1> USE DEF SessionInv, Tracked, Fresh, Answered, SourcePc, AfterPc
<1>1. CASE ReadQueryArgs
  <2>1. /\ pc = "args" /\ Has("args") /\ in' = Tail(in)
        /\ op \in StoreQueries \union {"NarFromPath"}
        /\ pc' = "ask" /\ op' = op /\ cop' = cop /\ client' = client /\ out' = out
    BY <1>1 DEF ReadQueryArgs, Asks, clientVars
  <2>2. op \notin FramedOps /\ op \notin RefusedOps
    BY <2>1 DEF StoreQueries, FramedOps, RefusedOps
  <2>3. /\ in' = <<>> /\ op = cop /\ out = <<>> /\ client \in {"marker", "gone"}
    BY <2>1, <2>2, TakeArgs
  <2>4. HandlerInv'
    BY <2>1, <2>3 DEF HandlerInv
  <2>5. StreamInv'
    BY <2>1, <2>3, EmptyStream DEF StreamInv
  <2>6. SourceInv'
    BY <2>1, <2>2, <2>3 DEF SourceInv
  <2>7. ReplyInv'
    BY <2>1, <2>3 DEF ReplyInv
  <2>8. RefusedInv'
    BY <2>1, <2>2 DEF RefusedInv
  <2> QED BY <2>4, <2>5, <2>6, <2>7, <2>8
<1>2. CASE AnswerQuery
  <2>1. PICK s \in PlainReplies(op) : Return(s)
    BY <1>2 DEF AnswerQuery
  <2>2. /\ pc = "ask" /\ op \in StoreQueries /\ op \in PlainOps /\ op \in PayloadOps
        /\ in' = in /\ op' = op /\ cop' = cop /\ client' = client
    BY <1>2, QueriesArePlain DEF AnswerQuery, clientVars, StoreQueries, PayloadOps
  <2>3. \/ s = <<"error">> \/ s = <<"last", "payload">>
        \/ s = <<"last", "error">> /\ Minor < 17
    BY <2>2, PlainReply DEF StopWorkWithError
  <2> QED BY <2>1, <2>2, <2>3, ReturnReply
<1> QED BY <1>1, <1>2

\* What is added to a NAR that is under way.
LEMMA AddNar ==
  ASSUME NEW s \in Seq(ReplyToken), NarOpen(s)
  PROVE  /\ NarRest(s)
         /\ NarOpen(s \o <<"nar">>)
         /\ NarRest(s \o <<"narEnd">>)
         /\ NarRest(s \o <<>>)
<1>1. NarRest(s)
  BY DEF NarOpen, NarRest
<1>2. ASSUME NEW r \in {"nar", "narEnd"}
      PROVE  /\ Len(s \o <<r>>) = Len(s) + 1 /\ (s \o <<r>>)[Len(s) + 1] = r
             /\ \A i \in 1..Len(s) : (s \o <<r>>)[i] = "nar"
  <2> DEFINE t == <<r>>
  <2>1. t \in Seq(ReplyToken) /\ Len(t) = 1 /\ t[1] = r
    BY DEF ReplyToken
  <2> HIDE DEF t
  <2>2. /\ Len(s \o t) = Len(s) + Len(t)
        /\ \A i \in 1..Len(s) : (s \o t)[i] = s[i]
        /\ \A i \in 1..Len(t) : (s \o t)[Len(s) + i] = t[i]
    BY <2>1, JoinReplies
  <2>3. 1 \in 1..Len(t)
    BY <2>1
  <2>4. /\ Len(s \o t) = Len(s) + 1 /\ (s \o t)[Len(s) + 1] = r
        /\ \A i \in 1..Len(s) : (s \o t)[i] = "nar"
    BY <2>1, <2>2, <2>3 DEF NarOpen
  <2> QED BY <2>4 DEF t
<1>3. Len(s) \in Nat
  OBVIOUS
<1>4. NarOpen(s \o <<"nar">>)
  <2> DEFINE t == s \o <<"nar">>
  <2>1. /\ Len(t) = Len(s) + 1 /\ t[Len(s) + 1] = "nar"
        /\ \A i \in 1..Len(s) : t[i] = "nar"
    BY <1>2
  <2> HIDE DEF t
  <2>2. NarOpen(t)
    BY <2>1, <1>3 DEF NarOpen
  <2> QED BY <2>2 DEF t
<1>5. NarRest(s \o <<"narEnd">>)
  <2> DEFINE t == s \o <<"narEnd">>
  <2>1. /\ Len(t) = Len(s) + 1 /\ t[Len(s) + 1] = "narEnd"
        /\ \A i \in 1..Len(s) : t[i] = "nar"
    BY <1>2
  <2> HIDE DEF t
  <2>2. NarRest(t)
    BY <2>1, <1>3 DEF NarRest
  <2> QED BY <2>2 DEF t
<1>6. s \o <<>> = s
  OBVIOUS
<1> QED BY <1>1, <1>4, <1>5, <1>6

\* What is added after the first token of a reply.
LEMMA AddAfter ==
  ASSUME NEW s \in Seq(ReplyToken), s # <<>>, NEW t \in Seq(ReplyToken)
  PROVE  /\ s \o t # <<>> /\ Head(s \o t) = Head(s)
         /\ Tail(s \o t) = Tail(s) \o t
<1>1. /\ s \o t \in Seq(ReplyToken) /\ Len(s \o t) = Len(s) + Len(t)
      /\ \A i \in 1..Len(s) : (s \o t)[i] = s[i]
      /\ \A i \in 1..Len(t) : (s \o t)[Len(s) + i] = t[i]
      /\ Len(s) \in Nat /\ Len(t) \in Nat /\ Len(s) > 0
  BY JoinReplies
<1>2. s \o t # <<>> /\ Head(s \o t) = (s \o t)[1] /\ Head(s) = s[1] /\ 1 \in 1..Len(s)
  BY <1>1
<1>3. Tail(s \o t) = Tail(s) \o t
  <2> DEFINE u == Tail(s)
             v == s \o t
             w == Tail(v)
  <2>1. /\ u \in Seq(ReplyToken) /\ Len(u) = Len(s) - 1
        /\ \A i \in 1..Len(u) : u[i] = s[i + 1]
    OBVIOUS
  <2>2. /\ w \in Seq(ReplyToken) /\ Len(w) = Len(v) - 1
        /\ \A i \in 1..Len(w) : w[i] = v[i + 1]
    BY <1>1, <1>2
  <2> HIDE DEF u, w
  <2>3. /\ u \o t \in Seq(ReplyToken) /\ Len(u \o t) = Len(u) + Len(t)
        /\ \A i \in 1..Len(u) : (u \o t)[i] = u[i]
        /\ \A i \in 1..Len(t) : (u \o t)[Len(u) + i] = t[i]
    BY <2>1, JoinReplies
  <2>4. Len(u \o t) = Len(w)
    BY <1>1, <2>1, <2>2, <2>3
  <2>5. ASSUME NEW i \in 1..Len(w) PROVE w[i] = (u \o t)[i]
    <3>1. w[i] = v[i + 1]
      BY <2>2
    <3>2. CASE i <= Len(u)
      <4>1. i \in 1..Len(u) /\ i + 1 \in 1..Len(s)
        BY <3>2, <2>1, <1>1
      <4> QED BY <3>1, <4>1, <1>1, <2>1, <2>3
    <3>3. CASE i > Len(u)
      <4>1. /\ i - Len(u) \in 1..Len(t) /\ Len(u) + (i - Len(u)) = i
            /\ Len(s) + (i - Len(u)) = i + 1
        BY <3>3, <2>1, <2>3, <2>4, <1>1
      <4> QED BY <3>1, <4>1, <1>1, <2>3
    <3>4. i <= Len(u) \/ i > Len(u)
      BY <2>1, <1>1
    <3> QED BY <3>2, <3>3, <3>4
  <2> DEFINE x == u \o t
  <2>6. x \in Seq(ReplyToken) /\ Len(x) = Len(w) /\ \A i \in 1..Len(w) : w[i] = x[i]
    BY <2>3, <2>4, <2>5
  <2> HIDE DEF v, x
  <2>7. w = x
    BY <2>2, <2>6
  <2> QED BY <2>7 DEF u, v, w, x
<1> QED BY <1>1, <1>2, <1>3

\* What holds while a NAR is sent.
LEMMA AtNar ==
  ASSUME SessionInv, pc = "nar"
  PROVE  /\ op = "NarFromPath" /\ op = cop /\ op \notin RefusedOps /\ in = <<>>
         /\ op \notin PayloadOps /\ op \notin FramedOps
         /\ \/ client = "gone" /\ out = <<>>
            \/ client = "nar" /\ NarOpen(out)
            \/ client = "marker" /\ out # <<>> /\ Head(out) = "last"
                 /\ NarOpen(Tail(out)) /\ Tail(out) \in Seq(ReplyToken)
<1> USE DEF SessionInv, Tracked, Fresh, Answered, SourcePc, AfterPc
<1>1. op = "NarFromPath" /\ op = cop
  BY DEF HandlerInv
<1>2. op \notin RefusedOps /\ op \notin PayloadOps /\ op \notin FramedOps
  BY <1>1 DEF RefusedOps, PayloadOps, FramedOps
<1>3. in = <<>>
  BY <1>2 DEF StreamInv
<1>4. out # <<>> => Tail(out) \in Seq(ReplyToken)
  BY DEF SessionTypeOK
<1>5. client \in {"gone", "nar", "marker"}
  BY <1>2 DEF ReplyInv, SourceInv, SessionTypeOK
<1>6. /\ client = "gone" => out = <<>>
      /\ client = "nar" => NarOpen(out)
      /\ client = "marker" => out # <<>> /\ Head(out) = "last" /\ NarOpen(Tail(out))
  BY <1>2 DEF ReplyInv
<1> QED BY <1>1, <1>2, <1>3, <1>4, <1>5, <1>6

\* handleNarFromPath.
LEMMA NarStep ==
  ASSUME SessionInv, NarUnavailable \/ StartDump \/ NarChunk \/ NarEnd \/ NarFails
  PROVE  HandlerInv' /\ StreamInv' /\ SourceInv' /\ ReplyInv' /\ RefusedInv'
<1> USE DEF SessionInv, Tracked, Fresh, Answered, SourcePc, AfterPc
<1>1. CASE NarUnavailable
  <2>1. /\ pc = "args" /\ op = "NarFromPath" /\ Has("args") /\ in' = Tail(in)
        /\ op' = op /\ cop' = cop /\ client' = client /\ Return(<<"error">>)
    BY <1>1 DEF NarUnavailable, clientVars, StopWorkWithError
  <2>2. op \notin FramedOps /\ op \notin RefusedOps
    BY <2>1 DEF FramedOps, RefusedOps
  <2>3. /\ in' = <<>> /\ op = cop /\ out = <<>> /\ client \in {"marker", "gone"}
    BY <2>1, <2>2, TakeArgs
  <2>4. <<"error">> \in Seq(ReplyToken) /\ FullReply(<<"error">>)
    BY ReplyType DEF ReplyToken, FullReply
  <2> QED BY <2>1, <2>2, <2>3, <2>4, ReturnStep
<1>4. CASE StartDump
  <2>1. /\ pc = "ask" /\ op = "NarFromPath" /\ in' = in
        /\ op' = op /\ cop' = cop /\ client' = client
    BY <1>4 DEF StartDump, clientVars
  <2>2. op \notin FramedOps /\ op \notin RefusedOps /\ op \notin PayloadOps
    BY <2>1 DEF FramedOps, RefusedOps, PayloadOps
  <2>3. /\ in' = <<>> /\ op = cop /\ out = <<>> /\ client \in {"marker", "gone"}
    BY <2>1, AtWork
  <2>4. CASE Return(StopWorkWithError)
    BY <2>1, <2>4, ReturnReply DEF StopWorkWithError
  <2>5. CASE pc' = "nar" /\ out' = Write(StopWork)
    <3>1. out' = IF client = "gone" THEN <<>> ELSE <<"last">>
      <4>1. <<>> \o <<"last">> = <<"last">>
        OBVIOUS
      <4> QED BY <2>3, <2>5, <4>1 DEF Write, StopWork
    <3>2. HandlerInv'
      BY <2>1, <2>3, <2>5 DEF HandlerInv
    <3>3. StreamInv'
      BY <2>1, <2>3, <2>5, EmptyStream DEF StreamInv
    <3>4. SourceInv'
      BY <2>1, <2>2, <2>3, <2>5 DEF SourceInv
    <3>5. ReplyInv'
      <4>1. LET s == <<"last">> IN s # <<>> /\ Head(s) = "last" /\ NarOpen(Tail(s))
        BY DEF NarOpen
      <4> QED BY <4>1, <2>1, <2>3, <2>5, <3>1 DEF ReplyInv
    <3>6. RefusedInv'
      BY <2>1, <2>2 DEF RefusedInv
    <3> QED BY <3>2, <3>3, <3>4, <3>5, <3>6
  <2> QED BY <1>4, <2>4, <2>5 DEF StartDump
<1>2. CASE NarChunk
  <2>1. /\ pc = "nar" /\ pc' = pc /\ in' = in /\ op' = op /\ cop' = cop
        /\ client' = client /\ out' = Write(<<"nar">>)
    BY <1>2 DEF NarChunk, clientVars
  <2>2. /\ op = "NarFromPath" /\ op = cop /\ op \notin RefusedOps /\ in = <<>>
        /\ op \notin PayloadOps /\ op \notin FramedOps
        /\ \/ client = "gone" /\ out = <<>>
           \/ client = "nar" /\ NarOpen(out)
           \/ client = "marker" /\ out # <<>> /\ Head(out) = "last"
                /\ NarOpen(Tail(out)) /\ Tail(out) \in Seq(ReplyToken)
    BY <2>1, AtNar
  <2>3. <<"nar">> \in Seq(ReplyToken) /\ out \in Seq(ReplyToken)
    BY ReplyType DEF ReplyToken, SessionTypeOK
  <2>4. HandlerInv' /\ StreamInv' /\ SourceInv' /\ RefusedInv'
    BY <2>1, <2>2 DEF HandlerInv, StreamInv, SourceInv, RefusedInv
  <2>5. ReplyInv'
    <3>1. CASE client = "gone"
      BY <3>1, <2>1, <2>2 DEF ReplyInv, Write
    <3>2. CASE client = "nar"
      <4>1. NarOpen(out')
        BY <3>2, <2>1, <2>2, <2>3, AddNar DEF Write
      <4> QED BY <3>2, <4>1, <2>1 DEF ReplyInv
    <3>3. CASE client = "marker"
      <4>1. /\ out' = out \o <<"nar">> /\ out # <<>> /\ Head(out) = "last"
            /\ NarOpen(Tail(out)) /\ Tail(out) \in Seq(ReplyToken)
        BY <3>3, <2>1, <2>2 DEF Write
      <4>2. out' # <<>> /\ Head(out') = "last" /\ Tail(out') = Tail(out) \o <<"nar">>
        BY <4>1, <2>3, AddAfter
      <4>3. NarOpen(Tail(out'))
        BY <4>1, <4>2, AddNar
      <4> QED BY <3>3, <4>2, <4>3, <2>1 DEF ReplyInv
    <3> QED BY <2>2, <3>1, <3>2, <3>3
  <2> QED BY <2>4, <2>5
<1>3. CASE NarEnd \/ NarFails
  <2>1. PICK s \in {<<>>, <<"narEnd">>} : Return(s)
    BY <1>3 DEF NarEnd, NarFails
  <2>2. /\ pc = "nar" /\ pc' = "readop" /\ in' = in /\ op' = op /\ cop' = cop
        /\ client' = client /\ out' = Write(s)
    BY <1>3, <2>1 DEF NarEnd, NarFails, Return, clientVars
  <2>3. /\ op = "NarFromPath" /\ op = cop /\ op \notin RefusedOps /\ in = <<>>
        /\ op \notin PayloadOps /\ op \notin FramedOps
        /\ \/ client = "gone" /\ out = <<>>
           \/ client = "nar" /\ NarOpen(out)
           \/ client = "marker" /\ out # <<>> /\ Head(out) = "last"
                /\ NarOpen(Tail(out)) /\ Tail(out) \in Seq(ReplyToken)
    BY <2>2, AtNar
  <2>4. s \in Seq(ReplyToken) /\ out \in Seq(ReplyToken)
    BY ReplyType DEF ReplyToken, SessionTypeOK
  <2>5. HandlerInv'
    BY <2>2, <2>3 DEF HandlerInv
  <2>6. StreamInv'
    BY <2>2, <2>3, EmptyStream DEF StreamInv
  <2>7. SourceInv'
    BY <2>2, <2>3 DEF SourceInv
  <2>8. RefusedInv'
    BY <2>2, <2>3 DEF RefusedInv
  <2>9. ReplyInv'
    <3>1. CASE client = "gone"
      BY <3>1, <2>2, <2>3 DEF ReplyInv, Write
    <3>2. CASE client = "nar"
      <4>1. out' = out \o s /\ NarOpen(out)
        BY <3>2, <2>2, <2>3 DEF Write
      <4>2. NarRest(out')
        BY <4>1, <2>1, <2>4, AddNar
      <4> QED BY <3>2, <4>2, <2>2, <2>3 DEF ReplyInv
    <3>3. CASE client = "marker"
      <4>1. /\ out' = out \o s /\ out # <<>> /\ Head(out) = "last"
            /\ NarOpen(Tail(out)) /\ Tail(out) \in Seq(ReplyToken)
        BY <3>3, <2>2, <2>3 DEF Write
      <4>2. out' # <<>> /\ Head(out') = "last" /\ Tail(out') = Tail(out) \o s
        BY <4>1, <2>4, AddAfter
      <4>3. NarRest(Tail(out'))
        BY <4>1, <4>2, <2>1, AddNar
      <4>4. FullReply(out)'
        BY <4>2, <4>3, <2>2, <2>3 DEF FullReply
      <4> QED BY <3>3, <4>4, <2>2, <2>3 DEF ReplyInv
    <3> QED BY <2>3, <3>1, <3>2, <3>3
  <2> QED BY <2>5, <2>6, <2>7, <2>8, <2>9
<1> QED BY <1>1, <1>2, <1>3, <1>4

\* What holds while the source of an upload is read.
LEMMA AtSource ==
  ASSUME SessionInv, pc \in SourcePc
  PROVE  /\ op = "AddMultipleToStore" /\ op = cop /\ out = <<>> /\ Tracked
         /\ Grammar(in)
         /\ pc \notin {"data", "rest"} /\ in # <<>> => Head(in).k = "len"
         /\ pc \in {"data", "rest"} => Leads(in, toRead) /\ toRead > 0
         /\ client \in {"stream", "marker", "gone"}
         /\ client = "stream" => Open(in)
         /\ client = "marker" => Ends(in) \/ (in = <<>> /\ pc = "drain")
<1> USE DEF SessionInv, Tracked, Fresh, Answered, SourcePc, AfterPc
<1>1. /\ op = "AddMultipleToStore" /\ op = cop
      /\ pc \in {"data", "rest"} => toRead > 0
  BY DEF HandlerInv
<1>2. op \notin RefusedOps /\ op \in FramedOps
  BY <1>1 DEF RefusedOps, FramedOps
<1>3. out = <<>> /\ client \in {"stream", "marker", "gone"}
  BY <1>2 DEF ReplyInv, SessionTypeOK
<1>4. /\ Grammar(in)
      /\ pc \notin {"data", "rest"} /\ in # <<>> => Head(in).k = "len"
      /\ pc \in {"data", "rest"} => Leads(in, toRead)
  BY <1>2 DEF StreamInv
<1>5. /\ client = "stream" => Open(in)
      /\ client = "marker" => Ends(in) \/ (in = <<>> /\ pc = "drain")
  BY <1>1, <1>2 DEF SourceInv
<1> QED BY <1>1, <1>2, <1>3, <1>4, <1>5

\* The upload goes on with the source: what a step has to leave behind.
LEMMA SourceStep ==
  ASSUME op = "AddMultipleToStore", op = cop, out = <<>>,
         client \in {"stream", "marker", "gone"},
         op' = op, cop' = cop, out' = out, client' = client,
         pc' \in SourcePc, Grammar(in'),
         pc' \notin {"data", "rest"} /\ in' # <<>> => Head(in').k = "len",
         pc' \in {"data", "rest"} => Leads(in', toRead') /\ toRead' > 0,
         client = "stream" => Open(in'),
         client = "marker" => Ends(in') \/ (in' = <<>> /\ pc' = "drain")
  PROVE  HandlerInv' /\ StreamInv' /\ SourceInv' /\ ReplyInv' /\ RefusedInv'
<1> USE DEF Tracked, Fresh, Answered, SourcePc, AfterPc
<1>1. op' \notin RefusedOps /\ op' \in FramedOps
  BY DEF RefusedOps, FramedOps
<1>2. HandlerInv'
  BY DEF HandlerInv
<1>3. StreamInv'
  BY <1>1 DEF StreamInv
<1>4. SourceInv'
  BY <1>1 DEF SourceInv
<1>5. ReplyInv'
  BY <1>1 DEF ReplyInv
<1>6. RefusedInv'
  BY <1>1 DEF RefusedInv
<1> QED BY <1>2, <1>3, <1>4, <1>5, <1>6

\* The steps of an upload that do not take anything from the stream.
LEMMA UploadAside ==
  ASSUME SessionInv, Connect \/ failWithDrain \/ CheckReader, ~cutShort'
  PROVE  HandlerInv' /\ StreamInv' /\ SourceInv' /\ ReplyInv' /\ RefusedInv'
<1>1. /\ pc \in {"connect", "check"} /\ pc' \in {"check", "drain", "len"}
      /\ op' = op /\ cop' = cop /\ out' = out /\ client' = client /\ in' = in
  BY DEF Connect, ConnectFails, failWithDrain, CheckReader, failMidUpload, clientVars
<1>2. pc \in SourcePc /\ pc' \in SourcePc
  BY <1>1 DEF SourcePc
<1>3. /\ op = "AddMultipleToStore" /\ op = cop /\ out = <<>>
      /\ Grammar(in) /\ (in # <<>> => Head(in).k = "len")
      /\ client \in {"stream", "marker", "gone"}
      /\ client = "stream" => Open(in)
      /\ client = "marker" => Ends(in)
  BY <1>1, <1>2, AtSource
<1> QED BY <1>1, <1>2, <1>3, SourceStep

\* The arguments of an upload are read.
LEMMA UploadArgs ==
  ASSUME SessionInv, ReadUploadArgs
  PROVE  HandlerInv' /\ StreamInv' /\ SourceInv' /\ ReplyInv' /\ RefusedInv'
<1>1. /\ pc = "args" /\ op = "AddMultipleToStore" /\ Has("args") /\ in' = Tail(in)
      /\ pc' \in {"connect", "drain"}
      /\ op' = op /\ cop' = cop /\ out' = out /\ client' = client
  BY DEF ReadUploadArgs, clientVars
<1>2. op \in FramedOps /\ pc' \in SourcePc
  BY <1>1 DEF FramedOps, SourcePc
<1>3. /\ Grammar(in') /\ op = cop /\ out = <<>>
      /\ in' # <<>> => Head(in').k = "len"
      /\ client \in {"stream", "marker", "gone"}
      /\ client = "stream" => Open(in')
      /\ client = "marker" => Ends(in')
  BY <1>1, <1>2, TakeArgs
<1> QED BY <1>1, <1>2, <1>3, SourceStep

\* A frame header is forwarded, or skipped.
LEMMA TakeLen ==
  ASSUME SessionInv, pc \in {"len", "drain"}, Has("len"), in' = Tail(in)
  PROVE  /\ Grammar(in') /\ Head(in).v \in Nat
         /\ Head(in).v = 0 => in' = <<>> /\ client \in {"marker", "gone"}
         /\ Head(in).v > 0 => Leads(in', Head(in).v)
         /\ client = "stream" => Open(in')
         /\ client = "marker" /\ Head(in).v > 0 => Ends(in')
<1>1. pc \in SourcePc /\ in # <<>> /\ Head(in).k = "len"
  BY DEF SourcePc, Has
<1>2. /\ Tracked /\ client \in {"stream", "marker", "gone"}
      /\ client = "stream" => Open(in)
      /\ client = "marker" => Ends(in)
  BY <1>1, AtSource
<1>3. /\ Grammar(in')
      /\ Head(in).v = 0 => in' = <<>>
      /\ Head(in).v > 0 => Leads(in', Head(in).v)
      /\ Open(in) => Open(in') /\ Head(in).v # 0
      /\ Ends(in) /\ Head(in).v # 0 => Ends(in')
  BY <1>1, <1>2, TakeStep
<1>4. Head(in).v \in Nat
  BY <1>1, HeadToken DEF SessionInv
<1> QED BY <1>2, <1>3, <1>4

\* A chunk is forwarded, or skipped.
LEMMA TakeData ==
  ASSUME SessionInv, pc \in {"data", "rest"}, Has("data"), in' = Tail(in)
  PROVE  /\ Grammar(in') /\ toRead \in Nat /\ toRead > 0
         /\ Leads(in', toRead - 1)
         /\ toRead = 1 /\ in' # <<>> => Head(in').k = "len"
         /\ client = "stream" => Open(in')
         /\ client = "marker" => Ends(in')
<1>1. pc \in SourcePc /\ in # <<>> /\ Head(in).k = "data"
  BY DEF SourcePc, Has
<1>2. /\ Tracked /\ Leads(in, toRead) /\ toRead > 0
      /\ client = "stream" => Open(in)
      /\ client = "marker" => Ends(in)
  BY <1>1, AtSource
<1>3. toRead \in Nat /\ in \in Seq(Token)
  BY DEF SessionInv, SessionTypeOK
<1>4. /\ Leads(in', toRead - 1)
      /\ toRead = 1 /\ in' # <<>> => Head(in').k = "len"
  BY <1>2, <1>3, TakeChunk
<1>5. /\ Grammar(in')
      /\ Open(in) => Open(in')
      /\ Ends(in) => Ends(in')
  BY <1>1, <1>2, TakeStep
<1> QED BY <1>2, <1>3, <1>4, <1>5

\* The steps of an upload that take a token of the source.
LEMMA UploadSource ==
  ASSUME SessionInv,
         ForwardLen \/ ForwardData \/ discardRawBytes \/ discardFramedSourceBody
  PROVE  HandlerInv' /\ StreamInv' /\ SourceInv' /\ ReplyInv' /\ RefusedInv'
<1> USE DEF SourcePc
<1>1. CASE ForwardLen
  <2>1. /\ pc = "len" /\ Has("len") /\ in' = Tail(in)
        /\ op' = op /\ cop' = cop /\ out' = out /\ client' = client
    BY <1>1 DEF ForwardLen, clientVars
  <2>2. /\ op = "AddMultipleToStore" /\ op = cop /\ out = <<>>
        /\ client \in {"stream", "marker", "gone"}
    BY <2>1, AtSource
  <2>3. /\ Grammar(in') /\ Head(in).v \in Nat
        /\ Head(in).v = 0 => in' = <<>> /\ client \in {"marker", "gone"}
        /\ Head(in).v > 0 => Leads(in', Head(in).v)
        /\ client = "stream" => Open(in')
        /\ client = "marker" /\ Head(in).v > 0 => Ends(in')
    BY <2>1, TakeLen
  <2>4. /\ toRead' = Head(in).v
        /\ Head(in).v > 0 => pc' \in {"rest", "data"}
        /\ Head(in).v = 0 => pc' \in {"drain", "flush"}
    BY <1>1, <2>3 DEF ForwardLen, failMidUpload
  <2>5. CASE pc' = "flush"
    <3>1. in' = <<>> /\ client \in {"marker", "gone"}
      BY <2>3, <2>4, <2>5
    <3>2. op' \notin RefusedOps /\ op' \in FramedOps
      BY <2>1, <2>2 DEF RefusedOps, FramedOps
    <3> USE DEF Tracked, Fresh, Answered, AfterPc
    <3>3. HandlerInv'
      BY <2>1, <2>2, <2>5 DEF HandlerInv
    <3>4. StreamInv'
      BY <2>5, <3>1, EmptyStream DEF StreamInv
    <3>5. SourceInv'
      BY <2>1, <2>5, <2>2, <3>1, <3>2 DEF SourceInv
    <3>6. ReplyInv'
      BY <2>1, <2>2, <2>5, <3>1 DEF ReplyInv
    <3>7. RefusedInv'
      BY <3>2 DEF RefusedInv
    <3> QED BY <3>3, <3>4, <3>5, <3>6, <3>7
  <2>6. CASE pc' # "flush"
    <3>1. /\ pc' \in SourcePc
          /\ pc' \notin {"data", "rest"} /\ in' # <<>> => Head(in').k = "len"
          /\ pc' \in {"data", "rest"} => Leads(in', toRead') /\ toRead' > 0
          /\ client = "stream" => Open(in')
          /\ client = "marker" => Ends(in') \/ (in' = <<>> /\ pc' = "drain")
      BY <2>3, <2>4, <2>6
    <3> QED BY <2>1, <2>2, <2>3, <3>1, SourceStep
  <2> QED BY <2>5, <2>6
<1>2. CASE ForwardData \/ discardRawBytes
  <2>1. /\ pc \in {"data", "rest"} /\ Has("data") /\ in' = Tail(in)
        /\ op' = op /\ cop' = cop /\ out' = out /\ client' = client
    BY <1>2 DEF ForwardData, discardRawBytes, clientVars
  <2>2. /\ op = "AddMultipleToStore" /\ op = cop /\ out = <<>>
        /\ client \in {"stream", "marker", "gone"}
    BY <2>1, AtSource
  <2>3. /\ Grammar(in') /\ toRead \in Nat /\ toRead > 0
        /\ Leads(in', toRead - 1)
        /\ toRead = 1 /\ in' # <<>> => Head(in').k = "len"
        /\ client = "stream" => Open(in')
        /\ client = "marker" => Ends(in')
    BY <2>1, TakeData
  <2>4. /\ toRead' = toRead - 1
        /\ toRead = 1 => pc' \in {"check", "drain"}
        /\ toRead > 1 => pc' \in {"data", "rest"}
    BY <1>2, <2>3 DEF ForwardData, discardRawBytes, failMidUpload
  <2>5. toRead = 1 \/ toRead > 1
    BY <2>3
  <2>6. toRead > 1 => toRead' > 0
    BY <2>3, <2>4
  <2>7. /\ pc' \in SourcePc
        /\ pc' \notin {"data", "rest"} /\ in' # <<>> => Head(in').k = "len"
        /\ pc' \in {"data", "rest"} => Leads(in', toRead') /\ toRead' > 0
    BY <2>3, <2>4, <2>5, <2>6
  <2> QED BY <2>1, <2>2, <2>3, <2>7, SourceStep
<1>3. CASE discardFramedSourceBody
  <2>1. /\ pc = "drain" /\ Has("len") /\ in' = Tail(in)
        /\ op' = op /\ cop' = cop /\ client' = client
    BY <1>3 DEF discardFramedSourceBody, clientVars
  <2>2. /\ op = "AddMultipleToStore" /\ op = cop /\ out = <<>>
        /\ client \in {"stream", "marker", "gone"}
    BY <2>1, AtSource
  <2>3. /\ Grammar(in') /\ Head(in).v \in Nat
        /\ Head(in).v = 0 => in' = <<>> /\ client \in {"marker", "gone"}
        /\ Head(in).v > 0 => Leads(in', Head(in).v)
        /\ client = "stream" => Open(in')
        /\ client = "marker" /\ Head(in).v > 0 => Ends(in')
    BY <2>1, TakeLen
  <2>4. CASE Head(in).v = 0
    <3>1. Return(<< reply >>)
      BY <1>3, <2>4 DEF discardFramedSourceBody
    <3>2. reply \in {"last", "error"} /\ << reply >> \in Seq(ReplyToken)
      BY DEF SessionInv, SessionTypeOK, ReplyToken
    <3>3. op \notin RefusedOps /\ op \notin PayloadOps /\ op # "NarFromPath"
      BY <2>2 DEF RefusedOps, PayloadOps
    <3>4. FullReply(<< reply >>)
      <4>1. << reply >> # <<>> /\ Head(<< reply >>) = reply /\ Len(<< reply >>) = 1
        OBVIOUS
      <4> QED BY <2>2, <3>2, <3>3, <4>1 DEF FullReply
    <3> QED BY <2>1, <2>2, <2>3, <2>4, <3>1, <3>2, <3>3, <3>4, ReturnStep
  <2>5. CASE Head(in).v # 0
    <3>1. pc' = "rest" /\ toRead' = Head(in).v /\ out' = out /\ Head(in).v > 0
      BY <1>3, <2>3, <2>5 DEF discardFramedSourceBody
    <3>2. pc' \in SourcePc
      BY <3>1
    <3> QED BY <2>1, <2>2, <2>3, <3>1, <3>2, SourceStep
  <2> QED BY <2>4, <2>5
<1> QED BY <1>1, <1>2, <1>3

\* The end of an upload.
LEMMA UploadEnds ==
  ASSUME SessionInv, FlushOK \/ FlushFails \/ WaitReturns \/ WaitTimesOut
  PROVE  HandlerInv' /\ StreamInv' /\ SourceInv' /\ ReplyInv' /\ RefusedInv'
<1> USE DEF SourcePc, AfterPc
<1>1. CASE FlushOK
  <2>1. /\ pc = "flush" /\ pc' = "wait" /\ in' = in /\ op' = op /\ cop' = cop
        /\ client' = client /\ out' = out
    BY <1>1 DEF FlushOK, clientVars
  <2> QED BY <2>1 DEF SessionInv, HandlerInv, StreamInv, SourceInv, ReplyInv,
                      RefusedInv, Tracked, Fresh, Answered
<1>2. CASE FlushFails \/ WaitReturns \/ WaitTimesOut
  <2>1. /\ pc \in {"flush", "wait"} /\ in' = in /\ op' = op /\ cop' = cop
        /\ client' = client
    BY <1>2 DEF FlushFails, WaitReturns, WaitTimesOut, clientVars
  <2>2. Return(<<>>) \/ Return(<<"last">>) \/ Return(<<"error">>)
    BY <1>2 DEF FlushFails, WaitReturns, WaitTimesOut, StopWork, StopWorkWithError
  <2>3. op = "AddMultipleToStore"
    BY <2>1, AtWork
  <2> QED BY <2>1, <2>2, <2>3, ReturnReply
<1> QED BY <1>1, <1>2

\* The daemon on the store host and stuttering leave the streams alone.
LEMMA AsideStep ==
  ASSUME SessionInv, Daemon \/ UNCHANGED svars
  PROVE  SessionInv'
<1>1. /\ client' = client /\ cop' = cop /\ frames' = frames /\ sent' = sent
      /\ nops' = nops /\ in' = in /\ out' = out /\ pc' = pc /\ op' = op
      /\ toRead' = toRead /\ reply' = reply /\ fwd' = fwd /\ markers' = markers
      /\ env' = env /\ cutShort' = cutShort
      /\ daemon' \in {daemon, "hung", "dead"} /\ readErr' \in {readErr, "ok", "err"}
  BY DEF Daemon, DaemonAccepts, DaemonRefuses, DaemonHangs, DaemonDies, ReaderFails,
         svars, clientVars, proxyVars, envVars, hostVars
<1>2. SessionTypeOK'
  BY <1>1 DEF SessionInv, SessionTypeOK, SourcePc, AfterPc
<1>3. HandlerInv' /\ StreamInv' /\ SourceInv' /\ ReplyInv' /\ RefusedInv'
  BY <1>1 DEF SessionInv, HandlerInv, StreamInv, SourceInv, ReplyInv,
              RefusedInv, FullReply, Tracked, Fresh, Answered
<1> QED BY <1>2, <1>3 DEF SessionInv

\* The invariant holds initially.
LEMMA SessionStart == SessionInit => SessionInv
<1> SUFFICES ASSUME SessionInit PROVE SessionInv
  OBVIOUS
<1> USE DEF SessionInit, Tracked, Fresh, Answered, SourcePc, AfterPc
<1>1. SessionTypeOK
  <2>1. in \in Seq(Token) /\ out \in Seq(ReplyToken)
    OBVIOUS
  <2>2. env \in Environment
    BY SessionAssumption
  <2> QED BY <2>1, <2>2 DEF SessionTypeOK, AllOps
<1>2. HandlerInv
  BY DEF HandlerInv
<1>3. StreamInv
  BY EmptyStream DEF StreamInv
<1>4. SourceInv
  BY DEF SourceInv
<1>5. ReplyInv
  BY DEF ReplyInv
<1>6. RefusedInv
  BY DEF RefusedInv, RefusedOps
<1> QED BY <1>1, <1>2, <1>3, <1>4, <1>5, <1>6 DEF SessionInv

\* Every step keeps the invariant until an upload is cut short.
LEMMA SessionStep ==
  SessionInv /\ [SessionNext]_svars /\ ~cutShort' => SessionInv'
<1> SUFFICES ASSUME SessionInv, [SessionNext]_svars, ~cutShort' PROVE SessionInv'
  OBVIOUS
<1>1. CASE Client
  <2>1. SessionTypeOK'
    BY <1>1, ClientType DEF SessionInv
  <2>2. HandlerInv' /\ StreamInv' /\ SourceInv' /\ ReplyInv' /\ RefusedInv'
    BY <1>1, SendOpStep, SendFrameStep, ReadReplyStep, DisconnectStep DEF Client
  <2> QED BY <2>1, <2>2 DEF SessionInv
<1>2. CASE Proxy \/ BuildReturns
  <2>1. SessionTypeOK'
    BY <1>2, ProxyType DEF SessionInv, HandlerInv
  <2>2. HandlerInv' /\ StreamInv' /\ SourceInv' /\ ReplyInv' /\ RefusedInv'
    BY <1>2, MisreadStep, ReadFailsStep, ReadOpStep, HandlePlainStep, QueryStep,
       BuildStep, NarStep, UploadAside, UploadArgs, UploadSource, UploadEnds
       DEF Proxy, Upload
  <2> QED BY <2>1, <2>2 DEF SessionInv
<1>3. CASE Daemon \/ UNCHANGED svars
  BY <1>3, AsideStep
<1> QED BY <1>1, <1>2, <1>3 DEF SessionNext

\* Only the head of the upload loop cuts an upload short, and what the reader
\* has returned does not outlive the wait.
LEMMA ProxyCuts ==
  ASSUME Proxy \/ BuildReturns
  PROVE  /\ cutShort' = cutShort \/ CheckReader
         /\ env' = env
         /\ (readErr' = readErr /\ pc # "wait") \/ readErr' \in {"none", "taken"}
<1> DEFINE Cuts == /\ (cutShort' = cutShort) \/ CheckReader
                   /\ env' = env
                   /\ (readErr' = readErr /\ pc # "wait") \/ readErr' \in {"none", "taken"}
<1> USE DEF clientVars, envVars, hostVars, Return
<1>1. CASE Misread
  <2>1. pc # "wait"
    BY <1>1 DEF Misread, Expected
  <2> QED BY <1>1, <2>1 DEF Misread
<1>2. CASE ReadFails \/ ReadOp \/ HandlePlain \/ ReadQueryArgs \/ AnswerQuery
  BY <1>2 DEF ReadFails, ReadOp, HandlePlain, ReadQueryArgs, AnswerQuery
<1>3. CASE \/ ReadBuildArgs \/ GetBuilderFails \/ GetBuilderOK \/ BuildReturns
           \/ NarUnavailable \/ NarChunk \/ NarEnd \/ NarFails
  BY <1>3 DEF ReadBuildArgs, GetBuilderFails, GetBuilderOK, BuildReturns,
     NarUnavailable, NarChunk, NarEnd, NarFails
<1>4. CASE StartDump
  BY <1>4 DEF StartDump
<1>5. CASE ReadUploadArgs \/ Connect \/ failWithDrain
  BY <1>5 DEF ReadUploadArgs, Connect, failWithDrain, ConnectFails
<1>6. CASE CheckReader
  BY <1>6 DEF CheckReader
<1>7. CASE FlushOK \/ FlushFails \/ WaitReturns \/ WaitTimesOut
  BY <1>7 DEF FlushOK, FlushFails, WaitReturns, WaitTimesOut
<1>8. CASE ForwardLen \/ ForwardData
  BY <1>8 DEF ForwardLen, ForwardData
<1>9. CASE discardRawBytes \/ discardFramedSourceBody
  BY <1>9 DEF discardRawBytes, discardFramedSourceBody
<1> QED
  <2> HIDE DEF Cuts
  <2>1. Cuts
    <3> USE DEF Cuts
    <3> QED BY <1>1, <1>2, <1>3, <1>4, <1>5, <1>6, <1>7, <1>8, <1>9 DEF Proxy, Upload
  <2> QED BY <2>1 DEF Cuts

\* An upload that was cut short stays so; only the head of its loop does it.
LEMMA CutStays ==
  ASSUME [SessionNext]_svars
  PROVE  /\ cutShort => cutShort'
         /\ cutShort' => cutShort \/ CheckReader
<1>1. CASE CheckReader
  <2>1. CASE readErr = "ok"
    BY <1>1, <2>1 DEF CheckReader
  <2>2. CASE readErr # "ok"
    <3>1. cutShort' = cutShort
      BY <1>1, <2>2 DEF CheckReader
    <3> QED BY <3>1
  <2> QED BY <2>1, <2>2
<1>2. CASE cutShort' = cutShort
  BY <1>2
<1>3. CASE Proxy \/ BuildReturns
  BY <1>1, <1>2, <1>3, ProxyCuts
<1>4. CASE Client \/ Daemon \/ UNCHANGED svars
  <2>1. cutShort' = cutShort
    BY <1>4 DEF Client, SendOp, SendFrame, ReadReply, Disconnect, proxyVars, envVars,
       Daemon, DaemonAccepts, DaemonRefuses, DaemonHangs, DaemonDies, ReaderFails, svars
  <2> QED BY <1>2, <2>1
<1> QED BY <1>3, <1>4 DEF SessionNext

\* The step that cuts an upload short: the client has not sent the end of the
\* source, or the proxy has not taken it.
LEMMA CutStart ==
  ASSUME SessionInv, EarlyInv, ~cutShort, CheckReader, cutShort'
  PROVE  CutInv'
<1>1. /\ pc = "check" /\ pc' = "flush" /\ readErr = "ok" /\ readErr' = "taken"
      /\ in' = in /\ client' = client /\ op' = op /\ env' = env
  BY DEF CheckReader, clientVars
<1>2. /\ op = "AddMultipleToStore" /\ (in # <<>> => Head(in).k = "len")
      /\ client \in {"stream", "marker", "gone"}
      /\ client = "marker" => in # <<>>
  <2>1. pc \in SourcePc
    BY <1>1 DEF SourcePc
  <2> QED BY <1>1, <2>1, AtSource DEF Ends
<1> QED BY <1>1, <1>2 DEF CutInv, EarlyInv

\* After that the proxy waits for the timeout, and then finds a frame header
\* where it reads an operation.
LEMMA CutStep ==
  ASSUME SessionTypeOK, CutInv, cutShort, [SessionNext]_svars
  PROVE  CutInv' /\ SessionTypeOK'
<1>0. /\ "earlyLast" \in env.faults /\ op = "AddMultipleToStore"
      /\ pc \in {"flush", "wait", "readop", "garbled", "closed"}
      /\ pc \in {"flush", "wait"} => readErr = "taken"
      /\ pc \in {"flush", "wait", "readop"} =>
           IF in = <<>> THEN client \in {"stream", "gone"} ELSE Head(in).k = "len"
  BY DEF CutInv
<1>1. CASE Client
  <2>1. /\ env' = env /\ op' = op /\ pc' = pc /\ readErr' = readErr
    BY <1>1 DEF Client, SendOp, SendFrame, ReadReply, Disconnect, proxyVars, envVars,
       hostVars
  <2>2. pc \in {"flush", "wait", "readop"} =>
          IF in' = <<>> THEN client' \in {"stream", "gone"} ELSE Head(in').k = "len"
    <3> SUFFICES ASSUME pc \in {"flush", "wait", "readop"}
                 PROVE  IF in' = <<>> THEN client' \in {"stream", "gone"}
                                      ELSE Head(in').k = "len"
      OBVIOUS
    <3>1. ASSUME NEW o \in env.ops, SendOp(o)
          PROVE  in' # <<>> /\ Head(in').k = "len"
      <4>1. o \in AllOps /\ in' = in \o OpTokens(o) /\ in # <<>>
        BY <1>0, <3>1 DEF SendOp, OpTokens, SessionTypeOK, Environment
      <4>2. in' # <<>> /\ Head(in') = Head(in)
        BY <4>1, AddOp, AddTokens DEF SessionTypeOK
      <4> QED BY <1>0, <4>1, <4>2
    <3>2. ASSUME SendFrame PROVE in' # <<>> /\ Head(in').k = "len"
      <4>1. PICK n \in Nat : in' = in \o Frame(n)
        <5>1. CASE frames = 0
          BY <3>2, <5>1, SendsEnd DEF SendFrame, SessionTypeOK
        <5>2. CASE frames # 0
          <6>1. PICK n \in 1..MaxChunks :
                  in' = in \o <<Tok("len", n)>> \o [i \in 1..n |-> Tok("data", 0)]
            BY <3>2, <5>2 DEF SendFrame
          <6>2. n \in Nat
            BY SessionAssumption
          <6> QED BY <6>1, <6>2, SendsFrame DEF SessionTypeOK
        <5> QED BY <5>1, <5>2
      <4>2. Frame(n) \in Seq(Token) /\ Frame(n) # <<>> /\ Head(Frame(n)).k = "len"
        <5>1. Tok("len", n).k = "len"
          BY DEF Tok
        <5> QED BY <5>1, FrameTokens
      <4>3. in' # <<>> /\ Head(in') = IF in = <<>> THEN Head(Frame(n)) ELSE Head(in)
        BY <4>1, <4>2, AddTokens DEF SessionTypeOK
      <4> QED BY <1>0, <4>2, <4>3
    <3>3. ASSUME ReadReply
          PROVE  IF in' = <<>> THEN client' \in {"stream", "gone"} ELSE Head(in').k = "len"
      BY <1>0, <3>3 DEF ReadReply
    <3>4. ASSUME Disconnect
          PROVE  IF in' = <<>> THEN client' \in {"stream", "gone"} ELSE Head(in').k = "len"
      BY <1>0, <3>4 DEF Disconnect
    <3> QED BY <1>1, <3>1, <3>2, <3>3, <3>4 DEF Client
  <2>3. SessionTypeOK'
    BY <1>1, ClientType
  <2> QED BY <1>0, <2>1, <2>2, <2>3 DEF CutInv
<1>2. CASE Proxy \/ BuildReturns
  <2>1. SessionTypeOK'
    BY <1>0, <1>2, ProxyType
  <2>2. Misread \/ ReadFails \/ FlushOK \/ FlushFails \/ WaitTimesOut
    <3>1. ~ReadOp
      BY <1>0 DEF ReadOp, Has
    <3>2. ~WaitReturns
      BY <1>0 DEF WaitReturns
    <3> QED BY <1>0, <1>2, <3>1, <3>2 DEF Proxy, Upload, HandlePlain, ReadQueryArgs,
          AnswerQuery, ReadBuildArgs, GetBuilderFails, GetBuilderOK, BuildReturns,
          NarUnavailable, StartDump, NarChunk, NarEnd, NarFails, ReadUploadArgs,
          Connect, ConnectFails, failWithDrain, CheckReader, ForwardLen, ForwardData,
          discardRawBytes, discardFramedSourceBody
  <2>3. /\ env' = env /\ op' = op /\ in' = in /\ client' = client
        /\ \/ pc' \in {"garbled", "closed"}
           \/ pc \in {"flush", "wait"} /\ pc' = "readop"
           \/ pc = "flush" /\ pc' = "wait" /\ readErr' = readErr
    <3>1. pc \in DOMAIN Expected => pc = "readop"
      BY <1>0 DEF Expected
    <3> QED BY <2>2, <3>1 DEF Misread, ReadFails, FlushOK, FlushFails, WaitTimesOut,
          Return, clientVars, envVars, hostVars
  <2> QED BY <1>0, <2>1, <2>3 DEF CutInv
<1>3. CASE Daemon \/ UNCHANGED svars
  <2>1. /\ client' = client /\ in' = in /\ pc' = pc /\ op' = op /\ env' = env
        /\ pc \in {"flush", "wait"} => readErr' = readErr
    BY <1>0, <1>3 DEF Daemon, DaemonAccepts, DaemonRefuses, DaemonHangs, DaemonDies,
       ReaderFails, svars, clientVars, proxyVars, envVars, hostVars
  <2>2. SessionTypeOK'
    <3>1. /\ cop' = cop /\ frames' = frames /\ sent' = sent /\ nops' = nops
          /\ out' = out /\ toRead' = toRead /\ reply' = reply /\ fwd' = fwd
          /\ markers' = markers /\ cutShort' = cutShort
          /\ daemon' \in {daemon, "hung", "dead"} /\ readErr' \in {readErr, "ok", "err"}
      BY <1>3 DEF Daemon, DaemonAccepts, DaemonRefuses, DaemonHangs, DaemonDies,
         ReaderFails, svars, clientVars, proxyVars, envVars, hostVars
    <3> QED BY <2>1, <3>1 DEF SessionTypeOK, SourcePc, AfterPc
  <2> QED BY <1>0, <2>1, <2>2 DEF CutInv
<1> QED BY <1>1, <1>2, <1>3 DEF SessionNext

\* Every step knows who sends StderrLast too early.
LEMMA EarlyStep ==
  ASSUME EarlyInv, [SessionNext]_svars
  PROVE  EarlyInv'
<1>1. CASE Client
  BY <1>1 DEF Client, SendOp, SendFrame, ReadReply, Disconnect, proxyVars, envVars,
     hostVars, EarlyInv
<1>2. CASE Proxy \/ BuildReturns
  BY <1>2, ProxyCuts DEF EarlyInv
<1>3. CASE Daemon \/ UNCHANGED svars
  BY <1>3 DEF Daemon, DaemonAccepts, DaemonRefuses, DaemonHangs, DaemonDies,
     ReaderFails, svars, clientVars, proxyVars, envVars, hostVars, EarlyInv
<1> QED BY <1>1, <1>2, <1>3 DEF SessionNext

\* The invariant of the connection, in every environment and for every client.
LEMMA SessionAlways == SessionSpec => []WholeInv
<1>1. SessionInit => WholeInv
  BY SessionStart DEF WholeInv, EarlyInv, CutInv, SessionInit, SessionInv
<1>2. WholeInv /\ [SessionNext]_svars => WholeInv'
  <2> SUFFICES ASSUME WholeInv, [SessionNext]_svars PROVE WholeInv'
    OBVIOUS
  <2>1. EarlyInv'
    BY EarlyStep DEF WholeInv
  <2>2. CASE cutShort
    <3>1. cutShort'
      BY <2>2, CutStays
    <3> QED BY <2>1, <2>2, <3>1, CutStep DEF WholeInv
  <2>3. CASE ~cutShort /\ ~cutShort'
    <3>1. SessionInv'
      BY <2>3, SessionStep DEF WholeInv
    <3> QED BY <2>1, <2>3, <3>1 DEF WholeInv, CutInv, SessionInv
  <2>4. CASE ~cutShort /\ cutShort'
    <3>1. CheckReader
      BY <2>4, CutStays
    <3>2. CutInv' /\ SessionTypeOK'
      BY <2>4, <3>1, CutStart, ProxyType DEF WholeInv, SessionInv, HandlerInv, Proxy, Upload
    <3> QED BY <2>1, <2>4, <3>2 DEF WholeInv
  <2> QED BY <2>2, <2>3, <2>4
<1> QED BY <1>1, <1>2, PTL DEF SessionSpec

-----------------------------------------------------------------------------
(* What the connection promises *)

\* InSync: the token that the proxy reads next is what it takes it for, after
\* any handler and any failure but the two that InSync names.  No assumption
\* is made on the environment or the version; the invariant says what is in the
\* stream, until the loop of an upload is left before the end of its source.
THEOREM StreamInSync == SessionSpec => []InSync
<1>1. WholeInv => InSync
  <2> SUFFICES ASSUME SessionInv, pc \in DOMAIN Expected, in # <<>>, op \notin RefusedOps
               PROVE  Head(in).k = Expected[pc]
    BY DEF InSync, WholeInv
  <2> USE DEF SessionInv, Tracked, Fresh, SourcePc
  <2>1. pc \in {"readop", "args", "len", "data", "rest", "drain"}
    BY DEF Expected
  <2>2. CASE pc \in {"data", "rest"}
    <3>1. Leads(in, toRead) /\ toRead > 0 /\ toRead \in Nat /\ in \in Seq(Token)
      BY <2>2 DEF StreamInv, HandlerInv, SessionTypeOK
    <3>2. Head(in).k = "data"
      BY <3>1, TakeChunk
    <3> QED BY <2>2, <3>2 DEF Expected
  <2>3. CASE pc \in {"readop", "args", "len", "drain"}
    BY <2>3 DEF StreamInv, Expected
  <2> QED BY <2>1, <2>2, <2>3
<1> QED BY <1>1, SessionAlways, PTL

\* RepliesMatch: the client reads what it waits for, is not answered before its
\* source is through, and has nothing left over when it sends its next
\* operation, unless an operation was refused or an upload was cut short.  A
\* client older than 1.17 that asks for the info of a path that
\* is not there gets an error after the marker of success: it is excluded.
THEOREM RepliesAreExpected == Minor >= 17 => (SessionSpec => []RepliesMatch)
<1> SUFFICES ASSUME Minor >= 17 PROVE SessionSpec => []RepliesMatch
  OBVIOUS
<1>1. WholeInv => RepliesMatch
  <2> SUFFICES ASSUME SessionInv, op \notin RefusedOps
               PROVE  /\ client \in {"idle", "stream"} => out = <<>>
                      /\ out # <<>> =>
                           CASE client = "marker"  -> Head(out) \in {"last", "error"}
                             [] client = "payload" -> Head(out) = "payload"
                             [] client = "nar"     -> Head(out) \in {"nar", "narEnd"}
                             [] OTHER -> TRUE
    BY DEF RepliesMatch, WholeInv
  <2>1. ReplyInv /\ Tracked /\ out \in Seq(ReplyToken)
    BY DEF SessionInv, Tracked, SessionTypeOK
  <2>2. client \in {"idle", "stream"} => out = <<>>
    BY <2>1 DEF ReplyInv
  <2>3. ASSUME out # <<>>, client = "marker" PROVE Head(out) \in {"last", "error"}
    <3>1. Head(<<"error">>) = "error"
      OBVIOUS
    <3> QED BY <2>1, <2>3, <3>1 DEF ReplyInv, FullReply
  <2>4. ASSUME out # <<>>, client = "payload" PROVE Head(out) = "payload"
    <3>1. ~(Minor < 17)
      BY SessionAssumption
    <3>2. Head(out) = out[1]
      BY <2>1, <2>4
    <3> QED BY <2>1, <2>4, <3>1, <3>2 DEF ReplyInv, PayloadToken
  <2>5. ASSUME out # <<>>, client = "nar" PROVE Head(out) \in {"nar", "narEnd"}
    <3>1. Head(out) = out[1] /\ 1 \in 1..Len(out)
      BY <2>1, <2>5
    <3> QED BY <2>1, <2>5, <3>1 DEF ReplyInv, NarOpen, NarRest
  <2> QED BY <2>2, <2>3, <2>4, <2>5
<1> QED BY <1>1, SessionAlways, PTL

-----------------------------------------------------------------------------
(* One reply to an operation *)

\* A handler that has written n markers and returns with the reply s.
LEMMA ReturnMarkers ==
  ASSUME MarkerInv, NEW s, Return(s), env' = env, client' = client,
         Benign => markers + Markers(s) = 1
  PROVE  MarkerInv'
BY DEF Return, MarkerInv, Benign, SourcePc, AfterPc

\* The steps of the proxy keep the count of the markers.
LEMMA ProxyMarkers ==
  ASSUME Minor >= 17, SessionInv, MarkerInv, Proxy \/ BuildReturns
  PROVE  MarkerInv'
<1> USE DEF clientVars, envVars, hostVars, SourcePc, AfterPc
<1>1. CASE Misread
  BY <1>1 DEF Misread, MarkerInv, Benign
<1>2. CASE ReadFails
  BY <1>2 DEF ReadFails, MarkerInv, Benign
<1>3. CASE ReadOp
  BY <1>3 DEF ReadOp, MarkerInv, Benign
<1>4. CASE HandlePlain \/ AnswerQuery
  <2>0. op \in PlainOps /\ \E s \in PlainReplies(op) : Return(s)
    BY <1>4, QueriesArePlain DEF HandlePlain, AnswerQuery
  <2>1. PICK s \in PlainReplies(op) : Return(s)
    BY <2>0
  <2>2. s \in {<<"last">>, <<"error">>, <<"last", "payload">>}
    <3>1. ~(Minor < 17)
      BY SessionAssumption
    <3> QED BY <2>0, <3>1, PlainReply DEF StopWork, StopWorkWithError
  <2>3. Markers(s) = 1
    BY <2>2, MarkersOf
  <2>4. markers = 0 /\ env' = env /\ client' = client
    BY <1>4 DEF HandlePlain, AnswerQuery, MarkerInv
  <2> QED BY <2>1, <2>3, <2>4, ReturnMarkers
<1>5. CASE \/ ReadBuildArgs \/ ReadUploadArgs \/ ReadQueryArgs \/ GetBuilderOK
           \/ Connect \/ failWithDrain \/ CheckReader \/ ForwardLen \/ ForwardData
           \/ discardRawBytes \/ FlushOK
  <2>1. /\ pc \in {"args"} \union SourcePc \union AfterPc
        /\ pc' \in SourcePc \union AfterPc
        /\ markers' = markers /\ env' = env /\ daemon' \in {daemon, "up"}
    BY <1>5 DEF ReadBuildArgs, ReadUploadArgs, ReadQueryArgs, GetBuilderOK, Connect,
                ConnectFails, failWithDrain, CheckReader, ForwardLen, ForwardData,
                discardRawBytes, FlushOK, failMidUpload
  <2> QED BY <2>1 DEF MarkerInv
<1>6. CASE GetBuilderFails \/ WaitTimesOut \/ WaitReturns \/ BuildReturns
  <2>1. WithPayload = <<"last", "payload">>
    BY PairReply DEF WithPayload, StopWork, ReplyToken
  <2>2. PICK s \in {<<"last">>, <<"error">>, <<"last", "payload">>} : Return(s)
    BY <1>6, <2>1 DEF GetBuilderFails, WaitTimesOut, WaitReturns, BuildReturns,
                      StopWork, StopWorkWithError
  <2>3. Markers(s) = 1
    BY MarkersOf
  <2>4. markers = 0 /\ env' = env /\ client' = client
    BY <1>6 DEF GetBuilderFails, WaitTimesOut, WaitReturns, BuildReturns, MarkerInv
  <2> QED BY <2>2, <2>3, <2>4, ReturnMarkers
<1>7. CASE NarUnavailable \/ StartDump
  <2>1. markers = 0 /\ env' = env /\ client' = client
    BY <1>7 DEF NarUnavailable, StartDump, MarkerInv
  <2>2. CASE Return(StopWorkWithError)
    <3>1. Markers(StopWorkWithError) = 1
      BY MarkersOf DEF StopWorkWithError
    <3> QED BY <2>1, <2>2, <3>1, ReturnMarkers
  <2>3. CASE pc' = "nar" /\ markers' = markers + 1 /\ UNCHANGED hostVars
    BY <2>1, <2>3 DEF MarkerInv
  <2> QED BY <1>7, <2>2, <2>3 DEF NarUnavailable, StartDump
<1>8. CASE NarChunk
  BY <1>8 DEF NarChunk, MarkerInv
<1>9. CASE NarEnd
  <2>1. markers = 1 /\ env' = env /\ client' = client /\ Return(<<"narEnd">>)
    BY <1>9 DEF NarEnd, MarkerInv
  <2>2. Markers(<<"narEnd">>) = 0
    BY MarkersOf
  <2> QED BY <2>1, <2>2, ReturnMarkers
<1>10. CASE NarFails
  <2>1. ~Benign
    BY <1>10 DEF NarFails, MarkerInv, Benign, MildFaults
  <2>2. env' = env /\ client' = client /\ Return(<<>>)
    BY <1>10 DEF NarFails
  <2> QED BY <2>1, <2>2, ReturnMarkers
<1>11. CASE FlushFails
  <2>1. ~Benign
    BY <1>11 DEF FlushFails, MarkerInv, Benign, MildFaults
  <2>2. env' = env /\ client' = client /\ Return(<<>>)
    BY <1>11 DEF FlushFails
  <2> QED BY <2>1, <2>2, ReturnMarkers
<1>12. CASE discardFramedSourceBody
  <2>1. markers = 0 /\ env' = env /\ client' = client
    BY <1>12 DEF discardFramedSourceBody, MarkerInv
  <2>2. CASE Head(in).v = 0
    <3>1. Markers(<< reply >>) = 1
      BY MarkersOf DEF SessionInv, SessionTypeOK
    <3> QED BY <1>12, <2>1, <2>2, <3>1, ReturnMarkers DEF discardFramedSourceBody
  <2>3. CASE Head(in).v # 0
    BY <1>12, <2>1, <2>3 DEF discardFramedSourceBody, MarkerInv
  <2> QED BY <2>2, <2>3
<1> QED
  BY <1>1, <1>2, <1>3, <1>4, <1>5, <1>6, <1>7, <1>8, <1>9, <1>10, <1>11, <1>12
  DEF Proxy, Upload

\* Every step keeps the count of the markers.
LEMMA MarkerStep ==
  ASSUME Minor >= 17, SessionInv, MarkerInv, [SessionNext]_svars
  PROVE  MarkerInv'
<1>1. CASE Client
  <2>1. /\ pc' = pc /\ markers' = markers /\ env' = env /\ daemon' = daemon
        /\ client = "gone" => client' = "gone"
    BY <1>1 DEF Client, SendOp, SendFrame, ReadReply, Disconnect, proxyVars, envVars,
                hostVars
  <2> QED BY <2>1 DEF MarkerInv, Benign
<1>2. CASE Daemon \/ UNCHANGED svars
  <2>1. /\ pc' = pc /\ markers' = markers /\ env' = env /\ client' = client
        /\ daemon' = "dead" => daemon = "dead" \/ "daemonDies" \in env.faults
    BY <1>2 DEF Daemon, DaemonAccepts, DaemonRefuses, DaemonHangs, DaemonDies,
                ReaderFails, svars, clientVars, proxyVars, envVars, hostVars
  <2> QED BY <2>1 DEF MarkerInv, Benign
<1> QED BY <1>1, <1>2, ProxyMarkers DEF SessionNext

\* OneReplyPerOp: in a benign environment a handler that returns to the loop
\* has sent one reply, and not two, to a client of version 1.17 or later.
THEOREM OneReply == Minor >= 17 => (SessionSpec => []OneReplyPerOp)
<1> SUFFICES ASSUME Minor >= 17 PROVE SessionSpec => []OneReplyPerOp
  OBVIOUS
<1>1. SessionInit => MarkerInv
  BY DEF SessionInit, MarkerInv, SourcePc, AfterPc
<1>2. /\ WholeInv /\ WholeInv' /\ (cutShort \/ MarkerInv) /\ [SessionNext]_svars
        => (cutShort \/ MarkerInv)'
  BY MarkerStep, CutStays DEF WholeInv
<1>3. WholeInv /\ (cutShort \/ MarkerInv) => OneReplyPerOp
  <2>1. "earlyLast" \in env.faults => ~Benign
    BY DEF Benign, MildFaults
  <2> QED BY <2>1 DEF WholeInv, CutInv, MarkerInv, OneReplyPerOp
<1> QED BY <1>1, <1>2, <1>3, SessionAlways, PTL DEF SessionSpec

-----------------------------------------------------------------------------
(* Uploads *)

\* The steps of the client keep the count of the chunks.
LEMMA ClientUpload ==
  ASSUME SessionInv, UploadInv, Client
  PROVE  UploadInv'
<1> USE DEF Tracked, Fresh, Answered, SourcePc
<1>0. /\ pc' = pc /\ op' = op /\ env' = env /\ reply' = reply /\ fwd' = fwd
  BY DEF Client, SendOp, SendFrame, ReadReply, Disconnect, proxyVars, envVars
<1>1. ASSUME NEW o \in env.ops, SendOp(o) PROVE UploadInv'
  <2>1. o \in AllOps /\ in' = in \o OpTokens(o) /\ sent' = 0 /\ client = "idle"
    BY <1>1 DEF SendOp, OpTokens, SessionInv, SessionTypeOK, Environment
  <2>2. Tracked => pc = "readop" /\ in = <<>>
    BY <2>1 DEF SessionInv, ReplyInv
  <2>3. OpTokens(o) \in Seq(Token)
    BY <2>1, AddOp
  <2>4. in = <<>> => in' = OpTokens(o)
    BY <2>1, <2>3
  <2>5. Tracked => Data(in') = 0
    BY <2>1, <2>2, <2>4, DataNone
  <2>6. pc \notin {"connect", "check", "len", "data", "flush", "wait"}
    <3> SUFFICES ASSUME pc \in {"connect", "check", "len", "data", "flush", "wait"}
                 PROVE  FALSE
      OBVIOUS
    <3>1. op = "AddMultipleToStore"
      BY DEF SessionInv, HandlerInv
    <3> QED BY <3>1, <2>2 DEF RefusedOps
  <2> QED BY <1>0, <2>1, <2>5, <2>6 DEF UploadInv
<1>2. CASE SendFrame
  <2>1. PICK n \in Nat : in' = in \o Frame(n) /\ sent' = sent + n
    <3>1. CASE frames = 0
      <4>1. in' = in \o Frame(0) /\ sent' = sent
        BY <1>2, <3>1, SendsEnd DEF SendFrame, SessionInv, SessionTypeOK
      <4>2. sent' = sent + 0
        BY <4>1 DEF SessionInv, SessionTypeOK
      <4> QED BY <4>1, <4>2
    <3>2. CASE frames # 0
      <4>1. PICK n \in 1..MaxChunks :
              /\ in' = in \o <<Tok("len", n)>> \o [i \in 1..n |-> Tok("data", 0)]
              /\ sent' = sent + n
        BY <1>2, <3>2 DEF SendFrame
      <4>2. n \in Nat
        BY SessionAssumption
      <4>3. in' = in \o Frame(n)
        BY <4>1, <4>2, SendsFrame DEF SessionInv, SessionTypeOK
      <4> QED BY <4>1, <4>2, <4>3
    <3> QED BY <3>1, <3>2
  <2>2. Data(in') = Data(in) + n /\ Data(in) \in Nat
    BY <2>1, DataFrame, DataType DEF SessionInv, SessionTypeOK
  <2>3. Tracked => (pc = "readop" => in # <<>>)
    BY <1>2 DEF SendFrame, SessionInv, SourceInv
  <2>4. sent \in Nat /\ fwd \in Nat
    BY DEF SessionInv, SessionTypeOK
  <2>5. Tracked' /\ (Fresh \/ pc = "args")' => sent' = Data(in')
    BY <1>0, <2>1, <2>2, <2>3, <2>4 DEF UploadInv
  <2>6. pc' \in {"connect", "check", "len", "data", "flush", "wait"}
          => sent' = fwd' + Data(in')
    <3>1. pc' \in {"connect", "check", "len", "data", "flush", "wait"}
            => sent = fwd + Data(in)
      BY <1>0 DEF UploadInv
    <3>2. sent = fwd + Data(in) => sent + n = fwd + (Data(in) + n)
      BY <2>2, <2>4
    <3> QED BY <1>0, <2>1, <2>2, <3>1, <3>2
  <2> QED BY <1>0, <2>5, <2>6 DEF UploadInv
<1>3. CASE ReadReply \/ Disconnect
  <2>1. in' = in /\ sent' = sent
    BY <1>3 DEF ReadReply, Disconnect
  <2> QED BY <1>0, <2>1 DEF UploadInv
<1> QED BY <1>1, <1>2, <1>3 DEF Client

\* The steps of the proxy keep the count of the chunks.
LEMMA ProxyUpload ==
  ASSUME SessionInv, UploadInv, Proxy \/ BuildReturns, ~cutShort'
  PROVE  UploadInv'
<1> USE DEF clientVars, envVars, hostVars, Tracked, Fresh, SourcePc, AfterPc
<1>1. CASE ReadOp
  <2>1. /\ Fresh /\ in' = Tail(in) /\ sent' = sent /\ Head(in).k = "op"
        /\ pc' \in {"readop", "args"} /\ in \in Seq(Token)
        /\ pc' = "readop" => op' \in RefusedOps
    BY <1>1 DEF ReadOp, Has, RefusedOps, SessionInv, SessionTypeOK
  <2>2. Tracked
    BY <1>1, ReadOpStep
  <2>3. Data(in') = Data(in)
    BY <2>1, DataTake
  <2> QED BY <2>1, <2>2, <2>3 DEF UploadInv
<1>2. CASE ReadUploadArgs
  <2>1. /\ pc = "args" /\ in # <<>> /\ Head(in).k = "args" /\ in' = Tail(in)
        /\ sent' = sent /\ fwd' = 0 /\ env' = env /\ in \in Seq(Token)
        /\ pc' = (IF env.storeHost THEN "connect" ELSE "drain")
    BY <1>2 DEF ReadUploadArgs, Has, SessionInv, SessionTypeOK
  <2>2. Data(in') = Data(in) /\ Data(in) \in Nat
    BY <2>1, DataTake, DataType
  <2>3. sent = Data(in) /\ 0 + Data(in) = Data(in)
    BY <2>1, <2>2 DEF UploadInv
  <2> QED BY <2>1, <2>2, <2>3 DEF UploadInv
<1>3. CASE Connect \/ failWithDrain \/ CheckReader \/ FlushOK
  <2>1. /\ in' = in /\ sent' = sent /\ fwd' = fwd /\ env' = env
        /\ pc \in {"connect", "check", "flush"}
        /\ \/ pc' \in {"check", "len", "wait"}
           \/ pc' = "drain" /\ reply' = "error"
    BY <1>3 DEF Connect, ConnectFails, failWithDrain, CheckReader, FlushOK, failMidUpload
  <2> QED BY <2>1 DEF UploadInv
<1>4. CASE ForwardLen
  <2>1. /\ in # <<>> /\ Head(in).k = "len" /\ in' = Tail(in) /\ sent' = sent
        /\ fwd' = fwd /\ env' = env /\ pc = "len" /\ in \in Seq(Token)
        /\ \/ pc' \in {"flush", "data"}
           \/ pc' \in {"rest", "drain"} /\ reply' = "error"
    BY <1>4 DEF ForwardLen, failMidUpload, Has, SessionInv, SessionTypeOK
  <2>2. Data(in') = Data(in)
    BY <2>1, DataTake
  <2> QED BY <2>1, <2>2 DEF UploadInv
<1>5. CASE ForwardData
  <2>1. /\ in # <<>> /\ Head(in).k = "data" /\ in' = Tail(in) /\ sent' = sent
        /\ env' = env /\ pc = "data" /\ in \in Seq(Token)
        /\ \/ pc' \in {"check", "data"} /\ fwd' = fwd + 1
           \/ pc' \in {"rest", "drain"} /\ reply' = "error"
    BY <1>5 DEF ForwardData, failMidUpload, Has, SessionInv, SessionTypeOK
  <2>2. Data(in') = Data(in) - 1 /\ Data(in) \in Nat
    BY <2>1, DataTake, DataType
  <2>3. sent = fwd + Data(in) /\ fwd \in Nat
    BY <2>1 DEF UploadInv, SessionInv, SessionTypeOK
  <2>4. sent = (fwd + 1) + Data(in')
    BY <2>2, <2>3
  <2> QED BY <2>1, <2>4 DEF UploadInv
<1>6. CASE discardRawBytes
  <2>1. pc = "rest" /\ pc' \in {"rest", "drain"} /\ reply' = reply /\ env' = env
    BY <1>6 DEF discardRawBytes
  <2> QED BY <2>1 DEF UploadInv
<1>7. CASE discardFramedSourceBody
  <2>1. pc = "drain" /\ reply' = reply /\ env' = env /\ op' = op
    BY <1>7 DEF discardFramedSourceBody
  <2>2. CASE Head(in).v # 0
    <3>1. pc' = "rest"
      BY <1>7, <2>2 DEF discardFramedSourceBody
    <3> QED BY <2>1, <3>1 DEF UploadInv
  <2>3. CASE Head(in).v = 0
    <3>1. pc' = "readop" /\ in' = <<>>
      BY <1>7, <2>1, <2>3, TakeLen DEF discardFramedSourceBody, Return
    <3> QED BY <3>1 DEF UploadInv
  <2> QED BY <2>2, <2>3
<1>8. CASE ReadBuildArgs \/ GetBuilderOK \/ ReadQueryArgs \/ NarChunk
  <2>1. pc' \in {"get", "build", "ask", "nar"}
    BY <1>8 DEF ReadBuildArgs, GetBuilderOK, ReadQueryArgs, NarChunk
  <2> QED BY <2>1 DEF UploadInv
<1>9. CASE \/ GetBuilderFails \/ BuildReturns \/ NarEnd \/ NarFails \/ FlushFails
           \/ WaitReturns \/ WaitTimesOut \/ AnswerQuery \/ StartDump
  <2>1. pc \in AfterPc \union {"nar"} /\ pc' \in {"readop", "nar"} /\ in' = in
    BY <1>9 DEF AnswerQuery, StartDump, GetBuilderFails, BuildReturns, NarEnd, NarFails, FlushFails,
                WaitReturns, WaitTimesOut, Return
  <2>2. in = <<>>
    BY <2>1, AtWork, AtNar
  <2> QED BY <2>1, <2>2 DEF UploadInv
<1>10. CASE HandlePlain \/ NarUnavailable
  <2>1. /\ pc = "args" /\ pc' = "readop" /\ op' = op
        /\ Has("args") /\ in' = Tail(in)
        /\ op \in PlainOps \union {"NarFromPath"}
    BY <1>10 DEF HandlePlain, NarUnavailable, Return
  <2>2. op \in RefusedOps \/ op \notin FramedOps
    BY <2>1 DEF PlainOps, AllOps, FramedOps, RefusedOps
  <2>3. op \notin FramedOps => in' = <<>>
    BY <2>1, TakeArgs
  <2> QED BY <2>1, <2>2, <2>3 DEF UploadInv
<1>11. CASE Misread \/ ReadFails
  <2>1. \/ pc' \in {"garbled", "closed"}
        \/ pc' = "readop" /\ in' = <<>>
    BY <1>11 DEF Misread, ReadFails
  <2> QED BY <2>1 DEF UploadInv
<1> QED
  BY <1>1, <1>2, <1>3, <1>4, <1>5, <1>6, <1>7, <1>8, <1>9, <1>10, <1>11
  DEF Proxy, Upload

\* Every step keeps the count of the chunks.
LEMMA UploadStep ==
  ASSUME SessionInv, UploadInv, [SessionNext]_svars, ~cutShort'
  PROVE  UploadInv'
<1>1. CASE Daemon \/ UNCHANGED svars
  <2>1. /\ pc' = pc /\ env' = env /\ op' = op /\ in' = in /\ sent' = sent
        /\ fwd' = fwd /\ reply' = reply
    BY <1>1 DEF Daemon, DaemonAccepts, DaemonRefuses, DaemonHangs, DaemonDies,
                ReaderFails, svars, clientVars, proxyVars, envVars, hostVars
  <2> QED BY <2>1 DEF UploadInv, Tracked, Fresh
<1> QED BY <1>1, ClientUpload, ProxyUpload DEF SessionNext

\* The reply to an upload that reached the store host.
LEMMA HonestStep ==
  ASSUME WholeInv, cutShort \/ UploadInv, [SessionNext]_svars,
         pc # "readop", pc' = "readop", op = "AddMultipleToStore", env.storeHost,
         markers' > markers, client # "gone", out' = out \o StopWork
  PROVE  readErr = "ok" /\ fwd = sent
<1> USE DEF SourcePc, AfterPc
<1>1. \/ HandlePlain \/ AnswerQuery \/ ReadFails \/ GetBuilderFails \/ BuildReturns
      \/ NarUnavailable \/ StartDump \/ NarEnd \/ NarFails \/ discardFramedSourceBody
      \/ FlushFails \/ WaitReturns \/ WaitTimesOut
  <2>1. ~(Client \/ Daemon \/ UNCHANGED svars)
    BY DEF Client, Daemon, SendOp, SendFrame, ReadReply, Disconnect, DaemonAccepts,
       DaemonRefuses, DaemonHangs, DaemonDies, ReaderFails, svars, proxyVars
  <2>2. ~(Misread \/ ReadOp \/ ReadQueryArgs \/ ReadBuildArgs \/ GetBuilderOK \/ NarChunk)
    BY DEF Misread, ReadOp, ReadQueryArgs, ReadBuildArgs, GetBuilderOK, NarChunk
  <2>3. ~(ReadUploadArgs \/ Connect \/ failWithDrain \/ CheckReader \/ ForwardLen
          \/ ForwardData \/ discardRawBytes \/ FlushOK)
    BY DEF ReadUploadArgs, Connect, failWithDrain, CheckReader, ForwardLen,
       ForwardData, discardRawBytes, FlushOK, failMidUpload
  <2> QED BY <2>1, <2>2, <2>3 DEF SessionNext, Proxy, Upload
<1>2. ~(HandlePlain \/ AnswerQuery \/ ReadFails \/ GetBuilderFails \/ BuildReturns
         \/ NarUnavailable \/ StartDump \/ NarEnd \/ NarFails)
  <2>1. ~HandlePlain /\ ~AnswerQuery /\ ~NarUnavailable /\ ~StartDump
    BY DEF HandlePlain, AnswerQuery, PlainOps, StoreQueries, NarUnavailable, StartDump
  <2>2. ~ReadFails
    BY DEF ReadFails
  <2>3. pc \notin {"get", "build", "nar"}
    BY DEF WholeInv, CutInv, SessionInv, HandlerInv
  <2> QED BY <2>1, <2>2, <2>3 DEF GetBuilderFails, BuildReturns, NarEnd, NarFails
<1>3. out \in Seq(ReplyToken) /\ markers \in Nat
  BY DEF WholeInv, SessionTypeOK
<1>4. ~Return(<<"error">>)
  <2>1. out \o <<"error">> # out \o <<"last">>
    <3> DEFINE a == <<"error">>
               b == <<"last">>
    <3>1. /\ a \in Seq(ReplyToken) /\ Len(a) = 1 /\ a[1] = "error"
          /\ b \in Seq(ReplyToken) /\ Len(b) = 1 /\ b[1] = "last"
      BY DEF ReplyToken
    <3> HIDE DEF a, b
    <3>2. /\ \A i \in 1..Len(a) : (out \o a)[Len(out) + i] = a[i]
          /\ \A i \in 1..Len(b) : (out \o b)[Len(out) + i] = b[i]
      BY <1>3, <3>1, JoinReplies
    <3>3. (out \o a)[Len(out) + 1] = "error" /\ (out \o b)[Len(out) + 1] = "last"
      BY <3>1, <3>2
    <3> QED BY <3>3 DEF a, b
  <2> QED BY <2>1 DEF Return, Write, StopWork
<1>5. ~Return(<<>>)
  BY <1>3, MarkersOf DEF Return
<1>6. ~FlushFails /\ ~WaitTimesOut
  BY <1>4, <1>5 DEF FlushFails, WaitTimesOut, StopWorkWithError
<1>7. ~discardFramedSourceBody
  <2> SUFFICES ASSUME discardFramedSourceBody PROVE FALSE
    OBVIOUS
  <2>1. pc = "drain" /\ Return(<< reply >>)
    BY DEF discardFramedSourceBody
  <2>2. reply = "error"
    BY <2>1 DEF UploadInv, WholeInv, CutInv
  <2> QED BY <2>1, <2>2, <1>4
<1>8. WaitReturns
  BY <1>1, <1>2, <1>6, <1>7
<1>9. pc = "wait" /\ readErr = "ok"
  BY <1>8, <1>4 DEF WaitReturns, StopWorkWithError
<1>10. fwd = sent
  <2>0. SessionInv /\ UploadInv
    BY <1>9 DEF WholeInv, CutInv
  <2>1. in = <<>> /\ sent = fwd + Data(in) /\ fwd \in Nat
    BY <1>9, <2>0, AtWork DEF UploadInv, SessionInv, SessionTypeOK
  <2> QED BY <2>1, DataNone
<1> QED BY <1>9, <1>10

\* UploadHonest: a client is told that its upload succeeded only when the
\* daemon on the store host has accepted it and had every chunk that the
\* client sent, whatever failed on the way.
THEOREM UploadIsHonest == SessionSpec => UploadHonest
<1>1. SessionInit => UploadInv
  <2> SUFFICES ASSUME SessionInit PROVE UploadInv
    OBVIOUS
  <2> QED BY DEF SessionInit, UploadInv, Tracked, Fresh
<1>2. /\ WholeInv /\ (cutShort \/ UploadInv) /\ [SessionNext]_svars
        => (cutShort \/ UploadInv)'
  BY UploadStep, CutStays DEF WholeInv
<1>3. WholeInv /\ (cutShort \/ UploadInv) /\ [SessionNext]_svars =>
        [pc # "readop" /\ pc' = "readop" /\ op = "AddMultipleToStore" /\ env.storeHost
           /\ markers' > markers /\ client # "gone" /\ out' = out \o StopWork
         => readErr = "ok" /\ fwd = sent]_svars
  BY HonestStep
<1> QED BY <1>1, <1>2, <1>3, SessionAlways, PTL DEF SessionSpec, UploadHonest

=============================================================================
