---------------------------- MODULE NixWireProofs ----------------------------
(***************************************************************************)
(* Proofs about the sessions of NixWire, for any derivation and any        *)
(* environment in which every peer has version 1.38 or later and the store *)
(* host does not end AddSignatures by a word (Regular).                    *)
(*                                                                         *)
(* Whatever the buffers and the wires hold, each connection is in the      *)
(* middle of one of the conversations of NixWireLemmas: running the reader *)
(* over the words that are still on their way brings both ends to a point  *)
(* that the conversation has.  The invariant (WireInv) says in which       *)
(* conversation each connection is, for each part of a session.            *)
(***************************************************************************)
EXTENDS NixWireSteps

-----------------------------------------------------------------------------
(* The invariant *)

\* The sessions in which every peer can talk to the proxy.
Regular == (\A c \in Conn : Modern(c)) /\ ~env.acks

\* What is true in every part of a session.
Facts ==
  /\ Shape /\ env \in Environment /\ misread = {}
  /\ ClientFacts(env, registered, answer, closed, ConvOf("client"))
  /\ DaemonFacts("builder", closed, ConvOf("builder")) /\ DaemonFacts("store", closed, ConvOf("store"))
  /\ IsMem(Knows) /\ IsSeq(Knows.fields)
  /\ answer = "error" => Excuse(env, cancelled)
  /\ env.caller = "job" /\ answer = "result" => GotOK(env, Knows)

\* A daemon is closed for a reason.
BuilderUp == "builder" \in closed => Excuse(env, cancelled)
StoreUp == "store" \in closed => "store" \in env.dies /\ ConvOf("store")[1] = <<>>
\* Nobody has talked to the builder, or to the store host.
NewBuilder(bm) == bm = <<handshakeWithBuilder, Asked>>
NewStore(sm) == sm = <<"signing", handshakeWithBuilder, Result(env)>>
\* The caller waits.
Calls(cm) ==
  \/ env.caller = "client" /\ cm = <<"idle">> /\ ~cancelled
  \/ env.caller = "job" /\ cm = <<"gone">>
\* The proxy knows the result, in which the outputs of T may still be signed.
Good(T) == ResultOK(env, registered, Knows) /\ LeftIn(env, Knows, T) /\ answer # "result" /\ env.caller = "client"
Visits(T, cm) == Good(T) /\ cm = <<"idle">> /\ toSign \subseteq Names(env) /\ StoreUp

\* The parts of a session, and what the connections are like in each.
SOpening(cm, bm, sm) ==
  /\ env.caller = "client" /\ phase \in {"handshake", "op", "args"} /\ cm = <<"opening", Program, Knows>>
  /\ NewBuilder(bm) /\ NewStore(sm) /\ ~cancelled /\ BuilderUp /\ StoreUp /\ answer # "result"
SStart(cm, bm, sm) ==
  /\ env.caller = "job" /\ phase = "build" /\ Program = Do("GetBuilder") /\ Knows = Asked /\ cm = <<"gone">>
  /\ NewBuilder(bm) /\ NewStore(sm) /\ BuilderUp /\ StoreUp /\ answer # "result"
SBuilding(cm, bm, sm) ==
  /\ phase = "build" /\ Calls(cm) /\ bm = <<Program, Knows>> /\ NewStore(sm)
  /\ BuilderUp /\ StoreUp /\ answer # "result"
SFailure(cm, bm, sm) ==
  /\ phase = "build" /\ Calls(cm) /\ Program = Do("BuildFailed") /\ NewStore(sm)
  /\ Excuse(env, cancelled) /\ StoreUp /\ answer # "result"
SJobDone(cm, bm, sm) == env.caller = "job" /\ phase = "build" /\ Program = <<>> /\ cm = <<"gone">> /\ NewStore(sm)
SSigning(cm, bm, sm) == phase = "signing" /\ sm = <<"signing", Program, Knows>> /\ Visits(toSign, cm)
SAsking(cm, bm, sm) ==
  phase = "output" /\ \E o \in Names(env) : sm = <<"asking", o, Program, Knows>> /\ Visits(toSign \union {o}, cm)
SVisiting(cm, bm, sm) ==
  /\ phase = "output" /\ Program = Do("NextOutput") /\ Knows.fields = <<>> /\ sm = <<"rests">>
  /\ Visits(toSign, cm)
DeadProgram(p) == p = Do("NextOutput") \/ \E w, q : IsSeq(q) /\ p \in {Send(w) \o q, Flush \o q}
SDead(cm, bm, sm) ==
  /\ phase = "output" /\ DeadProgram(Program) /\ sm = <<"dead">> /\ "store" \in closed
  /\ Visits(toSign, cm)
SReply(cm, bm, sm) ==
  /\ phase \in {"build", "signing", "output"} /\ Program = Do("Reply") /\ Good({}) /\ cm = <<"idle">>
  /\ sm[1] # "asking" /\ StoreUp
SAnswering(cm, bm, sm) ==
  /\ env.caller = "client" /\ phase \in {"failed", "reply", "op", "args"} /\ cm = <<"answering", Program, Knows>>
  /\ sm[1] # "asking"
SLost(cm, bm, sm) ==
  /\ env.caller = "client" /\ "client" \in closed /\ sm[1] # "asking" /\ phase # "build"
  /\ \/ Program \in {Do("End"), <<>>} /\ cm = <<"gone">>
     \/ /\ Program \in {Do("Return"), Do("ReadOp"), ReadOp} /\ cm = <<"cut">>
        /\ Program = ReadOp => phase = "op"
Plan(cm, bm, sm) ==
  \/ SOpening(cm, bm, sm) \/ SStart(cm, bm, sm) \/ SBuilding(cm, bm, sm) \/ SFailure(cm, bm, sm)
  \/ SJobDone(cm, bm, sm) \/ SSigning(cm, bm, sm) \/ SAsking(cm, bm, sm) \/ SVisiting(cm, bm, sm)
  \/ SDead(cm, bm, sm) \/ SReply(cm, bm, sm) \/ SAnswering(cm, bm, sm) \/ SLost(cm, bm, sm)
Links3(cm, bm, sm) ==
  /\ ClientIn(env, registered, answer, cm, ConvOf("client"))
  /\ BuilderIn(env, bm, ConvOf("builder"))
  /\ StoreIn(env, registered, sm, ConvOf("store"))
WireInv == Facts /\ \E cm, bm, sm : Plan(cm, bm, sm) /\ Links3(cm, bm, sm)

-----------------------------------------------------------------------------
(* Steps of the peers *)

\* A step that leaves the proxy alone.
PeerOnly ==
  /\ Program' = Program /\ Knows' = Knows /\ UNCHANGED <<env, phase, toSign, cancelled>>
  /\ registered \subseteq registered' /\ closed \subseteq closed'
  /\ BuilderUp => BuilderUp'
  /\ StoreUp => StoreUp'
\* A result stays good when more signatures are registered.
LEMMA GoodMore ==
  ASSUME NEW e, NEW rg, NEW sg, rg \subseteq sg, NEW b
  PROVE  /\ ResultOK(e, rg, b) => ResultOK(e, sg, b)
         /\ \A S : Sound(S, rg) => Sound(S, sg)
  BY DEF ResultOK, Sound
\* Then the session is in the same part as before.
LEMMA PlanPeers ==
  ASSUME PeerOnly, answer' = answer \/ (answer = "none" /\ answer' = "error"), NEW cm, NEW bm, NEW sm, Plan(cm, bm, sm)
  PROVE  Plan(cm, bm, sm)'
<1>0. /\ Program' = Program /\ Knows' = Knows /\ env' = env /\ phase' = phase /\ toSign' = toSign /\ cancelled' = cancelled
      /\ closed \subseteq closed' /\ (BuilderUp => BuilderUp') /\ (StoreUp => StoreUp')
      /\ (answer # "result" => answer' # "result")
  BY DEF PeerOnly
<1>1. NewBuilder(bm)' = NewBuilder(bm) /\ NewStore(sm)' = NewStore(sm) /\ Calls(cm)' = Calls(cm)
  BY <1>0 DEF NewBuilder, NewStore, Calls
<1>2. \A T : Good(T) => Good(T)'
  <2>1. ResultOK(env, registered, Knows) => ResultOK(env, registered', Knows)
    BY GoodMore DEF PeerOnly
  <2>2. QED
    BY <1>0, <2>1 DEF Good
<1>3. \A T : Visits(T, cm) => Visits(T, cm)'
  BY <1>0, <1>2 DEF Visits
<1>4. CASE SOpening(cm, bm, sm)
  BY <1>0, <1>1, <1>4 DEF SOpening, Plan
<1>5. CASE SStart(cm, bm, sm)
  BY <1>0, <1>1, <1>5 DEF SStart, Plan
<1>6. CASE SBuilding(cm, bm, sm)
  BY <1>0, <1>1, <1>6 DEF SBuilding, Plan
<1>7. CASE SFailure(cm, bm, sm)
  BY <1>0, <1>1, <1>7 DEF SFailure, Plan
<1>8. CASE SJobDone(cm, bm, sm)
  BY <1>0, <1>1, <1>8 DEF SJobDone, Plan
<1>9. CASE SSigning(cm, bm, sm)
  <2>1. SSigning(cm, bm, sm)'
    BY <1>0, <1>3, <1>9 DEF SSigning
  <2>2. QED
    BY <2>1 DEF Plan
<1>10. CASE SAsking(cm, bm, sm)
  <2>1. PICK o \in Names(env) : sm = <<"asking", o, Program, Knows>> /\ Visits(toSign \union {o}, cm)
    BY <1>10 DEF SAsking
  <2>2. Visits(toSign \union {o}, cm)'
    BY <1>0, <1>3, <2>1
  <2>3. SAsking(cm, bm, sm)'
    BY <1>0, <1>10, <2>1, <2>2, Zenon DEF SAsking
  <2>4. QED
    BY <2>3 DEF Plan
<1>11. CASE SVisiting(cm, bm, sm)
  <2>1. SVisiting(cm, bm, sm)'
    BY <1>0, <1>3, <1>11 DEF SVisiting
  <2>2. QED
    BY <2>1 DEF Plan
<1>12. CASE SDead(cm, bm, sm)
  <2>1. SDead(cm, bm, sm)'
    BY <1>0, <1>3, <1>12 DEF SDead
  <2>2. QED
    BY <2>1 DEF Plan
<1>13. CASE SReply(cm, bm, sm)
  <2>1. SReply(cm, bm, sm)'
    BY <1>0, <1>2, <1>13 DEF SReply
  <2>2. QED
    BY <2>1 DEF Plan
<1>14. CASE SAnswering(cm, bm, sm)
  BY <1>0, <1>14 DEF SAnswering, Plan
<1>15. CASE SLost(cm, bm, sm)
  BY <1>0, <1>15 DEF SLost, Plan
<1>16. QED
  BY <1>4, <1>5, <1>6, <1>7, <1>8, <1>9, <1>10, <1>11, <1>12, <1>13, <1>14, <1>15 DEF Plan
\* The facts about a party do not depend on the connections of the others.
LEMMA FactsMore ==
  ASSUME NEW cl, NEW dl, cl \subseteq dl, NEW K
  PROVE  /\ \A c : DaemonFacts(c, cl, K) => DaemonFacts(c, dl, K)
         /\ \A e, rg, an : ClientFacts(e, rg, an, cl, K) /\ ("client" \in dl => "client" \in cl)
              => ClientFacts(e, rg, an, dl, K)
         /\ \A e, rg, sg, an : ClientFacts(e, rg, an, cl, K) /\ rg \subseteq sg => ClientFacts(e, sg, an, cl, K)
<1>1. \A c : DaemonFacts(c, cl, K) => DaemonFacts(c, dl, K)
  BY DEF DaemonFacts
<1>2. \A e, rg, an : ClientFacts(e, rg, an, cl, K) /\ ("client" \in dl => "client" \in cl)
              => ClientFacts(e, rg, an, dl, K)
  BY Zenon DEF ClientFacts
<1>3. \A e, rg, sg, an : ClientFacts(e, rg, an, cl, K) /\ rg \subseteq sg => ClientFacts(e, sg, an, cl, K)
  <2>1. \A S, rg, sg : Sound(S, rg) /\ rg \subseteq sg => Sound(S, sg)
    BY DEF Sound
  <2>2. QED
    BY <2>1, Zenon DEF ClientFacts
<1>4. QED
  BY <1>1, <1>2, <1>3

\* A step of a daemon.
LEMMA DaemonOnly ==
  ASSUME NEW c \in {"builder", "store"}, NEW K, NEW L, IsConv(c, K, L), DaemonKept(c, K, L)
  PROVE  PeerOnly
<1>1. /\ Alone(c) /\ UNCHANGED <<registered, answer>> /\ (K[1] = <<>> => L[1] = <<>>)
      /\ closed' = closed \/ (closed' = closed \union {c} /\ c \in env.dies /\ L[1] = <<>>)
  BY DEF DaemonKept
<1>2. /\ Program' = Program /\ Knows' = Knows /\ UNCHANGED <<env, phase, toSign, cancelled>>
      /\ \A d \in Conn : d # c => ConvOf(d)' = ConvOf(d)
  BY <1>1 DEF Alone
<1>3. ASSUME BuilderUp PROVE BuilderUp'
  <2>1. c \in env.dies => Excuse(env, cancelled)
    BY DEF Excuse
  <2>2. QED
    BY <1>1, <1>2, <1>3, <2>1 DEF BuilderUp
<1>4. ASSUME StoreUp PROVE StoreUp'
  <2>1. CASE c = "store"
    <3>1. K[1] = ConvOf("store")[1] /\ L[1] = ConvOf("store")'[1]
      BY <2>1 DEF IsConv
    <3>2. QED
      BY <1>1, <1>2, <1>4, <2>1, <3>1 DEF StoreUp
  <2>2. CASE c = "builder"
    <3>1. ConvOf("store")' = ConvOf("store")
      BY <1>2, <2>2 DEF Conn
    <3>2. QED
      BY <1>1, <1>2, <1>4, <2>2, <3>1 DEF StoreUp
  <2>3. QED
    BY <2>1, <2>2
<1>5. QED
  BY <1>1, <1>2, <1>3, <1>4 DEF PeerOnly

\* A step of a peer, but for the client's and the daemon's own.
LEMMA DaemonInv ==
  ASSUME WireInv, NEW c \in {"builder", "store"}, Ordinary(c)
  PROVE  WireInv'
<1>1. PICK cm, bm, sm : Plan(cm, bm, sm) /\ Links3(cm, bm, sm)
  BY DEF WireInv
<1>2. Facts
  BY DEF WireInv
<1>3. PICK e, K, L : e = env /\ K = ConvOf(c) /\ L = ConvOf(c)'
  OBVIOUS
<1>4. IsConv(c, K, L)
  BY <1>3 DEF IsConv
<1>5. Shape /\ DaemonFacts(c, closed, K)
  BY <1>2, <1>3 DEF Facts
<1>6. /\ DaemonKept(c, K, L)
      /\ c = "builder" => BuilderIn(e, bm, L)
      /\ c = "store" => StoreIn(e, registered, sm, L)
  <2>1. CASE c = "builder"
    <3>1. BuilderIn(e, bm, K)
      BY <1>1, <1>3, <2>1 DEF Links3
    <3>2. QED
      BY <1>3, <1>4, <1>5, <2>1, <3>1, BuilderKept
  <2>2. CASE c = "store"
    <3>1. PICK rg : rg = registered
      OBVIOUS
    <3>2. StoreIn(e, rg, sm, K)
      BY <1>1, <1>3, <2>2, <3>1 DEF Links3
    <3>3. DaemonKept("store", K, L) /\ StoreIn(e, rg, sm, L)
      BY <1>3, <1>4, <1>5, <2>2, <3>2, StoreKept
    <3>4. QED
      BY <2>2, <3>1, <3>3
  <2>3. QED
    BY <2>1, <2>2
<1>7. PeerOnly
  BY <1>4, <1>6, DaemonOnly
<1>8. /\ misread' = misread /\ DaemonFacts(c, closed', L) /\ registered' = registered /\ answer' = answer /\ Alone(c)
      /\ closed \subseteq closed' /\ ("client" \in closed' => "client" \in closed)
  BY <1>6 DEF DaemonKept
<1>9. /\ Shape' /\ Program' = Program /\ Knows' = Knows /\ env' = env /\ phase' = phase /\ toSign' = toSign /\ cancelled' = cancelled
      /\ \A d \in Conn : d # c => ConvOf(d)' = ConvOf(d)
  BY <1>8 DEF Alone
<1>10. Plan(cm, bm, sm)'
  BY <1>1, <1>7, <1>8, PlanPeers
<1>11. ConvOf("client")' = ConvOf("client")
  BY <1>9 DEF Conn
<1>12. DaemonFacts("builder", closed', ConvOf("builder")') /\ DaemonFacts("store", closed', ConvOf("store")')
  <2>1. \A d \in {"builder", "store"} : DaemonFacts(d, closed', ConvOf(d)')
    <3>1. TAKE d \in {"builder", "store"}
    <3>2. CASE d = c
      BY <1>3, <1>8, <3>2
    <3>3. CASE d # c
      <4>1. ConvOf(d)' = ConvOf(d)
        BY <1>9, <3>3 DEF Conn
      <4>2. DaemonFacts(d, closed, ConvOf(d))
        BY <1>2 DEF Facts
      <4>3. QED
        BY <1>8, <4>1, <4>2, FactsMore, Zenon
    <3>4. QED
      BY <3>2, <3>3
  <2>2. QED
    BY <2>1
<1>13. ClientFacts(env, registered, answer, closed', ConvOf("client"))
  <2>1. ClientFacts(env, registered, answer, closed, ConvOf("client"))
    BY <1>2 DEF Facts
  <2>2. QED
    BY <1>8, <2>1, FactsMore
<1>14. Facts'
  BY <1>2, <1>8, <1>9, <1>11, <1>12, <1>13 DEF Facts
<1>15. Links3(cm, bm, sm)'
  <2>1. ClientIn(env', registered', answer', cm, ConvOf("client")')
    BY <1>1, <1>8, <1>9, <1>11 DEF Links3
  <2>2. BuilderIn(env', bm, ConvOf("builder")')
    <3>1. CASE c = "builder"
      BY <1>3, <1>6, <1>9, <3>1
    <3>2. CASE c = "store"
      <4>1. ConvOf("builder")' = ConvOf("builder")
        BY <1>9, <3>2 DEF Conn
      <4>2. QED
        BY <1>1, <1>9, <4>1 DEF Links3
    <3>3. QED
      BY <3>1, <3>2
  <2>3. StoreIn(env', registered', sm, ConvOf("store")')
    <3>1. CASE c = "store"
      BY <1>3, <1>6, <1>8, <1>9, <3>1
    <3>2. CASE c = "builder"
      <4>1. ConvOf("store")' = ConvOf("store")
        BY <1>9, <3>2 DEF Conn
      <4>2. QED
        BY <1>1, <1>8, <1>9, <4>1 DEF Links3
    <3>3. QED
      BY <3>1, <3>2
  <2>4. QED
    BY <2>1, <2>2, <2>3 DEF Links3
<1>16. QED
  BY <1>10, <1>14, <1>15 DEF WireInv
\* The client of a job is nobody, and a client is answered in one part only.
LEMMA PlanModes ==
  ASSUME NEW cm, NEW bm, NEW sm, Plan(cm, bm, sm)
  PROVE  /\ cm[1] # "gone" => env.caller = "client"
         /\ cm[1] = "answering" => SAnswering(cm, bm, sm)
<1>1. \/ env.caller = "client" /\ cm = <<"opening", Program, Knows>>
      \/ cm = <<"gone">>
      \/ env.caller = "client" /\ cm = <<"idle">>
      \/ env.caller = "client" /\ cm = <<"cut">>
      \/ SAnswering(cm, bm, sm)
  <2>1. SOpening(cm, bm, sm) => env.caller = "client" /\ cm = <<"opening", Program, Knows>>
    BY DEF SOpening
  <2>2. SStart(cm, bm, sm) \/ SJobDone(cm, bm, sm) => cm = <<"gone">>
    BY DEF SStart, SJobDone
  <2>3. SBuilding(cm, bm, sm) \/ SFailure(cm, bm, sm) => cm = <<"gone">> \/ (env.caller = "client" /\ cm = <<"idle">>)
    BY DEF SBuilding, SFailure, Calls
  <2>4. \A T : Visits(T, cm) => env.caller = "client" /\ cm = <<"idle">>
    BY DEF Visits, Good
  <2>5. SSigning(cm, bm, sm) \/ SAsking(cm, bm, sm) \/ SVisiting(cm, bm, sm) \/ SDead(cm, bm, sm)
          => env.caller = "client" /\ cm = <<"idle">>
    BY <2>4, Zenon DEF SSigning, SAsking, SVisiting, SDead
  <2>6. SReply(cm, bm, sm) => env.caller = "client" /\ cm = <<"idle">>
    BY DEF SReply, Good
  <2>7. SLost(cm, bm, sm) => env.caller = "client" /\ cm \in {<<"gone">>, <<"cut">>}
    BY DEF SLost
  <2>8. QED
    BY <2>1, <2>2, <2>3, <2>5, <2>6, <2>7 DEF Plan
<1>2. SAnswering(cm, bm, sm) => env.caller = "client"
  BY DEF SAnswering
<1>3. cm[1] = "answering" => SAnswering(cm, bm, sm)
  BY <1>1
<1>4. cm[1] # "gone" => env.caller = "client"
  BY <1>1, <1>2
<1>5. QED
  BY <1>3, <1>4

\* A step of the client.
LEMMA ClientInv ==
  ASSUME WireInv, Ordinary("client")
  PROVE  WireInv'
<1>1. PICK cm, bm, sm : Plan(cm, bm, sm) /\ Links3(cm, bm, sm)
  BY DEF WireInv
<1>2. Facts
  BY DEF WireInv
<1>3. PICK e, K, L : e = env /\ K = ConvOf("client") /\ L = ConvOf("client")'
  OBVIOUS
<1>4. IsConv("client", K, L)
  BY <1>3 DEF IsConv
<1>5. Shape /\ ClientFacts(e, registered, answer, closed, K) /\ e.caller \in {"client", "job"}
  BY <1>2, <1>3 DEF Facts, Environment
<1>6. ClientIn(e, registered, answer, cm, K)
  BY <1>1, <1>3 DEF Links3
<1>7. cm[1] # "gone" => e.caller = "client"
  BY <1>1, <1>3, PlanModes
<1>8. ClientKept(e, K, L) /\ ClientIn(e, registered', answer', cm, L)
  BY <1>3, <1>4, <1>5, <1>6, <1>7, ClientKeeps
<1>9. /\ misread' = misread /\ Alone("client") /\ registered' = registered
      /\ ClientFacts(e, registered', answer', closed', L)
      /\ closed' = closed \/ closed' = closed \union {"client"}
      /\ answer' = answer \/ (answer = "none" /\ answer' = "error" /\ Excuse(e, FALSE))
  BY <1>8, Zenon DEF ClientKept
<1>10. /\ Shape' /\ Program' = Program /\ Knows' = Knows /\ env' = env /\ phase' = phase /\ toSign' = toSign /\ cancelled' = cancelled
       /\ ConvOf("builder")' = ConvOf("builder") /\ ConvOf("store")' = ConvOf("store")
  BY <1>9 DEF Alone, Conn
<1>11. PeerOnly
  <2>1. closed \subseteq closed' /\ ("builder" \in closed' => "builder" \in closed) /\ ("store" \in closed' => "store" \in closed)
    BY <1>9
  <2>2. BuilderUp => BuilderUp'
    BY <1>10, <2>1 DEF BuilderUp
  <2>3. StoreUp => StoreUp'
    BY <1>10, <2>1 DEF StoreUp
  <2>4. QED
    BY <1>9, <1>10, <2>1, <2>2, <2>3 DEF PeerOnly
<1>12. Plan(cm, bm, sm)'
  BY <1>1, <1>9, <1>11, PlanPeers, Zenon
<1>13. Facts'
  <2>1. closed \subseteq closed'
    BY <1>9
  <2>2. DaemonFacts("builder", closed', ConvOf("builder")) /\ DaemonFacts("store", closed', ConvOf("store"))
    BY <1>2, <2>1, FactsMore, Zenon DEF Facts
  <2>3. answer' = "error" => Excuse(env, cancelled)
    <3>1. Excuse(e, FALSE) => Excuse(env, cancelled)
      BY <1>3 DEF Excuse
    <3>2. QED
      BY <1>2, <1>9, <3>1, Zenon DEF Facts
  <2>4. env.caller = "job" /\ answer' = "result" => GotOK(env, Knows)
    BY <1>2, <1>9 DEF Facts
  <2>5. QED
    BY <1>2, <1>3, <1>9, <1>10, <2>2, <2>3, <2>4 DEF Facts
<1>14. Links3(cm, bm, sm)'
  BY <1>1, <1>3, <1>8, <1>9, <1>10 DEF Links3
<1>15. QED
  BY <1>12, <1>13, <1>14 DEF WireInv

\* More signatures leave a client that is answered as it is.
LEMMA ClientMore ==
  ASSUME NEW e, NEW rg, NEW an, NEW sg, NEW m, NEW K, ClientIn(e, rg, an, m, K), rg \subseteq sg
  PROVE  ClientIn(e, sg, an, m, K)
<1>1. AnsweringIn(e, rg, an, m[2], m[3], K) => AnsweringIn(e, sg, an, m[2], m[3], K)
  BY AnsweringMore
<1>2. QED
  BY <1>1 DEF ClientIn

\* The store host takes a signature.
LEMMA RegisterInv ==
  ASSUME WireInv, Regular, Register
  PROVE  WireInv'
<1>1. PICK cm, bm, sm : Plan(cm, bm, sm) /\ Links3(cm, bm, sm)
  BY DEF WireInv
<1>2. Facts
  BY DEF WireInv
<1>3. PICK e, K, L, rg, sg : e = env /\ K = ConvOf("store") /\ L = ConvOf("store")' /\ rg = registered /\ sg = registered'
  OBVIOUS
<1>4. IsConv("store", K, L) /\ "store" \in Conn
  BY <1>3 DEF IsConv, Conn
<1>5. PICK q : q = AnswerSignature(env, M("store"))
  OBVIOUS
<1>6. /\ PeerGoes("store", q) /\ UNCHANGED <<mem, version, buf, wire, env, phase, toSign, cancelled>>
      /\ misread' = misread /\ closed' = closed /\ answer' = answer /\ PeerAt("store", "register")
      /\ sg = IF e.trusted THEN rg \union {mem["store"].sig} ELSE rg
  BY <1>3, <1>5 DEF Register
<1>7. Shape /\ e \in Environment /\ ~e.acks
  BY <1>2, <1>3 DEF Facts, Regular
<1>8. L = WithProgram(K, q) /\ Alone("store")
  BY <1>4, <1>6, <1>7, OnlyProgram
<1>9. K[1] = todo["store"] /\ K[2] = mem["store"] /\ K[3] = version[<<"store", "proxy">>]
  BY <1>4, ConvPeer, ConvVersions, Zenon
<1>10. M("store") = MinorOf(K[3])
  BY <1>9 DEF M, Out
<1>11. IsAt(K, "register")
  BY <1>6, <1>9 DEF PeerAt, Ready, Now, IsAt
<1>12. StoreIn(e, rg, sm, K)
  BY <1>1, <1>3 DEF Links3
<1>13. sm[1] = "asking" /\ AskingIn(e, rg, sm[2], sm[3], sm[4], K)
  BY <1>11, <1>12, RegisterNotIn
<1>14. AskingIn(e, sg, sm[2], sm[3], sm[4], L) /\ L[1] # Do("leave")
  <2>1. L = WithProgram(K, AnswerSignature(e, MinorOf(K[3])))
    BY <1>3, <1>5, <1>8, <1>10
  <2>2. sg = IF e.trusted THEN rg \union {K[2].sig} ELSE rg
    BY <1>6, <1>9
  <2>3. QED
    BY <1>7, <1>11, <1>13, <2>1, <2>2, RegisterTalks, SMTT(30)
<1>15. /\ Shape' /\ Program' = Program /\ Knows' = Knows /\ env' = env /\ phase' = phase /\ toSign' = toSign /\ cancelled' = cancelled
       /\ ConvOf("builder")' = ConvOf("builder") /\ ConvOf("client")' = ConvOf("client")
  BY <1>8 DEF Alone, Conn
<1>16. rg \subseteq sg
  BY <1>6
<1>17. PeerOnly
  <2>1. BuilderUp => BuilderUp'
    BY <1>6, <1>15 DEF BuilderUp
  <2>2. StoreUp => StoreUp'
    <3>1. SUFFICES ASSUME StoreUp PROVE "store" \notin closed
      BY <1>6 DEF StoreUp
    <3>2. K[1] # <<>>
      BY <1>11 DEF IsAt
    <3>3. QED
      BY <1>3, <3>1, <3>2 DEF StoreUp
  <2>3. QED
    BY <1>3, <1>6, <1>15, <1>16, <2>1, <2>2 DEF PeerOnly
<1>18. Plan(cm, bm, sm)'
  BY <1>1, <1>6, <1>17, PlanPeers
<1>19. Facts'
  <2>1. DaemonFacts("store", closed, L)
    <3>1. L[3] = K[3] /\ L[6] = K[6]
      BY <1>8, WithProgramParts
    <3>2. QED
      BY <1>2, <1>3, <1>14, <3>1 DEF Facts, DaemonFacts
  <2>2. ClientFacts(env, registered', answer, closed, ConvOf("client"))
    <3>1. ClientFacts(env, rg, answer, closed, ConvOf("client"))
      BY <1>2, <1>3 DEF Facts
    <3>2. QED
      BY <1>3, <1>16, <3>1, FactsMore
  <2>3. QED
    BY <1>2, <1>3, <1>6, <1>15, <2>1, <2>2 DEF Facts
<1>20. Links3(cm, bm, sm)'
  <2>1. ClientIn(e, sg, answer, cm, ConvOf("client"))
    <3>1. ClientIn(e, rg, answer, cm, ConvOf("client"))
      BY <1>1, <1>3 DEF Links3
    <3>2. QED
      BY <1>16, <3>1, ClientMore
  <2>2. StoreIn(e, sg, sm, L)
    BY <1>13, <1>14 DEF StoreIn
  <2>3. QED
    BY <1>1, <1>3, <1>6, <1>15, <2>1, <2>2 DEF Links3
<1>21. QED
  BY <1>18, <1>19, <1>20 DEF WireInv

\* The client has got its result.
LEMMA GotInv ==
  ASSUME WireInv, GotAnswer
  PROVE  WireInv'
<1>1. PICK cm, bm, sm : Plan(cm, bm, sm) /\ Links3(cm, bm, sm)
  BY DEF WireInv
<1>2. Facts
  BY DEF WireInv
<1>3. PICK e, K, L, rg : e = env /\ K = ConvOf("client") /\ L = ConvOf("client")' /\ rg = registered
  OBVIOUS
<1>4. IsConv("client", K, L) /\ "client" \in Conn
  BY <1>3 DEF IsConv, Conn
<1>5. PICK q : q = ClientSync
  OBVIOUS
<1>6. /\ PeerGoes("client", q) /\ UNCHANGED <<mem, version, buf, wire, env, phase, toSign, cancelled>>
      /\ misread' = misread /\ closed' = closed /\ answer' = "result" /\ PeerAt("client", "got") /\ registered' = registered
  BY <1>5 DEF GotAnswer
<1>7. Shape /\ e \in Environment
  BY <1>2, <1>3 DEF Facts
<1>8. L = WithProgram(K, q) /\ Alone("client")
  BY <1>4, <1>6, <1>7, OnlyProgram
<1>9. K[1] = todo["client"]
  BY <1>4, ConvPeer
<1>10. IsAt(K, "got")
  BY <1>6, <1>9 DEF PeerAt, Ready, Now, IsAt
<1>11. PICK an : an = answer
  OBVIOUS
<1>12. ClientIn(e, rg, an, cm, K)
  BY <1>1, <1>3, <1>11 DEF Links3
<1>13. cm[1] = "answering" /\ AnsweringIn(e, rg, an, cm[2], cm[3], K)
  BY <1>10, <1>12, GotNotIn
<1>14. /\ AnsweringIn(e, rg, "result", cm[2], cm[3], L) /\ L[1] # Do("leave")
       /\ GotOK(e, K[2]) /\ LeftIn(e, K[2], {})
  BY <1>5, <1>7, <1>8, <1>10, <1>13, GotTalks
<1>15. /\ Shape' /\ Program' = Program /\ Knows' = Knows /\ env' = env /\ phase' = phase /\ toSign' = toSign /\ cancelled' = cancelled
       /\ ConvOf("builder")' = ConvOf("builder") /\ ConvOf("store")' = ConvOf("store")
  BY <1>8 DEF Alone, Conn
<1>16. SAnswering(cm, bm, sm)
  BY <1>1, <1>13, PlanModes
<1>17. Plan(cm, bm, sm)'
  BY <1>15, <1>16 DEF SAnswering, Plan
<1>18. e.caller = "client"
  BY <1>3, <1>16 DEF SAnswering
<1>19. Facts'
  <2>1. L[2] = K[2] /\ L[3] = K[3] /\ L[6] = K[6]
    BY <1>8, WithProgramParts
  <2>2. "client" \notin closed
    <3>1. "client" \in closed => K[1] = <<>>
      BY <1>2, <1>3 DEF Facts, ClientFacts
    <3>2. QED
      BY <1>10, <3>1 DEF IsAt
  <2>3. ClientFacts(e, rg, "result", closed, L)
    <3>1. ClientFacts(e, rg, answer, closed, K)
      BY <1>2, <1>3 DEF Facts
    <3>2. QED
      BY <1>14, <1>18, <2>1, <2>2, <3>1 DEF ClientFacts
  <2>4. QED
    BY <1>2, <1>3, <1>6, <1>15, <1>18, <2>3 DEF Facts
<1>20. Links3(cm, bm, sm)'
  <2>1. ClientIn(e, rg, "result", cm, L)
    BY <1>13, <1>14 DEF ClientIn
  <2>2. QED
    BY <1>1, <1>3, <1>6, <1>15, <2>1 DEF Links3
<1>21. QED
  BY <1>17, <1>19, <1>20 DEF WireInv

\* Every step of the client, the builder and the store host keeps the
\* invariant.
THEOREM PeerInv ==
  ASSUME WireInv, Regular, NEW c \in Conn, PeerNext(c) \/ Die(c) \/ Hang(c)
  PROVE  WireInv'
<1>1. Ordinary(c) \/ (c = "client" /\ GotAnswer) \/ (c = "store" /\ Register)
  BY PeerCases
<1>2. c = "client" \/ c \in {"builder", "store"}
  BY DEF Conn
<1>3. QED
  BY <1>1, <1>2, DaemonInv, ClientInv, RegisterInv, GotInv
-----------------------------------------------------------------------------
(* Steps of the proxy *)

\* What the facts about a peer depend on.
SamePeer(K, L) == L[1] = K[1] /\ L[2] = K[2] /\ L[3] = K[3] /\ L[6] \in {K[6], Full}

\* The facts about a peer depend on nothing else.
LEMMA SameFacts ==
  ASSUME NEW K, NEW L, SamePeer(K, L)
  PROVE  /\ \A c, cl : DaemonFacts(c, cl, K) => DaemonFacts(c, cl, L)
         /\ \A e, rg, an, cl : ClientFacts(e, rg, an, cl, K) => ClientFacts(e, rg, an, cl, L)
<1>1. \A c, cl : DaemonFacts(c, cl, K) => DaemonFacts(c, cl, L)
  BY DEF SamePeer, DaemonFacts
<1>2. \A e, rg, an, cl : ClientFacts(e, rg, an, cl, K) => ClientFacts(e, rg, an, cl, L)
  BY ZenonT(60) DEF SamePeer, ClientFacts
<1>3. QED
  BY <1>1, <1>2

\* A step leaves the peers of all connections alone.
LEMMA FramePeers ==
  ASSUME Shape, Frame("proxy"), NEW c, c = At[phase], NEW K, NEW L, IsConv(c, K, L), SamePeer(K, L), NEW d \in Conn
  PROVE  SamePeer(ConvOf(d), ConvOf(d)')
<1>1. "proxy" \in Party /\ ConnOf("proxy") = c
  BY DEF Party, ConnOf
<1>2. CASE d = c
  BY <1>2 DEF IsConv
<1>3. CASE d # c /\ (d # "client" \/ ~SinkGets("proxy"))
  <2>1. ConvOf(d)' = ConvOf(d)
    BY <1>1, <1>3, FrameConn
  <2>2. QED
    BY <2>1 DEF SamePeer
<1>4. CASE d = "client" /\ SinkGets("proxy")
  <2>1. PICK i, a, w : i = Now("proxy") /\ a = mem["proxy"] /\ w = WriteStderr(i.f, a.fields)
    OBVIOUS
  <2>2. ConvOf("client")' = Gets(ConvOf("client"), w)
    BY <1>4, <2>1, SinkConn
  <2>3. QED
    BY <1>4, <2>2 DEF Gets, SamePeer
<1>5. QED
  BY <1>2, <1>3, <1>4

\* The facts after a step.
LEMMA StepFacts ==
  ASSUME Facts, Frame("proxy"), NEW c, c = At[phase], NEW K, NEW L, IsConv(c, K, L), SamePeer(K, L), misread' = misread,
         NEW x, Minded(x, Knows, Knows'), env.caller = "client" \/ (answer # "result" /\ cancelled' = cancelled)
  PROVE  Facts'
<1>1. Shape /\ IsMem(Knows) /\ IsSeq(Knows.fields)
  BY DEF Facts
<1>2. Shape' /\ UNCHANGED <<env, closed, registered, answer>>
  BY DEF Frame
<1>3. SamePeer(ConvOf("client"), ConvOf("client")') /\ SamePeer(ConvOf("builder"), ConvOf("builder")')
      /\ SamePeer(ConvOf("store"), ConvOf("store")')
  BY <1>1, FramePeers DEF Conn
<1>4. IsMem(Knows') /\ IsSeq(Knows'.fields)
  BY <1>1, LearnMem, Zenon
<1>5. ClientFacts(env, registered, answer, closed, ConvOf("client")')
  BY <1>3, SameFacts DEF Facts
<1>6. DaemonFacts("builder", closed, ConvOf("builder")') /\ DaemonFacts("store", closed, ConvOf("store")')
  BY <1>3, SameFacts DEF Facts
<1>7. answer = "error" => Excuse(env, cancelled')
  BY DEF Facts, Excuse
<1>8. env.caller = "job" /\ answer = "result" => GotOK(env, Knows')
  OBVIOUS
<1>9. QED
  BY <1>2, <1>4, <1>5, <1>6, <1>7, <1>8 DEF Facts

\* At a part of its program the proxy takes no such step.
LEMMA NoStep ==
  ASSUME Step("proxy")
  PROVE  Program # <<>> /\ Head(Program).k # "do" /\ \A l : Program # Do(l)
<1>1. todo["proxy"] # <<>> /\ Now("proxy").k # "do"
  BY Zenon DEF Step, Read, ReadFails, WriteWords, FlushWords, Control, Ready, Reads
<1>2. QED
  BY <1>1, Named DEF Program, Now

\* What a step leaves alone, on the connections it does not use.
LEMMA StepLeaves ==
  ASSUME Shape, Frame("proxy"), NEW c, c = At[phase]
  PROVE  /\ UNCHANGED <<env, closed, phase, toSign, registered, answer>>
         /\ \A d \in Conn : d # c /\ d # "client" => ConvOf(d)' = ConvOf(d)
         /\ c # "client" /\ c # "builder" => ConvOf("client")' = ConvOf("client")
         /\ c # "client" => cancelled' = cancelled
         /\ cancelled' \in BOOLEAN
<1>1. "proxy" \in Party /\ ConnOf("proxy") = c
  BY DEF Party, ConnOf
<1>2. UNCHANGED <<env, closed, phase, toSign, registered, answer>>
  BY DEF Frame
<1>3. \A d \in Conn : d # c /\ d # "client" => ConvOf(d)' = ConvOf(d)
  BY <1>1, FrameConn
<1>4. c # "client" /\ c # "builder" => ConvOf("client")' = ConvOf("client")
  <2>1. SUFFICES ASSUME c # "client", c # "builder" PROVE ConvOf("client")' = ConvOf("client")
    OBVIOUS
  <2>2. ~SinkGets("proxy")
    BY <2>1 DEF SinkGets, At
  <2>3. "client" \in Conn
    BY DEF Conn
  <2>4. QED
    BY <1>1, <2>1, <2>2, <2>3, FrameConn
<1>5. c # "client" => cancelled' = cancelled
  BY DEF Frame, CutsOff
<1>6. cancelled' \in BOOLEAN
  BY DEF Frame
<1>7. QED
  BY <1>2, <1>3, <1>4, <1>5, <1>6
\* What is good stays good as long as the result stays.
LEMMA SameGood ==
  ASSUME NEW e, NEW rg, NEW a, NEW b, SameResult(a, b)
  PROVE  /\ ResultOK(e, rg, a) => ResultOK(e, rg, b)
         /\ \A T : LeftIn(e, a, T) => LeftIn(e, b, T)
         /\ GotOK(e, a) => GotOK(e, b)
<1>1. b.status = a.status /\ b.cpu = a.cpu /\ b.outs = a.outs
  BY DEF SameResult
<1>2. GotOK(e, a) => GotOK(e, b)
  BY <1>1 DEF GotOK
<1>3. \A T : LeftIn(e, a, T) => LeftIn(e, b, T)
  BY <1>1 DEF LeftIn
<1>4. ResultOK(e, rg, a) => ResultOK(e, rg, b)
  BY <1>1, <1>2 DEF ResultOK
<1>5. QED
  BY <1>2, <1>3, <1>4

\* A step on the connection to the store host.
LEMMA VisitsStep ==
  ASSUME NEW T, NEW cm, Visits(T, cm), UNCHANGED <<env, closed, toSign, registered, answer>>, SameResult(Knows, Knows'),
         ConvOf("store")'[1] = ConvOf("store")[1]
  PROVE  Visits(T, cm)'
<1>1. ResultOK(env, registered, Knows') /\ LeftIn(env, Knows', T)
  BY SameGood DEF Visits, Good
<1>2. Good(T)'
  BY <1>1 DEF Visits, Good
<1>3. StoreUp'
  BY DEF Visits, StoreUp
<1>4. QED
  BY <1>2, <1>3 DEF Visits
\* When the store host is gone, or does not trust the proxy, or can not sign the
\* output o, nothing more has to be signed of it.
LEMMA VisitsLess ==
  ASSUME NEW T, NEW U, NEW cm, Visits(T, cm),
         "store" \in env.dies \/ ~env.trusted \/ \A o \in T : o \in U \/ o \notin env.present \intersect env.signable
  PROVE  Visits(U, cm)
<1>1. LeftIn(env, Knows, T)
  BY DEF Visits, Good
<1>2. LeftIn(env, Knows, U)
  BY <1>1 DEF LeftIn
<1>3. QED
  BY <1>2 DEF Visits, Good

\* The connections after a step on the one to the store host.
LEMMA StoreLinks ==
  ASSUME NEW cm, NEW bm, NEW sm, Links3(cm, bm, sm), UNCHANGED <<env, registered, answer>>,
         ConvOf("client")' = ConvOf("client"), ConvOf("builder")' = ConvOf("builder"),
         NEW tm, StoreIn(env, registered, tm, ConvOf("store")')
  PROVE  Links3(cm, bm, tm)'
  BY DEF Links3

\* What a step of the proxy on the connection to the store host leaves true.
StoreStep(e, G, x, p, a, K, L) ==
  /\ Facts' /\ UNCHANGED <<env, closed, phase, toSign, registered, answer, cancelled>>
  /\ ConvOf("client")' = ConvOf("client") /\ ConvOf("builder")' = ConvOf("builder")
  /\ L[1] = K[1] /\ SameResult(Knows, Knows')
  /\ \/ Proceeds(e, G, x, p, Program', Knows', TheStore, K, L)
     \/ Program' = Do(OnError[phase]) /\ Knows' = Knows /\ Stopped(e, G, x, p, a, TheStore, K, L, "store", closed)

\* Every step of the proxy on the connection to the store host.
LEMMA StoreSteps ==
  ASSUME Facts, Step("proxy"), At[phase] = "store", env.caller = "client", NEW e, e = env,
         NEW K, NEW L, IsConv("store", K, L), NEW G, NEW x \in {ToSigning, ToStore}, NEW p, p = Program, NEW a, a = Knows,
         Talking(e, G, x, p, a, TheStore, K)
  PROVE  StoreStep(e, G, x, p, a, K, L)
<1>1. Shape
  BY DEF Facts
<1>2. PICK c : c = "store"
  OBVIOUS
<1>3. c = At[phase] /\ IsConv(c, K, L)
  BY <1>2
<1>4. x[1] \in ProxyRoles /\ ~Learns(x)
  BY DaemonRoles
<1>5. p = todo["proxy"] /\ a = mem["proxy"]
  BY DEF Program, Knows
<1>6. Frame("proxy") /\ ProxyKeeps(e, G, x, p, a, c, TheStore, K, L)
  BY <1>1, <1>3, <1>4, <1>5, ProxyStep
<1>7. /\ misread' = misread /\ L[1] = K[1] /\ L[2] = K[2]
      /\ ProxyWell(e, G, x, p, a, Program', Knows', TheStore, K, L, Do(OnError[phase]), c, closed)
  BY <1>6 DEF ProxyKeeps, Program, Knows
<1>8. /\ Minded(x, Knows, Knows') /\ L[6] \in {K[6], Full} /\ L[3] = K[3]
      /\ \/ Proceeds(e, G, x, p, Program', Knows', TheStore, K, L)
         \/ Program' = Do(OnError[phase]) /\ Knows' = Knows /\ Stopped(e, G, x, p, a, TheStore, K, L, c, closed)
  BY <1>7 DEF ProxyWell
<1>9. SamePeer(K, L)
  BY <1>7, <1>8 DEF SamePeer
<1>10. Facts'
  BY <1>3, <1>6, <1>7, <1>8, <1>9, StepFacts
<1>11. /\ UNCHANGED <<env, closed, phase, toSign, registered, answer, cancelled>>
       /\ ConvOf("client")' = ConvOf("client") /\ ConvOf("builder")' = ConvOf("builder")
  <2>1. c # "client" /\ c # "builder" /\ "builder" \in Conn
    BY <1>2 DEF Conn
  <2>2. QED
    BY <1>1, <1>3, <1>6, <2>1, StepLeaves
<1>12. SameResult(Knows, Knows')
  <2>1. IsMem(Knows)
    BY DEF Facts
  <2>2. QED
    BY <1>4, <1>8, <2>1, LearnMem
<1>13. QED
  BY <1>2, <1>7, <1>8, <1>10, <1>11, <1>12 DEF StoreStep

\* In the handshake with the store host.
LEMMA StepSigning ==
  ASSUME Facts, Step("proxy"), NEW cm, NEW bm, NEW sm, SSigning(cm, bm, sm), Links3(cm, bm, sm)
  PROVE  WireInv'
<1>1. PICK e, K, L, p, a, G : e = env /\ K = ConvOf("store") /\ L = ConvOf("store")' /\ p = Program /\ a = Knows
                              /\ G = SigningGoals(e)
  OBVIOUS
<1>2. IsConv("store", K, L)
  BY <1>1 DEF IsConv
<1>3. phase = "signing" /\ sm = <<"signing", p, a>> /\ Visits(toSign, cm)
  BY <1>1 DEF SSigning
<1>4. At[phase] = "store" /\ OnError[phase] = "Reply" /\ env.caller = "client" /\ cm = <<"idle">>
  BY <1>3 DEF At, OnError, Visits, Good
<1>5. StoreIn(e, registered, sm, K)
  BY <1>1 DEF Links3
<1>6. Talking(e, G, ToSigning, p, a, TheStore, K)
  BY <1>1, <1>3, <1>5 DEF StoreIn, SigningIn
<1>7. StoreStep(e, G, ToSigning, p, a, K, L)
  BY <1>1, <1>2, <1>4, <1>6, StoreSteps
<1>8. /\ Facts' /\ UNCHANGED <<env, closed, phase, toSign, registered, answer>>
      /\ ConvOf("client")' = ConvOf("client") /\ ConvOf("builder")' = ConvOf("builder")
      /\ L[1] = K[1] /\ SameResult(Knows, Knows')
  BY <1>7 DEF StoreStep
<1>9. Visits(toSign, cm)'
  BY <1>1, <1>3, <1>8, VisitsStep
<1>10. ASSUME NEW tm, StoreIn(e, registered, tm, L) PROVE Links3(cm, bm, tm)'
  BY <1>1, <1>8, <1>10, StoreLinks
<1>11. CASE Proceeds(e, G, ToSigning, p, Program', Knows', TheStore, K, L)
  <2>1. PICK tm : tm = <<"signing", Program', Knows'>>
    BY Zenon
  <2>2. SigningIn(e, Program', Knows', L)
    BY <1>1, <1>11 DEF Proceeds, SigningIn
  <2>3. StoreIn(e, registered, tm, L)
    BY <2>1, <2>2 DEF StoreIn
  <2>4. Links3(cm, bm, tm)'
    BY <1>10, <2>3
  <2>5. SSigning(cm, bm, tm)'
    BY <1>3, <1>8, <1>9, <2>1 DEF SSigning
  <2>6. Plan(cm, bm, tm)'
    BY <2>5 DEF Plan
  <2>7. QED
    BY <1>8, <2>4, <2>6 DEF WireInv
<1>12. CASE Program' = Do(OnError[phase]) /\ Knows' = Knows /\ Stopped(e, G, ToSigning, p, a, TheStore, K, L, "store", closed)
  <2>1. ToSigning[1] = "toSigning"
    BY DaemonRoles
  <2>2. ~(Head(p).k = "fail" /\ Arrives(e, G, ToSigning, p, a, TheStore, K))
    <3>1. SUFFICES ASSUME Arrives(e, G, ToSigning, p, a, TheStore, K) PROVE Head(p).k # "fail"
      OBVIOUS
    <3>2. PICK g \in G : g = <<ToSigning, <<p, a, K[6]>>, TheStore, g[4]>>
      BY <3>1 DEF Arrives
    <3>3. g[2] = <<p, a, K[6]>> /\ g[2] = <<Do("NextOutput"), Result(e), Full>>
      BY <1>1, <3>2 DEF SigningGoals
    <3>4. p = Do("NextOutput")
      BY <3>3
    <3>5. QED
      BY <3>4, Named
  <2>3. CutShort(K, L, "store", closed)
    BY <1>12, <2>1, <2>2 DEF Stopped, LateFlush
  <2>4. "store" \in closed /\ L = K
    BY <2>3 DEF CutShort
  <2>5. "store" \in env.dies
    BY <1>3, <2>4 DEF Visits, StoreUp
  <2>6. Visits({}, cm)'
    <3>1. Visits({}, cm)
      BY <1>3, <2>5, VisitsLess
    <3>2. QED
      BY <1>1, <1>8, <3>1, VisitsStep
  <2>7. StoreIn(e, registered, sm, L)
    BY <1>5, <2>4
  <2>8. Links3(cm, bm, sm)'
    BY <1>10, <2>7
  <2>9. SReply(cm, bm, sm)'
    BY <1>3, <1>4, <1>8, <1>12, <2>6 DEF SReply, Visits
  <2>10. Plan(cm, bm, sm)'
    BY <2>9 DEF Plan
  <2>11. QED
    BY <1>8, <2>8, <2>10 DEF WireInv
<1>13. QED
  BY <1>7, <1>11, <1>12 DEF StoreStep

\* While the proxy works on an output.
LEMMA StepAsking ==
  ASSUME Facts, Step("proxy"), NEW cm, NEW bm, NEW sm, SAsking(cm, bm, sm), Links3(cm, bm, sm)
  PROVE  WireInv'
<1>1. PICK e, K, L, p, a : e = env /\ K = ConvOf("store") /\ L = ConvOf("store")' /\ p = Program /\ a = Knows
  OBVIOUS
<1>2. IsConv("store", K, L)
  BY <1>1 DEF IsConv
<1>3. PICK o \in Names(e) : sm = <<"asking", o, p, a>> /\ Visits(toSign \union {o}, cm)
  BY <1>1 DEF SAsking
<1>4. /\ phase = "output" /\ At[phase] = "store" /\ OnError[phase] = "NextOutput" /\ env.caller = "client"
      /\ cm = <<"idle">>
  BY <1>3 DEF SAsking, At, OnError, Visits, Good
<1>5. StoreIn(e, registered, sm, K)
  BY <1>1 DEF Links3
<1>6. AskingIn(e, registered, o, p, a, K)
  BY <1>3, <1>5 DEF StoreIn
<1>7. PICK G : (\A g \in G : StoreGoal(e, registered, o, g)) /\ Talking(e, G, ToStore, p, a, TheStore, K)
  BY <1>6 DEF AskingIn
<1>8. StoreStep(e, G, ToStore, p, a, K, L)
  BY <1>1, <1>2, <1>4, <1>7, StoreSteps
<1>9. /\ Facts' /\ UNCHANGED <<env, closed, phase, toSign, registered, answer>>
      /\ ConvOf("client")' = ConvOf("client") /\ ConvOf("builder")' = ConvOf("builder")
      /\ L[1] = K[1] /\ SameResult(Knows, Knows')
  BY <1>8 DEF StoreStep
<1>10. Visits(toSign \union {o}, cm)'
  BY <1>1, <1>3, <1>9, VisitsStep
<1>11. ASSUME NEW tm, StoreIn(e, registered, tm, L) PROVE Links3(cm, bm, tm)'
  BY <1>1, <1>9, <1>11, StoreLinks
<1>12. ASSUME Talking(e, G, ToStore, Program', Knows', TheStore, L) PROVE WireInv'
  <2>1. PICK tm : tm = <<"asking", o, Program', Knows'>>
    BY Zenon
  <2>2. AskingIn(e, registered, o, Program', Knows', L)
    BY <1>7, <1>12 DEF AskingIn
  <2>3. StoreIn(e, registered, tm, L)
    BY <2>1, <2>2 DEF StoreIn
  <2>4. Links3(cm, bm, tm)'
    BY <1>11, <2>3
  <2>5. SAsking(cm, bm, tm)'
    BY <1>1, <1>3, <1>4, <1>9, <1>10, <2>1, Zenon DEF SAsking
  <2>6. Plan(cm, bm, tm)'
    BY <2>5 DEF Plan
  <2>7. QED
    BY <1>9, <2>4, <2>6 DEF WireInv
<1>13. CASE Proceeds(e, G, ToStore, p, Program', Knows', TheStore, K, L)
  BY <1>12, <1>13 DEF Proceeds
<1>14. CASE Program' = Do(OnError[phase]) /\ Knows' = Knows /\ Stopped(e, G, ToStore, p, a, TheStore, K, L, "store", closed)
  <2>1. Program' = Do("NextOutput") /\ ToStore[1] = "toStore"
    BY <1>4, <1>14, DaemonRoles
  <2>2. CASE Talking(e, G, ToStore, Do("NextOutput"), a, TheStore, L)
    BY <1>1, <1>12, <1>14, <2>1, <2>2
  <2>3. CASE CutShort(K, L, "store", closed)
    <3>1. "store" \in closed /\ L = K /\ K[4] = <<>>
      BY <2>3 DEF CutShort
    <3>2. "store" \in env.dies /\ K[1] = <<>>
      BY <1>1, <1>3, <3>1 DEF Visits, StoreUp
    <3>3. Visits(toSign, cm)'
      <4>1. Visits(toSign, cm)
        BY <1>3, <3>2, VisitsLess
      <4>2. PICK T : T = toSign
        OBVIOUS
      <4>3. Visits(T, cm)'
        BY <1>1, <1>9, <4>1, <4>2, VisitsStep
      <4>4. QED
        BY <1>9, <4>2, <4>3
    <3>4. PICK tm : tm = <<"dead">>
      BY Zenon
    <3>5. StoreIn(e, registered, tm, L)
      BY <3>1, <3>2, <3>4 DEF StoreIn
    <3>6. Links3(cm, bm, tm)'
      BY <1>11, <3>5
    <3>7. SDead(cm, bm, tm)'
      BY <1>4, <1>9, <2>1, <3>1, <3>3, <3>4 DEF SDead, DeadProgram
    <3>8. Plan(cm, bm, tm)'
      BY <3>7 DEF Plan
    <3>9. QED
      BY <1>9, <3>6, <3>8 DEF WireInv
  <2>4. CASE L = K /\ Head(p).k = "fail" /\ Arrives(e, G, ToStore, p, a, TheStore, K)
    <3>1. PICK g, q : /\ g \in G /\ g = <<ToStore, <<p, a, K[6]>>, TheStore, g[4]>>
                      /\ Stays(K, q) /\ Rests(e, PeerSide(K, TheStore, q), g[4])
      BY <2>4 DEF Arrives
    <3>2. StoreGoal(e, registered, o, g)
      BY <1>7, <3>1
    <3>3. g[1] = ToStore /\ g[2] = <<p, a, K[6]>> /\ g[2][1] = p /\ g[2][2] = a /\ g[2][3] = K[6]
      BY <3>1
    <3>4. ToStore # TheStore
      BY DaemonRoles
    <3>5. \E b, c : /\ IsMem(b) /\ b.fields = <<>> /\ IsMem(c)
                    /\ g = <<ToStore, <<FailIns \o Do("Signed"), b, Full>>, TheStore, <<ReadOp, c, Full>>>> /\ ~e.trusted
      <4>1. p # Do("NextOutput") /\ p # Do("Signed")
        BY <2>4, Named
      <4>2. ASSUME NEW b, NEW c, NEW l, g = <<ToStore, <<Do(l), b, Full>>, TheStore, <<ReadOp, c, Full>>>> PROVE p = Do(l)
        BY <3>3, <4>2
      <4>3. ASSUME NEW b, NEW c, g = <<TheStore, <<Do("register"), b, Full>>, ToStore, <<ReadMarker \o Do("Signed"), c, Full>>>>
            PROVE FALSE
        BY <3>3, <3>4, <4>3
      <4>4. QED
        BY <3>2, <4>1, <4>2, <4>3, Zenon DEF StoreGoal
    <3>6. PICK b, c : /\ IsMem(b) /\ b.fields = <<>> /\ IsMem(c)
                      /\ g = <<ToStore, <<FailIns \o Do("Signed"), b, Full>>, TheStore, <<ReadOp, c, Full>>>> /\ ~e.trusted
      BY <3>5
    <3>7. b = a /\ K[6] = Full /\ g[4] = <<ReadOp, c, Full>>
      BY <3>3, <3>6
    <3>8. RestingAt(e, TheStore, <<ReadOp, c, Full>>, K)
      BY <3>1, <3>7 DEF RestingAt
    <3>9. RestsIn(e, L)
      BY <2>4, <3>6, <3>7, <3>8, Zenon DEF RestsIn, Arrives
    <3>10. Visits(toSign, cm)'
      <4>1. Visits(toSign, cm)
        BY <1>1, <1>3, <3>6, VisitsLess
      <4>2. PICK T : T = toSign
        OBVIOUS
      <4>3. Visits(T, cm)'
        BY <1>1, <1>9, <4>1, <4>2, VisitsStep
      <4>4. QED
        BY <1>9, <4>2, <4>3
    <3>11. PICK tm : tm = <<"rests">>
      BY Zenon
    <3>12. StoreIn(e, registered, tm, L)
      BY <3>9, <3>11 DEF StoreIn
    <3>13. Links3(cm, bm, tm)'
      BY <1>11, <3>12
    <3>14. SVisiting(cm, bm, tm)'
      BY <1>1, <1>4, <1>9, <1>14, <2>1, <3>6, <3>7, <3>10, <3>11 DEF SVisiting
    <3>15. Plan(cm, bm, tm)'
      BY <3>14 DEF Plan
    <3>16. QED
      BY <1>9, <3>13, <3>15 DEF WireInv
  <2>5. QED
    BY <1>14, <2>1, <2>2, <2>3, <2>4 DEF Stopped, LateFlush
<1>15. QED
  BY <1>8, <1>13, <1>14 DEF StoreStep

\* What is forwarded does not end in the length of a string.
LEMMA EndsFields ==
  ASSUME NEW types, IsSeq(types)
  PROVE  Ends(WriteFields(types))
<1>1. PICK n : n = Len(types)
  BY Zenon
<1>2. n \in Nat
  BY <1>1, NonEmpty
<1> DEFINE W(t) == WriteUint64("fieldType", t) \o IF t = 0 THEN WriteUint64("intVal", 6)
                                                           ELSE WriteString("strVal")
<1>3. PICK ws : ws = [k \in 1..n |-> W(types[k])]
  BY Zenon
<1>4. \A t : Ends(W(t))
  BY EndsRules
<1>5. \A k \in 1..n : Ends(ws[k])
  BY <1>3, <1>4
<1>6. IsSeq(ws) /\ Len(ws) = n
  <2> HIDE DEF W
  <2>1. DOMAIN ws = 1..n /\ ws = [k \in 1..n |-> ws[k]]
    BY <1>3
  <2>2. QED
    BY <1>2, <2>1, Listed
<1>7. IsSeq(FlattenSeq(ws)) /\ (n = 0 => FlattenSeq(ws) = <<>>) /\ (n # 0 => Ends(FlattenSeq(ws)))
  BY <1>2, <1>5, <1>6, FlattenEnds
<1>8. WriteFields(types) = WriteUint64("fields", n) \o FlattenSeq(ws)
  BY <1>1, <1>3 DEF WriteFields
<1>9. IsSeq(WriteUint64("fields", n))
  BY EndsRules
<1>10. CASE n = 0
  <2>1. Ends(WriteUint64("fields", n))
    BY <1>10, EndsRules
  <2>2. WriteFields(types) = WriteUint64("fields", n)
    BY <1>7, <1>8, <1>9, <1>10, Join, Nil, Zenon
  <2>3. QED
    BY <2>1, <2>2
<1>11. CASE n # 0
  BY <1>7, <1>8, <1>9, <1>11, EndsRules
<1>12. QED
  BY <1>10, <1>11

\* The same for all that the proxy forwards.
LEMMA EndsStderr ==
  ASSUME NEW types, IsSeq(types), NEW ev \in Events
  PROVE  Ends(WriteStderr(ev, types))
<1>1. Ends(WriteFields(types))
  BY EndsFields
<1>2. CASE ev = "next"
  <2>1. WriteStderr(ev, types) = WriteUint64("marker", StderrNext) \o WriteString("log")
    BY <1>2 DEF WriteStderr
  <2>2. QED
    BY <2>1, EndsRules
<1>3. CASE ev = "start"
  <2>1. PICK w : w = WriteUint64("marker", StderrStartActivity) \o WriteUint64("act", 4)
           \o WriteUint64("lvl", 3) \o WriteUint64("type", 105) \o WriteString("text") \o WriteFields(types)
    BY Zenon
  <2>2. IsSeq(w)
    BY <1>1, <2>1, EndsRules
  <2>3. WriteStderr(ev, types) = w \o WriteUint64("parent", 0)
    BY <1>3, <2>1, Zenon DEF WriteStderr
  <2>4. Ends(WriteUint64("parent", 0))
    BY EndsRules
  <2>5. QED
    BY <2>2, <2>3, <2>4, EndsRules
<1>4. CASE ev = "stop"
  <2>1. WriteStderr(ev, types) = WriteUint64("marker", StderrStopActivity) \o WriteUint64("act", 4)
    BY <1>4 DEF WriteStderr
  <2>2. QED
    BY <2>1, EndsRules
<1>5. CASE ev = "result"
  <2>1. WriteStderr(ev, types) = WriteUint64("marker", StderrResult) \o WriteUint64("act", 4)
           \o WriteUint64("type", 105) \o WriteFields(types)
    BY <1>5 DEF WriteStderr
  <2>2. QED
    BY <1>1, <2>1, EndsRules
<1>6. QED
  BY <1>2, <1>3, <1>4, <1>5 DEF Events

\* The client will be able to read what was forwarded.
LEMMA HummedMore ==
  ASSUME NEW e, NEW h, Hummed(e, h), NEW types, IsSeq(types), NEW ev \in Events, NEW w, w = WriteStderr(ev, types)
  PROVE  Hummed(e, h \o w)
<1>1. PICK t : IsSeq(t) /\ \A y : Hums(e, y, Full, h, Nothing, SetFields(Nothing, t))
  BY DEF Hummed
<1>2. PICK a : a = SetFields(Nothing, t)
  OBVIOUS
<1>3. IsMem(a) /\ a.fields = t /\ \A u : SetFields(a, u) = SetFields(Nothing, u)
  BY <1>2, NothingKnown, MemFields
<1>4. Ends(w)
  BY EndsStderr
<1>5. IsSeq(h \o w) /\ Whole(h \o w)
  BY <1>4, EndsRules DEF Hummed, Ends
<1>6. ASSUME NEW u, IsSeq(u), \A y : Hums(e, y, Full, w, a, SetFields(a, u))
      PROVE  Hummed(e, h \o w)
  <2>1. \A y : Hums(e, y, Full, h \o w, Nothing, SetFields(Nothing, u))
    <3>1. TAKE y
    <3>2. Hums(e, y, Full, h, Nothing, a) /\ Hums(e, y, Full, w, a, SetFields(a, u))
      BY <1>1, <1>2, <1>6
    <3>3. Hums(e, y, Full, h \o w, Nothing, SetFields(a, u))
      BY <3>2, HumsJoin
    <3>4. QED
      BY <1>3, <3>3
  <2>2. QED
    BY <1>5, <1>6, <2>1 DEF Hummed
<1>7. CASE ev = "next"
  <2>1. \A y : Hums(e, y, Full, w, a, SetFields(a, t))
    <3>1. SetFields(a, t) = a
      BY <1>3, MemFields
    <3>2. QED
      BY <1>3, <1>7, <3>1, StderrRead1
  <2>2. QED
    BY <1>1, <1>6, <2>1
<1>8. CASE ev = "start"
  <2>1. \A y : Hums(e, y, Full, w, a, SetFields(a, types))
    BY <1>3, <1>8, StderrRead1
  <2>2. QED
    BY <1>6, <2>1
<1>9. CASE ev = "stop"
  <2>1. \A y : Hums(e, y, Full, w, a, SetFields(a, <<>>))
    BY <1>3, <1>9, StderrRead1
  <2>2. QED
    BY <1>6, <2>1, Nil
<1>10. CASE ev = "result"
  <2>1. \A y : Hums(e, y, Full, w, a, SetFields(a, types))
    BY <1>3, <1>10, StderrRead1
  <2>2. QED
    BY <1>6, <2>1
<1>11. QED
  BY <1>7, <1>8, <1>9, <1>10 DEF Events

\* A client that waits can read what is forwarded to it.
LEMMA IdleMore ==
  ASSUME NEW e, NEW K, IdleIn(e, K), NEW types, IsSeq(types), NEW ev \in Events, NEW w, w = WriteStderr(ev, types)
  PROVE  IdleIn(e, Gets(K, w))
<1>1. PICK L : L = Gets(K, w)
  OBVIOUS
<1>2. L[1] = K[1] /\ L[2] = K[2] /\ L[3] = K[3] /\ L[4] = K[4] /\ L[5] = K[5] /\ L[6] = K[6] /\ L[7] = K[7]
      /\ L[8] = K[8] \o w
  BY <1>1 DEF Gets
<1>3. \A q : PeerSide(L, Client, q) = PeerSide(K, Client, q) /\ (Stays(K, q) => Stays(L, q))
  BY <1>2 DEF PeerSide, Stays
<1>4. Hummed(e, L[8])
  BY <1>2, HummedMore DEF IdleIn
<1>5. IdleIn(e, L)
  BY <1>2, <1>3, <1>4 DEF IdleIn
<1>6. QED
  BY <1>1, <1>5


\* The caller's connection while a build runs.
LEMMA CallerHears ==
  ASSUME Facts, Frame("proxy"), phase = "build", NEW e, e = env, NEW cm, Calls(cm), NEW K, K = ConvOf("client"),
         ClientIn(e, registered, answer, cm, K),
         NEW G, NEW B, NEW p, p = Program, Talking(e, G, ToBuilder, p, Knows, TheBuilder, B)
  PROVE  ClientIn(e, registered, answer, cm, ConvOf("client")')
<1>1. Shape /\ "proxy" \in Party /\ "client" \in Conn /\ ConnOf("proxy") = "builder"
  BY DEF Facts, Party, Conn, ConnOf, At
<1>2. CASE ~SinkGets("proxy")
  <2>1. ConvOf("client")' = ConvOf("client")
    BY <1>1, <1>2, FrameConn
  <2>2. QED
    BY <2>1
<1>3. CASE SinkGets("proxy")
  <2>1. PICK i, a, w : i = Now("proxy") /\ a = mem["proxy"] /\ w = WriteStderr(i.f, a.fields)
    OBVIOUS
  <2>2. i.k = "forward" /\ e.caller = "client" /\ cm = <<"idle">> /\ i = Head(p)
    BY <1>3, <2>1 DEF SinkGets, Calls, Program, Now
  <2>3. IdleIn(e, K)
    BY <2>2 DEF ClientIn
  <2>4. i.f \in Events
    <3>1. PICK q : Stays(B, q) /\ Talk(e, G, ProxySide(B, ToBuilder, p, Knows), PeerSide(B, TheBuilder, q))
      BY DEF Talking
    <3>2. Goals(G)
      BY DEF Talking
    <3>3. PICK X, Y : X = ProxySide(B, ToBuilder, p, Knows) /\ Y = PeerSide(B, TheBuilder, q)
      OBVIOUS
    <3>4. X[2] = p
      BY <3>3, ProxyParts
    <3>5. QED
      BY <2>2, <3>1, <3>2, <3>3, <3>4, TalkForward
  <2>5. IsSeq(a.fields)
    BY <2>1 DEF Facts, Knows
  <2>6. IdleIn(e, Gets(K, w))
    BY <2>1, <2>3, <2>4, <2>5, IdleMore
  <2>7. ConvOf("client")' = Gets(K, w)
    BY <1>1, <1>3, <2>1, SinkConn
  <2>8. QED
    BY <2>2, <2>6, <2>7 DEF ClientIn
<1>4. QED
  BY <1>2, <1>3

\* What a step of the proxy on the connection to the builder leaves true.
BuilderStep(e, G, p, a, K, L) ==
  /\ Facts' /\ Frame("proxy") /\ UNCHANGED <<env, closed, phase, toSign, registered, answer, cancelled>>
  /\ ConvOf("store")' = ConvOf("store") /\ L[1] = K[1]
  /\ \/ Proceeds(e, G, ToBuilder, p, Program', Knows', TheBuilder, K, L)
     \/ Program' = Do(OnError[phase]) /\ Knows' = Knows /\ Stopped(e, G, ToBuilder, p, a, TheBuilder, K, L, "builder", closed)

\* Every step of the proxy on the connection to the builder.
LEMMA BuilderSteps ==
  ASSUME Facts, Step("proxy"), At[phase] = "builder", answer # "result", NEW e, e = env,
         NEW K, NEW L, IsConv("builder", K, L), NEW G, NEW p, p = Program, NEW a, a = Knows,
         Talking(e, G, ToBuilder, p, a, TheBuilder, K)
  PROVE  BuilderStep(e, G, p, a, K, L)
<1>1. Shape
  BY DEF Facts
<1>2. PICK c, x : c = "builder" /\ x = ToBuilder
  OBVIOUS
<1>3. c = At[phase] /\ IsConv(c, K, L) /\ Talking(e, G, x, p, a, TheBuilder, K)
  BY <1>2
<1>4. x[1] \in ProxyRoles
  BY <1>2, DaemonRoles
<1>5. p = todo["proxy"] /\ a = mem["proxy"]
  BY DEF Program, Knows
<1>6. Frame("proxy") /\ ProxyKeeps(e, G, x, p, a, c, TheBuilder, K, L)
  BY <1>1, <1>3, <1>4, <1>5, ProxyStep
<1>7. /\ misread' = misread /\ L[1] = K[1] /\ L[2] = K[2]
      /\ ProxyWell(e, G, x, p, a, Program', Knows', TheBuilder, K, L, Do(OnError[phase]), c, closed)
  BY <1>6 DEF ProxyKeeps, Program, Knows
<1>8. /\ Minded(x, Knows, Knows') /\ L[6] \in {K[6], Full} /\ L[3] = K[3]
      /\ \/ Proceeds(e, G, x, p, Program', Knows', TheBuilder, K, L)
         \/ Program' = Do(OnError[phase]) /\ Knows' = Knows /\ Stopped(e, G, x, p, a, TheBuilder, K, L, c, closed)
  BY <1>7 DEF ProxyWell
<1>9. SamePeer(K, L)
  BY <1>7, <1>8 DEF SamePeer
<1>10. UNCHANGED <<env, closed, phase, toSign, registered, answer, cancelled>> /\ ConvOf("store")' = ConvOf("store")
  <2>1. c # "client" /\ "store" # c /\ "store" \in Conn
    BY <1>2 DEF Conn
  <2>2. QED
    BY <1>1, <1>3, <1>6, <2>1, StepLeaves
<1>11. Facts'
  BY <1>3, <1>6, <1>7, <1>8, <1>9, <1>10, StepFacts
<1>12. QED
  BY <1>2, <1>6, <1>7, <1>8, <1>10, <1>11 DEF BuilderStep

\* The links after a step on the connection to the builder.
LEMMA BuilderLinks ==
  ASSUME NEW cm, NEW bm, NEW sm, Links3(cm, bm, sm), UNCHANGED <<env, registered, answer>>,
         ConvOf("store")' = ConvOf("store"), ClientIn(env, registered, answer, cm, ConvOf("client")'),
         NEW bn, BuilderIn(env, bn, ConvOf("builder")')
  PROVE  Links3(cm, bn, sm)'
  BY DEF Links3

\* While the build runs.
LEMMA StepBuilding ==
  ASSUME Facts, Step("proxy"), NEW cm, NEW bm, NEW sm, SBuilding(cm, bm, sm), Links3(cm, bm, sm)
  PROVE  WireInv'
<1>1. PICK e, K, L, p, a, G, C : e = env /\ K = ConvOf("builder") /\ L = ConvOf("builder")' /\ p = Program /\ a = Knows
                                 /\ G = BuildGoals(e) /\ C = ConvOf("client")
  OBVIOUS
<1>2. IsConv("builder", K, L)
  BY <1>1 DEF IsConv
<1>3. /\ phase = "build" /\ Calls(cm) /\ bm = <<p, a>> /\ NewStore(sm) /\ BuilderUp /\ StoreUp
      /\ answer # "result"
  BY <1>1 DEF SBuilding
<1>4. At[phase] = "builder" /\ OnError[phase] = "BuildFailed"
  BY <1>3 DEF At, OnError
<1>5. BuilderIn(e, bm, K) /\ ClientIn(e, registered, answer, cm, C)
  BY <1>1 DEF Links3
<1>6. Talking(e, G, ToBuilder, p, a, TheBuilder, K)
  BY <1>1, <1>3, <1>5 DEF BuilderIn
<1>7. BuilderStep(e, G, p, a, K, L)
  BY <1>1, <1>2, <1>3, <1>4, <1>6, BuilderSteps
<1>8. /\ Facts' /\ Frame("proxy") /\ UNCHANGED <<env, closed, phase, toSign, registered, answer, cancelled>>
      /\ ConvOf("store")' = ConvOf("store") /\ L[1] = K[1]
  BY <1>7 DEF BuilderStep
<1>9. ClientIn(e, registered, answer, cm, ConvOf("client")')
  BY <1>1, <1>3, <1>5, <1>6, <1>8, CallerHears
<1>10. ASSUME NEW bn, BuilderIn(e, bn, L) PROVE Links3(cm, bn, sm)'
  BY <1>1, <1>8, <1>9, <1>10, BuilderLinks
<1>11. /\ Calls(cm)' /\ NewStore(sm)' /\ BuilderUp' /\ StoreUp' /\ phase' = "build" /\ answer' # "result"
  BY <1>3, <1>8 DEF Calls, NewStore, BuilderUp, StoreUp
<1>12. CASE Proceeds(e, G, ToBuilder, p, Program', Knows', TheBuilder, K, L)
  <2>1. PICK bn : bn = <<Program', Knows'>>
    BY Zenon
  <2>2. BuilderIn(e, bn, L)
    BY <1>1, <1>12, <2>1 DEF BuilderIn, Proceeds
  <2>3. Links3(cm, bn, sm)'
    BY <1>10, <2>2
  <2>4. SBuilding(cm, bn, sm)'
    BY <1>11, <2>1 DEF SBuilding
  <2>5. Plan(cm, bn, sm)'
    BY <2>4 DEF Plan
  <2>6. QED
    BY <1>8, <2>3, <2>5 DEF WireInv
<1>13. CASE Program' = Do(OnError[phase]) /\ Knows' = Knows /\ Stopped(e, G, ToBuilder, p, a, TheBuilder, K, L, "builder", closed)
  <2>1. ToBuilder[1] = "toBuilder"
    BY DaemonRoles
  <2>2. L = K /\ Excuse(env, cancelled)
    <3>1. CASE CutShort(K, L, "builder", closed)
      BY <1>3, <3>1 DEF CutShort, BuilderUp
    <3>2. CASE L = K /\ Head(p).k = "fail" /\ Arrives(e, G, ToBuilder, p, a, TheBuilder, K)
      <4>1. PICK g \in G : g = <<ToBuilder, <<p, a, K[6]>>, TheBuilder, g[4]>>
        BY <3>2 DEF Arrives
      <4>2. g[2] = <<p, a, K[6]>> /\ g[2] = BuildEnd(e)
        BY <1>1, <4>1 DEF BuildGoals
      <4>3. ASSUME e.error = "none" PROVE FALSE
        <5>1. p = Do("BuildDone")
          BY <4>2, <4>3 DEF BuildEnd
        <5>2. QED
          BY <3>2, <5>1, Named
      <4>4. QED
        BY <1>1, <3>2, <4>3 DEF Excuse
    <3>3. QED
      BY <1>13, <2>1, <3>1, <3>2 DEF Stopped, LateFlush
  <2>3. BuilderIn(e, bm, L)
    BY <1>5, <2>2
  <2>4. Links3(cm, bm, sm)'
    BY <1>10, <2>3
  <2>5. SFailure(cm, bm, sm)'
    BY <1>4, <1>8, <1>11, <1>13, <2>2 DEF SFailure
  <2>6. Plan(cm, bm, sm)'
    BY <2>5 DEF Plan
  <2>7. QED
    BY <1>8, <2>4, <2>6 DEF WireInv
<1>14. QED
  BY <1>7, <1>12, <1>13 DEF BuilderStep

\* What a step of the proxy on the connection to the client leaves true.
ClientStep(e, G, p, a, y, K, L) ==
  /\ Facts' /\ UNCHANGED <<env, closed, phase, toSign, registered, answer>>
  /\ ConvOf("builder")' = ConvOf("builder") /\ ConvOf("store")' = ConvOf("store") /\ L[1] = K[1]
  /\ ~Misses1(p, K) => cancelled' = cancelled
  /\ \/ Proceeds(e, G, ToClient, p, Program', Knows', y, K, L)
     \/ Program' = Do(OnError[phase]) /\ Knows' = Knows /\ Stopped(e, G, ToClient, p, a, y, K, L, "client", closed)

\* Every step of the proxy on the connection to the client.
LEMMA ClientSteps ==
  ASSUME Facts, Step("proxy"), At[phase] = "client", env.caller = "client", NEW e, e = env,
         NEW K, NEW L, IsConv("client", K, L), NEW G, NEW p, p = Program, NEW a, a = Knows, NEW y,
         Talking(e, G, ToClient, p, a, y, K)
  PROVE  ClientStep(e, G, p, a, y, K, L)
<1>1. Shape
  BY DEF Facts
<1>2. PICK c, x : c = "client" /\ x = ToClient
  OBVIOUS
<1>3. c = At[phase] /\ IsConv(c, K, L) /\ Talking(e, G, x, p, a, y, K)
  BY <1>2
<1>4. x[1] \in ProxyRoles
  BY <1>2, DaemonRoles
<1>5. p = todo["proxy"] /\ a = mem["proxy"]
  BY DEF Program, Knows
<1>6. Frame("proxy") /\ ProxyKeeps(e, G, x, p, a, c, y, K, L)
  BY <1>1, <1>3, <1>4, <1>5, ProxyStep
<1>7. /\ misread' = misread /\ L[1] = K[1] /\ L[2] = K[2]
      /\ ProxyWell(e, G, x, p, a, Program', Knows', y, K, L, Do(OnError[phase]), c, closed)
  BY <1>6 DEF ProxyKeeps, Program, Knows
<1>8. /\ Minded(x, Knows, Knows') /\ L[6] \in {K[6], Full} /\ L[3] = K[3]
      /\ \/ Proceeds(e, G, x, p, Program', Knows', y, K, L)
         \/ Program' = Do(OnError[phase]) /\ Knows' = Knows /\ Stopped(e, G, x, p, a, y, K, L, c, closed)
  BY <1>7 DEF ProxyWell
<1>9. SamePeer(K, L)
  BY <1>7, <1>8 DEF SamePeer
<1>10. /\ UNCHANGED <<env, closed, phase, toSign, registered, answer>>
       /\ ConvOf("builder")' = ConvOf("builder") /\ ConvOf("store")' = ConvOf("store")
  <2>1. "builder" # c /\ "store" # c /\ "store" \in Conn /\ "builder" \in Conn /\ "store" # "client" /\ "builder" # "client"
    BY <1>2 DEF Conn
  <2>2. QED
    BY <1>1, <1>3, <1>6, <2>1, StepLeaves
<1>11. Facts'
  BY <1>3, <1>6, <1>7, <1>8, <1>9, StepFacts
<1>12. ~Misses1(p, K) => cancelled' = cancelled
  <2>1. SUFFICES ASSUME CutsOff("proxy") PROVE Misses1(p, K)
    BY <1>6 DEF Frame
  <2>2. K[4] = wire[<<"client", "proxy">>] /\ In("proxy") = <<"client", "proxy">>
    BY ConvParts, ZenonT(60) DEF In
  <2>3. QED
    BY <2>1, <2>2 DEF CutsOff, Misses1, Now, Program
<1>13. QED
  BY <1>2, <1>7, <1>8, <1>10, <1>11, <1>12 DEF ClientStep

\* The links after a step on the connection to the client.
LEMMA ClientLinks ==
  ASSUME NEW cm, NEW bm, NEW sm, Links3(cm, bm, sm), UNCHANGED <<env, registered, answer>>,
         ConvOf("builder")' = ConvOf("builder"), ConvOf("store")' = ConvOf("store"),
         NEW cn, ClientIn(env, registered, answer, cn, ConvOf("client")')
  PROVE  Links3(cn, bm, sm)'
  BY DEF Links3

\* The proxy finds out that the client is gone.
LEMMA LosesClient ==
  ASSUME Facts, Facts', UNCHANGED <<env, closed, phase, registered, answer>>,
         ConvOf("builder")' = ConvOf("builder"), ConvOf("store")' = ConvOf("store"), ConvOf("client")' = ConvOf("client"),
         env.caller = "client", "client" \in closed, phase # "build",
         NEW cm, NEW bm, NEW sm, Links3(cm, bm, sm), sm[1] # "asking",
         \/ Program' = Do("End")
         \/ Program' \in {Do("Return"), Do("ReadOp")} /\ ConvOf("client")[4] = <<>>
  PROVE  WireInv'
<1>1. PICK K : K = ConvOf("client")
  OBVIOUS
<1>2. K[1] = <<>>
  BY <1>1 DEF Facts, ClientFacts
<1>3. CASE Program' = Do("End")
  <2>1. PICK cn : cn = <<"gone">>
    BY Zenon
  <2>2. ClientIn(env, registered, answer, cn, K)
    BY <1>2, <2>1 DEF ClientIn
  <2>3. Links3(cn, bm, sm)'
    BY <1>1, <2>2, ClientLinks
  <2>4. SLost(cn, bm, sm)'
    BY <1>3, <2>1 DEF SLost
  <2>5. Plan(cn, bm, sm)'
    BY <2>4 DEF Plan
  <2>6. QED
    BY <2>3, <2>5 DEF WireInv
<1>4. CASE Program' \in {Do("Return"), Do("ReadOp")} /\ K[4] = <<>>
  <2>1. PICK cn : cn = <<"cut">>
    BY Zenon
  <2>2. ClientIn(env, registered, answer, cn, K)
    BY <1>2, <1>4, <2>1 DEF ClientIn
  <2>3. Links3(cn, bm, sm)'
    BY <1>1, <2>2, ClientLinks
  <2>4. Program' # ReadOp
    <3>1. Head(ReadOp).k # "do"
      BY One DEF ReadOp, Ins
    <3>2. QED
      BY <1>4, <3>1, Named
  <2>5. SLost(cn, bm, sm)'
    BY <1>4, <2>1, <2>4 DEF SLost
  <2>6. Plan(cn, bm, sm)'
    BY <2>5 DEF Plan
  <2>7. QED
    BY <2>3, <2>6 DEF WireInv
<1>5. QED
  BY <1>1, <1>3, <1>4

\* Until the client has asked for the build.
LEMMA StepOpening ==
  ASSUME Facts, Step("proxy"), NEW cm, NEW bm, NEW sm, SOpening(cm, bm, sm), Links3(cm, bm, sm)
  PROVE  WireInv'
<1>1. PICK e, K, L, p, a, G : e = env /\ K = ConvOf("client") /\ L = ConvOf("client")' /\ p = Program /\ a = Knows
                              /\ G = OpeningGoals
  OBVIOUS
<1>2. IsConv("client", K, L)
  BY <1>1 DEF IsConv
<1>3. /\ env.caller = "client" /\ phase \in {"handshake", "op", "args"} /\ cm = <<"opening", p, a>>
      /\ NewBuilder(bm) /\ NewStore(sm) /\ ~cancelled /\ BuilderUp /\ StoreUp /\ answer # "result"
  BY <1>1 DEF SOpening
<1>4. /\ At[phase] = "client" /\ phase # "build"
      /\ OnError[phase] = IF phase = "args" THEN "ReadOp" ELSE "End"
  BY <1>3 DEF At, OnError
<1>5. ClientIn(e, registered, answer, cm, K)
  BY <1>1 DEF Links3
<1>6. Talking(e, G, ToClient, p, a, Client, K)
  BY <1>1, <1>3, <1>5 DEF ClientIn, OpeningIn
<1>7. ClientStep(e, G, p, a, Client, K, L)
  BY <1>1, <1>2, <1>3, <1>4, <1>6, ClientSteps
<1>8. /\ Facts' /\ UNCHANGED <<env, closed, phase, toSign, registered, answer>>
      /\ ConvOf("builder")' = ConvOf("builder") /\ ConvOf("store")' = ConvOf("store") /\ L[1] = K[1]
      /\ ~Misses1(p, K) => cancelled' = cancelled
  BY <1>7 DEF ClientStep
<1>9. ASSUME Talking(e, G, ToClient, Program', Knows', Client, L), ~Misses1(p, K) PROVE WireInv'
  <2>1. PICK cn : cn = <<"opening", Program', Knows'>>
    BY Zenon
  <2>2. OpeningIn(e, Program', Knows', L)
    BY <1>1, <1>9 DEF OpeningIn
  <2>3. ClientIn(env, registered, answer, cn, L)
    BY <1>1, <2>1, <2>2 DEF ClientIn
  <2>4. Links3(cn, bm, sm)'
    BY <1>1, <1>8, <2>3, ClientLinks
  <2>5. SOpening(cn, bm, sm)'
    BY <1>3, <1>8, <1>9, <2>1 DEF SOpening, NewBuilder, NewStore, BuilderUp, StoreUp
  <2>6. Plan(cn, bm, sm)'
    BY <2>5 DEF Plan
  <2>7. QED
    BY <1>8, <2>4, <2>6 DEF WireInv
<1>10. CASE Proceeds(e, G, ToClient, p, Program', Knows', Client, K, L)
  BY <1>9, <1>10 DEF Proceeds
<1>11. CASE Program' = Do(OnError[phase]) /\ Knows' = Knows /\ Stopped(e, G, ToClient, p, a, Client, K, L, "client", closed)
  <2>1. ToClient[1] = "toClient" /\ sm[1] # "asking"
    BY <1>3, DaemonRoles DEF NewStore
  <2>2. ~(Head(p).k = "fail" /\ Arrives(e, G, ToClient, p, a, Client, K))
    <3>1. SUFFICES ASSUME Arrives(e, G, ToClient, p, a, Client, K) PROVE Head(p).k # "fail"
      OBVIOUS
    <3>2. PICK g \in G : g = <<ToClient, <<p, a, K[6]>>, Client, g[4]>>
      BY <3>1 DEF Arrives
    <3>3. g[2] = <<p, a, K[6]>> /\ g[2] = <<Do("GetBuilder"), Asked, Full>>
      BY <1>1, <3>2 DEF OpeningGoals
    <3>4. p = Do("GetBuilder")
      BY <3>3
    <3>5. QED
      BY <3>4, Named
  <2>3. CASE CutShort(K, L, "client", closed)
    <3>1. "client" \in closed /\ L = K /\ K[4] = <<>>
      BY <2>3 DEF CutShort
    <3>2. ConvOf("client")' = ConvOf("client") /\ ConvOf("client")[4] = <<>>
      BY <1>1, <3>1
    <3>3. Program' \in {Do("End"), Do("ReadOp")}
      BY <1>4, <1>11
    <3>4. QED
      BY <1>3, <1>4, <1>8, <2>1, <3>1, <3>2, <3>3, LosesClient
  <2>4. CASE Head(p).k = "flush" /\ LateFlush(e, G, ToClient, a, Client, K, L, "client", closed)
    <3>1. "client" \in closed /\ L = K /\ Talking(e, G, ToClient, Do("ReadOp"), a, Client, K)
      BY <2>4 DEF LateFlush
    <3>2. CASE phase = "args"
      <4>1. Program' = Do("ReadOp") /\ Knows' = a
        BY <1>1, <1>4, <1>11, <3>2
      <4>2. ~Misses1(p, K)
        BY <2>4 DEF Misses1, Reads
      <4>3. QED
        BY <1>9, <3>1, <4>1, <4>2
    <3>3. CASE phase # "args"
      <4>1. ConvOf("client")' = ConvOf("client") /\ Program' = Do("End")
        BY <1>1, <1>4, <1>11, <3>1, <3>3
      <4>2. QED
        BY <1>3, <1>4, <1>8, <2>1, <3>1, <4>1, LosesClient
    <3>4. QED
      BY <3>2, <3>3
  <2>5. QED
    BY <1>11, <2>1, <2>2, <2>3, <2>4 DEF Stopped
<1>12. QED
  BY <1>7, <1>10, <1>11 DEF ClientStep

\* When the client is answered, and after that.
LEMMA StepAnswering ==
  ASSUME Facts, Step("proxy"), NEW cm, NEW bm, NEW sm, SAnswering(cm, bm, sm), Links3(cm, bm, sm)
  PROVE  WireInv'
<1>1. PICK e, K, L, p, a : e = env /\ K = ConvOf("client") /\ L = ConvOf("client")' /\ p = Program /\ a = Knows
  OBVIOUS
<1>2. IsConv("client", K, L)
  BY <1>1 DEF IsConv
<1>3. /\ env.caller = "client" /\ phase \in {"failed", "reply", "op", "args"} /\ cm = <<"answering", p, a>>
      /\ sm[1] # "asking"
  BY <1>1 DEF SAnswering
<1>4. /\ At[phase] = "client" /\ phase # "build"
      /\ OnError[phase] = IF phase = "args" THEN "ReadOp" ELSE IF phase = "op" THEN "End" ELSE "Return"
  BY <1>3 DEF At, OnError
<1>5. ClientIn(e, registered, answer, cm, K)
  BY <1>1 DEF Links3
<1>6. AnsweringIn(e, registered, answer, p, a, K)
  BY <1>3, <1>5 DEF ClientIn
<1>7. PICK G, y : /\ y[1] \in Clients /\ (\A g \in G : AnswerGoal(e, answer, y, g))
                  /\ y[1] = "reader" => Sound(y[2], registered) /\ answer # "result"
                  /\ Talking(e, G, ToClient, p, a, y, K)
  BY <1>6 DEF AnsweringIn
<1>8. ClientStep(e, G, p, a, y, K, L)
  BY <1>1, <1>2, <1>3, <1>4, <1>7, ClientSteps
<1>9. /\ Facts' /\ UNCHANGED <<env, closed, phase, toSign, registered, answer>>
      /\ ConvOf("builder")' = ConvOf("builder") /\ ConvOf("store")' = ConvOf("store") /\ L[1] = K[1]
  BY <1>8 DEF ClientStep
<1>10. ASSUME Talking(e, G, ToClient, Program', Knows', y, L) PROVE WireInv'
  <2>1. PICK cn : cn = <<"answering", Program', Knows'>>
    BY Zenon
  <2>2. AnsweringIn(e, registered, answer, Program', Knows', L)
    BY <1>7, <1>10 DEF AnsweringIn
  <2>3. ClientIn(env, registered, answer, cn, L)
    BY <1>1, <2>1, <2>2 DEF ClientIn
  <2>4. Links3(cn, bm, sm)'
    BY <1>1, <1>9, <2>3, ClientLinks
  <2>5. SAnswering(cn, bm, sm)'
    BY <1>3, <1>9, <2>1 DEF SAnswering
  <2>6. Plan(cn, bm, sm)'
    BY <2>5 DEF Plan
  <2>7. QED
    BY <1>9, <2>4, <2>6 DEF WireInv
<1>11. CASE Proceeds(e, G, ToClient, p, Program', Knows', y, K, L)
  BY <1>10, <1>11 DEF Proceeds
<1>12. CASE Program' = Do(OnError[phase]) /\ Knows' = Knows /\ Stopped(e, G, ToClient, p, a, y, K, L, "client", closed)
  <2>1. ToClient[1] = "toClient"
    BY DaemonRoles
  <2>2. ~Arrives(e, G, ToClient, p, a, y, K)
    <3>1. SUFFICES ASSUME Arrives(e, G, ToClient, p, a, y, K) PROVE FALSE
      OBVIOUS
    <3>2. PICK g \in G : g = <<ToClient, <<p, a, K[6]>>, y, g[4]>>
      BY <3>1 DEF Arrives
    <3>3. g[1] = ToClient /\ g[1] = y
      <4>1. AnswerGoal(e, answer, y, g)
        BY <1>7
      <4>2. g[1] = y
        BY <4>1 DEF AnswerGoal
      <4>3. g[1] = ToClient
        BY <3>2
      <4>4. QED
        BY <4>2, <4>3
    <3>4. QED
      BY <1>7, <2>1, <3>3 DEF Clients
  <2>3. CASE CutShort(K, L, "client", closed)
    <3>1. "client" \in closed /\ L = K /\ K[4] = <<>>
      BY <2>3 DEF CutShort
    <3>2. ConvOf("client")' = ConvOf("client") /\ ConvOf("client")[4] = <<>>
      BY <1>1, <3>1
    <3>3. Program' \in {Do("End"), Do("ReadOp"), Do("Return")}
      BY <1>4, <1>12
    <3>4. QED
      BY <1>3, <1>4, <1>9, <3>1, <3>2, <3>3, LosesClient
  <2>4. CASE LateFlush(e, G, ToClient, a, y, K, L, "client", closed)
    <3>1. "client" \in closed /\ L = K /\ Talking(e, G, ToClient, Do("ReadOp"), a, y, K) /\ K[8] = <<>>
      BY <2>4 DEF LateFlush
    <3>2. CASE phase = "args"
      <4>1. Program' = Do("ReadOp") /\ Knows' = a
        BY <1>1, <1>4, <1>12, <3>2
      <4>2. QED
        BY <1>10, <3>1, <4>1
    <3>3. CASE phase = "op"
      <4>1. ConvOf("client")' = ConvOf("client") /\ Program' = Do("End")
        BY <1>1, <1>4, <1>12, <3>1, <3>3
      <4>2. QED
        BY <1>3, <1>4, <1>9, <3>1, <4>1, LosesClient
    <3>4. CASE phase \notin {"args", "op"}
      <4>1. Program' = Do("Return") /\ Knows' = a
        BY <1>1, <1>4, <1>12, <3>4
      <4>2. Talking(e, G, ToClient, Do("Return"), a, y, K)
        <5>1. PICK q : Stays(K, q) /\ Talk(e, G, ProxySide(K, ToClient, Do("ReadOp"), a), PeerSide(K, y, q))
          BY <3>1 DEF Talking
        <5>2. PICK X, Y, Z : X = ProxySide(K, ToClient, Do("ReadOp"), a) /\ Y = PeerSide(K, y, q)
                             /\ Z = ProxySide(K, ToClient, Do("Return"), a)
          OBVIOUS
        <5>3. X[1] = ToClient /\ X[2] = Do("ReadOp") /\ X[3] = a /\ X[4] = K[6] /\ X[5] = K[7] /\ X[6] = K[8]
          BY <5>2, ProxyParts
        <5>4. Talk(e, G, At3(X, Do("Return"), X[3], X[4]), Y)
          BY <2>1, <3>1, <5>1, <5>2, <5>3, TalkReturn
        <5>5. At3(X, Do("Return"), X[3], X[4]) = Z
          BY <5>2, <5>3 DEF At3, ProxySide
        <5>6. QED
          BY <3>1, <5>1, <5>2, <5>4, <5>5 DEF Talking
      <4>3. QED
        BY <1>10, <3>1, <4>1, <4>2
    <3>5. QED
      BY <3>2, <3>3, <3>4
  <2>5. QED
    BY <1>12, <2>1, <2>2, <2>3, <2>4 DEF Stopped
<1>13. QED
  BY <1>8, <1>11, <1>12 DEF ClientStep

\* After the store host is gone.
LEMMA StepDead ==
  ASSUME Facts, Step("proxy"), NEW cm, NEW bm, NEW sm, SDead(cm, bm, sm), Links3(cm, bm, sm)
  PROVE  WireInv'
<1>1. PICK e, K, L, p, c : e = env /\ K = ConvOf("store") /\ L = ConvOf("store")' /\ p = Program /\ c = "store"
  OBVIOUS
<1>2. IsConv(c, K, L) /\ Shape /\ "proxy" \in Party
  BY <1>1 DEF IsConv, Facts, Party
<1>3. phase = "output" /\ DeadProgram(p) /\ sm = <<"dead">> /\ "store" \in closed /\ Visits(toSign, cm)
  BY <1>1 DEF SDead
<1>4. /\ c = At[phase] /\ OnError[phase] = "NextOutput" /\ ConnOf("proxy") = "store" /\ env.caller = "client"
  BY <1>1, <1>3 DEF At, OnError, ConnOf, Visits, Good
<1>5. K[1] = <<>> /\ K[4] = <<>>
  BY <1>1, <1>3 DEF Links3, StoreIn
<1>6. PICK w, q : IsSeq(q) /\ (p = Send(w) \o q \/ p = Flush \o q)
  BY <1>1, <1>3, NoStep, Zenon DEF DeadProgram
<1>7. Now("proxy") = Head(p)
  BY <1>1 DEF Now, Program
<1>8. ASSUME Frame("proxy"), misread' = misread, UNCHANGED <<mem, version>>, wire'[<<"store", "proxy">>] = wire[<<"store", "proxy">>],
             DeadProgram(Program')
      PROVE  WireInv'
  <2>1. Knows' = Knows
    BY <1>8 DEF Knows
  <2>2. todo'["store"] = todo["store"]
    BY <1>8 DEF Frame, Party, Conn
  <2>3. L[1] = K[1] /\ L[2] = K[2] /\ L[3] = K[3] /\ L[4] = K[4] /\ L[6] = K[6]
    <3>1. IsConv("store", K, L)
      BY <1>1, <1>2
    <3>2. /\ K[1] = todo["store"] /\ L[1] = todo'["store"] /\ K[2] = mem["store"] /\ L[2] = mem'["store"]
          /\ K[4] = wire[<<"store", "proxy">>] /\ L[4] = wire'[<<"store", "proxy">>]
      BY <3>1 DEF IsConv, ConvOf
    <3>3. /\ K[3] = version[<<"store", "proxy">>] /\ L[3] = version'[<<"store", "proxy">>]
          /\ K[6] = version[<<"proxy", "store">>] /\ L[6] = version'[<<"proxy", "store">>]
      BY <3>1, ConvVersions
    <3>4. QED
      BY <1>8, <2>2, <3>2, <3>3
  <2>4. SamePeer(K, L)
    BY <2>3 DEF SamePeer
  <2>5. PICK x : x = ToStore
    OBVIOUS
  <2>6. Minded(x, Knows, Knows')
    BY <2>1 DEF Minded
  <2>7. Facts'
    BY <1>2, <1>4, <1>8, <2>4, <2>6, StepFacts
  <2>8. /\ UNCHANGED <<env, closed, phase, toSign, registered, answer>>
        /\ ConvOf("client")' = ConvOf("client") /\ ConvOf("builder")' = ConvOf("builder")
    <3>1. c # "client" /\ c # "builder" /\ "builder" \in Conn
      BY <1>1 DEF Conn
    <3>2. QED
      BY <1>2, <1>4, <1>8, <3>1, StepLeaves
  <2>9. Visits(toSign, cm)'
    <3>1. PICK T : T = toSign
      OBVIOUS
    <3>2. SameResult(Knows, Knows')
      BY <2>1 DEF SameResult
    <3>3. Visits(T, cm)'
      BY <1>1, <1>3, <2>3, <2>8, <3>1, <3>2, VisitsStep
    <3>4. QED
      BY <2>8, <3>1, <3>3
  <2>10. StoreIn(env, registered, sm, L)
    BY <1>3, <1>5, <2>3 DEF StoreIn
  <2>11. Links3(cm, bm, sm)'
    BY <1>1, <2>8, <2>10, StoreLinks
  <2>12. SDead(cm, bm, sm)'
    BY <1>3, <1>8, <2>8, <2>9 DEF SDead
  <2>13. Plan(cm, bm, sm)'
    BY <2>12 DEF Plan
  <2>14. QED
    BY <2>7, <2>11, <2>13 DEF WireInv
<1>9. CASE p = Send(w) \o q
  <2>1. Head(p).k = "write" /\ Tail(p) = Flush \o q
    BY <1>6, <1>9, SendHead, Zenon
  <2>2. WriteWords("proxy")
    BY <1>7, <2>1, Zenon DEF Step, Read, ReadFails, FlushWords, Control, Reads
  <2>3. Quietly("proxy")
    BY <1>2, <2>2, WriteSteps
  <2>4. UNCHANGED <<mem, version, wire>> /\ todo' = [todo EXCEPT !["proxy"] = Tail(@)]
    BY <2>2 DEF WriteWords
  <2>5. Program' = Flush \o q
    BY <1>1, <1>2, <2>1, <2>4, Zenon DEF Program, Shape
  <2>6. DeadProgram(Program')
    BY <1>6, <2>5, Zenon DEF DeadProgram
  <2>7. QED
    BY <1>8, <2>3, <2>4, <2>6 DEF Quietly
<1>10. CASE p = Flush \o q
  <2>1. Head(p).k = "flush"
    <3>1. PICK i : i = Ins("flush", "", 0, <<>>)
      BY Zenon
    <3>2. p = <<i>> \o q /\ i.k = "flush"
      BY <1>10, <3>1, Zenon DEF Flush, Ins
    <3>3. QED
      BY <1>6, <3>2, FirstThen
  <2>2. FlushWords("proxy")
    BY <1>7, <2>1, Zenon DEF Step, Read, ReadFails, WriteWords, Control, Reads
  <2>3. Quietly("proxy")
    BY <1>2, <2>2, FlushSteps
  <2>4. UNCHANGED <<mem, version, wire>> /\ Fail("proxy")
    BY <1>3, <1>4, <2>2, Zenon DEF FlushWords
  <2>5. Program' = Do("NextOutput")
    BY <1>2, <1>4, <2>4 DEF Program, Shape, Fail
  <2>6. DeadProgram(Program')
    BY <2>5 DEF DeadProgram
  <2>7. QED
    BY <1>8, <2>3, <2>4, <2>6 DEF Quietly
<1>11. QED
  BY <1>6, <1>9, <1>10

\* After the client is gone.
LEMMA StepLost ==
  ASSUME Facts, Step("proxy"), NEW cm, NEW bm, NEW sm, SLost(cm, bm, sm), Links3(cm, bm, sm)
  PROVE  WireInv'
<1>1. PICK e, K, L, p, c : e = env /\ K = ConvOf("client") /\ L = ConvOf("client")' /\ p = Program /\ c = "client"
  OBVIOUS
<1>2. IsConv(c, K, L) /\ Shape /\ "proxy" \in Party
  BY <1>1 DEF IsConv, Facts, Party
<1>3. /\ env.caller = "client" /\ "client" \in closed /\ sm[1] # "asking"
      /\ p = ReadOp /\ phase = "op" /\ cm = <<"cut">>
  BY <1>1, NoStep DEF SLost
<1>4. /\ c = At[phase] /\ OnError[phase] = "End" /\ ConnOf("proxy") = "client" /\ In("proxy") = <<"client", "proxy">>
  BY <1>1, <1>3 DEF At, OnError, ConnOf, In
<1>5. K[1] = <<>> /\ K[4] = <<>>
  BY <1>1, <1>3 DEF Links3, ClientIn
<1>6. wire[In("proxy")] = <<>>
  <2>1. IsConv("client", K, L)
    BY <1>1, <1>2
  <2>2. K[4] = wire[<<"client", "proxy">>]
    BY <2>1, ConvParts, Zenon
  <2>3. QED
    BY <1>4, <1>5, <2>2
<1>7. Now("proxy") = Head(p) /\ Head(p).k = "op"
  BY <1>1, <1>3, One DEF Now, Program, ReadOp, Ins
<1>8. ReadFails("proxy")
  BY <1>6, <1>7, Zenon DEF Step, Read, FlushWords, WriteWords, Control, Complete
<1>9. Quietly("proxy")
  BY <1>2, <1>8, ReadFailSteps
<1>10. Frame("proxy") /\ misread' = misread
  BY <1>9 DEF Quietly
<1>11. UNCHANGED <<mem, version, wire, buf>> /\ Fail("proxy")
  BY <1>8 DEF ReadFails
<1>12. Program' = Do("End")
  BY <1>2, <1>4, <1>11 DEF Program, Shape, Fail
<1>13. todo'["client"] = todo["client"]
  BY <1>10 DEF Frame, Party, Conn
<1>14. L = K
  BY <1>1, <1>11, <1>13 DEF ConvOf
<1>15. Facts'
  <2>1. SamePeer(K, L)
    BY <1>14 DEF SamePeer
  <2>2. PICK x : x = ToClient
    OBVIOUS
  <2>3. Minded(x, Knows, Knows')
    BY <1>11 DEF Minded, Knows
  <2>4. QED
    BY <1>2, <1>3, <1>4, <1>10, <2>1, <2>3, StepFacts
<1>16. /\ UNCHANGED <<env, closed, phase, toSign, registered, answer>>
       /\ ConvOf("builder")' = ConvOf("builder") /\ ConvOf("store")' = ConvOf("store")
  <2>1. "builder" # c /\ "store" # c /\ "store" \in Conn /\ "builder" \in Conn /\ "store" # "client" /\ "builder" # "client"
    BY <1>1 DEF Conn
  <2>2. QED
    BY <1>2, <1>4, <1>10, <2>1, StepLeaves
<1>17. ConvOf("client")' = ConvOf("client") /\ phase # "build"
  BY <1>1, <1>3, <1>14
<1>18. QED
  BY <1>3, <1>12, <1>15, <1>16, <1>17, LosesClient

\* Every step of the proxy on the connection that it uses - a read, a write,
\* a flush, or an error of these - keeps the invariant.
THEOREM ProxyStepInv ==
  ASSUME WireInv, Step("proxy")
  PROVE  WireInv'
<1>1. PICK cm, bm, sm : Plan(cm, bm, sm) /\ Links3(cm, bm, sm)
  BY DEF WireInv
<1>2. Facts
  BY DEF WireInv
<1>3. SOpening(cm, bm, sm) => WireInv'
  BY <1>1, <1>2, StepOpening
<1>4. SBuilding(cm, bm, sm) => WireInv'
  BY <1>1, <1>2, StepBuilding
<1>5. SSigning(cm, bm, sm) => WireInv'
  BY <1>1, <1>2, StepSigning
<1>6. SAsking(cm, bm, sm) => WireInv'
  BY <1>1, <1>2, StepAsking
<1>7. SDead(cm, bm, sm) => WireInv'
  BY <1>1, <1>2, StepDead
<1>8. SAnswering(cm, bm, sm) => WireInv'
  BY <1>1, <1>2, StepAnswering
<1>9. SLost(cm, bm, sm) => WireInv'
  BY <1>1, <1>2, StepLost
<1>10. ~SStart(cm, bm, sm) /\ ~SFailure(cm, bm, sm) /\ ~SJobDone(cm, bm, sm) /\ ~SVisiting(cm, bm, sm)
  BY NoStep DEF SStart, SFailure, SJobDone, SVisiting
<1>11. ~SReply(cm, bm, sm)
  BY NoStep DEF SReply
<1>12. QED
  BY <1>1, <1>3, <1>4, <1>5, <1>6, <1>7, <1>8, <1>9, <1>10, <1>11 DEF Plan
-----------------------------------------------------------------------------
(* The proxy goes to another part of its program *)

\* What the proxy does by itself leaves the connections as they are.
ActFrame ==
  /\ Shape' /\ (\A c \in Conn : ConvOf(c)' = ConvOf(c)) /\ UNCHANGED <<env, cancelled, registered, misread>>

\* A change of what the proxy does and knows is of this kind.
LEMMA ProxyOnly ==
  ASSUME Shape, NEW q, Goes(q), NEW b, mem' = mem \/ mem' = [mem EXCEPT !["proxy"] = b],
         UNCHANGED <<version, buf, wire, misread, env, cancelled, registered>>, phase' \in DOMAIN At
  PROVE  ActFrame /\ Program' = q
<1>1. "proxy" \in Party /\ \A c \in Conn : c # "proxy" /\ c \in Party
  BY DEF Party, Conn
<1>2. DOMAIN todo' = Party /\ DOMAIN mem' = Party /\ Program' = q
  BY <1>1 DEF Shape, Goes, Program
<1>3. \A c \in Conn : todo'[c] = todo[c] /\ mem'[c] = mem[c]
  BY <1>1 DEF Shape, Goes
<1>4. \A c \in Conn : ConvOf(c)' = ConvOf(c)
  BY <1>3 DEF ConvOf
<1>5. Shape'
  BY <1>2 DEF Shape
<1>6. QED
  BY <1>2, <1>4, <1>5 DEF ActFrame

\* Where the parts of the program lead that the proxy enters on a connection
\* and leaves without another one.
LEMMA ActsAt ==
  ASSUME ProxyDo, NEW l, Program = Do(l)
  PROVE  /\ l = "Handshake" => Handshake
         /\ l = "PostHandshake" => PostHandshake
         /\ l = "ReadOp" => NextOp
         /\ l = "End" => EndSession
         /\ l \in {"handleSetOptions", "handleBuildDerivation", "unhandled"} => HandleOp
         /\ l = "GetBuilder" => GetBuilder
         /\ l = "HandshakeInfo" => sendSetOptions
         /\ l = "ExecuteBuild" => ExecuteBuild
         /\ l = "BuildDone" => BuildDone \/ TaskReturns
         /\ l = "BuildFailed" => BuildFailed \/ TaskReturns
         /\ l = "NextOutput" => NextOutput
         /\ l = "SignPath" => SignPath
         /\ l = "Signed" => ShowSignature
         /\ l = "Reply" => ReplyToClient
         /\ l = "Return" => ReleaseBuilder
         /\ ProxyAt(l)
<1>1. \A k : ProxyAt(k) => k = l
  BY Named DEF ProxyAt, Now, Program
<1>2. /\ Handshake => ProxyAt("Handshake")
      /\ PostHandshake => ProxyAt("PostHandshake")
      /\ NextOp => ProxyAt("ReadOp")
      /\ EndSession => ProxyAt("End")
      /\ HandleOp => \E k \in {"handleSetOptions", "handleBuildDerivation", "unhandled"} : ProxyAt(k)
  BY DEF Handshake, PostHandshake, NextOp, EndSession, HandleOp
<1>3. /\ GetBuilder => ProxyAt("GetBuilder")
      /\ sendSetOptions => ProxyAt("HandshakeInfo")
      /\ ExecuteBuild => ProxyAt("ExecuteBuild")
      /\ BuildDone => ProxyAt("BuildDone")
      /\ BuildFailed => ProxyAt("BuildFailed")
  BY DEF GetBuilder, sendSetOptions, ExecuteBuild, BuildDone, BuildFailed
<1>4. /\ NextOutput => ProxyAt("NextOutput")
      /\ SignPath => ProxyAt("SignPath")
      /\ ShowSignature => ProxyAt("Signed")
      /\ ReplyToClient => ProxyAt("Reply")
      /\ ReleaseBuilder => ProxyAt("Return")
      /\ TaskReturns => ProxyAt("BuildDone") \/ ProxyAt("BuildFailed")
  BY DEF NextOutput, SignPath, ShowSignature, ReplyToClient, ReleaseBuilder, TaskReturns
<1>5. QED
  BY <1>1, <1>2, <1>3, <1>4, Zenon DEF ProxyDo

\* It does nothing of this kind elsewhere.
LEMMA ActsOnly ==
  ASSUME ProxyDo
  PROVE  Program # <<>> /\ Head(Program).k = "do"
<1>1. \E l : ProxyAt(l)
  BY DEF ProxyDo, Handshake, PostHandshake, NextOp, EndSession, HandleOp, GetBuilder, sendSetOptions, ExecuteBuild,
         BuildDone, BuildFailed, NextOutput, SignPath, ShowSignature, ReplyToClient, ReleaseBuilder, TaskReturns
<1>2. QED
  BY <1>1 DEF ProxyAt, Ready, Now, Program

\* The proxy at a part of its program: it enters it, or has reached a goal.
LEMMA ProxyDoTalk ==
  ASSUME NEW e, NEW G, NEW x, NEW p, NEW a, NEW y, NEW K, Talking(e, G, x, p, a, y, K), Head(p).k = "do"
  PROVE  \/ Arrives(e, G, x, p, a, y, K)
         \/ \E l, q : p = Do(l) /\ EntersAs(e, x, l, a, MinorOf(K[6]), q) /\ Talking(e, G, x, q, a, y, K)
<1>1. PICK r : Stays(K, r) /\ Talk(e, G, ProxySide(K, x, p, a), PeerSide(K, y, r))
  BY DEF Talking
<1>2. Goals(G)
  BY DEF Talking
<1>3. PICK X, Y : X = ProxySide(K, x, p, a) /\ Y = PeerSide(K, y, r)
  OBVIOUS
<1>4. X[1] = x /\ X[2] = p /\ X[3] = a /\ X[4] = K[6] /\ X[5] = K[7] /\ X[6] = K[8] /\ Pos(X) = <<p, a, K[6]>>
  BY <1>3, ProxyParts
<1>5. Y[1] = y
  BY <1>3, PeerParts
<1>6. Talk(e, G, X, Y)
  BY <1>1, <1>3
<1>7. \/ Reached(e, G, X, Y)
      \/ \E q : Enters(e, X[1], X[2], X[3], X[4], q) /\ Talk(e, G, At3(X, q, X[3], X[4]), Y)
  BY <1>2, <1>4, <1>6, TalkDo
<1>8. CASE Reached(e, G, X, Y)
  <2>1. PICK g \in G : Rests(e, Y, g[4]) /\ g = <<X[1], Pos(X), Y[1], g[4]>>
    BY <1>8, ReachedGoal
  <2>2. g = <<x, <<p, a, K[6]>>, y, g[4]>>
    BY <1>4, <1>5, <2>1
  <2>3. Rests(e, PeerSide(K, y, r), g[4])
    BY <1>3, <2>1
  <2>4. K[7] = <<>> /\ K[8] = <<>>
    BY <1>4, <1>8 DEF Reached, Clear
  <2>5. QED
    BY <1>1, <2>2, <2>3, <2>4 DEF Arrives
<1>9. CASE \E q : Enters(e, X[1], X[2], X[3], X[4], q) /\ Talk(e, G, At3(X, q, X[3], X[4]), Y)
  <2>1. PICK q : Enters(e, X[1], X[2], X[3], X[4], q) /\ Talk(e, G, At3(X, q, X[3], X[4]), Y)
    BY <1>9
  <2>2. PICK v, l : v = K[6] /\ l = Head(p).f
    OBVIOUS
  <2>3. Enters(e, x, p, a, v, q)
    BY <1>4, <2>1, <2>2
  <2>4. p = Do(l) /\ EntersAs(e, x, l, a, MinorOf(v), q)
    BY <2>2, <2>3, EntersNamed
  <2>5. At3(X, q, X[3], X[4]) = ProxySide(K, x, q, a)
    BY <1>4 DEF At3, ProxySide
  <2>6. Talking(e, G, x, q, a, y, K)
    BY <1>1, <1>2, <1>3, <2>1, <2>5 DEF Talking
  <2>7. QED
    BY <2>2, <2>4, <2>6
<1>10. QED
  BY <1>7, <1>8, <1>9

\* The proxy enters a part of its program, on the connection that it uses.
RoleAt(x) ==
  /\ x[1] \in ProxyRoles
  /\ x[1] = "toClient" => At[phase] = "client"
  /\ x[1] = "toBuilder" => phase = "build"
  /\ x[1] = "toSigning" => phase = "signing"
  /\ x[1] = "toStore" => phase = "output"
Entered(x, q) ==
  /\ ActFrame /\ Program' = q /\ Knows' = Knows /\ UNCHANGED <<closed, toSign, answer>>
  /\ phase' = phase \/ (x[1] = "toClient" /\ phase' \in {"op", "args"})
\* What it changes.
Turns(x, q) ==
  /\ Goes(q) /\ UNCHANGED <<mem, version, buf, wire, misread, env, cancelled, registered, closed, toSign, answer>>
  /\ phase' = phase \/ (x[1] = "toClient" /\ phase' \in {"op", "args"})

\* Such a change enters the part.
LEMMA TurnsEntered ==
  ASSUME Shape, NEW x, NEW q, Turns(x, q)
  PROVE  Entered(x, q)
<1>1. phase' \in DOMAIN At
  BY DEF Shape, Turns, At
<1>2. Goes(q) /\ mem' = mem /\ UNCHANGED <<version, buf, wire, misread, env, cancelled, registered>>
  BY DEF Turns
<1>3. ActFrame /\ Program' = q
  BY <1>1, <1>2, ProxyOnly
<1>4. Knows' = Knows
  BY <1>2 DEF Knows
<1>5. QED
  BY <1>3, <1>4 DEF Turns, Entered

\* The actions of the proxy at the parts of its conversations change this.
LEMMA EntersTurns ==
  ASSUME Shape, ProxyDo, NEW x, RoleAt(x), NEW l, Program = Do(l), NEW m, m = M("proxy"),
         NEW e, e = env, NEW a, a = Knows, NEW q, EntersAs(e, x, l, a, m, q)
  PROVE  Turns(x, q)
<1>1. CASE x[1] = "toClient"
  <2>1. CASE l = "Handshake" /\ q = ServeHandshake
    <3>1. Handshake
      BY <2>1, ActsAt
    <3>2. QED
      BY <2>1, <3>1 DEF Handshake, Turns, others
  <2>2. CASE l = "PostHandshake" /\ q = ServePostHandshake(m)
    <3>1. PostHandshake
      BY <2>2, ActsAt
    <3>2. QED
      BY <2>2, <3>1 DEF PostHandshake, Turns, others
  <2>3. CASE l = "ReadOp" /\ q = ReadOp
    <3>1. NextOp
      BY <2>3, ActsAt
    <3>2. QED
      BY <1>1, <2>3, <3>1 DEF NextOp, Turns
  <2>4. CASE l = "Return" /\ q = Do("ReadOp")
    <3>1. ReleaseBuilder
      BY <2>4, ActsAt
    <3>2. QED
      BY <2>4, <3>1 DEF ReleaseBuilder, Turns
  <2>5. CASE l \in {"handleSetOptions", "handleBuildDerivation", "unhandled"} /\ q = ServeOp(l, m)
    <3>1. HandleOp
      BY <2>5, ActsAt
    <3>2. PICK k : ProxyAt(k) /\ Goes(ServeOp(k, m))
      BY <3>1 DEF HandleOp
    <3>3. k = l
      BY <3>2, Named DEF ProxyAt, Now, Program
    <3>4. QED
      BY <1>1, <2>5, <3>1, <3>2, <3>3 DEF HandleOp, Turns
  <2>6. QED
    BY <1>1, <2>1, <2>2, <2>3, <2>4, <2>5 DEF EntersAs
<1>2. CASE x[1] = "toBuilder"
  <2>1. CASE l = "HandshakeInfo" /\ q = AskOptions(m, "ExecuteBuild")
    <3>1. sendSetOptions
      BY <2>1, ActsAt
    <3>2. phase = "build"
      BY <1>2 DEF RoleAt
    <3>3. QED
      BY <2>1, <3>1, <3>2 DEF sendSetOptions, Turns, others
  <2>2. CASE l = "ExecuteBuild" /\ q = AskBuild(m, a.drv)
    <3>1. ExecuteBuild
      BY <2>2, ActsAt
    <3>2. QED
      BY <2>2, <3>1 DEF ExecuteBuild, Turns, others, Knows
  <2>3. QED
    BY <1>2, <2>1, <2>2 DEF EntersAs
<1>3. CASE x[1] = "toSigning"
  <2>1. l = "HandshakeInfo" /\ q = AskOptions(m, "NextOutput")
    BY <1>3 DEF EntersAs
  <2>2. sendSetOptions
    BY <2>1, ActsAt
  <2>3. phase # "build"
    BY <1>3 DEF RoleAt
  <2>4. QED
    BY <2>1, <2>2, <2>3 DEF sendSetOptions, Turns, others
<1>4. CASE x[1] = "toStore"
  <2>1. /\ l = "SignPath"
        /\ (a.narHash # 0 /\ q = AskSignature(a)) \/ (a.narHash = 0 /\ q = Do("NextOutput"))
    BY <1>4 DEF EntersAs
  <2>2. SignPath
    BY <2>1, ActsAt
  <2>6. OnError[phase] = "NextOutput"
    BY <1>4 DEF RoleAt, OnError
  <2>3. Fail("proxy") => Goes(Do("NextOutput"))
    BY <2>6 DEF Fail, Goes
  <2>4. Goes(q)
    BY <2>1, <2>2, <2>3 DEF SignPath, Knows
  <2>5. QED
    BY <2>2, <2>4 DEF SignPath, Turns, others
<1>5. QED
  BY <1>1, <1>2, <1>3, <1>4 DEF RoleAt, ProxyRoles
\* The proxy at a part of its program, on the connection that it uses: it enters
\* it, or has reached a goal.
LEMMA ProxyEnters ==
  ASSUME Facts, ProxyDo, NEW x, RoleAt(x), NEW c, c = At[phase], NEW K, K = ConvOf(c), NEW e, e = env,
         NEW p, p = Program, NEW a, a = Knows, NEW G, NEW y, Talking(e, G, x, p, a, y, K)
  PROVE  \/ Arrives(e, G, x, p, a, y, K)
         \/ Entered(x, Program') /\ Talking(e, G, x, Program', a, y, K)
<1>1. Shape
  BY DEF Facts
<1>2. Head(p).k = "do"
  BY ActsOnly
<1>3. \/ Arrives(e, G, x, p, a, y, K)
      \/ \E l, q : p = Do(l) /\ EntersAs(e, x, l, a, MinorOf(K[6]), q) /\ Talking(e, G, x, q, a, y, K)
  BY <1>2, ProxyDoTalk
<1>4. SUFFICES ASSUME NEW l, NEW q, p = Do(l), EntersAs(e, x, l, a, MinorOf(K[6]), q), Talking(e, G, x, q, a, y, K)
               PROVE  Entered(x, Program') /\ Talking(e, G, x, Program', a, y, K)
  BY <1>3
<1>5. PICK m : m = MinorOf(K[6])
  OBVIOUS
<1>6. m = M("proxy")
  BY <1>5 DEF M, Out, ConvOf
<1>7. Turns(x, q)
  BY <1>1, <1>4, <1>5, <1>6, EntersTurns
<1>8. Entered(x, q)
  BY <1>1, <1>7, TurnsEntered
<1>9. Program' = q
  BY <1>8 DEF Entered
<1>10. QED
  BY <1>4, <1>8, <1>9

\* The facts after the proxy has gone to another part of its program.
LEMMA FactsAct ==
  ASSUME Facts, ActFrame, IsMem(Knows'), IsSeq(Knows'.fields),
         closed' \in {closed, closed \union {"builder"}, closed \union {"store"}},
         \/ answer' = answer /\ env.caller = "client"
         \/ answer' = answer /\ Knows' = Knows
         \/ env.caller = "job" /\ answer' = "result" /\ GotOK(env, Knows')
         \/ env.caller = "job" /\ answer' = "error" /\ Excuse(env, cancelled)
  PROVE  Facts'
<1>1. /\ Shape' /\ UNCHANGED <<env, cancelled, registered, misread>>
      /\ ConvOf("client")' = ConvOf("client") /\ ConvOf("builder")' = ConvOf("builder") /\ ConvOf("store")' = ConvOf("store")
  BY DEF ActFrame, Conn
<1>2. DaemonFacts("builder", closed', ConvOf("builder")) /\ DaemonFacts("store", closed', ConvOf("store"))
  BY DEF Facts, DaemonFacts
<1>3. "client" \in closed' => "client" \in closed
  OBVIOUS
<1>4. ClientFacts(env, registered, answer', closed', ConvOf("client"))
  <2>1. ClientFacts(env, registered, answer, closed, ConvOf("client"))
    BY DEF Facts
  <2>2. CASE answer' = answer
    BY <1>3, <2>1, <2>2, Zenon DEF ClientFacts
  <2>3. CASE env.caller = "job"
    <3>1. ConvOf("client")[1] = <<>>
      BY <2>1, <2>3 DEF ClientFacts
    <3>2. ConvOf("client")[1] # Do("leave") /\ env.caller # "client"
      BY <2>3, <3>1, Named
    <3>3. QED
      BY <1>3, <2>1, <3>1, <3>2, Zenon DEF ClientFacts
  <2>4. QED
    BY <2>2, <2>3
<1>5. answer' = "error" => Excuse(env, cancelled)
  BY DEF Facts
<1>6. env.caller = "job" /\ answer' = "result" => GotOK(env, Knows')
  BY DEF Facts
<1>7. QED
  BY <1>1, <1>2, <1>4, <1>5, <1>6 DEF Facts
\* The invariant after the proxy has gone to another part of its program.
LEMMA ActLinks ==
  ASSUME ActFrame, NEW cm, NEW bm, NEW sm, ClientIn(env, registered, answer', cm, ConvOf("client")),
         BuilderIn(env, bm, ConvOf("builder")), StoreIn(env, registered, sm, ConvOf("store"))
  PROVE  Links3(cm, bm, sm)'
<1>1. /\ ConvOf("client")' = ConvOf("client") /\ ConvOf("builder")' = ConvOf("builder") /\ ConvOf("store")' = ConvOf("store")
  BY DEF ActFrame, Conn
<1>2. env' = env /\ registered' = registered
  BY DEF ActFrame
<1>3. QED
  BY <1>1, <1>2 DEF Links3

\* The invariant, from the part of the session that follows.
LEMMA ActInv ==
  ASSUME ActFrame, Facts', NEW cm, NEW bm, NEW sm, Plan(cm, bm, sm)', ClientIn(env, registered, answer', cm, ConvOf("client")),
         BuilderIn(env, bm, ConvOf("builder")), StoreIn(env, registered, sm, ConvOf("store"))
  PROVE  WireInv'
<1>1. Links3(cm, bm, sm)'
  BY ActLinks
<1>2. QED
  BY <1>1 DEF WireInv

\* Entering a part changes none of the facts.
LEMMA EnteredFacts ==
  ASSUME Facts, NEW x, NEW q, Entered(x, q)
  PROVE  Facts' /\ ActFrame /\ answer' = answer /\ closed' = closed /\ toSign' = toSign /\ Knows' = Knows
         /\ Program' = q /\ UNCHANGED <<env, cancelled, registered>> /\ ConvOf("store")' = ConvOf("store")
<1>1. ActFrame /\ answer' = answer /\ closed' = closed /\ toSign' = toSign /\ Knows' = Knows /\ Program' = q
  BY DEF Entered
<1>2. IsMem(Knows') /\ IsSeq(Knows'.fields)
  BY <1>1 DEF Facts
<1>3. Facts'
  BY <1>1, <1>2, FactsAct
<1>4. QED
  BY <1>1, <1>3 DEF ActFrame, Conn

\* The result of a build stays as good as it was.
LEMMA VisitsAct ==
  ASSUME NEW T, NEW cm, Visits(T, cm), UNCHANGED <<env, registered, answer, toSign>>, Knows' = Knows,
         "store" \in closed' => "store" \in closed, ConvOf("store")' = ConvOf("store")
  PROVE  Visits(T, cm)'
<1>1. StoreUp'
  BY DEF Visits, StoreUp
<1>2. Good(T)'
  BY DEF Visits, Good
<1>3. QED
  BY <1>1, <1>2 DEF Visits

\* When the client is answered, and after that.
LEMMA DoAnswering ==
  ASSUME Facts, ProxyDo, NEW cm, NEW bm, NEW sm, SAnswering(cm, bm, sm), Links3(cm, bm, sm)
  PROVE  WireInv'
<1>1. PICK e, K, p, a, c : e = env /\ K = ConvOf("client") /\ p = Program /\ a = Knows /\ c = "client"
  OBVIOUS
<1>3. /\ env.caller = "client" /\ phase \in {"failed", "reply", "op", "args"} /\ cm = <<"answering", p, a>>
      /\ sm[1] # "asking"
  BY <1>1 DEF SAnswering
<1>4. c = At[phase]
  BY <1>1, <1>3 DEF At
<1>5. ClientIn(e, registered, answer, cm, K)
  BY <1>1 DEF Links3
<1>6. AnsweringIn(e, registered, answer, p, a, K)
  BY <1>3, <1>5 DEF ClientIn
<1>7. PICK G, y : /\ y[1] \in Clients /\ (\A g \in G : AnswerGoal(e, answer, y, g))
                  /\ y[1] = "reader" => Sound(y[2], registered) /\ answer # "result"
                  /\ Talking(e, G, ToClient, p, a, y, K)
  BY <1>6 DEF AnsweringIn
<1>8. PICK x : x = ToClient
  OBVIOUS
<1>9. x[1] = "toClient"
  BY <1>8, DaemonRoles
<1>10. RoleAt(x)
  BY <1>1, <1>4, <1>9 DEF RoleAt, ProxyRoles
<1>11. ~Arrives(e, G, x, p, a, y, K)
  <2>1. SUFFICES ASSUME Arrives(e, G, x, p, a, y, K) PROVE FALSE
    OBVIOUS
  <2>2. PICK g \in G : g = <<x, <<p, a, K[6]>>, y, g[4]>>
    BY <2>1 DEF Arrives
  <2>3. AnswerGoal(e, answer, y, g)
    BY <1>7
  <2>4. g[1] = y
    BY <2>3 DEF AnswerGoal
  <2>5. g[1] = x
    BY <2>2
  <2>6. QED
    BY <1>7, <1>9, <2>4, <2>5 DEF Clients
<1>12. K = ConvOf(c) /\ Talking(e, G, x, p, a, y, K)
  BY <1>1, <1>7, <1>8
<1>13. Entered(x, Program') /\ Talking(e, G, x, Program', a, y, K)
  BY <1>1, <1>4, <1>10, <1>11, <1>12, ProxyEnters
<1>14. Facts' /\ ActFrame /\ answer' = answer /\ Knows' = Knows /\ env' = env
  BY <1>13, EnteredFacts
<1>15. phase' \in {"failed", "reply", "op", "args"}
  BY <1>3, <1>13 DEF Entered
<1>16. AnsweringIn(e, registered, answer, Program', a, K)
  BY <1>7, <1>8, <1>13 DEF AnsweringIn
<1>17. PICK cn : cn = <<"answering", Program', a>>
  BY Zenon
<1>18. ClientIn(env, registered, answer', cn, ConvOf("client"))
  BY <1>1, <1>14, <1>16, <1>17 DEF ClientIn
<1>19. SAnswering(cn, bm, sm)'
  BY <1>1, <1>3, <1>14, <1>15, <1>17 DEF SAnswering
<1>20. Plan(cn, bm, sm)'
  BY <1>19 DEF Plan
<1>21. BuilderIn(env, bm, ConvOf("builder")) /\ StoreIn(env, registered, sm, ConvOf("store"))
  BY DEF Links3
<1>22. QED
  BY <1>14, <1>18, <1>20, <1>21, ActInv

\* After the client is gone.
LEMMA DoLost ==
  ASSUME Facts, ProxyDo, NEW cm, NEW bm, NEW sm, SLost(cm, bm, sm), Links3(cm, bm, sm)
  PROVE  WireInv'
<1>1. /\ env.caller = "client" /\ "client" \in closed /\ sm[1] # "asking" /\ phase # "build" /\ Shape
      /\ IsMem(Knows) /\ IsSeq(Knows.fields)
  BY DEF SLost, Facts
<1>2. /\ BuilderIn(env, bm, ConvOf("builder")) /\ StoreIn(env, registered, sm, ConvOf("store"))
      /\ ClientIn(env, registered, answer, cm, ConvOf("client"))
  BY DEF Links3
<1>3. Program # <<>> /\ Program # ReadOp
  <2>1. Head(ReadOp).k # "do"
    BY One DEF ReadOp, Ins
  <2>2. QED
    BY <2>1, ActsOnly
<1>4. PICK l : Program = Do(l) /\ l \in {"End", "Return", "ReadOp"}
  BY <1>3 DEF SLost
<1>5. (l = "End" /\ cm = <<"gone">>) \/ (l # "End" /\ cm = <<"cut">>)
  <2>1. l # "End" => Program \notin {Do("End"), <<>>}
    BY <1>3, <1>4, Named
  <2>2. l = "End" => Program \notin {Do("Return"), Do("ReadOp"), ReadOp}
    BY <1>3, <1>4, Named
  <2>3. QED
    BY <2>1, <2>2 DEF SLost
<1>6. ASSUME NEW q, Goes(q), UNCHANGED <<mem, version, buf, wire, misread, env, cancelled, registered, answer>>,
             phase' \in {phase, "op"}, closed' \in {closed, closed \union {"client"}},
             \/ q = <<>> /\ cm = <<"gone">>
             \/ q \in {Do("ReadOp"), ReadOp} /\ cm = <<"cut">> /\ (q = ReadOp => phase' = "op")
      PROVE  WireInv'
  <2>1. phase' \in DOMAIN At
    BY <1>1, <1>6 DEF Shape, At
  <2>2. ActFrame /\ Program' = q
    BY <1>1, <1>6, <2>1, ProxyOnly
  <2>3. Knows' = Knows /\ closed' = closed
    BY <1>1, <1>6, Zenon DEF Knows
  <2>4. Facts'
    BY <1>1, <1>6, <2>2, <2>3, FactsAct
  <2>5. SLost(cm, bm, sm)'
    BY <1>1, <1>6, <2>2, <2>3 DEF SLost
  <2>6. Plan(cm, bm, sm)'
    BY <2>5 DEF Plan
  <2>7. QED
    BY <1>2, <1>6, <2>2, <2>4, <2>6, ActInv
<1>7. CASE l = "End"
  <2>1. EndSession
    BY <1>4, <1>7, ActsAt
  <2>2. QED
    BY <1>5, <1>6, <1>7, <2>1 DEF EndSession
<1>8. CASE l = "Return"
  <2>1. ReleaseBuilder
    BY <1>4, <1>8, ActsAt
  <2>2. Do("ReadOp") # ReadOp
    BY Named, One DEF ReadOp, Ins
  <2>3. QED
    BY <1>5, <1>6, <1>8, <2>1, <2>2 DEF ReleaseBuilder
<1>9. CASE l = "ReadOp"
  <2>1. NextOp
    BY <1>4, <1>9, ActsAt
  <2>2. QED
    BY <1>5, <1>6, <1>9, <2>1 DEF NextOp
<1>10. QED
  BY <1>4, <1>7, <1>8, <1>9
\* The build starts, for a caller that waits.
LEMMA StartsBuild ==
  ASSUME Facts, GetBuilder, Knows = Asked, NEW cm, NEW bm, NEW sm, NewBuilder(bm), NewStore(sm), BuilderUp, StoreUp,
         answer # "result", Calls(cm), ClientIn(env, registered, answer, cm, ConvOf("client")),
         BuilderIn(env, bm, ConvOf("builder")), StoreIn(env, registered, sm, ConvOf("store"))
  PROVE  WireInv'
<1>1. /\ Shape /\ IsMem(Knows) /\ IsSeq(Knows.fields)
  BY DEF Facts
<1>2. /\ phase' = "build"
      /\ UNCHANGED <<mem, version, buf, wire, misread, env, cancelled, closed, toSign, registered, answer>>
  BY DEF GetBuilder
<1>3. phase' \in DOMAIN At
  BY <1>2 DEF At
<1>4. Knows' = Knows
  BY <1>2 DEF Knows
<1>5. Calls(cm)' /\ NewStore(sm)'
  BY <1>2 DEF Calls, NewStore
<1>6. ASSUME NEW q, Goes(q) PROVE ActFrame /\ Program' = q /\ Facts' /\ BuilderUp' /\ StoreUp'
  <2>1. ActFrame /\ Program' = q
    BY <1>1, <1>2, <1>3, <1>6, ProxyOnly
  <2>2. Facts'
    BY <1>1, <1>2, <1>4, <2>1, FactsAct
  <2>3. ConvOf("store")' = ConvOf("store")
    BY <2>1 DEF ActFrame, Conn
  <2>4. BuilderUp' /\ StoreUp'
    BY <1>2, <2>3 DEF BuilderUp, StoreUp
  <2>5. QED
    BY <2>1, <2>2, <2>4
<1>7. CASE env.supplied
  <2>1. Goes(handshakeWithBuilder)
    BY <1>7 DEF GetBuilder
  <2>2. ActFrame /\ Program' = handshakeWithBuilder /\ Facts' /\ BuilderUp' /\ StoreUp'
    BY <1>6, <2>1
  <2>3. SBuilding(cm, bm, sm)'
    BY <1>2, <1>4, <1>5, <2>2 DEF SBuilding, NewBuilder
  <2>4. Plan(cm, bm, sm)'
    BY <2>3 DEF Plan
  <2>5. QED
    BY <1>2, <2>2, <2>4, ActInv
<1>8. CASE ~env.supplied
  <2>1. Goes(Do("BuildFailed"))
    BY <1>8 DEF GetBuilder
  <2>2. ActFrame /\ Program' = Do("BuildFailed") /\ Facts' /\ BuilderUp' /\ StoreUp'
    BY <1>6, <2>1
  <2>3. Excuse(env, cancelled)'
    BY <1>2, <1>8 DEF Excuse
  <2>4. SFailure(cm, bm, sm)'
    BY <1>2, <1>5, <2>2, <2>3 DEF SFailure
  <2>5. Plan(cm, bm, sm)'
    BY <2>4 DEF Plan
  <2>6. QED
    BY <1>2, <2>2, <2>5, ActInv
<1>9. QED
  BY <1>7, <1>8

\* A job has a derivation to build.
LEMMA DoStart ==
  ASSUME Facts, ProxyDo, NEW cm, NEW bm, NEW sm, SStart(cm, bm, sm), Links3(cm, bm, sm)
  PROVE  WireInv'
<1>1. /\ env.caller = "job" /\ Program = Do("GetBuilder") /\ Knows = Asked /\ cm = <<"gone">>
      /\ NewBuilder(bm) /\ NewStore(sm) /\ BuilderUp /\ StoreUp /\ answer # "result"
  BY DEF SStart
<1>2. GetBuilder
  BY <1>1, ActsAt
<1>3. Calls(cm)
  BY <1>1 DEF Calls
<1>4. /\ ClientIn(env, registered, answer, cm, ConvOf("client"))
      /\ BuilderIn(env, bm, ConvOf("builder")) /\ StoreIn(env, registered, sm, ConvOf("store"))
  BY DEF Links3
<1>5. QED
  BY <1>1, <1>2, <1>3, <1>4, StartsBuild

\* Nothing has been forwarded to a client that has just asked for a build.
LEMMA HummedNothing ==
  ASSUME NEW e
  PROVE  Hummed(e, <<>>)
<1>1. PICK w, b : w = <<>> /\ b = SetFields(Nothing, <<>>)
  OBVIOUS
<1>2. b = Nothing
  BY <1>1, NothingKnown, MemFields
<1>3. IsSeq(w)
  BY <1>1, Nil
<1>4. \A y : Hums(e, y, Full, w, Nothing, b)
  BY <1>1, <1>2, <1>3, ReachesNow DEF Hums
<1>5. \E t : IsSeq(t) /\ \A y : Hums(e, y, Full, w, Nothing, SetFields(Nothing, t))
  BY <1>1, <1>3, <1>4
<1>6. Whole(w)
  BY <1>1 DEF Whole
<1>7. QED
  BY <1>1, <1>3, <1>5, <1>6 DEF Hummed

\* Until the client has asked for the build.
LEMMA DoOpening ==
  ASSUME Facts, ProxyDo, NEW cm, NEW bm, NEW sm, SOpening(cm, bm, sm), Links3(cm, bm, sm)
  PROVE  WireInv'
<1>1. PICK e, K, p, a, c, G, x, y : /\ e = env /\ K = ConvOf("client") /\ p = Program /\ a = Knows /\ c = "client"
                                    /\ G = OpeningGoals /\ x = ToClient /\ y = Client
  OBVIOUS
<1>2. /\ env.caller = "client" /\ phase \in {"handshake", "op", "args"} /\ cm = <<"opening", p, a>>
      /\ NewBuilder(bm) /\ NewStore(sm) /\ ~cancelled /\ BuilderUp /\ StoreUp /\ answer # "result"
  BY <1>1 DEF SOpening
<1>3. c = At[phase]
  BY <1>1, <1>2 DEF At
<1>4. /\ ClientIn(env, registered, answer, cm, ConvOf("client"))
      /\ BuilderIn(env, bm, ConvOf("builder")) /\ StoreIn(env, registered, sm, ConvOf("store"))
  BY DEF Links3
<1>5. OpeningIn(e, p, a, K)
  BY <1>1, <1>2, <1>4 DEF ClientIn
<1>6. Talking(e, G, x, p, a, y, K) /\ K = ConvOf(c)
  BY <1>1, <1>5 DEF OpeningIn
<1>7. x[1] = "toClient"
  BY <1>1, DaemonRoles
<1>8. RoleAt(x)
  BY <1>1, <1>3, <1>7 DEF RoleAt, ProxyRoles
<1>9. Arrives(e, G, x, p, a, y, K) \/ (Entered(x, Program') /\ Talking(e, G, x, Program', a, y, K))
  BY <1>1, <1>3, <1>6, <1>8, ProxyEnters
<1>10. CASE Entered(x, Program') /\ Talking(e, G, x, Program', a, y, K)
  <2>1. /\ Facts' /\ ActFrame /\ answer' = answer /\ Knows' = Knows /\ closed' = closed
        /\ UNCHANGED <<env, cancelled, registered>> /\ ConvOf("store")' = ConvOf("store")
    BY <1>10, EnteredFacts
  <2>2. phase' \in {"handshake", "op", "args"}
    BY <1>2, <1>10 DEF Entered
  <2>3. PICK cn : cn = <<"opening", Program', a>>
    BY Zenon
  <2>4. OpeningIn(e, Program', a, K)
    BY <1>1, <1>10 DEF OpeningIn
  <2>5. ClientIn(env, registered, answer', cn, ConvOf("client"))
    BY <1>1, <2>3, <2>4 DEF ClientIn
  <2>6. BuilderUp' /\ StoreUp' /\ NewBuilder(bm)' /\ NewStore(sm)'
    BY <1>2, <2>1 DEF BuilderUp, StoreUp, NewBuilder, NewStore
  <2>7. SOpening(cn, bm, sm)'
    BY <1>1, <1>2, <2>1, <2>2, <2>3, <2>6 DEF SOpening
  <2>8. Plan(cn, bm, sm)'
    BY <2>7 DEF Plan
  <2>9. QED
    BY <1>4, <2>1, <2>5, <2>8, ActInv
<1>11. CASE Arrives(e, G, x, p, a, y, K)
  <2>1. PICK g, q : g \in G /\ g = <<x, <<p, a, K[6]>>, y, g[4]>> /\ Stays(K, q) /\ Rests(e, PeerSide(K, y, q), g[4])
    BY <1>11 DEF Arrives
  <2>2. K[7] = <<>> /\ K[8] = <<>>
    BY <1>11 DEF Arrives
  <2>3. PICK s : s = <<ReadMarker \o Expects(MinorOf(Full)), Nothing, Full>>
    BY Zenon
  <2>4. g = <<ToClient, <<Do("GetBuilder"), Asked, Full>>, Client, s>>
    BY <1>1, <2>1, <2>3 DEF OpeningGoals
  <2>5. g[2] = <<p, a, K[6]>> /\ g[2] = <<Do("GetBuilder"), Asked, Full>> /\ g[4] = s
    BY <2>1, <2>4
  <2>6. p = Do("GetBuilder") /\ a = Asked /\ K[6] = Full
    BY <2>5
  <2>7. GetBuilder
    BY <1>1, <2>6, ActsAt
  <2>8. PICK h : h = K[8]
    OBVIOUS
  <2>9. Hummed(e, h)
    BY <2>2, <2>8, HummedNothing
  <2>10. IdleIn(e, K)
    BY <1>1, <2>1, <2>2, <2>3, <2>5, <2>6, <2>8, <2>9 DEF IdleIn
  <2>11. PICK cn : cn = <<"idle">>
    BY Zenon
  <2>12. ClientIn(env, registered, answer, cn, ConvOf("client"))
    BY <1>1, <2>10, <2>11 DEF ClientIn
  <2>13. Calls(cn)
    BY <1>2, <2>11 DEF Calls
  <2>14. Knows = Asked
    BY <1>1, <2>6
  <2>15. QED
    BY <1>2, <1>4, <2>7, <2>12, <2>13, <2>14, StartsBuild
<1>12. QED
  BY <1>9, <1>10, <1>11
\* The realisations that a reader is shown are those of the result.
Paired(S) == \A q \in S : q = <<q[1], q[2]>>

\* They are for the same outputs.
LEMMA ShownFacts ==
  ASSUME NEW r, Paired(r.outs)
  PROVE  Shown(r) \subseteq r.outs /\ {q[1] : q \in Shown(r)} = {q[1] : q \in r.outs}
<1>1. PICK S : S = r.outs
  OBVIOUS
<1>2. DEFINE sig(o) == CHOOSE p \in S : p[1] = o
<1>3. ASSUME NEW q \in S PROVE sig(q[1]) \in S /\ sig(q[1])[1] = q[1]
  OBVIOUS
<1>4. HIDE DEF sig
<1>5. ASSUME NEW q \in S PROVE <<q[1], sig(q[1])[2]>> \in S
  <2>1. PICK z : z = sig(q[1])
    OBVIOUS
  <2>2. z \in S /\ z[1] = q[1]
    BY <1>3, <2>1
  <2>3. z = <<z[1], z[2]>>
    BY <1>1, <2>2 DEF Paired
  <2>4. QED
    BY <2>1, <2>2, <2>3
<1>6. PICK T : T = {<<o, sig(o)[2]>> : o \in {p[1] : p \in S}}
  BY Zenon
<1>7. T \subseteq S
  BY <1>5, <1>6
<1>8. {q[1] : q \in T} = {q[1] : q \in S}
  <2>1. \A o : <<o, sig(o)[2]>>[1] = o
    OBVIOUS
  <2>2. \A q \in S : <<q[1], sig(q[1])[2]>> \in T
    BY <1>6
  <2>3. QED
    BY <1>7, <2>1, <2>2, Zenon
<1>9. T = Shown(r)
  BY <1>1, <1>6 DEF Shown, sig
<1>10. QED
  BY <1>1, <1>7, <1>8, <1>9

\* What the reader of a result knows that knew of none.
Untold(a) == IsMem(a) /\ a.outs = {} /\ a.cpu = FALSE
ClearTimes(r) == r.cpu \in BOOLEAN
KnowsOf(r, a, b) ==
  /\ IsMem(b) /\ b.status = r.status /\ b.cpu = r.cpu /\ b.outs = Shown(r) /\ b.drv = a.drv /\ b.fields = a.fields
  /\ b.path = a.path

\* It knows the status, the CPU times and the realisations.
LEMMA ToldFacts ==
  ASSUME NEW r, ClearTimes(r), NEW a, Untold(a)
  PROVE  KnowsOf(r, a, Told(r, a))
<1>8. PICK b : b = Told(r, a)
  OBVIOUS
<1>9. r.cpu \in BOOLEAN /\ IsMem(a) /\ a.outs = {} /\ a.cpu = FALSE
  BY DEF ClearTimes, Untold
<1>1. PICK s, z, T : s = Set1(a, "status", r.status) /\ z = (IF r.cpu THEN Set1(s, "cpu", TRUE) ELSE s) /\ T = a.outs \union Shown(r)
  BY Zenon
<1>2. /\ IsMem(s) /\ s.status = r.status /\ s.cpu = a.cpu /\ s.outs = a.outs /\ s.drv = a.drv /\ s.fields = a.fields
      /\ s.path = a.path
  BY <1>1, <1>9, MemSet DEF MemNames
<1>3. /\ IsMem(z) /\ z.status = r.status /\ z.cpu = r.cpu /\ z.outs = a.outs /\ z.drv = a.drv /\ z.fields = a.fields
      /\ z.path = a.path
  <2>1. CASE r.cpu = TRUE
    <3>4. PICK t : t = TRUE
      OBVIOUS
    <3>1. z = Set1(s, "cpu", t)
      BY <1>1, <2>1, <3>4, Zenon
    <3>2. /\ IsMem(z) /\ z.status = s.status /\ z.cpu = t /\ z.outs = s.outs /\ z.drv = s.drv /\ z.fields = s.fields
          /\ z.path = s.path
      BY <1>2, <3>1, MemSet DEF MemNames
    <3>3. QED
      BY <1>2, <2>1, <3>2, <3>4, Zenon
  <2>2. CASE r.cpu = FALSE
    BY <1>1, <1>2, <1>9, <2>2, Zenon
  <2>3. QED
    BY <1>9, <2>1, <2>2, Zenon
<1>4. b = Set1(z, "outs", T)
  BY <1>1, <1>8 DEF Told
<1>5. /\ IsMem(b) /\ b.status = z.status /\ b.cpu = z.cpu /\ b.outs = T /\ b.drv = z.drv /\ b.fields = z.fields
      /\ b.path = z.path
  BY <1>3, <1>4, MemSet DEF MemNames
<1>6. T = Shown(r)
  BY <1>1, <1>9
<1>7. QED
  BY <1>3, <1>5, <1>6, <1>8 DEF KnowsOf

\* The memory of the proxy when it has read a derivation.
LEMMA AskedKnown ==
  /\ IsMem(Asked) /\ Asked.fields = <<>> /\ Asked.drv = Outputs /\ Asked.outs = {} /\ Asked.cpu = FALSE
<1>1. PICK b : b = Asked
  OBVIOUS
<1>2. IsMem(Nothing) /\ b = Set1(Nothing, "drv", Outputs)
  BY <1>1, NothingKnown DEF Asked
<1>3. IsMem(b) /\ b.fields = Nothing.fields /\ b.drv = Outputs /\ b.outs = Nothing.outs /\ b.cpu = Nothing.cpu
  BY <1>2, MemSet DEF MemNames
<1>4. QED
  BY <1>1, <1>3, NothingKnown

\* The result of a build, as the proxy passes it on.
Fresh(e, b) ==
  /\ IsMem(b) /\ b.fields = <<>> /\ b.cpu \in BOOLEAN /\ GotOK(e, b) /\ IsFiniteSet(b.outs) /\ \A q \in b.outs : q = <<q[1], 0>>

\* The proxy passes on what the builder reported, or the outputs of the
\* derivation if a successful build has no realisation.
LEMMA ResultFacts ==
  ASSUME NEW e \in Environment, IsFiniteSet(Outputs), NEW b, b = Result(e)
  PROVE  Fresh(e, b) /\ Names(e) \subseteq Outputs
<1>1. PICK r, z, a : r = Reported(e) /\ a = Asked /\ z = Told(r, a)
  OBVIOUS
<1>2. r.status = e.status /\ r.cpu = e.cpu /\ r.outs = {<<o, 0>> : o \in e.outs}
  BY <1>1 DEF Reported
<1>3. e.cpu \in BOOLEAN /\ e.outs \subseteq Outputs
  BY DEF Environment
<1>4. \A q \in r.outs : q = <<q[1], 0>> /\ q[1] \in e.outs
  BY <1>2
<1>5. {q[1] : q \in r.outs} = e.outs
  <2>1. \A o \in e.outs : <<o, 0>> \in r.outs /\ <<o, 0>>[1] = o
    BY <1>2
  <2>2. \A q \in r.outs : q[1] \in e.outs
    BY <1>4
  <2>3. QED
    BY <2>1, <2>2, Zenon
<1>6. Paired(r.outs)
  BY <1>4 DEF Paired
<1>7. Shown(r) \subseteq r.outs /\ {q[1] : q \in Shown(r)} = {q[1] : q \in r.outs}
  BY <1>6, ShownFacts
<1>8. IsFiniteSet(r.outs)
  BY <1>2, <1>3, FS_Subset, PairsFinite, Zenon
<1>9. IsFiniteSet(Shown(r))
  BY <1>7, <1>8, FS_Subset
<1>10. /\ IsMem(a) /\ a.fields = <<>> /\ a.drv = Outputs /\ a.outs = {} /\ a.cpu = FALSE
  BY <1>1, AskedKnown
<1>11. r.cpu \in BOOLEAN
  BY <1>2, <1>3
<1>12. /\ IsMem(z) /\ z.status = r.status /\ z.cpu = r.cpu /\ z.outs = Shown(r) /\ z.drv = Outputs /\ z.fields = <<>>
  <2>1. /\ IsMem(z) /\ z.status = r.status /\ z.cpu = r.cpu /\ z.outs = Shown(r) /\ z.drv = a.drv /\ z.fields = a.fields
        /\ z.path = a.path
    <3>1. ClearTimes(r) /\ Untold(a)
      BY <1>10, <1>11 DEF ClearTimes, Untold
    <3>2. KnowsOf(r, a, z)
      BY <1>1, <3>1, ToldFacts
    <3>3. QED
      BY <3>2 DEF KnowsOf
  <2>2. QED
    BY <1>10, <2>1
<1>13. b = Populated(z)
  BY <1>1 DEF Result
<1>14. Names(e) \subseteq Outputs
  BY <1>3 DEF Names
<1>15. CASE z.status \in Success /\ z.outs = {}
  <2>1. PICK T : T = {<<o, 0>> : o \in Outputs}
    BY Zenon
  <2>2. b = Set1(z, "outs", T)
    BY <1>12, <1>13, <1>15, <2>1, Zenon DEF Populated, Set1
  <2>3. IsMem(b) /\ b.status = z.status /\ b.cpu = z.cpu /\ b.outs = T /\ b.fields = <<>>
    BY <1>12, <2>2, MemSet DEF MemNames
  <2>4. IsFiniteSet(T) /\ (\A q \in T : q = <<q[1], 0>>) /\ {q[1] : q \in T} = Outputs
    <3>1. IsFiniteSet(T)
      BY <2>1, PairsFinite
    <3>2. \A q \in T : q = <<q[1], 0>> /\ q[1] \in Outputs
      BY <2>1
    <3>3. \A o \in Outputs : <<o, 0>> \in T /\ <<o, 0>>[1] = o
      BY <2>1
    <3>4. {q[1] : q \in T} = Outputs
      BY <3>2, <3>3, Zenon
    <3>5. QED
      BY <3>1, <3>2, <3>4
  <2>5. {q[1] : q \in Shown(r)} = {}
    BY <1>12, <1>15
  <2>6. e.outs = {}
    BY <1>5, <1>7, <2>5
  <2>7. e.status \in Success
    BY <1>2, <1>12, <1>15
  <2>8. Names(e) = Outputs
    BY <2>6, <2>7 DEF Names
  <2>9. QED
    BY <1>2, <1>3, <1>12, <1>14, <2>3, <2>4, <2>8 DEF Fresh, GotOK
<1>16. CASE ~(z.status \in Success /\ z.outs = {})
  <2>1. b = z
    BY <1>13, <1>16 DEF Populated
  <2>2. {q[1] : q \in z.outs} = e.outs
    BY <1>5, <1>7, <1>12
  <2>3. ~(e.status \in Success /\ e.outs = {})
    <3>1. e.outs = {} => z.outs = {}
      BY <2>2, Zenon
    <3>2. QED
      BY <1>2, <1>12, <1>16, <3>1
  <2>4. Names(e) = e.outs
    BY <2>3 DEF Names
  <2>5. \A q \in z.outs : q = <<q[1], 0>>
    BY <1>4, <1>7, <1>12
  <2>6. QED
    BY <1>2, <1>3, <1>9, <1>12, <1>14, <2>1, <2>2, <2>4, <2>5 DEF Fresh, GotOK
<1>17. QED
  BY <1>15, <1>16

\* Nothing of it is signed yet.
LEMMA FreshOK ==
  ASSUME NEW e, NEW b, Fresh(e, b), NEW rg
  PROVE  /\ ResultOK(e, rg, b) /\ LeftIn(e, b, Names(e))
         /\ ~e.signs \/ b.status \notin Success \/ {q[1] : q \in b.outs} = {} => LeftIn(e, b, {})
<1>1. GotOK(e, b) /\ IsFiniteSet(b.outs) /\ \A q \in b.outs : q = <<q[1], 0>>
  BY DEF Fresh
<1>2. \A q \in b.outs : q[2] = 0 /\ q = <<q[1], q[2]>>
  BY <1>1
<1>3. ResultOK(e, rg, b)
  BY <1>1, <1>2 DEF ResultOK, Sound
<1>4. \A q \in b.outs : q[1] \in Names(e)
  BY <1>1 DEF GotOK
<1>5. LeftIn(e, b, Names(e))
  BY <1>4 DEF LeftIn
<1>6. ASSUME ~e.signs \/ b.status \notin Success \/ {q[1] : q \in b.outs} = {} PROVE LeftIn(e, b, {})
  BY <1>1, <1>6 DEF LeftIn, GotOK
<1>7. QED
  BY <1>3, <1>5, <1>6, Zenon
\* The builder has reported the result of a client's build.
LEMMA ResultKnown ==
  ASSUME Facts, BuildDone, phase = "build", NEW e, e = env, IsFiniteSet(Outputs), Knows = Told(Reported(e), Asked),
         NEW cm, NEW bm, NEW sm, cm = <<"idle">>, NewStore(sm), StoreUp, answer # "result", Links3(cm, bm, sm)
  PROVE  WireInv'
<1>1. PICK r : r = Result(e)
  OBVIOUS
<1>2. Shape /\ e \in Environment
  BY DEF Facts
<1>3. Populated(mem["proxy"]) = r
  BY <1>1 DEF Result, Knows
<1>4. PICK T : T = {q[1] : q \in r.outs}
  BY Zenon
<1>5. /\ env.caller = "client" /\ mem' = [mem EXCEPT !["proxy"] = r] /\ closed' = closed \union {"builder"}
      /\ \/ /\ r.status \in Success /\ T # {} /\ toSign' = T /\ phase' = "signing" /\ Goes(handshakeWithBuilder)
         \/ /\ ~e.signs \/ r.status \notin Success \/ T = {}
            /\ Goes(Do("Reply")) /\ UNCHANGED <<toSign, phase>>
      /\ UNCHANGED <<version, buf, wire, misread, env, cancelled, registered, answer>>
  BY <1>3, <1>4 DEF BuildDone
<1>6. Fresh(e, r)
  BY <1>1, <1>2, ResultFacts
<1>7. IsMem(r) /\ IsSeq(r.fields) /\ T = Names(e)
  BY <1>4, <1>6, Nil DEF Fresh, GotOK
<1>8. /\ ResultOK(e, registered, r) /\ LeftIn(e, r, Names(e))
      /\ ~e.signs \/ r.status \notin Success \/ T = {} => LeftIn(e, r, {})
  BY <1>4, <1>6, FreshOK
<1>9. Knows' = r
  BY <1>2, <1>5 DEF Knows, Shape, Party
<1>10. /\ BuilderIn(env, bm, ConvOf("builder")) /\ StoreIn(env, registered, sm, ConvOf("store"))
       /\ ClientIn(env, registered, answer, cm, ConvOf("client"))
  BY DEF Links3
<1>11. ASSUME NEW q, Goes(q), phase' \in DOMAIN At, Plan(cm, bm, sm)' PROVE WireInv'
  <2>1. ActFrame
    BY <1>2, <1>5, <1>11, ProxyOnly, Zenon
  <2>2. IsMem(Knows') /\ IsSeq(Knows'.fields)
    BY <1>7, <1>9
  <2>3. Facts'
    BY <1>5, <2>1, <2>2, FactsAct
  <2>4. QED
    BY <1>5, <1>10, <1>11, <2>1, <2>3, ActInv
<1>12. ASSUME ConvOf("store")' = ConvOf("store") PROVE StoreUp'
  BY <1>5, <1>12 DEF StoreUp
<1>13. ASSUME NEW q, Goes(q), phase' \in DOMAIN At PROVE StoreUp' /\ Program' = q
  <2>1. ActFrame /\ Program' = q
    BY <1>2, <1>5, <1>13, ProxyOnly, Zenon
  <2>2. QED
    BY <1>12, <2>1 DEF ActFrame, Conn
<1>14. CASE r.status \in Success /\ T # {} /\ toSign' = T /\ phase' = "signing" /\ Goes(handshakeWithBuilder)
  <2>1. phase' \in DOMAIN At
    BY <1>14 DEF At
  <2>2. StoreUp' /\ Program' = handshakeWithBuilder
    BY <1>13, <1>14, <2>1
  <2>3. Good(T)'
    BY <1>5, <1>7, <1>8, <1>9 DEF Good
  <2>4. Visits(toSign, cm)'
    BY <1>5, <1>7, <1>14, <2>2, <2>3 DEF Visits
  <2>5. SSigning(cm, bm, sm)'
    BY <1>1, <1>9, <1>14, <2>2, <2>4 DEF SSigning, NewStore
  <2>6. Plan(cm, bm, sm)'
    BY <2>5 DEF Plan
  <2>7. QED
    BY <1>11, <1>14, <2>1, <2>6
<1>15. CASE (~e.signs \/ r.status \notin Success \/ T = {}) /\ Goes(Do("Reply")) /\ UNCHANGED <<toSign, phase>>
  <2>1. phase' \in DOMAIN At
    BY <1>2, <1>15 DEF Shape
  <2>2. StoreUp' /\ Program' = Do("Reply")
    BY <1>13, <1>15, <2>1
  <2>3. Good({})'
    BY <1>5, <1>8, <1>9, <1>15 DEF Good
  <2>4. SReply(cm, bm, sm)'
    BY <1>15, <2>2, <2>3 DEF SReply, NewStore
  <2>5. Plan(cm, bm, sm)'
    BY <2>4 DEF Plan
  <2>6. QED
    BY <1>11, <1>15, <2>1, <2>5
<1>16. QED
  BY <1>5, <1>14, <1>15

\* The task of a job has its result, or an error.
LEMMA TaskEnds ==
  ASSUME Facts, TaskReturns, phase = "build", IsFiniteSet(Outputs), NEW e, e = env,
         NEW cm, NEW bm, NEW sm, cm = <<"gone">>, NewStore(sm), Links3(cm, bm, sm),
         \/ Program = Do("BuildDone") /\ Knows = Told(Reported(e), Asked)
         \/ Program = Do("BuildFailed") /\ Excuse(env, cancelled)
  PROVE  WireInv'
<1>1. Shape /\ e \in Environment /\ IsMem(Knows) /\ IsSeq(Knows.fields)
  BY DEF Facts
<1>2. /\ env.caller = "job" /\ closed' = closed \union {"builder"} /\ Goes(<<>>)
      /\ UNCHANGED <<version, buf, wire, misread, env, cancelled, phase, registered>>
  BY DEF TaskReturns
<1>3. phase' \in DOMAIN At
  BY <1>1, <1>2 DEF Shape
<1>4. ASSUME NEW b, mem' = mem \/ mem' = [mem EXCEPT !["proxy"] = b], IsMem(Knows') /\ IsSeq(Knows'.fields),
             \/ answer' = "result" /\ GotOK(env, Knows')
             \/ answer' = "error" /\ Excuse(env, cancelled)
      PROVE  WireInv'
  <2>1. ActFrame /\ Program' = <<>>
    BY <1>1, <1>2, <1>3, <1>4, ProxyOnly
  <2>2. Facts'
    BY <1>2, <1>4, <2>1, FactsAct
  <2>3. SJobDone(cm, bm, sm)'
    BY <1>2, <2>1 DEF SJobDone, NewStore
  <2>4. Plan(cm, bm, sm)'
    BY <2>3 DEF Plan
  <2>5. BuilderIn(env, bm, ConvOf("builder")) /\ StoreIn(env, registered, sm, ConvOf("store"))
    BY DEF Links3
  <2>6. ClientIn(env, registered, answer', cm, ConvOf("client"))
    <3>1. ClientIn(env, registered, answer, cm, ConvOf("client"))
      BY DEF Links3
    <3>2. QED
      BY <3>1 DEF ClientIn
  <2>7. QED
    BY <2>1, <2>2, <2>4, <2>5, <2>6, ActInv
<1>5. CASE ProxyAt("BuildDone") /\ mem' = [mem EXCEPT !["proxy"] = Populated(@)] /\ answer' = "result"
  <2>1. Head(Program).f = "BuildDone"
    BY <1>5 DEF ProxyAt, Now, Program
  <2>2. Knows = Told(Reported(e), Asked)
    BY <2>1, Named
  <2>3. PICK r : r = Result(e)
    OBVIOUS
  <2>4. mem' = [mem EXCEPT !["proxy"] = r]
    BY <1>5, <2>2, <2>3 DEF Result, Knows
  <2>5. Knows' = r
    BY <1>1, <2>4 DEF Knows, Shape, Party
  <2>6. Fresh(e, r)
    BY <1>1, <2>3, ResultFacts
  <2>7. IsMem(r) /\ IsSeq(r.fields) /\ GotOK(e, r)
    BY <2>6, Nil DEF Fresh
  <2>8. QED
    BY <1>4, <1>5, <2>4, <2>5, <2>7, Zenon
<1>6. CASE ProxyAt("BuildFailed") /\ answer' = "error" /\ UNCHANGED mem
  <2>1. Head(Program).f = "BuildFailed"
    BY <1>6 DEF ProxyAt, Now, Program
  <2>2. Excuse(env, cancelled)
    BY <2>1, Named
  <2>3. Knows' = Knows
    BY <1>6 DEF Knows
  <2>4. QED
    BY <1>1, <1>4, <1>6, <2>2, <2>3
<1>7. QED
  BY <1>5, <1>6 DEF TaskReturns

\* While the build runs.
LEMMA DoBuilding ==
  ASSUME Facts, ProxyDo, IsFiniteSet(Outputs), NEW cm, NEW bm, NEW sm, SBuilding(cm, bm, sm), Links3(cm, bm, sm)
  PROVE  WireInv'
<1>1. PICK e, K, p, a, c, G, x, y : /\ e = env /\ K = ConvOf("builder") /\ p = Program /\ a = Knows /\ c = "builder"
                                    /\ G = BuildGoals(e) /\ x = ToBuilder /\ y = TheBuilder
  OBVIOUS
<1>2. /\ phase = "build" /\ Calls(cm) /\ bm = <<p, a>> /\ NewStore(sm) /\ BuilderUp /\ StoreUp /\ answer # "result"
  BY <1>1 DEF SBuilding
<1>3. c = At[phase]
  BY <1>1, <1>2 DEF At
<1>4. /\ ClientIn(env, registered, answer, cm, ConvOf("client"))
      /\ BuilderIn(env, bm, ConvOf("builder")) /\ StoreIn(env, registered, sm, ConvOf("store"))
  BY DEF Links3
<1>5. bm[1] = p /\ bm[2] = a
  BY <1>2
<1>6. Talking(e, G, x, p, a, y, K) /\ K = ConvOf(c)
  BY <1>1, <1>4, <1>5 DEF BuilderIn
<1>7. x[1] = "toBuilder"
  BY <1>1, DaemonRoles
<1>8. RoleAt(x)
  BY <1>2, <1>7 DEF RoleAt, ProxyRoles
<1>9. Arrives(e, G, x, p, a, y, K) \/ (Entered(x, Program') /\ Talking(e, G, x, Program', a, y, K))
  BY <1>1, <1>3, <1>6, <1>8, ProxyEnters
<1>10. CASE Entered(x, Program') /\ Talking(e, G, x, Program', a, y, K)
  <2>1. /\ Facts' /\ ActFrame /\ answer' = answer /\ Knows' = Knows /\ closed' = closed
        /\ UNCHANGED <<env, cancelled, registered>> /\ ConvOf("store")' = ConvOf("store")
    BY <1>10, EnteredFacts
  <2>2. phase' = "build"
    BY <1>2, <1>7, <1>10 DEF Entered
  <2>3. PICK bn : bn = <<Program', a>>
    BY Zenon
  <2>4. bn[1] = Program' /\ bn[2] = a
    BY <2>3
  <2>5. BuilderIn(env, bn, ConvOf("builder"))
    BY <1>1, <1>10, <2>4 DEF BuilderIn
  <2>6. BuilderUp' /\ StoreUp' /\ NewStore(sm)' /\ Calls(cm)'
    BY <1>2, <2>1 DEF BuilderUp, StoreUp, NewStore, Calls
  <2>7. SBuilding(cm, bn, sm)'
    BY <1>1, <1>2, <2>1, <2>2, <2>3, <2>6 DEF SBuilding
  <2>8. Plan(cm, bn, sm)'
    BY <2>7 DEF Plan
  <2>9. QED
    BY <1>4, <2>1, <2>5, <2>8, ActInv
<1>11. CASE Arrives(e, G, x, p, a, y, K)
  <2>1. PICK g \in G : g = <<x, <<p, a, K[6]>>, y, g[4]>>
    BY <1>11 DEF Arrives
  <2>2. g[2] = <<p, a, K[6]>>
    BY <2>1
  <2>3. g[2] = BuildEnd(e)
    BY <1>1, <2>1 DEF BuildGoals
  <2>4. e.error = "none"
    <3>1. SUFFICES ASSUME e.error # "none" PROVE FALSE
      OBVIOUS
    <3>2. PICK q : q = AfterBuild(MinorOf(Full))
      OBVIOUS
    <3>3. <<p, a, K[6]>> = <<FailIns \o q, Asked, Full>>
      BY <2>2, <2>3, <3>1, <3>2 DEF BuildEnd
    <3>4. p = FailIns \o q /\ IsSeq(q)
      BY <3>2, <3>3, PeerParts2
    <3>5. Head(p).k = "fail"
      BY <3>4, FailHead, Zenon
    <3>6. QED
      BY <1>1, <3>5, ActsOnly
  <2>5. <<p, a, K[6]>> = <<Do("BuildDone"), Told(Reported(e), Asked), Full>>
    BY <2>2, <2>3, <2>4 DEF BuildEnd
  <2>6. p = Do("BuildDone") /\ a = Told(Reported(e), Asked)
    BY <2>5
  <2>7. BuildDone \/ TaskReturns
    BY <1>1, <2>6, ActsAt
  <2>8. CASE BuildDone
    <3>1. cm = <<"idle">>
      BY <1>2, <2>8 DEF Calls, BuildDone
    <3>2. QED
      BY <1>1, <1>2, <2>6, <2>8, <3>1, ResultKnown
  <2>9. CASE TaskReturns
    <3>1. cm = <<"gone">>
      BY <1>2, <2>9 DEF Calls, TaskReturns
    <3>2. QED
      BY <1>1, <1>2, <2>6, <2>9, <3>1, TaskEnds
  <2>10. QED
    BY <2>7, <2>8, <2>9
<1>12. QED
  BY <1>9, <1>10, <1>11
\* A client that waits, and what the proxy will tell it.
LEMMA AnswerBegins ==
  ASSUME NEW e, NEW K, NEW l, NEW q, NEW y0, Rests(e, PeerSide(K, y0, q), l), Stays(K, q), K[6] = Full, K[7] = <<>>,
         IsSeq(K[8]), Whole(K[8]), y0[1] \in Clients, NEW y, y[1] \in Clients, NEW G, Goals(G), NEW x, NEW p, NEW a,
         NEW d \in BOOLEAN, d <=> K[8] # <<>>, NEW t, NEW k, Answers(e, x, <<p, a, Full>>, d, t, y, l, K[8], k),
         Dialog(e, G, y, k, x, t)
  PROVE  Talking(e, G, x, p, a, y, K)
<1>1. PICK X, Y, Z : X = ProxySide(K, x, p, a) /\ Y = PeerSide(K, y0, q) /\ Z = PeerSide(K, y, q)
  OBVIOUS
<1>2. X[1] = x /\ X[5] = K[7] /\ X[6] = K[8] /\ Pos(X) = <<p, a, K[6]>>
  BY <1>1, ProxyParts
<1>3. Y[1] = y0 /\ Pos(Y) = <<q, K[2], K[3]>> /\ Y[5] = K[4] /\ Y[6] = K[5]
  BY <1>1, PeerParts
<1>4. Z[1] = y /\ Pos(Z) = <<q, K[2], K[3]>> /\ Z[5] = K[4] /\ Z[6] = K[5]
  BY <1>1, PeerParts
<1>5. Rests(e, Y, l) /\ Pos(Z) = Pos(Y) /\ Z[5] = Y[5] /\ Z[6] = Y[6]
  BY <1>1, <1>3, <1>4
<1>6. Rests(e, Z, l)
  BY <1>3, <1>4, <1>5, RestsAs
<1>7. Buffered(X, d)
  BY <1>2 DEF Buffered
<1>8. Answers(e, X[1], Pos(X), d, t, Z[1], l, X[6], k) /\ Dialog(e, G, Z[1], k, X[1], t)
  BY <1>2, <1>4
<1>9. X[5] = <<>> /\ IsSeq(X[6]) /\ Whole(X[6])
  BY <1>2
<1>10. Talk(e, G, X, Z)
  BY <1>6, <1>7, <1>8, <1>9, AnswerStart, Zenon
<1>11. QED
  BY <1>1, <1>10 DEF Talking

\* The client is told that its build failed.
LEMMA ErrorStarts ==
  ASSUME NEW e \in Environment, NEW rg, NEW an, NEW K, IdleIn(e, K), Excuse(e, FALSE), NEW m, m = MinorOf(Full), NEW a
  PROVE  AnsweringIn(e, rg, an, TellError(m), a, K)
<1>1. PICK y, x, h, p : y = Client /\ x = ToClient /\ h = K[8] /\ p = TellError(m)
  OBVIOUS
<1>2. y[1] = "client" /\ x[1] = "toClient"
  BY <1>1, DaemonRoles
<1>3. PICK q, l : Stays(K, q) /\ l = <<ReadMarker \o Expects(m), Nothing, Full>> /\ Rests(e, PeerSide(K, y, q), l)
  BY <1>1 DEF IdleIn
<1>4. K[6] = Full /\ K[7] = <<>> /\ Hummed(e, h)
  BY <1>1 DEF IdleIn
<1>5. IsSeq(h) /\ Whole(h)
  BY <1>4 DEF Hummed
<1>6. PICK c : Hums(e, y, Full, h, Nothing, c)
  BY <1>4 DEF Hummed
<1>7. PICK d \in BOOLEAN : d <=> h # <<>>
  BY Zenon
<1>8. PICK s, t, g, G : /\ s = <<FailIns \o Expects(m), c, Full>> /\ t = <<ReadOp, a, Full>>
                        /\ g = <<y, s, x, t>> /\ G = {g}
  BY Zenon
<1>9. IsSeq(Expects(m))
  BY PeerParts2
<1>10. Answers(e, x, <<p, a, Full>>, d, t, y, l, h, s)
  BY <1>1, <1>2, <1>3, <1>6, <1>8, <1>9, ErrorTalk, Zenon
<1>11. Waits(t)
  BY <1>8, WaitsRules, Zenon
<1>12. Dialog(e, G, y, s, x, t)
  BY <1>8, <1>11, DialogGoal, Zenon
<1>13. AnswerGoal(e, an, y, g)
  <2>1. g[1] = y /\ g[2] = s /\ g[4] = t
    BY <1>8
  <2>2. s[1] = FailIns \o Expects(m) /\ Place(s) /\ Place(t)
    BY <1>8 DEF Place
  <2>3. QED
    BY <2>1, <2>2, Zenon DEF AnswerGoal
<1>14. \A f \in G : AnswerGoal(e, an, y, f)
  BY <1>8, <1>13, Zenon
<1>15. Goals(G)
  BY <1>14, AnswerGoalsOK, Zenon
<1>16. y[1] \in Clients
  BY <1>2 DEF Clients
<1>17. Answers(e, x, <<p, a, Full>>, d, t, y, l, K[8], s) /\ IsSeq(K[8]) /\ Whole(K[8]) /\ (d <=> K[8] # <<>>)
  BY <1>1, <1>5, <1>7, <1>10
<1>18. Talking(e, G, x, p, a, y, K)
  BY <1>3, <1>4, <1>12, <1>15, <1>16, <1>17, AnswerBegins
<1>19. y[1] # "reader"
  BY <1>2
<1>20. QED
  BY <1>1, <1>14, <1>16, <1>18, <1>19 DEF AnsweringIn

\* The build has failed.
LEMMA DoFailure ==
  ASSUME Facts, ProxyDo, IsFiniteSet(Outputs), NEW cm, NEW bm, NEW sm, SFailure(cm, bm, sm), Links3(cm, bm, sm)
  PROVE  WireInv'
<1>1. /\ phase = "build" /\ Calls(cm) /\ Program = Do("BuildFailed") /\ NewStore(sm)
      /\ Excuse(env, cancelled) /\ StoreUp /\ answer # "result"
  BY DEF SFailure
<1>2. PICK e, K, a, m : e = env /\ K = ConvOf("client") /\ a = Knows /\ m = MinorOf(Full)
  OBVIOUS
<1>3. /\ ClientIn(env, registered, answer, cm, ConvOf("client"))
      /\ BuilderIn(env, bm, ConvOf("builder")) /\ StoreIn(env, registered, sm, ConvOf("store"))
  BY DEF Links3
<1>4. Shape /\ e \in Environment /\ IsMem(Knows) /\ IsSeq(Knows.fields)
  BY <1>2 DEF Facts
<1>5. BuildFailed \/ TaskReturns
  BY <1>1, ActsAt
<1>6. CASE TaskReturns
  <2>1. cm = <<"gone">>
    BY <1>1, <1>6 DEF Calls, TaskReturns
  <2>2. QED
    BY <1>1, <1>2, <1>6, <2>1, TaskEnds
<1>7. CASE BuildFailed
  <2>1. env.caller = "client" /\ cm = <<"idle">>
    BY <1>1, <1>7 DEF Calls, BuildFailed
  <2>2. IdleIn(e, K)
    BY <1>2, <1>3, <2>1 DEF ClientIn
  <2>3. Excuse(e, FALSE)
    BY <1>1, <1>2, <2>1 DEF Excuse
  <2>4. AnsweringIn(e, registered, answer, TellError(m), a, K)
    BY <1>2, <1>4, <2>2, <2>3, ErrorStarts, Zenon
  <2>5. K[6] = Full
    BY <2>2 DEF IdleIn
  <2>6. version[<<"proxy", "client">>] = Full
    BY <1>2, <2>5 DEF ConvOf
  <2>7. PICK q : q = TellError(m)
    OBVIOUS
  <2>8. /\ phase' = "failed" /\ closed' = closed \union {"builder"} /\ Goes(q)
        /\ UNCHANGED <<mem, version, buf, wire, misread, env, cancelled, registered, answer>>
    BY <1>2, <1>7, <2>6, <2>7 DEF BuildFailed
  <2>9. phase' \in DOMAIN At
    BY <2>8 DEF At
  <2>10. ActFrame /\ Program' = q
    BY <1>4, <2>8, <2>9, ProxyOnly
  <2>11. Knows' = Knows
    BY <2>8 DEF Knows
  <2>12. Facts'
    BY <1>4, <2>8, <2>10, <2>11, FactsAct
  <2>13. PICK cn : cn = <<"answering", q, a>>
    BY Zenon
  <2>14. ClientIn(env, registered, answer', cn, ConvOf("client"))
    BY <1>2, <2>4, <2>7, <2>8, <2>13 DEF ClientIn
  <2>15. SAnswering(cn, bm, sm)'
    BY <1>1, <1>2, <2>1, <2>8, <2>10, <2>11, <2>13 DEF SAnswering, NewStore
  <2>16. Plan(cn, bm, sm)'
    BY <2>15 DEF Plan
  <2>17. QED
    BY <1>3, <2>10, <2>12, <2>14, <2>16, ActInv
<1>8. QED
  BY <1>5, <1>6, <1>7
\* What is told of a result is as good as the result.
LEMMA ToldOK ==
  ASSUME NEW e \in Environment, NEW rg, NEW r, ResultOK(e, rg, r), LeftIn(e, r, {}), NEW c, Untold(c), NEW b, b = Told(r, c)
  PROVE  GotOK(e, b) /\ LeftIn(e, b, {}) /\ Sound(Shown(r), rg)
<1>1. GotOK(e, r) /\ Sound(r.outs, rg) /\ Paired(r.outs)
  BY DEF ResultOK, Paired
<1>2. Shown(r) \subseteq r.outs /\ {q[1] : q \in Shown(r)} = {q[1] : q \in r.outs}
  BY <1>1, ShownFacts
<1>3. ClearTimes(r)
  BY <1>1 DEF GotOK, ClearTimes, Environment
<1>4. KnowsOf(r, c, b)
  BY <1>3, ToldFacts
<1>5. b.status = r.status /\ b.cpu = r.cpu /\ b.outs = Shown(r)
  BY <1>4 DEF KnowsOf
<1>6. GotOK(e, b)
  BY <1>1, <1>2, <1>5 DEF GotOK
<1>7. LeftIn(e, b, {})
  BY <1>2, <1>5 DEF LeftIn
<1>8. Sound(Shown(r), rg)
  BY <1>1, <1>2 DEF Sound
<1>9. QED
  BY <1>6, <1>7, <1>8

\* The client is told the result of its build.
LEMMA ReplyStarts ==
  ASSUME NEW e \in Environment, NEW rg, NEW an, an # "result", NEW K, IdleIn(e, K), NEW m, m = MinorOf(Full),
         NEW r, ResultOK(e, rg, r), LeftIn(e, r, {})
  PROVE  AnsweringIn(e, rg, an, TellResult(m, r), r, K)
<1>1. PICK y0, y, x, h, p : y0 = Client /\ y = <<"reader", Shown(r)>> /\ x = ToClient /\ h = K[8] /\ p = TellResult(m, r)
  BY Zenon
<1>2. y0[1] = "client" /\ x[1] = "toClient" /\ y[1] = "reader" /\ y[2] = Shown(r)
  BY <1>1, DaemonRoles
<1>3. PICK q, l : Stays(K, q) /\ l = <<ReadMarker \o Expects(m), Nothing, Full>> /\ Rests(e, PeerSide(K, y0, q), l)
  BY <1>1 DEF IdleIn
<1>4. K[6] = Full /\ K[7] = <<>> /\ Hummed(e, h)
  BY <1>1 DEF IdleIn
<1>5. IsSeq(h) /\ Whole(h)
  BY <1>4 DEF Hummed
<1>6. PICK u, c : c = SetFields(Nothing, u) /\ Hums(e, y, Full, h, Nothing, c)
  BY <1>4 DEF Hummed
<1>7. IsMem(c) /\ c.outs = {} /\ c.cpu = FALSE
  <2>1. IsMem(Nothing) /\ Nothing.outs = {} /\ Nothing.cpu = FALSE
    BY NothingKnown
  <2>2. IsMem(c) /\ c.outs = Nothing.outs /\ c.cpu = Nothing.cpu
    BY <1>6, <2>1, MemFields
  <2>3. QED
    BY <2>1, <2>2
<1>8. Untold(c)
  BY <1>7 DEF Untold
<1>9. PICK d \in BOOLEAN : d <=> h # <<>>
  BY Zenon
<1>10. PICK b, s, t, g, G : /\ b = Told(r, c) /\ s = <<Do("got"), b, Full>> /\ t = <<ReadOp, r, Full>>
                            /\ g = <<y, s, x, t>> /\ G = {g}
  BY Zenon
<1>11. GotOK(e, b) /\ LeftIn(e, b, {}) /\ Sound(Shown(r), rg)
  BY <1>8, <1>10, ToldOK
<1>12. Answers(e, x, <<p, r, Full>>, d, t, y, l, h, s)
  <2>1. r.cpu \in BOOLEAN /\ IsFiniteSet(r.outs)
    BY DEF ResultOK, GotOK, Environment
  <2>2. Shown(r) \subseteq y[2]
    BY <1>2
  <2>3. IsMem(c) /\ Hums(e, y, Full, h, Nothing, c) /\ x[1] = "toClient" /\ y[1] = "reader"
    BY <1>2, <1>6, <1>7
  <2>4. Answers(e, x, <<TellResult(m, r), r, Full>>, d, <<ReadOp, r, Full>>,
                y, <<ReadMarker \o Expects(m), Nothing, Full>>, h, <<Do("got"), Told(r, c), Full>>)
    BY <2>1, <2>2, <2>3, ReplyTalk
  <2>5. QED
    BY <1>1, <1>3, <1>10, <2>4
<1>13. Waits(t)
  BY <1>10, WaitsRules, Zenon
<1>14. Dialog(e, G, y, s, x, t)
  BY <1>10, <1>13, DialogGoal
<1>15. AnswerGoal(e, an, y, g)
  <2>1. g[1] = y /\ g[2] = s /\ g[4] = t
    BY <1>10
  <2>2. s[1] = Do("got") /\ s[2] = b /\ s[3] = Full /\ Place(s) /\ Place(t)
    BY <1>10 DEF Place
  <2>3. QED
    BY <1>10, <1>11, <2>1, <2>2, Zenon DEF AnswerGoal
<1>16. \A f \in G : AnswerGoal(e, an, y, f)
  BY <1>10, <1>15
<1>17. Goals(G)
  BY <1>16, AnswerGoalsOK, Zenon
<1>18. y[1] \in Clients /\ y0[1] \in Clients
  BY <1>2 DEF Clients
<1>19. Answers(e, x, <<p, r, Full>>, d, t, y, l, K[8], s) /\ IsSeq(K[8]) /\ Whole(K[8]) /\ (d <=> K[8] # <<>>)
  BY <1>1, <1>5, <1>9, <1>12
<1>20. Talking(e, G, x, p, r, y, K)
  BY <1>3, <1>4, <1>14, <1>17, <1>18, <1>19, AnswerBegins
<1>21. Sound(y[2], rg)
  BY <1>2, <1>11
<1>22. QED
  BY <1>1, <1>16, <1>18, <1>20, <1>21 DEF AnsweringIn

\* The proxy has the result of a build.
LEMMA DoReply ==
  ASSUME Facts, ProxyDo, NEW cm, NEW bm, NEW sm, SReply(cm, bm, sm), Links3(cm, bm, sm)
  PROVE  WireInv'
<1>1. /\ Program = Do("Reply") /\ Good({}) /\ cm = <<"idle">> /\ sm[1] # "asking" /\ StoreUp
  BY DEF SReply
<1>2. PICK e, K, a, m : e = env /\ K = ConvOf("client") /\ a = Knows /\ m = MinorOf(Full)
  OBVIOUS
<1>3. /\ ClientIn(env, registered, answer, cm, ConvOf("client"))
      /\ BuilderIn(env, bm, ConvOf("builder")) /\ StoreIn(env, registered, sm, ConvOf("store"))
  BY DEF Links3
<1>4. Shape /\ e \in Environment /\ IsMem(Knows) /\ IsSeq(Knows.fields)
  BY <1>2 DEF Facts
<1>5. ReplyToClient
  BY <1>1, ActsAt
<1>6. ResultOK(e, registered, a) /\ LeftIn(e, a, {}) /\ answer # "result" /\ env.caller = "client"
  BY <1>1, <1>2 DEF Good
<1>7. IdleIn(e, K)
  BY <1>1, <1>2, <1>3 DEF ClientIn
<1>8. AnsweringIn(e, registered, answer, TellResult(m, a), a, K)
  BY <1>2, <1>4, <1>6, <1>7, ReplyStarts
<1>9. K[6] = Full
  BY <1>7 DEF IdleIn
<1>10. version[<<"proxy", "client">>] = Full
  BY <1>2, <1>9 DEF ConvOf
<1>11. PICK q : q = TellResult(m, a)
  OBVIOUS
<1>12. /\ phase' = "reply" /\ closed' = closed \union {"store"} /\ Goes(q)
       /\ UNCHANGED <<mem, version, buf, wire, misread, env, cancelled, registered, answer>>
  BY <1>2, <1>5, <1>10, <1>11 DEF ReplyToClient, Knows
<1>13. phase' \in DOMAIN At
  BY <1>12 DEF At
<1>14. ActFrame /\ Program' = q
  BY <1>4, <1>12, <1>13, ProxyOnly
<1>15. Knows' = Knows
  BY <1>12 DEF Knows
<1>16. Facts'
  BY <1>4, <1>12, <1>14, <1>15, FactsAct
<1>17. PICK cn : cn = <<"answering", q, a>>
  BY Zenon
<1>18. ClientIn(env, registered, answer', cn, ConvOf("client"))
  BY <1>2, <1>8, <1>11, <1>12, <1>17 DEF ClientIn
<1>19. SAnswering(cn, bm, sm)'
  BY <1>1, <1>2, <1>6, <1>12, <1>14, <1>15, <1>17 DEF SAnswering
<1>20. Plan(cn, bm, sm)'
  BY <1>19 DEF Plan
<1>21. QED
  BY <1>3, <1>14, <1>16, <1>18, <1>20, ActInv
\* The store host waits, and the proxy begins to work on the output o.
LEMMA QueryStarts ==
  ASSUME NEW e \in Environment, NEW rg, NEW K, RestsIn(e, K), NEW o, o # 0, NEW m, m = MinorOf(Full),
         NEW a, IsMem(a), a.fields = <<>>, a.path = o
  PROVE  AskingIn(e, rg, o, AskPathInfo(m, o), a, K)
<1>1. PICK x, y, p : x = ToStore /\ y = TheStore /\ p = AskPathInfo(m, o)
  OBVIOUS
<1>2. x[1] = "toStore" /\ y[1] = "store"
  BY <1>1, DaemonRoles
<1>3. PICK b0, q, l : /\ IsMem(b0) /\ Stays(K, q) /\ l = <<ReadOp, b0, Full>> /\ Rests(e, PeerSide(K, y, q), l)
  BY <1>1 DEF RestsIn, RestingAt
<1>4. K[6] = Full /\ K[7] = <<>> /\ K[8] = <<>>
  BY DEF RestsIn
<1>5. PICK b, d, f : b = Set1(b0, "path", o) /\ d = Set1(b, "sig", <<o, o>>) /\ f = Found(e, o, a)
  OBVIOUS
<1>6. IsMem(b)
  BY <1>3, <1>5, MemSet DEF MemNames
<1>7. IsMem(d) /\ d.sig = <<o, o>>
  BY <1>5, <1>6, MemSet DEF MemNames
<1>8. /\ IsMem(f) /\ f.path = o /\ f.fields = <<>> /\ f.narSize = o
      /\ o \in e.signable => f.narHash = o
  BY <1>5, FoundKnown
<1>9. PICK g1, g2, g3 : /\ g1 = <<x, <<Do("NextOutput"), a, Full>>, y, <<ReadOp, b, Full>>>>
                        /\ g2 = <<x, <<Do("NextOutput"), f, Full>>, y, <<ReadOp, b, Full>>>>
                        /\ g3 = <<y, <<Do("register"), d, Full>>, x, <<ReadMarker \o Do("Signed"), f, Full>>>>
  BY Zenon
<1>10. PICK G : G = {g \in {g1, g2, g3} : StoreGoal(e, rg, o, g)}
  BY Zenon
<1>11. o \notin e.present => g1 \in G
  <2>1. SUFFICES ASSUME o \notin e.present PROVE StoreGoal(e, rg, o, g1)
    BY <1>10
  <2>2. QED
    BY <1>1, <1>6, <1>9, <2>1 DEF StoreGoal
<1>12. o \in e.present \ e.signable => g2 \in G
  <2>1. SUFFICES ASSUME o \in e.present \ e.signable PROVE StoreGoal(e, rg, o, g2)
    BY <1>10
  <2>2. QED
    BY <1>1, <1>6, <1>8, <1>9, <2>1 DEF StoreGoal
<1>13. o \in e.present \intersect e.signable => g3 \in G
  <2>1. SUFFICES ASSUME o \in e.present \intersect e.signable PROVE StoreGoal(e, rg, o, g3)
    BY <1>10
  <2>2. SignsFor(f, o)
    BY <1>8, <2>1 DEF SignsFor
  <2>3. QED
    BY <1>1, <1>7, <1>8, <1>9, <2>2 DEF StoreGoal
<1>14. Dialog(e, G, x, <<p, a, Full>>, y, l)
  <2>1. o \notin e.present => <<x, <<Do("NextOutput"), a, Full>>, y, <<ReadOp, b, Full>>>> \in G
    BY <1>9, <1>11
  <2>2. o \in e.present \ e.signable => <<x, <<Do("NextOutput"), Found(e, o, a), Full>>, y, <<ReadOp, b, Full>>>> \in G
    BY <1>5, <1>9, <1>12
  <2>3. o \in e.present \intersect e.signable =>
          <<y, <<Do("register"), Set1(b, "sig", <<o, o>>), Full>>, x, <<ReadMarker \o Do("Signed"), Found(e, o, a), Full>>>> \in G
    BY <1>5, <1>9, <1>13
  <2>4. Dialog(e, G, x, <<AskPathInfo(m, o), a, Full>>, y, <<ReadOp, b0, Full>>)
    BY <1>2, <1>3, <1>5, <2>1, <2>2, <2>3, QueryTalk, Zenon
  <2>5. QED
    BY <1>1, <1>3, <2>4
<1>15. Head(p).k = "write"
  <2>1. PICK w1, rp : w1 = WriteUint64("op", OpQueryPathInfo) \o WriteStringOf("path", o, 0) /\ rp = ReadPathInfo(m)
    BY Zenon
  <2>2. Joined(WriteUint64("op", OpQueryPathInfo), WriteStringOf("path", o, 0), w1)
    BY <2>1 DEF Joined
  <2>3. PICK z : z = ToStore
    OBVIOUS
  <2>4. IsSeq(rp)
    BY <1>2, <2>1, PathInfoHeard, Zenon
  <2>5. PICK t1, t2 : AskParts(w1, rp, p, t1, t2)
    BY <1>1, <2>1, <2>2, <2>4, AskPathInfoParts
  <2>6. p = Send(w1) \o t1 /\ IsSeq(t1)
    BY <2>5 DEF AskParts
  <2>7. QED
    BY <2>6, SendHead, Zenon
<1>16. \A g \in G : StoreGoal(e, rg, o, g)
  BY <1>10
<1>17. Goals(G)
  BY <1>16, StoreGoalsOK, Zenon
<1>18. PICK X, Y : X = ProxySide(K, x, p, a) /\ Y = PeerSide(K, y, q)
  OBVIOUS
<1>19. X[1] = x /\ X[2] = p /\ X[5] = <<>> /\ X[6] = <<>> /\ Pos(X) = <<p, a, Full>>
  BY <1>4, <1>18, ProxyParts
<1>20. Y[1] = y
  BY <1>18, PeerParts
<1>21. Dialog(e, G, X[1], Pos(X), Y[1], l)
  BY <1>14, <1>19, <1>20
<1>22. Clear(X) /\ Head(X[2]).k \notin {"do", "fail"} /\ Rests(e, Y, l)
  BY <1>3, <1>15, <1>18, <1>19 DEF Clear
<1>23. Talk(e, G, X, Y)
  BY <1>17, <1>21, <1>22, Restart
<1>24. Talking(e, G, x, p, a, y, K)
  BY <1>3, <1>17, <1>18, <1>23 DEF Talking
<1>25. QED
  BY <1>1, <1>16, <1>24 DEF AskingIn

\* The proxy goes on with an output that it has not visited yet, or has visited
\* all of them.
LEMMA NextOutputInv ==
  ASSUME Facts, NextOutput, phase \in {"signing", "output"}, IsFiniteSet(Outputs), 0 \notin Outputs, Knows.fields = <<>>,
         NEW cm, NEW bm, Visits(toSign, cm), RestsIn(env, ConvOf("store")),
         ClientIn(env, registered, answer, cm, ConvOf("client")), BuilderIn(env, bm, ConvOf("builder"))
  PROVE  WireInv'
<1>1. PICK e, K, b, m : e = env /\ K = ConvOf("store") /\ b = Knows /\ m = MinorOf(Full)
  OBVIOUS
<1>2. Shape /\ e \in Environment /\ IsMem(b) /\ IsSeq(b.fields)
  BY <1>1 DEF Facts
<1>3. K[6] = Full
  BY <1>1 DEF RestsIn
<1>4. M("proxy") = m
  <2>1. At[phase] = "store"
    BY DEF At
  <2>2. version[<<"proxy", "store">>] = Full
    BY <1>1, <1>3 DEF ConvOf
  <2>3. QED
    BY <1>1, <2>1, <2>2 DEF M, Out
<1>5. /\ phase' = "output"
      /\ UNCHANGED <<version, buf, wire, misread, env, cancelled, closed, registered, answer>>
  BY DEF NextOutput
<1>6. phase' \in DOMAIN At
  BY <1>5 DEF At
<1>7. /\ Good(toSign) /\ cm = <<"idle">> /\ toSign \subseteq Names(e) /\ StoreUp
  BY <1>1 DEF Visits
<1>8. CASE \E o \in toSign : /\ toSign' = toSign \ {o} /\ mem' = [mem EXCEPT !["proxy"].path = o]
                             /\ Goes(AskPathInfo(m, o))
  <2>1. PICK o \in toSign : /\ toSign' = toSign \ {o} /\ mem' = [mem EXCEPT !["proxy"].path = o]
                            /\ Goes(AskPathInfo(m, o))
    BY <1>8, Zenon
  <2>2. PICK a, p : a = Set1(b, "path", o) /\ p = AskPathInfo(m, o)
    OBVIOUS
  <2>3. /\ IsMem(a) /\ a.path = o /\ a.fields = b.fields /\ a.status = b.status /\ a.cpu = b.cpu /\ a.outs = b.outs
        /\ a.drv = b.drv
    BY <1>2, <2>2, MemSet DEF MemNames
  <2>4. mem' = [mem EXCEPT !["proxy"] = a]
    BY <1>1, <2>1, <2>2, Zenon DEF Set1, Knows
  <2>5. ActFrame /\ Program' = p
    BY <1>2, <1>5, <1>6, <2>1, <2>2, <2>4, ProxyOnly, Zenon
  <2>6. Knows' = a
    BY <1>2, <2>4 DEF Knows, Shape, Party
  <2>7. Facts'
    <3>1. env.caller = "client"
      BY <1>7 DEF Good
    <3>2. IsMem(Knows') /\ IsSeq(Knows'.fields)
      BY <1>2, <2>3, <2>6
    <3>3. QED
      BY <1>5, <2>5, <3>1, <3>2, FactsAct
  <2>8. o # 0 /\ o \in Names(e)
    <3>1. PICK r : r = Result(e)
      OBVIOUS
    <3>2. Names(e) \subseteq Outputs
      BY <1>2, <3>1, ResultFacts
    <3>3. QED
      BY <1>7, <3>2
  <2>9. AskingIn(e, registered, o, p, a, K)
    BY <1>1, <1>2, <2>2, <2>3, <2>8, QueryStarts
  <2>10. PICK sn : sn = <<"asking", o, p, a>>
    BY Zenon
  <2>11. StoreIn(env, registered, sn, ConvOf("store"))
    BY <1>1, <2>9, <2>10 DEF StoreIn
  <2>12. SameResult(b, a)
    BY <2>3 DEF SameResult
  <2>13. ResultOK(e, registered, a) /\ LeftIn(e, a, toSign)
    BY <1>1, <1>7, <2>12, SameGood DEF Good
  <2>14. PICK T : T = toSign
    OBVIOUS
  <2>15. Good(T)'
    BY <1>1, <1>5, <1>7, <2>6, <2>13, <2>14 DEF Good
  <2>16. StoreUp'
    BY <1>5, <1>7, <2>5 DEF StoreUp, ActFrame, Conn
  <2>17. T = toSign' \union {o} /\ toSign' \subseteq Names(e)
    BY <1>7, <2>1, <2>14
  <2>18. Visits(toSign \union {o}, cm)'
    BY <1>1, <1>5, <1>7, <2>15, <2>16, <2>17 DEF Visits
  <2>19. Names(env)' = Names(e)
    BY <1>1, <1>5
  <2>20. SAsking(cm, bm, sn)'
    BY <1>5, <2>5, <2>6, <2>8, <2>10, <2>18, <2>19, Zenon DEF SAsking
  <2>21. Plan(cm, bm, sn)'
    BY <2>20 DEF Plan
  <2>22. QED
    BY <1>5, <2>5, <2>7, <2>11, <2>21, ActInv
<1>9. CASE toSign = {} /\ Goes(Do("Reply")) /\ UNCHANGED <<toSign, mem>>
  <2>1. ActFrame /\ Program' = Do("Reply")
    BY <1>2, <1>5, <1>6, <1>9, ProxyOnly
  <2>2. Knows' = Knows
    BY <1>9 DEF Knows
  <2>3. Facts'
    BY <1>1, <1>2, <1>5, <2>1, <2>2, FactsAct
  <2>4. PICK sn : sn = <<"rests">>
    BY Zenon
  <2>5. StoreIn(env, registered, sn, ConvOf("store"))
    BY <2>4 DEF StoreIn
  <2>6. Good({})'
    BY <1>5, <1>7, <1>9, <2>2 DEF Good
  <2>7. StoreUp'
    BY <1>5, <1>7, <2>1 DEF StoreUp, ActFrame, Conn
  <2>8. SReply(cm, bm, sn)'
    BY <1>5, <1>7, <2>1, <2>4, <2>6, <2>7 DEF SReply
  <2>9. Plan(cm, bm, sn)'
    BY <2>8 DEF Plan
  <2>10. QED
    BY <1>5, <2>1, <2>3, <2>5, <2>9, ActInv
<1>10. QED
  BY <1>4, <1>8, <1>9 DEF NextOutput
\* The handshake with the store host.
LEMMA DoSigning ==
  ASSUME Facts, ProxyDo, IsFiniteSet(Outputs), 0 \notin Outputs, NEW cm, NEW bm, NEW sm, SSigning(cm, bm, sm),
         Links3(cm, bm, sm)
  PROVE  WireInv'
<1>1. PICK e, K, p, a, c, G, x, y : /\ e = env /\ K = ConvOf("store") /\ p = Program /\ a = Knows /\ c = "store"
                                    /\ G = SigningGoals(e) /\ x = ToSigning /\ y = TheStore
  OBVIOUS
<1>2. phase = "signing" /\ sm = <<"signing", p, a>> /\ Visits(toSign, cm)
  BY <1>1 DEF SSigning
<1>3. c = At[phase]
  BY <1>1, <1>2 DEF At
<1>4. /\ ClientIn(env, registered, answer, cm, ConvOf("client"))
      /\ BuilderIn(env, bm, ConvOf("builder")) /\ StoreIn(env, registered, sm, ConvOf("store"))
  BY DEF Links3
<1>5. SigningIn(e, p, a, K)
  BY <1>1, <1>2, <1>4 DEF StoreIn
<1>6. Talking(e, G, x, p, a, y, K) /\ K = ConvOf(c)
  BY <1>1, <1>5 DEF SigningIn
<1>7. x[1] = "toSigning"
  BY <1>1, DaemonRoles
<1>8. RoleAt(x)
  BY <1>2, <1>7 DEF RoleAt, ProxyRoles
<1>9. Arrives(e, G, x, p, a, y, K) \/ (Entered(x, Program') /\ Talking(e, G, x, Program', a, y, K))
  BY <1>1, <1>3, <1>6, <1>8, ProxyEnters
<1>10. CASE Entered(x, Program') /\ Talking(e, G, x, Program', a, y, K)
  <2>1. /\ Facts' /\ ActFrame /\ answer' = answer /\ Knows' = Knows /\ closed' = closed /\ toSign' = toSign
        /\ UNCHANGED <<env, cancelled, registered>> /\ ConvOf("store")' = ConvOf("store")
    BY <1>10, EnteredFacts
  <2>2. phase' = "signing"
    BY <1>2, <1>7, <1>10 DEF Entered
  <2>3. PICK sn : sn = <<"signing", Program', a>>
    BY Zenon
  <2>4. SigningIn(e, Program', a, K)
    BY <1>1, <1>10 DEF SigningIn
  <2>5. StoreIn(env, registered, sn, ConvOf("store"))
    BY <1>1, <2>3, <2>4 DEF StoreIn
  <2>6. PICK T : T = toSign
    OBVIOUS
  <2>7. Visits(T, cm)'
    BY <1>2, <2>1, <2>6, VisitsAct
  <2>8. Visits(toSign, cm)'
    BY <2>1, <2>6, <2>7
  <2>9. SSigning(cm, bm, sn)'
    BY <1>1, <2>1, <2>2, <2>3, <2>8 DEF SSigning
  <2>10. Plan(cm, bm, sn)'
    BY <2>9 DEF Plan
  <2>11. ClientIn(env, registered, answer', cm, ConvOf("client"))
    BY <1>4, <2>1
  <2>12. QED
    BY <1>4, <2>1, <2>5, <2>10, <2>11, ActInv
<1>11. CASE Arrives(e, G, x, p, a, y, K)
  <2>1. PICK g, q : g \in G /\ g = <<x, <<p, a, K[6]>>, y, g[4]>> /\ Stays(K, q) /\ Rests(e, PeerSide(K, y, q), g[4])
    BY <1>11 DEF Arrives
  <2>2. PICK b, s : b = Result(e) /\ s = <<ReadOp, Nothing, Full>>
    BY Zenon
  <2>3. g = <<ToSigning, <<Do("NextOutput"), b, Full>>, TheStore, s>>
    BY <1>1, <2>1, <2>2 DEF SigningGoals
  <2>4. g[2] = <<p, a, K[6]>> /\ g[2] = <<Do("NextOutput"), b, Full>> /\ g[4] = s
    BY <2>1, <2>3
  <2>5. p = Do("NextOutput") /\ a = b /\ K[6] = Full
    BY <2>4
  <2>6. RestingAt(e, TheStore, s, K)
    BY <1>1, <2>1, <2>4 DEF RestingAt
  <2>7. RestsIn(e, K)
    BY <1>11, <2>2, <2>5, <2>6, NothingKnown DEF RestsIn, Arrives
  <2>8. e \in Environment
    BY <1>1 DEF Facts
  <2>9. Fresh(e, b)
    BY <2>2, <2>8, ResultFacts
  <2>10. Knows.fields = <<>>
    BY <1>1, <2>5, <2>9 DEF Fresh
  <2>11. NextOutput
    BY <1>1, <2>5, ActsAt
  <2>12. RestsIn(env, ConvOf("store"))
    BY <1>1, <2>7
  <2>13. QED
    BY <1>2, <1>4, <2>10, <2>11, <2>12, NextOutputInv
<1>12. QED
  BY <1>9, <1>10, <1>11

\* Between two outputs.
LEMMA DoVisiting ==
  ASSUME Facts, ProxyDo, IsFiniteSet(Outputs), 0 \notin Outputs, NEW cm, NEW bm, NEW sm, SVisiting(cm, bm, sm),
         Links3(cm, bm, sm)
  PROVE  WireInv'
<1>1. /\ phase = "output" /\ Program = Do("NextOutput") /\ Knows.fields = <<>> /\ sm = <<"rests">>
      /\ Visits(toSign, cm)
  BY DEF SVisiting
<1>2. /\ ClientIn(env, registered, answer, cm, ConvOf("client"))
      /\ BuilderIn(env, bm, ConvOf("builder")) /\ StoreIn(env, registered, sm, ConvOf("store"))
  BY DEF Links3
<1>3. RestsIn(env, ConvOf("store"))
  BY <1>1, <1>2 DEF StoreIn
<1>4. NextOutput
  BY <1>1, ActsAt
<1>5. QED
  BY <1>1, <1>2, <1>3, <1>4, NextOutputInv

\* The output o of a result is signed.
SignedAs(o, a, b) ==
  b.status = a.status /\ b.cpu = a.cpu /\ b.outs = (a.outs \ {<<o, 0>>}) \union {<<o, o>>}

\* The result stays what the builder reported, and one output less has to
\* be signed.
LEMMA SignedOK ==
  ASSUME NEW e, NEW rg, NEW T, NEW o \in Names(e), o # 0, <<o, o>> \in rg, NEW a, ResultOK(e, rg, a),
         LeftIn(e, a, T \union {o}), NEW b, SignedAs(o, a, b)
  PROVE  ResultOK(e, rg, b) /\ LeftIn(e, b, T)
<1>1. PICK S, s, t, U : S = a.outs /\ s = <<o, 0>> /\ t = <<o, o>> /\ U = b.outs
  BY Zenon
<1>2. U = (S \ {s}) \union {t} /\ b.status = a.status /\ b.cpu = a.cpu
  BY <1>1 DEF SignedAs
<1>3. s[1] = o /\ s[2] = 0 /\ t[1] = o /\ t[2] = o
  BY <1>1
<1>4. /\ IsFiniteSet(S) /\ Sound(S, rg) /\ \A q \in S : q = <<q[1], q[2]>>
      /\ a.status = e.status /\ a.cpu = e.cpu /\ {q[1] : q \in S} = Names(e)
  BY <1>1 DEF ResultOK, GotOK
<1>5. {q[1] : q \in U} = Names(e)
  <2>1. \A n \in Names(e) : \E q \in U : q[1] = n
    <3>1. SUFFICES ASSUME NEW n \in Names(e) PROVE \E q \in U : q[1] = n
      OBVIOUS
    <3>2. CASE n = o
      BY <1>2, <1>3, <3>2
    <3>3. CASE n # o
      <4>1. n \in {q[1] : q \in S}
        BY <1>4
      <4>2. PICK q \in S : q[1] = n
        BY <4>1
      <4>3. q \in U
        BY <1>2, <1>3, <3>3, <4>2
      <4>4. QED
        BY <4>2, <4>3
    <3>4. QED
      BY <3>2, <3>3
  <2>2. \A q \in U : q[1] \in Names(e)
    <3>1. SUFFICES ASSUME NEW q \in U PROVE q[1] \in Names(e)
      OBVIOUS
    <3>2. q \in S => q[1] \in {r[1] : r \in S}
      OBVIOUS
    <3>3. QED
      BY <1>2, <1>3, <1>4, <3>2
  <2>3. QED
    BY <2>1, <2>2
<1>6. GotOK(e, b)
  BY <1>1, <1>2, <1>4, <1>5 DEF GotOK
<1>7. IsFiniteSet(U)
  <2>1. IsFiniteSet(S \ {s})
    BY <1>4, FS_Difference, Zenon
  <2>2. QED
    BY <1>2, <2>1, FS_AddElement
<1>8. Sound(U, rg)
  BY <1>1, <1>2, <1>3, <1>4 DEF Sound
<1>9. \A q \in U : q = <<q[1], q[2]>>
  BY <1>1, <1>2, <1>4
<1>10. LeftIn(e, b, T)
  <2>1. SUFFICES ASSUME e.signs, e.status \in Success, e.trusted, "store" \notin e.dies,
                        NEW q \in U, q[2] = 0, q[1] \in e.present \intersect e.signable
                 PROVE  q[1] \in T
    BY <1>1 DEF LeftIn
  <2>2. q # t
    BY <1>3, <2>1
  <2>3. q \in S /\ q # s
    BY <1>2, <2>2
  <2>4. q[1] \in T \union {o}
    BY <1>1, <2>1, <2>3 DEF LeftIn
  <2>5. q[1] # o
    BY <1>1, <1>4, <2>1, <2>3
  <2>6. QED
    BY <2>4, <2>5
<1>11. QED
  BY <1>1, <1>6, <1>7, <1>8, <1>9, <1>10 DEF ResultOK

\* The proxy shows the signature of the output o.
LEMMA ShowInv ==
  ASSUME Facts, ShowSignature, phase = "output", IsFiniteSet(Outputs), 0 \notin Outputs, Knows.fields = <<>>,
         NEW o \in Names(env), SignsFor(Knows, o), <<o, o>> \in registered,
         NEW cm, NEW bm, Visits(toSign \union {o}, cm), RestsIn(env, ConvOf("store")),
         ClientIn(env, registered, answer, cm, ConvOf("client")), BuilderIn(env, bm, ConvOf("builder"))
  PROVE  WireInv'
<1>1. PICK e, K, a : e = env /\ K = ConvOf("store") /\ a = Knows
  OBVIOUS
<1>2. Shape /\ e \in Environment /\ IsMem(a) /\ IsSeq(a.fields)
  BY <1>1 DEF Facts
<1>3. a.path = o /\ a.narHash = o /\ a.narSize = o
  BY <1>1 DEF SignsFor
<1>4. SignedFrom(a) = o
  BY <1>3 DEF SignedFrom
<1>5. PICK S : S = (a.outs \ {<<o, 0>>}) \union {<<o, o>>}
  BY Zenon
<1>6. PICK b : b = Set1(a, "outs", S)
  OBVIOUS
<1>7. /\ IsMem(b) /\ b.outs = S /\ b.fields = a.fields /\ b.status = a.status /\ b.cpu = a.cpu
  BY <1>2, <1>6, MemSet DEF MemNames
<1>8. /\ Goes(Do("NextOutput"))
      /\ UNCHANGED <<version, buf, wire, misread, env, cancelled, closed, phase, toSign, registered, answer>>
  BY DEF ShowSignature, others
<1>9. mem' = [mem EXCEPT !["proxy"] = b]
  <2>1. mem' = [mem EXCEPT !["proxy"].outs = (@ \ {<<a.path, 0>>}) \union {<<a.path, SignedFrom(a)>>}]
    BY <1>1 DEF ShowSignature, Knows
  <2>2. mem' = [mem EXCEPT !["proxy"].outs = (@ \ {<<o, 0>>}) \union {<<o, o>>}]
    BY <1>3, <1>4, <2>1
  <2>3. mem["proxy"].outs = a.outs
    BY <1>1 DEF Knows
  <2>4. mem' = [mem EXCEPT !["proxy"].outs = S]
    BY <1>5, <2>2, <2>3
  <2>5. QED
    BY <1>1, <1>6, <2>4, Zenon DEF Set1, Knows
<1>10. phase' \in DOMAIN At
  BY <1>8 DEF At
<1>11. ActFrame /\ Program' = Do("NextOutput")
  BY <1>2, <1>8, <1>9, <1>10, ProxyOnly, Zenon
<1>12. Knows' = b
  BY <1>2, <1>9 DEF Knows, Shape, Party
<1>13. /\ Good(toSign \union {o}) /\ cm = <<"idle">> /\ toSign \subseteq Names(e) /\ StoreUp
  BY <1>1 DEF Visits
<1>14. Facts'
  <2>1. env.caller = "client"
    BY <1>13 DEF Good
  <2>2. IsMem(Knows') /\ IsSeq(Knows'.fields)
    BY <1>2, <1>7, <1>12
  <2>3. QED
    BY <1>8, <1>11, <2>1, <2>2, FactsAct
<1>15. o # 0
  <2>1. PICK r : r = Result(e)
    OBVIOUS
  <2>2. Names(e) \subseteq Outputs
    BY <1>2, <2>1, ResultFacts
  <2>3. QED
    BY <1>1, <2>2
<1>16. SignedAs(o, a, b)
  BY <1>5, <1>7 DEF SignedAs
<1>17. PICK T, rg : T = toSign /\ rg = registered
  OBVIOUS
<1>18. ResultOK(e, rg, a) /\ LeftIn(e, a, T \union {o}) /\ <<o, o>> \in rg /\ o \in Names(e)
  BY <1>1, <1>13, <1>17 DEF Good
<1>19. ResultOK(e, rg, b) /\ LeftIn(e, b, T)
  BY <1>15, <1>16, <1>18, SignedOK, Zenon
<1>20. Good(T)'
  BY <1>1, <1>8, <1>12, <1>13, <1>17, <1>19 DEF Good
<1>21. StoreUp'
  BY <1>8, <1>11, <1>13 DEF StoreUp, ActFrame, Conn
<1>22. Visits(toSign, cm)'
  BY <1>1, <1>8, <1>13, <1>17, <1>20, <1>21 DEF Visits
<1>23. PICK sn : sn = <<"rests">>
  BY Zenon
<1>24. StoreIn(env, registered, sn, ConvOf("store"))
  BY <1>23 DEF StoreIn
<1>25. Knows'.fields = <<>>
  BY <1>1, <1>7, <1>12
<1>26. SVisiting(cm, bm, sn)'
  BY <1>8, <1>11, <1>22, <1>23, <1>25 DEF SVisiting
<1>27. Plan(cm, bm, sn)'
  BY <1>26 DEF Plan
<1>28. ClientIn(env, registered, answer', cm, ConvOf("client"))
  BY <1>8
<1>29. QED
  BY <1>11, <1>14, <1>24, <1>27, <1>28, ActInv

\* The answer to a query is read by a sequence of instructions.
LEMMA PathInfoSeq ==
  ASSUME NEW m
  PROVE  IsSeq(ReadPathInfo(m))
<1>1. PICK i : i = Ins("nonzero", "found", 0, <<>>)
  OBVIOUS
<1>2. IsSeq(<<i>>) /\ IsSeq(<<>>)
  <2>1. PICK T : T = {i}
    BY Zenon
  <2>2. <<i>> \in Seq(T)
    BY <2>1
  <2>3. QED
    BY <2>2, Nil DEF IsSeq
<1>3. PICK p0, p1, p2, p3, p4, p5 :
        /\ p0 = When(m >= 17, <<Ins("nonzero", "found", 0, <<>>)>>) /\ p1 = ReadString("deriver") /\ p2 = ReadString("narHash")
        /\ p3 = ReadStrings("refs") /\ p4 = ReadUint64("regTime") /\ p5 = ReadUint64("narSize")
  OBVIOUS
<1>4. PICK q1, q2, q3, z : /\ q1 = ReadUint64("ultimate") /\ q2 = ReadStrings("sigs") /\ q3 = ReadString("ca")
                          /\ z = When(m >= 16, q1 \o q2 \o q3)
  OBVIOUS
<1>5. IsSeq(p0)
  BY <1>1, <1>2, <1>3 DEF When
<1>6. IsSeq(p1) /\ IsSeq(p2) /\ IsSeq(p3) /\ IsSeq(p4) /\ IsSeq(p5) /\ IsSeq(q1) /\ IsSeq(q2) /\ IsSeq(q3)
  BY <1>3, <1>4, Parts
<1>7. PICK t1, t2 : t1 = q1 \o q2 /\ t2 = t1 \o q3
  BY Zenon
<1>8. IsSeq(t1)
  BY <1>6, <1>7, Parts
<1>9. IsSeq(t2)
  BY <1>6, <1>7, <1>8, Parts
<1>10. IsSeq(z)
  BY <1>2, <1>4, <1>7, <1>9 DEF When
<1>11. PICK s1, s2, s3, s4, s5, s6 :
         s1 = p0 \o p1 /\ s2 = s1 \o p2 /\ s3 = s2 \o p3 /\ s4 = s3 \o p4 /\ s5 = s4 \o p5 /\ s6 = s5 \o z
  BY Zenon
<1>12. IsSeq(s1)
  BY <1>5, <1>6, <1>11, Parts
<1>13. IsSeq(s2)
  BY <1>6, <1>11, <1>12, Parts
<1>14. IsSeq(s3)
  BY <1>6, <1>11, <1>13, Parts
<1>15. IsSeq(s4)
  BY <1>6, <1>11, <1>14, Parts
<1>16. IsSeq(s5)
  BY <1>6, <1>11, <1>15, Parts
<1>17. IsSeq(s6)
  BY <1>10, <1>11, <1>16, Parts
<1>18. ReadPathInfo(m) = p0 \o p1 \o p2 \o p3 \o p4 \o p5 \o z
  BY <1>3, <1>4 DEF ReadPathInfo
<1>19. ReadPathInfo(m) = s6
  BY <1>11, <1>18
<1>20. QED
  BY <1>17, <1>19

\* The proxy works on an output.
LEMMA DoAsking ==
  ASSUME Facts, ProxyDo, IsFiniteSet(Outputs), 0 \notin Outputs, NEW cm, NEW bm, NEW sm, SAsking(cm, bm, sm),
         Links3(cm, bm, sm)
  PROVE  WireInv'
<1>1. PICK e, K, p, a, c, x, y, rg : /\ e = env /\ K = ConvOf("store") /\ p = Program /\ a = Knows /\ c = "store"
                                     /\ x = ToStore /\ y = TheStore /\ rg = registered
  OBVIOUS
<1>2. PICK o \in Names(e) : phase = "output" /\ sm = <<"asking", o, p, a>> /\ Visits(toSign \union {o}, cm)
  BY <1>1, Zenon DEF SAsking
<1>3. c = At[phase]
  BY <1>1, <1>2 DEF At
<1>4. /\ ClientIn(env, registered, answer, cm, ConvOf("client"))
      /\ BuilderIn(env, bm, ConvOf("builder")) /\ StoreIn(env, registered, sm, ConvOf("store"))
  BY DEF Links3
<1>5. AskingIn(e, rg, o, p, a, K)
  BY <1>1, <1>2, <1>4 DEF StoreIn
<1>6. PICK G : (\A g \in G : StoreGoal(e, rg, o, g)) /\ Talking(e, G, x, p, a, y, K)
  BY <1>1, <1>5 DEF AskingIn
<1>7. x[1] = "toStore" /\ K = ConvOf(c)
  BY <1>1, DaemonRoles
<1>8. RoleAt(x)
  BY <1>2, <1>7 DEF RoleAt, ProxyRoles
<1>9. Arrives(e, G, x, p, a, y, K) \/ (Entered(x, Program') /\ Talking(e, G, x, Program', a, y, K))
  BY <1>1, <1>3, <1>6, <1>7, <1>8, ProxyEnters
<1>10. CASE Entered(x, Program') /\ Talking(e, G, x, Program', a, y, K)
  <2>1. /\ Facts' /\ ActFrame /\ answer' = answer /\ Knows' = Knows /\ closed' = closed /\ toSign' = toSign
        /\ UNCHANGED <<env, cancelled, registered>> /\ ConvOf("store")' = ConvOf("store")
    BY <1>10, EnteredFacts
  <2>2. phase' = "output"
    BY <1>2, <1>7, <1>10 DEF Entered
  <2>3. PICK sn : sn = <<"asking", o, Program', a>>
    BY Zenon
  <2>4. AskingIn(e, rg, o, Program', a, K)
    BY <1>1, <1>6, <1>10 DEF AskingIn
  <2>5. StoreIn(env, registered, sn, ConvOf("store"))
    BY <1>1, <2>3, <2>4 DEF StoreIn
  <2>6. PICK T : T = toSign \union {o}
    BY Zenon
  <2>7. UNCHANGED <<env, registered, answer, toSign>> /\ ("store" \in closed' => "store" \in closed)
    BY <2>1
  <2>8. Visits(T, cm)'
    BY <1>2, <2>1, <2>6, <2>7, VisitsAct
  <2>9. Visits(toSign \union {o}, cm)'
    BY <2>1, <2>6, <2>8
  <2>10. Names(env)' = Names(e)
    BY <1>1, <2>1
  <2>11. SAsking(cm, bm, sn)'
    BY <1>1, <1>2, <2>1, <2>2, <2>3, <2>9, <2>10, Zenon DEF SAsking
  <2>12. Plan(cm, bm, sn)'
    BY <2>11 DEF Plan
  <2>13. ClientIn(env, registered, answer', cm, ConvOf("client"))
    BY <1>4, <2>1
  <2>14. QED
    BY <1>4, <2>1, <2>5, <2>12, <2>13, ActInv
<1>11. CASE Arrives(e, G, x, p, a, y, K)
  <2>1. PICK g, q : g \in G /\ g = <<x, <<p, a, K[6]>>, y, g[4]>> /\ Stays(K, q) /\ Rests(e, PeerSide(K, y, q), g[4])
    BY <1>11 DEF Arrives
  <2>2. StoreGoal(e, rg, o, g)
    BY <1>6, <2>1
  <2>3. g[1] = x /\ g[2] = <<p, a, K[6]>>
    BY <2>1
  <2>4. x # y
    BY <1>1, DaemonRoles
  <2>5. ASSUME NEW r, NEW b, NEW d, IsMem(b), IsMem(d), b.fields = <<>>,
               g = <<ToStore, <<r, b, Full>>, TheStore, <<ReadOp, d, Full>>>>
        PROVE  r = p /\ b = a /\ Knows.fields = <<>> /\ RestsIn(env, ConvOf("store"))
    <3>1. g[2] = <<r, b, Full>> /\ g[4] = <<ReadOp, d, Full>>
      BY <2>5
    <3>2. r = p /\ b = a /\ K[6] = Full
      BY <2>3, <3>1
    <3>3. RestingAt(e, TheStore, <<ReadOp, d, Full>>, K)
      BY <1>1, <2>1, <3>1 DEF RestingAt
    <3>4. RestsIn(e, K)
      BY <1>11, <2>5, <3>2, <3>3 DEF RestsIn, Arrives
    <3>5. QED
      BY <1>1, <2>5, <3>2, <3>4
  <2>6. \E b, d : /\ IsMem(b) /\ b.fields = <<>> /\ IsMem(d)
          /\ \/ g = <<ToStore, <<Do("NextOutput"), b, Full>>, TheStore, <<ReadOp, d, Full>>>> /\ o \notin e.present \intersect e.signable
             \/ /\ g = <<ToStore, <<Do("Signed"), b, Full>>, TheStore, <<ReadOp, d, Full>>>>
                /\ <<o, o>> \in rg /\ SignsFor(b, o)
    <3>1. PICK b, d : /\ IsMem(b) /\ b.fields = <<>> /\ IsMem(d)
       /\ \/ g = <<ToStore, <<Do("NextOutput"), b, Full>>, TheStore, <<ReadOp, d, Full>>>> /\ o \notin e.present \intersect e.signable
          \/ g = <<TheStore, <<Do("register"), d, Full>>, ToStore, <<ReadMarker \o Do("Signed"), b, Full>>>>
          \/ /\ g = <<ToStore, <<Do("Signed"), b, Full>>, TheStore, <<ReadOp, d, Full>>>>
             /\ <<o, o>> \in rg /\ SignsFor(b, o)
          \/ g = <<ToStore, <<FailIns \o Do("Signed"), b, Full>>, TheStore, <<ReadOp, d, Full>>>>
      BY <2>2 DEF StoreGoal
    <3>2. g # <<TheStore, <<Do("register"), d, Full>>, ToStore, <<ReadMarker \o Do("Signed"), b, Full>>>>
      BY <1>1, <2>3, <2>4
    <3>3. g # <<ToStore, <<FailIns \o Do("Signed"), b, Full>>, TheStore, <<ReadOp, d, Full>>>>
      <4>1. SUFFICES ASSUME g = <<ToStore, <<FailIns \o Do("Signed"), b, Full>>, TheStore, <<ReadOp, d, Full>>>> PROVE FALSE
        OBVIOUS
      <4>2. FailIns \o Do("Signed") = p
        BY <2>3, <4>1
      <4>3. IsSeq(Do("Signed"))
        BY Named
      <4>4. Head(p).k = "fail"
        BY <4>2, <4>3, FailHead, Zenon
      <4>5. Head(p).k = "do"
        BY <1>1, ActsOnly
      <4>6. QED
        BY <4>4, <4>5
    <3>4. QED
      BY <3>1, <3>2, <3>3, Zenon
  <2>7. PICK b, d : /\ IsMem(b) /\ b.fields = <<>> /\ IsMem(d)
          /\ \/ g = <<ToStore, <<Do("NextOutput"), b, Full>>, TheStore, <<ReadOp, d, Full>>>> /\ o \notin e.present \intersect e.signable
             \/ /\ g = <<ToStore, <<Do("Signed"), b, Full>>, TheStore, <<ReadOp, d, Full>>>>
                /\ <<o, o>> \in rg /\ SignsFor(b, o)
    BY <2>6
  <2>8. CASE g = <<ToStore, <<Do("NextOutput"), b, Full>>, TheStore, <<ReadOp, d, Full>>>> /\ o \notin e.present \intersect e.signable
    <3>1. p = Do("NextOutput") /\ Knows.fields = <<>> /\ RestsIn(env, ConvOf("store"))
      BY <2>5, <2>7, <2>8
    <3>2. NextOutput
      BY <1>1, <3>1, ActsAt
    <3>3. Visits(toSign, cm)
      <4>1. PICK T, U : T = toSign \union {o} /\ U = toSign
        BY Zenon
      <4>2. \A n \in T : n \in U \/ n \notin env.present \intersect env.signable
        BY <1>1, <2>8, <4>1
      <4>3. Visits(T, cm)
        BY <1>2, <4>1
      <4>4. Visits(U, cm)
        BY <4>2, <4>3, VisitsLess
      <4>5. QED
        BY <4>1, <4>4
    <3>4. QED
      BY <1>2, <1>4, <3>1, <3>2, <3>3, NextOutputInv
  <2>9. CASE g = <<ToStore, <<Do("Signed"), b, Full>>, TheStore, <<ReadOp, d, Full>>>> /\ <<o, o>> \in rg /\ SignsFor(b, o)
    <3>1. p = Do("Signed") /\ b = a /\ Knows.fields = <<>> /\ RestsIn(env, ConvOf("store"))
      BY <2>5, <2>7, <2>9
    <3>2. ShowSignature
      BY <1>1, <3>1, ActsAt
    <3>3. o \in Names(env) /\ SignsFor(Knows, o) /\ <<o, o>> \in registered
      BY <1>1, <1>2, <2>9, <3>1
    <3>4. QED
      BY <1>2, <1>4, <3>1, <3>2, <3>3, ShowInv
  <2>10. QED
    BY <2>7, <2>8, <2>9
<1>12. QED
  BY <1>9, <1>10, <1>11

\* After the store host is gone.
LEMMA DoDead ==
  ASSUME Facts, ProxyDo, NEW cm, NEW bm, NEW sm, SDead(cm, bm, sm), Links3(cm, bm, sm)
  PROVE  WireInv'
<1>1. /\ phase = "output" /\ DeadProgram(Program) /\ sm = <<"dead">> /\ "store" \in closed /\ Visits(toSign, cm)
  BY DEF SDead
<1>2. /\ ClientIn(env, registered, answer, cm, ConvOf("client"))
      /\ BuilderIn(env, bm, ConvOf("builder")) /\ StoreIn(env, registered, sm, ConvOf("store"))
  BY DEF Links3
<1>3. Program = Do("NextOutput")
  <2>1. SUFFICES ASSUME NEW w, NEW q, IsSeq(q), Program = Send(w) \o q \/ Program = Flush \o q PROVE FALSE
    BY <1>1 DEF DeadProgram
  <2>2. Head(Program).k = "do"
    BY ActsOnly
  <2>3. CASE Program = Send(w) \o q
    BY <2>1, <2>2, <2>3, SendHead, Zenon
  <2>4. CASE Program = Flush \o q
    <3>1. PICK i : i = Ins("flush", "", 0, <<>>)
      BY Zenon
    <3>2. Program = <<i>> \o q /\ i.k = "flush"
      BY <2>4, <3>1, Zenon DEF Flush, Ins
    <3>3. QED
      BY <2>1, <2>2, <3>2, FirstThen
  <2>5. QED
    BY <2>1, <2>3, <2>4
<1>4. NextOutput
  BY <1>3, ActsAt
<1>5. /\ Shape /\ IsMem(Knows) /\ IsSeq(Knows.fields)
  BY DEF Facts
<1>6. /\ phase' = "output"
      /\ UNCHANGED <<version, buf, wire, misread, env, cancelled, closed, registered, answer>>
  BY <1>4 DEF NextOutput
<1>7. phase' \in DOMAIN At
  BY <1>6 DEF At
<1>8. /\ Good(toSign) /\ cm = <<"idle">> /\ toSign \subseteq Names(env) /\ StoreUp /\ "store" \in env.dies
  BY <1>1 DEF Visits, StoreUp
<1>9. env.caller = "client"
  BY <1>8 DEF Good
<1>10. ClientIn(env, registered, answer', cm, ConvOf("client"))
  BY <1>2, <1>6
<1>11. PICK m : m = M("proxy")
  OBVIOUS
<1>12. CASE \E o \in toSign : /\ toSign' = toSign \ {o} /\ mem' = [mem EXCEPT !["proxy"].path = o]
                              /\ Goes(AskPathInfo(m, o))
  <2>1. PICK o \in toSign : /\ toSign' = toSign \ {o} /\ mem' = [mem EXCEPT !["proxy"].path = o]
                            /\ Goes(AskPathInfo(m, o))
    BY <1>12, Zenon
  <2>2. PICK b, a, p : b = Knows /\ a = Set1(b, "path", o) /\ p = AskPathInfo(m, o)
    OBVIOUS
  <2>3. /\ IsMem(a) /\ a.fields = b.fields /\ a.status = b.status /\ a.cpu = b.cpu /\ a.outs = b.outs /\ a.drv = b.drv
    BY <1>5, <2>2, MemSet DEF MemNames
  <2>4. mem' = [mem EXCEPT !["proxy"] = a]
    BY <2>1, <2>2, Zenon DEF Set1, Knows
  <2>5. ActFrame /\ Program' = p
    BY <1>5, <1>6, <1>7, <2>1, <2>2, <2>4, ProxyOnly, Zenon
  <2>6. Knows' = a
    BY <1>5, <2>4 DEF Knows, Shape, Party
  <2>7. Facts'
    <3>1. IsMem(Knows') /\ IsSeq(Knows'.fields)
      BY <1>5, <2>2, <2>3, <2>6
    <3>2. QED
      BY <1>6, <1>9, <2>5, <3>1, FactsAct
  <2>8. DeadProgram(p)
    <3>1. PICK w1, rp : w1 = WriteUint64("op", OpQueryPathInfo) \o WriteStringOf("path", o, 0) /\ rp = ReadPathInfo(m)
      BY Zenon
    <3>2. Joined(WriteUint64("op", OpQueryPathInfo), WriteStringOf("path", o, 0), w1)
      BY <3>1 DEF Joined
    <3>3. IsSeq(rp)
      BY <3>1, PathInfoSeq
    <3>4. PICK t1, t2 : AskParts(w1, rp, p, t1, t2)
      BY <2>2, <3>1, <3>2, <3>3, AskPathInfoParts
    <3>5. p = Send(w1) \o t1 /\ IsSeq(t1)
      BY <3>4 DEF AskParts
    <3>6. QED
      BY <3>5 DEF DeadProgram
  <2>9. SameResult(b, a)
    BY <2>3 DEF SameResult
  <2>10. PICK T, U : T = toSign /\ U = toSign \ {o}
    BY Zenon
  <2>11. Visits(U, cm)
    BY <1>1, <1>8, VisitsLess
  <2>12. ResultOK(env, registered, a) /\ LeftIn(env, a, U)
    <3>1. ResultOK(env, registered, b) /\ LeftIn(env, b, U)
      BY <2>2, <2>11 DEF Visits, Good
    <3>2. QED
      BY <2>9, <3>1, SameGood
  <2>13. Good(U)'
    BY <1>6, <1>8, <2>6, <2>12 DEF Good
  <2>14. StoreUp'
    BY <1>6, <1>8, <2>5 DEF StoreUp, ActFrame, Conn
  <2>15. toSign' = U /\ toSign' \subseteq Names(env)
    BY <1>8, <2>1, <2>10
  <2>16. Visits(toSign, cm)'
    BY <1>6, <1>8, <2>13, <2>14, <2>15 DEF Visits
  <2>17. SDead(cm, bm, sm)'
    BY <1>1, <1>6, <2>2, <2>5, <2>8, <2>16 DEF SDead
  <2>18. Plan(cm, bm, sm)'
    BY <2>17 DEF Plan
  <2>19. QED
    BY <1>2, <1>10, <2>5, <2>7, <2>18, ActInv
<1>13. CASE toSign = {} /\ Goes(Do("Reply")) /\ UNCHANGED <<toSign, mem>>
  <2>1. ActFrame /\ Program' = Do("Reply")
    BY <1>5, <1>6, <1>7, <1>13, ProxyOnly
  <2>2. Knows' = Knows
    BY <1>13 DEF Knows
  <2>3. Facts'
    BY <1>5, <1>6, <1>9, <2>1, <2>2, FactsAct
  <2>4. Good({})'
    BY <1>6, <1>8, <1>13, <2>2 DEF Good
  <2>5. StoreUp'
    BY <1>6, <1>8, <2>1 DEF StoreUp, ActFrame, Conn
  <2>6. SReply(cm, bm, sm)'
    BY <1>1, <1>6, <1>8, <2>1, <2>4, <2>5 DEF SReply
  <2>7. Plan(cm, bm, sm)'
    BY <2>6 DEF Plan
  <2>8. QED
    BY <1>2, <1>10, <2>1, <2>3, <2>7, ActInv
<1>14. QED
  BY <1>4, <1>11, <1>12, <1>13 DEF NextOutput

\* Every part of its program that the proxy enters - handlers, ExecuteBuild,
\* the signing of the outputs, the reply - keeps the invariant.
THEOREM ProxyDoInv ==
  ASSUME WireInv, ProxyDo, IsFiniteSet(Outputs), 0 \notin Outputs
  PROVE  WireInv'
<1>1. PICK cm, bm, sm : Plan(cm, bm, sm) /\ Links3(cm, bm, sm)
  BY DEF WireInv
<1>2. Facts
  BY DEF WireInv
<1>3. SOpening(cm, bm, sm) => WireInv'
  BY <1>1, <1>2, DoOpening
<1>4. SStart(cm, bm, sm) => WireInv'
  BY <1>1, <1>2, DoStart
<1>5. SBuilding(cm, bm, sm) => WireInv'
  BY <1>1, <1>2, DoBuilding
<1>6. SFailure(cm, bm, sm) => WireInv'
  BY <1>1, <1>2, DoFailure
<1>7. SSigning(cm, bm, sm) => WireInv'
  BY <1>1, <1>2, DoSigning
<1>8. SAsking(cm, bm, sm) => WireInv'
  BY <1>1, <1>2, DoAsking
<1>9. SVisiting(cm, bm, sm) => WireInv'
  BY <1>1, <1>2, DoVisiting
<1>10. SDead(cm, bm, sm) => WireInv'
  BY <1>1, <1>2, DoDead
<1>11. SReply(cm, bm, sm) => WireInv'
  BY <1>1, <1>2, DoReply
<1>12. SAnswering(cm, bm, sm) => WireInv'
  BY <1>1, <1>2, DoAnswering
<1>13. SLost(cm, bm, sm) => WireInv'
  BY <1>1, <1>2, DoLost
<1>14. ~SJobDone(cm, bm, sm)
  BY ActsOnly DEF SJobDone
<1>15. QED
  BY <1>1, <1>3, <1>4, <1>5, <1>6, <1>7, <1>8, <1>9, <1>10, <1>11, <1>12, <1>13, <1>14 DEF Plan

\* Closing a connection leaves what the peers do as it is.
LEMMA AbortSame ==
  ASSUME Shape, UNCHANGED <<ends, misread, env, phase, toSign, registered, answer>>, cancelled' \in BOOLEAN
  PROVE  /\ Shape' /\ (\A c \in Conn : ConvOf(c)' = ConvOf(c)) /\ Program' = Program /\ Knows' = Knows
<1>1. UNCHANGED <<todo, mem, version, buf, wire>>
  BY DEF ends
<1>2. Shape'
  BY <1>1 DEF Shape
<1>3. \A c \in Conn : ConvOf(c)' = ConvOf(c)
  BY <1>1 DEF ConvOf
<1>4. QED
  BY <1>1, <1>2, <1>3 DEF Program, Knows

\* The context of a build is done while it runs: the builder's connection is
\* closed.
LEMMA AbortBuildInv ==
  ASSUME WireInv, AbortBuild
  PROVE  WireInv'
<1>1. PICK cm, bm, sm : Plan(cm, bm, sm) /\ Links3(cm, bm, sm)
  BY DEF WireInv
<1>2. Facts
  BY DEF WireInv
<1>3. /\ phase = "build" /\ cancelled /\ closed' = closed \union {"builder"}
      /\ UNCHANGED <<ends, misread, env, cancelled, phase, toSign, held, registered, answer>>
  BY DEF AbortBuild
<1>4. Shape' /\ (\A c \in Conn : ConvOf(c)' = ConvOf(c)) /\ Program' = Program /\ Knows' = Knows
  <2>1. Shape
    BY <1>2 DEF Facts
  <2>2. cancelled' \in BOOLEAN
    BY <1>3, <2>1 DEF Shape
  <2>3. QED
    BY <1>3, <2>1, <2>2, AbortSame
<1>5. ConvOf("client")' = ConvOf("client") /\ ConvOf("builder")' = ConvOf("builder") /\ ConvOf("store")' = ConvOf("store")
  BY <1>4 DEF Conn
<1>6. Facts'
  <2>1. ClientFacts(env, registered, answer, closed, ConvOf("client"))'
    BY <1>2, <1>3, <1>5, Zenon DEF Facts, ClientFacts
  <2>2. DaemonFacts("builder", closed, ConvOf("builder"))'
    BY <1>2, <1>3, <1>5 DEF Facts, DaemonFacts
  <2>3. DaemonFacts("store", closed, ConvOf("store"))'
    BY <1>2, <1>3, <1>5 DEF Facts, DaemonFacts
  <2>4. QED
    BY <1>2, <1>3, <1>4, <2>1, <2>2, <2>3, Zenon DEF Facts
<1>7. Links3(cm, bm, sm)'
  BY <1>1, <1>3, <1>5 DEF Links3
<1>8. StoreUp => StoreUp'
  BY <1>3, <1>5 DEF StoreUp
<1>9. CASE env.caller = "job"
  <2>1. BuilderUp'
    BY <1>3, <1>9 DEF BuilderUp, Excuse
  <2>2. PeerOnly
    BY <1>3, <1>4, <1>8, <2>1 DEF PeerOnly
  <2>3. Plan(cm, bm, sm)'
    BY <1>1, <1>3, <2>2, PlanPeers
  <2>4. QED
    BY <1>6, <1>7, <2>3 DEF WireInv
<1>10. CASE env.caller # "job"
  <2>1. ~Calls(cm)
    BY <1>3, <1>10 DEF Calls
  <2>2. SReply(cm, bm, sm)
    BY <1>1, <1>3, <1>10, <2>1, Zenon
       DEF Plan, SOpening, SStart, SBuilding, SFailure, SJobDone, SSigning, SAsking, SVisiting, SDead, SAnswering, SLost
  <2>3. Good({})'
    BY <1>3, <1>4, <2>2 DEF SReply, Good
  <2>4. SReply(cm, bm, sm)'
    BY <1>3, <1>4, <1>8, <2>2, <2>3 DEF SReply
  <2>5. Plan(cm, bm, sm)'
    BY <2>4 DEF Plan
  <2>6. QED
    BY <1>6, <1>7, <2>5 DEF WireInv
<1>11. QED
  BY <1>9, <1>10

\* The context of a job is cancelled.
LEMMA AbortJobInv ==
  ASSUME WireInv, AbortJob
  PROVE  WireInv'
<1>1. PICK cm, bm, sm : Plan(cm, bm, sm) /\ Links3(cm, bm, sm)
  BY DEF WireInv
<1>2. Facts
  BY DEF WireInv
<1>3. /\ env.caller = "job" /\ cancelled' = TRUE
      /\ UNCHANGED <<ends, misread, env, closed, phase, toSign, held, registered, answer>>
  BY DEF AbortJob
<1>4. Shape' /\ (\A c \in Conn : ConvOf(c)' = ConvOf(c)) /\ Program' = Program /\ Knows' = Knows
  <2>1. Shape
    BY <1>2 DEF Facts
  <2>2. cancelled' \in BOOLEAN
    BY <1>3, <2>1 DEF Shape
  <2>3. QED
    BY <1>3, <2>1, <2>2, AbortSame
<1>5. ConvOf("client")' = ConvOf("client") /\ ConvOf("builder")' = ConvOf("builder") /\ ConvOf("store")' = ConvOf("store")
  BY <1>4 DEF Conn
<1>6. Excuse(env, cancelled)'
  BY <1>3 DEF Excuse
<1>7. Facts'
  <2>1. ClientFacts(env, registered, answer, closed, ConvOf("client"))'
    BY <1>2, <1>3, <1>5, Zenon DEF Facts, ClientFacts
  <2>2. DaemonFacts("builder", closed, ConvOf("builder"))'
    BY <1>2, <1>3, <1>5 DEF Facts, DaemonFacts
  <2>3. DaemonFacts("store", closed, ConvOf("store"))'
    BY <1>2, <1>3, <1>5 DEF Facts, DaemonFacts
  <2>4. QED
    BY <1>2, <1>3, <1>4, <1>6, <2>1, <2>2, <2>3 DEF Facts
<1>8. Links3(cm, bm, sm)'
  BY <1>1, <1>3, <1>5 DEF Links3
<1>9. (StoreUp => StoreUp') /\ BuilderUp'
  BY <1>3, <1>5, <1>6 DEF StoreUp, BuilderUp
<1>10. (NewBuilder(bm) => NewBuilder(bm)') /\ (NewStore(sm) => NewStore(sm)')
  BY <1>3 DEF NewBuilder, NewStore
<1>11. Calls(cm) => Calls(cm)'
  BY <1>3 DEF Calls
<1>12. SStart(cm, bm, sm) => Plan(cm, bm, sm)'
  <2>1. SStart(cm, bm, sm) => SStart(cm, bm, sm)'
    BY <1>3, <1>4, <1>9, <1>10 DEF SStart
  <2>2. QED
    BY <2>1 DEF Plan
<1>13. SBuilding(cm, bm, sm) => Plan(cm, bm, sm)'
  <2>1. SBuilding(cm, bm, sm) => SBuilding(cm, bm, sm)'
    BY <1>3, <1>4, <1>9, <1>10, <1>11 DEF SBuilding
  <2>2. QED
    BY <2>1 DEF Plan
<1>14. SFailure(cm, bm, sm) => Plan(cm, bm, sm)'
  <2>1. SFailure(cm, bm, sm) => SFailure(cm, bm, sm)'
    BY <1>3, <1>4, <1>6, <1>9, <1>10, <1>11 DEF SFailure
  <2>2. QED
    BY <2>1 DEF Plan
<1>15. SJobDone(cm, bm, sm) => Plan(cm, bm, sm)'
  <2>1. SJobDone(cm, bm, sm) => SJobDone(cm, bm, sm)'
    BY <1>3, <1>4, <1>10, SMTT(30) DEF SJobDone
  <2>2. QED
    BY <2>1 DEF Plan
<1>16. \/ SStart(cm, bm, sm) \/ SBuilding(cm, bm, sm) \/ SFailure(cm, bm, sm) \/ SJobDone(cm, bm, sm)
  BY <1>1, <1>3 DEF Plan, SOpening, SSigning, SAsking, SVisiting, SDead, SReply, SAnswering, SLost, Visits, Good
<1>17. Plan(cm, bm, sm)'
  BY <1>12, <1>13, <1>14, <1>15, <1>16
<1>18. QED
  BY <1>7, <1>8, <1>17 DEF WireInv

\* Every step of a session keeps the invariant.
THEOREM WireNextInv ==
  ASSUME WireInv, Regular, WireNext, IsFiniteSet(Outputs), 0 \notin Outputs
  PROVE  WireInv'
<1>1. CASE ProxyNext
  <2>1. Step("proxy") \/ ProxyDo
    BY <1>1 DEF ProxyNext
  <2>2. QED
    BY <2>1, ProxyStepInv, ProxyDoInv
<1>2. CASE AbortBuild
  BY <1>2, AbortBuildInv
<1>3. CASE AbortJob
  BY <1>3, AbortJobInv
<1>4. CASE \E c \in Conn : PeerNext(c) \/ Die(c) \/ Hang(c)
  <2>1. PICK c \in Conn : PeerNext(c) \/ Die(c) \/ Hang(c)
    BY <1>4
  <2>2. QED
    BY <2>1, PeerInv
<1>5. QED
  BY <1>1, <1>2, <1>3, <1>4 DEF WireNext

-----------------------------------------------------------------------------
(* The start of a session *)

\* Nothing has been said, and nothing is left to say, on the connection K.
New(K, q) == K = <<q, Nothing, 0, <<>>, <<>>, 0, <<>>, <<>>>>

\* A peer that starts a conversation with the proxy, or the other way round.
LEMMA StartsTalking ==
  ASSUME NEW e, NEW G, Goals(G), NEW x, NEW p, NEW a, NEW y, NEW q, NEW K, New(K, q),
         Opens(e, G, x, <<p, a, 0>>, y, <<q, Nothing, 0>>) \/ Opens(e, G, y, <<q, Nothing, 0>>, x, <<p, a, 0>>)
  PROVE  Talking(e, G, x, p, a, y, K)
<1>1. /\ K[1] = q /\ K[2] = Nothing /\ K[3] = 0 /\ K[4] = <<>> /\ K[5] = <<>> /\ K[6] = 0 /\ K[7] = <<>> /\ K[8] = <<>>
  BY DEF New
<1>2. PICK X, Y : X = ProxySide(K, x, p, a) /\ Y = PeerSide(K, y, q)
  OBVIOUS
<1>3. X[1] = x /\ X[5] = <<>> /\ X[6] = <<>> /\ Pos(X) = <<p, a, 0>>
  BY <1>1, <1>2, ProxyParts
<1>4. Y[1] = y /\ Y[5] = <<>> /\ Y[6] = <<>> /\ Pos(Y) = <<q, Nothing, 0>>
  BY <1>1, <1>2, PeerParts
<1>5. Clear(X) /\ Clear(Y)
  BY <1>3, <1>4 DEF Clear
<1>6. Opens(e, G, X[1], Pos(X), Y[1], Pos(Y)) \/ Opens(e, G, Y[1], Pos(Y), X[1], Pos(X))
  BY <1>3, <1>4
<1>7. Talk(e, G, X, Y) \/ Talk(e, G, Y, X)
  BY <1>5, <1>6, StartTalk
<1>8. Talk(e, G, X, Y)
  BY <1>7 DEF Talk
<1>9. Stays(K, q)
  BY <1>1 DEF Stays
<1>10. QED
  BY <1>2, <1>8, <1>9 DEF Talking

\* The conversation with the builder can begin.
LEMMA BuilderStarts ==
  ASSUME NEW e \in Environment, e.minor["builder"] >= 38, IsFiniteSet(Outputs), NEW K, New(K, DaemonStart(e, "builder")),
         NEW m, m = <<handshakeWithBuilder, Asked>>
  PROVE  BuilderIn(e, m, K)
<1>1. PICK n, x, y, G, a, c : /\ n = MinorOf(Full) /\ x = ToBuilder /\ y = TheBuilder /\ G = BuildGoals(e) /\ a = Asked
                              /\ c = "builder"
  OBVIOUS
<1>2. x[1] = "toBuilder" /\ y[1] = c
  BY <1>1, DaemonRoles
<1>3. IsMem(a) /\ a.fields = <<>> /\ a.drv = Outputs /\ IsFiniteSet(a.drv)
  BY <1>1, AskedKnown
<1>4. IsFiniteSet(e.outs)
  BY FS_Subset DEF Environment
<1>5. PICK k : k = <<ReadOp, Set1(Nothing, "drv", a.drv), Full>>
  BY Zenon
<1>6. PICK f : f = BuildEnd(e)
  OBVIOUS
<1>7. <<x, f, y, k>> \in G
  BY <1>1, <1>3, <1>5, <1>6 DEF BuildGoals
<1>8. /\ e.error = "none" => f = <<Do("BuildDone"), Told(Reported(e), a), Full>>
      /\ e.error # "none" => f = <<FailIns \o AfterBuild(n), a, Full>>
  BY <1>1, <1>6 DEF BuildEnd
<1>9. /\ e.error = "none" => <<x, <<Do("BuildDone"), Told(Reported(e), a), Full>>, y, k>> \in G
      /\ e.error # "none" => <<x, <<FailIns \o AfterBuild(n), a, Full>>, y, k>> \in G
  BY <1>7, <1>8, Zenon
<1>10. Dialog(e, G, x, <<Do("ExecuteBuild"), a, Full>>, y, <<ReadOp, Nothing, Full>>)
  BY <1>1, <1>2, <1>3, <1>4, <1>5, <1>9, BuildTalk, Zenon
<1>11. Opens(e, G, x, <<handshakeWithBuilder, a, 0>>, y, <<DaemonStart(e, c), Nothing, 0>>)
  BY <1>1, <1>2, <1>3, <1>10, DaemonHandshake, Zenon
<1>12. Goals(G)
  BY <1>1, BuildGoalsOK
<1>13. Talking(e, G, x, handshakeWithBuilder, a, y, K)
  BY <1>1, <1>11, <1>12, StartsTalking
<1>14. m[1] = handshakeWithBuilder /\ m[2] = a
  BY <1>1
<1>15. QED
  BY <1>1, <1>13, <1>14 DEF BuilderIn

\* The conversation with the store host can begin.
LEMMA StoreStarts ==
  ASSUME NEW e \in Environment, e.minor["store"] >= 38, IsFiniteSet(Outputs), NEW K, New(K, DaemonStart(e, "store")),
         NEW a, a = Result(e)
  PROVE  SigningIn(e, handshakeWithBuilder, a, K)
<1>1. PICK n, x, y, G, c : /\ n = MinorOf(Full) /\ x = ToSigning /\ y = TheStore /\ G = SigningGoals(e) /\ c = "store"
  OBVIOUS
<1>2. x[1] = "toSigning" /\ y[1] = c
  BY <1>1, DaemonRoles
<1>3. IsMem(a) /\ a.fields = <<>>
  <2>1. Fresh(e, a)
    BY ResultFacts
  <2>2. QED
    BY <2>1 DEF Fresh
<1>4. PICK l : l = <<ReadOp, Nothing, Full>>
  BY Zenon
<1>5. Waits(l)
  BY <1>4, WaitsRules, Zenon
<1>6. <<x, <<Do("NextOutput"), a, Full>>, y, l>> \in G
  BY <1>1, <1>4 DEF SigningGoals
<1>7. Dialog(e, G, x, <<Do("NextOutput"), a, Full>>, y, l)
  BY <1>5, <1>6, DialogGoal
<1>8. Opens(e, G, x, <<handshakeWithBuilder, a, 0>>, y, <<DaemonStart(e, c), Nothing, 0>>)
  BY <1>1, <1>2, <1>3, <1>4, <1>7, DaemonHandshake, Zenon
<1>9. Goals(G)
  BY <1>1, SigningGoalsOK
<1>10. Talking(e, G, x, handshakeWithBuilder, a, y, K)
  BY <1>1, <1>8, <1>9, StartsTalking
<1>11. QED
  BY <1>1, <1>10 DEF SigningIn

\* The client can begin.
ClientStart ==
  Send(WriteUint64("clientMagic", ClientMagic))
    \o Require("serverMagic", ServerMagic) \o ReadVersion \o Do("hello")

\* The client can begin.
LEMMA ClientStarts ==
  ASSUME NEW e \in Environment, e.minor["client"] >= 38, NEW K, New(K, ClientStart)
  PROVE  OpeningIn(e, Do("Handshake"), Nothing, K)
<1>1. PICK n, x, y, G : n = MinorOf(Full) /\ x = ToClient /\ y = Client /\ G = OpeningGoals
  OBVIOUS
<1>2. <<ToClient, <<Do("GetBuilder"), Asked, Full>>, Client, <<ReadMarker \o Expects(n), Nothing, Full>>>> \in G
  BY <1>1 DEF OpeningGoals
<1>3. Opens(e, G, Client, <<ClientStart, Nothing, 0>>, ToClient, <<Do("Handshake"), Nothing, 0>>)
  BY <1>1, <1>2, Opening, Zenon DEF ClientStart
<1>4. Opens(e, G, y, <<ClientStart, Nothing, 0>>, x, <<Do("Handshake"), Nothing, 0>>)
  BY <1>1, <1>3
<1>5. Goals(G)
  BY <1>1, OpeningGoalsOK
<1>6. Talking(e, G, x, Do("Handshake"), Nothing, y, K)
  BY <1>4, <1>5, StartsTalking
<1>7. QED
  BY <1>1, <1>6 DEF OpeningIn

\* The invariant holds at the start, whoever the caller is.
THEOREM WireInitInv ==
  ASSUME WireInit, Regular, Environments \subseteq Environment, IsFiniteSet(Outputs)
  PROVE  WireInv
<1>1. PICK e, B, C, S : e = env /\ B = ConvOf("builder") /\ C = ConvOf("client") /\ S = ConvOf("store")
  OBVIOUS
<1>2. e \in Environment /\ e.minor["builder"] >= 38 /\ e.minor["store"] >= 38 /\ e.minor["client"] >= 38
  BY <1>1 DEF WireInit, Regular, Modern, Conn
<1>3. e.caller = "client" \/ e.caller = "job"
  BY <1>2 DEF Environment
<1>4. /\ todo["builder"] = DaemonStart(e, "builder") /\ todo["store"] = DaemonStart(e, "store")
      /\ e.caller = "client" => todo["client"] = ClientStart /\ Program = Do("Handshake")
      /\ e.caller = "job" => todo["client"] = <<>> /\ Program = Do("GetBuilder")
  <2>1. \A p \in Party : todo[p] = Start(p)
    BY DEF WireInit
  <2>2. todo["builder"] = Start("builder") /\ todo["store"] = Start("store") /\ todo["client"] = Start("client")
        /\ Program = Start("proxy")
    BY <2>1 DEF Party, Conn, Program
  <2>3. Start("builder") = DaemonStart(e, "builder") /\ Start("store") = DaemonStart(e, "store")
    BY <1>1 DEF Start, DaemonStart
  <2>4. e.caller = "client" => Start("client") = ClientStart /\ Start("proxy") = Do("Handshake")
    BY <1>1 DEF Start, ClientStart
  <2>5. e.caller = "job" => Start("client") = <<>> /\ Start("proxy") = Do("GetBuilder")
    <3>1. SUFFICES ASSUME env.caller = "job" PROVE Start("client") = <<>> /\ Start("proxy") = Do("GetBuilder")
      BY <1>1
    <3>2. Start("client") = <<>>
      BY <3>1 DEF Start
    <3>3. Start("proxy") = Do("GetBuilder")
      BY <3>1 DEF Start
    <3>4. QED
      BY <3>2, <3>3
  <2>6. QED
    BY <2>2, <2>3, <2>4, <2>5
<1>5. /\ mem["builder"] = Nothing /\ mem["store"] = Nothing /\ mem["client"] = Nothing
      /\ e.caller = "client" => Knows = Nothing
      /\ e.caller = "job" => Knows = Asked
  BY <1>1, <1>3 DEF WireInit, Knows, Party, Conn, Asked, Set1
<1>6. \A l \in Link : version[l] = 0 /\ buf[l] = <<>> /\ wire[l] = <<>>
  BY DEF WireInit
<1>7. \A c \in Conn : <<c, "proxy">> \in Link /\ <<"proxy", c>> \in Link
  BY DEF Link
<1>8. ASSUME NEW c \in Conn, mem[c] = Nothing PROVE New(ConvOf(c), todo[c])
  BY <1>6, <1>7, <1>8 DEF New, ConvOf
<1>9. /\ New(B, DaemonStart(e, "builder")) /\ New(S, DaemonStart(e, "store"))
      /\ e.caller = "client" => New(C, ClientStart)
      /\ e.caller = "job" => New(C, <<>>)
  BY <1>1, <1>4, <1>5, <1>8 DEF Conn
<1>10. /\ B[3] = 0 /\ B[6] = 0 /\ S[3] = 0 /\ S[6] = 0 /\ C[3] = 0 /\ C[6] = 0 /\ C[2] = Nothing
       /\ B[1] = DaemonStart(e, "builder") /\ S[1] = DaemonStart(e, "store")
       /\ e.caller = "client" => C[1] = ClientStart
       /\ e.caller = "job" => C[1] = <<>>
  BY <1>3, <1>9 DEF New
<1>11. /\ answer = "none" /\ closed = {} /\ misread = {} /\ ~cancelled /\ cancelled \in BOOLEAN
       /\ e.caller = "client" => phase = "handshake"
       /\ e.caller = "job" => phase = "build"
  BY <1>1, <1>3, Zenon DEF WireInit
<1>12. /\ DaemonStart(e, "builder") # Do("leave") /\ DaemonStart(e, "store") # Do("leave") /\ ClientStart # Do("leave")
  <2>1. ASSUME NEW c PROVE DaemonStart(e, c) # Do("leave")
    <3>1. PICK i, v, w, s, d : /\ i = Ins("require", "clientMagic", ClientMagic, <<>>) /\ v = ReadVersion
                               /\ w = WriteUint64("serverMagic", ServerMagic) \o WriteUint64("version", Version(e.minor[c]))
                               /\ s = Send(w) /\ d = Do("hello")
      BY Zenon
    <3>2. IsSeq(v) /\ IsSeq(s) /\ IsSeq(d)
      BY <3>1, Parts
    <3>3. PICK u : u = <<i>>
      BY Zenon
    <3>4. IsSeq(u)
      <4>1. Require("clientMagic", ClientMagic) = u
        BY <3>1, <3>3 DEF Require
      <4>2. QED
        BY <4>1, Parts
    <3>5. u # <<>> /\ Head(u) = i
      BY <3>3
    <3>6. PICK q1, q2, q : q1 = u \o v /\ q2 = q1 \o s /\ q = q2 \o d
      BY Zenon
    <3>7. IsSeq(q1) /\ q1 # <<>> /\ Head(q1) = i
      BY <3>2, <3>4, <3>5, <3>6, Join
    <3>8. IsSeq(q2) /\ q2 # <<>> /\ Head(q2) = i
      BY <3>2, <3>6, <3>7, Join
    <3>9. Head(q) = i
      BY <3>2, <3>6, <3>8, Join
    <3>10. DaemonStart(e, c) = q
      BY <3>1, <3>3, <3>6 DEF DaemonStart, Require
    <3>11. Head(q).k = "require"
      BY <3>1, <3>9 DEF Ins
    <3>12. Head(DaemonStart(e, c)).k = "require"
      BY <3>10, <3>11
    <3>13. QED
      BY <3>12, Named
  <2>2. ClientStart # Do("leave")
    <3>1. PICK w, r, v, d : /\ w = WriteUint64("clientMagic", ClientMagic) /\ r = Require("serverMagic", ServerMagic)
                            /\ v = ReadVersion /\ d = Do("hello")
      OBVIOUS
    <3>2. IsSeq(r) /\ IsSeq(v) /\ IsSeq(d) /\ IsSeq(Send(w))
      BY <3>1, Parts
    <3>3. PICK s, q1, q2, q : s = Send(w) /\ q1 = s \o r /\ q2 = q1 \o v /\ q = q2 \o d
      BY Zenon
    <3>4. IsSeq(s) /\ s # <<>> /\ Head(s).k = "write"
      <4>1. PICK z : z = <<>>
        OBVIOUS
      <4>2. IsSeq(z) /\ IsSeq(s)
        BY <3>2, <3>3, <4>1, Nil
      <4>3. s \o z = s
        BY <4>1, <4>2, Join
      <4>4. PICK p : p = Send(w) \o z
        BY Zenon
      <4>5. p # <<>> /\ Head(p).k = "write"
        BY <4>2, <4>4, SendHead, Zenon
      <4>6. p = s
        BY <3>3, <4>3, <4>4
      <4>7. QED
        BY <4>2, <4>5, <4>6
    <3>5. IsSeq(q1) /\ q1 # <<>> /\ Head(q1) = Head(s)
      BY <3>2, <3>3, <3>4, Join
    <3>6. IsSeq(q2) /\ q2 # <<>> /\ Head(q2) = Head(s)
      BY <3>2, <3>3, <3>5, Join
    <3>7. Head(q) = Head(s)
      BY <3>2, <3>3, <3>6, Join
    <3>8. ClientStart = q
      BY <3>1, <3>3 DEF ClientStart
    <3>10. Head(ClientStart).k = "write"
      BY <3>4, <3>7, <3>8
    <3>11. QED
      BY <3>10, Named
  <2>3. QED
    BY <2>1, <2>2
<1>13. <<>> # Do("leave")
  BY Named
<1>14. Shape
  <2>1. /\ DOMAIN todo = Party /\ DOMAIN mem = Party
        /\ DOMAIN version = Link /\ DOMAIN buf = Link /\ DOMAIN wire = Link
    BY DEF WireInit
  <2>2. phase \in DOMAIN At
    BY <1>3, <1>11 DEF At
  <2>3. QED
    BY <1>11, <2>1, <2>2 DEF Shape
<1>15. Facts
  <2>1. IsMem(Nothing) /\ Nothing.outs = {} /\ Nothing.fields = <<>>
    BY NothingKnown
  <2>2. IsMem(Asked) /\ Asked.fields = <<>>
    BY AskedKnown
  <2>3. IsSeq(<<>>)
    BY Nil
  <2>4. Sound(C[2].outs, registered)
    BY <1>10, <2>1 DEF Sound
  <2>5. ClientFacts(e, registered, answer, closed, C)
    BY <1>3, <1>10, <1>11, <1>12, <1>13, <2>1, <2>4, Zenon DEF ClientFacts
  <2>6. DaemonFacts("builder", closed, B) /\ DaemonFacts("store", closed, S)
    BY <1>10, <1>12 DEF DaemonFacts
  <2>7. IsMem(Knows) /\ IsSeq(Knows.fields)
    BY <1>3, <1>5, <2>1, <2>2, <2>3
  <2>8. QED
    BY <1>1, <1>2, <1>11, <1>14, <2>5, <2>6, <2>7 DEF Facts
<1>16. PICK bm, sm : bm = <<handshakeWithBuilder, Asked>> /\ sm = <<"signing", handshakeWithBuilder, Result(e)>>
  BY Zenon
<1>17. NewBuilder(bm) /\ NewStore(sm) /\ BuilderUp /\ StoreUp
  BY <1>1, <1>11, <1>16 DEF NewBuilder, NewStore, BuilderUp, StoreUp
<1>18. BuilderIn(e, bm, B)
  BY <1>2, <1>9, <1>16, BuilderStarts
<1>19. StoreIn(e, registered, sm, S)
  <2>1. SigningIn(e, handshakeWithBuilder, Result(e), S)
    BY <1>2, <1>9, StoreStarts
  <2>2. QED
    BY <1>16, <2>1 DEF StoreIn
<1>20. CASE e.caller = "client"
  <2>1. PICK cm : cm = <<"opening", Program, Knows>>
    BY Zenon
  <2>2. OpeningIn(e, Program, Knows, C)
    BY <1>2, <1>4, <1>5, <1>9, <1>20, ClientStarts
  <2>3. ClientIn(e, registered, answer, cm, C)
    BY <2>1, <2>2 DEF ClientIn
  <2>4. SOpening(cm, bm, sm)
    BY <1>1, <1>11, <1>17, <1>20, <2>1 DEF SOpening
  <2>5. Plan(cm, bm, sm)
    BY <2>4 DEF Plan
  <2>6. QED
    BY <1>1, <1>15, <1>18, <1>19, <2>3, <2>5 DEF WireInv, Links3
<1>21. CASE e.caller = "job"
  <2>1. PICK cm : cm = <<"gone">>
    BY Zenon
  <2>2. ClientIn(e, registered, answer, cm, C)
    BY <1>10, <1>21, <2>1 DEF ClientIn
  <2>3. SStart(cm, bm, sm)
    BY <1>1, <1>4, <1>5, <1>11, <1>17, <1>21, <2>1 DEF SStart
  <2>4. Plan(cm, bm, sm)
    BY <2>3 DEF Plan
  <2>5. QED
    BY <1>1, <1>15, <1>18, <1>19, <2>2, <2>4 DEF WireInv, Links3
<1>22. QED
  BY <1>3, <1>20, <1>21

\* What the other ends are like does not change.
LEMMA EnvFixed ==
  ASSUME [WireNext]_wvars
  PROVE  env' = env
<1>1. ASSUME NEW p, Step(p) PROVE env' = env
  BY <1>1, Zenon DEF Step, Read, ReadFails, WriteWords, FlushWords, Control, others
<1>2. ASSUME ProxyDo PROVE env' = env
  BY <1>2 DEF ProxyDo, Handshake, PostHandshake, NextOp, EndSession, HandleOp, GetBuilder, sendSetOptions, ExecuteBuild,
              BuildDone, BuildFailed, NextOutput, SignPath, ShowSignature, ReplyToClient, ReleaseBuilder, TaskReturns, others
<1>3. ASSUME AbortBuild \/ AbortJob PROVE env' = env
  BY <1>3 DEF AbortBuild, AbortJob
<1>4. ASSUME NEW c \in Conn, PeerNext(c) \/ Die(c) \/ Hang(c) PROVE env' = env
  BY <1>1, <1>4 DEF PeerNext, ClientDo, DaemonDo, Register, Leave, Die, Hang, others
<1>5. CASE WireNext
  BY <1>1, <1>2, <1>3, <1>4, <1>5 DEF WireNext, ProxyNext
<1>6. CASE UNCHANGED wvars
  BY <1>6 DEF wvars
<1>7. QED
  BY <1>5, <1>6

\* Nothing changes when nobody does anything.
LEMMA WireStutters ==
  ASSUME WireInv, UNCHANGED wvars
  PROVE  WireInv'
<1>1. PICK cm, bm, sm : Plan(cm, bm, sm) /\ Links3(cm, bm, sm)
  BY DEF WireInv
<1>2. Facts
  BY DEF WireInv
<1>3. UNCHANGED <<env, cancelled, todo, mem, version, buf, wire, closed, phase, toSign, registered, answer, misread>>
  BY DEF wvars, ends
<1>4. Shape' /\ (\A c \in Conn : ConvOf(c)' = ConvOf(c)) /\ Program' = Program /\ Knows' = Knows
  <2>1. Shape
    BY <1>2 DEF Facts
  <2>2. cancelled' \in BOOLEAN
    BY <1>3, <2>1 DEF Shape
  <2>3. UNCHANGED <<ends, misread, env, phase, toSign, registered, answer>>
    BY <1>3 DEF ends
  <2>4. QED
    BY <2>1, <2>2, <2>3, AbortSame
<1>5. ConvOf("client")' = ConvOf("client") /\ ConvOf("builder")' = ConvOf("builder") /\ ConvOf("store")' = ConvOf("store")
  BY <1>4 DEF Conn
<1>6. Facts'
  BY <1>2, <1>3, <1>4, <1>5 DEF Facts
<1>7. Links3(cm, bm, sm)'
  BY <1>1, <1>3, <1>5 DEF Links3
<1>8. (BuilderUp => BuilderUp') /\ (StoreUp => StoreUp')
  BY <1>3, <1>5 DEF BuilderUp, StoreUp
<1>9. PeerOnly
  BY <1>3, <1>4, <1>8 DEF PeerOnly
<1>10. Plan(cm, bm, sm)'
  BY <1>1, <1>3, <1>9, PlanPeers
<1>11. QED
  BY <1>6, <1>7, <1>10 DEF WireInv

-----------------------------------------------------------------------------
(* What follows *)

\* The invariant of the sessions in which every peer can talk to the proxy.
RInv == Regular => WireInv

\* The outputs of a derivation are numbered from one.
LEMMA OutputsNumbered ==
  /\ IsFiniteSet(Outputs) /\ 0 \notin Outputs /\ Environments \subseteq Environment
<1>1. IsFiniteSet(Outputs) /\ Outputs = 1..Cardinality(Outputs) /\ Environments \subseteq Environment
  BY WireAssumption
<1>2. PICK n : n = Cardinality(Outputs)
  OBVIOUS
<1>3. n \in Nat
  BY <1>1, <1>2, FS_CardinalityType
<1>4. 0 \notin 1..n
  BY <1>3
<1>5. QED
  BY <1>1, <1>2, <1>4, Zenon

\* In a session whose peers have version 1.38 or later, and whose store host
\* does not end AddSignatures by a word, the invariant holds in every state.
THEOREM WireInvariant == WireSpec => []RInv
<1>1. WireInit => RInv
  BY WireInitInv, OutputsNumbered DEF RInv
<1>2. RInv /\ [WireNext]_wvars => RInv'
  <2>1. SUFFICES ASSUME RInv, [WireNext]_wvars, Regular' PROVE WireInv'
    BY DEF RInv
  <2>2. env' = env
    BY <2>1, EnvFixed
  <2>3. Regular
    BY <2>1, <2>2 DEF Regular, Modern
  <2>4. WireInv
    BY <2>1, <2>3 DEF RInv
  <2>5. CASE WireNext
    BY <2>3, <2>4, <2>5, OutputsNumbered, WireNextInv
  <2>6. CASE UNCHANGED wvars
    BY <2>4, <2>6, WireStutters
  <2>7. QED
    BY <2>1, <2>5, <2>6
<1>3. QED
  BY <1>1, <1>2, PTL DEF WireSpec

\* In such a session no end takes a word for another field than its writer
\* wrote, on any of the three connections, and both ends of a connection go by
\* the same version, whatever is reported, logged, or fails.
THEOREM WordsInStep == WireSpec => [](Regular => InStep)
<1>1. RInv => (Regular => InStep)
  <2>1. SUFFICES ASSUME WireInv PROVE InStep
    BY DEF RInv
  <2>2. Facts
    BY <2>1 DEF WireInv
  <2>3. misread = {}
    BY <2>2 DEF Facts
  <2>4. ASSUME NEW c \in Conn PROVE ConvOf(c)[3] \in {0, Full} /\ ConvOf(c)[6] \in {0, Full}
    BY <2>2, <2>4 DEF Facts, ClientFacts, DaemonFacts, Conn
  <2>5. \A c \in Conn : version[<<c, "proxy">>] \in {0, Full} /\ version[<<"proxy", c>>] \in {0, Full}
    BY <2>4, Zenon DEF ConvOf
  <2>6. QED
    BY <2>3, <2>5 DEF InStep
<1>2. QED
  BY <1>1, WireInvariant, PTL

\* The caller, client or job, gets the status, the CPU times and the outputs
\* that the builder reported; and an error only when no builder could be supplied,
\* the builder reported one, a peer died or fell silent, or the job was cancelled.
THEOREM CallerTold == WireSpec => [](Regular => AnswerTrue)
<1>1. RInv => (Regular => AnswerTrue)
  <2>1. SUFFICES ASSUME WireInv PROVE AnswerTrue
    BY DEF RInv
  <2>2. Facts
    BY <2>1 DEF WireInv
  <2>3. ConvOf("client")[2] = mem["client"]
    BY DEF ConvOf
  <2>4. PICK got : got = mem[IF env.caller = "job" THEN "proxy" ELSE "client"]
    OBVIOUS
  <2>5. answer = "result" => GotOK(env, got)
    <3>1. env.caller = "client" \/ env.caller = "job"
      BY <2>2 DEF Facts, Environment
    <3>2. env.caller = "client" => got = mem["client"]
      BY <2>4
    <3>3. env.caller = "job" => got = Knows
      BY <2>4 DEF Knows
    <3>4. QED
      BY <2>2, <2>3, <3>1, <3>2, <3>3 DEF Facts, ClientFacts
  <2>6. answer = "error" => Excuse(env, cancelled)
    BY <2>2 DEF Facts
  <2>7. QED
    BY <2>4, <2>5, <2>6 DEF AnswerTrue, GotOK, Names, Excuse
<1>2. QED
  BY <1>1, WireInvariant, PTL

=============================================================================
