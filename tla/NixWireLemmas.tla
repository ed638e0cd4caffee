---------------------------- MODULE NixWireLemmas ----------------------------
(***************************************************************************)
(* What the proofs about NixWire rest on: a calculus of what a reader does *)
(* with the words of a message, the formats read back as they were         *)
(* written, for any version and any number of outputs, and the             *)
(* conversations of the proxy with the client, the builder and the store   *)
(* host as two programs that take turns.                                   *)
(***************************************************************************)
EXTENDS NixWire, SequenceTheorems, FiniteSetTheorems, WellFoundedInduction,
        TLAPS

\* Induction over the naturals, with the induction predicate as a set.
LEMMA SetInduction ==
  ASSUME NEW T, 0 \in T, \A n \in Nat : n \in T => n + 1 \in T
  PROVE  \A n \in Nat : n \in T
<1> DEFINE R == {ss \in Nat \X Nat : ss[1] < ss[2]}
<1> SUFFICES ASSUME Nat \ T # {} PROVE FALSE
  OBVIOUS
<1>1. OpToRel(<, Nat) = R
  BY Zenon DEF OpToRel
<1>2. IsWellFoundedOn(R, Nat)
  BY <1>1, NatLessThanWellFounded, Zenon
<1> HIDE DEF R
<1>3. PICK x \in Nat \ T : \A y \in Nat \ T : ~ (<<y, x>> \in R)
  BY <1>2, WFMin
<1>4. \A y, z \in Nat : y < z => <<y, z>> \in R
  BY DEF R
<1>5. x # 0 /\ x - 1 \in Nat /\ x - 1 < x
  OBVIOUS
<1>6. x - 1 \in T
  BY <1>3, <1>4, <1>5
<1>7. QED
  BY <1>5, <1>6

-----------------------------------------------------------------------------
(* Sequences of words and of instructions *)

IsSeq(s) == \E T : s \in Seq(T)

\* Two sequences are sequences over a common set.
LEMMA SeqPair ==
  ASSUME NEW s, NEW t, IsSeq(s), IsSeq(t)
  PROVE  \E T : s \in Seq(T) /\ t \in Seq(T)
<1>1. PICK S : s \in Seq(S)
  BY DEF IsSeq
<1>2. PICK T : t \in Seq(T)
  BY DEF IsSeq
<1>3. s \in Seq(S \union T) /\ t \in Seq(S \union T)
  BY <1>1, <1>2, SeqMonotonic
<1>4. QED
  BY <1>3

\* Three sequences are sequences over a common set.
LEMMA SeqTriple ==
  ASSUME NEW s, NEW t, NEW u, IsSeq(s), IsSeq(t), IsSeq(u)
  PROVE  \E T : s \in Seq(T) /\ t \in Seq(T) /\ u \in Seq(T)
<1>1. PICK S : s \in Seq(S) /\ t \in Seq(S)
  BY SeqPair
<1>2. PICK T : u \in Seq(T)
  BY DEF IsSeq
<1>3. s \in Seq(S \union T) /\ t \in Seq(S \union T) /\ u \in Seq(S \union T)
  BY <1>1, <1>2, SeqMonotonic
<1>4. QED
  BY <1>3

\* A sequence of one element.
LEMMA One ==
  ASSUME NEW x
  PROVE  /\ IsSeq(<<x>>) /\ <<x>> # <<>> /\ Len(<<x>>) = 1
         /\ Head(<<x>>) = x /\ Tail(<<x>>) = <<>> /\ <<x>>[1] = x
<1>1. <<x>> \in Seq({x})
  OBVIOUS
<1>2. IsSeq(<<x>>)
  BY <1>1, Zenon DEF IsSeq
<1>3. /\ <<x>> # <<>> /\ Len(<<x>>) = 1
      /\ Head(<<x>>) = x /\ Tail(<<x>>) = <<>> /\ <<x>>[1] = x
  OBVIOUS
<1>4. QED
  BY <1>2, <1>3

\* The empty sequence is one, of no elements.
LEMMA Nil == IsSeq(<<>>) /\ Len(<<>>) = 0
<1>1. <<>> \in Seq({})
  OBVIOUS
<1>2. QED
  BY <1>1 DEF IsSeq

\* Joining sequences, and what the result begins with.
LEMMA Join ==
  ASSUME NEW s, NEW t, IsSeq(s), IsSeq(t)
  PROVE  /\ IsSeq(s \o t) /\ Len(s \o t) = Len(s) + Len(t)
         /\ <<>> \o t = t /\ s \o <<>> = s
         /\ s # <<>> => /\ s \o t # <<>> /\ Head(s \o t) = Head(s)
                        /\ Tail(s \o t) = Tail(s) \o t
                        /\ IsSeq(Tail(s))
         /\ s \o t = <<>> => s = <<>> /\ t = <<>>
<1>1. PICK T : s \in Seq(T) /\ t \in Seq(T)
  BY SeqPair
<1>2. s \o t \in Seq(T) /\ Len(s \o t) = Len(s) + Len(t)
  BY <1>1
<1>3. <<>> \o t = t /\ s \o <<>> = s
  BY <1>1
<1>4. ASSUME s # <<>>
      PROVE  /\ s \o t # <<>> /\ Head(s \o t) = Head(s)
             /\ Tail(s \o t) = Tail(s) \o t /\ Tail(s) \in Seq(T)
  BY <1>1, <1>4
<1>5. s \o t = <<>> => s = <<>> /\ t = <<>>
  BY <1>1
<1>6. QED
  BY <1>2, <1>3, <1>4, <1>5 DEF IsSeq

\* It does not matter which of three messages are joined first.
LEMMA JoinAssoc ==
  ASSUME NEW s, NEW t, NEW u, IsSeq(s), IsSeq(t), IsSeq(u)
  PROVE  (s \o t) \o u = s \o (t \o u)
<1>1. PICK T : s \in Seq(T) /\ t \in Seq(T) /\ u \in Seq(T)
  BY SeqTriple
<1>2. QED
  BY <1>1

\* The same, as a property of the three messages.
Assoc(s, t, u) == (s \o t) \o u = s \o (t \o u)

\* Joining is associative, in the form that is cited.
LEMMA JoinAssoc3 ==
  ASSUME NEW s, NEW t, NEW u, IsSeq(s), IsSeq(t), IsSeq(u)
  PROVE  Assoc(s, t, u)
BY JoinAssoc, SMTT(30) DEF Assoc

\* A joined sequence begins with the first one, to the last element.
LEMMA JoinPrefix ==
  ASSUME NEW s, NEW t, IsSeq(s), IsSeq(t), NEW n \in Nat, n <= Len(s)
  PROVE  /\ \A k \in 1..n : (s \o t)[k] = s[k]
         /\ Len(s) \in Nat /\ n <= Len(s \o t)
         /\ SubSeq(s \o t, n + 1, Len(s \o t)) = SubSeq(s, n + 1, Len(s)) \o t
         /\ IsSeq(SubSeq(s, n + 1, Len(s)))
<1>1. PICK T : s \in Seq(T) /\ t \in Seq(T)
  BY SeqPair
<1> DEFINE st == s \o t
           a == SubSeq(st, n + 1, Len(st))
           b == SubSeq(s, n + 1, Len(s))
           c == b \o t
<1>2. /\ st \in Seq(T) /\ Len(st) = Len(s) + Len(t)
      /\ Len(s) \in Nat /\ Len(t) \in Nat
      /\ \A i \in 1..(Len(s) + Len(t)) : st[i] = IF i <= Len(s) THEN s[i] ELSE t[i - Len(s)]
  BY <1>1, ConcatProperties, LenProperties
<1>3. /\ b \in Seq(T) /\ Len(b) = Len(s) - n
      /\ \A i \in 1..(Len(s) - n) : b[i] = s[n + i]
  <2>1. \A i \in (n + 1)..Len(s) : s[i] \in T
    BY <1>1, <1>2, ElementOfSeq
  <2>2. /\ b \in Seq(T)
        /\ Len(b) = IF n + 1 <= Len(s) THEN Len(s) - (n + 1) + 1 ELSE 0
        /\ \A i \in 1..(Len(s) - (n + 1) + 1) : b[i] = s[(n + 1) + i - 1]
    BY <1>2, <2>1, SubSeqProperties
  <2> HIDE DEF b
  <2>3. QED
    BY <1>2, <2>2
<1>4. /\ a \in Seq(T) /\ Len(a) = Len(s) + Len(t) - n
      /\ \A i \in 1..(Len(s) + Len(t) - n) : a[i] = st[n + i]
  <2>1. \A i \in (n + 1)..Len(st) : st[i] \in T
    BY <1>2, ElementOfSeq
  <2>2. /\ a \in Seq(T)
        /\ Len(a) = IF n + 1 <= Len(st) THEN Len(st) - (n + 1) + 1 ELSE 0
        /\ \A i \in 1..(Len(st) - (n + 1) + 1) : a[i] = st[(n + 1) + i - 1]
    BY <1>2, <2>1, SubSeqProperties
  <2> HIDE DEF a, st
  <2>3. Len(a) = Len(s) + Len(t) - n
    BY <1>2, <2>2
  <2>4. ASSUME NEW i \in 1..(Len(s) + Len(t) - n) PROVE a[i] = st[n + i]
    <3>1. i \in 1..(Len(st) - (n + 1) + 1) /\ (n + 1) + i - 1 = n + i
      BY <1>2
    <3>2. a[i] = st[(n + 1) + i - 1]
      BY <2>2, <3>1
    <3>3. QED
      BY <3>1, <3>2
  <2>5. QED
    BY <2>2, <2>3, <2>4, Zenon
<1>5. /\ c \in Seq(T) /\ Len(c) = Len(b) + Len(t)
      /\ \A i \in 1..(Len(b) + Len(t)) : c[i] = IF i <= Len(b) THEN b[i] ELSE t[i - Len(b)]
  BY <1>1, <1>3, ConcatProperties
<1>6. a = c
  <2> HIDE DEF a, b, c, st
  <2>1. Len(a) = Len(c)
    BY <1>2, <1>3, <1>4, <1>5
  <2>2. ASSUME NEW i \in 1..Len(a) PROVE a[i] = c[i]
    <3>1. a[i] = st[n + i] /\ n + i \in 1..(Len(s) + Len(t))
      BY <1>2, <1>4
    <3>2. CASE i <= Len(b)
      <4>1. c[i] = b[i] /\ b[i] = s[n + i]
        BY <1>2, <1>3, <1>4, <1>5, <3>2
      <4>2. st[n + i] = s[n + i]
        BY <1>2, <1>3, <3>1, <3>2
      <4>3. QED
        BY <3>1, <4>1, <4>2
    <3>3. CASE ~(i <= Len(b))
      <4>1. c[i] = t[i - Len(b)] /\ i - Len(b) = (n + i) - Len(s)
        BY <1>2, <1>3, <1>4, <1>5, <3>3
      <4>2. st[n + i] = t[(n + i) - Len(s)]
        BY <1>2, <1>3, <3>1, <3>3
      <4>3. QED
        BY <3>1, <4>1, <4>2, Zenon
    <3>4. QED
      BY <3>2, <3>3
  <2>3. QED
    BY <1>4, <1>5, <2>1, <2>2, SeqEqual, Zenon
<1>7. IsSeq(b)
  BY <1>3, Zenon DEF IsSeq
<1>8. \A k \in 1..n : st[k] = s[k]
  <2> HIDE DEF st
  <2>1. QED
    BY <1>2
<1>9. n <= Len(st)
  <2> HIDE DEF st
  <2>1. QED
    BY <1>2
<1>10. QED
  BY <1>2, <1>6, <1>7, <1>8, <1>9, Zenon

\* A sequence with an element.
LEMMA NonEmpty ==
  ASSUME NEW s, IsSeq(s)
  PROVE  Len(s) \in Nat /\ (s # <<>> <=> Len(s) >= 1)
<1>1. PICK T : s \in Seq(T)
  BY DEF IsSeq
<1>2. QED
  BY <1>1


\* The last word is not the length of a string whose characters are missing.
Whole(w) == w = <<>> \/ w[Len(w)].n # 8

-----------------------------------------------------------------------------
(* A party and its words *)

\* The version that two ends of 1.38 or later negotiate.
Full == Version(ProtocolVersionMinor)

\* The parties x = <<role, K>>: a peer, or the proxy as its other end.
Own(e, x) ==
  Version(IF x[1] \in Conn THEN e.minor[x[1]]
          ELSE IF x[1] \in {"reader", "done"} THEN e.minor["client"] ELSE ProtocolVersionMinor)

\* A party at the program p with the memory a, that goes by the version v, and
\* the words w that it has yet to read, or to write.
St(p, a, v, w) == <<p, a, v, w>>

\* The words u are what the read i takes, written as the field that i reads.
Unit(i, u) ==
  \/ \E y : /\ u = <<y>> /\ y.f = i.f /\ (i.k = "str" => y.n = 0)
            /\ ~Refused(i, y.n)
  \/ \E y, z : /\ u = <<y, z>> /\ y.f = i.f /\ z.f = i.f /\ y.n = 8
               /\ i.k = "str"

\* What a party x = <<role, K>> may learn: a result of a build only if it is its
\* turn to, and a client that gets its answer only the realisations of K.
Results == {"status", "cpuUser", "json", "outPath"}

Learns(x) == x[1] \notin {"client", "done", "toSigning", "toStore"}

Minds(x, f, y) ==
  f \in Results => Learns(x) /\ (x[1] = "reader" /\ f = "json" => <<y.o, y.s>> \in x[2])

\* A read.
Takes1(e, x, s, t) ==
  LET i == Head(s[1])
  IN \E u, r :
       LET go == Continue(i, u[1].n, MinorOf(s[3]))
       IN /\ i.k \in Reads /\ Unit(i, u) /\ s[4] = u \o r /\ IsSeq(r)
          /\ i.k = "version" => Negotiated(Own(e, x), u[1].n) = Full
          /\ Minds(x, i.f, u[Len(u)])
          /\ IsSeq(go)
          /\ t = St(go \o Tail(s[1]), Learn(s[2], i, u[Len(u)]),
                    IF i.k = "version" THEN Full ELSE s[3], r)

\* A round of a loop.
Loops1(s, t) ==
  LET i == Head(s[1])
      x == When(i.n > 0, i.x \o Loop(i.n - 1, i.x))
  IN /\ i.k = "loop" /\ IsSeq(x)
     /\ t = St(x \o Tail(s[1]), s[2], s[3], s[4])

Events == {"next", "start", "stop", "result"}

Forwards1(s, t) ==
  /\ Head(s[1]).k = "forward" /\ Head(s[1]).f \in Events
  /\ t = St(Tail(s[1]), s[2], s[3], s[4])

\* What a single instruction reads is one word, or the two of a string.
LEMMA UnitSeq ==
  ASSUME NEW i, NEW u, Unit(i, u)
  PROVE  /\ IsSeq(u) /\ u # <<>> /\ Len(u) \in {1, 2}
         /\ Len(u) = 1 => u = <<u[1]>> /\ u[1].f = i.f
                          /\ (i.k = "str" => u[1].n = 0)
                          /\ ~Refused(i, u[1].n)
         /\ Len(u) = 2 => u = <<u[1], u[2]>> /\ u[1].f = i.f /\ u[2].f = i.f
                          /\ u[1].n = 8 /\ i.k = "str"
<1>1. CASE \E y : /\ u = <<y>> /\ y.f = i.f /\ (i.k = "str" => y.n = 0)
                  /\ ~Refused(i, y.n)
  <2>1. PICK y : /\ u = <<y>> /\ y.f = i.f /\ (i.k = "str" => y.n = 0)
                 /\ ~Refused(i, y.n)
    BY <1>1
  <2>2. IsSeq(u) /\ u # <<>> /\ Len(u) = 1 /\ u[1] = y
    BY <2>1, One
  <2>3. QED
    BY <2>1, <2>2
<1>2. CASE \E y, z : /\ u = <<y, z>> /\ y.f = i.f /\ z.f = i.f /\ y.n = 8
                     /\ i.k = "str"
  <2>1. PICK y, z : /\ u = <<y, z>> /\ y.f = i.f /\ z.f = i.f /\ y.n = 8
                    /\ i.k = "str"
    BY <1>2
  <2>2. u \in Seq({y, z}) /\ u # <<>> /\ Len(u) = 2 /\ u[1] = y /\ u[2] = z
    BY <2>1
  <2>3. IsSeq(u)
    BY <2>2 DEF IsSeq
  <2>4. QED
    BY <2>1, <2>2, <2>3
<1>3. QED
  BY <1>1, <1>2 DEF Unit

\* A part of the program that follows without another connection taking part.
Enters(e, x, p, a, v, q) ==
  LET m == MinorOf(v)
  IN \/ /\ x[1] \in {"client", "reader", "done"} /\ p = Do("hello") /\ q = ClientHello(e, m)
     \/ /\ x[1] \in {"builder", "store"}
        /\ \E l \in DaemonParts : p = Do(l) /\ q = DaemonServes(e, l, m, a)
     \/ /\ x[1] = "toClient"
        /\ \/ p = Do("Handshake") /\ q = ServeHandshake
           \/ p = Do("PostHandshake") /\ q = ServePostHandshake(m)
           \/ p = Do("ReadOp") /\ q = ReadOp
           \/ p = Flush \o Do("ReadOp") /\ q = Do("ReadOp")
           \/ p = Do("Return") /\ q = Do("ReadOp")
           \/ \E l \in {"handleSetOptions", "handleBuildDerivation", "unhandled"} :
                p = Do(l) /\ q = ServeOp(l, m)
     \/ /\ x[1] = "toBuilder"
        /\ \/ p = Do("HandshakeInfo") /\ q = AskOptions(m, "ExecuteBuild")
           \/ p = Do("ExecuteBuild") /\ q = AskBuild(m, a.drv)
     \/ /\ x[1] = "toSigning"
        /\ p = Do("HandshakeInfo") /\ q = AskOptions(m, "NextOutput")
     \/ /\ x[1] = "toStore"
        /\ \/ p = Do("SignPath") /\ a.narHash # 0 /\ q = AskSignature(a)
           \/ p = Do("SignPath") /\ a.narHash = 0 /\ q = Do("NextOutput")

Enters1(e, x, s, t) ==
  /\ Enters(e, x, s[1], s[2], s[3], t[1])
  /\ t = St(t[1], s[2], s[3], s[4])

\* A path info that the store host does not have ends the work on its output.
Refuses1(x, s, t) ==
  /\ x[1] = "toStore" /\ Head(s[1]).k = "nonzero" /\ s[4] # <<>>
  /\ Head(s[4]).f = Head(s[1]).f /\ Head(s[4]).n = 0
  /\ t = St(Do("NextOutput"), s[2], s[3], Tail(s[4]))

\* A write of the words that come next, and a flush that follows or precedes
\* some.  In this mode a fifth component says whether the buffer has words.
Writes1(s, t) ==
  /\ Head(s[1]).k = "write"
  /\ \E r : /\ s[4] = Head(s[1]).x \o r /\ IsSeq(r) /\ IsSeq(Head(s[1]).x)
            /\ Head(s[1]).x # <<>> /\ Whole(Head(s[1]).x)
            /\ t = <<Tail(s[1]), s[2], s[3], r, TRUE>>

Flushes1(s, t) ==
  /\ Head(s[1]).k = "flush" /\ (s[5] \/ s[4] # <<>>)
  /\ t = <<Tail(s[1]), s[2], s[3], s[4], FALSE>>

\* The party x gets from s to t by a step: in the mode "read" of a message, in
\* the mode "hear" until it has to write, in the mode "tell" until it has to
\* read.
Advance(e, x, mode, s, t) ==
  /\ IsSeq(s[1]) /\ IsSeq(s[4]) /\ s[1] # <<>>
  /\ \/ mode \in {"read", "hear"} /\ (Takes1(e, x, s, t) \/ Loops1(s, t) \/ Forwards1(s, t))
     \/ mode = "hear" /\ (Enters1(e, x, s, t) \/ Refuses1(x, s, t))
     \/ /\ mode = "tell"
        /\ \/ Writes1(s, t) \/ Flushes1(s, t)
           \/ /\ Enters(e, x, s[1], s[2], s[3], t[1]) /\ ~s[5]
              /\ t = <<t[1], s[2], s[3], s[4], FALSE>>

\* From s the party gets to g: there is a set of states with s in it that the
\* party leaves in g only.
Reaches(e, x, mode, s, g) ==
  \E S : s \in S /\ \A q \in S : q = g \/ \E r \in S : Advance(e, x, mode, q, r)

\* A run of no step.
LEMMA ReachesNow == \A e, x, mode, s : Reaches(e, x, mode, s, s)
<1> SUFFICES ASSUME NEW e, NEW x, NEW mode, NEW s PROVE Reaches(e, x, mode, s, s)
  OBVIOUS
<1>1. \E S : s \in S /\ \A q \in S : q = s \/ \E r \in S : Advance(e, x, mode, q, r)
  <2>1. PICK S : S = {s}
    BY Zenon
  <2>2. s \in S /\ \A q \in S : q = s
    BY <2>1
  <2>3. QED
    BY <2>2, Zenon
<1>2. QED
  BY <1>1, Zenon DEF Reaches

\* A step, and then the rest.
LEMMA ReachesStep ==
  ASSUME NEW e, NEW x, NEW mode, NEW s, NEW t, NEW g,
         Advance(e, x, mode, s, t), Reaches(e, x, mode, t, g)
  PROVE  Reaches(e, x, mode, s, g)
<1>1. PICK S : t \in S /\ \A q \in S : q = g \/ \E r \in S : Advance(e, x, mode, q, r)
  BY Zenon DEF Reaches
<1> DEFINE T == S \union {s}
<1>2. s \in T /\ \A q \in T : q = g \/ \E r \in T : Advance(e, x, mode, q, r)
  <2>1. s \in T /\ \A q \in S : q \in T
    OBVIOUS
  <2>2. \A q \in T : q \in S \/ q = s
    OBVIOUS
  <2> HIDE DEF T
  <2>3. QED
    BY <1>1, <2>1, <2>2, Zenon
<1>3. QED
  BY <1>2, Zenon DEF Reaches

\* Two runs, one after the other.
LEMMA ReachesThen ==
  ASSUME NEW e, NEW x, NEW mode, NEW s, NEW t, NEW g,
         Reaches(e, x, mode, s, t), Reaches(e, x, mode, t, g)
  PROVE  Reaches(e, x, mode, s, g)
<1>1. PICK S : s \in S /\ \A q \in S : q = t \/ \E r \in S : Advance(e, x, mode, q, r)
  BY Zenon DEF Reaches
<1>2. PICK T : t \in T /\ \A q \in T : q = g \/ \E r \in T : Advance(e, x, mode, q, r)
  BY Zenon DEF Reaches
<1> DEFINE U == S \union T
<1>3. s \in U /\ \A q \in U : q = g \/ \E r \in U : Advance(e, x, mode, q, r)
  <2>1. (\A q \in S : q \in U) /\ (\A q \in T : q \in U) /\ (\A q \in U : q \in S \/ q \in T)
    OBVIOUS
  <2> HIDE DEF U
  <2>2. QED
    BY <1>1, <1>2, <2>1, Zenon
<1>4. QED
  BY <1>3, Zenon DEF Reaches

\* The first step of the way.
LEMMA ReachesFirst ==
  ASSUME NEW e, NEW x, NEW mode, NEW s, NEW g,
         Reaches(e, x, mode, s, g), s # g
  PROVE  \E t : Advance(e, x, mode, s, t) /\ Reaches(e, x, mode, t, g)
<1>1. PICK S : s \in S /\ \A q \in S : q = g \/ \E r \in S : Advance(e, x, mode, q, r)
  BY Zenon DEF Reaches
<1>2. PICK t \in S : Advance(e, x, mode, s, t)
  BY <1>1, Zenon
<1>3. Reaches(e, x, mode, t, g)
  BY <1>1, <1>2, Zenon DEF Reaches
<1>4. QED
  BY <1>2, <1>3, Zenon

\* Reading a message is a part of hearing it.
LEMMA ReadHear ==
  ASSUME NEW e, NEW x, NEW s, NEW g, Reaches(e, x, "read", s, g)
  PROVE  Reaches(e, x, "hear", s, g)
<1>1. PICK S : s \in S /\ \A q \in S : q = g \/ \E r \in S : Advance(e, x, "read", q, r)
  BY Zenon DEF Reaches
<1>2. ASSUME NEW q, NEW r, Advance(e, x, "read", q, r) PROVE Advance(e, x, "hear", q, r)
  BY <1>2 DEF Advance
<1>3. QED
  BY <1>1, <1>2, Zenon DEF Reaches

\* What comes after it, in the program and on the wire, changes nothing about
\* a read.
With(s, p, w) == St(s[1] \o p, s[2], s[3], s[4] \o w)

\* A step does not look at what follows its instruction and its words.
LEMMA AdvanceWith ==
  ASSUME NEW e, NEW x, NEW s, NEW t, Advance(e, x, "read", s, t),
         NEW p, NEW w, IsSeq(p), IsSeq(w)
  PROVE  Advance(e, x, "read", With(s, p, w), With(t, p, w))
<1> DEFINE sw == With(s, p, w)
           i == Head(s[1])
<1>1. /\ sw[1] = s[1] \o p /\ sw[2] = s[2] /\ sw[3] = s[3] /\ sw[4] = s[4] \o w
  BY Zenon DEF With, St
<1>2. /\ IsSeq(s[1]) /\ IsSeq(s[4]) /\ s[1] # <<>>
      /\ Takes1(e, x, s, t) \/ Loops1(s, t) \/ Forwards1(s, t)
  BY DEF Advance
<1>3. /\ IsSeq(s[1] \o p) /\ s[1] \o p # <<>> /\ Head(s[1] \o p) = i
      /\ Tail(s[1] \o p) = Tail(s[1]) \o p /\ IsSeq(Tail(s[1]))
  BY <1>2, Join, Zenon
<1>4. IsSeq(s[4] \o w)
  BY <1>2, Join
<1> HIDE DEF sw
<1>5. /\ IsSeq(sw[1]) /\ IsSeq(sw[4]) /\ sw[1] # <<>> /\ Head(sw[1]) = i
      /\ Tail(sw[1]) = Tail(s[1]) \o p
  BY <1>1, <1>3, <1>4, Zenon
<1>6. CASE Takes1(e, x, s, t)
  <2>1. PICK u, r :
          LET go == Continue(i, u[1].n, MinorOf(s[3]))
          IN /\ i.k \in Reads /\ Unit(i, u) /\ s[4] = u \o r /\ IsSeq(r)
             /\ i.k = "version" => Negotiated(Own(e, x), u[1].n) = Full
             /\ Minds(x, i.f, u[Len(u)])
             /\ IsSeq(go)
             /\ t = St(go \o Tail(s[1]), Learn(s[2], i, u[Len(u)]),
                       IF i.k = "version" THEN Full ELSE s[3], r)
    BY <1>6, Zenon DEF Takes1
  <2> DEFINE go == Continue(i, u[1].n, MinorOf(s[3]))
             a == Learn(s[2], i, u[Len(u)])
             v == IF i.k = "version" THEN Full ELSE s[3]
  <2>2. IsSeq(u)
    BY <2>1, UnitSeq
  <2>3. sw[4] = u \o (r \o w) /\ IsSeq(r \o w)
    <3>1. (u \o r) \o w = u \o (r \o w)
      <4>1. Assoc(u, r, w)
        BY <2>1, <2>2, JoinAssoc3
      <4>2. QED
        BY <4>1 DEF Assoc
    <3>2. IsSeq(r \o w)
      BY <2>1, Join
    <3>3. QED
      BY <1>1, <2>1, <3>1, <3>2
  <2>4. (go \o Tail(s[1])) \o p = go \o Tail(sw[1])
    <3>1. IsSeq(go) /\ IsSeq(Tail(s[1]))
      BY <1>3, <2>1
    <3> HIDE DEF go
    <3>2. (go \o Tail(s[1])) \o p = go \o (Tail(s[1]) \o p)
      <4>1. PICK z : z = Tail(s[1])
        BY Zenon
      <4>2. IsSeq(z) /\ IsSeq(go)
        BY <3>1, <4>1
      <4>3. (go \o z) \o p = go \o (z \o p)
        <5>1. Assoc(go, z, p)
          BY <4>2, JoinAssoc3
        <5>2. QED
          BY <5>1 DEF Assoc
      <4>4. QED
        BY <4>1, <4>3, Zenon
    <3>3. QED
      BY <1>5, <3>2, Zenon
  <2>5. t[1] = go \o Tail(s[1]) /\ t[2] = a /\ t[3] = v /\ t[4] = r
    BY <2>1, Zenon DEF St
  <2>6. With(t, p, w) = St(go \o Tail(sw[1]), a, v, r \o w)
    <3> HIDE DEF go, a, v
    <3>1. QED
      BY <2>4, <2>5, Zenon DEF With
  <2>7. Takes1(e, x, sw, With(t, p, w))
    <3>1. /\ i.k \in Reads /\ Unit(i, u) /\ sw[4] = u \o (r \o w) /\ IsSeq(r \o w)
          /\ i.k = "version" => Negotiated(Own(e, x), u[1].n) = Full
          /\ Minds(x, i.f, u[Len(u)])
          /\ IsSeq(go)
          /\ With(t, p, w) = St(go \o Tail(sw[1]), a, v, r \o w)
      BY <2>1, <2>3, <2>6
    <3>2. QED
      BY <1>1, <1>5, <3>1, Zenon DEF Takes1
  <2>8. QED
    BY <1>5, <2>7 DEF Advance, sw
<1>7. CASE Loops1(s, t)
  <2> DEFINE y == When(i.n > 0, i.x \o Loop(i.n - 1, i.x))
  <2>1. i.k = "loop" /\ IsSeq(y) /\ t = St(y \o Tail(s[1]), s[2], s[3], s[4])
    BY <1>7 DEF Loops1
  <2>2. (y \o Tail(s[1])) \o p = y \o (Tail(s[1]) \o p)
    <3>1. IsSeq(y) /\ IsSeq(Tail(s[1]))
      BY <1>3, <2>1
    <3> HIDE DEF y
    <3>2. PICK z : z = Tail(s[1])
      BY Zenon
    <3>3. IsSeq(z) /\ IsSeq(y)
      BY <3>1, <3>2
    <3>4. (y \o z) \o p = y \o (z \o p)
      <4>1. Assoc(y, z, p)
        BY <3>3, JoinAssoc3
      <4>2. QED
        BY <4>1 DEF Assoc
    <3>5. QED
      BY <3>2, <3>4, Zenon
  <2>3. With(t, p, w) = St(y \o Tail(sw[1]), sw[2], sw[3], sw[4])
    <3> HIDE DEF y
    <3>1. QED
      BY <1>1, <1>5, <2>1, <2>2, Zenon DEF With, St
  <2>4. Loops1(sw, With(t, p, w))
    BY <1>5, <2>1, <2>3 DEF Loops1
  <2>5. QED
    BY <1>5, <2>4 DEF Advance, sw
<1>8. CASE Forwards1(s, t)
  <2>1. With(t, p, w) = St(Tail(sw[1]), sw[2], sw[3], sw[4])
    BY <1>1, <1>5, <1>8, Zenon DEF With, St, Forwards1
  <2>2. Forwards1(sw, With(t, p, w))
    BY <1>1, <1>5, <1>8, <2>1 DEF Forwards1
  <2>3. QED
    BY <1>5, <2>2 DEF Advance, sw
<1>9. QED
  BY <1>2, <1>6, <1>7, <1>8

\* A run does not look at what follows its instructions and its words.
LEMMA ReachesWith ==
  ASSUME NEW e, NEW x, NEW s, NEW g, Reaches(e, x, "read", s, g),
         NEW p, NEW w, IsSeq(p), IsSeq(w)
  PROVE  Reaches(e, x, "read", With(s, p, w), With(g, p, w))
<1>1. PICK S : s \in S /\ \A q \in S : q = g \/ \E r \in S : Advance(e, x, "read", q, r)
  BY Zenon DEF Reaches
<1> DEFINE T == {With(q, p, w) : q \in S}
<1>2. With(s, p, w) \in T /\ \A q \in S : With(q, p, w) \in T
  BY <1>1
<1>3. ASSUME NEW z \in T PROVE z = With(g, p, w) \/ \E r \in T : Advance(e, x, "read", z, r)
  <2>1. PICK q \in S : z = With(q, p, w)
    OBVIOUS
  <2> HIDE DEF T
  <2>2. CASE q = g
    BY <2>1, <2>2
  <2>3. CASE \E r \in S : Advance(e, x, "read", q, r)
    <3>1. PICK r \in S : Advance(e, x, "read", q, r)
      BY <2>3, Zenon
    <3>2. Advance(e, x, "read", With(q, p, w), With(r, p, w))
      BY <3>1, AdvanceWith
    <3>3. QED
      BY <1>2, <2>1, <3>1, <3>2, Zenon
  <2>4. QED
    BY <1>1, <2>2, <2>3, Zenon
<1> HIDE DEF T
<1>4. QED
  BY <1>2, <1>3, Zenon DEF Reaches
-----------------------------------------------------------------------------
(* Messages *)

\* A reader of the version v that knows a reads the words w by the program p,
\* each for what it was written as, to the last word, and knows b then.
Parses(e, x, v, p, w, a, b) ==
  /\ IsSeq(p) /\ IsSeq(w)
  /\ Reaches(e, x, "read", St(p, a, v, w), St(<<>>, b, v, <<>>))

\* No instruction reads no word.
LEMMA ParsesNil == \A e, x, v, a : Parses(e, x, v, <<>>, <<>>, a, a)
BY Nil, ReachesNow DEF Parses

\* One message after the other.
LEMMA ParsesJoin ==
  ASSUME NEW e, NEW x, NEW v, NEW p, NEW w, NEW a, NEW b, NEW q, NEW u, NEW c,
         Parses(e, x, v, p, w, a, b), Parses(e, x, v, q, u, b, c)
  PROVE  Parses(e, x, v, p \o q, w \o u, a, c)
<1>1. /\ IsSeq(p) /\ IsSeq(w) /\ IsSeq(q) /\ IsSeq(u)
      /\ Reaches(e, x, "read", St(p, a, v, w), St(<<>>, b, v, <<>>))
      /\ Reaches(e, x, "read", St(q, b, v, u), St(<<>>, c, v, <<>>))
  BY DEF Parses
<1>2. Reaches(e, x, "read", With(St(p, a, v, w), q, u), With(St(<<>>, b, v, <<>>), q, u))
  BY <1>1, ReachesWith
<1>3. /\ <<>> \o q = q /\ <<>> \o u = u /\ IsSeq(p \o q) /\ IsSeq(w \o u)
  BY <1>1, Join
<1>4. With(St(p, a, v, w), q, u) = St(p \o q, a, v, w \o u)
  BY DEF With, St
<1>5. With(St(<<>>, b, v, <<>>), q, u) = St(q, b, v, u)
  BY <1>3 DEF With, St
<1>6. Reaches(e, x, "read", St(p \o q, a, v, w \o u), St(<<>>, c, v, <<>>))
  BY <1>1, <1>2, <1>4, <1>5, ReachesThen
<1>7. QED
  BY <1>3, <1>6 DEF Parses

\* A part of a message that a condition leaves out, on both sides.
LEMMA ParsesWhen ==
  ASSUME NEW e, NEW x, NEW v, NEW d, NEW p, NEW w, NEW a, NEW b,
         d => Parses(e, x, v, p, w, a, b), ~d => b = a
  PROVE  Parses(e, x, v, When(d, p), When(d, w), a, b)
BY ParsesNil DEF When

\* A read, and what it makes the message go on with.
LEMMA ParsesUnit ==
  ASSUME NEW e, NEW x, NEW v, NEW i, NEW u, NEW w, NEW a, NEW b, NEW go,
         i.k \in Reads, i.k # "version", Unit(i, u), Minds(x, i.f, u[Len(u)]),
         go = Continue(i, u[1].n, MinorOf(v)),
         Parses(e, x, v, go, w, Learn(a, i, u[Len(u)]), b)
  PROVE  Parses(e, x, v, <<i>>, u \o w, a, b)
<1> DEFINE s == St(<<i>>, a, v, u \o w)
           t == St(go, Learn(a, i, u[Len(u)]), v, w)
<1>1. /\ s[1] = <<i>> /\ s[2] = a /\ s[3] = v /\ s[4] = u \o w
  BY DEF St
<1>2. /\ IsSeq(<<i>>) /\ <<i>> # <<>> /\ Head(<<i>>) = i /\ Tail(<<i>>) = <<>>
  BY One
<1>3. IsSeq(u) /\ IsSeq(w) /\ IsSeq(go)
  BY UnitSeq DEF Parses
<1>4. IsSeq(u \o w) /\ go \o <<>> = go
  BY <1>3, Join
<1>5. /\ i.k \in Reads /\ Unit(i, u) /\ s[4] = u \o w /\ IsSeq(w)
      /\ i.k = "version" => Negotiated(Own(e, x), u[1].n) = Full
      /\ Minds(x, i.f, u[Len(u)])
      /\ IsSeq(Continue(i, u[1].n, MinorOf(s[3])))
      /\ t = St(Continue(i, u[1].n, MinorOf(s[3])) \o Tail(s[1]), Learn(s[2], i, u[Len(u)]),
                IF i.k = "version" THEN Full ELSE s[3], w)
  BY <1>1, <1>2, <1>3, <1>4, Zenon
<1>6. Head(s[1]) = i
  BY <1>1, <1>2
<1>7. Takes1(e, x, s, t)
  <2> HIDE DEF s, t
  <2>1. QED
    BY <1>5, <1>6, Zenon DEF Takes1
<1>8. Advance(e, x, "read", s, t)
  <2> HIDE DEF s, t
  <2>1. QED
    BY <1>1, <1>2, <1>4, <1>7 DEF Advance
<1>9. QED
  BY <1>2, <1>4, <1>8, ReachesStep DEF Parses

\* A read after which the message is over.
LEMMA ParsesLast ==
  ASSUME NEW e, NEW x, NEW v, NEW i, NEW u, NEW a,
         i.k \in Reads, i.k # "version", Unit(i, u), Minds(x, i.f, u[Len(u)]),
         Continue(i, u[1].n, MinorOf(v)) = <<>>
  PROVE  Parses(e, x, v, <<i>>, u, a, Learn(a, i, u[Len(u)]))
<1>1. Parses(e, x, v, <<>>, <<>>, Learn(a, i, u[Len(u)]), Learn(a, i, u[Len(u)]))
  BY ParsesNil
<1>2. Parses(e, x, v, <<i>>, u \o <<>>, a, Learn(a, i, u[Len(u)]))
  BY <1>1, ParsesUnit, Zenon
<1>3. u \o <<>> = u
  BY UnitSeq, Join
<1>4. QED
  BY <1>2, <1>3

\* The fields that a reader keeps.
Kept == {"status", "cpuUser", "json", "outPath", "act", "fieldType", "path", "sig",
         "narHash", "narSize"}

\* A reader keeps nothing of the fields that nobody asks for.
LEMMA LearnQuiet ==
  /\ \A a, i, w : i.f \notin Kept => Learn(a, i, w) = a
  /\ \A x, f, y : f \notin Results => Minds(x, f, y)
  /\ \A f : f \notin Kept => f \notin Results
  /\ \A x, f, y : Learns(x) /\ (f = "json" => x[1] # "reader" \/ <<y.o, y.s>> \in x[2]) => Minds(x, f, y)
<1>1. \A a, i, w : i.f \notin Kept => Learn(a, i, w) = a
  BY DEF Kept, Learn
<1>2. \A x, f, y : f \notin Results => Minds(x, f, y)
  BY Zenon DEF Minds
<1>3. \A f : f \notin Kept => f \notin Results
  BY DEF Kept, Results
<1>4. \A x, f, y : Learns(x) /\ (f = "json" => x[1] # "reader" \/ <<y.o, y.s>> \in x[2]) => Minds(x, f, y)
  BY Zenon DEF Minds
<1>5. QED
  BY <1>1, <1>2, <1>3, <1>4, Zenon

\* A word that is read as a number, or required.
LEMMA ParsesWord ==
  ASSUME NEW e, NEW x, NEW v, NEW f, NEW n, NEW k \in {"num", "require", "nonzero"}, NEW y, NEW a,
         y.f = f, k = "require" => y.n = n, k = "nonzero" => y.n # 0, Minds(x, f, y)
  PROVE  Parses(e, x, v, <<Ins(k, f, n, <<>>)>>, <<y>>, a, Learn(a, Ins(k, f, n, <<>>), y))
<1> DEFINE i == Ins(k, f, n, <<>>)
<1>1. i.k = k /\ i.f = f /\ i.n = n
  BY DEF Ins
<1>2. <<y>>[1] = y /\ Len(<<y>>) = 1
  BY One
<1> HIDE DEF i
<1>3. Unit(i, <<y>>)
  BY <1>1 DEF Unit, Refused
<1>4. i.k \in Reads /\ i.k # "version"
  BY <1>1 DEF Reads
<1>5. Continue(i, <<y>>[1].n, MinorOf(v)) = <<>>
  BY <1>1 DEF Continue
<1>6. Parses(e, x, v, <<i>>, <<y>>, a, Learn(a, i, <<y>>[Len(<<y>>)]))
  BY <1>1, <1>2, <1>3, <1>4, <1>5, ParsesLast, LearnQuiet, Zenon
<1>7. QED
  BY <1>2, <1>6 DEF i

\* A number is read as it was written, whatever it is.
LEMMA ParsesNum ==
  ASSUME NEW e, NEW x, NEW v, NEW f, NEW n, NEW a, f \notin Kept
  PROVE  Parses(e, x, v, ReadUint64(f), WriteUint64(f, n), a, a)
<1>1. Word(f, n, 0, 0).f = f /\ Ins("num", f, 0, <<>>).f = f
  BY DEF Word, Ins
<1>2. Parses(e, x, v, <<Ins("num", f, 0, <<>>)>>, <<Word(f, n, 0, 0)>>, a,
             Learn(a, Ins("num", f, 0, <<>>), Word(f, n, 0, 0)))
  BY <1>1, ParsesWord, LearnQuiet, Zenon
<1>3. QED
  BY <1>1, <1>2, LearnQuiet DEF ReadUint64, WriteUint64

\* A flag is read as it was written.
LEMMA ParsesBool ==
  ASSUME NEW e, NEW x, NEW v, NEW f, NEW b, NEW a, f \notin Kept
  PROVE  Parses(e, x, v, ReadUint64(f), WriteBool(f, b), a, a)
BY ParsesNum DEF WriteBool

\* A word that has to be n is accepted when it is n.
LEMMA ParsesRequire ==
  ASSUME NEW e, NEW x, NEW v, NEW f, NEW n, NEW a, f \notin Kept
  PROVE  Parses(e, x, v, Require(f, n), WriteUint64(f, n), a, a)
<1>1. /\ Word(f, n, 0, 0).f = f /\ Word(f, n, 0, 0).n = n
      /\ Ins("require", f, n, <<>>).f = f
  BY DEF Word, Ins
<1>2. Parses(e, x, v, <<Ins("require", f, n, <<>>)>>, <<Word(f, n, 0, 0)>>, a,
             Learn(a, Ins("require", f, n, <<>>), Word(f, n, 0, 0)))
  BY <1>1, ParsesWord, LearnQuiet, Zenon
<1>3. QED
  BY <1>1, <1>2, LearnQuiet DEF Require, WriteUint64

\* A string, of eight characters or empty.
LEMMA ParsesStringOf ==
  ASSUME NEW e, NEW x, NEW v, NEW f, NEW o, NEW s, NEW a, Minds(x, f, Word(f, Characters, o, s))
  PROVE  Parses(e, x, v, ReadString(f), WriteStringOf(f, o, s), a,
                Learn(a, Ins("str", f, 0, <<>>), Word(f, Characters, o, s)))
<1> DEFINE i == Ins("str", f, 0, <<>>)
           y == Word(f, 8, o, s)
           z == Word(f, Characters, o, s)
           u == <<y, z>>
<1>1. i.k = "str" /\ i.f = f /\ y.f = f /\ z.f = f /\ y.n = 8
  BY DEF Ins, Word
<1>2. u[1] = y /\ u[Len(u)] = z /\ Minds(x, f, z)
  OBVIOUS
<1> HIDE DEF i, y, z
<1>3. Unit(i, u)
  BY <1>1, Zenon DEF Unit
<1> HIDE DEF u
<1>4. i.k \in Reads /\ i.k # "version"
  BY <1>1 DEF Reads
<1>5. Continue(i, u[1].n, MinorOf(v)) = <<>>
  BY <1>1 DEF Continue
<1>6. Parses(e, x, v, <<i>>, u, a, Learn(a, i, u[Len(u)]))
  BY <1>1, <1>2, <1>3, <1>4, <1>5, ParsesLast, LearnQuiet, Zenon
<1>7. QED
  BY <1>2, <1>6 DEF i, u, y, z, ReadString, WriteStringOf

\* A string is read as it was written.
LEMMA ParsesString ==
  ASSUME NEW e, NEW x, NEW v, NEW f, NEW a, f \notin Kept
  PROVE  Parses(e, x, v, ReadString(f), WriteString(f), a, a)
<1>1. Ins("str", f, 0, <<>>).f = f
  BY DEF Ins
<1>2. Minds(x, f, Word(f, Characters, 0, 0))
  BY LearnQuiet
<1>3. Parses(e, x, v, ReadString(f), WriteStringOf(f, 0, 0), a,
             Learn(a, Ins("str", f, 0, <<>>), Word(f, Characters, 0, 0)))
  BY <1>2, ParsesStringOf
<1>4. QED
  BY <1>1, <1>3, LearnQuiet DEF WriteString

\* So is an empty string.
LEMMA ParsesEmpty ==
  ASSUME NEW e, NEW x, NEW v, NEW f, NEW a, f \notin Kept
  PROVE  Parses(e, x, v, ReadString(f), WriteEmpty(f), a, a)
<1> DEFINE i == Ins("str", f, 0, <<>>)
           y == Word(f, 0, 0, 0)
<1>1. i.k = "str" /\ i.f = f /\ y.f = f /\ y.n = 0
  BY DEF Ins, Word
<1>2. <<y>>[1] = y /\ Len(<<y>>) = 1
  BY One
<1> HIDE DEF i, y
<1>3. Unit(i, <<y>>)
  BY <1>1 DEF Unit, Refused, maxReadBytesLength
<1>4. i.k \in Reads /\ i.k # "version"
  BY <1>1 DEF Reads
<1>5. Continue(i, <<y>>[1].n, MinorOf(v)) = <<>>
  BY <1>1 DEF Continue
<1>6. Parses(e, x, v, <<i>>, <<y>>, a, Learn(a, i, <<y>>[Len(<<y>>)]))
  BY <1>1, <1>2, <1>3, <1>4, <1>5, ParsesLast, LearnQuiet, Zenon
<1>7. Learn(a, i, <<y>>[Len(<<y>>)]) = a
  BY <1>1, LearnQuiet
<1>8. QED
  BY <1>6, <1>7 DEF i, y, ReadString, WriteEmpty, WriteUint64

\* A flag, and what follows when it is set.
LEMMA ParsesOptional ==
  ASSUME NEW e, NEW x, NEW v, NEW f, NEW n, NEW p, NEW w, NEW a, NEW b, f \notin Kept,
         n # 0 => Parses(e, x, v, p, w, a, b), n = 0 => b = a
  PROVE  Parses(e, x, v, Optional(f, p), WriteUint64(f, n) \o When(n # 0, w), a, b)
<1> DEFINE i == Ins("opt", f, 0, p)
           y == Word(f, n, 0, 0)
<1>1. i.k = "opt" /\ i.f = f /\ i.x = p /\ y.f = f /\ y.n = n
  BY DEF Ins, Word
<1>2. <<y>>[1] = y /\ Len(<<y>>) = 1
  BY One
<1> HIDE DEF i, y
<1>3. Unit(i, <<y>>)
  BY <1>1 DEF Unit, Refused
<1>4. i.k \in Reads /\ i.k # "version"
  BY <1>1 DEF Reads
<1>5. Continue(i, <<y>>[1].n, MinorOf(v)) = When(n # 0, p)
  BY <1>1, <1>2 DEF Continue
<1>6. Learn(a, i, <<y>>[Len(<<y>>)]) = a
  BY <1>1, LearnQuiet
<1>7. Parses(e, x, v, When(n # 0, p), When(n # 0, w), a, b)
  BY ParsesWhen, Zenon
<1>8. Parses(e, x, v, <<i>>, <<y>> \o When(n # 0, w), a, b)
  BY <1>1, <1>3, <1>4, <1>5, <1>6, <1>7, ParsesUnit, LearnQuiet
<1>9. QED
  BY <1>8 DEF i, y, Optional, WriteUint64

\* F[k] is the first k messages of ws, one after the other.
Unfolds(F, ws, n) ==
  /\ FlattenSeq(ws) = F[n] /\ F[0] = <<>>
  /\ \A k \in 0..n : IsSeq(F[k])
  /\ \A k \in 1..n : F[k] = F[k - 1] \o ws[k]

\* The messages of a sequence can be joined one by one.
LEMMA FlattenUnfolds ==
  ASSUME NEW n \in Nat, NEW ws, IsSeq(ws), Len(ws) = n, \A k \in 1..n : IsSeq(ws[k])
  PROVE  \E F : Unfolds(F, ws, n)
<1> DEFINE Body(g, k) == IF k = 1 THEN ws[k] ELSE g[k - 1] \o ws[k]
           T == {m \in Nat : \E g : g = [k \in 1..m |-> Body(g, k)]}
<1>1. 0 \in T
  <2>1. PICK g : g = [k \in 1..0 |-> 0]
    OBVIOUS
  <2>2. [k \in 1..0 |-> Body(g, k)] = g
    <3>1. 1..0 = {}
      OBVIOUS
    <3>2. QED
      BY <2>1, <3>1
  <2>3. QED
    BY <2>2, Zenon
<1>2. ASSUME NEW m \in Nat, m \in T PROVE m + 1 \in T
  <2>1. PICK g : g = [k \in 1..m |-> Body(g, k)]
    BY <1>2, Zenon
  <2>2. \A k \in 1..m : g[k] = Body(g, k)
    <3> HIDE DEF Body
    <3>1. QED
      BY <2>1
  <2> DEFINE h == [k \in 1..(m + 1) |-> IF k <= m THEN g[k] ELSE Body(g, m + 1)]
  <2>3. \A k \in 1..(m + 1) : h[k] = Body(h, k)
    <3> SUFFICES ASSUME NEW k \in 1..(m + 1) PROVE h[k] = Body(h, k)
      BY Zenon
    <3>1. k # 1 => h[k - 1] = g[k - 1]
      OBVIOUS
    <3>2. k <= m => g[k] = Body(g, k)
      <4> HIDE DEF Body
      <4>1. QED
        BY <2>2
    <3>3. h[k] = Body(g, k)
      BY <3>2
    <3> HIDE DEF h
    <3>4. QED
      BY <3>1, <3>3
  <2>4. h = [k \in 1..(m + 1) |-> Body(h, k)]
    <3>1. h = [k \in 1..(m + 1) |-> h[k]]
      OBVIOUS
    <3> HIDE DEF h
    <3>2. QED
      BY <2>3, <3>1, Zenon
  <2> HIDE DEF h
  <2>5. QED
    <3> HIDE DEF Body
    <3>1. m + 1 \in Nat
      OBVIOUS
    <3>2. QED
      BY <2>4, <3>1, Zenon
<1>3. n \in T
  <2> HIDE DEF T
  <2>1. QED
    BY <1>1, <1>2, SetInduction
<1>4. CASE n = 0
  <2>1. ws = <<>>
    BY <1>4, NonEmpty
  <2>2. FlattenSeq(ws) = <<>>
    BY <1>4, <2>1 DEF FlattenSeq
  <2>3. PICK F : F = [k \in 0..0 |-> <<>>]
    BY Zenon
  <2>4. F[0] = <<>> /\ IsSeq(F[0])
    BY <2>3, Nil
  <2>5. QED
    BY <1>4, <2>2, <2>4 DEF Unfolds
<1>5. CASE n # 0
  <2>1. PICK f : f = [k \in 1..n |-> Body(f, k)] /\ FlattenSeq(ws) = f[n]
    BY <1>3, <1>5, Zenon DEF FlattenSeq
  <2>2. \A k \in 1..n : f[k] = Body(f, k)
    <3> HIDE DEF Body
    <3>1. QED
      BY <2>1
  <2> DEFINE F == [k \in 0..n |-> IF k = 0 THEN <<>> ELSE f[k]]
  <2>3. F[0] = <<>> /\ F[n] = f[n]
    BY <1>5
  <2>4. ASSUME NEW k \in 1..n PROVE F[k] = F[k - 1] \o ws[k]
    <3>1. F[k] = f[k] /\ F[k - 1] = IF k = 1 THEN <<>> ELSE f[k - 1]
      OBVIOUS
    <3>2. f[k] = IF k = 1 THEN ws[k] ELSE f[k - 1] \o ws[k]
      BY <2>2
    <3>3. <<>> \o ws[k] = ws[k]
      BY Nil, Join
    <3> HIDE DEF F
    <3>4. QED
      BY <3>1, <3>2, <3>3, Zenon
  <2> HIDE DEF F
  <2> DEFINE U == {k \in Nat : k <= n => IsSeq(F[k])}
  <2>5. 0 \in U
    BY <2>3, Nil
  <2>6. ASSUME NEW k \in Nat, k \in U PROVE k + 1 \in U
    <3> SUFFICES ASSUME k + 1 <= n PROVE IsSeq(F[k + 1])
      OBVIOUS
    <3>1. k + 1 \in 1..n /\ (k + 1) - 1 = k /\ IsSeq(F[k])
      BY <2>6
    <3>2. F[k + 1] = F[k] \o ws[k + 1] /\ IsSeq(ws[k + 1])
      BY <2>4, <3>1, Zenon
    <3>3. IsSeq(F[k] \o ws[k + 1])
      BY <3>1, <3>2, Join
    <3>4. QED
      BY <3>2, <3>3
  <2>7. \A k \in Nat : k \in U
    <3> HIDE DEF U
    <3>1. QED
      BY <2>5, <2>6, SetInduction
  <2>8. \A k \in 0..n : IsSeq(F[k])
    BY <2>7
  <2>9. QED
    BY <2>1, <2>3, <2>4, <2>8, Zenon DEF Unfolds
<1>6. QED
  BY <1>4, <1>5, Zenon

\* A loop reads as many messages as it has rounds; Ms[k] is what the reader
\* knows after k of them.
LEMMA ParsesLoop ==
  ASSUME NEW e, NEW x, NEW v, NEW p, IsSeq(p), NEW n \in Nat, NEW ws, NEW Ms,
         IsSeq(ws), Len(ws) = n,
         \A k \in 1..n : Parses(e, x, v, p, ws[k], Ms[k - 1], Ms[k])
  PROVE  Parses(e, x, v, Loop(n, p), FlattenSeq(ws), Ms[0], Ms[n])
<1>1. \A k \in 1..n : IsSeq(ws[k])
  BY DEF Parses
<1>2. PICK F : /\ FlattenSeq(ws) = F[n] /\ F[0] = <<>>
               /\ \A k \in 0..n : IsSeq(F[k])
               /\ \A k \in 1..n : F[k] = F[k - 1] \o ws[k]
  <2>1. \E g : Unfolds(g, ws, n)
    BY <1>1, FlattenUnfolds
  <2>2. QED
    BY <2>1, Zenon DEF Unfolds
<1>3. \A k : IsSeq(Loop(k, p))
  BY One, Zenon DEF Loop
\* A round, and the end.
<1>4. ASSUME NEW k \in Nat, NEW a, NEW w, IsSeq(w)
      PROVE  Reaches(e, x, "read", St(Loop(k, p), a, v, w),
                     St(When(k > 0, p \o Loop(k - 1, p)), a, v, w))
  <2> DEFINE i == Ins("loop", "", k, p)
             s == St(Loop(k, p), a, v, w)
             y == When(k > 0, p \o Loop(k - 1, p))
             t == St(y, a, v, w)
  <2>1. i.k = "loop" /\ i.n = k /\ i.x = p
    BY DEF Ins
  <2>2. s[1] = <<i>> /\ s[2] = a /\ s[3] = v /\ s[4] = w
    BY Zenon DEF St, Loop
  <2>3. IsSeq(<<i>>) /\ <<i>> # <<>> /\ Head(<<i>>) = i /\ Tail(<<i>>) = <<>>
    BY One, Zenon
  <2>4. IsSeq(y) /\ y \o <<>> = y
    <3>1. IsSeq(p \o Loop(k - 1, p))
      BY <1>3, Join
    <3>2. IsSeq(y)
      BY <3>1, Nil DEF When
    <3> HIDE DEF y
    <3>3. QED
      BY <3>2, Nil, Join
  <2> HIDE DEF i, s
  <2>5. Loops1(s, t)
    <3>1. Head(s[1]) = i /\ Tail(s[1]) = <<>>
      BY <2>2, <2>3
    <3>2. When(i.n > 0, i.x \o Loop(i.n - 1, i.x)) = y
      BY <2>1
    <3> HIDE DEF y
    <3>3. QED
      BY <2>1, <2>2, <2>4, <3>1, <3>2 DEF Loops1
  <2>6. Advance(e, x, "read", s, t)
    <3> HIDE DEF t
    <3>1. QED
      BY <1>4, <2>2, <2>3, <2>5 DEF Advance
  <2>7. QED
    BY <2>6, ReachesNow, ReachesStep DEF s
<1> DEFINE T == {k \in Nat : k <= n => Reaches(e, x, "read", St(Loop(n, p), Ms[0], v, F[k]),
                                               St(Loop(n - k, p), Ms[k], v, <<>>))}
<1>5. 0 \in T
  <2>1. n - 0 = n
    OBVIOUS
  <2>2. QED
    BY <1>2, <2>1, ReachesNow
<1>6. ASSUME NEW k \in Nat, k \in T PROVE k + 1 \in T
  <2> SUFFICES ASSUME k + 1 <= n
               PROVE  Reaches(e, x, "read", St(Loop(n, p), Ms[0], v, F[k + 1]),
                              St(Loop(n - (k + 1), p), Ms[k + 1], v, <<>>))
    OBVIOUS
  <2> DEFINE j == n - k
             u == ws[k + 1]
             q == Loop(j - 1, p)
  <2>1. /\ k + 1 \in 1..n /\ (k + 1) - 1 = k /\ j \in Nat /\ j > 0 /\ n - (k + 1) = j - 1
        /\ k \in 0..n
    OBVIOUS
  <2>2. Reaches(e, x, "read", St(Loop(n, p), Ms[0], v, F[k]), St(Loop(j, p), Ms[k], v, <<>>))
    BY <1>6, <2>1
  <2>3. /\ F[k + 1] = F[k] \o u /\ IsSeq(F[k]) /\ IsSeq(u)
        /\ Parses(e, x, v, p, u, Ms[k], Ms[k + 1])
    BY <1>1, <1>2, <2>1, Zenon
  <2>4. IsSeq(Loop(n, p)) /\ IsSeq(Loop(j, p)) /\ IsSeq(q)
    BY <1>3
  <2> HIDE DEF j, u
  <2>5. /\ Loop(n, p) \o <<>> = Loop(n, p) /\ Loop(j, p) \o <<>> = Loop(j, p)
        /\ <<>> \o u = u /\ <<>> \o q = q /\ u \o <<>> = u /\ <<>> \o <<>> = <<>>
    BY <2>3, <2>4, Nil, Join
  <2>6. Reaches(e, x, "read", St(Loop(n, p), Ms[0], v, F[k + 1]), St(Loop(j, p), Ms[k], v, u))
    <3>1. Reaches(e, x, "read", With(St(Loop(n, p), Ms[0], v, F[k]), <<>>, u),
                  With(St(Loop(j, p), Ms[k], v, <<>>), <<>>, u))
      BY <2>2, <2>3, Nil, ReachesWith
    <3>2. With(St(Loop(n, p), Ms[0], v, F[k]), <<>>, u) = St(Loop(n, p), Ms[0], v, F[k + 1])
      BY <2>3, <2>5 DEF With, St
    <3>3. With(St(Loop(j, p), Ms[k], v, <<>>), <<>>, u) = St(Loop(j, p), Ms[k], v, u)
      BY <2>5 DEF With, St
    <3>4. QED
      BY <3>1, <3>2, <3>3
  <2>7. Reaches(e, x, "read", St(Loop(j, p), Ms[k], v, u), St(p \o q, Ms[k], v, u))
    <3>1. When(j > 0, p \o Loop(j - 1, p)) = p \o q
      BY <2>1, Zenon DEF When
    <3> HIDE DEF q
    <3>2. QED
      BY <1>4, <2>1, <2>3, <3>1, Zenon
  <2>8. Reaches(e, x, "read", St(p \o q, Ms[k], v, u), St(q, Ms[k + 1], v, <<>>))
    <3> HIDE DEF q
    <3>1. Reaches(e, x, "read", With(St(p, Ms[k], v, u), q, <<>>),
                  With(St(<<>>, Ms[k + 1], v, <<>>), q, <<>>))
      BY <2>3, <2>4, Nil, ReachesWith DEF Parses
    <3>2. With(St(p, Ms[k], v, u), q, <<>>) = St(p \o q, Ms[k], v, u)
      BY <2>5 DEF With, St
    <3>3. With(St(<<>>, Ms[k + 1], v, <<>>), q, <<>>) = St(q, Ms[k + 1], v, <<>>)
      BY <2>5 DEF With, St
    <3>4. QED
      BY <3>1, <3>2, <3>3
  <2>9. QED
    BY <2>1, <2>6, <2>7, <2>8, ReachesThen
<1>7. n \in T
  <2> HIDE DEF T
  <2>1. QED
    BY <1>5, <1>6, SetInduction
<1>8. Reaches(e, x, "read", St(Loop(n, p), Ms[0], v, F[n]), St(Loop(0, p), Ms[n], v, <<>>))
  <2>1. n - n = 0
    OBVIOUS
  <2>2. QED
    BY <1>7, <2>1
<1>9. Reaches(e, x, "read", St(Loop(0, p), Ms[n], v, <<>>), St(<<>>, Ms[n], v, <<>>))
  <2>1. When(0 > 0, p \o Loop(0 - 1, p)) = <<>>
    BY DEF When
  <2>2. QED
    BY <1>4, <2>1, Nil, Zenon
<1>10. Reaches(e, x, "read", St(Loop(n, p), Ms[0], v, F[n]), St(<<>>, Ms[n], v, <<>>))
  BY <1>8, <1>9, ReachesThen
<1>11. n \in 0..n
  OBVIOUS
<1>12. QED
  BY <1>2, <1>3, <1>10, <1>11 DEF Parses

\* A count and as many messages, and a count and as many strings.
LEMMA ParsesRepeated ==
  ASSUME NEW e, NEW x, NEW v, NEW f, NEW p, IsSeq(p), NEW n \in Nat, NEW ws, NEW Ms,
         f \notin Kept, IsSeq(ws), Len(ws) = n,
         \A k \in 1..n : Parses(e, x, v, p, ws[k], Ms[k - 1], Ms[k])
  PROVE  Parses(e, x, v, Repeated(f, p), WriteUint64(f, n) \o FlattenSeq(ws), Ms[0], Ms[n])
<1> DEFINE i == Ins("rep", f, 0, p)
           y == Word(f, n, 0, 0)
<1>1. i.k = "rep" /\ i.f = f /\ i.x = p /\ y.f = f /\ y.n = n
  BY DEF Ins, Word
<1>2. <<y>>[1] = y /\ Len(<<y>>) = 1
  BY One
<1> HIDE DEF i, y
<1>3. Unit(i, <<y>>)
  BY <1>1 DEF Unit, Refused
<1>4. i.k \in Reads /\ i.k # "version"
  BY <1>1 DEF Reads
<1>5. Continue(i, <<y>>[1].n, MinorOf(v)) = Loop(n, p)
  BY <1>1, <1>2 DEF Continue
<1>6. Learn(Ms[0], i, <<y>>[Len(<<y>>)]) = Ms[0]
  BY <1>1, LearnQuiet
<1>7. Parses(e, x, v, Loop(n, p), FlattenSeq(ws), Ms[0], Ms[n])
  BY ParsesLoop, Zenon
<1>8. Parses(e, x, v, <<i>>, <<y>> \o FlattenSeq(ws), Ms[0], Ms[n])
  <2>1. Minds(x, i.f, <<y>>[Len(<<y>>)])
    BY <1>1, LearnQuiet
  <2>2. QED
    BY <1>3, <1>4, <1>5, <1>6, <1>7, <2>1, ParsesUnit
<1>9. QED
  BY <1>8 DEF i, y, Repeated, WriteUint64

\* A sequence given by its elements.
LEMMA Listed ==
  ASSUME NEW n \in Nat, NEW s, DOMAIN s = 1..n, s = [k \in 1..n |-> s[k]]
  PROVE  IsSeq(s) /\ Len(s) = n
<1>1. PICK T : T = {s[k] : k \in 1..n}
  BY Zenon
<1>2. \A k \in 1..n : s[k] \in T
  BY <1>1
<1>3. s \in [1..n -> T]
  BY <1>2
<1>4. s \in Seq(T)
  BY <1>3, SeqDef
<1>5. Len(s) = n
  BY <1>4, LenProperties
<1>6. QED
  BY <1>4, <1>5, Zenon DEF IsSeq

\* A loop over messages of which the reader keeps nothing.
LEMMA ParsesLoopQuiet ==
  ASSUME NEW e, NEW x, NEW v, NEW p, IsSeq(p), NEW n \in Nat, NEW ws, NEW a,
         IsSeq(ws), Len(ws) = n, \A k \in 1..n : Parses(e, x, v, p, ws[k], a, a)
  PROVE  Parses(e, x, v, Loop(n, p), FlattenSeq(ws), a, a)
<1>1. PICK Ms : Ms = [k \in 0..n |-> a]
  BY Zenon
<1>2. Ms[0] = a /\ Ms[n] = a /\ \A k \in 1..n : Ms[k - 1] = a /\ Ms[k] = a
  BY <1>1
<1>3. \A k \in 1..n : Parses(e, x, v, p, ws[k], Ms[k - 1], Ms[k])
  BY <1>2
<1>4. Parses(e, x, v, Loop(n, p), FlattenSeq(ws), Ms[0], Ms[n])
  BY <1>3, ParsesLoop, Zenon
<1>5. QED
  BY <1>2, <1>4

\* A list of strings is read as it was written.
LEMMA ParsesStrings ==
  ASSUME NEW e, NEW x, NEW v, NEW f, NEW n \in Nat, NEW a, f \notin Kept,
         n <= maxReadStringsCount
  PROVE  Parses(e, x, v, ReadStrings(f), WriteStrings(f, n), a, a)
<1> DEFINE i == Ins("strs", f, 0, <<>>)
           y == Word(f, n, 0, 0)
           ws == [k \in 1..n |-> WriteString(f)]
<1>1. i.k = "strs" /\ i.f = f /\ y.f = f /\ y.n = n
  BY DEF Ins, Word
<1>2. <<y>>[1] = y /\ Len(<<y>>) = 1
  BY One
<1>3. IsSeq(ws) /\ Len(ws) = n
  BY Listed
<1>4. \A k \in 1..n : Parses(e, x, v, ReadString(f), ws[k], a, a)
  BY ParsesString
<1>5. IsSeq(ReadString(f))
  BY One DEF ReadString
<1> HIDE DEF i, y, ws
<1>6. Unit(i, <<y>>)
  BY <1>1 DEF Unit, Refused, maxReadStringsCount
<1>7. i.k \in Reads /\ i.k # "version"
  BY <1>1 DEF Reads
<1>8. Continue(i, <<y>>[1].n, MinorOf(v)) = Loop(n, ReadString(f))
  BY <1>1, <1>2 DEF Continue
<1>9. Learn(a, i, <<y>>[Len(<<y>>)]) = a
  BY <1>1, LearnQuiet
<1>10. Parses(e, x, v, Loop(n, ReadString(f)), FlattenSeq(ws), a, a)
  BY <1>3, <1>4, <1>5, ParsesLoopQuiet
<1>11. Parses(e, x, v, <<i>>, <<y>> \o FlattenSeq(ws), a, a)
  <2>1. Minds(x, i.f, <<y>>[Len(<<y>>)])
    BY <1>1, LearnQuiet
  <2>2. QED
    BY <1>6, <1>7, <1>8, <1>9, <1>10, <2>1, ParsesUnit
<1>12. QED
  BY <1>11 DEF i, y, ws, ReadStrings, WriteStrings, WriteUint64

\* The elements of a finite set in some order, each of them once.
LEMMA SetToSeqAll ==
  ASSUME NEW S, IsFiniteSet(S)
  PROVE  /\ Cardinality(S) \in Nat
         /\ SetToSeq(S) \in [1..Cardinality(S) -> S]
         /\ S = {SetToSeq(S)[k] : k \in 1..Cardinality(S)}
<1> DEFINE n == Cardinality(S)
           Q == {f \in [1..n -> S] : IsInjective(f)}
<1>1. n \in Nat /\ ExistsBijection(1..n, S)
  BY FS_NatBijection, FS_CountingElements, FS_CardinalityType
<1>2. PICK f \in Bijection(1..n, S) : TRUE
  BY <1>1 DEF ExistsBijection
<1>3. f \in [1..n -> S] /\ IsInjective(f)
  BY <1>2 DEF Bijection, Injection, IsInjective
<1>4. SetToSeq(S) \in [1..n -> S] /\ IsInjective(SetToSeq(S))
  <2>1. \E g \in [1..n -> S] : IsInjective(g)
    BY <1>3
  <2>2. QED
    BY <2>1 DEF SetToSeq
<1>5. SetToSeq(S) \in Surjection(1..n, S)
  <2>1. IsFiniteSet(1..n) /\ Cardinality(1..n) = Cardinality(S)
    BY <1>1, FS_Interval
  <2>2. SetToSeq(S) \in Injection(1..n, S)
    BY <1>4 DEF Injection, IsInjective
  <2>3. QED
    BY <2>1, <2>2, FS_Injection
<1>6. QED
  BY <1>1, <1>4, <1>5 DEF Surjection

-----------------------------------------------------------------------------
(* The formats: each message is read as it was written, in every version *)

\* Messages, or parts of them, of which the reader keeps nothing.
Skims(e, x, v, p, w) == \A a : Parses(e, x, v, p, w, a, a)

\* What is skimmed can be joined, and a reader that keeps nothing skims it.
LEMMA SkimsRules ==
  ASSUME NEW e, NEW x, NEW v
  PROVE  /\ \A p, w, q, u : Skims(e, x, v, p, w) /\ Skims(e, x, v, q, u)
                            => Skims(e, x, v, p \o q, w \o u)
         /\ \A d, p, w : (d => Skims(e, x, v, p, w)) => Skims(e, x, v, When(d, p), When(d, w))
         /\ \A f, n : f \notin Kept => Skims(e, x, v, ReadUint64(f), WriteUint64(f, n))
         /\ \A f, b : f \notin Kept => Skims(e, x, v, ReadUint64(f), WriteBool(f, b))
         /\ \A f, n : f \notin Kept => Skims(e, x, v, Require(f, n), WriteUint64(f, n))
         /\ \A f : f \notin Kept => Skims(e, x, v, ReadString(f), WriteString(f))
         /\ \A f : f \notin Kept => Skims(e, x, v, ReadString(f), WriteEmpty(f))
         /\ \A f : \A n \in Nat : f \notin Kept /\ n <= maxReadStringsCount
                            => Skims(e, x, v, ReadStrings(f), WriteStrings(f, n))
         /\ \A f, n, p, w : f \notin Kept /\ (n # 0 => Skims(e, x, v, p, w))
              => Skims(e, x, v, Optional(f, p), WriteUint64(f, n) \o When(n # 0, w))
<1>1. \A p, w, q, u : Skims(e, x, v, p, w) /\ Skims(e, x, v, q, u)
                      => Skims(e, x, v, p \o q, w \o u)
  BY ParsesJoin, Zenon DEF Skims
<1>2. \A d, p, w : (d => Skims(e, x, v, p, w)) => Skims(e, x, v, When(d, p), When(d, w))
  BY ParsesNil DEF Skims, When
<1>3. \A f, n : f \notin Kept => Skims(e, x, v, ReadUint64(f), WriteUint64(f, n))
  BY ParsesNum DEF Skims
<1>4. \A f, b : f \notin Kept => Skims(e, x, v, ReadUint64(f), WriteBool(f, b))
  BY ParsesBool DEF Skims
<1>5. \A f, n : f \notin Kept => Skims(e, x, v, Require(f, n), WriteUint64(f, n))
  BY ParsesRequire DEF Skims
<1>6. \A f : f \notin Kept => Skims(e, x, v, ReadString(f), WriteString(f))
  BY ParsesString DEF Skims
<1>7. \A f : f \notin Kept => Skims(e, x, v, ReadString(f), WriteEmpty(f))
  BY ParsesEmpty DEF Skims
<1>8. \A f : \A n \in Nat : f \notin Kept /\ n <= maxReadStringsCount
                            => Skims(e, x, v, ReadStrings(f), WriteStrings(f, n))
  BY ParsesStrings, Zenon DEF Skims
<1>9. \A f, n, p, w : f \notin Kept /\ (n # 0 => Skims(e, x, v, p, w))
        => Skims(e, x, v, Optional(f, p), WriteUint64(f, n) \o When(n # 0, w))
  <2> SUFFICES ASSUME NEW f, NEW n, NEW p, NEW w, f \notin Kept, n # 0 => Skims(e, x, v, p, w),
                      NEW a
               PROVE  Parses(e, x, v, Optional(f, p), WriteUint64(f, n) \o When(n # 0, w), a, a)
    BY Zenon DEF Skims
  <2>1. n # 0 => Parses(e, x, v, p, w, a, a)
    BY DEF Skims
  <2>2. QED
    BY <2>1, ParsesOptional, Zenon
<1>10. QED
  BY <1>1, <1>2, <1>3, <1>4, <1>5, <1>6, <1>7, <1>8, <1>9, Zenon

\* A count of none or one, and the message that follows.
LEMMA SkimsRepeated ==
  ASSUME NEW e, NEW x, NEW v, NEW f, f \notin Kept, NEW p, IsSeq(p)
  PROVE  /\ Skims(e, x, v, Repeated(f, p), WriteUint64(f, 0))
         /\ \A w : Skims(e, x, v, p, w)
                     => Skims(e, x, v, Repeated(f, p), WriteUint64(f, 1) \o w)
         /\ \A w, u : Skims(e, x, v, p, w) /\ Skims(e, x, v, p, u)
                     => Skims(e, x, v, Repeated(f, p), WriteUint64(f, 2) \o (w \o u))
<1>1. \A n \in Nat : \A ws, a :
        /\ IsSeq(ws) /\ Len(ws) = n
        /\ \A k \in 1..n : Skims(e, x, v, p, ws[k])
        => Parses(e, x, v, Repeated(f, p), WriteUint64(f, n) \o FlattenSeq(ws), a, a)
  <2> SUFFICES ASSUME NEW n \in Nat, NEW ws, NEW a, IsSeq(ws), Len(ws) = n,
                      \A k \in 1..n : Skims(e, x, v, p, ws[k])
               PROVE  Parses(e, x, v, Repeated(f, p), WriteUint64(f, n) \o FlattenSeq(ws), a, a)
    OBVIOUS
  <2>1. PICK Ms : Ms = [k \in 0..n |-> a]
    BY Zenon
  <2>2. Ms[0] = a /\ Ms[n] = a /\ \A k \in 1..n : Ms[k - 1] = a /\ Ms[k] = a
    BY <2>1
  <2>3. \A k \in 1..n : Parses(e, x, v, p, ws[k], Ms[k - 1], Ms[k])
    BY <2>2 DEF Skims
  <2>4. Parses(e, x, v, Repeated(f, p), WriteUint64(f, n) \o FlattenSeq(ws), Ms[0], Ms[n])
    BY <2>3, ParsesRepeated, Zenon
  <2>5. QED
    BY <2>2, <2>4
<1>2. Skims(e, x, v, Repeated(f, p), WriteUint64(f, 0))
  <2>1. FlattenSeq(<<>>) = <<>> /\ IsSeq(<<>>) /\ Len(<<>>) = 0
    BY Nil DEF FlattenSeq
  <2>2. WriteUint64(f, 0) \o <<>> = WriteUint64(f, 0)
    BY One, Nil, Join DEF WriteUint64
  <2>3. \A a : Parses(e, x, v, Repeated(f, p), WriteUint64(f, 0) \o FlattenSeq(<<>>), a, a)
    BY <1>1, <2>1
  <2>4. QED
    BY <2>1, <2>2, <2>3, Zenon DEF Skims
<1>3. ASSUME NEW w, Skims(e, x, v, p, w)
      PROVE  Skims(e, x, v, Repeated(f, p), WriteUint64(f, 1) \o w)
  <2>1. PICK ws : ws = <<w>>
    BY Zenon
  <2>2. IsSeq(ws) /\ Len(ws) = 1 /\ ws[1] = w
    BY <2>1, One
  <2>3. IsSeq(w)
    BY <1>3 DEF Skims, Parses
  <2>4. PICK F : /\ FlattenSeq(ws) = F[1] /\ F[0] = <<>>
                 /\ \A k \in 1..1 : F[k] = F[k - 1] \o ws[k]
    <3>1. PICK n \in Nat : n = 1
      OBVIOUS
    <3>2. IsSeq(ws) /\ Len(ws) = n /\ \A k \in 1..n : IsSeq(ws[k])
      BY <2>2, <2>3, <3>1
    <3>3. \E F : /\ FlattenSeq(ws) = F[n] /\ F[0] = <<>>
                 /\ \A k \in 0..n : IsSeq(F[k])
                 /\ \A k \in 1..n : F[k] = F[k - 1] \o ws[k]
      <4>1. \E g : Unfolds(g, ws, n)
        BY <3>2, FlattenUnfolds
      <4>2. QED
        BY <4>1, Zenon DEF Unfolds
    <3>4. QED
      BY <3>1, <3>3, Zenon
  <2>5. F[1] = F[0] \o ws[1]
    <3>1. 1 \in 1..1 /\ 1 - 1 = 0
      OBVIOUS
    <3>2. QED
      BY <2>4, <3>1, Zenon
  <2>6. FlattenSeq(ws) = w
    BY <2>2, <2>3, <2>4, <2>5, Nil, Join
  <2>7. \A a : Parses(e, x, v, Repeated(f, p), WriteUint64(f, 1) \o FlattenSeq(ws), a, a)
    <3>1. \A k \in 1..1 : Skims(e, x, v, p, ws[k])
      BY <1>3, <2>2
    <3>2. QED
      BY <1>1, <2>2, <3>1, Zenon
  <2>8. QED
    BY <2>6, <2>7 DEF Skims
<1>4. ASSUME NEW w, NEW u, Skims(e, x, v, p, w), Skims(e, x, v, p, u)
      PROVE  Skims(e, x, v, Repeated(f, p), WriteUint64(f, 2) \o (w \o u))
  <2>1. PICK ws : ws = <<w, u>>
    BY Zenon
  <2>2. ws \in Seq({w, u}) /\ Len(ws) = 2 /\ ws[1] = w /\ ws[2] = u
    BY <2>1
  <2>3. IsSeq(ws) /\ IsSeq(w) /\ IsSeq(u)
    BY <1>4, <2>2 DEF Skims, Parses, IsSeq
  <2>4. PICK F : /\ FlattenSeq(ws) = F[2] /\ F[0] = <<>>
                 /\ \A k \in 1..2 : F[k] = F[k - 1] \o ws[k]
    <3>1. \A k \in 1..2 : IsSeq(ws[k])
      BY <2>2, <2>3
    <3>2. QED
      <4>1. PICK n \in Nat : n = 2
        OBVIOUS
      <4>2. Len(ws) = n /\ \A k \in 1..n : IsSeq(ws[k])
        BY <2>2, <3>1, <4>1
      <4>3. \E F : /\ FlattenSeq(ws) = F[n] /\ F[0] = <<>>
                   /\ \A k \in 0..n : IsSeq(F[k])
                   /\ \A k \in 1..n : F[k] = F[k - 1] \o ws[k]
        <5>1. \E g : Unfolds(g, ws, n)
          BY <2>3, <4>2, FlattenUnfolds
        <5>2. QED
          BY <5>1, Zenon DEF Unfolds
      <4>4. QED
        BY <4>1, <4>3, Zenon
  <2>5. F[1] = F[0] \o w /\ F[2] = F[1] \o u
    <3>1. 1 \in 1..2 /\ 2 \in 1..2 /\ 1 - 1 = 0 /\ 2 - 1 = 1
      OBVIOUS
    <3>2. F[1] = F[0] \o ws[1] /\ F[2] = F[1] \o ws[2]
      BY <2>4, <3>1, Zenon
    <3>3. QED
      BY <2>2, <3>2
  <2>6. FlattenSeq(ws) = w \o u
    BY <2>3, <2>4, <2>5, Nil, Join
  <2>7. \A k \in 1..2 : Skims(e, x, v, p, ws[k])
    BY <1>4, <2>2
  <2>8. \A a : Parses(e, x, v, Repeated(f, p), WriteUint64(f, 2) \o FlattenSeq(ws), a, a)
    BY <1>1, <2>2, <2>3, <2>7, Zenon
  <2>9. QED
    BY <2>6, <2>8 DEF Skims
<1>5. QED
  BY <1>2, <1>3, <1>4

\* handleSetOptions reads what SetOptions writes, word for word, in every
\* version; the values are of no consequence.
THEOREM OptionsRead ==
  ASSUME NEW e, NEW x, NEW v, NEW m
  PROVE  Skims(e, x, v, handleSetOptions(m), WriteOptions(m))
<1> DEFINE Ok(p, w) == Skims(e, x, v, p, w)
<1>1. IsSeq(ReadString("key") \o ReadString("value"))
  BY One, Join DEF ReadString
<1>2. Ok(Repeated("overrides", ReadString("key") \o ReadString("value")),
         WriteUint64("overrides", 0))
  BY <1>1, SkimsRepeated, Zenon DEF Kept
<1>3. /\ \A p, w, q, u : Ok(p, w) /\ Ok(q, u) => Ok(p \o q, w \o u)
      /\ \A d, p, w : (d => Ok(p, w)) => Ok(When(d, p), When(d, w))
      /\ \A f, n : f \notin Kept => Ok(ReadUint64(f), WriteUint64(f, n))
      /\ \A f, b : f \notin Kept => Ok(ReadUint64(f), WriteBool(f, b))
  BY SkimsRules, Zenon
<1> HIDE DEF Ok
<1>4. /\ Ok(ReadUint64("keepFailed"), WriteBool("keepFailed", FALSE))
      /\ Ok(ReadUint64("keepGoing"), WriteBool("keepGoing", TRUE))
      /\ Ok(ReadUint64("tryFallback"), WriteBool("tryFallback", TRUE))
      /\ Ok(ReadUint64("verbosity"), WriteUint64("verbosity", 3))
      /\ Ok(ReadUint64("maxBuildJobs"), WriteUint64("maxBuildJobs", 1))
      /\ Ok(ReadUint64("maxSilentTime"), WriteUint64("maxSilentTime", 0))
      /\ Ok(ReadUint64("useBuildHook"), WriteBool("useBuildHook", FALSE))
      /\ Ok(ReadUint64("verboseBuild"), WriteUint64("verboseBuild", 0))
      /\ Ok(ReadUint64("logType"), WriteUint64("logType", 0))
      /\ Ok(ReadUint64("printBuildTrace"), WriteUint64("printBuildTrace", 0))
      /\ Ok(ReadUint64("buildCores"), WriteUint64("buildCores", 0))
      /\ Ok(ReadUint64("useSubstitutes"), WriteBool("useSubstitutes", TRUE))
  BY <1>3, Zenon DEF Kept
<1>5. Ok(handleSetOptions(m), WriteOptions(m))
  BY <1>2, <1>3, <1>4, ZenonT(60) DEF handleSetOptions, WriteOptions
<1>6. QED
  BY <1>5 DEF Ok

\* The CPU affinity, of a client that sends one and of one that does not.
AffinityWords(m, pinned) ==
  When(m >= 14, WriteBool("affinity", pinned)
                  \o When(pinned, WriteUint64("mask", 3)) \o WriteUint64("reserve", 0))

\* The CPU affinity is read as the client wrote it, pinned or not.
LEMMA AffinityRead ==
  ASSUME NEW e, NEW x, NEW v, NEW m, NEW b \in BOOLEAN
  PROVE  /\ Skims(e, x, v, ReadAffinity(m), AffinityWords(m, b))
         /\ Skims(e, x, v, ReadAffinity(m),
                  When(m >= 14, WriteUint64("affinity", 0) \o WriteUint64("reserve", 0)))
<1> DEFINE Ok(p, w) == Skims(e, x, v, p, w)
<1>1. /\ \A p, w, q, u : Ok(p, w) /\ Ok(q, u) => Ok(p \o q, w \o u)
      /\ \A d, p, w : (d => Ok(p, w)) => Ok(When(d, p), When(d, w))
      /\ \A f, n : f \notin Kept => Ok(ReadUint64(f), WriteUint64(f, n))
      /\ \A f, n, p, w : f \notin Kept /\ (n # 0 => Ok(p, w))
              => Ok(Optional(f, p), WriteUint64(f, n) \o When(n # 0, w))
  BY SkimsRules, Zenon
<1> HIDE DEF Ok
<1>2. Ok(ReadUint64("mask"), WriteUint64("mask", 3)) /\ Ok(ReadUint64("reserve"), WriteUint64("reserve", 0))
  BY <1>1 DEF Kept
<1>3. Ok(Optional("affinity", ReadUint64("mask")),
         WriteBool("affinity", b) \o When(b, WriteUint64("mask", 3)))
  <2>1. PICK n : n = IF b THEN 1 ELSE 0
    OBVIOUS
  <2>2. WriteBool("affinity", b) = WriteUint64("affinity", n) /\ b = (n # 0)
    BY <2>1 DEF WriteBool
  <2>3. "affinity" \notin Kept
    BY DEF Kept
  <2>4. QED
    BY <1>1, <1>2, <2>2, <2>3
<1>4. Ok(Optional("affinity", ReadUint64("mask")), WriteUint64("affinity", 0))
  <2>1. WriteUint64("affinity", 0) \o When(0 # 0, WriteUint64("mask", 3)) = WriteUint64("affinity", 0)
    BY One, Nil, Join DEF WriteUint64, When
  <2>2. "affinity" \notin Kept
    BY DEF Kept
  <2>3. QED
    BY <1>1, <1>2, <2>1, <2>2, Zenon
<1>5. Ok(ReadAffinity(m), AffinityWords(m, b))
  BY <1>1, <1>2, <1>3, Zenon DEF ReadAffinity, AffinityWords
<1>6. Ok(ReadAffinity(m), When(m >= 14, WriteUint64("affinity", 0) \o WriteUint64("reserve", 0)))
  BY <1>1, <1>2, <1>4, Zenon DEF ReadAffinity
<1>7. QED
  BY <1>5, <1>6 DEF Ok

\* What the server says at the end of the handshake (PostHandshake) is read
\* as it was written, in every version.
THEOREM HandshakeInfoRead ==
  ASSUME NEW e, NEW x, NEW v, NEW m
  PROVE  Skims(e, x, v, ReadHandshakeInfo(m), HandshakeInfo(m))
<1> DEFINE Ok(p, w) == Skims(e, x, v, p, w)
<1>1. /\ \A p, w, q, u : Ok(p, w) /\ Ok(q, u) => Ok(p \o q, w \o u)
      /\ \A d, p, w : (d => Ok(p, w)) => Ok(When(d, p), When(d, w))
      /\ \A f, n : f \notin Kept => Ok(ReadUint64(f), WriteUint64(f, n))
      /\ \A f, n : f \notin Kept => Ok(Require(f, n), WriteUint64(f, n))
      /\ \A f : f \notin Kept => Ok(ReadString(f), WriteString(f))
  BY SkimsRules, Zenon
<1> HIDE DEF Ok
<1>2. /\ Ok(ReadString("daemonVersion"), WriteString("daemonVersion"))
      /\ Ok(ReadUint64("trust"), WriteUint64("trust", 1))
      /\ Ok(Require("marker", StderrLast), WriteUint64("marker", StderrLast))
  BY <1>1 DEF Kept
<1>3. Ok(ReadHandshakeInfo(m), HandshakeInfo(m))
  BY <1>1, <1>2, Zenon DEF ReadHandshakeInfo, HandshakeInfo
<1>4. QED
  BY <1>3 DEF Ok

-----------------------------------------------------------------------------
(* Words in a row *)

\* X is Ms followed by Y.
Starts(Ms, X, Y) == IsSeq(Ms) /\ IsSeq(Y) /\ X = Ms \o Y

\* A program starts with its first part, also when something follows.
LEMMA StartsRules ==
  /\ \A Ms, t : IsSeq(Ms) /\ IsSeq(t) => Starts(Ms, Ms \o t, t)
  /\ \A Ms, X, Y, z : Starts(Ms, X, Y) /\ IsSeq(z) => Starts(Ms, X \o z, Y \o z)
<1>1. ASSUME NEW Ms, NEW X, NEW Y, NEW z, Starts(Ms, X, Y), IsSeq(z)
      PROVE  Starts(Ms, X \o z, Y \o z)
  <2>1. IsSeq(Ms) /\ IsSeq(Y) /\ X = Ms \o Y
    BY <1>1 DEF Starts
  <2>2. (Ms \o Y) \o z = Ms \o (Y \o z)
    <3>1. Assoc(Ms, Y, z)
      BY <1>1, <2>1, JoinAssoc3
    <3>2. QED
      BY <3>1 DEF Assoc
  <2>3. IsSeq(Y \o z)
    BY <1>1, <2>1, Join
  <2>4. QED
    BY <2>1, <2>2, <2>3 DEF Starts
<1>2. \A Ms, t : IsSeq(Ms) /\ IsSeq(t) => Starts(Ms, Ms \o t, t)
  BY DEF Starts
<1>3. QED
  BY <1>1, <1>2, Zenon

\* Words that are written together and do not end in the length of a string.
Ends(w) == IsSeq(w) /\ w # <<>> /\ Whole(w)

\* Which messages do not end in the length of a string.
LEMMA EndsRules ==
  /\ \A f, n : IsSeq(WriteUint64(f, n)) /\ (n # 8 => Ends(WriteUint64(f, n)))
  /\ \A f, b : Ends(WriteBool(f, b))
  /\ \A f, o, s : Ends(WriteStringOf(f, o, s))
  /\ \A f : Ends(WriteString(f)) /\ Ends(WriteEmpty(f))
  /\ \A w, u : IsSeq(w) /\ Ends(u) => Ends(w \o u)
  /\ \A w : Ends(w) => IsSeq(w)
  /\ \A w, u : IsSeq(w) /\ IsSeq(u) => IsSeq(w \o u)
<1>1. \A f, n : IsSeq(WriteUint64(f, n)) /\ (n # 8 => Ends(WriteUint64(f, n)))
  <2> SUFFICES ASSUME NEW f, NEW n PROVE IsSeq(WriteUint64(f, n)) /\ (n # 8 => Ends(WriteUint64(f, n)))
    OBVIOUS
  <2>1. Word(f, n, 0, 0).n = n
    BY DEF Word
  <2>2. IsSeq(WriteUint64(f, n)) /\ WriteUint64(f, n) # <<>>
        /\ WriteUint64(f, n)[Len(WriteUint64(f, n))] = Word(f, n, 0, 0)
    BY One DEF WriteUint64
  <2>3. QED
    BY <2>1, <2>2 DEF Ends, Whole
<1>2. \A f, b : Ends(WriteBool(f, b))
  BY <1>1 DEF WriteBool
<1>3. \A f, o, s : Ends(WriteStringOf(f, o, s))
  <2> SUFFICES ASSUME NEW f, NEW o, NEW s PROVE Ends(WriteStringOf(f, o, s))
    OBVIOUS
  <2>1. PICK y, z : y = Word(f, 8, o, s) /\ z = Word(f, Characters, o, s)
    OBVIOUS
  <2>2. z.n = 2147483647
    BY <2>1 DEF Word, Characters
  <2>3. PICK w : w = <<y, z>>
    BY Zenon
  <2>4. w \in Seq({y, z}) /\ w # <<>> /\ w[Len(w)] = z
    BY <2>3
  <2>5. WriteStringOf(f, o, s) = w
    BY <2>1, <2>3 DEF WriteStringOf
  <2>6. QED
    BY <2>2, <2>4, <2>5 DEF Ends, Whole, IsSeq
<1>4. \A f : Ends(WriteString(f)) /\ Ends(WriteEmpty(f))
  BY <1>1, <1>3 DEF WriteString, WriteEmpty
<1>5. ASSUME NEW w, NEW u, IsSeq(w), Ends(u) PROVE Ends(w \o u)
  <2>1. IsSeq(u) /\ u # <<>> /\ u[Len(u)].n # 8
    BY <1>5 DEF Ends, Whole
  <2>2. PICK T : w \in Seq(T) /\ u \in Seq(T)
    BY <1>5, <2>1, SeqPair
  <2>3. w \o u \in Seq(T) /\ w \o u # <<>> /\ (w \o u)[Len(w \o u)] = u[Len(u)]
    BY <2>1, <2>2
  <2>4. QED
    BY <2>1, <2>3 DEF Ends, Whole, IsSeq
<1>6. \A w : Ends(w) => IsSeq(w)
  BY DEF Ends
<1>7. \A w, u : IsSeq(w) /\ IsSeq(u) => IsSeq(w \o u)
  BY Join
<1>8. QED
  BY <1>1, <1>2, <1>3, <1>4, <1>5, <1>6, <1>7, Zenon

-----------------------------------------------------------------------------
(* The stderr stream *)

\* What a reader keeps.
IsMem(a) ==
  a = [status |-> a.status, cpu |-> a.cpu, outs |-> a.outs, drv |-> a.drv,
       fields |-> a.fields, path |-> a.path, narHash |-> a.narHash,
       narSize |-> a.narSize, sig |-> a.sig]

\* The words w are a part of the stream, and the stream goes on.
Hums(e, x, v, w, a, b) ==
  /\ IsSeq(w)
  /\ Reaches(e, x, "read", St(ReadMarker, a, v, w), St(ReadMarker, b, v, <<>>))

\* What is said one after the other while a build runs.
LEMMA HumsJoin ==
  ASSUME NEW e, NEW x, NEW v, NEW w, NEW a, NEW b, NEW u, NEW c,
         Hums(e, x, v, w, a, b), Hums(e, x, v, u, b, c)
  PROVE  Hums(e, x, v, w \o u, a, c)
<1>1. /\ IsSeq(w) /\ IsSeq(u)
      /\ Reaches(e, x, "read", St(ReadMarker, a, v, w), St(ReadMarker, b, v, <<>>))
      /\ Reaches(e, x, "read", St(ReadMarker, b, v, u), St(ReadMarker, c, v, <<>>))
  BY DEF Hums
<1>2. IsSeq(w \o u) /\ <<>> \o u = u
  BY <1>1, Join
<1>3. ReadMarker \o <<>> = ReadMarker
  BY One, Nil, Join DEF ReadMarker
<1>4. Reaches(e, x, "read", With(St(ReadMarker, a, v, w), <<>>, u), With(St(ReadMarker, b, v, <<>>), <<>>, u))
  BY <1>1, Nil, ReachesWith
<1>5. /\ With(St(ReadMarker, a, v, w), <<>>, u) = St(ReadMarker, a, v, w \o u)
      /\ With(St(ReadMarker, b, v, <<>>), <<>>, u) = St(ReadMarker, b, v, u)
  BY <1>2, <1>3 DEF With, St
<1>6. Reaches(e, x, "read", St(ReadMarker, a, v, w \o u), St(ReadMarker, c, v, <<>>))
  BY <1>1, <1>4, <1>5, ReachesThen
<1>7. QED
  BY <1>2, <1>6 DEF Hums

\* A marker leads to the part of the program that it names.
LEMMA MarkerStep ==
  ASSUME NEW e, NEW x, NEW v, NEW n, NEW w, NEW a, NEW go, IsSeq(w), IsSeq(go),
         go = readStderrStream(MinorOf(v), n)
  PROVE  /\ IsSeq(WriteUint64("marker", n) \o w)
         /\ Reaches(e, x, "read", St(ReadMarker, a, v, WriteUint64("marker", n) \o w),
                    St(go, a, v, w))
<1> DEFINE i == Ins("marker", "marker", 0, <<>>)
           y == Word("marker", n, 0, 0)
           s == St(<<i>>, a, v, <<y>> \o w)
           t == St(go, a, v, w)
<1>1. i.k = "marker" /\ i.f = "marker" /\ y.f = "marker" /\ y.n = n
  BY DEF Ins, Word
<1>2. <<y>>[1] = y /\ Len(<<y>>) = 1 /\ IsSeq(<<y>>)
  BY One
<1>3. /\ s[1] = <<i>> /\ s[2] = a /\ s[3] = v /\ s[4] = <<y>> \o w
  BY DEF St
<1>4. /\ IsSeq(<<i>>) /\ <<i>> # <<>> /\ Head(<<i>>) = i /\ Tail(<<i>>) = <<>>
  BY One
<1>5. WriteUint64("marker", n) = <<y>> /\ ReadMarker = <<i>>
  BY DEF WriteUint64, ReadMarker
<1> HIDE DEF i, y
<1>6. Unit(i, <<y>>)
  BY <1>1 DEF Unit, Refused
<1>7. i.k \in Reads /\ i.k # "version"
  BY <1>1 DEF Reads
<1>8. Continue(i, <<y>>[1].n, MinorOf(v)) = go
  BY <1>1, <1>2 DEF Continue
<1>9. Learn(a, i, <<y>>[Len(<<y>>)]) = a
  BY <1>1, LearnQuiet DEF Kept
<1>10. IsSeq(<<y>> \o w) /\ go \o <<>> = go
  BY <1>2, Join, Nil
<1>11. /\ i.k \in Reads /\ Unit(i, <<y>>) /\ s[4] = <<y>> \o w /\ IsSeq(w)
       /\ i.k = "version" => Negotiated(Own(e, x), <<y>>[1].n) = Full
       /\ Minds(x, i.f, <<y>>[Len(<<y>>)])
       /\ IsSeq(Continue(i, <<y>>[1].n, MinorOf(s[3])))
       /\ t = St(Continue(i, <<y>>[1].n, MinorOf(s[3])) \o Tail(s[1]), Learn(s[2], i, <<y>>[Len(<<y>>)]),
                 IF i.k = "version" THEN Full ELSE s[3], w)
  <2>1. Minds(x, i.f, <<y>>[Len(<<y>>)])
    BY <1>1, LearnQuiet DEF Results
  <2>2. QED
    BY <1>3, <1>4, <1>6, <1>7, <1>8, <1>9, <1>10, <2>1, Zenon
<1>12. Head(s[1]) = i
  BY <1>3, <1>4
<1>13. Takes1(e, x, s, t)
  <2> HIDE DEF s, t
  <2>1. QED
    BY <1>11, <1>12, Zenon DEF Takes1
<1>14. Advance(e, x, "read", s, t)
  <2> HIDE DEF s, t
  <2>1. QED
    BY <1>3, <1>4, <1>10, <1>13, Zenon DEF Advance
<1>15. QED
  BY <1>5, <1>10, <1>14, ReachesStep, ReachesNow

\* A part of the stream with the message p, and with what the proxy tells the
\* client about it.
LEMMA HumsBy ==
  ASSUME NEW e, NEW x, NEW v, NEW n, NEW p, NEW w, NEW a, NEW b, NEW ev \in Events,
         Parses(e, x, v, p, w, a, b),
         \/ readStderrStream(MinorOf(v), n) = p \o Forward(ev) \o ReadMarker
         \/ readStderrStream(MinorOf(v), n) = p \o ReadMarker
  PROVE  Hums(e, x, v, WriteUint64("marker", n) \o w, a, b)
<1>1. /\ IsSeq(p) /\ IsSeq(w)
      /\ Reaches(e, x, "read", St(p, a, v, w), St(<<>>, b, v, <<>>))
  BY DEF Parses
<1>2. IsSeq(Forward(ev)) /\ IsSeq(ReadMarker) /\ Forward(ev) = <<Ins("forward", ev, 0, <<>>)>>
  BY One DEF Forward, ReadMarker
<1>3. ASSUME NEW q, IsSeq(q)
      PROVE  Reaches(e, x, "read", St(p \o q, a, v, w), St(q, b, v, <<>>))
  <2>1. Reaches(e, x, "read", With(St(p, a, v, w), q, <<>>), With(St(<<>>, b, v, <<>>), q, <<>>))
    BY <1>1, <1>3, Nil, ReachesWith
  <2>2. <<>> \o q = q /\ w \o <<>> = w /\ <<>> \o <<>> = <<>>
    BY <1>1, <1>3, Nil, Join
  <2>3. /\ With(St(p, a, v, w), q, <<>>) = St(p \o q, a, v, w)
        /\ With(St(<<>>, b, v, <<>>), q, <<>>) = St(q, b, v, <<>>)
    BY <2>2 DEF With, St
  <2>4. QED
    BY <2>1, <2>3
<1>4. CASE readStderrStream(MinorOf(v), n) = p \o ReadMarker
  <2>1. IsSeq(p \o ReadMarker)
    BY <1>1, <1>2, Join
  <2>2. /\ IsSeq(WriteUint64("marker", n) \o w)
        /\ Reaches(e, x, "read", St(ReadMarker, a, v, WriteUint64("marker", n) \o w),
                   St(p \o ReadMarker, a, v, w))
    BY <1>1, <1>4, <2>1, MarkerStep, Zenon
  <2>3. Reaches(e, x, "read", St(p \o ReadMarker, a, v, w), St(ReadMarker, b, v, <<>>))
    BY <1>2, <1>3
  <2>4. QED
    BY <2>2, <2>3, ReachesThen DEF Hums
<1>5. CASE readStderrStream(MinorOf(v), n) = p \o Forward(ev) \o ReadMarker
  <2> DEFINE q == Forward(ev) \o ReadMarker
             i == Ins("forward", ev, 0, <<>>)
  <2>1. (p \o Forward(ev)) \o ReadMarker = p \o q /\ IsSeq(q) /\ IsSeq(p \o q)
    <3>1. (p \o Forward(ev)) \o ReadMarker = p \o q
      <4>1. Assoc(p, Forward(ev), ReadMarker)
        BY <1>1, <1>2, JoinAssoc3
      <4>2. QED
        BY <4>1 DEF Assoc
    <3>2. IsSeq(q)
      BY <1>2, Join
    <3>3. IsSeq(p \o q)
      BY <1>1, <3>2, Join
    <3>4. QED
      BY <3>1, <3>2, <3>3
  <2>2. /\ IsSeq(WriteUint64("marker", n) \o w)
        /\ Reaches(e, x, "read", St(ReadMarker, a, v, WriteUint64("marker", n) \o w),
                   St(p \o q, a, v, w))
    BY <1>1, <1>5, <2>1, MarkerStep, Zenon
  <2>3. Reaches(e, x, "read", St(p \o q, a, v, w), St(q, b, v, <<>>))
    BY <1>3, <2>1
  <2>4. q # <<>> /\ Head(q) = i /\ Tail(q) = ReadMarker
    <3>1. Forward(ev) # <<>> /\ Head(Forward(ev)) = i /\ Tail(Forward(ev)) = <<>>
      BY <1>2, One
    <3>2. q # <<>> /\ Head(q) = Head(Forward(ev)) /\ Tail(q) = Tail(Forward(ev)) \o ReadMarker
      BY <1>2, <3>1, Join
    <3>3. <<>> \o ReadMarker = ReadMarker
      BY <1>2, Join
    <3> HIDE DEF i, q
    <3>4. QED
      BY <3>1, <3>2, <3>3, Zenon
  <2>5. i.k = "forward" /\ i.f = ev
    BY DEF Ins
  <2>6. Advance(e, x, "read", St(q, b, v, <<>>), St(ReadMarker, b, v, <<>>))
    <3> DEFINE s == St(q, b, v, <<>>)
    <3>1. s[1] = q /\ s[2] = b /\ s[3] = v /\ s[4] = <<>>
      BY DEF St
    <3> HIDE DEF s, q, i
    <3>2. Forwards1(s, St(ReadMarker, b, v, <<>>))
      BY <2>4, <2>5, <3>1, Zenon DEF Forwards1
    <3>3. QED
      BY <2>1, <2>4, <3>1, <3>2, Nil DEF Advance, s
  <2>7. Reaches(e, x, "read", St(q, b, v, <<>>), St(ReadMarker, b, v, <<>>))
    BY <2>6, ReachesStep, ReachesNow
  <2>8. QED
    BY <2>2, <2>3, <2>7, ReachesThen DEF Hums
<1>6. QED
  BY <1>4, <1>5

\* The fields of the last activity, in what a reader keeps.
SetFields(a, t) == [a EXCEPT !.fields = t]

\* Setting the fields of an activity changes nothing else that is known.
LEMMA MemFields ==
  ASSUME NEW a, IsMem(a), NEW t, NEW b, b = SetFields(a, t)
  PROVE  /\ IsMem(b) /\ b.fields = t
         /\ \A u : SetFields(b, u) = SetFields(a, u)
         /\ a.fields = t => b = a
         /\ b.status = a.status /\ b.cpu = a.cpu /\ b.outs = a.outs /\ b.drv = a.drv
         /\ b.path = a.path /\ b.narHash = a.narHash /\ b.narSize = a.narSize /\ b.sig = a.sig
<1>1. \A y : y \in DOMAIN a <=> y \in {"status", "cpu", "outs", "drv", "fields", "path", "narHash", "narSize", "sig"}
  BY DEF IsMem
<1>2. a = [y \in DOMAIN a |-> a[y]]
  BY DEF IsMem
<1>4. /\ DOMAIN b = DOMAIN a /\ b = [y \in DOMAIN a |-> IF y = "fields" THEN t ELSE a[y]]
  BY <1>2 DEF SetFields
<1>5. /\ b.fields = t /\ b.status = a.status /\ b.cpu = a.cpu /\ b.outs = a.outs /\ b.drv = a.drv
      /\ b.path = a.path /\ b.narHash = a.narHash /\ b.narSize = a.narSize /\ b.sig = a.sig
  BY <1>1, <1>4
<1>6. IsMem(b)
  BY <1>1, <1>4 DEF IsMem
<1>7. ASSUME NEW u PROVE SetFields(b, u) = SetFields(a, u)
  BY <1>1, <1>2, <1>4, Zenon DEF SetFields
<1>8. a.fields = t => b = a
  BY <1>2 DEF SetFields
<1>9. QED
  BY <1>5, <1>6, <1>7, <1>8

\* The fields of an activity; the reader keeps their types.
LEMMA FieldRead ==
  ASSUME NEW e, NEW x, NEW v, NEW t, NEW a
  PROVE  Parses(e, x, v, ReadField,
                WriteUint64("fieldType", t) \o IF t = 0 THEN WriteUint64("intVal", 6)
                                                        ELSE WriteString("strVal"),
                a, SetFields(a, Append(a.fields, t)))
<1> DEFINE i == Ins("field", "fieldType", 0, <<>>)
           y == Word("fieldType", t, 0, 0)
           b == SetFields(a, Append(a.fields, t))
           go == IF t = 0 THEN ReadUint64("intVal") ELSE ReadString("strVal")
           w == IF t = 0 THEN WriteUint64("intVal", 6) ELSE WriteString("strVal")
<1>1. i.k = "field" /\ i.f = "fieldType" /\ y.f = "fieldType" /\ y.n = t
  BY DEF Ins, Word
<1>2. <<y>>[1] = y /\ Len(<<y>>) = 1
  BY One
<1> HIDE DEF i, y
<1>3. Unit(i, <<y>>)
  BY <1>1 DEF Unit, Refused
<1>4. i.k \in Reads /\ i.k # "version"
  BY <1>1 DEF Reads
<1>5. Continue(i, <<y>>[1].n, MinorOf(v)) = go
  BY <1>1, <1>2 DEF Continue
<1>6. Learn(a, i, <<y>>[Len(<<y>>)]) = b
  BY <1>1, <1>2 DEF Learn, SetFields
<1>7. Parses(e, x, v, go, w, b, b)
  <2> HIDE DEF b
  <2>1. "intVal" \notin Kept /\ "strVal" \notin Kept
    BY DEF Kept
  <2>2. CASE t = 0
    BY <2>1, <2>2, ParsesNum
  <2>3. CASE t # 0
    BY <2>1, <2>3, ParsesString
  <2>4. QED
    BY <2>2, <2>3
<1> HIDE DEF b, go, w
<1>8. Parses(e, x, v, <<i>>, <<y>> \o w, a, b)
  <2>1. Minds(x, i.f, <<y>>[Len(<<y>>)])
    BY <1>1, LearnQuiet DEF Results
  <2>2. QED
    BY <1>3, <1>4, <1>5, <1>6, <1>7, <2>1, ParsesUnit
<1>9. QED
  BY <1>8 DEF i, y, w, b, ReadField, WriteUint64

\* The fields of an activity are read as they were written.
LEMMA FieldsRead ==
  ASSUME NEW e, NEW x, NEW v, NEW types, IsSeq(types), NEW a, IsMem(a), a.fields = <<>>
  PROVE  Parses(e, x, v, Repeated("fields", ReadField), WriteFields(types), a,
                SetFields(a, types))
<1>1. PICK T : types \in Seq(T)
  BY DEF IsSeq
<1> DEFINE n == Len(types)
           W(t) == WriteUint64("fieldType", t) \o IF t = 0 THEN WriteUint64("intVal", 6)
                                                           ELSE WriteString("strVal")
           ws == [k \in 1..n |-> W(types[k])]
           upTo(k) == SubSeq(types, 1, k)
           Ms == [k \in 0..n |-> SetFields(a, upTo(k))]
<1>2. n \in Nat
  BY <1>1
<1>3. upTo(0) = <<>> /\ upTo(n) = types
  BY <1>1
<1>4. ASSUME NEW k \in 1..n PROVE upTo(k) = Append(upTo(k - 1), types[k])
  <2>1. /\ upTo(k) \in Seq(T) /\ Len(upTo(k)) = k
        /\ \A j \in 1..k : upTo(k)[j] = types[j]
    BY <1>1
  <2>2. /\ upTo(k - 1) \in Seq(T) /\ Len(upTo(k - 1)) = k - 1
        /\ \A j \in 1..(k - 1) : upTo(k - 1)[j] = types[j]
    BY <1>1
  <2>3. types[k] \in T
    BY <1>1, ElementOfSeq
  <2> HIDE DEF upTo
  <2>4. /\ Append(upTo(k - 1), types[k]) \in Seq(T)
        /\ Len(Append(upTo(k - 1), types[k])) = k
        /\ \A j \in 1..k : Append(upTo(k - 1), types[k])[j] = types[j]
    <3>1. /\ Append(upTo(k - 1), types[k]) \in Seq(T)
          /\ Len(Append(upTo(k - 1), types[k])) = Len(upTo(k - 1)) + 1
          /\ \A j \in 1..Len(upTo(k - 1)) : Append(upTo(k - 1), types[k])[j] = upTo(k - 1)[j]
          /\ Append(upTo(k - 1), types[k])[Len(upTo(k - 1)) + 1] = types[k]
      BY <2>2, <2>3, AppendProperties
    <3>2. QED
      BY <2>2, <3>1
  <2>5. QED
    BY <2>1, <2>4, SeqEqual
<1>5. IsSeq(ws) /\ Len(ws) = n
  <2> HIDE DEF W, n
  <2>1. QED
    BY <1>2, Listed
<1>6. ASSUME NEW k \in 1..n PROVE Parses(e, x, v, ReadField, ws[k], Ms[k - 1], Ms[k])
  <2>1. k \in 0..n /\ k - 1 \in 0..n
    BY <1>2
  <2>2. ws[k] = W(types[k])
    BY Zenon
  <2>3. Ms[k] = SetFields(a, upTo(k)) /\ Ms[k - 1] = SetFields(a, upTo(k - 1))
    BY <2>1
  <2>4. Ms[k] = SetFields(Ms[k - 1], Append(Ms[k - 1].fields, types[k]))
    <3> HIDE DEF upTo, Ms
    <3>1. PICK c : c = Ms[k - 1]
      OBVIOUS
    <3>2. c.fields = upTo(k - 1) /\ \A u : SetFields(c, u) = SetFields(a, u)
      BY <2>3, <3>1, MemFields
    <3>3. QED
      BY <1>4, <2>3, <3>1, <3>2, Zenon
  <2>5. Parses(e, x, v, ReadField, W(types[k]), Ms[k - 1],
               SetFields(Ms[k - 1], Append(Ms[k - 1].fields, types[k])))
    <3> HIDE DEF Ms
    <3>1. QED
      BY FieldRead, Zenon
  <2> HIDE DEF Ms, ws, W
  <2>6. QED
    BY <2>2, <2>4, <2>5
<1>7. IsSeq(ReadField)
  BY One DEF ReadField
<1>8. Ms[0] = a /\ Ms[n] = SetFields(a, types)
  <2>1. 0 \in 0..n /\ n \in 0..n
    BY <1>2
  <2>2. Ms[0] = SetFields(a, upTo(0)) /\ Ms[n] = SetFields(a, upTo(n))
    BY <2>1
  <2>3. SetFields(a, <<>>) = a
    BY MemFields
  <2> HIDE DEF Ms, upTo
  <2>4. QED
    BY <1>3, <2>2, <2>3
<1>9. WriteFields(types) = WriteUint64("fields", n) \o FlattenSeq(ws)
  BY DEF WriteFields
<1> HIDE DEF Ms, ws, n
<1>10. Parses(e, x, v, Repeated("fields", ReadField), WriteUint64("fields", n) \o FlattenSeq(ws), Ms[0], Ms[n])
  <2>1. "fields" \notin Kept
    BY DEF Kept
  <2>2. QED
    BY <1>2, <1>5, <1>6, <1>7, <2>1, ParsesRepeated, Zenon
<1>11. QED
  BY <1>8, <1>9, <1>10

\* The activity that a message is about: its fields follow.
LEMMA ActRead ==
  ASSUME NEW e, NEW x, NEW v, NEW a
  PROVE  Parses(e, x, v, ReadUint64("act"), WriteUint64("act", 4), a, SetFields(a, <<>>))
<1>1. Word("act", 4, 0, 0).f = "act" /\ Ins("num", "act", 0, <<>>).f = "act"
  BY DEF Word, Ins
<1>2. Parses(e, x, v, <<Ins("num", "act", 0, <<>>)>>, <<Word("act", 4, 0, 0)>>, a,
             Learn(a, Ins("num", "act", 0, <<>>), Word("act", 4, 0, 0)))
  <2>1. Minds(x, "act", Word("act", 4, 0, 0))
    BY LearnQuiet DEF Results
  <2>2. QED
    BY <1>1, <2>1, ParsesWord, Zenon
<1>3. Learn(a, Ins("num", "act", 0, <<>>), Word("act", 4, 0, 0)) = SetFields(a, <<>>)
  BY <1>1 DEF Learn, SetFields
<1>4. QED
  BY <1>2, <1>3 DEF ReadUint64, WriteUint64

\* The markers are different numbers.
LEMMA Markers ==
  /\ StderrNext \notin {StderrLast, 1, StderrError, StderrWrite, StderrStartActivity,
                       StderrStopActivity, StderrResult}
  /\ StderrError \notin {StderrLast, 1, StderrWrite, StderrStartActivity,
                        StderrStopActivity, StderrResult}
  /\ StderrWrite \notin {StderrLast, 1, StderrStartActivity, StderrStopActivity, StderrResult}
  /\ StderrStartActivity \notin {StderrLast, 1, StderrStopActivity, StderrResult}
  /\ StderrStopActivity \notin {StderrLast, 1, StderrResult}
  /\ StderrResult \notin {StderrLast, 1}
  /\ 8 \notin {StderrLast, StderrNext}
BY SMT DEF StderrLast, StderrNext, StderrError, StderrWrite, StderrStartActivity,
           StderrStopActivity, StderrResult

\* What each marker leads to.
LEMMA StreamGoesOn ==
  ASSUME NEW m, NEW n
  PROVE  /\ n = StderrLast => readStderrStream(m, n) = <<>>
         /\ n = StderrNext => readStderrStream(m, n) = ReadString("log") \o Forward("next") \o ReadMarker
         /\ n = StderrError => readStderrStream(m, n) = ReadError(m) \o FailIns
         /\ n = StderrWrite => readStderrStream(m, n) = ReadString("sink") \o ReadMarker
         /\ n = StderrStartActivity => readStderrStream(m, n) =
              ReadUint64("act") \o ReadUint64("lvl") \o ReadUint64("type")
                \o ReadString("text") \o Repeated("fields", ReadField)
                \o ReadUint64("parent") \o Forward("start") \o ReadMarker
         /\ n = StderrStopActivity => readStderrStream(m, n) =
              ReadUint64("act") \o Forward("stop") \o ReadMarker
         /\ n = StderrResult => readStderrStream(m, n) =
              ReadUint64("act") \o ReadUint64("type")
                \o Repeated("fields", ReadField) \o Forward("result") \o ReadMarker
BY Markers, SMTT(30) DEF readStderrStream

\* What a daemon says about a build, and what the proxy forwards of it, leaves
\* the reader in the stream; it keeps the fields of the last activity.
LEMMA StderrRead1 ==
  ASSUME NEW e, NEW x, NEW v, NEW types, IsSeq(types), NEW a, IsMem(a)
  PROVE  /\ Hums(e, x, v, WriteStderr("next", types), a, a)
         /\ Hums(e, x, v, WriteStderr("start", types), a, SetFields(a, types))
         /\ Hums(e, x, v, WriteStderr("stop", types), a, SetFields(a, <<>>))
         /\ Hums(e, x, v, WriteStderr("result", types), a, SetFields(a, types))
         /\ Hums(e, x, v, WriteUint64("marker", StderrWrite) \o WriteString("sink"), a, a)
<1> DEFINE m == MinorOf(v)
           c == SetFields(a, <<>>)
           b == SetFields(a, types)
<1>1. /\ readStderrStream(m, StderrNext) = ReadString("log") \o Forward("next") \o ReadMarker
      /\ readStderrStream(m, StderrWrite) = ReadString("sink") \o ReadMarker
      /\ readStderrStream(m, StderrStartActivity) =
           ReadUint64("act") \o ReadUint64("lvl") \o ReadUint64("type")
             \o ReadString("text") \o Repeated("fields", ReadField)
             \o ReadUint64("parent") \o Forward("start") \o ReadMarker
      /\ readStderrStream(m, StderrStopActivity) =
           ReadUint64("act") \o Forward("stop") \o ReadMarker
      /\ readStderrStream(m, StderrResult) =
           ReadUint64("act") \o ReadUint64("type")
             \o Repeated("fields", ReadField) \o Forward("result") \o ReadMarker
  BY Markers, StreamGoesOn, Zenon
<1>2. "next" \in Events /\ "start" \in Events /\ "stop" \in Events /\ "result" \in Events
  BY DEF Events
<1>3. /\ IsMem(c) /\ c.fields = <<>> /\ SetFields(c, types) = b
  <2>1. PICK t : t = <<>>
    OBVIOUS
  <2>2. PICK d : d = SetFields(a, t)
    OBVIOUS
  <2>3. /\ IsMem(d) /\ d.fields = t /\ SetFields(d, types) = b
    <3>1. IsMem(d)
      BY <2>2, MemFields
    <3>2. d.fields = t
      BY <2>2, MemFields
    <3>3. SetFields(d, types) = b
      BY <2>2, MemFields
    <3>4. QED
      BY <3>1, <3>2, <3>3
  <2>4. c = d
    BY <2>1, <2>2
  <2> HIDE DEF c
  <2>5. QED
    BY <2>1, <2>3, <2>4
<1>4. /\ Parses(e, x, v, ReadUint64("act"), WriteUint64("act", 4), a, c)
      /\ Parses(e, x, v, Repeated("fields", ReadField), WriteFields(types), c, b)
  <2> HIDE DEF c, b
  <2>1. Parses(e, x, v, Repeated("fields", ReadField), WriteFields(types), c, SetFields(c, types))
    BY <1>3, FieldsRead
  <2>2. QED
    BY <1>3, <2>1, ActRead DEF c
<1> HIDE DEF c, b, m
<1>5. \A d : /\ Parses(e, x, v, ReadUint64("lvl"), WriteUint64("lvl", 3), d, d)
             /\ Parses(e, x, v, ReadUint64("type"), WriteUint64("type", 105), d, d)
             /\ Parses(e, x, v, ReadUint64("parent"), WriteUint64("parent", 0), d, d)
             /\ Parses(e, x, v, ReadString("text"), WriteString("text"), d, d)
             /\ Parses(e, x, v, ReadString("log"), WriteString("log"), d, d)
             /\ Parses(e, x, v, ReadString("sink"), WriteString("sink"), d, d)
  BY ParsesNum, ParsesString DEF Kept
<1>6. IsSeq(WriteFields(types))
  BY <1>4 DEF Parses
<1>7. Hums(e, x, v, WriteUint64("marker", StderrNext) \o WriteString("log"), a, a)
  BY <1>1, <1>2, <1>5, HumsBy, Zenon DEF m
<1>8. Hums(e, x, v, WriteUint64("marker", StderrWrite) \o WriteString("sink"), a, a)
  BY <1>1, <1>2, <1>5, HumsBy, Zenon DEF m
<1>9. Hums(e, x, v, WriteUint64("marker", StderrStopActivity) \o WriteUint64("act", 4), a, c)
  BY <1>1, <1>2, <1>4, HumsBy, Zenon DEF m
<1>10. Hums(e, x, v, WriteUint64("marker", StderrStartActivity) \o WriteUint64("act", 4)
                       \o WriteUint64("lvl", 3) \o WriteUint64("type", 105)
                       \o WriteString("text") \o WriteFields(types)
                       \o WriteUint64("parent", 0), a, b)
  <2>1. PICK k, act, lvl, type, text, fields, parent :
          /\ k = WriteUint64("marker", StderrStartActivity)
          /\ act = WriteUint64("act", 4) /\ lvl = WriteUint64("lvl", 3)
          /\ type = WriteUint64("type", 105) /\ text = WriteString("text")
          /\ fields = WriteFields(types) /\ parent = WriteUint64("parent", 0)
    OBVIOUS
  <2> DEFINE p == ReadUint64("act") \o ReadUint64("lvl") \o ReadUint64("type")
                    \o ReadString("text") \o Repeated("fields", ReadField) \o ReadUint64("parent")
             w == act \o lvl \o type \o text \o fields \o parent
             X == k \o act \o lvl \o type \o text \o fields \o parent
  <2>2. Parses(e, x, v, ReadUint64("act"), act, a, c) /\ Parses(e, x, v, Repeated("fields", ReadField), fields, c, b)
    BY <1>4, <2>1
  <2>3. \A d : /\ Parses(e, x, v, ReadUint64("lvl"), lvl, d, d)
               /\ Parses(e, x, v, ReadUint64("type"), type, d, d)
               /\ Parses(e, x, v, ReadString("text"), text, d, d)
               /\ Parses(e, x, v, ReadUint64("parent"), parent, d, d)
    BY <1>5, <2>1
  <2>4. IsSeq(k) /\ IsSeq(act) /\ IsSeq(lvl) /\ IsSeq(type) /\ IsSeq(text) /\ IsSeq(fields) /\ IsSeq(parent)
    BY <1>6, <2>1, EndsRules
  <2>5. Parses(e, x, v, p, w, a, b)
    BY <2>2, <2>3, ParsesJoin, Zenon
  <2>6. Starts(k, X, w)
    BY <2>4, StartsRules, Zenon
  <2> HIDE DEF w
  <2>7. Hums(e, x, v, WriteUint64("marker", StderrStartActivity) \o w, a, b)
    BY <1>1, <1>2, <2>5, HumsBy, Zenon DEF m
  <2>8. Hums(e, x, v, X, a, b)
    BY <2>1, <2>6, <2>7, Zenon DEF Starts
  <2>9. QED
    BY <2>1, <2>8
<1>11. Hums(e, x, v, WriteUint64("marker", StderrResult) \o WriteUint64("act", 4)
                       \o WriteUint64("type", 105) \o WriteFields(types), a, b)
  <2> DEFINE p == ReadUint64("act") \o ReadUint64("type") \o Repeated("fields", ReadField)
             w == WriteUint64("act", 4) \o WriteUint64("type", 105) \o WriteFields(types)
             X == WriteUint64("marker", StderrResult) \o WriteUint64("act", 4)
                       \o WriteUint64("type", 105) \o WriteFields(types)
  <2>1. Parses(e, x, v, p, w, a, b)
    BY <1>4, <1>5, ParsesJoin, ZenonT(60)
  <2>2. Starts(WriteUint64("marker", StderrResult), X, w)
    BY <1>6, EndsRules, StartsRules, ZenonT(60)
  <2> HIDE DEF w
  <2>3. Hums(e, x, v, WriteUint64("marker", StderrResult) \o w, a, b)
    BY <1>1, <1>2, <2>1, HumsBy, Zenon DEF m
  <2>4. QED
    BY <2>2, <2>3, Zenon DEF Starts
<1>12. QED
  BY <1>7, <1>8, <1>9, <1>10, <1>11 DEF WriteStderr, c, b

\* All that a daemon says before it answers.
LEMMA ChatterRead ==
  ASSUME NEW e, NEW x, NEW v, NEW h \in Environment, NEW a, IsMem(a), a.fields = <<>>
  PROVE  Hums(e, x, v, Chatter(h), a, a)
<1>1. h.chat \in Chats
  BY DEF Environment
<1>2. CASE h.chat = "none"
  BY <1>2, Nil, ReachesNow DEF Chatter, Hums
<1>3. CASE h.chat = "next"
  BY <1>3, Nil, StderrRead1 DEF Chatter
<1>4. CASE h.chat = "write"
  BY <1>4, Nil, StderrRead1 DEF Chatter
<1>5. CASE h.chat = "activity"
  <2> DEFINE b == SetFields(a, <<0, 1>>)
             c == SetFields(b, <<1>>)
  <2>1. IsSeq(<<0, 1>>) /\ IsSeq(<<1>>)
    <3>1. <<0, 1>> \in Seq({0, 1})
      OBVIOUS
    <3>2. QED
      BY <3>1, One, Zenon DEF IsSeq
  <2>2. IsMem(b) /\ IsMem(c) /\ SetFields(c, <<>>) = a
    <3>1. IsMem(b) /\ \A t : SetFields(b, t) = SetFields(a, t)
      BY MemFields
    <3> HIDE DEF b
    <3>2. IsMem(c) /\ \A t : SetFields(c, t) = SetFields(b, t)
      BY <3>1, MemFields
    <3> HIDE DEF c
    <3>3. QED
      BY <3>1, <3>2, MemFields
  <2> HIDE DEF b, c
  <2>3. Hums(e, x, v, WriteStderr("start", <<0, 1>>), a, b)
    BY <2>1, StderrRead1 DEF b
  <2>4. Hums(e, x, v, WriteStderr("result", <<1>>), b, c)
    BY <2>1, <2>2, StderrRead1 DEF c
  <2>5. Hums(e, x, v, WriteStderr("stop", <<>>), c, a)
    BY <2>2, Nil, StderrRead1
  <2>6. QED
    BY <1>5, <2>3, <2>4, <2>5, HumsJoin DEF Chatter
<1>6. QED
  BY <1>1, <1>2, <1>3, <1>4, <1>5 DEF Chats

\* The stream ends in an error.
Fails(e, x, v, w, a) ==
  /\ IsSeq(w)
  /\ Reaches(e, x, "read", St(ReadMarker, a, v, w), St(FailIns, a, v, <<>>))

\* An error message is read up to the instruction that ends in an error.
LEMMA FailsBy ==
  ASSUME NEW e, NEW x, NEW v, NEW w, NEW a, Parses(e, x, v, ReadError(MinorOf(v)), w, a, a)
  PROVE  Fails(e, x, v, WriteUint64("marker", StderrError) \o w, a)
<1> DEFINE p == ReadError(MinorOf(v))
<1>1. /\ IsSeq(p) /\ IsSeq(w)
      /\ Reaches(e, x, "read", St(p, a, v, w), St(<<>>, a, v, <<>>))
  BY DEF Parses
<1>2. readStderrStream(MinorOf(v), StderrError) = p \o FailIns
  BY StreamGoesOn
<1> HIDE DEF p
<1>3. IsSeq(FailIns)
  BY One, Zenon DEF FailIns
<1>4. IsSeq(p \o FailIns) /\ <<>> \o FailIns = FailIns /\ w \o <<>> = w /\ <<>> \o <<>> = <<>>
  BY <1>1, <1>3, Nil, Join
<1>5. /\ IsSeq(WriteUint64("marker", StderrError) \o w)
      /\ Reaches(e, x, "read", St(ReadMarker, a, v, WriteUint64("marker", StderrError) \o w),
                 St(p \o FailIns, a, v, w))
  BY <1>1, <1>2, <1>4, MarkerStep, Zenon
<1>6. Reaches(e, x, "read", With(St(p, a, v, w), FailIns, <<>>), With(St(<<>>, a, v, <<>>), FailIns, <<>>))
  BY <1>1, <1>3, Nil, ReachesWith
<1>7. /\ With(St(p, a, v, w), FailIns, <<>>) = St(p \o FailIns, a, v, w)
      /\ With(St(<<>>, a, v, <<>>), FailIns, <<>>) = St(FailIns, a, v, <<>>)
  BY <1>4 DEF With, St
<1>8. QED
  BY <1>5, <1>6, <1>7, ReachesThen DEF Fails

\* The errors of the proxy and of a daemon, with a position and traces or without.
LEMMA ErrorRead ==
  ASSUME NEW e, NEW x, NEW v, NEW h, NEW a
  PROVE  /\ Fails(e, x, v, StopWorkWithError(MinorOf(v)), a)
         /\ Fails(e, x, v, PeerError(h, MinorOf(v)), a)
<1> DEFINE Ok(p, w) == Skims(e, x, v, p, w)
           m == MinorOf(v)
           trace == Optional("haveTracePos", ReadPos) \o ReadString("hint")
<1>1. /\ \A p, w, q, u : Ok(p, w) /\ Ok(q, u) => Ok(p \o q, w \o u)
      /\ \A f, n : f \notin Kept => Ok(ReadUint64(f), WriteUint64(f, n))
      /\ \A f : f \notin Kept => Ok(ReadString(f), WriteString(f))
      /\ \A f : f \notin Kept => Ok(ReadString(f), WriteEmpty(f))
      /\ \A f, n, p, w : f \notin Kept /\ (n # 0 => Ok(p, w))
              => Ok(Optional(f, p), WriteUint64(f, n) \o When(n # 0, w))
  BY SkimsRules, Zenon
<1>2. IsSeq(trace)
  BY One, Join DEF Optional, ReadString
<1>3. /\ Ok(Repeated("traces", trace), WriteUint64("traces", 0))
      /\ \A w, u : Ok(trace, w) /\ Ok(trace, u) => Ok(Repeated("traces", trace), WriteUint64("traces", 2) \o (w \o u))
  <2> HIDE DEF trace
  <2>1. "traces" \notin Kept
    BY DEF Kept
  <2>2. QED
    BY <1>2, <2>1, SkimsRepeated, Zenon
<1>4. \A w : Ok(ReadError(m), w) => Fails(e, x, v, WriteUint64("marker", StderrError) \o w, a)
  BY FailsBy DEF Skims
<1> HIDE DEF Ok, m
<1>5. /\ Ok(ReadString("errType"), WriteString("errType"))
      /\ Ok(ReadUint64("errLevel"), WriteUint64("errLevel", 0))
      /\ Ok(ReadString("errName"), WriteEmpty("errName"))
      /\ Ok(ReadString("errMsg"), WriteString("errMsg"))
      /\ Ok(ReadUint64("errStatus"), WriteUint64("errStatus", 1))
      /\ Ok(ReadString("file"), WriteString("file"))
      /\ Ok(ReadUint64("line"), WriteUint64("line", 3))
      /\ Ok(ReadUint64("column"), WriteUint64("column", 4))
      /\ Ok(ReadString("hint"), WriteString("hint"))
  BY <1>1 DEF Kept
<1>6. /\ Ok(Optional("havePos", ReadPos), WriteUint64("havePos", 0))
      /\ Ok(Optional("haveTracePos", ReadPos), WriteUint64("haveTracePos", 0))
  <2>1. \A f : WriteUint64(f, 0) \o When(0 # 0, <<>>) = WriteUint64(f, 0)
    BY One, Nil, Join DEF WriteUint64, When
  <2>2. "havePos" \notin Kept /\ "haveTracePos" \notin Kept
    BY DEF Kept
  <2>3. QED
    BY <1>1, <2>1, <2>2, Zenon
<1>7. Fails(e, x, v, StopWorkWithError(m), a)
  <2>1. CASE m >= 26
    <3>1. PICK k, t, l, n, g, h0, r0 :
            /\ k = WriteUint64("marker", StderrError) /\ t = WriteString("errType")
            /\ l = WriteUint64("errLevel", 0) /\ n = WriteEmpty("errName")
            /\ g = WriteString("errMsg") /\ h0 = WriteUint64("havePos", 0)
            /\ r0 = WriteUint64("traces", 0)
      OBVIOUS
    <3> DEFINE w == t \o l \o n \o g \o h0 \o r0
    <3>2. ReadError(m) = ReadString("errType") \o ReadUint64("errLevel") \o ReadString("errName")
                           \o ReadString("errMsg") \o Optional("havePos", ReadPos)
                           \o Repeated("traces", trace)
      BY <2>1 DEF ReadError
    <3>3. Ok(ReadError(m), w)
      <4> HIDE DEF trace
      <4>1. /\ Ok(ReadString("errType"), t) /\ Ok(ReadUint64("errLevel"), l)
            /\ Ok(ReadString("errName"), n) /\ Ok(ReadString("errMsg"), g)
            /\ Ok(Optional("havePos", ReadPos), h0) /\ Ok(Repeated("traces", trace), r0)
        BY <1>3, <1>5, <1>6, <3>1
      <4>2. QED
        BY <1>1, <3>2, <4>1, Zenon
    <3>4. StopWorkWithError(m) = k \o w
      BY <2>1, <3>1, Zenon DEF StopWorkWithError
    <3> HIDE DEF w
    <3>5. QED
      BY <1>4, <3>1, <3>3, <3>4
  <2>2. CASE ~(m >= 26)
    <3>1. ReadError(m) = ReadString("errMsg") \o ReadUint64("errStatus")
      BY <2>2 DEF ReadError
    <3>2. Ok(ReadError(m), WriteString("errMsg") \o WriteUint64("errStatus", 1))
      BY <1>1, <1>5, <3>1
    <3>3. StopWorkWithError(m) = WriteUint64("marker", StderrError)
                                   \o (WriteString("errMsg") \o WriteUint64("errStatus", 1))
      BY <2>2, Zenon DEF StopWorkWithError
    <3>4. QED
      BY <1>4, <3>2, <3>3
  <2>3. QED
    BY <2>1, <2>2
<1>8. Fails(e, x, v, PeerError(h, m), a)
  <2>1. CASE h.error = "positioned" /\ m >= 26
    <3>1. PICK k, t, l, n, g, h1, pos, r2, t0, t1, i :
            /\ k = WriteUint64("marker", StderrError) /\ t = WriteString("errType")
            /\ l = WriteUint64("errLevel", 0) /\ n = WriteEmpty("errName")
            /\ g = WriteString("errMsg") /\ h1 = WriteUint64("havePos", 1)
            /\ pos = WriteString("file") \o WriteUint64("line", 3) \o WriteUint64("column", 4)
            /\ r2 = WriteUint64("traces", 2) /\ t0 = WriteUint64("haveTracePos", 0)
            /\ t1 = WriteUint64("haveTracePos", 1) /\ i = WriteString("hint")
      BY Zenon
    <3>2. PeerError(h, m) = k \o t \o l \o n \o g \o h1 \o pos \o r2 \o t0 \o i \o t1 \o pos \o i
      BY <2>1, <3>1, Zenon DEF PeerError
    <3>3. /\ IsSeq(k) /\ IsSeq(t) /\ IsSeq(l) /\ IsSeq(n) /\ IsSeq(g) /\ IsSeq(h1) /\ IsSeq(pos)
          /\ IsSeq(r2) /\ IsSeq(t0) /\ IsSeq(t1) /\ IsSeq(i)
      BY <3>1, EndsRules
    <3>4. PICK b : b = t \o l \o n \o g
      BY Zenon
    <3>5. PICK y0 : y0 = t0 \o i
      BY Zenon
    <3>6. PICK y1 : y1 = t1 \o pos \o i
      BY Zenon
    <3>7. PICK o : o = h1 \o pos
      BY Zenon
    <3>8. IsSeq(b) /\ IsSeq(y0) /\ IsSeq(y1) /\ IsSeq(o)
      BY <3>3, <3>4, <3>5, <3>6, <3>7, Join
    <3>9. PICK f : f = k \o t \o l \o n \o g \o h1 \o pos
      BY Zenon
    <3>10. f = k \o (b \o o) /\ IsSeq(b \o o)
      <4>1. Starts(k, f, t \o l \o n \o g \o h1 \o pos)
        BY <3>3, <3>9, StartsRules, Zenon
      <4>2. b \o h1 \o pos = b \o o
        <5>0. IsSeq(b) /\ IsSeq(h1) /\ IsSeq(pos)
          BY <3>3, <3>8
        <5>1. b \o h1 \o pos = b \o (h1 \o pos)
          <6>1. Assoc(b, h1, pos)
            BY <5>0, JoinAssoc3
          <6>2. QED
            BY <6>1 DEF Assoc
        <5>2. QED
          BY <3>7, <5>1
      <4>3. QED
        BY <3>4, <4>1, <4>2 DEF Starts
    <3>11. PICK q : q = r2 \o (y0 \o y1)
      BY Zenon
    <3>12. f \o r2 \o t0 \o i \o t1 \o pos \o i = f \o q /\ IsSeq(f) /\ IsSeq(q)
      <4>1. IsSeq(f) /\ IsSeq(y0 \o y1)
        BY <3>3, <3>8, <3>9, Join
      <4>2. PICK z : z = f \o r2
        BY Zenon
      <4>3. IsSeq(z) /\ IsSeq(q)
        BY <3>3, <3>11, <4>1, <4>2, Join
      <4>4. z \o t0 \o i = z \o y0
        <5>0. IsSeq(z) /\ IsSeq(t0) /\ IsSeq(i)
          BY <3>3, <4>3
        <5>1. z \o t0 \o i = z \o (t0 \o i)
          <6>1. Assoc(z, t0, i)
            BY <5>0, JoinAssoc3
          <6>2. QED
            BY <6>1 DEF Assoc
        <5>2. QED
          BY <3>5, <5>1
      <4>5. IsSeq(z \o y0)
        BY <3>8, <4>3, Join
      <4>6. Starts(z \o y0, (z \o y0) \o t1 \o pos \o i, t1 \o pos \o i)
        BY <3>3, <4>5, StartsRules, Zenon
      <4>7. (z \o y0) \o t1 \o pos \o i = (z \o y0) \o y1
        BY <3>6, <4>6 DEF Starts
      <4>8. (z \o y0) \o y1 = z \o (y0 \o y1)
        <5>0. IsSeq(z) /\ IsSeq(y0) /\ IsSeq(y1)
          BY <3>8, <4>3
        <5>1. QED
          <6>1. Assoc(z, y0, y1)
            BY <5>0, JoinAssoc3
          <6>2. QED
            BY <6>1 DEF Assoc
      <4>9. z \o (y0 \o y1) = f \o q
        <5>1. PICK u : u = y0 \o y1
          BY Zenon
        <5>2. IsSeq(f) /\ IsSeq(r2) /\ IsSeq(u)
          BY <3>3, <4>1, <5>1
        <5>3. (f \o r2) \o u = f \o (r2 \o u)
          <6>1. Assoc(f, r2, u)
            BY <5>2, JoinAssoc3
          <6>2. QED
            BY <6>1 DEF Assoc
        <5>4. QED
          BY <3>11, <4>2, <5>1, <5>3
      <4>10. QED
        BY <4>1, <4>2, <4>3, <4>4, <4>7, <4>8, <4>9
    <3>13. PeerError(h, m) = k \o ((b \o o) \o q)
      <4>1. (k \o (b \o o)) \o q = k \o ((b \o o) \o q)
        <5>0. IsSeq(k) /\ IsSeq(b \o o) /\ IsSeq(q)
          BY <3>3, <3>10, <3>12
        <5>1. QED
          <6>1. Assoc(k, (b \o o), q)
            BY <5>0, JoinAssoc3
          <6>2. QED
            BY <6>1 DEF Assoc
      <4>2. QED
        BY <3>2, <3>9, <3>10, <3>12, <4>1
    <3>14. Ok(ReadPos, pos)
      BY <1>1, <1>5, <3>1 DEF ReadPos
    <3>15. \A w : 1 # 0 /\ When(1 # 0, w) = w
      BY DEF When
    <3>16. Ok(Optional("havePos", ReadPos), o) /\ Ok(trace, y0) /\ Ok(trace, y1)
      <4>1. "havePos" \notin Kept /\ "haveTracePos" \notin Kept
        BY DEF Kept
      <4>2. Ok(Optional("havePos", ReadPos), o) /\ Ok(Optional("haveTracePos", ReadPos), t1 \o pos)
        BY <1>1, <3>1, <3>7, <3>14, <3>15, <4>1, SMTT(30)
      <4>3. Ok(trace, y0)
        BY <1>1, <1>5, <1>6, <3>1, <3>5
      <4>4. Ok(trace, y1)
        BY <1>1, <1>5, <3>1, <3>6, <4>2
      <4>5. QED
        BY <4>2, <4>3, <4>4
    <3> HIDE DEF trace
    <3>17. Ok(Repeated("traces", trace), q)
      BY <1>3, <3>1, <3>11, <3>16
    <3>18. Ok(ReadString("errType") \o ReadUint64("errLevel") \o ReadString("errName")
                           \o ReadString("errMsg"), b)
      BY <1>1, <1>5, <3>1, <3>4
    <3>19. ReadError(m) = ReadString("errType") \o ReadUint64("errLevel") \o ReadString("errName")
                           \o ReadString("errMsg") \o Optional("havePos", ReadPos)
                           \o Repeated("traces", trace)
      BY <2>1 DEF ReadError, trace
    <3>20. Ok(ReadError(m), (b \o o) \o q)
      BY <1>1, <3>16, <3>17, <3>18, <3>19
    <3>21. QED
      BY <1>4, <3>1, <3>13, <3>20
  <2>2. CASE ~(h.error = "positioned" /\ m >= 26)
    BY <1>7, <2>2 DEF PeerError
  <2>3. QED
    BY <2>1, <2>2
<1>9. QED
  BY <1>7, <1>8 DEF m

\* The end of the stream.
LEMMA LastRead ==
  ASSUME NEW e, NEW x, NEW v, NEW a
  PROVE  Parses(e, x, v, ReadMarker, WriteUint64("marker", StderrLast), a, a)
<1>1. readStderrStream(MinorOf(v), StderrLast) = <<>>
  BY StreamGoesOn
<1>2. /\ IsSeq(WriteUint64("marker", StderrLast) \o <<>>)
      /\ Reaches(e, x, "read", St(ReadMarker, a, v, WriteUint64("marker", StderrLast) \o <<>>),
                 St(<<>>, a, v, <<>>))
  BY <1>1, Nil, MarkerStep, Zenon
<1>3. WriteUint64("marker", StderrLast) \o <<>> = WriteUint64("marker", StderrLast)
  BY EndsRules, Nil, Join
<1>4. IsSeq(ReadMarker) /\ IsSeq(WriteUint64("marker", StderrLast))
  BY One, EndsRules DEF ReadMarker
<1>5. QED
  BY <1>2, <1>3, <1>4 DEF Parses

\* A part of the stream, and then a message or an error.
LEMMA HumsThen ==
  ASSUME NEW e, NEW x, NEW v, NEW w, NEW a, NEW b, NEW u, NEW c, Hums(e, x, v, w, a, b)
  PROVE  /\ Parses(e, x, v, ReadMarker, u, b, c) => Parses(e, x, v, ReadMarker, w \o u, a, c)
         /\ Fails(e, x, v, u, b) /\ b = a => Fails(e, x, v, w \o u, a)
<1>1. /\ IsSeq(w)
      /\ Reaches(e, x, "read", St(ReadMarker, a, v, w), St(ReadMarker, b, v, <<>>))
  BY DEF Hums
<1>2. ASSUME IsSeq(u)
      PROVE  IsSeq(w \o u) /\ Reaches(e, x, "read", St(ReadMarker, a, v, w \o u), St(ReadMarker, b, v, u))
  <2>1. Reaches(e, x, "read", With(St(ReadMarker, a, v, w), <<>>, u), With(St(ReadMarker, b, v, <<>>), <<>>, u))
    BY <1>1, <1>2, Nil, ReachesWith
  <2>2. <<>> \o u = u /\ IsSeq(w \o u)
    BY <1>1, <1>2, Join
  <2>3. ReadMarker \o <<>> = ReadMarker
    BY One, Nil, Join DEF ReadMarker
  <2>4. /\ With(St(ReadMarker, a, v, w), <<>>, u) = St(ReadMarker, a, v, w \o u)
        /\ With(St(ReadMarker, b, v, <<>>), <<>>, u) = St(ReadMarker, b, v, u)
    BY <2>2, <2>3 DEF With, St
  <2>5. QED
    BY <2>1, <2>2, <2>4
<1>3. ASSUME Parses(e, x, v, ReadMarker, u, b, c)
      PROVE  Parses(e, x, v, ReadMarker, w \o u, a, c)
  <2>1. IsSeq(ReadMarker) /\ IsSeq(u) /\ Reaches(e, x, "read", St(ReadMarker, b, v, u), St(<<>>, c, v, <<>>))
    BY <1>3 DEF Parses
  <2>2. QED
    BY <1>2, <2>1, ReachesThen DEF Parses
<1>4. ASSUME Fails(e, x, v, u, b), b = a
      PROVE  Fails(e, x, v, w \o u, a)
  <2>1. IsSeq(u) /\ Reaches(e, x, "read", St(ReadMarker, b, v, u), St(FailIns, b, v, <<>>))
    BY <1>4 DEF Fails
  <2>2. QED
    BY <1>2, <1>4, <2>1, ReachesThen DEF Fails
<1>5. QED
  BY <1>3, <1>4

\* The stream of a daemon that ends well, and one that ends in an error.
LEMMA StreamRead ==
  ASSUME NEW e, NEW x, NEW v, NEW h \in Environment, NEW a, IsMem(a), a.fields = <<>>
  PROVE  /\ Parses(e, x, v, ReadMarker, LastMarker(h), a, a)
         /\ Fails(e, x, v, Chatter(h) \o PeerError(h, MinorOf(v)), a)
<1>1. Hums(e, x, v, Chatter(h), a, a)
  BY ChatterRead
<1>2. QED
  BY <1>1, LastRead, ErrorRead, HumsThen DEF LastMarker

-----------------------------------------------------------------------------
(* The derivation, its result, path infos and signatures *)

\* A change of one field of what a reader keeps.
MemNames == {"status", "cpu", "outs", "drv", "fields", "path", "narHash", "narSize", "sig"}
Set1(a, k, t) == [a EXCEPT ![k] = t]

\* Setting one thing that is known changes nothing else.
LEMMA MemSet ==
  ASSUME NEW a, IsMem(a), NEW k \in MemNames, NEW t, NEW b, b = Set1(a, k, t)
  PROVE  /\ IsMem(b) /\ b[k] = t /\ \A j \in MemNames : j # k => b[j] = a[j]
         /\ \A u : Set1(b, k, u) = Set1(a, k, u)
         /\ a[k] = t => b = a
<1>1. DOMAIN a = MemNames
  BY DEF IsMem, MemNames
<1>2. a = [y \in DOMAIN a |-> a[y]]
  BY DEF IsMem
<1>3. /\ DOMAIN b = DOMAIN a /\ b = [y \in DOMAIN a |-> IF y = k THEN t ELSE a[y]]
  BY <1>2, Zenon DEF Set1
<1>4. b[k] = t /\ \A j \in MemNames : j # k => b[j] = a[j]
  BY <1>1, <1>3
<1>5. IsMem(b)
  BY <1>1, <1>3 DEF IsMem, MemNames
<1>6. ASSUME NEW u PROVE Set1(b, k, u) = Set1(a, k, u)
  BY <1>1, <1>2, <1>3, Zenon DEF Set1
<1>7. a[k] = t => b = a
  BY <1>2 DEF Set1
<1>8. QED
  BY <1>4, <1>5, <1>6, <1>7

\* The output of a derivation.
LEMMA OutputRead ==
  ASSUME NEW e, NEW x, Learns(x), NEW v, NEW o, NEW a
  PROVE  Parses(e, x, v, ReadString("outName") \o ReadDerivationOutput,
                WriteString("outName") \o WriteDerivationOutput(o), a, Set1(a, "drv", a.drv \union {o}))
<1>1. PICK b : b = Set1(a, "drv", a.drv \union {o})
  OBVIOUS
<1>2. Parses(e, x, v, ReadString("outPath"), WriteStringOf("outPath", o, 0), a, b)
  <2>1. Learn(a, Ins("str", "outPath", 0, <<>>), Word("outPath", Characters, o, 0)) = b
    BY <1>1, Zenon DEF Learn, Ins, Word, Set1
  <2>2. QED
    <3>1. Minds(x, "outPath", Word("outPath", Characters, o, 0))
      BY LearnQuiet, Zenon
    <3>2. QED
      BY <2>1, <3>1, ParsesStringOf
<1>3. \A c : /\ Parses(e, x, v, ReadString("outName"), WriteString("outName"), c, c)
             /\ Parses(e, x, v, ReadString("hashAlgo"), WriteEmpty("hashAlgo"), c, c)
             /\ Parses(e, x, v, ReadString("hash"), WriteEmpty("hash"), c, c)
  BY ParsesString, ParsesEmpty DEF Kept
<1>4. QED
  BY <1>1, <1>2, <1>3, ParsesJoin, Zenon DEF ReadDerivationOutput, WriteDerivationOutput

\* The outputs of a derivation, in the order in which they are written.
LEMMA OutputsRead ==
  ASSUME NEW e, NEW x, Learns(x), NEW v, NEW S, IsFiniteSet(S), NEW a, IsMem(a), NEW ws,
         ws = [i \in 1..Cardinality(S) |->
                 WriteString("outName") \o WriteDerivationOutput(SetToSeq(S)[i])]
  PROVE  Parses(e, x, v, Repeated("drvOutputs", ReadString("outName") \o ReadDerivationOutput),
                WriteUint64("drvOutputs", Cardinality(S)) \o FlattenSeq(ws),
                a, Set1(a, "drv", a.drv \union S))
<1> DEFINE n == Cardinality(S)
           p == ReadString("outName") \o ReadDerivationOutput
           O(k) == {SetToSeq(S)[j] : j \in 1..k}
           Ms == [k \in 0..n |-> Set1(a, "drv", a.drv \union O(k))]
<1>1. n \in Nat /\ SetToSeq(S) \in [1..n -> S] /\ S = O(n)
  BY SetToSeqAll
<1>2. IsSeq(ws) /\ Len(ws) = n
  <2>1. DOMAIN ws = 1..n /\ ws = [k \in 1..n |-> ws[k]]
    OBVIOUS
  <2>2. QED
    BY <1>1, <2>1, Listed
<1>3. "drv" \in MemNames
  BY DEF MemNames
<1>4. ASSUME NEW k \in 1..n PROVE Parses(e, x, v, p, ws[k], Ms[k - 1], Ms[k])
  <2>1. k \in 0..n /\ k - 1 \in 0..n
    BY <1>1
  <2>2. ws[k] = WriteString("outName") \o WriteDerivationOutput(SetToSeq(S)[k])
    OBVIOUS
  <2>3. PICK c : c = Ms[k - 1]
    BY Zenon
  <2>4. PICK d : d = Ms[k]
    BY Zenon
  <2>5. c = Set1(a, "drv", a.drv \union O(k - 1)) /\ d = Set1(a, "drv", a.drv \union O(k))
    BY <2>1, <2>3, <2>4
  <2>6. O(k) = O(k - 1) \union {SetToSeq(S)[k]}
    <3>1. \A j : j \in 1..k <=> j \in 1..(k - 1) \/ j = k
      BY <1>1
    <3>2. QED
      BY <3>1, Zenon
  <2> HIDE DEF O, Ms
  <2>7. c["drv"] = a.drv \union O(k - 1) /\ \A u : Set1(c, "drv", u) = Set1(a, "drv", u)
    BY <1>3, <2>5, MemSet
  <2>8. c.drv \union {SetToSeq(S)[k]} = a.drv \union O(k)
    BY <2>6, <2>7
  <2>9. d = Set1(c, "drv", c.drv \union {SetToSeq(S)[k]})
    BY <2>5, <2>7, <2>8, Zenon
  <2>10. Parses(e, x, v, p, ws[k], c, d)
    BY <2>2, <2>9, OutputRead
  <2>11. QED
    BY <2>3, <2>4, <2>10
<1>5. Ms[0] = a /\ Ms[n] = Set1(a, "drv", a.drv \union S)
  <2>1. 0 \in 0..n /\ n \in 0..n
    BY <1>1
  <2>2. Ms[0] = Set1(a, "drv", a.drv \union O(0)) /\ Ms[n] = Set1(a, "drv", a.drv \union O(n))
    BY <2>1
  <2>3. O(0) = {}
    OBVIOUS
  <2> HIDE DEF Ms, O
  <2>4. a["drv"] = a.drv \union O(0)
    BY <2>3
  <2>5. Ms[0] = a
    <3>1. PICK c, t : c = Ms[0] /\ t = a.drv \union O(0)
      BY Zenon
    <3>2. c = Set1(a, "drv", t) /\ a["drv"] = t
      BY <2>2, <2>4, <3>1
    <3>3. c = a
      BY <1>3, <3>2, MemSet
    <3>4. QED
      BY <3>1, <3>3
  <2>6. QED
    BY <1>1, <2>2, <2>5, Zenon
<1>6. IsSeq(p)
  BY One, Join DEF ReadString, ReadDerivationOutput
<1>7. "drvOutputs" \notin Kept
  BY DEF Kept
<1> HIDE DEF Ms, n, p
<1>8. Parses(e, x, v, Repeated("drvOutputs", p), WriteUint64("drvOutputs", n) \o FlattenSeq(ws), Ms[0], Ms[n])
  BY <1>1, <1>2, <1>4, <1>6, <1>7, ParsesRepeated, Zenon
<1>9. QED
  BY <1>5, <1>8 DEF n, p

\* BuildDerivation: its arguments after the opcode.
BuildWords(S) ==
  WriteString("drvPath") \o WriteBasicDerivation(S) \o WriteUint64("buildMode", 0)

\* handleBuildDerivation and the builder read the derivation as ExecuteBuild
\* writes it, with any number of outputs.
THEOREM BuildArgsRead ==
  ASSUME NEW e, NEW x, Learns(x), NEW v, NEW S, IsFiniteSet(S), NEW a, IsMem(a)
  PROVE  /\ Parses(e, x, v, ReadBuildArgs, BuildWords(S), a, Set1(a, "drv", a.drv \union S))
         /\ WriteBuildArgs(S) = WriteUint64("op", OpBuildDerivation) \o BuildWords(S)
         /\ Ends(WriteBuildArgs(S))
<1>1. PICK b : b = Set1(a, "drv", a.drv \union S)
  OBVIOUS
<1>2. PICK ws : ws = [i \in 1..Cardinality(S) |->
                        WriteString("outName") \o WriteDerivationOutput(SetToSeq(S)[i])]
  BY Zenon
<1>3. PICK cnt, srcs, plat, bld, args, one, key, val :
        /\ cnt = WriteUint64("drvOutputs", Cardinality(S)) \o FlattenSeq(ws)
        /\ srcs = WriteStrings("inputSrcs", 2) /\ plat = WriteString("platform")
        /\ bld = WriteString("builder") /\ args = WriteStrings("args", 1)
        /\ one = WriteUint64("drvEnv", 1) /\ key = WriteString("envKey")
        /\ val = WriteEmpty("envValue")
  BY Zenon
<1>4. WriteBasicDerivation(S) = cnt \o srcs \o plat \o bld \o args \o one \o key \o val
  BY <1>2, <1>3 DEF WriteBasicDerivation, WriteEach
<1>5. PICK p1 : p1 = Repeated("drvOutputs", ReadString("outName") \o ReadDerivationOutput)
  OBVIOUS
<1>6. Parses(e, x, v, p1, cnt, a, b)
  BY <1>1, <1>2, <1>3, <1>5, OutputsRead
<1>7. PICK p2 : p2 = Repeated("drvEnv", ReadString("envKey") \o ReadString("envValue"))
  OBVIOUS
<1>8. Skims(e, x, v, p2, one \o (key \o val))
  <2>1. IsSeq(ReadString("envKey") \o ReadString("envValue"))
    BY One, Join DEF ReadString
  <2>2. Skims(e, x, v, ReadString("envKey") \o ReadString("envValue"), key \o val)
    <3>1. Skims(e, x, v, ReadString("envKey"), key) /\ Skims(e, x, v, ReadString("envValue"), val)
      BY <1>3, SkimsRules, Zenon DEF Kept
    <3>2. QED
      BY <3>1, SkimsRules, Zenon
  <2>3. "drvEnv" \notin Kept
    BY DEF Kept
  <2>4. QED
    BY <1>3, <1>7, <2>1, <2>2, <2>3, SkimsRepeated, Zenon
<1>9. /\ Skims(e, x, v, ReadStrings("inputSrcs"), srcs) /\ Skims(e, x, v, ReadString("platform"), plat)
      /\ Skims(e, x, v, ReadString("builder"), bld) /\ Skims(e, x, v, ReadStrings("args"), args)
      /\ Skims(e, x, v, ReadString("drvPath"), WriteString("drvPath"))
      /\ Skims(e, x, v, ReadUint64("buildMode"), WriteUint64("buildMode", 0))
  <2>1. \A f : f \notin Kept => /\ Skims(e, x, v, ReadStrings(f), WriteStrings(f, 2))
                                /\ Skims(e, x, v, ReadStrings(f), WriteStrings(f, 1))
    <3>1. 1 \in Nat /\ 2 \in Nat /\ 1 <= maxReadStringsCount /\ 2 <= maxReadStringsCount
      BY SMT DEF maxReadStringsCount
    <3>2. QED
      BY <3>1, SkimsRules
  <2>2. \A f : f \notin Kept => Skims(e, x, v, ReadString(f), WriteString(f))
    BY SkimsRules
  <2>3. \A f, n : f \notin Kept => Skims(e, x, v, ReadUint64(f), WriteUint64(f, n))
    BY SkimsRules, Zenon
  <2>4. QED
    BY <1>3, <2>1, <2>2, <2>3 DEF Kept
<1>10. /\ IsSeq(cnt) /\ IsSeq(srcs) /\ IsSeq(plat) /\ IsSeq(bld) /\ IsSeq(args)
       /\ IsSeq(one) /\ IsSeq(key) /\ IsSeq(val)
  BY <1>3, <1>6, <1>9, EndsRules DEF Skims, Parses
<1>11. WriteBasicDerivation(S) = cnt \o srcs \o plat \o bld \o args \o (one \o (key \o val))
  <2>1. PICK y : y = cnt \o srcs \o plat \o bld \o args
    BY Zenon
  <2>2. IsSeq(y)
    BY <1>10, <2>1, Join
  <2>3. Starts(y, y \o one \o key \o val, one \o key \o val)
    BY <1>10, <2>2, StartsRules, Zenon
  <2>4. IsSeq(one) /\ IsSeq(key) /\ IsSeq(val)
    BY <1>10
  <2>5. one \o key \o val = one \o (key \o val)
    <3>1. Assoc(one, key, val)
      BY <2>4, JoinAssoc3
    <3>2. QED
      BY <3>1 DEF Assoc
  <2>6. QED
    BY <1>4, <2>1, <2>3, <2>5 DEF Starts
<1>12. Parses(e, x, v, ReadBasicDerivation, WriteBasicDerivation(S), a, b)
  <2>1. ReadBasicDerivation = p1 \o ReadStrings("inputSrcs") \o ReadString("platform")
                                \o ReadString("builder") \o ReadStrings("args") \o p2
    BY <1>5, <1>7 DEF ReadBasicDerivation
  <2>2. PICK env1 : env1 = one \o (key \o val)
    BY Zenon
  <2>3. \A c : /\ Parses(e, x, v, ReadStrings("inputSrcs"), srcs, c, c)
               /\ Parses(e, x, v, ReadString("platform"), plat, c, c)
               /\ Parses(e, x, v, ReadString("builder"), bld, c, c)
               /\ Parses(e, x, v, ReadStrings("args"), args, c, c)
               /\ Parses(e, x, v, p2, env1, c, c)
    BY <1>8, <1>9, <2>2 DEF Skims
  <2>4. Parses(e, x, v, p1 \o ReadStrings("inputSrcs") \o ReadString("platform")
                            \o ReadString("builder") \o ReadStrings("args") \o p2,
               cnt \o srcs \o plat \o bld \o args \o env1, a, b)
    BY <1>6, <2>3, ParsesJoin, Zenon
  <2>5. QED
    BY <1>11, <2>1, <2>2, <2>4
<1>13. PICK d, path, mode : /\ d = WriteBasicDerivation(S) /\ path = WriteString("drvPath")
                            /\ mode = WriteUint64("buildMode", 0)
  OBVIOUS
<1>14. BuildWords(S) = path \o d \o mode
  BY <1>13 DEF BuildWords
<1>15. Parses(e, x, v, ReadBuildArgs, path \o d \o mode, a, b)
  <2>1. \A c : /\ Parses(e, x, v, ReadString("drvPath"), path, c, c)
               /\ Parses(e, x, v, ReadUint64("buildMode"), mode, c, c)
    BY <1>9, <1>13 DEF Skims
  <2>2. Parses(e, x, v, ReadBasicDerivation, d, a, b)
    BY <1>12, <1>13
  <2>3. QED
    BY <2>1, <2>2, ParsesJoin, Zenon DEF ReadBuildArgs
<1>16. PICK op : op = WriteUint64("op", OpBuildDerivation)
  OBVIOUS
<1>17. IsSeq(op) /\ IsSeq(path) /\ IsSeq(d) /\ IsSeq(mode) /\ Ends(mode)
  BY <1>12, <1>13, <1>16, EndsRules DEF Parses
<1>18. Starts(op, op \o path \o d \o mode, path \o d \o mode)
  BY <1>17, StartsRules, Zenon
<1>19. WriteBuildArgs(S) = op \o path \o d \o mode
  BY <1>13, <1>16 DEF WriteBuildArgs
<1>20. Ends(op \o path \o d \o mode)
  BY <1>17, EndsRules, Zenon
<1>21. QED
  BY <1>1, <1>14, <1>15, <1>16, <1>18, <1>19, <1>20, Zenon DEF Starts

\* The strings of a list end its words.
LEMMA FlattenEnds ==
  ASSUME NEW n \in Nat, NEW ws, IsSeq(ws), Len(ws) = n, \A k \in 1..n : Ends(ws[k])
  PROVE  IsSeq(FlattenSeq(ws)) /\ (n = 0 => FlattenSeq(ws) = <<>>) /\ (n # 0 => Ends(FlattenSeq(ws)))
<1>1. \A k \in 1..n : IsSeq(ws[k])
  BY EndsRules
<1>2. PICK F : /\ FlattenSeq(ws) = F[n] /\ F[0] = <<>>
               /\ \A k \in 0..n : IsSeq(F[k])
               /\ \A k \in 1..n : F[k] = F[k - 1] \o ws[k]
  <2>1. \E g : Unfolds(g, ws, n)
    BY <1>1, FlattenUnfolds
  <2>2. QED
    BY <2>1, Zenon DEF Unfolds
<1>3. IsSeq(F[n])
  BY <1>2
<1>4. ASSUME n # 0 PROVE Ends(F[n])
  <2>1. n \in 1..n /\ n - 1 \in 0..n
    BY <1>4
  <2>2. F[n] = F[n - 1] \o ws[n] /\ IsSeq(F[n - 1]) /\ Ends(ws[n])
    BY <1>2, <2>1
  <2>3. QED
    BY <2>2, EndsRules
<1>5. QED
  BY <1>2, <1>3, <1>4

\* The realisations of a result, as their reader knows them.
Shown(r) ==
  LET sig(o) == (CHOOSE p \in r.outs : p[1] = o)[2]
  IN {<<o, sig(o)>> : o \in {p[1] : p \in r.outs}}

Pairs(S, sig) == {<<o, sig[o]>> : o \in S}

\* The realisations are read as they were written.
LEMMA RealisationsRead ==
  ASSUME NEW e, NEW x, Learns(x), NEW v, NEW S, IsFiniteSet(S), NEW sig, NEW a, IsMem(a), NEW ws,
         x[1] = "reader" => Pairs(S, sig) \subseteq x[2],
         IsSeq(ws), Len(ws) = Cardinality(S),
         \A i \in 1..Cardinality(S) :
           ws[i] = WriteStringOf("id", SetToSeq(S)[i], 0)
                     \o WriteStringOf("json", SetToSeq(S)[i], sig[SetToSeq(S)[i]])
  PROVE  /\ Parses(e, x, v, Repeated("builtOutputs", ReadString("id") \o ReadString("json")),
                   WriteUint64("builtOutputs", Cardinality(S)) \o FlattenSeq(ws),
                   a, Set1(a, "outs", a.outs \union Pairs(S, sig)))
         /\ Ends(WriteUint64("builtOutputs", Cardinality(S)) \o FlattenSeq(ws))
<1> DEFINE n == Cardinality(S)
           p == ReadString("id") \o ReadString("json")
           q(i) == SetToSeq(S)[i]
           O(k) == {<<q(j), sig[q(j)]>> : j \in 1..k}
           Ms == [k \in 0..n |-> Set1(a, "outs", a.outs \union O(k))]
<1>1. n \in Nat /\ SetToSeq(S) \in [1..n -> S] /\ S = {q(k) : k \in 1..n}
  BY SetToSeqAll
<1>1a. O(n) = Pairs(S, sig)
  <2>1. PICK s : s = SetToSeq(S)
    OBVIOUS
  <2>2. S = {s[k] : k \in 1..n}
    BY <1>1, <2>1
  <2> HIDE DEF n
  <2>3. {<<s[j], sig[s[j]]>> : j \in 1..n} = {<<o, sig[o]>> : o \in {s[k] : k \in 1..n}}
    OBVIOUS
  <2>4. QED
    BY <2>1, <2>2, <2>3, ZenonT(60) DEF Pairs
<1>2. IsSeq(ws) /\ Len(ws) = n
  OBVIOUS
<1>3. "outs" \in MemNames
  BY DEF MemNames
<1>4. ASSUME NEW k \in 1..n PROVE Parses(e, x, v, p, ws[k], Ms[k - 1], Ms[k]) /\ Ends(ws[k])
  <2>1. k \in 0..n /\ k - 1 \in 0..n
    BY <1>1
  <2>2. PICK o : o = q(k)
    OBVIOUS
  <2>3. ws[k] = WriteStringOf("id", o, 0) \o WriteStringOf("json", o, sig[o])
    BY <2>2
  <2>4. PICK c, d : c = Ms[k - 1] /\ d = Ms[k]
    BY Zenon
  <2>5. c = Set1(a, "outs", a.outs \union O(k - 1)) /\ d = Set1(a, "outs", a.outs \union O(k))
    BY <2>1, <2>4
  <2>6. O(k) = O(k - 1) \union {<<o, sig[o]>>}
    <3>1. \A j : j \in 1..k <=> j \in 1..(k - 1) \/ j = k
      BY <1>1
    <3> HIDE DEF q
    <3>2. QED
      BY <2>2, <3>1, Zenon
  <2> HIDE DEF O, Ms
  <2>7. c["outs"] = a.outs \union O(k - 1) /\ \A u : Set1(c, "outs", u) = Set1(a, "outs", u)
    BY <1>3, <2>5, MemSet
  <2>8. c.outs \union {<<o, sig[o]>>} = a.outs \union O(k)
    BY <2>6, <2>7
  <2>9. d = Set1(c, "outs", c.outs \union {<<o, sig[o]>>})
    BY <2>5, <2>7, <2>8, Zenon
  <2>10. Parses(e, x, v, ReadString("json"), WriteStringOf("json", o, sig[o]), c, d)
    <3>1. Learn(c, Ins("str", "json", 0, <<>>), Word("json", Characters, o, sig[o])) = d
      BY <2>9, Zenon DEF Learn, Ins, Word, Set1
    <3>2. QED
      <4>1. x[1] = "reader" => <<o, sig[o]>> \in x[2]
        <5>1. o \in S
          <6>1. SetToSeq(S) \in [1..n -> S]
            BY SetToSeqAll
          <6>2. QED
            BY <2>2, <6>1, Zenon
        <5>2. <<o, sig[o]>> \in Pairs(S, sig)
          BY <5>1 DEF Pairs
        <5>3. QED
          BY <5>2
      <4>2. Word("json", Characters, o, sig[o]).o = o /\ Word("json", Characters, o, sig[o]).s = sig[o]
        BY DEF Word
      <4>3. Minds(x, "json", Word("json", Characters, o, sig[o]))
        BY <4>1, <4>2, LearnQuiet, Zenon
      <4>4. QED
        BY <3>1, <4>3, ParsesStringOf
  <2>11. Parses(e, x, v, ReadString("id"), WriteStringOf("id", o, 0), c, c)
    <3>1. Learn(c, Ins("str", "id", 0, <<>>), Word("id", Characters, o, 0)) = c
      BY DEF Learn, Ins
    <3>2. QED
      <4>1. Minds(x, "id", Word("id", Characters, o, 0))
        BY LearnQuiet, Zenon
      <4>2. QED
        BY <3>1, <4>1, ParsesStringOf
  <2>12. Parses(e, x, v, p, ws[k], c, d)
    BY <2>3, <2>10, <2>11, ParsesJoin
  <2>13. Ends(ws[k])
    BY <2>3, EndsRules
  <2>14. QED
    BY <2>4, <2>12, <2>13
<1>5. Ms[0] = a /\ Ms[n] = Set1(a, "outs", a.outs \union Pairs(S, sig))
  <2>1. 0 \in 0..n /\ n \in 0..n
    BY <1>1
  <2>2. Ms[0] = Set1(a, "outs", a.outs \union O(0)) /\ Ms[n] = Set1(a, "outs", a.outs \union O(n))
    BY <2>1
  <2>3. O(0) = {}
    OBVIOUS
  <2> HIDE DEF Ms, O
  <2>4. a["outs"] = a.outs \union O(0)
    BY <2>3
  <2>5. Ms[0] = a
    <3>1. PICK c, t : c = Ms[0] /\ t = a.outs \union O(0)
      BY Zenon
    <3>2. c = Set1(a, "outs", t) /\ a["outs"] = t
      BY <2>2, <2>4, <3>1
    <3>3. c = a
      BY <1>3, <3>2, MemSet
    <3>4. QED
      BY <3>1, <3>3
  <2>6. QED
    BY <1>1a, <2>2, <2>5
<1>6. IsSeq(p)
  BY One, Join DEF ReadString
<1>7. "builtOutputs" \notin Kept
  BY DEF Kept
<1> HIDE DEF Ms, n, p
<1>8. Parses(e, x, v, Repeated("builtOutputs", p), WriteUint64("builtOutputs", n) \o FlattenSeq(ws), Ms[0], Ms[n])
  BY <1>1, <1>2, <1>4, <1>6, <1>7, ParsesRepeated, Zenon
<1>9. Ends(WriteUint64("builtOutputs", n) \o FlattenSeq(ws))
  <2>1. IsSeq(FlattenSeq(ws)) /\ (n = 0 => FlattenSeq(ws) = <<>>) /\ (n # 0 => Ends(FlattenSeq(ws)))
    BY <1>1, <1>2, <1>4, FlattenEnds
  <2>2. CASE n = 0
    <3>1. Ends(WriteUint64("builtOutputs", n))
      BY <2>2, EndsRules
    <3>2. WriteUint64("builtOutputs", n) \o <<>> = WriteUint64("builtOutputs", n)
      BY EndsRules, Nil, Join
    <3>3. QED
      BY <2>1, <2>2, <3>1, <3>2
  <2>3. CASE n # 0
    BY <2>1, <2>3, EndsRules
  <2>4. QED
    BY <2>2, <2>3
<1>10. QED
  BY <1>5, <1>8, <1>9 DEF n, p

\* What the reader of a result of version 1.37 or later knows.
Told(r, a) ==
  LET s == Set1(a, "status", r.status)
  IN Set1(IF r.cpu THEN Set1(s, "cpu", TRUE) ELSE s, "outs", a.outs \union Shown(r))

\* ReadBuildResult reads what WriteBuildResult writes: status, CPU times and
\* any number of realisations, in every version that has realisations.
THEOREM BuildResultRead ==
  ASSUME NEW e, NEW r, NEW x, Learns(x), x[1] = "reader" => Shown(r) \subseteq x[2],
         NEW v, NEW m \in Nat, m >= 37, r.cpu \in BOOLEAN,
         IsFiniteSet(r.outs), NEW a, IsMem(a)
  PROVE  /\ Parses(e, x, v, ReadBuildResult(m), WriteBuildResult(m, r), a, Told(r, a))
         /\ Ends(WriteBuildResult(m, r))
<1> DEFINE S == {p[1] : p \in r.outs}
           sig(o) == (CHOOSE p \in r.outs : p[1] = o)[2]
           sf == [o \in S |-> sig(o)]
<1>1. IsFiniteSet(S)
  <2>1. PICK f : f = [p \in r.outs |-> p[1]]
    BY Zenon
  <2>2. f \in Surjection(r.outs, S)
    BY <2>1 DEF Surjection
  <2> HIDE DEF S
  <2>3. QED
    BY <2>2, FS_Surjection
<1>2. PICK ws : ws = [i \in 1..Cardinality(S) |->
                        WriteStringOf("id", SetToSeq(S)[i], 0)
                          \o WriteStringOf("json", SetToSeq(S)[i], sig(SetToSeq(S)[i]))]
  BY Zenon
<1>2a. ws = [i \in 1..Cardinality(S) |->
               WriteStringOf("id", SetToSeq(S)[i], 0)
                 \o WriteStringOf("json", SetToSeq(S)[i], sf[SetToSeq(S)[i]])]
  <2>1. \A i \in 1..Cardinality(S) : SetToSeq(S)[i] \in S
    BY <1>1, SetToSeqAll, Zenon
  <2>2. \A i \in 1..Cardinality(S) : sf[SetToSeq(S)[i]] = sig(SetToSeq(S)[i])
    BY <2>1, Zenon
  <2> HIDE DEF S, sig, sf
  <2>3. QED
    BY <1>2, <2>2, Zenon
<1>3. PICK b : b = Set1(a, "status", r.status)
  OBVIOUS
<1>4. PICK c : c = IF r.cpu THEN Set1(b, "cpu", TRUE) ELSE b
  BY Zenon
<1>5. PICK d : d = Told(r, a)
  OBVIOUS
<1>6. IsMem(c) /\ c.outs = a.outs
  <2>1. "status" \in MemNames /\ "cpu" \in MemNames /\ "outs" \in MemNames
    BY DEF MemNames
  <2>2. IsMem(b) /\ b["outs"] = a["outs"]
    BY <1>3, <2>1, MemSet
  <2>3. CASE r.cpu
    <3>1. c = Set1(b, "cpu", TRUE)
      BY <1>4, <2>3
    <3>2. IsMem(c) /\ c["outs"] = b["outs"]
      <4>1. PICK t : t = TRUE
        OBVIOUS
      <4>2. c = Set1(b, "cpu", t) /\ "outs" # "cpu"
        BY <3>1, <4>1
      <4>3. QED
        BY <2>1, <2>2, <4>2, MemSet
    <3>3. QED
      BY <2>2, <3>2
  <2>4. CASE ~r.cpu
    BY <1>4, <2>2, <2>4
  <2>5. QED
    BY <2>3, <2>4
<1>7. PICK reals : reals = WriteUint64("builtOutputs", Cardinality(S)) \o FlattenSeq(ws)
  BY Zenon
<1>8. d = Set1(c, "outs", c.outs \union Pairs(S, sf))
  <2>1. Pairs(S, sf) = {<<o, sig(o)>> : o \in S}
    <3> HIDE DEF S, sig
    <3>1. QED
      BY DEF Pairs
  <2>2. QED
    BY <1>3, <1>4, <1>5, <1>6, <2>1, Zenon DEF Told, Shown
<1>8a. Pairs(S, sf) = Shown(r)
  <2>1. Pairs(S, sf) = {<<o, sig(o)>> : o \in S}
    <3> HIDE DEF S, sig
    <3>1. QED
      BY DEF Pairs
  <2>2. QED
    BY <2>1, Zenon DEF Shown
<1>9. /\ Parses(e, x, v, Repeated("builtOutputs", ReadString("id") \o ReadString("json")), reals, c, d)
      /\ Ends(reals)
  <2> HIDE DEF S, sf
  <2>1. PICK T, g : T = S /\ g = sf
    OBVIOUS
  <2>2. /\ IsFiniteSet(T) /\ IsSeq(ws) /\ Len(ws) = Cardinality(T)
        /\ \A i \in 1..Cardinality(T) :
             ws[i] = WriteStringOf("id", SetToSeq(T)[i], 0)
                       \o WriteStringOf("json", SetToSeq(T)[i], g[SetToSeq(T)[i]])
    <3>1. Cardinality(T) \in Nat
      BY <1>1, <2>1, SetToSeqAll
    <3>2. DOMAIN ws = 1..Cardinality(T) /\ ws = [k \in 1..Cardinality(T) |-> ws[k]]
      BY <1>2a, <2>1
    <3>3. IsSeq(ws) /\ Len(ws) = Cardinality(T)
      BY <3>1, <3>2, Listed
    <3>4. QED
      BY <1>1, <1>2a, <2>1, <3>3, Zenon
  <2>3. /\ Parses(e, x, v, Repeated("builtOutputs", ReadString("id") \o ReadString("json")),
                   WriteUint64("builtOutputs", Cardinality(T)) \o FlattenSeq(ws),
                   c, Set1(c, "outs", c.outs \union Pairs(T, g)))
        /\ Ends(WriteUint64("builtOutputs", Cardinality(T)) \o FlattenSeq(ws))
    <3>1. x[1] = "reader" => Pairs(T, g) \subseteq x[2]
      BY <2>1, <1>8a
    <3>2. QED
      BY <1>6, <2>2, <3>1, RealisationsRead, Zenon
  <2>4. QED
    BY <1>7, <1>8, <2>1, <2>3
<1>10. m >= 29 /\ m >= 28
  OBVIOUS
<1>11. PICK st, em, tb, nd, t0, t1, tu, cu, ts, cs :
         /\ st = WriteUint64("status", r.status) /\ em = WriteEmpty("errorMsg")
         /\ tb = WriteUint64("timesBuilt", 1) /\ nd = WriteBool("isNonDeterministic", FALSE)
         /\ t0 = WriteUint64("startTime", 7) /\ t1 = WriteUint64("stopTime", 9)
         /\ tu = WriteBool("cpuUserTag", r.cpu) /\ cu = When(r.cpu, WriteUint64("cpuUser", 5))
         /\ ts = WriteBool("cpuSystemTag", r.cpu) /\ cs = When(r.cpu, WriteUint64("cpuSystem", 5))
  BY Zenon
<1>12. WriteBuildResult(m, r) = st \o em \o (tb \o nd) \o (t0 \o t1 \o tu \o cu \o ts \o cs) \o reals
  BY <1>2, <1>7, <1>10, <1>11, Zenon DEF WriteBuildResult, WriteEach, When
<1>13. Parses(e, x, v, ReadUint64("status"), st, a, b)
  <2>1. Word("status", r.status, 0, 0).f = "status" /\ Ins("num", "status", 0, <<>>).f = "status"
        /\ Word("status", r.status, 0, 0).n = r.status
    BY DEF Word, Ins
  <2>2. Parses(e, x, v, <<Ins("num", "status", 0, <<>>)>>, <<Word("status", r.status, 0, 0)>>, a,
               Learn(a, Ins("num", "status", 0, <<>>), Word("status", r.status, 0, 0)))
    <3>1. Minds(x, "status", Word("status", r.status, 0, 0))
      BY LearnQuiet, Zenon
    <3>2. QED
      BY <2>1, <3>1, ParsesWord, Zenon
  <2>3. Learn(a, Ins("num", "status", 0, <<>>), Word("status", r.status, 0, 0)) = b
    BY <1>3, <2>1, Zenon DEF Learn, Set1
  <2>4. QED
    BY <1>11, <2>2, <2>3 DEF ReadUint64, WriteUint64
<1>14. \A y : /\ Parses(e, x, v, ReadString("errorMsg"), em, y, y)
              /\ Parses(e, x, v, ReadUint64("timesBuilt"), tb, y, y)
              /\ Parses(e, x, v, ReadUint64("isNonDeterministic"), nd, y, y)
              /\ Parses(e, x, v, ReadUint64("startTime"), t0, y, y)
              /\ Parses(e, x, v, ReadUint64("stopTime"), t1, y, y)
  BY <1>11, ParsesEmpty, ParsesNum, ParsesBool, Zenon DEF Kept
<1>15. /\ Parses(e, x, v, Optional("cpuUserTag", ReadUint64("cpuUser")), tu \o cu, b, c)
       /\ \A y : Parses(e, x, v, Optional("cpuSystemTag", ReadUint64("cpuSystem")), ts \o cs, y, y)
  <2>1. PICK n : n = IF r.cpu THEN 1 ELSE 0
    OBVIOUS
  <2>2. /\ tu = WriteUint64("cpuUserTag", n) /\ ts = WriteUint64("cpuSystemTag", n)
        /\ cu = When(n # 0, WriteUint64("cpuUser", 5)) /\ cs = When(n # 0, WriteUint64("cpuSystem", 5))
    BY <1>11, <2>1 DEF WriteBool
  <2>3. "cpuUserTag" \notin Kept /\ "cpuSystemTag" \notin Kept /\ "cpuSystem" \notin Kept
    BY DEF Kept
  <2>4. n # 0 => Parses(e, x, v, ReadUint64("cpuUser"), WriteUint64("cpuUser", 5), b, c)
    <3>1. Word("cpuUser", 5, 0, 0).f = "cpuUser" /\ Ins("num", "cpuUser", 0, <<>>).f = "cpuUser"
      BY DEF Word, Ins
    <3>2. Parses(e, x, v, <<Ins("num", "cpuUser", 0, <<>>)>>, <<Word("cpuUser", 5, 0, 0)>>, b,
                 Learn(b, Ins("num", "cpuUser", 0, <<>>), Word("cpuUser", 5, 0, 0)))
      <4>1. Minds(x, "cpuUser", Word("cpuUser", 5, 0, 0))
        BY LearnQuiet, Zenon
      <4>2. QED
        BY <3>1, <4>1, ParsesWord, Zenon
    <3>3. n # 0 => Learn(b, Ins("num", "cpuUser", 0, <<>>), Word("cpuUser", 5, 0, 0)) = c
      BY <1>4, <2>1, <3>1, Zenon DEF Learn, Set1
    <3>4. QED
      BY <3>2, <3>3 DEF ReadUint64, WriteUint64
  <2>5. n = 0 => c = b
    <3>1. n = 0 => ~r.cpu
      BY <2>1
    <3>2. ~r.cpu => c = b
      BY <1>4
    <3>3. QED
      BY <3>1, <3>2
  <2>6. Parses(e, x, v, Optional("cpuUserTag", ReadUint64("cpuUser")),
               WriteUint64("cpuUserTag", n) \o When(n # 0, WriteUint64("cpuUser", 5)), b, c)
    BY <2>3, <2>4, <2>5, ParsesOptional, Zenon
  <2>7. \A y : Parses(e, x, v, Optional("cpuSystemTag", ReadUint64("cpuSystem")),
               WriteUint64("cpuSystemTag", n) \o When(n # 0, WriteUint64("cpuSystem", 5)), y, y)
    <3>1. \A y : Parses(e, x, v, ReadUint64("cpuSystem"), WriteUint64("cpuSystem", 5), y, y)
      BY <2>3, ParsesNum
    <3>2. QED
      BY <2>3, <3>1, ParsesOptional
  <2>8. QED
    BY <2>2, <2>6, <2>7
<1>16. PICK pu, ps, po : /\ pu = Optional("cpuUserTag", ReadUint64("cpuUser"))
                         /\ ps = Optional("cpuSystemTag", ReadUint64("cpuSystem"))
                         /\ po = Repeated("builtOutputs", ReadString("id") \o ReadString("json"))
  OBVIOUS
<1>17. ReadBuildResult(m) = ReadUint64("status") \o ReadString("errorMsg")
         \o (ReadUint64("timesBuilt") \o ReadUint64("isNonDeterministic"))
         \o (ReadUint64("startTime") \o ReadUint64("stopTime") \o pu \o ps) \o po
  BY <1>10, <1>16 DEF ReadBuildResult, When
<1>18. IsSeq(t0) /\ IsSeq(t1) /\ IsSeq(tu) /\ IsSeq(cu) /\ IsSeq(ts) /\ IsSeq(cs)
  BY <1>11, EndsRules, Nil DEF When
<1>19. t0 \o t1 \o tu \o cu \o ts \o cs = t0 \o t1 \o (tu \o cu) \o (ts \o cs)
  <2>1. PICK y : y = t0 \o t1
    BY Zenon
  <2>2. IsSeq(y) /\ IsSeq(tu) /\ IsSeq(cu)
    BY <1>18, <2>1, Join
  <2>3. y \o tu \o cu = y \o (tu \o cu)
    <3>1. Assoc(y, tu, cu)
      BY <2>2, JoinAssoc3
    <3>2. QED
      BY <3>1 DEF Assoc
  <2>4. PICK z : z = y \o (tu \o cu)
    BY Zenon
  <2>5. IsSeq(tu \o cu)
    BY <2>2, Join
  <2>6. IsSeq(z) /\ IsSeq(ts) /\ IsSeq(cs)
    BY <1>18, <2>2, <2>4, <2>5, Join
  <2>7. z \o ts \o cs = z \o (ts \o cs)
    <3>1. Assoc(z, ts, cs)
      BY <2>6, JoinAssoc3
    <3>2. QED
      BY <3>1 DEF Assoc
  <2>8. QED
    BY <2>1, <2>3, <2>4, <2>7
<1>20. Parses(e, x, v, ReadBuildResult(m), WriteBuildResult(m, r), a, d)
  <2>1. PICK u, s : u = tu \o cu /\ s = ts \o cs
    BY Zenon
  <2>2. /\ Parses(e, x, v, pu, u, b, c) /\ \A y : Parses(e, x, v, ps, s, y, y)
        /\ Parses(e, x, v, po, reals, c, d)
    BY <1>9, <1>15, <1>16, <2>1
  <2>3. Parses(e, x, v, ReadUint64("status") \o ReadString("errorMsg")
                 \o (ReadUint64("timesBuilt") \o ReadUint64("isNonDeterministic"))
                 \o (ReadUint64("startTime") \o ReadUint64("stopTime") \o pu \o ps) \o po,
               st \o em \o (tb \o nd) \o (t0 \o t1 \o u \o s) \o reals, a, d)
    <3>1. PICK p1, w1 :
            /\ p1 = ReadUint64("status") \o ReadString("errorMsg")
                 \o (ReadUint64("timesBuilt") \o ReadUint64("isNonDeterministic"))
            /\ w1 = st \o em \o (tb \o nd)
      BY Zenon
    <3>2. PICK p2, w2 : /\ p2 = ReadUint64("startTime") \o ReadUint64("stopTime") \o pu \o ps
                        /\ w2 = t0 \o t1 \o u \o s
      BY Zenon
    <3>3. Parses(e, x, v, p1, w1, a, b)
      BY <1>13, <1>14, <3>1, ParsesJoin, ZenonT(60)
    <3>4. Parses(e, x, v, p2, w2, b, c)
      BY <1>14, <2>2, <3>2, ParsesJoin, Zenon
    <3>5. Parses(e, x, v, (p1 \o p2) \o po, (w1 \o w2) \o reals, a, d)
      BY <2>2, <3>3, <3>4, ParsesJoin, Zenon
    <3>6. QED
      BY <3>1, <3>2, <3>5
  <2>4. QED
    BY <1>12, <1>17, <1>19, <2>1, <2>3
<1>21. Ends(WriteBuildResult(m, r))
  <2>1. PICK f : f = st \o em \o (tb \o nd) \o (t0 \o t1 \o tu \o cu \o ts \o cs)
    BY Zenon
  <2>2. IsSeq(st) /\ IsSeq(em) /\ IsSeq(tb) /\ IsSeq(nd)
    BY <1>13, <1>14 DEF Parses
  <2>3. IsSeq(f)
    BY <1>18, <2>1, <2>2, EndsRules, Zenon
  <2>4. Ends(f \o reals)
    BY <1>9, <2>3, EndsRules
  <2>5. QED
    BY <1>12, <2>1, <2>4
<1>22. QED
  BY <1>5, <1>20, <1>21

\* The path of a query or of a signature.
LEMMA PathRead ==
  ASSUME NEW e, NEW x, NEW v, NEW o, NEW a
  PROVE  Parses(e, x, v, ReadString("path"), WriteStringOf("path", o, 0), a, Set1(a, "path", o))
<1>1. Learn(a, Ins("str", "path", 0, <<>>), Word("path", Characters, o, 0)) = Set1(a, "path", o)
  BY DEF Learn, Ins, Word, Set1
<1>2. Minds(x, "path", Word("path", Characters, o, 0))
  BY LearnQuiet DEF Results
<1>3. QED
  BY <1>1, <1>2, ParsesStringOf

\* The one signature of AddSignatures.
LEMMA SignatureRead ==
  ASSUME NEW e, NEW x, NEW v, NEW o, NEW s, NEW a
  PROVE  Parses(e, x, v, ReadStrings("sig"), WriteUint64("sig", 1) \o WriteStringOf("sig", o, s), a,
                Set1(a, "sig", <<o, s>>))
<1> DEFINE i == Ins("strs", "sig", 0, <<>>)
           y == Word("sig", 1, 0, 0)
           w == WriteStringOf("sig", o, s)
           b == Set1(a, "sig", <<o, s>>)
           p == ReadString("sig")
<1>1. i.k = "strs" /\ i.f = "sig" /\ y.f = "sig" /\ y.n = 1
  BY DEF Ins, Word
<1>2. <<y>>[1] = y /\ Len(<<y>>) = 1
  BY One
<1>3. Parses(e, x, v, p, w, a, b)
  <2>1. Learn(a, Ins("str", "sig", 0, <<>>), Word("sig", Characters, o, s)) = b
    BY DEF Learn, Ins, Word, Set1
  <2>2. QED
    <3>1. Minds(x, "sig", Word("sig", Characters, o, s))
      BY LearnQuiet DEF Results
    <3>2. QED
      BY <2>1, <3>1, ParsesStringOf
<1>4. ReadStrings("sig") = <<i>> /\ WriteUint64("sig", 1) = <<y>>
  BY DEF ReadStrings, WriteUint64
<1> HIDE DEF i, y, b, w, p
<1>5. Unit(i, <<y>>)
  BY <1>1 DEF Unit, Refused, maxReadStringsCount
<1>6. i.k \in Reads /\ i.k # "version"
  BY <1>1 DEF Reads
<1>7. Continue(i, <<y>>[1].n, MinorOf(v)) = Loop(1, p)
  BY <1>1, <1>2 DEF Continue, p
<1>8. Learn(a, i, <<y>>[Len(<<y>>)]) = a
  BY <1>1 DEF Learn
<1>9. Parses(e, x, v, Loop(1, p), w, a, b)
  <2>1. PICK n \in Nat : n = 1
    OBVIOUS
  <2>2. PICK ws : ws = <<w>>
    BY Zenon
  <2>3. IsSeq(ws) /\ Len(ws) = n /\ ws[1] = w
    BY <2>1, <2>2, One
  <2>4. PICK Ms : Ms = [k \in 0..1 |-> IF k = 0 THEN a ELSE b]
    BY Zenon
  <2>5. Ms[0] = a /\ Ms[n] = b
    BY <2>1, <2>4
  <2>6. \A k \in 1..n : Parses(e, x, v, p, ws[k], Ms[k - 1], Ms[k])
    <3>1. \A k \in 1..n : k = 1 /\ k - 1 = 0
      BY <2>1
    <3>2. QED
      BY <1>3, <2>1, <2>3, <2>5, <3>1
  <2>7. IsSeq(p)
    BY <1>3 DEF Parses
  <2>8. Parses(e, x, v, Loop(n, p), FlattenSeq(ws), Ms[0], Ms[n])
    BY <2>3, <2>6, <2>7, ParsesLoop, Zenon
  <2>9. FlattenSeq(ws) = w
    <3>1. IsSeq(w)
      BY <1>3 DEF Parses
    <3>2. \A k \in 1..n : IsSeq(ws[k])
      BY <2>1, <2>3, <3>1
    <3>3. PICK F : /\ FlattenSeq(ws) = F[n] /\ F[0] = <<>>
                   /\ \A k \in 0..n : IsSeq(F[k])
                   /\ \A k \in 1..n : F[k] = F[k - 1] \o ws[k]
      <4>1. \E g : Unfolds(g, ws, n)
        BY <2>3, <3>2, FlattenUnfolds
      <4>2. QED
        BY <4>1, Zenon DEF Unfolds
    <3>4. 1 \in 1..n /\ 1 - 1 = 0
      BY <2>1
    <3>5. F[1] = <<>> \o w
      BY <2>3, <3>3, <3>4, Zenon
    <3>6. <<>> \o w = w
      BY <3>1, Join
    <3>7. QED
      BY <2>1, <3>3, <3>5, <3>6
  <2>10. QED
    BY <2>1, <2>5, <2>8, <2>9
<1>10. Parses(e, x, v, <<i>>, <<y>> \o w, a, b)
  <2>1. Minds(x, i.f, <<y>>[Len(<<y>>)])
    BY <1>1, LearnQuiet DEF Results
  <2>2. QED
    BY <1>5, <1>6, <1>7, <1>8, <1>9, <2>1, ParsesUnit, Zenon
<1>11. QED
  BY <1>4, <1>10 DEF b, w

\* A path info that the store host has.
Informed(i, a) == Set1(Set1(a, "narHash", IF i.signable THEN i.path ELSE 0), "narSize", i.path)

\* querySignablePathInfo reads the path info as it was written, in every
\* version that tells whether it exists.
THEOREM PathInfoRead ==
  ASSUME NEW e, NEW x, NEW v, NEW m \in Nat, m >= 17, NEW i, i.found = TRUE, NEW a
  PROVE  /\ Parses(e, x, v, ReadPathInfo(m), WritePathInfo(m, i), a, Informed(i, a))
         /\ Ends(WritePathInfo(m, i))
<1>1. PICK h, b, c : /\ h = IF i.signable THEN i.path ELSE 0
                     /\ b = Set1(a, "narHash", h) /\ c = Set1(b, "narSize", i.path)
  OBVIOUS
<1>2. PICK fd, de, ha, re, rt, ns, ul, si, ca :
        /\ fd = WriteBool("found", i.found)
        /\ de = IF i.deriver THEN WriteString("deriver") ELSE WriteEmpty("deriver")
        /\ ha = WriteStringOf("narHash", h, 0) /\ re = WriteStrings("refs", 1)
        /\ rt = WriteUint64("regTime", 7) /\ ns = <<Word("narSize", 9, i.path, 0)>>
        /\ ul = WriteBool("ultimate", FALSE) /\ si = WriteStrings("sigs", 0) /\ ca = WriteEmpty("ca")
  BY Zenon
<1>a. m >= 16 /\ ~(m < 17) /\ m >= 17
  OBVIOUS
<1>3. WritePathInfo(m, i) = fd \o (de \o ha \o re \o rt \o ns \o (ul \o si \o ca))
  <2>1. WritePathInfo(m, i) =
          WriteBool("found", i.found)
            \o ((IF i.deriver THEN WriteString("deriver") ELSE WriteEmpty("deriver"))
                 \o WriteStringOf("narHash", IF i.signable THEN i.path ELSE 0, 0)
                 \o WriteStrings("refs", 1) \o WriteUint64("regTime", 7)
                 \o <<Word("narSize", 9, i.path, 0)>>
                 \o (WriteBool("ultimate", FALSE) \o WriteStrings("sigs", 0) \o WriteEmpty("ca")))
    BY <1>a, Zenon DEF WritePathInfo, When
  <2>2. QED
    BY <1>1, <1>2, <2>1, Zenon
<1>4. PICK p : p = <<Ins("nonzero", "found", 0, <<>>)>>
  BY Zenon
<1>5. ReadPathInfo(m) = p \o ReadString("deriver") \o ReadString("narHash") \o ReadStrings("refs")
        \o ReadUint64("regTime") \o ReadUint64("narSize")
        \o (ReadUint64("ultimate") \o ReadStrings("sigs") \o ReadString("ca"))
  BY <1>a, <1>4, Zenon DEF ReadPathInfo, When
<1>6. \A y : Parses(e, x, v, p, fd, y, y)
  <2>1. TAKE y
  <2>2. PICK z : z = Word("found", 1, 0, 0)
    OBVIOUS
  <2>3. z.f = "found" /\ z.n # 0 /\ Ins("nonzero", "found", 0, <<>>).f = "found"
    BY <2>2 DEF Word, Ins
  <2>4. Parses(e, x, v, <<Ins("nonzero", "found", 0, <<>>)>>, <<z>>, y,
               Learn(y, Ins("nonzero", "found", 0, <<>>), z))
    <3>1. Minds(x, "found", z)
      BY LearnQuiet DEF Results
    <3>2. QED
      BY <2>3, <3>1, ParsesWord, Zenon
  <2>5. Learn(y, Ins("nonzero", "found", 0, <<>>), z) = y
    BY <2>3, LearnQuiet DEF Kept
  <2>6. QED
    BY <1>2, <1>4, <2>2, <2>4, <2>5 DEF WriteBool, WriteUint64
<1>7. Parses(e, x, v, ReadString("narHash"), ha, a, b)
  <2>1. Learn(a, Ins("str", "narHash", 0, <<>>), Word("narHash", Characters, h, 0)) = b
    BY <1>1, Zenon DEF Learn, Ins, Word, Set1, Owner
  <2>2. QED
    <3>1. Minds(x, "narHash", Word("narHash", Characters, h, 0))
      BY LearnQuiet DEF Results
    <3>2. QED
      BY <1>2, <2>1, <3>1, ParsesStringOf
<1>8. Parses(e, x, v, ReadUint64("narSize"), ns, b, c)
  <2>1. PICK z : z = Word("narSize", 9, i.path, 0)
    OBVIOUS
  <2>2. z.f = "narSize" /\ z.o = i.path /\ Ins("num", "narSize", 0, <<>>).f = "narSize"
    BY <2>1 DEF Word, Ins
  <2>3. Parses(e, x, v, <<Ins("num", "narSize", 0, <<>>)>>, <<z>>, b,
               Learn(b, Ins("num", "narSize", 0, <<>>), z))
    <3>1. Minds(x, "narSize", z)
      BY LearnQuiet DEF Results
    <3>2. QED
      BY <2>2, <3>1, ParsesWord, Zenon
  <2>4. Learn(b, Ins("num", "narSize", 0, <<>>), z) = c
    BY <1>1, <2>2, Zenon DEF Learn, Set1, Owner
  <2>5. QED
    BY <1>2, <2>1, <2>3, <2>4 DEF ReadUint64
<1>9. \A y : /\ Parses(e, x, v, ReadString("deriver"), de, y, y)
             /\ Parses(e, x, v, ReadStrings("refs"), re, y, y)
             /\ Parses(e, x, v, ReadUint64("regTime"), rt, y, y)
             /\ Parses(e, x, v, ReadUint64("ultimate"), ul, y, y)
             /\ Parses(e, x, v, ReadStrings("sigs"), si, y, y)
             /\ Parses(e, x, v, ReadString("ca"), ca, y, y)
  <2>1. \A f, y : f \notin Kept => /\ Parses(e, x, v, ReadStrings(f), WriteStrings(f, 0), y, y)
                                   /\ Parses(e, x, v, ReadStrings(f), WriteStrings(f, 1), y, y)
    <3>1. 1 \in Nat /\ 0 \in Nat /\ 1 <= maxReadStringsCount /\ 0 <= maxReadStringsCount
      BY SMT DEF maxReadStringsCount
    <3>2. QED
      BY <3>1, ParsesStrings
  <2>2. \A f, y : f \notin Kept => /\ Parses(e, x, v, ReadString(f), WriteString(f), y, y)
                                   /\ Parses(e, x, v, ReadString(f), WriteEmpty(f), y, y)
    BY ParsesString, ParsesEmpty
  <2>3. \A f, y, n : f \notin Kept => /\ Parses(e, x, v, ReadUint64(f), WriteUint64(f, n), y, y)
                                      /\ Parses(e, x, v, ReadUint64(f), WriteBool(f, n), y, y)
    BY ParsesNum, ParsesBool
  <2>4. QED
    BY <1>2, <2>1, <2>2, <2>3, Zenon DEF Kept
<1>10. Parses(e, x, v, ReadPathInfo(m), fd \o de \o ha \o re \o rt \o ns \o (ul \o si \o ca), a, c)
  <2>1. PICK p1, w1 : /\ p1 = p \o ReadString("deriver") \o ReadString("narHash") \o ReadStrings("refs")
                      /\ w1 = fd \o de \o ha \o re
    BY Zenon
  <2>2. Parses(e, x, v, p1, w1, a, b)
    BY <1>6, <1>7, <1>9, <2>1, ParsesJoin, Zenon
  <2>3. PICK p2, w2 : /\ p2 = ReadUint64("ultimate") \o ReadStrings("sigs") \o ReadString("ca")
                      /\ w2 = ul \o si \o ca
    BY Zenon
  <2>4. Parses(e, x, v, p2, w2, c, c)
    BY <1>9, <2>3, ParsesJoin, Zenon
  <2>5. Parses(e, x, v, p1 \o ReadUint64("regTime") \o ReadUint64("narSize") \o p2, w1 \o rt \o ns \o w2, a, c)
    BY <1>8, <1>9, <2>2, <2>4, ParsesJoin, Zenon
  <2>6. QED
    BY <1>5, <2>1, <2>3, <2>5, Zenon
<1>11. /\ IsSeq(fd) /\ IsSeq(de) /\ IsSeq(ha) /\ IsSeq(re) /\ IsSeq(rt) /\ IsSeq(ns) /\ IsSeq(ul)
       /\ IsSeq(si) /\ IsSeq(ca) /\ Ends(ca)
  BY <1>2, <1>6, <1>7, <1>8, <1>9, EndsRules, Zenon DEF Parses
<1>12. PICK t : t = ul \o si \o ca
  BY Zenon
<1>13. IsSeq(t) /\ Ends(t)
  BY <1>11, <1>12, EndsRules, Zenon
<1>14. Starts(fd, fd \o de \o ha \o re \o rt \o ns \o t, de \o ha \o re \o rt \o ns \o t)
  BY <1>11, <1>13, StartsRules, Zenon
<1>15. Ends(fd \o de \o ha \o re \o rt \o ns \o t)
  BY <1>11, <1>13, EndsRules, Zenon
<1>16. WritePathInfo(m, i) = fd \o de \o ha \o re \o rt \o ns \o (ul \o si \o ca)
  BY <1>3, <1>12, <1>14 DEF Starts
<1>17. c = Informed(i, a)
  BY <1>1 DEF Informed
<1>18. QED
  BY <1>10, <1>12, <1>15, <1>16, <1>17

-----------------------------------------------------------------------------
(* Runs of a party *)

\* A party at s = <<program, memory, version>> with the words w to hear or to
\* tell; d says whether its buffer has words.
Hear(s, w) == St(s[1], s[2], s[3], w)
Tell(s, w, d) == <<s[1], s[2], s[3], w, d>>

Hears(e, x, s, w, t) == Reaches(e, x, "hear", Hear(s, w), Hear(t, <<>>))
Tells(e, x, s, w, d, t) == Reaches(e, x, "tell", Tell(s, w, d), Tell(t, <<>>, FALSE))

\* Words that come later change nothing about what is heard before.
Over(s, w) == St(s[1], s[2], s[3], s[4] \o w)

\* A step of a listener is one with further words as well.
LEMMA AdvanceOver ==
  ASSUME NEW e, NEW x, NEW s, NEW t, Advance(e, x, "hear", s, t), NEW w, IsSeq(w)
  PROVE  Advance(e, x, "hear", Over(s, w), Over(t, w))
<1> DEFINE sw == Over(s, w)
           i == Head(s[1])
<1>1. /\ sw[1] = s[1] /\ sw[2] = s[2] /\ sw[3] = s[3] /\ sw[4] = s[4] \o w
  BY DEF Over, St
<1>2. /\ IsSeq(s[1]) /\ IsSeq(s[4]) /\ s[1] # <<>>
      /\ Takes1(e, x, s, t) \/ Loops1(s, t) \/ Forwards1(s, t) \/ Enters1(e, x, s, t) \/ Refuses1(x, s, t)
  BY DEF Advance
<1>3. IsSeq(s[4] \o w)
  BY <1>2, Join
<1> HIDE DEF sw
<1>4. IsSeq(sw[1]) /\ IsSeq(sw[4]) /\ sw[1] # <<>> /\ Head(sw[1]) = i
  BY <1>1, <1>2, <1>3
<1>5. CASE Takes1(e, x, s, t)
  <2>1. PICK u, r :
          LET go == Continue(i, u[1].n, MinorOf(s[3]))
          IN /\ i.k \in Reads /\ Unit(i, u) /\ s[4] = u \o r /\ IsSeq(r)
             /\ i.k = "version" => Negotiated(Own(e, x), u[1].n) = Full
             /\ Minds(x, i.f, u[Len(u)])
             /\ IsSeq(go)
             /\ t = St(go \o Tail(s[1]), Learn(s[2], i, u[Len(u)]),
                       IF i.k = "version" THEN Full ELSE s[3], r)
    BY <1>5, Zenon DEF Takes1
  <2> DEFINE go == Continue(i, u[1].n, MinorOf(s[3]))
             a == Learn(s[2], i, u[Len(u)])
             v == IF i.k = "version" THEN Full ELSE s[3]
  <2>2. IsSeq(u)
    BY <2>1, UnitSeq
  <2>3. sw[4] = u \o (r \o w) /\ IsSeq(r \o w)
    <3>1. (u \o r) \o w = u \o (r \o w)
      <4>1. IsSeq(u) /\ IsSeq(r)
        BY <2>1, <2>2
      <4>2. QED
        <5>1. Assoc(u, r, w)
          BY <4>1, JoinAssoc3
        <5>2. QED
          BY <5>1 DEF Assoc
    <3>2. IsSeq(r \o w)
      BY <2>1, Join
    <3>3. QED
      BY <1>1, <2>1, <3>1, <3>2
  <2>4. t[1] = go \o Tail(s[1]) /\ t[2] = a /\ t[3] = v /\ t[4] = r
    BY <2>1, Zenon DEF St
  <2>5. Over(t, w) = St(go \o Tail(sw[1]), a, v, r \o w)
    <3> HIDE DEF go, a, v
    <3>1. QED
      BY <1>1, <2>4 DEF Over
  <2>6. Takes1(e, x, sw, Over(t, w))
    <3>1. /\ i.k \in Reads /\ Unit(i, u) /\ sw[4] = u \o (r \o w) /\ IsSeq(r \o w)
          /\ i.k = "version" => Negotiated(Own(e, x), u[1].n) = Full
          /\ Minds(x, i.f, u[Len(u)])
          /\ IsSeq(go)
          /\ Over(t, w) = St(go \o Tail(sw[1]), a, v, r \o w)
      BY <2>1, <2>3, <2>5
    <3>2. QED
      BY <1>1, <1>4, <3>1, Zenon DEF Takes1
  <2>7. QED
    BY <1>4, <2>6 DEF Advance, sw
<1>6. CASE Loops1(s, t)
  <2>1. Loops1(sw, Over(t, w))
    BY <1>1, <1>4, <1>6, Zenon DEF Loops1, Over, St
  <2>2. QED
    BY <1>4, <2>1 DEF Advance, sw
<1>7. CASE Forwards1(s, t)
  <2>1. Forwards1(sw, Over(t, w))
    BY <1>1, <1>4, <1>7 DEF Forwards1, Over, St
  <2>2. QED
    BY <1>4, <2>1 DEF Advance, sw
<1>8. CASE Enters1(e, x, s, t)
  <2>1. /\ Enters(e, x, sw[1], sw[2], sw[3], t[1]) /\ t = St(t[1], s[2], s[3], s[4])
    BY <1>1, <1>8 DEF Enters1
  <2>2. t[2] = s[2] /\ t[3] = s[3] /\ t[4] = s[4]
    BY <2>1 DEF St
  <2>3. Over(t, w) = St(t[1], sw[2], sw[3], sw[4]) /\ Over(t, w)[1] = t[1]
    BY <1>1, <2>2 DEF Over, St
  <2>4. Enters1(e, x, sw, Over(t, w))
    BY <2>1, <2>3 DEF Enters1
  <2>5. QED
    BY <1>4, <2>4 DEF Advance, sw
<1>9. CASE Refuses1(x, s, t)
  <2>1. /\ x[1] = "toStore" /\ i.k = "nonzero" /\ s[4] # <<>>
        /\ Head(s[4]).f = i.f /\ Head(s[4]).n = 0
        /\ t = St(Do("NextOutput"), s[2], s[3], Tail(s[4]))
    BY <1>9 DEF Refuses1
  <2>2. s[4] \o w # <<>> /\ Head(s[4] \o w) = Head(s[4]) /\ Tail(s[4] \o w) = Tail(s[4]) \o w
    BY <1>2, <2>1, Join, ZenonT(60)
  <2>3. Over(t, w) = St(Do("NextOutput"), sw[2], sw[3], Tail(sw[4]))
    BY <1>1, <2>1, <2>2, Zenon DEF Over, St
  <2>4. Refuses1(x, sw, Over(t, w))
    BY <1>1, <1>4, <2>1, <2>2, <2>3 DEF Refuses1
  <2>5. QED
    BY <1>4, <2>4 DEF Advance, sw
<1>10. QED
  BY <1>2, <1>5, <1>6, <1>7, <1>8, <1>9

\* So is a run.
LEMMA ReachesOver ==
  ASSUME NEW e, NEW x, NEW s, NEW g, Reaches(e, x, "hear", s, g), NEW w, IsSeq(w)
  PROVE  Reaches(e, x, "hear", Over(s, w), Over(g, w))
<1>1. PICK S : s \in S /\ \A q \in S : q = g \/ \E r \in S : Advance(e, x, "hear", q, r)
  BY Zenon DEF Reaches
<1> DEFINE T == {Over(q, w) : q \in S}
<1>2. Over(s, w) \in T /\ \A q \in S : Over(q, w) \in T
  BY <1>1
<1>3. ASSUME NEW z \in T PROVE z = Over(g, w) \/ \E r \in T : Advance(e, x, "hear", z, r)
  <2>1. PICK q \in S : z = Over(q, w)
    OBVIOUS
  <2> HIDE DEF T
  <2>2. CASE q = g
    BY <2>1, <2>2
  <2>3. CASE \E r \in S : Advance(e, x, "hear", q, r)
    <3>1. PICK r \in S : Advance(e, x, "hear", q, r)
      BY <2>3, Zenon
    <3>2. Advance(e, x, "hear", Over(q, w), Over(r, w))
      BY <3>1, AdvanceOver
    <3>3. QED
      BY <1>2, <2>1, <3>1, <3>2, Zenon
  <2>4. QED
    BY <1>1, <2>2, <2>3, Zenon
<1> HIDE DEF T
<1>4. QED
  BY <1>2, <1>3, Zenon DEF Reaches

\* One thing after the other.
LEMMA HearsThen ==
  ASSUME NEW e, NEW x, NEW s, NEW w, NEW t, NEW u, NEW g, IsSeq(w), IsSeq(u),
         Hears(e, x, s, w, t), Hears(e, x, t, u, g)
  PROVE  Hears(e, x, s, w \o u, g)
<1>1. Reaches(e, x, "hear", Over(Hear(s, w), u), Over(Hear(t, <<>>), u))
  BY ReachesOver DEF Hears
<1>2. Over(Hear(s, w), u) = Hear(s, w \o u)
  BY DEF Over, Hear, St
<1>3. Over(Hear(t, <<>>), u) = Hear(t, u)
  <2>1. <<>> \o u = u
    BY Nil, Join
  <2>2. QED
    BY <2>1 DEF Over, Hear, St
<1>4. QED
  BY <1>1, <1>2, <1>3, ReachesThen DEF Hears

\* A program that begins with the instruction i.
LEMMA FirstThen ==
  ASSUME NEW i, NEW q, IsSeq(q)
  PROVE  /\ IsSeq(<<i>>) /\ IsSeq(<<i>> \o q) /\ <<i>> \o q # <<>>
         /\ Head(<<i>> \o q) = i /\ Tail(<<i>> \o q) = q
<1>1. PICK z : z = <<i>>
  BY Zenon
<1>2. IsSeq(z) /\ z # <<>> /\ Head(z) = i /\ Tail(z) = <<>>
  BY <1>1, One
<1>3. IsSeq(z \o q) /\ z \o q # <<>> /\ Head(z \o q) = Head(z) /\ Tail(z \o q) = Tail(z) \o q
  BY <1>2, Join
<1>4. <<>> \o q = q
  BY Nil, Join
<1>5. QED
  BY <1>1, <1>2, <1>3, <1>4, Zenon

\* A message, and what is heard after it.
LEMMA HearsMessage ==
  ASSUME NEW e, NEW x, NEW v, NEW p, NEW w, NEW a, NEW b, Parses(e, x, v, p, w, a, b),
         NEW q, IsSeq(q)
  PROVE  Hears(e, x, <<p \o q, a, v>>, w, <<q, b, v>>)
<1>1. IsSeq(p) /\ IsSeq(w) /\ Reaches(e, x, "read", St(p, a, v, w), St(<<>>, b, v, <<>>))
  BY DEF Parses
<1>2. Reaches(e, x, "read", With(St(p, a, v, w), q, <<>>), With(St(<<>>, b, v, <<>>), q, <<>>))
  BY <1>1, Nil, ReachesWith
<1>3. <<>> \o q = q /\ w \o <<>> = w /\ <<>> \o <<>> = <<>>
  BY <1>1, Nil, Join
<1>4. /\ With(St(p, a, v, w), q, <<>>) = St(p \o q, a, v, w)
      /\ With(St(<<>>, b, v, <<>>), q, <<>>) = St(q, b, v, <<>>)
  BY <1>3 DEF With, St
<1>5. Reaches(e, x, "hear", St(p \o q, a, v, w), St(q, b, v, <<>>))
  BY <1>2, <1>4, ReadHear
<1>6. QED
  BY <1>5 DEF Hears, Hear

\* A stream that ends in an error.
LEMMA HearsError ==
  ASSUME NEW e, NEW x, NEW v, NEW w, NEW a, Fails(e, x, v, w, a), NEW q, IsSeq(q)
  PROVE  Hears(e, x, <<ReadMarker \o q, a, v>>, w, <<FailIns \o q, a, v>>)
<1>1. IsSeq(w) /\ Reaches(e, x, "read", St(ReadMarker, a, v, w), St(FailIns, a, v, <<>>))
  BY DEF Fails
<1>2. Reaches(e, x, "read", With(St(ReadMarker, a, v, w), q, <<>>), With(St(FailIns, a, v, <<>>), q, <<>>))
  BY <1>1, Nil, ReachesWith
<1>3. w \o <<>> = w /\ <<>> \o <<>> = <<>>
  BY <1>1, Nil, Join
<1>4. /\ With(St(ReadMarker, a, v, w), q, <<>>) = St(ReadMarker \o q, a, v, w)
      /\ With(St(FailIns, a, v, <<>>), q, <<>>) = St(FailIns \o q, a, v, <<>>)
  BY <1>3 DEF With, St
<1>5. Reaches(e, x, "hear", St(ReadMarker \o q, a, v, w), St(FailIns \o q, a, v, <<>>))
  BY <1>2, <1>4, ReadHear
<1>6. QED
  BY <1>5 DEF Hears, Hear

\* One step of a listener.
LEMMA HearsStep ==
  ASSUME NEW e, NEW x, NEW s, NEW w, NEW t, Advance(e, x, "hear", Hear(s, w), Hear(t, <<>>))
  PROVE  Hears(e, x, s, w, t)
BY ReachesNow, ReachesStep DEF Hears

\* The part of the program that follows, for a listener and for a speaker.
LEMMA EntersRun ==
  ASSUME NEW e, NEW x, NEW p, NEW a, NEW v, NEW q, Enters(e, x, p, a, v, q), IsSeq(p), p # <<>>
  PROVE  /\ Hears(e, x, <<p, a, v>>, <<>>, <<q, a, v>>)
         /\ \A w, t : IsSeq(w) /\ Tells(e, x, <<q, a, v>>, w, FALSE, t)
                        => Tells(e, x, <<p, a, v>>, w, FALSE, t)
<1>1. Advance(e, x, "hear", Hear(<<p, a, v>>, <<>>), Hear(<<q, a, v>>, <<>>))
  BY Nil DEF Advance, Enters1, Hear, St
<1>2. ASSUME NEW w, NEW t, IsSeq(w), Tells(e, x, <<q, a, v>>, w, FALSE, t)
      PROVE  Tells(e, x, <<p, a, v>>, w, FALSE, t)
  <2>1. Advance(e, x, "tell", Tell(<<p, a, v>>, w, FALSE), Tell(<<q, a, v>>, w, FALSE))
    BY <1>2 DEF Advance, Tell
  <2>2. QED
    BY <1>2, <2>1, ReachesStep, Zenon DEF Tells
<1>3. QED
  BY <1>1, <1>2, HearsStep, Zenon

\* The version of the other end.
LEMMA HearsVersion ==
  ASSUME NEW e, NEW x, NEW a, NEW v, NEW n, Negotiated(Own(e, x), n) = Full, NEW q, IsSeq(q)
  PROVE  Hears(e, x, <<ReadVersion \o q, a, v>>, WriteUint64("version", n), <<q, a, Full>>)
<1> DEFINE i == Ins("version", "version", 0, <<>>)
           y == Word("version", n, 0, 0)
           s == St(<<i>> \o q, a, v, <<y>>)
           t == St(q, a, Full, <<>>)
<1>1. i.k = "version" /\ i.f = "version" /\ y.f = "version" /\ y.n = n
  BY DEF Ins, Word
<1>2. /\ IsSeq(<<i>>) /\ IsSeq(<<y>>) /\ <<i>> # <<>> /\ Head(<<i>>) = i /\ Tail(<<i>>) = <<>>
      /\ <<y>>[1] = y /\ Len(<<y>>) = 1
  BY One
<1>3. ReadVersion = <<i>> /\ WriteUint64("version", n) = <<y>>
  BY DEF ReadVersion, WriteUint64
<1>4. s[1] = <<i>> \o q /\ s[2] = a /\ s[3] = v /\ s[4] = <<y>>
  BY DEF St
<1> HIDE DEF i, y, s
<1>5. Unit(i, <<y>>)
  BY <1>1 DEF Unit, Refused
<1>6. /\ IsSeq(s[1]) /\ s[1] # <<>> /\ Head(s[1]) = i /\ Tail(s[1]) = q /\ <<>> \o q = q
  BY <1>4, FirstThen, Nil, Join
<1>7. Continue(i, <<y>>[1].n, MinorOf(s[3])) = <<>>
  BY <1>1 DEF Continue
<1>8. Learn(s[2], i, <<y>>[Len(<<y>>)]) = a
  BY <1>1, <1>4, LearnQuiet DEF Kept
<1>9. <<y>> \o <<>> = <<y>> /\ IsSeq(<<>>)
  BY <1>2, Nil, Join
<1>10. Takes1(e, x, s, t)
  <2>1. /\ i.k \in Reads /\ Unit(i, <<y>>) /\ s[4] = <<y>> \o <<>> /\ IsSeq(<<>>)
        /\ i.k = "version" => Negotiated(Own(e, x), <<y>>[1].n) = Full
        /\ Minds(x, i.f, <<y>>[Len(<<y>>)])
        /\ IsSeq(Continue(i, <<y>>[1].n, MinorOf(s[3])))
        /\ t = St(Continue(i, <<y>>[1].n, MinorOf(s[3])) \o Tail(s[1]),
                  Learn(s[2], i, <<y>>[Len(<<y>>)]), IF i.k = "version" THEN Full ELSE s[3], <<>>)
    <3>1. i.k \in Reads
      BY <1>1 DEF Reads
    <3>2. Negotiated(Own(e, x), <<y>>[1].n) = Full
      BY <1>1, <1>2
    <3>3. Continue(i, <<y>>[1].n, MinorOf(s[3])) \o Tail(s[1]) = q
      BY <1>6, <1>7, Zenon
    <3>4. Minds(x, i.f, <<y>>[Len(<<y>>)])
      BY <1>1, LearnQuiet DEF Results
    <3>5. QED
      BY <1>1, <1>4, <1>5, <1>7, <1>8, <1>9, <3>1, <3>2, <3>3, <3>4, Zenon
  <2>2. QED
    BY <1>6, <2>1, Zenon DEF Takes1
<1>11. Advance(e, x, "hear", s, t)
  BY <1>2, <1>4, <1>6, <1>10 DEF Advance
<1>12. s = Hear(<<ReadVersion \o q, a, v>>, WriteUint64("version", n)) /\ t = Hear(<<q, a, Full>>, <<>>)
  BY <1>3 DEF Hear, St, s
<1>13. QED
  BY <1>11, <1>12, HearsStep

\* An opcode.
LEMMA HearsOp ==
  ASSUME NEW e, NEW x, NEW a, NEW v, NEW n
  PROVE  Hears(e, x, <<ReadOp, a, v>>, WriteUint64("op", n), <<handleOperation(n), a, v>>)
<1> DEFINE i == Ins("op", "op", 0, <<>>)
           y == Word("op", n, 0, 0)
           s == St(<<i>>, a, v, <<y>>)
           go == handleOperation(n)
           t == St(go, a, v, <<>>)
<1>1. i.k = "op" /\ i.f = "op" /\ y.f = "op" /\ y.n = n
  BY DEF Ins, Word
<1>2. /\ IsSeq(<<i>>) /\ IsSeq(<<y>>) /\ <<i>> # <<>> /\ Head(<<i>>) = i /\ Tail(<<i>>) = <<>>
      /\ <<y>>[1] = y /\ Len(<<y>>) = 1
  BY One
<1>3. ReadOp = <<i>> /\ WriteUint64("op", n) = <<y>>
  BY DEF ReadOp, WriteUint64
<1>4. s[1] = <<i>> /\ s[2] = a /\ s[3] = v /\ s[4] = <<y>>
  BY DEF St
<1>5. IsSeq(go)
  BY One DEF handleOperation, Do
<1> HIDE DEF i, y, s, go
<1>6. Unit(i, <<y>>)
  BY <1>1 DEF Unit, Refused
<1>7. Continue(i, <<y>>[1].n, MinorOf(s[3])) = go
  BY <1>1, <1>2 DEF Continue, go
<1>8. Learn(s[2], i, <<y>>[Len(<<y>>)]) = a
  BY <1>1, <1>4, LearnQuiet DEF Kept
<1>9. <<y>> \o <<>> = <<y>> /\ IsSeq(<<>>) /\ go \o <<>> = go
  BY <1>2, <1>5, Nil, Join
<1>10. Takes1(e, x, s, t)
  <2>1. /\ i.k \in Reads /\ Unit(i, <<y>>) /\ s[4] = <<y>> \o <<>> /\ IsSeq(<<>>)
        /\ i.k = "version" => Negotiated(Own(e, x), <<y>>[1].n) = Full
        /\ Minds(x, i.f, <<y>>[Len(<<y>>)])
        /\ IsSeq(Continue(i, <<y>>[1].n, MinorOf(s[3])))
        /\ t = St(Continue(i, <<y>>[1].n, MinorOf(s[3])) \o Tail(s[1]),
                  Learn(s[2], i, <<y>>[Len(<<y>>)]), IF i.k = "version" THEN Full ELSE s[3], <<>>)
    <3>1. i.k \in Reads
      BY <1>1 DEF Reads
    <3>3. Continue(i, <<y>>[1].n, MinorOf(s[3])) \o Tail(s[1]) = go
      BY <1>2, <1>4, <1>7, <1>9
    <3>4. Minds(x, i.f, <<y>>[Len(<<y>>)])
      BY <1>1, LearnQuiet DEF Results
    <3>5. QED
      BY <1>1, <1>4, <1>5, <1>6, <1>7, <1>8, <1>9, <3>1, <3>3, <3>4
  <2>2. QED
    BY <1>2, <1>4, <2>1, Zenon DEF Takes1
<1>11. Advance(e, x, "hear", s, t)
  BY <1>2, <1>4, <1>10 DEF Advance
<1>12. s = Hear(<<ReadOp, a, v>>, WriteUint64("op", n)) /\ t = Hear(<<handleOperation(n), a, v>>, <<>>)
  BY <1>3 DEF Hear, St, s, go
<1>13. QED
  BY <1>11, <1>12, HearsStep

\* A speaker that has nothing to say.
LEMMA TellsNow ==
  \A e, x, s : Tells(e, x, s, <<>>, FALSE, s)
BY ReachesNow, Zenon DEF Tells

\* Words that are written and flushed, and then others.
LEMMA TellsSend ==
  ASSUME NEW e, NEW x, NEW p, NEW a, NEW v, NEW w, NEW r, NEW d, NEW t, Ends(w), IsSeq(p), IsSeq(r),
         Tells(e, x, <<p, a, v>>, r, FALSE, t)
  PROVE  Tells(e, x, <<Send(w) \o p, a, v>>, w \o r, d, t)
<1> DEFINE i == Ins("write", "", 0, w)
           j == Ins("flush", "", 0, <<>>)
           q == <<j>> \o p
<1>1. i.k = "write" /\ i.x = w /\ j.k = "flush"
  BY DEF Ins
<1>2. IsSeq(<<i>>) /\ IsSeq(<<j>>) /\ IsSeq(w) /\ w # <<>> /\ Whole(w)
  BY One, Zenon DEF Ends
<1>3. Send(w) = <<i>> \o <<j>>
  BY DEF Send, Write, Flush
<1> HIDE DEF i, j
<1>4. /\ IsSeq(q) /\ q # <<>> /\ Head(q) = j /\ Tail(q) = p
  BY FirstThen
<1>5. Send(w) \o p = <<i>> \o q
  BY <1>2, <1>3, JoinAssoc, SMTT(30)
<1> HIDE DEF q
<1>6. /\ IsSeq(Send(w) \o p) /\ Send(w) \o p # <<>> /\ Head(Send(w) \o p) = i /\ Tail(Send(w) \o p) = q
  BY <1>4, <1>5, FirstThen, Zenon
<1>7. IsSeq(w \o r)
  BY <1>2, Join
<1>8. PICK pp : pp = Send(w) \o p
  BY Zenon
<1>9. Advance(e, x, "tell", <<pp, a, v, w \o r, d>>, <<q, a, v, r, TRUE>>)
  BY <1>1, <1>2, <1>6, <1>7, <1>8, Zenon DEF Advance, Writes1
<1>10. Advance(e, x, "tell", <<q, a, v, r, TRUE>>, <<p, a, v, r, FALSE>>)
  BY <1>1, <1>4 DEF Advance, Flushes1
<1>11. Reaches(e, x, "tell", <<p, a, v, r, FALSE>>, Tell(t, <<>>, FALSE))
  BY DEF Tells, Tell
<1>12. Reaches(e, x, "tell", <<q, a, v, r, TRUE>>, Tell(t, <<>>, FALSE))
  BY <1>10, <1>11, ReachesStep, Zenon
<1>13. Reaches(e, x, "tell", <<pp, a, v, w \o r, d>>, Tell(t, <<>>, FALSE))
  BY <1>9, <1>12, ReachesStep, Zenon
<1>14. QED
  BY <1>8, <1>13 DEF Tells, Tell

\* Words, and then nothing until there is something to read.
LEMMA TellsLast ==
  ASSUME NEW e, NEW x, NEW p, NEW a, NEW v, NEW w, NEW d, Ends(w), IsSeq(p)
  PROVE  Tells(e, x, <<Send(w) \o p, a, v>>, w, d, <<p, a, v>>)
<1>1. Tells(e, x, <<Send(w) \o p, a, v>>, w \o <<>>, d, <<p, a, v>>)
  BY Nil, TellsNow, TellsSend, Zenon
<1>2. w \o <<>> = w
  BY Nil, Join DEF Ends
<1>3. QED
  BY <1>1, <1>2

-----------------------------------------------------------------------------
(* Programs *)

\* A program of several parts is the first one and the rest, and so on.
LEMMA Chain3 ==
  ASSUME NEW s1, NEW s2, NEW s3, NEW p, p = s1 \o s2 \o s3,
         IsSeq(s1), IsSeq(s2), IsSeq(s3)
  PROVE  \E t1 :
           Starts(s1, p, t1) /\ Starts(s2, t1, s3)
<1>1. Starts(s1, s1 \o s2 \o s3, s2 \o s3) /\ Starts(s2, s2 \o s3, s3)
  BY StartsRules, Zenon
<1>2. QED
  BY <1>1, Zenon

\* The same for 4 parts.
LEMMA Chain4 ==
  ASSUME NEW s1, NEW s2, NEW s3, NEW s4, NEW p, p = s1 \o s2 \o s3 \o s4,
         IsSeq(s1), IsSeq(s2), IsSeq(s3), IsSeq(s4)
  PROVE  \E t1, t2 :
           Starts(s1, p, t1) /\ Starts(s2, t1, t2) /\ Starts(s3, t2, s4)
<1>1. PICK z : z = s1 \o s2 \o s3
  BY Zenon
<1>2. PICK u1 :
        Starts(s1, z, u1) /\ Starts(s2, u1, s3)
  BY <1>1, Chain3, Zenon
<1>3. /\ p = z \o s4
      /\ Starts(s1, z \o s4, u1 \o s4)
      /\ Starts(s2, u1 \o s4, s3 \o s4)
      /\ Starts(s3, s3 \o s4, s4)
  BY <1>1, <1>2, StartsRules, Zenon
<1>4. QED
  BY <1>3, Zenon

\* The same for 5 parts.
LEMMA Chain5 ==
  ASSUME NEW s1, NEW s2, NEW s3, NEW s4, NEW s5, NEW p, p = s1 \o s2 \o s3 \o s4 \o s5,
         IsSeq(s1), IsSeq(s2), IsSeq(s3), IsSeq(s4), IsSeq(s5)
  PROVE  \E t1, t2, t3 :
           Starts(s1, p, t1) /\ Starts(s2, t1, t2) /\ Starts(s3, t2, t3) /\ Starts(s4, t3, s5)
<1>1. PICK z : z = s1 \o s2 \o s3 \o s4
  BY Zenon
<1>2. PICK u1, u2 :
        Starts(s1, z, u1) /\ Starts(s2, u1, u2) /\ Starts(s3, u2, s4)
  BY <1>1, Chain4, Zenon
<1>3. /\ p = z \o s5
      /\ Starts(s1, z \o s5, u1 \o s5)
      /\ Starts(s2, u1 \o s5, u2 \o s5)
      /\ Starts(s3, u2 \o s5, s4 \o s5)
      /\ Starts(s4, s4 \o s5, s5)
  BY <1>1, <1>2, StartsRules, Zenon
<1>4. QED
  BY <1>3, Zenon

\* A program of six parts.
Parts6(p, s1, s2, s3, s4, s5, s6) ==
  /\ p = s1 \o s2 \o s3 \o s4 \o s5 \o s6
  /\ IsSeq(s1) /\ IsSeq(s2) /\ IsSeq(s3) /\ IsSeq(s4) /\ IsSeq(s5) /\ IsSeq(s6)

\* Where they begin.
Splits6(p, s1, s2, s3, s4, s5, s6, t1, t2, t3, t4) ==
  /\ Starts(s1, p, t1) /\ Starts(s2, t1, t2) /\ Starts(s3, t2, t3) /\ Starts(s4, t3, t4)
  /\ Starts(s5, t4, s6)

\* The same for 6 parts.
LEMMA Chain6 ==
  ASSUME NEW p, NEW s1, NEW s2, NEW s3, NEW s4, NEW s5, NEW s6, Parts6(p, s1, s2, s3, s4, s5, s6)
  PROVE  \E t1, t2, t3, t4 : Splits6(p, s1, s2, s3, s4, s5, s6, t1, t2, t3, t4)
<1>1. PICK z : z = s1 \o s2 \o s3 \o s4 \o s5
  BY Zenon
<1>2. IsSeq(s1) /\ IsSeq(s2) /\ IsSeq(s3) /\ IsSeq(s4) /\ IsSeq(s5) /\ IsSeq(s6)
  BY DEF Parts6
<1>3. PICK u1, u2, u3 : Starts(s1, z, u1) /\ Starts(s2, u1, u2) /\ Starts(s3, u2, u3) /\ Starts(s4, u3, s5)
  BY <1>1, <1>2, Chain5, Zenon
<1>4. /\ p = z \o s6 /\ Starts(s1, z \o s6, u1 \o s6) /\ Starts(s2, u1 \o s6, u2 \o s6)
      /\ Starts(s3, u2 \o s6, u3 \o s6) /\ Starts(s4, u3 \o s6, s5 \o s6) /\ Starts(s5, s5 \o s6, s6)
  BY <1>1, <1>2, <1>3, StartsRules, Zenon DEF Parts6
<1>5. Splits6(p, s1, s2, s3, s4, s5, s6, u1 \o s6, u2 \o s6, u3 \o s6, s5 \o s6)
  BY <1>4, Zenon DEF Splits6
<1>6. QED
  BY <1>5, Zenon

\* The parts of programs are sequences, and the reads among them wait.
Waits(s) == IsSeq(s[1]) /\ s[1] # <<>> /\ Head(s[1]).k \in Reads

\* The parts of the programs are sequences of instructions.
LEMMA Parts ==
  /\ \A w : IsSeq(Send(w)) /\ IsSeq(Write(w))
  /\ \A l : IsSeq(Do(l)) /\ Do(l) # <<>>
  /\ IsSeq(Flush) /\ IsSeq(FailIns)
  /\ IsSeq(ReadMarker) /\ IsSeq(ReadVersion) /\ IsSeq(ReadOp)
  /\ \A f : IsSeq(ReadString(f)) /\ IsSeq(ReadStrings(f)) /\ IsSeq(ReadUint64(f))
  /\ \A f, n : IsSeq(Require(f, n))
  /\ \A p, q : IsSeq(p) /\ IsSeq(q) => IsSeq(p \o q)
<1>1. \A p, q : IsSeq(p) /\ IsSeq(q) => IsSeq(p \o q)
  BY Join
<1>2. \A x : IsSeq(<<x>>) /\ <<x>> # <<>>
  BY One, Zenon
<1>3. \A w : IsSeq(Write(w)) /\ IsSeq(Flush)
  BY <1>2, Zenon DEF Write, Flush
<1>4. \A w : IsSeq(Send(w))
  BY <1>1, <1>3, Zenon DEF Send
<1>5. QED
  BY <1>1, <1>2, <1>3, <1>4, Zenon
     DEF Do, Flush, FailIns, ReadMarker, ReadVersion, ReadOp, ReadString, ReadStrings, ReadUint64, Require

\* Which programs begin with a read.
LEMMA WaitsRules ==
  /\ \A i, a, v : i.k \in Reads => Waits(<<<<i>>, a, v>>)
  /\ \A p, q, a, v : Waits(<<p, a, v>>) /\ IsSeq(q) => Waits(<<p \o q, a, v>>)
  /\ \A a, v : Waits(<<ReadMarker, a, v>>) /\ Waits(<<ReadVersion, a, v>>) /\ Waits(<<ReadOp, a, v>>)
  /\ \A f, a, v : /\ Waits(<<ReadString(f), a, v>>) /\ Waits(<<ReadStrings(f), a, v>>)
                  /\ Waits(<<ReadUint64(f), a, v>>)
  /\ \A f, n, a, v : Waits(<<Require(f, n), a, v>>) /\ Waits(<<Optional(f, n), a, v>>)
<1>1. ASSUME NEW i, NEW a, NEW v, i.k \in Reads PROVE Waits(<<<<i>>, a, v>>)
  BY <1>1, One DEF Waits
<1>2. ASSUME NEW p, NEW q, NEW a, NEW v, Waits(<<p, a, v>>), IsSeq(q)
      PROVE  Waits(<<p \o q, a, v>>)
  <2>1. IsSeq(p) /\ p # <<>> /\ Head(p).k \in Reads
    BY <1>2 DEF Waits
  <2>2. IsSeq(p \o q) /\ p \o q # <<>> /\ Head(p \o q) = Head(p)
    BY <1>2, <2>1, Join
  <2>3. QED
    BY <2>1, <2>2 DEF Waits
<1>3. \A k, f, n, x : Ins(k, f, n, x).k = k
  BY DEF Ins
<1>4. \A k \in {"num", "str", "strs", "require", "opt", "version", "op", "marker"} : k \in Reads
  BY DEF Reads
<1>5. \A k \in {"num", "str", "strs", "require", "opt", "version", "op", "marker"} :
        \A f, n, x, a, v : Waits(<<<<Ins(k, f, n, x)>>, a, v>>)
  BY <1>1, <1>3, <1>4
<1>6. /\ \A a, v : Waits(<<ReadMarker, a, v>>) /\ Waits(<<ReadVersion, a, v>>) /\ Waits(<<ReadOp, a, v>>)
      /\ \A f, a, v : /\ Waits(<<ReadString(f), a, v>>) /\ Waits(<<ReadStrings(f), a, v>>)
                      /\ Waits(<<ReadUint64(f), a, v>>)
      /\ \A f, n, a, v : Waits(<<Require(f, n), a, v>>) /\ Waits(<<Optional(f, n), a, v>>)
  BY <1>5 DEF ReadMarker, ReadVersion, ReadOp, ReadString, ReadStrings, ReadUint64, Require, Optional
<1>7. QED
  BY <1>1, <1>2, <1>6

-----------------------------------------------------------------------------
(* Dialogs *)

\* x at s tells what y at l hears, until x has to read and y to write.
Exchange(e, d, f) ==
  \E w, s, l : /\ IsSeq(w) /\ Tells(e, d[1], d[2], w, FALSE, s) /\ Hears(e, d[3], d[4], w, l)
               /\ f = <<d[3], l, d[1], s>>

\* x at s, whose turn it is, and y at l, which waits, talk until the one whose
\* turn it is and the other one are at a pair of G.
Dialog(e, G, x, s, y, l) ==
  \E D : /\ <<x, s, y, l>> \in D
         /\ \A q \in D : /\ Waits(q[4])
                         /\ q \in G \/ \E r \in D : Exchange(e, q, r)

\* The same, before y waits.
Opens(e, G, x, s, y, l) ==
  \E w, t, k : /\ IsSeq(w) /\ Tells(e, x, s, w, FALSE, t) /\ Hears(e, y, l, w, k)
               /\ Dialog(e, G, y, k, x, t)

\* A dialog that is over.
LEMMA DialogGoal ==
  ASSUME NEW e, NEW G, NEW x, NEW s, NEW y, NEW l, Waits(l), <<x, s, y, l>> \in G
  PROVE  Dialog(e, G, x, s, y, l)
<1>1. PICK D : D = {<<x, s, y, l>>}
  BY Zenon
<1>2. <<x, s, y, l>> \in D /\ \A q \in D : q \in G /\ q[4] = l
  BY <1>1
<1>3. QED
  BY <1>2, Zenon DEF Dialog

\* An exchange, and then the rest.
LEMMA DialogStep ==
  ASSUME NEW e, NEW G, NEW x, NEW s, NEW y, NEW l, Waits(l), Opens(e, G, x, s, y, l)
  PROVE  Dialog(e, G, x, s, y, l)
<1>1. PICK w, t, k : /\ IsSeq(w) /\ Tells(e, x, s, w, FALSE, t) /\ Hears(e, y, l, w, k)
                     /\ Dialog(e, G, y, k, x, t)
  BY Zenon DEF Opens
<1>2. PICK D : /\ <<y, k, x, t>> \in D
               /\ \A q \in D : /\ Waits(q[4])
                               /\ q \in G \/ \E r \in D : Exchange(e, q, r)
  BY <1>1, Zenon DEF Dialog
<1>3. PICK z : z = <<x, s, y, l>>
  BY Zenon
<1>4. z[1] = x /\ z[2] = s /\ z[3] = y /\ z[4] = l
  BY <1>3
<1>5. Exchange(e, z, <<y, k, x, t>>)
  BY <1>1, <1>4, Zenon DEF Exchange
<1> DEFINE E == D \union {z}
<1>6. z \in E /\ \A q \in E : /\ Waits(q[4])
                              /\ q \in G \/ \E r \in E : Exchange(e, q, r)
  <2>1. z \in E /\ (\A q \in D : q \in E) /\ \A q \in E : q \in D \/ q = z
    OBVIOUS
  <2> HIDE DEF E
  <2>2. Waits(z[4])
    BY <1>4
  <2>3. QED
    BY <1>2, <1>5, <2>1, <2>2, Zenon
<1> HIDE DEF E
<1>7. QED
  BY <1>3, <1>6, Zenon DEF Dialog

\* What a dialog begins with.
LEMMA DialogFirst ==
  ASSUME NEW e, NEW G, NEW x, NEW s, NEW y, NEW l, Dialog(e, G, x, s, y, l)
  PROVE  Waits(l) /\ (<<x, s, y, l>> \in G \/ Opens(e, G, x, s, y, l))
<1>1. PICK D : /\ <<x, s, y, l>> \in D
               /\ \A q \in D : /\ Waits(q[4])
                               /\ q \in G \/ \E r \in D : Exchange(e, q, r)
  BY Zenon DEF Dialog
<1>2. PICK z : z = <<x, s, y, l>>
  BY Zenon
<1>3. z[1] = x /\ z[2] = s /\ z[3] = y /\ z[4] = l
  BY <1>2
<1>4. Waits(l) /\ (<<x, s, y, l>> \in G \/ \E r \in D : Exchange(e, z, r))
  BY <1>1, <1>2, <1>3
<1>5. ASSUME NEW r \in D, Exchange(e, z, r) PROVE Opens(e, G, x, s, y, l)
  <2>1. PICK w, t, k : /\ IsSeq(w) /\ Tells(e, x, s, w, FALSE, t) /\ Hears(e, y, l, w, k)
                       /\ r = <<y, k, x, t>>
    BY <1>3, <1>5, Zenon DEF Exchange
  <2>2. Dialog(e, G, y, k, x, t)
    BY <1>1, <1>5, <2>1, Zenon DEF Dialog
  <2>3. QED
    BY <2>1, <2>2, Zenon DEF Opens
<1>6. QED
  BY <1>4, <1>5, Zenon

\* A flush before the words that follow.
LEMMA TellsFlush ==
  ASSUME NEW e, NEW x, NEW q, NEW a, NEW v, NEW w, NEW t, IsSeq(q), Ends(w),
         Tells(e, x, <<q, a, v>>, w, FALSE, t)
  PROVE  Tells(e, x, <<Flush \o q, a, v>>, w, FALSE, t)
<1> DEFINE j == Ins("flush", "", 0, <<>>)
<1>1. j.k = "flush" /\ Flush = <<j>>
  BY DEF Ins, Flush
<1> HIDE DEF j
<1>2. PICK p : p = <<j>> \o q
  BY Zenon
<1>3. IsSeq(p) /\ p # <<>> /\ Head(p) = j /\ Tail(p) = q
  BY <1>2, FirstThen
<1>4. IsSeq(w) /\ w # <<>>
  BY DEF Ends
<1>5. Advance(e, x, "tell", <<p, a, v, w, FALSE>>, <<q, a, v, w, FALSE>>)
  BY <1>1, <1>3, <1>4 DEF Advance, Flushes1
<1>6. Reaches(e, x, "tell", <<p, a, v, w, FALSE>>, Tell(t, <<>>, FALSE))
  BY <1>5, ReachesStep DEF Tells, Tell
<1>7. QED
  BY <1>1, <1>2, <1>6 DEF Tells, Tell

-----------------------------------------------------------------------------
(* Version 1.38 *)

\* The version that both ends go by is 1.38, and every format is complete.
LEMMA FullVersion ==
  /\ \A m : m = MinorOf(Full) => /\ m \in Nat /\ m >= 2 /\ m >= 4 /\ m >= 6 /\ m >= 10 /\ m >= 12
                                 /\ m >= 14 /\ m >= 17 /\ m >= 26 /\ m >= 33 /\ m >= 35 /\ m >= 37
                                 /\ m >= 38
  /\ \A e, x : x[1] \notin Conn \union {"reader", "done"} => Own(e, x) = Full
  /\ \A e, x : x[1] \in Conn => Own(e, x) = Version(e.minor[x[1]])
  /\ \A n \in 0..255 : n >= 38 => Negotiated(Full, Version(n)) = Full /\ Negotiated(Version(n), Full) = Full
  /\ Full # 0
<1>1. Full = 294
  BY DEF Full, Version, ProtocolVersionMinor
<1>2. MinorOf(Full) = 38
  BY <1>1 DEF MinorOf
<1>3. \A n \in 0..255 : n >= 38 => Negotiated(Full, Version(n)) = Full /\ Negotiated(Version(n), Full) = Full
  BY <1>1 DEF Negotiated, Version
<1>4. \A e, x : x[1] \notin Conn \union {"reader", "done"} => Own(e, x) = Full
  BY DEF Own, Full
<1>5. \A e, x : x[1] \in Conn => Own(e, x) = Version(e.minor[x[1]])
  BY DEF Own
<1>6. QED
  BY <1>1, <1>2, <1>3, <1>4, <1>5

\* What a party knows at the start.
LEMMA NothingKnown ==
  IsMem(Nothing) /\ Nothing.fields = <<>> /\ Nothing.drv = {} /\ Nothing.outs = {} /\ Nothing.cpu = FALSE
BY DEF IsMem, Nothing

\* The messages of these conversations do not end in the length of a string.
LEMMA EndsMessages ==
  ASSUME NEW m, m = MinorOf(Full), NEW h \in Environment
  PROVE  /\ Ends(WriteStrings("features", 0)) /\ Ends(HandshakeInfo(m))
         /\ \A b \in BOOLEAN : Ends(AffinityWords(m, b))
         /\ Ends(WriteUint64("affinity", 0) \o WriteUint64("reserve", 0))
         /\ Ends(WriteUint64("op", OpSetOptions) \o WriteOptions(m))
         /\ IsSeq(Chatter(h)) /\ Ends(LastMarker(h))
         /\ Ends(StopWorkWithError(m)) /\ Ends(PeerError(h, m))
         /\ Ends(Chatter(h) \o PeerError(h, m))
<1>1. /\ m \in Nat /\ m >= 12 /\ m >= 14 /\ m >= 26 /\ m >= 33 /\ m >= 35
      /\ m >= 2 /\ m >= 4 /\ m >= 6 /\ m >= 10
  BY FullVersion
<1>2. \A f, n : IsSeq(WriteUint64(f, n)) /\ (n # 8 => Ends(WriteUint64(f, n)))
  BY EndsRules, Zenon
<1>3. \A w, u : IsSeq(w) /\ Ends(u) => Ends(w \o u)
  BY EndsRules, Zenon
<1>4. \A w, u : IsSeq(w) /\ IsSeq(u) => IsSeq(w \o u)
  BY EndsRules, Zenon
<1>5. \A f, b : IsSeq(WriteBool(f, b))
  BY EndsRules, Zenon
<1>6. \A f : IsSeq(WriteString(f)) /\ IsSeq(WriteEmpty(f)) /\ Ends(WriteString(f))
  BY EndsRules, Zenon
<1>7. StderrLast # 8 /\ 0 # 8 /\ 1 # 8
  BY Markers
<1>8. Ends(WriteStrings("features", 0))
  <2>1. PICK ws : ws = [i \in 1..0 |-> WriteString("features")]
    OBVIOUS
  <2>2. ws = <<>>
    BY <2>1
  <2>3. FlattenSeq(<<>>) = <<>>
    <3>1. 0 \in Nat /\ IsSeq(<<>>) /\ Len(<<>>) = 0 /\ \A k \in 1..0 : Ends(<<>>[k])
      BY Nil
    <3>2. QED
      BY <3>1, FlattenEnds
  <2>4. WriteStrings("features", 0) = WriteUint64("features", 0) \o <<>>
    BY <2>1, <2>2, <2>3, Zenon DEF WriteStrings
  <2>5. WriteUint64("features", 0) \o <<>> = WriteUint64("features", 0)
    BY <1>2, Nil, Join
  <2>6. QED
    BY <1>2, <1>7, <2>4, <2>5
<1>9. Ends(HandshakeInfo(m))
  <2>1. HandshakeInfo(m) = WriteString("daemonVersion") \o WriteUint64("trust", 1)
                             \o WriteUint64("marker", StderrLast)
    BY <1>1, Zenon DEF HandshakeInfo, When
  <2>2. QED
    BY <1>2, <1>3, <1>4, <1>6, <1>7, <2>1, Zenon
<1>10. ASSUME NEW b \in BOOLEAN PROVE Ends(AffinityWords(m, b))
  <2>1. PICK k : k = When(b, WriteUint64("mask", 3))
    OBVIOUS
  <2>2. IsSeq(k)
    BY <1>2, <2>1, Nil DEF When
  <2>3. AffinityWords(m, b) = WriteBool("affinity", b) \o k \o WriteUint64("reserve", 0)
    BY <1>1, <2>1, Zenon DEF AffinityWords, When
  <2>4. QED
    BY <1>2, <1>3, <1>4, <1>5, <1>7, <2>2, <2>3, Zenon
<1>11. Ends(WriteUint64("affinity", 0) \o WriteUint64("reserve", 0))
  BY <1>2, <1>3, <1>7, Zenon
<1>12. Ends(WriteUint64("op", OpSetOptions) \o WriteOptions(m))
  <2>1. PICK z : z = WriteBool("keepFailed", FALSE) \o WriteBool("keepGoing", TRUE)
                   \o WriteBool("tryFallback", TRUE) \o WriteUint64("verbosity", 3)
                   \o WriteUint64("maxBuildJobs", 1) \o WriteUint64("maxSilentTime", 0)
    BY Zenon
  <2>2. IsSeq(z)
    BY <1>2, <1>4, <1>5, <2>1, Zenon
  <2>3. PICK y : y = WriteUint64("verboseBuild", 0) \o WriteUint64("logType", 0)
                       \o WriteUint64("printBuildTrace", 0)
    BY Zenon
  <2>4. IsSeq(y)
    BY <1>2, <1>4, <2>3, Zenon
  <2>5. WriteOptions(m) = z \o WriteBool("useBuildHook", FALSE) \o y \o WriteUint64("buildCores", 0)
                            \o WriteBool("useSubstitutes", TRUE) \o WriteUint64("overrides", 0)
    BY <1>1, <2>1, <2>3, Zenon DEF WriteOptions, When
  <2>6. Ends(WriteOptions(m))
    BY <1>2, <1>3, <1>4, <1>5, <1>7, <2>2, <2>4, <2>5, Zenon
  <2>7. QED
    BY <1>2, <1>3, <2>6, Zenon
<1>13. IsSeq(Chatter(h))
  <2>1. Hums(h, <<"client", {}>>, 0, Chatter(h), Nothing, Nothing)
    BY NothingKnown, ChatterRead
  <2>2. QED
    BY <2>1 DEF Hums
<1>14. Ends(LastMarker(h))
  BY <1>2, <1>3, <1>7, <1>13, Zenon DEF LastMarker
<1>15. Ends(StopWorkWithError(m))
  <2>1. PICK z : z = WriteString("errType") \o WriteUint64("errLevel", 0) \o WriteEmpty("errName")
                       \o WriteString("errMsg") \o WriteUint64("havePos", 0) \o WriteUint64("traces", 0)
    BY Zenon
  <2>2. StopWorkWithError(m) = WriteUint64("marker", StderrError) \o z
    BY <1>1, <2>1, Zenon DEF StopWorkWithError
  <2>3. Ends(z)
    BY <1>2, <1>3, <1>4, <1>6, <1>7, <2>1, Zenon
  <2>4. QED
    BY <1>2, <1>3, <2>2, <2>3, Zenon
<1>16. Ends(PeerError(h, m))
  <2>1. CASE ~(h.error = "positioned" /\ m >= 26)
    BY <1>15, <2>1 DEF PeerError
  <2>2. CASE h.error = "positioned" /\ m >= 26
    <3>1. PICK pos : pos = WriteString("file") \o WriteUint64("line", 3) \o WriteUint64("column", 4)
      BY Zenon
    <3>2. PICK z : z = WriteUint64("marker", StderrError) \o WriteString("errType")
            \o WriteUint64("errLevel", 0) \o WriteEmpty("errName")
            \o WriteString("errMsg") \o WriteUint64("havePos", 1)
      BY Zenon
    <3>3. PeerError(h, m) = z \o pos \o WriteUint64("traces", 2)
            \o WriteUint64("haveTracePos", 0) \o WriteString("hint")
            \o WriteUint64("haveTracePos", 1) \o pos \o WriteString("hint")
      BY <2>2, <3>1, <3>2, Zenon DEF PeerError
    <3>4. IsSeq(pos) /\ IsSeq(z)
      BY <1>2, <1>4, <1>6, <3>1, <3>2, Zenon
    <3>5. QED
      BY <1>2, <1>3, <1>4, <1>6, <3>3, <3>4, Zenon
  <2>3. QED
    BY <2>1, <2>2
<1>17. Ends(Chatter(h) \o PeerError(h, m))
  BY <1>3, <1>13, <1>16, Zenon
<1>18. QED
  BY <1>8, <1>9, <1>10, <1>11, <1>12, <1>13, <1>14, <1>15, <1>16, <1>17

-----------------------------------------------------------------------------
(* The conversations *)

\* A listener that hears two messages, of words that are sequences.
LEMMA HearsTwo ==
  ASSUME NEW e, NEW x, NEW s, NEW w, NEW t, NEW u, NEW g, NEW z, z = w \o u, IsSeq(w), IsSeq(u),
         Hears(e, x, s, w, t), Hears(e, x, t, u, g)
  PROVE  Hears(e, x, s, z, g)
BY HearsThen

\* A part of the program before, or after, what is heard.
LEMMA HearsEnters ==
  ASSUME NEW e, NEW x, NEW p, NEW a, NEW v, NEW q, Enters(e, x, p, a, v, q), IsSeq(p), p # <<>>
  PROVE  /\ \A w, t : IsSeq(w) /\ Hears(e, x, <<q, a, v>>, w, t) => Hears(e, x, <<p, a, v>>, w, t)
         /\ \A s, w : IsSeq(w) /\ Hears(e, x, s, w, <<p, a, v>>) => Hears(e, x, s, w, <<q, a, v>>)
<1>1. Hears(e, x, <<p, a, v>>, <<>>, <<q, a, v>>)
  BY EntersRun, Zenon
<1>2. \A w : IsSeq(w) => <<>> \o w = w /\ w \o <<>> = w
  BY Nil, Join
<1>3. QED
  BY <1>1, <1>2, Nil, HearsTwo, Zenon

\* What the client reads after it has asked for a build.
Expects(m) == ReadBuildResult(m) \o Do("got")

\* The programs of a build's client, part by part.
LEMMA ClientHelloParts ==
  ASSUME NEW e \in Environment, NEW m, m = MinorOf(Full), NEW w3, NEW w5, NEW w7, NEW w9,
         w3 = WriteUint64("version", Version(e.minor["client"])) \o WriteStrings("features", 0),
         w5 = AffinityWords(m, e.pinned), w7 = WriteUint64("op", OpSetOptions) \o WriteOptions(m),
         w9 = WriteBuildArgs(Outputs), IsSeq(ReadHandshakeInfo(m)), IsSeq(ReadBuildResult(m))
  PROVE  \E u1, u2, u3, u4, t1, t2 :
           /\ Starts(Send(w3), ClientHello(e, m), u1) /\ Starts(ReadStrings("features"), u1, u2)
           /\ Starts(Send(w5), u2, u3) /\ Starts(ReadHandshakeInfo(m), u3, u4)
           /\ Starts(Send(w7), u4, t1) /\ Starts(ReadMarker, t1, t2)
           /\ Starts(Send(w9), t2, ReadMarker \o Expects(m))
           /\ IsSeq(Expects(m)) /\ Starts(ReadBuildResult(m), Expects(m), Do("got"))
<1>1. m >= 38 /\ m >= 14
  BY FullVersion
<1>2. PICK p, rs, hi, rr, dg : /\ p = ClientHello(e, m) /\ rs = ReadStrings("features")
                               /\ hi = ReadHandshakeInfo(m) /\ rr = ReadBuildResult(m) /\ dg = Do("got")
  OBVIOUS
<1>3. p = Send(w3) \o rs \o Send(w5) \o hi \o Send(w7) \o ReadMarker \o Send(w9) \o ReadMarker \o rr \o dg
  <2>1. w5 = When(m >= 14, WriteBool("affinity", e.pinned)
                  \o When(e.pinned, WriteUint64("mask", 3)) \o WriteUint64("reserve", 0))
    BY DEF AffinityWords
  <2>2. QED
    BY <1>1, <1>2, <2>1, Zenon DEF ClientHello, When
<1>4. PICK X : X = Send(w3) \o rs \o Send(w5) \o hi \o Send(w7)
  BY Zenon
<1>5. /\ IsSeq(Send(w3)) /\ IsSeq(Send(w5)) /\ IsSeq(Send(w7)) /\ IsSeq(Send(w9))
      /\ IsSeq(rs) /\ IsSeq(hi) /\ IsSeq(rr) /\ IsSeq(dg) /\ IsSeq(ReadMarker)
  BY <1>2, Parts
<1>6. IsSeq(X)
  BY <1>4, <1>5, EndsRules, Zenon
<1>7. p = X \o ReadMarker \o Send(w9) \o ReadMarker \o rr \o dg
  BY <1>3, <1>4
<1>8. PICK t1, t2, t3, t4 : /\ Starts(X, p, t1) /\ Starts(ReadMarker, t1, t2) /\ Starts(Send(w9), t2, t3)
                            /\ Starts(ReadMarker, t3, t4) /\ Starts(rr, t4, dg)
  <2>1. Parts6(p, X, ReadMarker, Send(w9), ReadMarker, rr, dg)
    BY <1>5, <1>6, <1>7 DEF Parts6
  <2>2. PICK t1, t2, t3, t4 : Splits6(p, X, ReadMarker, Send(w9), ReadMarker, rr, dg, t1, t2, t3, t4)
    BY <2>1, Chain6, Zenon
  <2>3. QED
    BY <2>2, Zenon DEF Splits6
<1>9. p = Send(w3) \o rs \o Send(w5) \o hi \o Send(w7) \o t1 /\ IsSeq(t1)
  BY <1>4, <1>8 DEF Starts
<1>10. PICK u1, u2, u3, u4 : /\ Starts(Send(w3), p, u1) /\ Starts(rs, u1, u2) /\ Starts(Send(w5), u2, u3)
                             /\ Starts(hi, u3, u4) /\ Starts(Send(w7), u4, t1)
  <2>1. Parts6(p, Send(w3), rs, Send(w5), hi, Send(w7), t1)
    BY <1>5, <1>9 DEF Parts6
  <2>2. PICK u1, u2, u3, u4 : Splits6(p, Send(w3), rs, Send(w5), hi, Send(w7), t1, u1, u2, u3, u4)
    BY <2>1, Chain6, Zenon
  <2>3. QED
    BY <2>2, Zenon DEF Splits6
<1>11. t4 = Expects(m) /\ t3 = ReadMarker \o Expects(m) /\ IsSeq(t4)
  BY <1>2, <1>8 DEF Starts, Expects
<1>12. QED
  BY <1>2, <1>8, <1>10, <1>11, Zenon
\* The parties by their roles.
Role(r) == <<r, {}>>
Client == Role("client")
ToClient == Role("toClient")

\* What they may learn.
LEMMA Roles ==
  /\ \A r : Role(r)[1] = r
  /\ Client[1] = "client" /\ ToClient[1] = "toClient"
  /\ \A x : x[1] \in {"toClient", "toBuilder", "builder", "store"} => Learns(x) /\ x[1] # "reader"
BY DEF Role, Client, ToClient, Learns

\* The handshake of a client, its options and the derivation it has built: the
\* proxy knows the derivation, and the client waits for the result.
Asked == Set1(Nothing, "drv", Outputs)

\* The client and the proxy, from the handshake to the derivation: the
\* proxy knows it in the end, and the client waits for the result.
LEMMA Opening ==
  ASSUME NEW e \in Environment, e.minor["client"] >= 38, NEW G, NEW m, m = MinorOf(Full),
         <<ToClient, <<Do("GetBuilder"), Asked, Full>>,
           Client, <<ReadMarker \o Expects(m), Nothing, Full>>>> \in G
  PROVE  Opens(e, G, Client,
               <<Send(WriteUint64("clientMagic", ClientMagic))
                   \o Require("serverMagic", ServerMagic) \o ReadVersion \o Do("hello"), Nothing, 0>>,
               ToClient, <<Do("Handshake"), Nothing, 0>>)
<1> DEFINE N == Nothing
<1>1. /\ m \in Nat /\ m >= 14 /\ m >= 33 /\ m >= 37
  BY FullVersion
<1>2. IsMem(N) /\ N.fields = <<>> /\ N.drv = {} /\ N.cpu \in BOOLEAN /\ IsFiniteSet(N.outs)
  <2>1. N.outs = {} /\ N.cpu = FALSE /\ IsFiniteSet({})
    BY NothingKnown, FS_EmptySet
  <2>2. QED
    BY <2>1, NothingKnown, Zenon
<1> HIDE DEF N
<1>3. e.minor["client"] \in 0..255 /\ e.pinned \in BOOLEAN
  BY DEF Environment, Conn
<1>4. PICK w1, w2a, w2b, w2, w3a, wf, w3 :
        /\ w1 = WriteUint64("clientMagic", ClientMagic)
        /\ w2a = WriteUint64("serverMagic", ServerMagic)
        /\ w2b = WriteUint64("version", Version(ProtocolVersionMinor)) /\ w2 = w2a \o w2b
        /\ w3a = WriteUint64("version", Version(e.minor["client"]))
        /\ wf = WriteStrings("features", 0) /\ w3 = w3a \o wf
  BY Zenon
<1>5. PICK w5, w6, w7, w8, w9 :
        /\ w5 = AffinityWords(m, e.pinned) /\ w6 = HandshakeInfo(m)
        /\ w7 = WriteUint64("op", OpSetOptions) \o WriteOptions(m)
        /\ w8 = WriteUint64("marker", StderrLast)
        /\ w9 = WriteBuildArgs(Outputs)
  BY Zenon
<1>6. PICK hi, rr, rs, ra, so : /\ hi = ReadHandshakeInfo(m) /\ rr = ReadBuildResult(m)
        /\ rs = ReadStrings("features") /\ ra = ReadAffinity(m) /\ so = handleSetOptions(m)
  OBVIOUS
<1>7. /\ \A x, a : Parses(e, x, Full, hi, w6, a, a) /\ Parses(e, x, Full, ra, w5, a, a)
      /\ \A x, a, v : Parses(e, x, v, rs, wf, a, a)
      /\ \A x, a : Parses(e, x, Full, so, WriteOptions(m), a, a)
      /\ \A x, a : Parses(e, x, Full, ReadMarker, w8, a, a)
  <2>1. \A x, a : Parses(e, x, Full, hi, w6, a, a) /\ Parses(e, x, Full, ra, w5, a, a)
    BY <1>3, <1>5, <1>6, HandshakeInfoRead, AffinityRead, Zenon DEF Skims
  <2>2. \A x, a, v : Parses(e, x, v, rs, wf, a, a)
    <3>1. "features" \notin Kept /\ 0 \in Nat /\ 0 <= maxReadStringsCount
      BY SMT DEF Kept, maxReadStringsCount
    <3>2. QED
      BY <1>4, <1>6, <3>1, ParsesStrings
  <2>3. \A x, a : Parses(e, x, Full, so, WriteOptions(m), a, a)
    BY <1>6, OptionsRead DEF Skims
  <2>4. \A x, a : Parses(e, x, Full, ReadMarker, w8, a, a)
    BY <1>5, LastRead
  <2>5. QED
    BY <2>1, <2>2, <2>3, <2>4
<1>8. /\ \A x, a, v : Parses(e, x, v, Require("clientMagic", ClientMagic), w1, a, a)
      /\ \A x, a, v : Parses(e, x, v, Require("serverMagic", ServerMagic), w2a, a, a)
  BY <1>4, ParsesRequire, Zenon DEF Kept
<1>9. /\ IsSeq(w1) /\ IsSeq(w2a) /\ IsSeq(w2b) /\ IsSeq(w3a) /\ IsSeq(wf) /\ IsSeq(w5) /\ IsSeq(w6)
      /\ IsSeq(w8) /\ IsSeq(hi) /\ IsSeq(rs) /\ IsSeq(ra) /\ IsSeq(so) /\ IsSeq(WriteOptions(m))
  BY <1>4, <1>7, <1>8, EndsRules, Zenon DEF Parses
<1>10. /\ Ends(w1) /\ Ends(w2) /\ Ends(wf) /\ Ends(w3) /\ Ends(w5) /\ Ends(w6) /\ Ends(w7)
       /\ Ends(w8)
  <2>1. /\ ClientMagic # 8 /\ ServerMagic # 8 /\ StderrLast # 8 /\ Version(ProtocolVersionMinor) # 8
    BY SMT DEF ClientMagic, ServerMagic, StderrLast, Version, ProtocolVersionMinor
  <2>2. \A w, u : IsSeq(w) /\ Ends(u) => Ends(w \o u)
    BY EndsRules, Zenon
  <2>3. Ends(w1) /\ Ends(w2b) /\ Ends(w8)
    BY <1>4, <1>5, <2>1, EndsRules
  <2>4. Ends(wf) /\ Ends(w5) /\ Ends(w6) /\ Ends(w7)
    BY <1>3, <1>4, <1>5, EndsMessages
  <2>5. QED
    BY <1>4, <1>9, <2>2, <2>3, <2>4
<1>11. /\ Parses(e, ToClient, Full, ReadBuildArgs, BuildWords(Outputs), N, Asked)
       /\ w9 = WriteUint64("op", OpBuildDerivation) \o BuildWords(Outputs) /\ Ends(w9)
  <2>1. IsFiniteSet(Outputs) /\ N.drv \union Outputs = Outputs
    BY <1>2, WireAssumption
  <2>2. QED
    <3>1. Learns(ToClient)
      BY Roles
    <3>2. QED
      BY <1>2, <1>5, <2>1, <3>1, BuildArgsRead, Zenon DEF Asked, N
<1>12. PICK gx : gx = ReadMarker \o Expects(m)
  OBVIOUS
<1>13. IsSeq(rr)
  <2>1. Parses(e, ToClient, Full, ReadBuildResult(m), WriteBuildResult(m, N), N, Told(N, N))
    BY <1>1, <1>2, BuildResultRead, Roles
  <2>2. QED
    BY <1>6, <2>1 DEF Parses
<1>14. PICK u1, u2, u3, u4, t1, t2 :
         /\ Starts(Send(w3), ClientHello(e, m), u1) /\ Starts(rs, u1, u2)
         /\ Starts(Send(w5), u2, u3) /\ Starts(hi, u3, u4)
         /\ Starts(Send(w7), u4, t1) /\ Starts(ReadMarker, t1, t2)
         /\ Starts(Send(w9), t2, gx) /\ IsSeq(Expects(m))
  <2>1. w3 = WriteUint64("version", Version(e.minor["client"])) \o WriteStrings("features", 0)
    BY <1>4
  <2>2. IsSeq(ReadHandshakeInfo(m)) /\ IsSeq(ReadBuildResult(m))
    BY <1>6, <1>9, <1>13
  <2>3. QED
    BY <1>5, <1>6, <1>12, <2>1, <2>2, ClientHelloParts, ZenonT(60)
<1>15. /\ ClientHello(e, m) = Send(w3) \o u1 /\ u1 = rs \o u2 /\ u2 = Send(w5) \o u3 /\ u3 = hi \o u4
       /\ u4 = Send(w7) \o t1 /\ t1 = ReadMarker \o t2 /\ t2 = Send(w9) \o gx
       /\ IsSeq(u1) /\ IsSeq(u2) /\ IsSeq(u3) /\ IsSeq(u4) /\ IsSeq(t1) /\ IsSeq(t2) /\ IsSeq(gx)
  BY <1>14 DEF Starts
\* The proxy.
<1>16. PICK h1, h2, h3, h4 :
         /\ ServeHandshake = Require("clientMagic", ClientMagic) \o h1 /\ h1 = Send(w2) \o h2
         /\ h2 = ReadVersion \o h3 /\ h3 = rs \o h4 /\ h4 = Send(wf) \o Do("PostHandshake")
         /\ IsSeq(h1) /\ IsSeq(h2) /\ IsSeq(h3) /\ IsSeq(h4)
  <2>1. Parts6(ServeHandshake, Require("clientMagic", ClientMagic), Send(w2), ReadVersion, rs, Send(wf),
               Do("PostHandshake"))
    BY <1>4, <1>6, <1>9, Parts DEF Parts6, ServeHandshake
  <2>2. PICK h1, h2, h3, h4 : Splits6(ServeHandshake, Require("clientMagic", ClientMagic), Send(w2), ReadVersion, rs, Send(wf),
               Do("PostHandshake"), h1, h2, h3, h4)
    BY <2>1, Chain6, Zenon
  <2>3. QED
    BY <2>2, ZenonT(60) DEF Splits6, Starts
<1>17. PICK k1, k2 : /\ ServePostHandshake(m) = ra \o k1 /\ k1 = Flush \o k2 /\ k2 = Send(w6) \o Do("ReadOp")
                     /\ IsSeq(k1) /\ IsSeq(k2)
  <2>1. IsSeq(ra) /\ IsSeq(Flush) /\ IsSeq(Send(w6)) /\ IsSeq(Do("ReadOp"))
    BY <1>9, Parts
  <2>2. ServePostHandshake(m) = ra \o Flush \o Send(w6) \o Do("ReadOp")
    BY <1>5, <1>6 DEF ServePostHandshake
  <2>3. PICK k1, k2 : Starts(ra, ServePostHandshake(m), k1) /\ Starts(Flush, k1, k2) /\ Starts(Send(w6), k2, Do("ReadOp"))
    BY <2>1, <2>2, Chain4, Zenon
  <2>4. QED
    BY <2>3, Zenon DEF Starts
<1>18. PICK goOn, o1 : /\ goOn = Flush \o Do("ReadOp") /\ IsSeq(goOn) /\ goOn # <<>>
                       /\ ServeOp("handleSetOptions", m) = so \o o1 /\ o1 = Send(w8) \o goOn /\ IsSeq(o1)
  <2>1. PICK goOn : goOn = Flush \o Do("ReadOp")
    BY Zenon
  <2>2. IsSeq(goOn) /\ goOn # <<>> /\ IsSeq(Send(w8))
    BY <2>1, FirstThen, Parts, Zenon DEF Flush
  <2>3. ServeOp("handleSetOptions", m) = so \o Send(w8) \o goOn
    BY <1>5, <1>6, <2>1, Zenon DEF ServeOp
  <2>4. PICK o1 : Starts(so, ServeOp("handleSetOptions", m), o1) /\ Starts(Send(w8), o1, goOn)
    BY <1>9, <2>2, <2>3, Chain3, Zenon
  <2>5. QED
    BY <2>1, <2>2, <2>4, Zenon DEF Starts
<1>19. ServeOp("handleBuildDerivation", m) = ReadBuildArgs \o Do("GetBuilder")
  BY DEF ServeOp
<1>20. /\ handleOperation(OpSetOptions) = Do("handleSetOptions")
       /\ handleOperation(OpBuildDerivation) = Do("handleBuildDerivation")
  BY SMT DEF handleOperation, OpSetOptions, OpBuildDerivation, OpQueryPathInfo, OpAddSignatures
<1>21. /\ \A a, v : Enters(e, ToClient, Do("Handshake"), a, v, ServeHandshake)
       /\ \A a : Enters(e, ToClient, Do("PostHandshake"), a, Full, ServePostHandshake(m))
       /\ \A a, v : Enters(e, ToClient, Do("ReadOp"), a, v, ReadOp)
       /\ \A a, v : Enters(e, ToClient, goOn, a, v, Do("ReadOp"))
       /\ \A a : Enters(e, ToClient, Do("handleSetOptions"), a, Full, ServeOp("handleSetOptions", m))
       /\ \A a : Enters(e, ToClient, Do("handleBuildDerivation"), a, Full, ServeOp("handleBuildDerivation", m))
       /\ \A a : Enters(e, Client, Do("hello"), a, Full, ClientHello(e, m))
  BY <1>18, Roles DEF Enters
<1>22. \A l : IsSeq(Do(l)) /\ Do(l) # <<>>
  BY Parts
\* The derivation.
<1>23. Dialog(e, G, Client, <<t2, N, Full>>, ToClient, <<ReadOp, N, Full>>)
  <2>1. Tells(e, Client, <<t2, N, Full>>, w9, FALSE, <<gx, N, Full>>)
    BY <1>11, <1>15, TellsLast, Zenon
  <2>2. Hears(e, ToClient, <<ReadOp, N, Full>>, w9, <<Do("GetBuilder"), Asked, Full>>)
    <3>1. Hears(e, ToClient, <<ReadOp, N, Full>>, WriteUint64("op", OpBuildDerivation),
                <<Do("handleBuildDerivation"), N, Full>>)
      BY <1>20, HearsOp
    <3>2. Hears(e, ToClient, <<ReadBuildArgs \o Do("GetBuilder"), N, Full>>, BuildWords(Outputs),
                <<Do("GetBuilder"), Asked, Full>>)
      BY <1>11, <1>22, HearsMessage, Zenon
    <3>3. Hears(e, ToClient, <<Do("handleBuildDerivation"), N, Full>>, BuildWords(Outputs),
                <<Do("GetBuilder"), Asked, Full>>)
      BY <1>11, <1>19, <1>21, <1>22, <3>2, HearsEnters, Zenon DEF Parses
    <3>4. IsSeq(WriteUint64("op", OpBuildDerivation)) /\ IsSeq(BuildWords(Outputs))
      BY <1>11, EndsRules DEF Parses
    <3>5. Hears(e, ToClient, <<ReadOp, N, Full>>, WriteUint64("op", OpBuildDerivation) \o BuildWords(Outputs),
                <<Do("GetBuilder"), Asked, Full>>)
      BY <3>1, <3>3, <3>4, HearsThen
    <3>6. QED
      BY <1>11, <3>5
  <2>3. Waits(<<gx, N, Full>>) /\ Waits(<<ReadOp, N, Full>>)
    BY <1>12, <1>14, WaitsRules, Zenon
  <2>4. Dialog(e, G, ToClient, <<Do("GetBuilder"), Asked, Full>>, Client, <<gx, N, Full>>)
    BY <1>12, <2>3, DialogGoal, Zenon DEF N
  <2>5. Opens(e, G, Client, <<t2, N, Full>>, ToClient, <<ReadOp, N, Full>>)
    BY <1>11, <2>1, <2>2, <2>4, Zenon DEF Opens, Ends
  <2>6. QED
    BY <2>3, <2>5, DialogStep
\* The answer to the options.
<1>24. Dialog(e, G, ToClient, <<o1, N, Full>>, Client, <<t1, N, Full>>)
  <2>1. Tells(e, ToClient, <<o1, N, Full>>, w8, FALSE, <<ReadOp, N, Full>>)
    <3>1. Tells(e, ToClient, <<Do("ReadOp"), N, Full>>, <<>>, FALSE, <<ReadOp, N, Full>>)
      BY <1>21, <1>22, Nil, TellsNow, EntersRun, Zenon
    <3>2. Tells(e, ToClient, <<goOn, N, Full>>, <<>>, FALSE, <<ReadOp, N, Full>>)
      BY <1>18, <1>21, <3>1, Nil, EntersRun, Zenon
    <3>3. Tells(e, ToClient, <<Send(w8) \o goOn, N, Full>>, w8 \o <<>>, FALSE, <<ReadOp, N, Full>>)
      BY <1>10, <1>18, <3>2, Nil, TellsSend, Zenon
    <3>4. w8 \o <<>> = w8
      BY <1>9, Nil, Join
    <3>5. QED
      BY <1>18, <3>3, <3>4, Zenon
  <2>2. Hears(e, Client, <<t1, N, Full>>, w8, <<t2, N, Full>>)
    BY <1>7, <1>15, HearsMessage, Zenon
  <2>3. Waits(<<t1, N, Full>>)
    BY <1>15, WaitsRules, Zenon
  <2>4. Opens(e, G, ToClient, <<o1, N, Full>>, Client, <<t1, N, Full>>)
    BY <1>9, <1>23, <2>1, <2>2, Zenon DEF Opens
  <2>5. QED
    BY <2>3, <2>4, DialogStep
\* The options.
<1>25. Dialog(e, G, Client, <<u4, N, Full>>, ToClient, <<ReadOp, N, Full>>)
  <2>1. Tells(e, Client, <<u4, N, Full>>, w7, FALSE, <<t1, N, Full>>)
    BY <1>10, <1>15, TellsLast, Zenon
  <2>2. Hears(e, ToClient, <<ReadOp, N, Full>>, w7, <<o1, N, Full>>)
    <3>1. Hears(e, ToClient, <<ReadOp, N, Full>>, WriteUint64("op", OpSetOptions),
                <<Do("handleSetOptions"), N, Full>>)
      BY <1>20, HearsOp
    <3>2. Hears(e, ToClient, <<so \o o1, N, Full>>, WriteOptions(m), <<o1, N, Full>>)
      BY <1>7, <1>18, HearsMessage, Zenon
    <3>3. Hears(e, ToClient, <<Do("handleSetOptions"), N, Full>>, WriteOptions(m), <<o1, N, Full>>)
      BY <1>9, <1>18, <1>21, <1>22, <3>2, HearsEnters, Zenon
    <3>4. IsSeq(WriteUint64("op", OpSetOptions))
      BY EndsRules
    <3>5. IsSeq(WriteOptions(m))
      BY <1>9
    <3>6. Hears(e, ToClient, <<ReadOp, N, Full>>, WriteUint64("op", OpSetOptions) \o WriteOptions(m),
                <<o1, N, Full>>)
      BY <3>1, <3>3, <3>4, <3>5, HearsThen
    <3>7. QED
      BY <1>5, <3>6
  <2>3. Waits(<<ReadOp, N, Full>>)
    BY WaitsRules, Zenon
  <2>4. Opens(e, G, Client, <<u4, N, Full>>, ToClient, <<ReadOp, N, Full>>)
    BY <1>10, <1>24, <2>1, <2>2, Zenon DEF Opens, Ends
  <2>5. QED
    BY <2>3, <2>4, DialogStep
\* The end of the handshake.
<1>26. Dialog(e, G, ToClient, <<k1, N, Full>>, Client, <<u3, N, Full>>)
  <2>1. Tells(e, ToClient, <<k1, N, Full>>, w6, FALSE, <<ReadOp, N, Full>>)
    <3>1. Tells(e, ToClient, <<Do("ReadOp"), N, Full>>, <<>>, FALSE, <<ReadOp, N, Full>>)
      BY <1>21, <1>22, Nil, TellsNow, EntersRun, Zenon
    <3>2. Tells(e, ToClient, <<k2, N, Full>>, w6 \o <<>>, FALSE, <<ReadOp, N, Full>>)
      BY <1>10, <1>17, <1>22, <3>1, Nil, TellsSend, Zenon
    <3>3. w6 \o <<>> = w6
      BY <1>9, Nil, Join
    <3>4. QED
      BY <1>10, <1>17, <3>2, <3>3, TellsFlush, Zenon
  <2>2. Hears(e, Client, <<u3, N, Full>>, w6, <<u4, N, Full>>)
    BY <1>7, <1>15, HearsMessage, Zenon
  <2>3. Waits(<<u3, N, Full>>)
    <3>1. hi = ReadString("daemonVersion") \o When(m >= 35, ReadUint64("trust")) \o Require("marker", StderrLast)
      BY <1>1, <1>6, Zenon DEF ReadHandshakeInfo, When
    <3>2. IsSeq(When(m >= 35, ReadUint64("trust"))) /\ IsSeq(Require("marker", StderrLast))
      BY Nil, Parts DEF When
    <3>3. Waits(<<hi, N, Full>>)
      BY <3>1, <3>2, WaitsRules, Zenon
    <3>4. QED
      BY <1>15, <3>3, WaitsRules, Zenon
  <2>4. Opens(e, G, ToClient, <<k1, N, Full>>, Client, <<u3, N, Full>>)
    BY <1>9, <1>25, <2>1, <2>2, Zenon DEF Opens
  <2>5. QED
    BY <2>3, <2>4, DialogStep
\* The CPU affinity.
<1>27. Dialog(e, G, Client, <<u2, N, Full>>, ToClient, <<ServePostHandshake(m), N, Full>>)
  <2>1. Tells(e, Client, <<u2, N, Full>>, w5, FALSE, <<u3, N, Full>>)
    BY <1>10, <1>15, TellsLast, Zenon
  <2>2. Hears(e, ToClient, <<ServePostHandshake(m), N, Full>>, w5, <<k1, N, Full>>)
    BY <1>7, <1>17, HearsMessage, Zenon
  <2>3. Waits(<<ServePostHandshake(m), N, Full>>)
    <3>1. ra = Optional("affinity", ReadUint64("mask")) \o ReadUint64("reserve")
      BY <1>1, <1>6, Zenon DEF ReadAffinity, When
    <3>2. Waits(<<ra, N, Full>>)
      BY <3>1, Parts, WaitsRules, Zenon
    <3>3. QED
      BY <1>17, <3>2, WaitsRules, Zenon
  <2>4. Opens(e, G, Client, <<u2, N, Full>>, ToClient, <<ServePostHandshake(m), N, Full>>)
    BY <1>9, <1>26, <2>1, <2>2, Zenon DEF Opens
  <2>5. QED
    BY <2>3, <2>4, DialogStep
\* The features.
<1>28. Dialog(e, G, ToClient, <<h4, N, Full>>, Client, <<u1, N, Full>>)
  <2>1. Tells(e, ToClient, <<h4, N, Full>>, wf, FALSE, <<ServePostHandshake(m), N, Full>>)
    <3>1. Tells(e, ToClient, <<Do("PostHandshake"), N, Full>>, <<>>, FALSE, <<ServePostHandshake(m), N, Full>>)
      BY <1>21, <1>22, Nil, TellsNow, EntersRun, Zenon
    <3>2. Tells(e, ToClient, <<h4, N, Full>>, wf \o <<>>, FALSE, <<ServePostHandshake(m), N, Full>>)
      BY <1>10, <1>16, <1>22, <3>1, Nil, TellsSend, Zenon
    <3>3. wf \o <<>> = wf
      BY <1>9, Nil, Join
    <3>4. QED
      BY <3>2, <3>3, Zenon
  <2>2. Hears(e, Client, <<u1, N, Full>>, wf, <<u2, N, Full>>)
    BY <1>7, <1>15, HearsMessage, Zenon
  <2>3. Waits(<<u1, N, Full>>)
    BY <1>6, <1>15, WaitsRules, Zenon
  <2>4. Opens(e, G, ToClient, <<h4, N, Full>>, Client, <<u1, N, Full>>)
    BY <1>9, <1>27, <2>1, <2>2, Zenon DEF Opens
  <2>5. QED
    BY <2>3, <2>4, DialogStep
\* The version and the features of the client.
<1>29. Dialog(e, G, Client, <<Do("hello"), N, Full>>, ToClient, <<h2, N, 0>>)
  <2>1. Tells(e, Client, <<Do("hello"), N, Full>>, w3, FALSE, <<u1, N, Full>>)
    <3>1. Tells(e, Client, <<ClientHello(e, m), N, Full>>, w3, FALSE, <<u1, N, Full>>)
      BY <1>10, <1>15, TellsLast, Zenon
    <3>2. QED
      BY <1>10, <1>21, <1>22, <3>1, EntersRun, Zenon DEF Ends
  <2>2. Hears(e, ToClient, <<h2, N, 0>>, w3, <<h4, N, Full>>)
    <3>1. ToClient[1] \notin Conn \union {"reader", "done"}
      BY Roles DEF Conn
    <3>2. Negotiated(Own(e, ToClient), Version(e.minor["client"])) = Full
      BY <1>3, <3>1, FullVersion, ZenonT(60)
    <3>3. Hears(e, ToClient, <<h2, N, 0>>, w3a, <<h3, N, Full>>)
      BY <1>4, <1>16, <3>2, HearsVersion, Zenon
    <3>4. Hears(e, ToClient, <<h3, N, Full>>, wf, <<h4, N, Full>>)
      BY <1>7, <1>16, HearsMessage, Zenon
    <3>5. QED
      BY <1>4, <1>9, <3>3, <3>4, HearsTwo, ZenonT(60)
  <2>3. Waits(<<h2, N, 0>>)
    BY <1>16, WaitsRules, Zenon
  <2>4. Opens(e, G, Client, <<Do("hello"), N, Full>>, ToClient, <<h2, N, 0>>)
    BY <1>10, <1>28, <2>1, <2>2, Zenon DEF Opens, Ends
  <2>5. QED
    BY <2>3, <2>4, DialogStep
\* The magic numbers, and the version of the proxy.
<1>30. PICK c0, c1, c2 :
         /\ c0 = Send(w1) \o Require("serverMagic", ServerMagic) \o ReadVersion \o Do("hello")
         /\ c0 = Send(w1) \o c1 /\ c1 = Require("serverMagic", ServerMagic) \o c2
         /\ c2 = ReadVersion \o Do("hello") /\ IsSeq(c1) /\ IsSeq(c2)
  <2>1. PICK c0, rq : /\ rq = Require("serverMagic", ServerMagic)
                      /\ c0 = Send(w1) \o rq \o ReadVersion \o Do("hello")
    BY Zenon
  <2>2. IsSeq(Send(w1)) /\ IsSeq(rq) /\ IsSeq(ReadVersion) /\ IsSeq(Do("hello"))
    BY <2>1, Parts
  <2>3. PICK c1, c2 : Starts(Send(w1), c0, c1) /\ Starts(rq, c1, c2) /\ Starts(ReadVersion, c2, Do("hello"))
    BY <2>1, <2>2, Chain4, Zenon
  <2>4. QED
    BY <2>1, <2>3, Zenon DEF Starts
<1>31. Dialog(e, G, ToClient, <<h1, N, 0>>, Client, <<c1, N, 0>>)
  <2>1. Tells(e, ToClient, <<h1, N, 0>>, w2, FALSE, <<h2, N, 0>>)
    BY <1>10, <1>16, TellsLast, Zenon
  <2>2. Hears(e, Client, <<c1, N, 0>>, w2, <<Do("hello"), N, Full>>)
    <3>1. Negotiated(Own(e, Client), Version(ProtocolVersionMinor)) = Full
      <4>1. Client[1] \in Conn /\ Client[1] = "client"
        BY Roles DEF Conn
      <4>2. QED
        BY <1>3, <4>1, FullVersion, ZenonT(60) DEF Full
    <3>2. Hears(e, Client, <<c2, N, 0>>, w2b, <<Do("hello"), N, Full>>)
      BY <1>4, <1>22, <1>30, <3>1, HearsVersion, Zenon
    <3>3. Hears(e, Client, <<c1, N, 0>>, w2a, <<c2, N, 0>>)
      BY <1>8, <1>30, HearsMessage, Zenon
    <3>4. IsSeq(w2a) /\ IsSeq(w2b)
      BY <1>9
    <3>5. Hears(e, Client, <<c1, N, 0>>, w2a \o w2b, <<Do("hello"), N, Full>>)
      BY <3>2, <3>3, <3>4, HearsThen
    <3>6. QED
      BY <1>4, <3>5
  <2>3. Waits(<<c1, N, 0>>)
    BY <1>30, WaitsRules, Zenon
  <2>4. Opens(e, G, ToClient, <<h1, N, 0>>, Client, <<c1, N, 0>>)
    BY <1>10, <1>29, <2>1, <2>2, Zenon DEF Opens, Ends
  <2>5. QED
    BY <2>3, <2>4, DialogStep
<1>32. Tells(e, Client, <<c0, N, 0>>, w1, FALSE, <<c1, N, 0>>)
  BY <1>10, <1>30, TellsLast, Zenon
<1>33. Hears(e, ToClient, <<Do("Handshake"), N, 0>>, w1, <<h1, N, 0>>)
  <2>1. Hears(e, ToClient, <<ServeHandshake, N, 0>>, w1, <<h1, N, 0>>)
    BY <1>8, <1>16, HearsMessage, Zenon
  <2>2. QED
    BY <1>9, <1>21, <1>22, <2>1, HearsEnters, Zenon
<1>34. Opens(e, G, Client, <<c0, N, 0>>, ToClient, <<Do("Handshake"), N, 0>>)
  BY <1>9, <1>31, <1>32, <1>33, Zenon DEF Opens
<1>35. QED
  BY <1>4, <1>30, <1>34 DEF N

\* The first program of a daemon.
DaemonStart(e, c) ==
  Require("clientMagic", ClientMagic) \o ReadVersion
    \o Send(WriteUint64("serverMagic", ServerMagic) \o WriteUint64("version", Version(e.minor[c])))
    \o Do("hello")

\* The handshake of the proxy with a daemon, and the options it sends.
LEMMA DaemonHandshake ==
  ASSUME NEW e \in Environment, NEW c \in {"builder", "store"}, e.minor[c] >= 38, NEW G,
         NEW m, m = MinorOf(Full), NEW dm, dm[1] = c, NEW x, NEW next,
         \/ x[1] = "toBuilder" /\ next = "ExecuteBuild"
         \/ x[1] = "toSigning" /\ next = "NextOutput",
         NEW a, IsMem(a), a.fields = <<>>,
         Dialog(e, G, x, <<Do(next), a, Full>>, dm, <<ReadOp, Nothing, Full>>)
  PROVE  Opens(e, G, x, <<handshakeWithBuilder, a, 0>>, dm, <<DaemonStart(e, c), Nothing, 0>>)
<1> DEFINE N == Nothing
<1>1. /\ m \in Nat /\ m >= 14 /\ m >= 33 /\ m >= 37 /\ m >= 38
  BY FullVersion
<1> HIDE DEF N
<1>3. e.minor[c] \in 0..255 /\ c \in Conn /\ x[1] \notin Conn \union {"reader", "done"}
  BY ZenonT(60) DEF Environment, Conn
<1>4. PICK w1a, w1b, w1, w2a, w2b, w2, wf :
        /\ w1a = WriteUint64("clientMagic", ClientMagic)
        /\ w1b = WriteUint64("version", Version(ProtocolVersionMinor)) /\ w1 = w1a \o w1b
        /\ w2a = WriteUint64("serverMagic", ServerMagic)
        /\ w2b = WriteUint64("version", Version(e.minor[c])) /\ w2 = w2a \o w2b
        /\ wf = WriteStrings("features", 0)
  BY Zenon
<1>5. PICK w5, w6, w7, w8 :
        /\ w5 = WriteUint64("affinity", 0) \o WriteUint64("reserve", 0) /\ w6 = HandshakeInfo(m)
        /\ w7 = WriteUint64("op", OpSetOptions) \o WriteOptions(m)
        /\ w8 = LastMarker(e)
  BY Zenon
<1>6. PICK hi, rs, ra, so : /\ hi = ReadHandshakeInfo(m) /\ rs = ReadStrings("features")
                            /\ ra = ReadAffinity(m) /\ so = handleSetOptions(m)
  OBVIOUS
<1>7. /\ \A y, b : Parses(e, y, Full, hi, w6, b, b) /\ Parses(e, y, Full, ra, w5, b, b)
      /\ \A y, b, v : Parses(e, y, v, rs, wf, b, b)
      /\ \A y, b : Parses(e, y, Full, so, WriteOptions(m), b, b)
      /\ Parses(e, x, Full, ReadMarker, w8, a, a)
  <2>1. When(m >= 14, w5) = w5
    BY <1>1 DEF When
  <2>2. \A y, b : Parses(e, y, Full, hi, w6, b, b) /\ Parses(e, y, Full, ra, w5, b, b)
    BY <1>5, <1>6, <2>1, HandshakeInfoRead, AffinityRead, Zenon DEF Skims
  <2>3. \A y, b, v : Parses(e, y, v, rs, wf, b, b)
    <3>1. "features" \notin Kept /\ 0 \in Nat /\ 0 <= maxReadStringsCount
      BY SMT DEF Kept, maxReadStringsCount
    <3>2. QED
      BY <1>4, <1>6, <3>1, ParsesStrings
  <2>4. \A y, b : Parses(e, y, Full, so, WriteOptions(m), b, b)
    BY <1>6, OptionsRead DEF Skims
  <2>5. Parses(e, x, Full, ReadMarker, w8, a, a)
    BY <1>5, StreamRead
  <2>6. QED
    BY <2>2, <2>3, <2>4, <2>5
<1>8. /\ \A y, b, v : Parses(e, y, v, Require("clientMagic", ClientMagic), w1a, b, b)
      /\ \A y, b, v : Parses(e, y, v, Require("serverMagic", ServerMagic), w2a, b, b)
  BY <1>4, ParsesRequire, Zenon DEF Kept
<1>9. /\ IsSeq(w1a) /\ IsSeq(w1b) /\ IsSeq(w2a) /\ IsSeq(w2b) /\ IsSeq(wf) /\ IsSeq(w5) /\ IsSeq(w6)
      /\ IsSeq(w8) /\ IsSeq(hi) /\ IsSeq(rs) /\ IsSeq(ra) /\ IsSeq(so) /\ IsSeq(WriteOptions(m))
  BY <1>4, <1>7, <1>8, EndsRules, Zenon DEF Parses
<1>10. /\ Ends(w1) /\ Ends(w2) /\ Ends(wf) /\ Ends(w5) /\ Ends(w6) /\ Ends(w7) /\ Ends(w8)
  <2>1. /\ Version(ProtocolVersionMinor) # 8 /\ Version(e.minor[c]) # 8
    <3>1. PICK n \in 0..255 : n = e.minor[c]
      BY <1>3, Zenon
    <3>2. Version(n) # 8 /\ Version(ProtocolVersionMinor) # 8
      BY SMT DEF Version, ProtocolVersionMinor
    <3>3. QED
      BY <3>1, <3>2
  <2>2. \A w, u : IsSeq(w) /\ Ends(u) => Ends(w \o u)
    BY EndsRules, Zenon
  <2>3. Ends(w1b) /\ Ends(w2b)
    BY <1>4, <2>1, EndsRules
  <2>4. Ends(wf) /\ Ends(w5) /\ Ends(w6) /\ Ends(w7) /\ Ends(w8)
    BY <1>4, <1>5, EndsMessages
  <2>5. QED
    BY <1>4, <1>9, <2>2, <2>3, <2>4
<1>11. \A l : IsSeq(Do(l)) /\ Do(l) # <<>>
  BY Parts
\* The proxy.
<1>12. PICK h1, h2, h3, h4 :
         /\ handshakeWithBuilder = Send(w1) \o h1 /\ h1 = Require("serverMagic", ServerMagic) \o h2
         /\ h2 = ReadVersion \o h3 /\ h3 = Send(wf) \o h4 /\ h4 = rs \o Do("HandshakeInfo")
         /\ IsSeq(h1) /\ IsSeq(h2) /\ IsSeq(h3) /\ IsSeq(h4)
  <2>1. Parts6(handshakeWithBuilder, Send(w1), Require("serverMagic", ServerMagic), ReadVersion, Send(wf), rs,
               Do("HandshakeInfo"))
    BY <1>4, <1>6, <1>9, Parts DEF Parts6, handshakeWithBuilder
  <2>2. PICK h1, h2, h3, h4 : Splits6(handshakeWithBuilder, Send(w1), Require("serverMagic", ServerMagic),
               ReadVersion, Send(wf), rs, Do("HandshakeInfo"), h1, h2, h3, h4)
    BY <2>1, Chain6, Zenon
  <2>3. QED
    BY <2>2, Zenon DEF Splits6, Starts
<1>13. PICK q1, q2, q3 :
         /\ AskOptions(m, next) = Send(w5) \o q1 /\ q1 = hi \o q2 /\ q2 = Send(w7) \o q3
         /\ q3 = ReadMarker \o Do(next) /\ IsSeq(q1) /\ IsSeq(q2) /\ IsSeq(q3)
  <2> PICK z, dn, sa, sb, rm : /\ z = AskOptions(m, next) /\ dn = Do(next) /\ sa = Send(w5) /\ sb = Send(w7)
                               /\ rm = ReadMarker
    OBVIOUS
  <2>1. IsSeq(sa) /\ IsSeq(hi) /\ IsSeq(sb) /\ IsSeq(rm) /\ IsSeq(dn)
    BY <1>9, Parts
  <2>2. z = sa \o hi \o sb \o rm \o dn
    BY <1>1, <1>5, <1>6, Zenon DEF AskOptions, When
  <2>3. PICK q1, q2, q3 : /\ Starts(sa, z, q1) /\ Starts(hi, q1, q2)
                          /\ Starts(sb, q2, q3) /\ Starts(rm, q3, dn)
    BY <2>1, <2>2, Chain5, Zenon
  <2>4. QED
    BY <2>3, Zenon DEF Starts
\* The daemon.
<1>14. PICK d1, d2 : /\ DaemonStart(e, c) = Require("clientMagic", ClientMagic) \o d1
                     /\ d1 = ReadVersion \o d2 /\ d2 = Send(w2) \o Do("hello") /\ IsSeq(d1) /\ IsSeq(d2)
  <2>1. PICK rq : rq = Require("clientMagic", ClientMagic)
    OBVIOUS
  <2>2. IsSeq(Send(w2)) /\ IsSeq(rq) /\ IsSeq(ReadVersion) /\ IsSeq(Do("hello"))
    BY <2>1, Parts
  <2>3. DaemonStart(e, c) = rq \o ReadVersion \o Send(w2) \o Do("hello")
    BY <1>4, <2>1 DEF DaemonStart
  <2>4. PICK d1, d2 : Starts(rq, DaemonStart(e, c), d1) /\ Starts(ReadVersion, d1, d2) /\ Starts(Send(w2), d2, Do("hello"))
    BY <2>2, <2>3, Chain4, Zenon
  <2>5. QED
    BY <2>1, <2>4, Zenon DEF Starts
<1>15. PICK k0, k1, k2, k3 :
         /\ k0 = DaemonServes(e, "hello", m, N)
         /\ k0 = rs \o k1 /\ k1 = Send(wf) \o k2 /\ k2 = ra \o k3 /\ k3 = Send(w6) \o Do("serve")
         /\ IsSeq(k1) /\ IsSeq(k2) /\ IsSeq(k3)
  <2>1. IsSeq(rs) /\ IsSeq(Send(wf)) /\ IsSeq(ra) /\ IsSeq(Send(w6)) /\ IsSeq(Do("serve"))
    BY <1>9, Parts
  <2>2. PICK k0 : k0 = DaemonServes(e, "hello", m, N)
    OBVIOUS
  <2>3. k0 = rs \o Send(wf) \o ra \o Send(w6) \o Do("serve")
    BY <1>1, <1>4, <1>5, <1>6, <2>2, Zenon DEF DaemonServes, When
  <2>4. PICK k1, k2, k3 : /\ Starts(rs, k0, k1) /\ Starts(Send(wf), k1, k2)
                          /\ Starts(ra, k2, k3) /\ Starts(Send(w6), k3, Do("serve"))
    BY <2>1, <2>3, Chain5, Zenon
  <2>5. QED
    BY <2>2, <2>4, Zenon DEF Starts
<1>16. PICK s0, s1 : /\ s0 = DaemonServes(e, "handleSetOptions", m, N) /\ s0 = so \o s1
                     /\ s1 = Send(w8) \o Do("serve") /\ IsSeq(s1)
  <2>1. PICK s0 : s0 = DaemonServes(e, "handleSetOptions", m, N)
    OBVIOUS
  <2>2. s0 = so \o Send(w8) \o Do("serve")
    BY <1>5, <1>6, <2>1, Zenon DEF DaemonServes
  <2>3. IsSeq(so) /\ IsSeq(Send(w8)) /\ IsSeq(Do("serve"))
    BY <1>9, Parts
  <2>4. PICK s1 : Starts(so, s0, s1) /\ Starts(Send(w8), s1, Do("serve"))
    BY <2>2, <2>3, Chain3, Zenon
  <2>5. QED
    BY <2>1, <2>4, Zenon DEF Starts
<1>17. handleOperation(OpSetOptions) = Do("handleSetOptions")
  BY SMT DEF handleOperation, OpSetOptions, OpBuildDerivation, OpQueryPathInfo, OpAddSignatures
<1>18. /\ Enters(e, dm, Do("hello"), N, Full, k0)
       /\ Enters(e, dm, Do("serve"), N, Full, ReadOp)
       /\ Enters(e, dm, Do("handleSetOptions"), N, Full, s0)
       /\ Enters(e, x, Do("HandshakeInfo"), a, Full, AskOptions(m, next))
  <2>1. DaemonServes(e, "serve", m, N) = ReadOp
    BY DEF DaemonServes
  <2>2. \A l \in DaemonParts : Enters(e, dm, Do(l), N, Full, DaemonServes(e, l, m, N))
    BY Zenon DEF Enters
  <2>3. "hello" \in DaemonParts /\ "serve" \in DaemonParts /\ "handleSetOptions" \in DaemonParts
    BY DEF DaemonParts
  <2>4. Enters(e, x, Do("HandshakeInfo"), a, Full, AskOptions(m, next))
    BY DEF Enters
  <2>5. QED
    BY <1>15, <1>16, <2>1, <2>2, <2>3, <2>4
<1>19. Tells(e, dm, <<Do("serve"), N, Full>>, <<>>, FALSE, <<ReadOp, N, Full>>)
  BY <1>11, <1>18, Nil, TellsNow, EntersRun, Zenon
<1>20. Waits(<<ReadOp, N, Full>>)
  BY WaitsRules, Zenon
\* The answer to the options.
<1>21. Dialog(e, G, dm, <<s1, N, Full>>, x, <<q3, a, Full>>)
  <2>1. Tells(e, dm, <<s1, N, Full>>, w8 \o <<>>, FALSE, <<ReadOp, N, Full>>)
    BY <1>10, <1>11, <1>16, <1>19, Nil, TellsSend, Zenon
  <2>2. w8 \o <<>> = w8
    BY <1>9, Nil, Join
  <2>3. Hears(e, x, <<q3, a, Full>>, w8, <<Do(next), a, Full>>)
    BY <1>7, <1>11, <1>13, HearsMessage, Zenon
  <2>4. Waits(<<q3, a, Full>>)
    BY <1>11, <1>13, WaitsRules, Zenon
  <2>5. Opens(e, G, dm, <<s1, N, Full>>, x, <<q3, a, Full>>)
    BY <1>9, <2>1, <2>2, <2>3, Zenon DEF Opens, N
  <2>6. QED
    BY <2>4, <2>5, DialogStep
\* The options.
<1>22. Dialog(e, G, x, <<q2, a, Full>>, dm, <<ReadOp, N, Full>>)
  <2>1. Tells(e, x, <<q2, a, Full>>, w7, FALSE, <<q3, a, Full>>)
    BY <1>10, <1>13, TellsLast, Zenon
  <2>2. Hears(e, dm, <<ReadOp, N, Full>>, w7, <<s1, N, Full>>)
    <3>1. Hears(e, dm, <<ReadOp, N, Full>>, WriteUint64("op", OpSetOptions), <<Do("handleSetOptions"), N, Full>>)
      BY <1>17, HearsOp
    <3>2. Hears(e, dm, <<s0, N, Full>>, WriteOptions(m), <<s1, N, Full>>)
      BY <1>7, <1>16, HearsMessage, Zenon
    <3>3. IsSeq(WriteOptions(m)) /\ IsSeq(WriteUint64("op", OpSetOptions))
      BY <1>9, EndsRules
    <3>4. Hears(e, dm, <<Do("handleSetOptions"), N, Full>>, WriteOptions(m), <<s1, N, Full>>)
      BY <1>11, <1>18, <3>2, <3>3, HearsEnters, Zenon
    <3>5. Hears(e, dm, <<ReadOp, N, Full>>, WriteUint64("op", OpSetOptions) \o WriteOptions(m), <<s1, N, Full>>)
      BY <3>1, <3>3, <3>4, HearsThen
    <3>6. QED
      BY <1>5, <3>5
  <2>3. Opens(e, G, x, <<q2, a, Full>>, dm, <<ReadOp, N, Full>>)
    BY <1>10, <1>21, <2>1, <2>2, Zenon DEF Opens, Ends
  <2>4. QED
    BY <1>20, <2>3, DialogStep
\* The end of the handshake.
<1>23. Dialog(e, G, dm, <<k3, N, Full>>, x, <<q1, a, Full>>)
  <2>1. Tells(e, dm, <<k3, N, Full>>, w6 \o <<>>, FALSE, <<ReadOp, N, Full>>)
    BY <1>10, <1>11, <1>15, <1>19, Nil, TellsSend, Zenon
  <2>2. w6 \o <<>> = w6
    BY <1>9, Nil, Join
  <2>3. Hears(e, x, <<q1, a, Full>>, w6, <<q2, a, Full>>)
    BY <1>7, <1>13, HearsMessage, Zenon
  <2>4. Waits(<<q1, a, Full>>)
    <3>1. hi = ReadString("daemonVersion") \o When(m >= 35, ReadUint64("trust")) \o Require("marker", StderrLast)
      BY <1>1, <1>6, Zenon DEF ReadHandshakeInfo, When
    <3>2. IsSeq(When(m >= 35, ReadUint64("trust"))) /\ IsSeq(Require("marker", StderrLast))
      BY Nil, Parts DEF When
    <3>3. Waits(<<hi, a, Full>>)
      BY <3>1, <3>2, WaitsRules, Zenon
    <3>4. QED
      BY <1>13, <3>3, WaitsRules, Zenon
  <2>5. Opens(e, G, dm, <<k3, N, Full>>, x, <<q1, a, Full>>)
    BY <1>9, <1>22, <2>1, <2>2, <2>3, Zenon DEF Opens
  <2>6. QED
    BY <2>4, <2>5, DialogStep
\* The CPU affinity.
<1>24. Dialog(e, G, x, <<Do("HandshakeInfo"), a, Full>>, dm, <<k2, N, Full>>)
  <2>1. Tells(e, x, <<AskOptions(m, next), a, Full>>, w5, FALSE, <<q1, a, Full>>)
    BY <1>10, <1>13, TellsLast, Zenon
  <2>2. Tells(e, x, <<Do("HandshakeInfo"), a, Full>>, w5, FALSE, <<q1, a, Full>>)
    BY <1>9, <1>11, <1>18, <2>1, EntersRun, Zenon
  <2>3. Hears(e, dm, <<k2, N, Full>>, w5, <<k3, N, Full>>)
    BY <1>7, <1>15, HearsMessage, Zenon
  <2>4. Waits(<<k2, N, Full>>)
    <3>1. ra = Optional("affinity", ReadUint64("mask")) \o ReadUint64("reserve")
      BY <1>1, <1>6, Zenon DEF ReadAffinity, When
    <3>2. Waits(<<ra, N, Full>>)
      BY <3>1, Parts, WaitsRules, Zenon
    <3>3. QED
      BY <1>15, <3>2, WaitsRules, Zenon
  <2>5. Opens(e, G, x, <<Do("HandshakeInfo"), a, Full>>, dm, <<k2, N, Full>>)
    BY <1>9, <1>23, <2>2, <2>3, Zenon DEF Opens
  <2>6. QED
    BY <2>4, <2>5, DialogStep
\* The features, of the daemon and of the proxy.
<1>25. Dialog(e, G, dm, <<k1, N, Full>>, x, <<h4, a, Full>>)
  <2>1. Tells(e, dm, <<k1, N, Full>>, wf, FALSE, <<k2, N, Full>>)
    BY <1>10, <1>15, TellsLast, Zenon
  <2>2. Hears(e, x, <<h4, a, Full>>, wf, <<Do("HandshakeInfo"), a, Full>>)
    BY <1>7, <1>11, <1>12, HearsMessage, Zenon
  <2>3. Waits(<<h4, a, Full>>)
    BY <1>6, <1>11, <1>12, WaitsRules, Zenon
  <2>4. Opens(e, G, dm, <<k1, N, Full>>, x, <<h4, a, Full>>)
    BY <1>9, <1>24, <2>1, <2>2, Zenon DEF Opens
  <2>5. QED
    BY <2>3, <2>4, DialogStep
<1>26. Dialog(e, G, x, <<h3, a, Full>>, dm, <<k0, N, Full>>)
  <2>1. Tells(e, x, <<h3, a, Full>>, wf, FALSE, <<h4, a, Full>>)
    BY <1>10, <1>12, TellsLast, Zenon
  <2>2. Hears(e, dm, <<k0, N, Full>>, wf, <<k1, N, Full>>)
    BY <1>7, <1>15, HearsMessage, Zenon
  <2>3. Waits(<<k0, N, Full>>)
    BY <1>6, <1>15, WaitsRules, Zenon
  <2>4. Opens(e, G, x, <<h3, a, Full>>, dm, <<k0, N, Full>>)
    BY <1>9, <1>25, <2>1, <2>2, Zenon DEF Opens
  <2>5. QED
    BY <2>3, <2>4, DialogStep
\* The magic numbers and the versions.
<1>27. Dialog(e, G, dm, <<d2, N, Full>>, x, <<h1, a, 0>>)
  <2>1. Tells(e, dm, <<Do("hello"), N, Full>>, <<>>, FALSE, <<k0, N, Full>>)
    BY <1>11, <1>18, Nil, TellsNow, EntersRun, Zenon
  <2>2. Tells(e, dm, <<d2, N, Full>>, w2 \o <<>>, FALSE, <<k0, N, Full>>)
    BY <1>10, <1>11, <1>14, <2>1, Nil, TellsSend, Zenon
  <2>3. w2 \o <<>> = w2 /\ IsSeq(w2)
    BY <1>10, Nil, Join DEF Ends
  <2>4. Hears(e, x, <<h1, a, 0>>, w2a, <<h2, a, 0>>)
    BY <1>8, <1>12, HearsMessage, Zenon
  <2>5. Negotiated(Own(e, x), Version(e.minor[c])) = Full
    BY <1>3, FullVersion, ZenonT(60)
  <2>6. Hears(e, x, <<h2, a, 0>>, w2b, <<h3, a, Full>>)
    BY <1>4, <1>12, <2>5, HearsVersion, Zenon
  <2>7. IsSeq(w2a) /\ IsSeq(w2b)
    BY <1>9
  <2>8. Hears(e, x, <<h1, a, 0>>, w2a \o w2b, <<h3, a, Full>>)
    BY <2>4, <2>6, <2>7, HearsThen
  <2>9. Waits(<<h1, a, 0>>)
    BY <1>12, WaitsRules, Zenon
  <2>10. Opens(e, G, dm, <<d2, N, Full>>, x, <<h1, a, 0>>)
    BY <1>4, <1>26, <2>2, <2>3, <2>8, Zenon DEF Opens
  <2>11. QED
    BY <2>9, <2>10, DialogStep
<1>28. Tells(e, x, <<handshakeWithBuilder, a, 0>>, w1, FALSE, <<h1, a, 0>>)
  BY <1>10, <1>12, TellsLast, Zenon
<1>29. Hears(e, dm, <<DaemonStart(e, c), N, 0>>, w1a \o w1b, <<d2, N, Full>>)
  <2>1. Negotiated(Own(e, dm), Version(ProtocolVersionMinor)) = Full
    BY <1>3, FullVersion, ZenonT(60) DEF Full
  <2>2. Hears(e, dm, <<d1, N, 0>>, w1b, <<d2, N, Full>>)
    BY <1>4, <1>14, <2>1, HearsVersion, Zenon
  <2>3. Hears(e, dm, <<DaemonStart(e, c), N, 0>>, w1a, <<d1, N, 0>>)
    BY <1>8, <1>14, HearsMessage, Zenon
  <2>4. IsSeq(w1a) /\ IsSeq(w1b)
    BY <1>9
  <2>5. QED
    BY <2>2, <2>3, <2>4, HearsThen
<1>30. IsSeq(w1)
  BY <1>10 DEF Ends
<1>31. QED
  BY <1>4, <1>27, <1>28, <1>29, <1>30, Zenon DEF Opens, N

\* What a builder reports, and what the proxy reads after the stream of a build.
Reported(e) == [status |-> e.status, cpu |-> e.cpu, outs |-> {<<o, 0>> : o \in e.outs}]
AfterBuild(m) == ReadBuildResult(m) \o Do("BuildDone")

\* The realisations of finitely many outputs are finitely many.
LEMMA PairsFinite ==
  ASSUME NEW S, IsFiniteSet(S)
  PROVE  IsFiniteSet({<<o, 0>> : o \in S})
<1>1. PICK f, T : f = [o \in S |-> <<o, 0>>] /\ T = {<<o, 0>> : o \in S}
  BY Zenon
<1>2. f \in Surjection(S, T)
  BY <1>1, Zenon DEF Surjection
<1>3. QED
  BY <1>1, <1>2, FS_Surjection

\* A build on the builder: the proxy sends the derivation, and gets the result
\* or the error of the builder.
LEMMA BuildTalk ==
  ASSUME NEW e \in Environment, NEW G, NEW m, m = MinorOf(Full), NEW x, x[1] = "toBuilder",
         NEW dm, dm[1] = "builder", NEW a, IsMem(a), a.fields = <<>>, IsFiniteSet(a.drv), IsFiniteSet(e.outs),
         NEW k, k = <<ReadOp, Set1(Nothing, "drv", a.drv), Full>>,
         e.error = "none" => <<x, <<Do("BuildDone"), Told(Reported(e), a), Full>>, dm, k>> \in G,
         e.error # "none" => <<x, <<FailIns \o AfterBuild(m), a, Full>>, dm, k>> \in G
  PROVE  Dialog(e, G, x, <<Do("ExecuteBuild"), a, Full>>, dm, <<ReadOp, Nothing, Full>>)
<1>1. m \in Nat /\ m >= 37
  BY FullVersion
<1>2. PICK S, b, r, N : S = a.drv /\ b = Set1(Nothing, "drv", S) /\ r = Reported(e) /\ N = Nothing
  OBVIOUS
<1>3. IsMem(N) /\ N.drv \union S = S
  BY <1>2, NothingKnown
<1>4. PICK w1, w2, rb : w1 = WriteBuildArgs(S) /\ w2 = BuildWords(S) /\ rb = ReadBuildArgs
  OBVIOUS
<1>5. /\ Parses(e, dm, Full, rb, w2, N, b) /\ w1 = WriteUint64("op", OpBuildDerivation) \o w2 /\ Ends(w1)
  <2>1. Learns(dm) /\ IsFiniteSet(S)
    BY <1>2, Roles
  <2>2. QED
    BY <1>2, <1>3, <1>4, <2>1, BuildArgsRead, Zenon
<1>6. PICK rr, w4 : rr = ReadBuildResult(m) /\ w4 = WriteBuildResult(m, r)
  OBVIOUS
<1>7. Parses(e, x, Full, rr, w4, a, Told(r, a)) /\ Ends(w4)
  <2>1. Learns(x) /\ x[1] # "reader"
    BY Roles
  <2>2. r.cpu \in BOOLEAN /\ IsFiniteSet(r.outs)
    <3>1. r.cpu = e.cpu /\ r.outs = {<<o, 0>> : o \in e.outs} /\ e.cpu \in BOOLEAN
      BY <1>2 DEF Reported, Environment
    <3>2. IsFiniteSet({<<o, 0>> : o \in e.outs})
      BY PairsFinite
    <3>3. QED
      BY <3>1, <3>2
  <2>3. QED
    BY <1>1, <1>6, <2>1, <2>2, BuildResultRead, Zenon
<1>8. PICK w3, wl, we : wl = LastMarker(e) /\ we = Chatter(e) \o PeerError(e, m)
                        /\ w3 = IF e.error # "none" THEN we ELSE wl \o w4
  BY Zenon
<1>9. Ends(w3) /\ IsSeq(wl) /\ IsSeq(w2) /\ IsSeq(w4) /\ IsSeq(we)
  <2>1. Ends(wl) /\ Ends(we)
    BY <1>8, EndsMessages
  <2>2. \A w, u : IsSeq(w) /\ Ends(u) => Ends(w \o u)
    BY EndsRules, Zenon
  <2>3. \A w : Ends(w) => IsSeq(w)
    BY EndsRules, Zenon
  <2>4. Ends(wl \o w4)
    BY <1>7, <2>1, <2>2, <2>3
  <2>5. QED
    BY <1>5, <1>7, <1>8, <2>1, <2>3, <2>4 DEF Parses
<1>10. \A l : IsSeq(Do(l)) /\ Do(l) # <<>>
  BY Parts
\* The programs.
<1>11. PICK z, t1, t2 : /\ z = AskBuild(m, S) /\ z = Send(w1) \o t1 /\ t1 = ReadMarker \o t2
                        /\ t2 = AfterBuild(m) /\ t2 = rr \o Do("BuildDone") /\ IsSeq(t1) /\ IsSeq(t2)
  <2>1. PICK z : z = AskBuild(m, S)
    OBVIOUS
  <2>2. z = Send(w1) \o ReadMarker \o rr \o Do("BuildDone")
    BY <1>4, <1>6, <2>1 DEF AskBuild
  <2>3. IsSeq(Send(w1)) /\ IsSeq(ReadMarker) /\ IsSeq(rr) /\ IsSeq(Do("BuildDone"))
    BY <1>7, Parts DEF Parses
  <2>4. PICK t1, t2 : Starts(Send(w1), z, t1) /\ Starts(ReadMarker, t1, t2) /\ Starts(rr, t2, Do("BuildDone"))
    BY <2>2, <2>3, Chain4, Zenon
  <2>5. QED
    BY <1>6, <2>1, <2>4, Zenon DEF Starts, AfterBuild
<1>12. PICK s0, s1 : /\ s0 = DaemonServes(e, "handleBuildDerivation", m, N) /\ s0 = rb \o s1
                     /\ s1 = Send(w3) \o Do("serve") /\ IsSeq(s1)
  <2>1. PICK s0 : s0 = DaemonServes(e, "handleBuildDerivation", m, N)
    OBVIOUS
  <2>2. s0 = rb \o Send(w3) \o Do("serve")
    BY <1>2, <1>4, <1>6, <1>8, <2>1, Zenon DEF DaemonServes, Reported
  <2>3. IsSeq(rb) /\ IsSeq(Send(w3)) /\ IsSeq(Do("serve"))
    BY <1>5, Parts DEF Parses
  <2>4. PICK s1 : Starts(rb, s0, s1) /\ Starts(Send(w3), s1, Do("serve"))
    BY <2>2, <2>3, Chain3, Zenon
  <2>5. QED
    BY <2>1, <2>4, Zenon DEF Starts
<1>13. handleOperation(OpBuildDerivation) = Do("handleBuildDerivation")
  BY SMT DEF handleOperation, OpSetOptions, OpBuildDerivation, OpQueryPathInfo, OpAddSignatures
<1>14. /\ Enters(e, dm, Do("serve"), b, Full, ReadOp)
       /\ Enters(e, dm, Do("handleBuildDerivation"), N, Full, s0)
       /\ Enters(e, x, Do("ExecuteBuild"), a, Full, z)
  <2>1. DaemonServes(e, "serve", m, b) = ReadOp
    BY DEF DaemonServes
  <2>2. \A l \in DaemonParts : \A d : Enters(e, dm, Do(l), d, Full, DaemonServes(e, l, m, d))
    BY Zenon DEF Enters
  <2>3. "serve" \in DaemonParts /\ "handleBuildDerivation" \in DaemonParts
    BY DEF DaemonParts
  <2>4. Enters(e, x, Do("ExecuteBuild"), a, Full, z)
    BY <1>2, <1>11 DEF Enters
  <2>5. QED
    BY <1>12, <2>1, <2>2, <2>3, <2>4
\* The answer.
<1>15. Dialog(e, G, dm, <<s1, b, Full>>, x, <<t1, a, Full>>)
  <2>1. Tells(e, dm, <<Do("serve"), b, Full>>, <<>>, FALSE, <<ReadOp, b, Full>>)
    BY <1>10, <1>14, Nil, TellsNow, EntersRun, Zenon
  <2>2. Tells(e, dm, <<s1, b, Full>>, w3 \o <<>>, FALSE, <<ReadOp, b, Full>>)
    BY <1>9, <1>10, <1>12, <2>1, Nil, TellsSend, Zenon
  <2>3. w3 \o <<>> = w3 /\ IsSeq(w3)
    BY <1>9, Nil, Join DEF Ends
  <2>4. Waits(<<t1, a, Full>>) /\ Waits(<<ReadOp, b, Full>>)
    BY <1>11, WaitsRules, Zenon
  <2>5. ASSUME NEW t, Hears(e, x, <<t1, a, Full>>, w3, t), <<x, t, dm, <<ReadOp, b, Full>>>> \in G
        PROVE  Opens(e, G, dm, <<s1, b, Full>>, x, <<t1, a, Full>>)
    <3>1. Dialog(e, G, x, t, dm, <<ReadOp, b, Full>>)
      BY <2>4, <2>5, DialogGoal, Zenon
    <3>2. QED
      BY <2>2, <2>3, <2>5, <3>1, Zenon DEF Opens
  <2>6. CASE e.error # "none"
    <3>1. Fails(e, x, Full, we, a)
      BY <1>8, StreamRead
    <3>2. Hears(e, x, <<t1, a, Full>>, we, <<FailIns \o t2, a, Full>>)
      BY <1>11, <3>1, HearsError, Zenon
    <3>3. PICK t : t = <<FailIns \o t2, a, Full>>
      BY Zenon
    <3>4. w3 = we /\ <<x, t, dm, <<ReadOp, b, Full>>>> \in G
      BY <1>2, <1>8, <1>11, <2>6, <3>3
    <3>5. QED
      <4>1. Hears(e, x, <<t1, a, Full>>, w3, t)
        BY <3>2, <3>3, <3>4
      <4>2. QED
        BY <2>4, <2>5, <3>4, <4>1, DialogStep, Zenon
  <2>7. CASE e.error = "none"
    <3>1. Hears(e, x, <<t1, a, Full>>, wl, <<t2, a, Full>>)
      <4>1. Parses(e, x, Full, ReadMarker, wl, a, a)
        BY <1>8, StreamRead
      <4>2. QED
        BY <1>11, <4>1, HearsMessage, Zenon
    <3>2. Hears(e, x, <<t2, a, Full>>, w4, <<Do("BuildDone"), Told(r, a), Full>>)
      BY <1>7, <1>10, <1>11, HearsMessage, Zenon
    <3>3. IsSeq(wl) /\ IsSeq(w4)
      BY <1>9
    <3>4. Hears(e, x, <<t1, a, Full>>, wl \o w4, <<Do("BuildDone"), Told(r, a), Full>>)
      BY <3>1, <3>2, <3>3, HearsThen
    <3>5. PICK t : t = <<Do("BuildDone"), Told(r, a), Full>>
      BY Zenon
    <3>6. w3 = wl \o w4 /\ <<x, t, dm, <<ReadOp, b, Full>>>> \in G
      BY <1>2, <1>8, <2>7, <3>5
    <3>7. QED
      <4>1. Hears(e, x, <<t1, a, Full>>, w3, t)
        BY <3>4, <3>5, <3>6
      <4>2. QED
        BY <2>4, <2>5, <3>6, <4>1, DialogStep, Zenon
  <2>8. QED
    BY <2>6, <2>7
\* The derivation.
<1>16. Tells(e, x, <<Do("ExecuteBuild"), a, Full>>, w1, FALSE, <<t1, a, Full>>)
  <2>1. Tells(e, x, <<z, a, Full>>, w1, FALSE, <<t1, a, Full>>)
    BY <1>5, <1>11, TellsLast, Zenon
  <2>2. IsSeq(w1)
    BY <1>5 DEF Ends
  <2>3. QED
    BY <1>10, <1>14, <2>1, <2>2, EntersRun, Zenon
<1>17. Hears(e, dm, <<ReadOp, N, Full>>, w1, <<s1, b, Full>>)
  <2>1. Hears(e, dm, <<ReadOp, N, Full>>, WriteUint64("op", OpBuildDerivation), <<Do("handleBuildDerivation"), N, Full>>)
    BY <1>13, HearsOp
  <2>2. Hears(e, dm, <<s0, N, Full>>, w2, <<s1, b, Full>>)
    BY <1>5, <1>12, HearsMessage, Zenon
  <2>3. IsSeq(w2) /\ IsSeq(WriteUint64("op", OpBuildDerivation))
    BY <1>9, EndsRules
  <2>4. Hears(e, dm, <<Do("handleBuildDerivation"), N, Full>>, w2, <<s1, b, Full>>)
    BY <1>10, <1>14, <2>2, <2>3, HearsEnters, Zenon
  <2>5. Hears(e, dm, <<ReadOp, N, Full>>, WriteUint64("op", OpBuildDerivation) \o w2, <<s1, b, Full>>)
    BY <2>1, <2>3, <2>4, HearsThen
  <2>6. QED
    BY <1>5, <2>5
<1>18. Opens(e, G, x, <<Do("ExecuteBuild"), a, Full>>, dm, <<ReadOp, N, Full>>)
  <2>1. IsSeq(w1)
    BY <1>5 DEF Ends
  <2>2. QED
    BY <1>15, <1>16, <1>17, <2>1, Zenon DEF Opens
<1>19. Waits(<<ReadOp, N, Full>>)
  BY WaitsRules, Zenon
<1>20. QED
  BY <1>2, <1>18, <1>19, DialogStep

\* What the store host says of the output o.
InfoOf(e, o) == [path |-> o, found |-> o \in e.present, deriver |-> e.deriver, signable |-> o \in e.signable]

\* A path info that the store host does not have is heard as such.
LEMMA HearsMissing ==
  ASSUME NEW e, NEW x, x[1] = "toStore", NEW a, NEW v, NEW m \in Nat, m >= 17, NEW i, i.found = FALSE,
         NEW q, IsSeq(q)
  PROVE  /\ Hears(e, x, <<ReadPathInfo(m) \o q, a, v>>, WritePathInfo(m, i), <<Do("NextOutput"), a, v>>)
         /\ Ends(WritePathInfo(m, i))
<1>1. PICK y : y = Word("found", 0, 0, 0)
  OBVIOUS
<1>2. WritePathInfo(m, i) = <<y>> /\ y.f = "found" /\ y.n = 0
  <2>1. WritePathInfo(m, i) = WriteBool("found", i.found) \o <<>>
    <3>1. m >= 17 /\ ~(m < 17 \/ i.found)
      <4>1. ~(m < 17)
        OBVIOUS
      <4>2. QED
        BY <4>1, Zenon
    <3>2. QED
      BY <3>1, Zenon DEF WritePathInfo, When
  <2>3. WriteBool("found", i.found) = <<y>>
    BY <1>1 DEF WriteBool, WriteUint64
  <2>2. QED
    BY <1>1, <2>1, <2>3, One, Nil, Join DEF Word
<1>3. PICK j, p : j = Ins("nonzero", "found", 0, <<>>) /\ ReadPathInfo(m) = <<j>> \o p /\ IsSeq(p)
  <2>1. PICK j : j = Ins("nonzero", "found", 0, <<>>)
    OBVIOUS
  <2>2. PICK p1, p2, p3, p4, p5, p6 :
          /\ p1 = ReadString("deriver") /\ p2 = ReadString("narHash") /\ p3 = ReadStrings("refs")
          /\ p4 = ReadUint64("regTime") /\ p5 = ReadUint64("narSize")
          /\ p6 = When(m >= 16, ReadUint64("ultimate") \o ReadStrings("sigs") \o ReadString("ca"))
    OBVIOUS
  <2>3. IsSeq(p1) /\ IsSeq(p2) /\ IsSeq(p3) /\ IsSeq(p4) /\ IsSeq(p5) /\ IsSeq(p6) /\ IsSeq(<<j>>)
    BY <2>2, Parts, Nil, One DEF When
  <2>4. ReadPathInfo(m) = <<j>> \o p1 \o p2 \o p3 \o p4 \o p5 \o p6
    BY <2>1, <2>2, Zenon DEF ReadPathInfo, When
  <2>5. \A Ms, X, Y, z : Starts(Ms, X, Y) /\ IsSeq(z) => Starts(Ms, X \o z, Y \o z)
    BY StartsRules
  <2>6. PICK X1, X2, X3, X4, X5, X6 : /\ X1 = <<j>> \o p1 /\ X2 = X1 \o p2 /\ X3 = X2 \o p3 /\ X4 = X3 \o p4
                                      /\ X5 = X4 \o p5 /\ X6 = X5 \o p6
    BY Zenon
  <2>8. Starts(<<j>>, X1, p1)
    BY <2>3, <2>6, StartsRules
  <2>9. \E Y : Starts(<<j>>, X2, Y)
    BY <2>3, <2>5, <2>6, <2>8, Zenon
  <2>10. \E Y : Starts(<<j>>, X3, Y)
    BY <2>3, <2>5, <2>6, <2>9, Zenon
  <2>11. \E Y : Starts(<<j>>, X4, Y)
    BY <2>3, <2>5, <2>6, <2>10, Zenon
  <2>12. \E Y : Starts(<<j>>, X5, Y)
    BY <2>3, <2>5, <2>6, <2>11, Zenon
  <2>13. \E Y : Starts(<<j>>, X6, Y)
    BY <2>3, <2>5, <2>6, <2>12, Zenon
  <2>14. ReadPathInfo(m) = X6
    BY <2>4, <2>6
  <2>7. QED
    BY <2>1, <2>13, <2>14, Zenon DEF Starts
<1>4. PICK s, t, z : /\ z = <<j>> \o (p \o q) /\ s = St(z, a, v, <<y>>) /\ t = St(Do("NextOutput"), a, v, <<>>)
  BY Zenon
<1>5. IsSeq(p \o q) /\ ReadPathInfo(m) \o q = z
  <2>1. IsSeq(<<j>>) /\ IsSeq(p)
    BY <1>3, One
  <2>2. (<<j>> \o p) \o q = <<j>> \o (p \o q)
    <3>1. Assoc(<<j>>, p, q)
      BY <2>1, JoinAssoc3
    <3>2. QED
      BY <3>1 DEF Assoc
  <2>3. IsSeq(p \o q)
    BY <2>1, Join
  <2>4. QED
    BY <1>3, <1>4, <2>2, <2>3
<1>6. IsSeq(z) /\ z # <<>> /\ Head(z) = j
  BY <1>4, <1>5, FirstThen
<1>7. j.k = "nonzero" /\ j.f = "found"
  BY <1>3 DEF Ins
<1>8. IsSeq(<<y>>) /\ <<y>> # <<>> /\ Head(<<y>>) = y /\ Tail(<<y>>) = <<>>
  BY One
<1>9. s[1] = z /\ s[2] = a /\ s[3] = v /\ s[4] = <<y>>
  BY <1>4 DEF St
<1>10. Refuses1(x, s, t)
  BY <1>2, <1>4, <1>6, <1>7, <1>8, <1>9, Zenon DEF Refuses1
<1>11. Advance(e, x, "hear", s, t)
  BY <1>6, <1>8, <1>9, <1>10 DEF Advance
<1>12. s = Hear(<<z, a, v>>, <<y>>) /\ t = Hear(<<Do("NextOutput"), a, v>>, <<>>)
  BY <1>4 DEF Hear, St
<1>13. Hears(e, x, <<z, a, v>>, <<y>>, <<Do("NextOutput"), a, v>>)
  BY <1>11, <1>12, HearsStep
<1>14. Ends(<<y>>)
  BY <1>2, <1>8, One DEF Ends, Whole
<1>15. QED
  BY <1>2, <1>5, <1>13, <1>14

\* What the proxy knows of the output o when the store host has it.
Found(e, o, a) == Informed(InfoOf(e, o), a)

\* Four sequences, joined from the left and from the right.
Left4(s, t, u, w) == s \o t \o u \o w
Joined(u, w, z) == z = u \o w
Seqs4(s, t, u, w) == IsSeq(s) /\ IsSeq(t) /\ IsSeq(u) /\ IsSeq(w)
Right4(s, t, z) == s \o (t \o z)

\* Four parts of a message, joined from the left or from the right.
LEMMA JoinFour ==
  ASSUME NEW s, NEW t, NEW u, NEW w, NEW z, Seqs4(s, t, u, w), Joined(u, w, z)
  PROVE  Left4(s, t, u, w) = Right4(s, t, z)
<1>1. PICK y : y = s \o t
  BY Zenon
<1>2. y \o u \o w = y \o (u \o w)
  <2>1. IsSeq(y) /\ IsSeq(u) /\ IsSeq(w)
    BY <1>1, Join DEF Seqs4
  <2>2. QED
    <3>1. Assoc(y, u, w)
      BY <2>1, JoinAssoc3
    <3>2. QED
      BY <3>1 DEF Assoc
<1>3. (s \o t) \o z = s \o (t \o z)
  <2>1. IsSeq(s) /\ IsSeq(t) /\ IsSeq(z)
    BY Join DEF Seqs4, Joined
  <2>2. QED
    <3>1. Assoc(s, t, z)
      BY <2>1, JoinAssoc3
    <3>2. QED
      BY <3>1 DEF Assoc
<1>4. QED
  BY <1>1, <1>2, <1>3 DEF Right4, Left4, Joined

\* The program that sends a signature, part by part.
SignatureWords(o, w0, w1, w2) ==
  /\ w0 = WriteUint64("op", OpAddSignatures) /\ w1 = WriteStringOf("path", o, 0)
  /\ w2 = WriteUint64("sig", 1) \o WriteStringOf("sig", o, o)

\* The program that hands in a signature, part by part.
LEMMA AskSignatureParts ==
  ASSUME NEW a, NEW o, a.path = o, SignedFrom(a) = o, NEW w0, NEW w1, NEW w2, SignatureWords(o, w0, w1, w2)
  PROVE  AskSignature(a) = Send(Right4(w0, w1, w2)) \o (ReadMarker \o Do("Signed"))
<1>1. PICK p, q : p = WriteUint64("sig", 1) /\ q = WriteStringOf("sig", o, o) /\ IsSeq(p) /\ IsSeq(q)
  BY EndsRules
<1>2. AskSignature(a) = Send(w0 \o w1 \o p \o q) \o ReadMarker \o Do("Signed")
  BY <1>1 DEF AskSignature, SignatureWords
<1>3. Seqs4(w0, w1, p, q) /\ Joined(p, q, w2)
  BY <1>1, EndsRules DEF Seqs4, SignatureWords, Joined
<1>4. PICK w3 : w3 = Right4(w0, w1, w2)
  OBVIOUS
<1>5. w0 \o w1 \o p \o q = w3
  <2>1. Left4(w0, w1, p, q) = w3
    BY <1>3, <1>4, JoinFour, Zenon
  <2>2. QED
    BY <2>1 DEF Left4
<1>6. (Send(w3) \o ReadMarker) \o Do("Signed") = Send(w3) \o (ReadMarker \o Do("Signed"))
  <2>1. IsSeq(Send(w3)) /\ IsSeq(ReadMarker) /\ IsSeq(Do("Signed"))
    BY Parts
  <2>2. QED
    <3>1. Assoc(Send(w3), ReadMarker, Do("Signed"))
      BY <2>1, JoinAssoc3
    <3>2. QED
      BY <3>1 DEF Assoc
<1>7. QED
  BY <1>2, <1>4, <1>5, <1>6, Zenon

\* The signature of an output, once its path info is known: the store host has
\* read it when it registers it.
LEMMA SignatureTalk ==
  ASSUME NEW e \in Environment, NEW G, NEW m, m = MinorOf(Full), NEW x, x[1] = "toStore", NEW dm, dm[1] = "store",
         NEW o, o # 0, NEW a, IsMem(a), a.path = o, a.narHash = o, a.narSize = o,
         NEW b, IsMem(b), b.path = o,
         <<dm, <<Do("register"), Set1(b, "sig", <<o, o>>), Full>>, x, <<ReadMarker \o Do("Signed"), a, Full>>>> \in G
  PROVE  Dialog(e, G, x, <<Do("SignPath"), a, Full>>, dm, <<ReadOp, b, Full>>)
<1>1. PICK z, t, w0, w1, w2, w3 :
        /\ z = AskSignature(a) /\ t = ReadMarker \o Do("Signed") /\ SignatureWords(o, w0, w1, w2)
        /\ w0 = WriteUint64("op", OpAddSignatures) /\ w1 = WriteStringOf("path", o, 0)
        /\ w2 = WriteUint64("sig", 1) \o WriteStringOf("sig", o, o) /\ w3 = w0 \o (w1 \o w2)
  BY Zenon DEF SignatureWords
<1>2. IsSeq(w0) /\ IsSeq(w1) /\ IsSeq(w2) /\ Ends(w3) /\ IsSeq(w1 \o w2)
  <2>1. IsSeq(w0) /\ Ends(w1) /\ IsSeq(WriteUint64("sig", 1)) /\ Ends(WriteStringOf("sig", o, o))
    BY <1>1, EndsRules
  <2>2. \A w, u : IsSeq(w) /\ Ends(u) => Ends(w \o u)
    BY EndsRules, Zenon
  <2>3. \A w : Ends(w) => IsSeq(w)
    BY EndsRules, Zenon
  <2>4. Ends(w2)
    BY <1>1, <2>1, <2>2
  <2>5. Ends(w1 \o w2)
    BY <2>1, <2>2, <2>3, <2>4
  <2>6. QED
    BY <1>1, <2>1, <2>2, <2>3, <2>4, <2>5
<1>3. IsSeq(t) /\ IsSeq(Do("Signed")) /\ IsSeq(ReadMarker)
  BY <1>1, Parts
<1>4. z = Send(w3) \o t
  <2>1. SignedFrom(a) = o
    BY DEF SignedFrom
  <2>2. QED
    <3>1. z = Send(Right4(w0, w1, w2)) \o (ReadMarker \o Do("Signed"))
      <4>1. SignatureWords(o, w0, w1, w2) /\ z = AskSignature(a) /\ a.path = o
        BY <1>1
      <4>2. QED
        BY <2>1, <4>1, AskSignatureParts, Zenon
    <3>2. QED
      BY <1>1, <3>1 DEF Right4
<1>5. \A l : IsSeq(Do(l)) /\ Do(l) # <<>>
  BY Parts
<1>6. PICK s0, s1, rp, rs : /\ s0 = DaemonServes(e, "handleAddSignatures", m, b) /\ rp = ReadString("path") /\ rs = ReadStrings("sig")
                            /\ s0 = rp \o s1 /\ s1 = rs \o Do("register") /\ IsSeq(s1)
  <2>1. PICK s0, rp, rs : /\ s0 = DaemonServes(e, "handleAddSignatures", m, b)
                          /\ rp = ReadString("path") /\ rs = ReadStrings("sig")
    OBVIOUS
  <2>2. s0 = rp \o rs \o Do("register")
    BY <2>1 DEF DaemonServes
  <2>3. IsSeq(rp) /\ IsSeq(rs) /\ IsSeq(Do("register"))
    BY <2>1, Parts
  <2>4. PICK s1 : Starts(rp, s0, s1) /\ Starts(rs, s1, Do("register"))
    BY <2>2, <2>3, Chain3, Zenon
  <2>5. QED
    BY <2>1, <2>4, Zenon DEF Starts
<1>7. /\ Enters(e, dm, Do("handleAddSignatures"), b, Full, s0)
      /\ Enters(e, x, Do("SignPath"), a, Full, z)
  <2>1. \A l \in DaemonParts : \A d : Enters(e, dm, Do(l), d, Full, DaemonServes(e, l, m, d))
    BY Zenon DEF Enters
  <2>2. "handleAddSignatures" \in DaemonParts
    BY DEF DaemonParts
  <2>3. a.narHash # 0
    OBVIOUS
  <2>4. Enters(e, x, Do("SignPath"), a, Full, z)
    BY <1>1, <2>3 DEF Enters
  <2>5. QED
    BY <1>6, <2>1, <2>2, <2>4
<1>8. handleOperation(OpAddSignatures) = Do("handleAddSignatures")
  BY SMT DEF handleOperation, OpSetOptions, OpBuildDerivation, OpQueryPathInfo, OpAddSignatures
<1>9. PICK c : c = Set1(b, "sig", <<o, o>>)
  OBVIOUS
<1>10. Hears(e, dm, <<ReadOp, b, Full>>, w3, <<Do("register"), c, Full>>)
  <2>1. Hears(e, dm, <<ReadOp, b, Full>>, w0, <<Do("handleAddSignatures"), b, Full>>)
    BY <1>1, <1>8, HearsOp
  <2>2. Parses(e, dm, Full, rp, w1, b, b)
    <3>1. Set1(b, "path", o) = b
      BY MemSet DEF MemNames
    <3>2. QED
      BY <1>1, <1>6, <3>1, PathRead
  <2>3. Hears(e, dm, <<s0, b, Full>>, w1, <<s1, b, Full>>)
    BY <1>6, <2>2, HearsMessage, Zenon
  <2>4. Parses(e, dm, Full, rs, w2, b, c)
    BY <1>1, <1>6, <1>9, SignatureRead
  <2>5. Hears(e, dm, <<s1, b, Full>>, w2, <<Do("register"), c, Full>>)
    BY <1>5, <1>6, <2>4, HearsMessage, Zenon
  <2>6. Hears(e, dm, <<s0, b, Full>>, w1 \o w2, <<Do("register"), c, Full>>)
    BY <1>2, <2>3, <2>5, HearsThen
  <2>7. Hears(e, dm, <<Do("handleAddSignatures"), b, Full>>, w1 \o w2, <<Do("register"), c, Full>>)
    <3>1. PICK u, g : u = w1 \o w2 /\ g = <<Do("register"), c, Full>>
      BY Zenon
    <3>2. IsSeq(u) /\ Hears(e, dm, <<s0, b, Full>>, u, g)
      BY <1>2, <2>6, <3>1
    <3>3. Hears(e, dm, <<Do("handleAddSignatures"), b, Full>>, u, g)
      BY <1>5, <1>7, <3>2, HearsEnters, Zenon
    <3>4. QED
      BY <3>1, <3>3
  <2>8. QED
    BY <1>1, <1>2, <2>1, <2>7, HearsThen
<1>11. Tells(e, x, <<Do("SignPath"), a, Full>>, w3, FALSE, <<t, a, Full>>)
  <2>1. Tells(e, x, <<z, a, Full>>, w3, FALSE, <<t, a, Full>>)
    BY <1>2, <1>3, <1>4, TellsLast, Zenon
  <2>2. IsSeq(w3)
    BY <1>2 DEF Ends
  <2>3. QED
    BY <1>5, <1>7, <2>1, <2>2, EntersRun, Zenon
<1>12. Waits(<<t, a, Full>>) /\ Waits(<<ReadOp, b, Full>>)
  BY <1>1, <1>3, WaitsRules, Zenon
<1>13. Dialog(e, G, dm, <<Do("register"), c, Full>>, x, <<t, a, Full>>)
  BY <1>1, <1>9, <1>12, DialogGoal, Zenon
<1>14. Opens(e, G, x, <<Do("SignPath"), a, Full>>, dm, <<ReadOp, b, Full>>)
  <2>1. IsSeq(w3)
    BY <1>2 DEF Ends
  <2>2. QED
    BY <1>10, <1>11, <1>13, <2>1, Zenon DEF Opens
<1>15. QED
  BY <1>12, <1>14, DialogStep

\* The program that asks for a path info, part by part.
AskParts(w1, rp, z, t1, t2) ==
  /\ z = Send(w1) \o t1 /\ t1 = ReadMarker \o t2 /\ t2 = rp \o Do("SignPath") /\ IsSeq(t1) /\ IsSeq(t2)

\* The program that asks for a path info, part by part.
LEMMA AskPathInfoParts ==
  ASSUME NEW m, NEW o, NEW w1, Joined(WriteUint64("op", OpQueryPathInfo), WriteStringOf("path", o, 0), w1),
         NEW rp, rp = ReadPathInfo(m), IsSeq(rp)
  PROVE  \E t1, t2 : AskParts(w1, rp, AskPathInfo(m, o), t1, t2)
<1>1. PICK z : z = AskPathInfo(m, o)
  OBVIOUS
<1>2. z = Send(w1) \o ReadMarker \o rp \o Do("SignPath")
  BY <1>1 DEF AskPathInfo, Joined
<1>3. IsSeq(Send(w1)) /\ IsSeq(ReadMarker) /\ IsSeq(rp) /\ IsSeq(Do("SignPath"))
  BY Parts
<1>4. PICK t1, t2 : Starts(Send(w1), z, t1) /\ Starts(ReadMarker, t1, t2) /\ Starts(rp, t2, Do("SignPath"))
  BY <1>2, <1>3, Chain4, Zenon
<1>5. QED
  BY <1>1, <1>4, Zenon DEF Starts, AskParts

\* A path info is read, whether the store host has it or not.
LEMMA PathInfoHeard ==
  ASSUME NEW e \in Environment, NEW m, m = MinorOf(Full), NEW x, x[1] = "toStore", NEW o, NEW a
  PROVE  /\ IsSeq(ReadPathInfo(m)) /\ Ends(WritePathInfo(m, InfoOf(e, o)))
         /\ o \notin e.present =>
              Hears(e, x, <<ReadPathInfo(m) \o Do("SignPath"), a, Full>>, WritePathInfo(m, InfoOf(e, o)),
                    <<Do("NextOutput"), a, Full>>)
         /\ o \in e.present =>
              Hears(e, x, <<ReadPathInfo(m) \o Do("SignPath"), a, Full>>, WritePathInfo(m, InfoOf(e, o)),
                    <<Do("SignPath"), Found(e, o, a), Full>>)
<1>1. m \in Nat /\ m >= 17
  BY FullVersion
<1>2. IsSeq(Do("SignPath"))
  BY Parts
<1>3. IsSeq(ReadPathInfo(m))
  <2>1. PICK i : i = [found |-> TRUE, signable |-> TRUE, path |-> 0, deriver |-> TRUE]
    BY Zenon
  <2>2. i.found = TRUE
    BY <2>1
  <2>3. Parses(e, x, Full, ReadPathInfo(m), WritePathInfo(m, i), a, Informed(i, a))
    BY <1>1, <2>2, PathInfoRead, Zenon
  <2>4. QED
    BY <2>3 DEF Parses
<1>4. PICK i : i = InfoOf(e, o)
  OBVIOUS
<1>5. CASE o \notin e.present
  <2>1. i.found = FALSE
    <3>1. (o \in e.present) = FALSE
      BY <1>5
    <3>2. i = [path |-> o, found |-> FALSE, deriver |-> e.deriver, signable |-> o \in e.signable]
      BY <1>4, <3>1, Zenon DEF InfoOf
    <3>3. QED
      BY <3>2
  <2>2. /\ Hears(e, x, <<ReadPathInfo(m) \o Do("SignPath"), a, Full>>, WritePathInfo(m, i), <<Do("NextOutput"), a, Full>>)
        /\ Ends(WritePathInfo(m, i))
    BY <1>1, <1>2, <2>1, HearsMissing, Zenon
  <2>3. QED
    BY <1>3, <1>4, <1>5, <2>2
<1>6. CASE o \in e.present
  <2>1. i.found = TRUE
    BY <1>4, <1>6, Zenon DEF InfoOf
  <2>2. /\ Parses(e, x, Full, ReadPathInfo(m), WritePathInfo(m, i), a, Informed(i, a))
        /\ Ends(WritePathInfo(m, i))
    BY <1>1, <2>1, PathInfoRead, Zenon
  <2>3. Hears(e, x, <<ReadPathInfo(m) \o Do("SignPath"), a, Full>>, WritePathInfo(m, i),
              <<Do("SignPath"), Informed(i, a), Full>>)
    BY <1>2, <2>2, HearsMessage, Zenon
  <2>4. QED
    BY <1>3, <1>4, <1>6, <2>2, <2>3 DEF Found
<1>7. QED
  BY <1>5, <1>6

\* What the proxy knows then.
LEMMA FoundKnown ==
  ASSUME NEW e, NEW o, NEW a, IsMem(a), NEW b, b = Found(e, o, a)
  PROVE  /\ IsMem(b) /\ b.path = a.path /\ b.fields = a.fields /\ b.outs = a.outs /\ b.status = a.status
         /\ b.cpu = a.cpu /\ b.drv = a.drv /\ b.narSize = o
         /\ b.narHash = IF o \in e.signable THEN o ELSE 0
<1>1. PICK i, n : i = InfoOf(e, o) /\ n = IF i.signable THEN i.path ELSE 0
  OBVIOUS
<1>2. n = (IF o \in e.signable THEN o ELSE 0) /\ i.path = o
  BY <1>1, Zenon DEF InfoOf
<1>3. PICK d : d = Set1(a, "narHash", n)
  OBVIOUS
<1>4. b = Set1(d, "narSize", o)
  BY <1>1, <1>2, <1>3 DEF Found, Informed
<1>5. /\ "narHash" \in MemNames /\ "narSize" \in MemNames /\ "path" \in MemNames /\ "fields" \in MemNames
      /\ "outs" \in MemNames /\ "status" \in MemNames /\ "cpu" \in MemNames /\ "drv" \in MemNames
  BY DEF MemNames
<1>6. IsMem(d) /\ d["narHash"] = n /\ \A j \in MemNames : j # "narHash" => d[j] = a[j]
  BY <1>3, <1>5, MemSet
<1>7. IsMem(b) /\ b["narSize"] = o /\ \A j \in MemNames : j # "narSize" => b[j] = d[j]
  BY <1>4, <1>5, <1>6, MemSet
<1>8. QED
  BY <1>2, <1>5, <1>6, <1>7

\* The work on one output: the store host is asked for its path info, and then
\* to register its signature.
LEMMA QueryTalk ==
  ASSUME NEW e \in Environment, NEW G, NEW m, m = MinorOf(Full), NEW x, x[1] = "toStore", NEW dm, dm[1] = "store",
         NEW o, o # 0, NEW a, IsMem(a), a.fields = <<>>, a.path = o, NEW b0, IsMem(b0),
         NEW b, b = Set1(b0, "path", o),
         o \notin e.present => <<x, <<Do("NextOutput"), a, Full>>, dm, <<ReadOp, b, Full>>>> \in G,
         o \in e.present \ e.signable =>
           <<x, <<Do("NextOutput"), Found(e, o, a), Full>>, dm, <<ReadOp, b, Full>>>> \in G,
         o \in e.present \intersect e.signable =>
           <<dm, <<Do("register"), Set1(b, "sig", <<o, o>>), Full>>,
             x, <<ReadMarker \o Do("Signed"), Found(e, o, a), Full>>>> \in G
  PROVE  Dialog(e, G, x, <<AskPathInfo(m, o), a, Full>>, dm, <<ReadOp, b0, Full>>)
<1>1. PICK rp, w0, wp, w1, wl, wi, w3, z :
        /\ rp = ReadPathInfo(m) /\ w0 = WriteUint64("op", OpQueryPathInfo) /\ wp = WriteStringOf("path", o, 0)
        /\ w1 = w0 \o wp /\ wl = LastMarker(e) /\ wi = WritePathInfo(m, InfoOf(e, o)) /\ w3 = wl \o wi
        /\ z = AskPathInfo(m, o)
  BY Zenon
<1>2. IsSeq(rp) /\ Ends(wi)
  BY <1>1, PathInfoHeard, Zenon
<1>3. IsSeq(w0) /\ Ends(wp) /\ Ends(w1) /\ Ends(wl) /\ Ends(w3) /\ IsSeq(wp) /\ IsSeq(w1) /\ IsSeq(wl) /\ IsSeq(w3) /\ IsSeq(wi)
  <2>1. IsSeq(w0) /\ Ends(wp) /\ Ends(wl)
    BY <1>1, EndsRules, EndsMessages
  <2>2. \A w, u : IsSeq(w) /\ Ends(u) => Ends(w \o u)
    BY EndsRules, Zenon
  <2>3. \A w : Ends(w) => IsSeq(w)
    BY EndsRules, Zenon
  <2>4. QED
    BY <1>1, <1>2, <2>1, <2>2, <2>3
<1>4. PICK t1, t2 : /\ z = Send(w1) \o t1 /\ t1 = ReadMarker \o t2 /\ t2 = rp \o Do("SignPath")
                    /\ IsSeq(t1) /\ IsSeq(t2)
  <2>1. Joined(WriteUint64("op", OpQueryPathInfo), WriteStringOf("path", o, 0), w1) /\ rp = ReadPathInfo(m) /\ IsSeq(rp)
    BY <1>1, <1>2 DEF Joined
  <2>2. z = AskPathInfo(m, o)
    BY <1>1
  <2>3. PICK t1, t2 : AskParts(w1, rp, z, t1, t2)
    BY <2>1, <2>2, AskPathInfoParts, Zenon
  <2>4. QED
    BY <2>3, Zenon DEF AskParts
<1>5. IsMem(b) /\ b.path = o
  BY MemSet DEF MemNames
<1>6. \A l : IsSeq(Do(l)) /\ Do(l) # <<>>
  BY Parts
<1>7. PICK s0, s1, rs : /\ s0 = DaemonServes(e, "handleQueryPathInfo", m, b0) /\ rs = ReadString("path")
                        /\ s0 = rs \o Do("info") /\ s1 = DaemonServes(e, "info", m, b) /\ s1 = Send(w3) \o Do("serve")
  <2>1. DaemonServes(e, "handleQueryPathInfo", m, b0) = ReadString("path") \o Do("info")
    BY DEF DaemonServes
  <2>2. DaemonServes(e, "info", m, b) = Send(w3) \o Do("serve")
    BY <1>1, <1>5, Zenon DEF DaemonServes, InfoOf
  <2>3. QED
    BY <2>1, <2>2
<1>8. /\ Enters(e, dm, Do("handleQueryPathInfo"), b0, Full, s0)
      /\ Enters(e, dm, Do("info"), b, Full, s1)
      /\ Enters(e, dm, Do("serve"), b, Full, ReadOp)
  <2>1. \A l \in DaemonParts : \A d : Enters(e, dm, Do(l), d, Full, DaemonServes(e, l, m, d))
    BY Zenon DEF Enters
  <2>2. "handleQueryPathInfo" \in DaemonParts /\ "info" \in DaemonParts /\ "serve" \in DaemonParts
    BY DEF DaemonParts
  <2>3. DaemonServes(e, "serve", m, b) = ReadOp
    BY DEF DaemonServes
  <2>4. QED
    BY <1>7, <2>1, <2>2, <2>3
<1>9. handleOperation(OpQueryPathInfo) = Do("handleQueryPathInfo")
  BY SMT DEF handleOperation, OpSetOptions, OpBuildDerivation, OpQueryPathInfo, OpAddSignatures
<1>10. PICK s2, k : s2 = <<s1, b, Full>> /\ k = <<ReadOp, b, Full>>
  BY Zenon
\* The query.
<1>11. Hears(e, dm, <<ReadOp, b0, Full>>, w1, s2)
  <2>1. Hears(e, dm, <<ReadOp, b0, Full>>, w0, <<Do("handleQueryPathInfo"), b0, Full>>)
    BY <1>1, <1>9, HearsOp
  <2>2. Parses(e, dm, Full, rs, wp, b0, b)
    BY <1>1, <1>7, PathRead
  <2>3. Hears(e, dm, <<s0, b0, Full>>, wp, <<Do("info"), b, Full>>)
    BY <1>6, <1>7, <2>2, HearsMessage, Zenon
  <2>4. Hears(e, dm, <<s0, b0, Full>>, wp, s2)
    BY <1>3, <1>6, <1>8, <1>10, <2>3, HearsEnters, Zenon
  <2>5. Hears(e, dm, <<Do("handleQueryPathInfo"), b0, Full>>, wp, s2)
    BY <1>3, <1>6, <1>8, <2>4, HearsEnters, Zenon
  <2>6. QED
    BY <1>1, <1>3, <2>1, <2>5, HearsTwo, ZenonT(60)
<1>12. Tells(e, x, <<z, a, Full>>, w1, FALSE, <<t1, a, Full>>)
  BY <1>3, <1>4, TellsLast, Zenon
\* The answer.
<1>13. Tells(e, dm, s2, w3, FALSE, k)
  <2>1. Tells(e, dm, <<Do("serve"), b, Full>>, <<>>, FALSE, <<ReadOp, b, Full>>)
    BY <1>6, <1>8, Nil, TellsNow, EntersRun, Zenon
  <2>2. Tells(e, dm, <<s1, b, Full>>, w3 \o <<>>, FALSE, <<ReadOp, b, Full>>)
    BY <1>3, <1>6, <1>7, <2>1, Nil, TellsSend, Zenon
  <2>3. w3 \o <<>> = w3
    BY <1>3, Nil, Join
  <2>4. QED
    BY <1>10, <2>2, <2>3, Zenon
<1>14. \A t : Hears(e, x, <<t2, a, Full>>, wi, t) => Hears(e, x, <<t1, a, Full>>, w3, t)
  <2>1. Parses(e, x, Full, ReadMarker, wl, a, a)
    BY <1>1, StreamRead
  <2>2. Hears(e, x, <<t1, a, Full>>, wl, <<t2, a, Full>>)
    BY <1>4, <2>1, HearsMessage, Zenon
  <2>3. QED
    BY <1>1, <1>3, <2>2, HearsTwo, ZenonT(60)
<1>15. Waits(<<t1, a, Full>>) /\ Waits(k) /\ Waits(<<ReadOp, b0, Full>>)
  BY <1>4, <1>10, WaitsRules, Zenon
<1>16. ASSUME NEW t, Hears(e, x, <<t2, a, Full>>, wi, t), Dialog(e, G, x, t, dm, k)
       PROVE  Dialog(e, G, dm, s2, x, <<t1, a, Full>>)
  <2>1. Hears(e, x, <<t1, a, Full>>, w3, t)
    BY <1>14, <1>16, Zenon
  <2>2. Opens(e, G, dm, s2, x, <<t1, a, Full>>)
    BY <1>3, <1>13, <1>16, <2>1, Zenon DEF Opens
  <2>3. QED
    BY <1>15, <2>2, DialogStep
<1>17. Dialog(e, G, dm, s2, x, <<t1, a, Full>>)
  <2>1. CASE o \notin e.present
    <3>1. PICK t : t = <<Do("NextOutput"), a, Full>>
      OBVIOUS
    <3>2. Hears(e, x, <<t2, a, Full>>, wi, t)
      BY <1>1, <1>4, <2>1, <3>1, PathInfoHeard, Zenon
    <3>3. <<x, t, dm, k>> \in G
      BY <1>10, <2>1, <3>1
    <3>4. Dialog(e, G, x, t, dm, k)
      BY <1>15, <3>3, DialogGoal
    <3>5. QED
      BY <1>16, <3>2, <3>4, Zenon
  <2>2. CASE o \in e.present
    <3>1. PICK c : c = Found(e, o, a)
      OBVIOUS
    <3>2. Hears(e, x, <<t2, a, Full>>, wi, <<Do("SignPath"), c, Full>>)
      BY <1>1, <1>4, <2>2, <3>1, PathInfoHeard, Zenon
    <3>3. IsMem(c) /\ c.path = o /\ c.narSize = o /\ c.narHash = IF o \in e.signable THEN o ELSE 0
      BY <3>1, FoundKnown
    <3>4. CASE o \in e.signable
      <4>1. Dialog(e, G, x, <<Do("SignPath"), c, Full>>, dm, <<ReadOp, b, Full>>)
        <5>1. <<dm, <<Do("register"), Set1(b, "sig", <<o, o>>), Full>>, x, <<ReadMarker \o Do("Signed"), c, Full>>>> \in G
          BY <2>2, <3>1, <3>4
        <5>2. c.narHash = o
          BY <3>3, <3>4
        <5>3. QED
          BY <1>5, <3>3, <5>1, <5>2, SignatureTalk, Zenon
      <4>2. Dialog(e, G, x, <<Do("SignPath"), c, Full>>, dm, k)
        BY <1>10, <4>1
      <4>3. QED
        BY <1>16, <3>2, <4>2, Zenon
    <3>5. CASE o \notin e.signable
      <4>1. PICK t : t = <<Do("NextOutput"), c, Full>>
        BY Zenon
      <4>2. Enters(e, x, Do("SignPath"), c, Full, Do("NextOutput"))
        BY <3>3, <3>5 DEF Enters
      <4>3. Hears(e, x, <<t2, a, Full>>, wi, t)
        BY <1>3, <1>6, <3>2, <4>1, <4>2, HearsEnters, Zenon
      <4>4. <<x, t, dm, k>> \in G
        BY <1>10, <2>2, <3>1, <3>5, <4>1
      <4>5. Dialog(e, G, x, t, dm, k)
        BY <1>15, <4>4, DialogGoal
      <4>6. QED
        BY <1>16, <4>3, <4>5, Zenon
    <3>6. QED
      BY <3>4, <3>5
  <2>3. QED
    BY <2>1, <2>2
<1>18. Opens(e, G, x, <<z, a, Full>>, dm, <<ReadOp, b0, Full>>)
  BY <1>3, <1>11, <1>12, <1>17, Zenon DEF Opens
<1>19. QED
  BY <1>1, <1>15, <1>18, DialogStep

\* The store host answers AddSignatures.
LEMMA SignTalk ==
  ASSUME NEW e \in Environment, ~e.acks, NEW G, NEW m, m = MinorOf(Full), NEW x, x[1] = "toStore",
         NEW dm, dm[1] = "store", NEW a, IsMem(a), a.fields = <<>>, NEW b,
         e.trusted => <<x, <<Do("Signed"), a, Full>>, dm, <<ReadOp, b, Full>>>> \in G,
         ~e.trusted => <<x, <<FailIns \o Do("Signed"), a, Full>>, dm, <<ReadOp, b, Full>>>> \in G
  PROVE  Dialog(e, G, dm, <<AnswerSignature(e, m), b, Full>>, x, <<ReadMarker \o Do("Signed"), a, Full>>)
<1>1. PICK w, t, k : /\ w = (IF e.trusted THEN LastMarker(e) ELSE PeerError(e, m))
                     /\ t = <<ReadMarker \o Do("Signed"), a, Full>> /\ k = <<ReadOp, b, Full>>
  BY Zenon
<1>2. Ends(w)
  BY <1>1, EndsMessages
<1>3. AnswerSignature(e, m) = Send(w) \o Do("serve")
  <2>1. LastMarker(e) \o <<>> = LastMarker(e)
    <3>1. IsSeq(LastMarker(e))
      BY EndsMessages DEF Ends
    <3>2. QED
      BY <3>1, Nil, Join
  <2>2. QED
    BY <1>1, <2>1, Zenon DEF AnswerSignature, When
<1>4. \A l : IsSeq(Do(l)) /\ Do(l) # <<>>
  BY Parts
<1>5. Tells(e, dm, <<AnswerSignature(e, m), b, Full>>, w, FALSE, k)
  <2>1. Enters(e, dm, Do("serve"), b, Full, ReadOp)
    <3>1. \A l \in DaemonParts : \A d : Enters(e, dm, Do(l), d, Full, DaemonServes(e, l, m, d))
      BY Zenon DEF Enters
    <3>2. "serve" \in DaemonParts /\ DaemonServes(e, "serve", m, b) = ReadOp
      BY DEF DaemonParts, DaemonServes
    <3>3. QED
      BY <3>1, <3>2
  <2>2. Tells(e, dm, <<Do("serve"), b, Full>>, <<>>, FALSE, <<ReadOp, b, Full>>)
    BY <1>4, <2>1, Nil, TellsNow, EntersRun, Zenon
  <2>3. Tells(e, dm, <<AnswerSignature(e, m), b, Full>>, w \o <<>>, FALSE, <<ReadOp, b, Full>>)
    BY <1>2, <1>3, <1>4, <2>2, Nil, TellsSend, Zenon
  <2>4. w \o <<>> = w
    BY <1>2, Nil, Join DEF Ends
  <2>5. QED
    BY <1>1, <2>3, <2>4, Zenon
<1>6. Waits(t) /\ Waits(k)
  BY <1>1, <1>4, WaitsRules, Zenon
<1>7. ASSUME NEW g, Hears(e, x, t, w, g), <<x, g, dm, k>> \in G
      PROVE  Dialog(e, G, dm, <<AnswerSignature(e, m), b, Full>>, x, t)
  <2>1. Dialog(e, G, x, g, dm, k)
    BY <1>6, <1>7, DialogGoal
  <2>2. IsSeq(w)
    BY <1>2 DEF Ends
  <2>3. Opens(e, G, dm, <<AnswerSignature(e, m), b, Full>>, x, t)
    BY <1>5, <1>7, <2>1, <2>2, Zenon DEF Opens
  <2>4. QED
    BY <1>6, <2>3, DialogStep
<1>8. CASE e.trusted
  <2>1. Parses(e, x, Full, ReadMarker, w, a, a)
    BY <1>1, <1>8, StreamRead
  <2>2. PICK g : g = <<Do("Signed"), a, Full>>
    OBVIOUS
  <2>3. Hears(e, x, t, w, g)
    BY <1>1, <1>4, <2>1, <2>2, HearsMessage, Zenon
  <2>4. <<x, g, dm, k>> \in G
    BY <1>1, <1>8, <2>2
  <2>5. QED
    BY <1>1, <1>7, <2>3, <2>4, Zenon
<1>9. CASE ~e.trusted
  <2>1. Fails(e, x, Full, w, a)
    BY <1>1, <1>9, ErrorRead
  <2>2. PICK g : g = <<FailIns \o Do("Signed"), a, Full>>
    BY Zenon
  <2>3. Hears(e, x, t, w, g)
    BY <1>1, <1>4, <2>1, <2>2, HearsError, Zenon
  <2>4. <<x, g, dm, k>> \in G
    BY <1>1, <1>9, <2>2
  <2>5. QED
    BY <1>1, <1>7, <2>3, <2>4, Zenon
<1>10. QED
  BY <1>8, <1>9

\* After the answer of a build the proxy waits for the next operation.
LEMMA Returned ==
  ASSUME NEW e, NEW x, x[1] = "toClient", NEW a
  PROVE  /\ Tells(e, x, <<Do("Return"), a, Full>>, <<>>, FALSE, <<ReadOp, a, Full>>)
         /\ Tells(e, x, <<Flush \o Do("ReadOp"), a, Full>>, <<>>, FALSE, <<ReadOp, a, Full>>)
<1>1. /\ Enters(e, x, Do("Return"), a, Full, Do("ReadOp")) /\ Enters(e, x, Do("ReadOp"), a, Full, ReadOp)
      /\ Enters(e, x, Flush \o Do("ReadOp"), a, Full, Do("ReadOp"))
  BY DEF Enters
<1>2. \A l : IsSeq(Do(l)) /\ Do(l) # <<>>
  BY Parts
<1>3. IsSeq(Flush \o Do("ReadOp")) /\ Flush \o Do("ReadOp") # <<>>
  <2>1. IsSeq(Flush)
    BY Parts
  <2>2. QED
    BY <1>2, <2>1, Join
<1>4. Tells(e, x, <<Do("ReadOp"), a, Full>>, <<>>, FALSE, <<ReadOp, a, Full>>)
  BY <1>1, <1>2, Nil, TellsNow, EntersRun, Zenon
<1>5. Tells(e, x, <<Do("Return"), a, Full>>, <<>>, FALSE, <<ReadOp, a, Full>>)
  BY <1>1, <1>2, <1>4, Nil, EntersRun, Zenon
<1>6. QED
  BY <1>1, <1>3, <1>4, <1>5, Nil, EntersRun, Zenon

\* A part of the stream, when it has been read.
LEMMA HearsHum ==
  ASSUME NEW e, NEW x, NEW v, NEW w, NEW a, NEW b, Hums(e, x, v, w, a, b), NEW q, IsSeq(q)
  PROVE  Hears(e, x, <<ReadMarker \o q, a, v>>, w, <<ReadMarker \o q, b, v>>)
<1>1. Reaches(e, x, "read", St(ReadMarker, a, v, w), St(ReadMarker, b, v, <<>>)) /\ IsSeq(w)
  BY DEF Hums
<1>2. Reaches(e, x, "read", With(St(ReadMarker, a, v, w), q, <<>>), With(St(ReadMarker, b, v, <<>>), q, <<>>))
  BY <1>1, Nil, ReachesWith
<1>3. w \o <<>> = w /\ <<>> \o <<>> = <<>>
  BY <1>1, Nil, Join
<1>4. /\ With(St(ReadMarker, a, v, w), q, <<>>) = Hear(<<ReadMarker \o q, a, v>>, w)
      /\ With(St(ReadMarker, b, v, <<>>), q, <<>>) = Hear(<<ReadMarker \o q, b, v>>, <<>>)
  BY <1>3 DEF With, St, Hear
<1>5. QED
  BY <1>2, <1>4, ReadHear DEF Hears

\* x tells all its words, after the words h of its buffer if d, and y hears them.
Answers(e, x, s, d, t, y, l, h, k) ==
  \E w : IsSeq(w) /\ Tells(e, x, s, w, d, t) /\ Hears(e, y, l, h \o w, k)

\* The result of a build, after what the builder said.
LEMMA ReplyTalk ==
  ASSUME NEW e \in Environment, NEW m, m = MinorOf(Full), NEW r, r.cpu \in BOOLEAN, IsFiniteSet(r.outs),
         NEW a, NEW x, x[1] = "toClient", NEW y, y[1] = "reader", Shown(r) \subseteq y[2],
         NEW c0, NEW c, IsMem(c), NEW h, Hums(e, y, Full, h, c0, c), NEW d
  PROVE  Answers(e, x, <<TellResult(m, r), a, Full>>, d, <<ReadOp, a, Full>>,
                 y, <<ReadMarker \o Expects(m), c0, Full>>, h, <<Do("got"), Told(r, c), Full>>)
<1>1. PICK w8, wr, rr : w8 = WriteUint64("marker", StderrLast) /\ wr = WriteBuildResult(m, r) /\ rr = ReadBuildResult(m)
  OBVIOUS
<1>2. m \in Nat /\ m >= 37
  BY FullVersion
<1>3. Parses(e, y, Full, rr, wr, c, Told(r, c)) /\ Ends(wr) /\ IsSeq(rr) /\ IsSeq(wr)
  <2>1. Learns(y)
    BY DEF Learns
  <2>2. Parses(e, y, Full, rr, wr, c, Told(r, c)) /\ Ends(wr)
    BY <1>1, <1>2, <2>1, BuildResultRead
  <2>3. QED
    BY <2>2 DEF Parses
<1>4. Ends(w8) /\ IsSeq(w8) /\ IsSeq(h)
  <2>1. StderrLast # 8
    BY Markers
  <2>2. QED
    BY <1>1, <2>1, EndsRules DEF Hums
<1>5. \A l : IsSeq(Do(l)) /\ Do(l) # <<>>
  BY Parts
<1>6. PICK z, z1 : z = TellResult(m, r) /\ z = Send(w8) \o z1 /\ z1 = Send(wr) \o Do("Return") /\ IsSeq(z1)
  <2>1. PICK z : z = TellResult(m, r)
    OBVIOUS
  <2>2. z = Send(w8) \o Send(wr) \o Do("Return")
    BY <1>1, <2>1 DEF TellResult
  <2>3. IsSeq(Send(w8)) /\ IsSeq(Send(wr)) /\ IsSeq(Do("Return"))
    BY Parts
  <2>4. PICK z1 : Starts(Send(w8), z, z1) /\ Starts(Send(wr), z1, Do("Return"))
    BY <2>2, <2>3, Chain3, Zenon
  <2>5. QED
    BY <2>1, <2>4, Zenon DEF Starts
<1>7. PICK w : w = w8 \o wr /\ IsSeq(w)
  BY <1>3, <1>4, Join, Zenon
<1>8. Tells(e, x, <<z, a, Full>>, w, d, <<ReadOp, a, Full>>)
  <2>1. Tells(e, x, <<z1, a, Full>>, wr \o <<>>, FALSE, <<ReadOp, a, Full>>)
    <3>1. Tells(e, x, <<Do("Return"), a, Full>>, <<>>, FALSE, <<ReadOp, a, Full>>)
      BY Returned, Zenon
    <3>2. QED
      BY <1>3, <1>5, <1>6, <3>1, Nil, TellsSend, Zenon
  <2>2. wr \o <<>> = wr
    BY <1>3, Nil, Join
  <2>3. Tells(e, x, <<z1, a, Full>>, wr, FALSE, <<ReadOp, a, Full>>)
    BY <2>1, <2>2, Zenon
  <2>4. QED
    BY <1>3, <1>4, <1>6, <1>7, <2>3, TellsSend, Zenon
<1>9. PICK p, g : p = Expects(m) /\ p = rr \o Do("got") /\ IsSeq(p) /\ g = <<Do("got"), Told(r, c), Full>>
  <2>1. IsSeq(rr \o Do("got"))
    BY <1>3, <1>5, Join
  <2>2. QED
    BY <1>1, <2>1, Zenon DEF Expects
<1>10. Hears(e, y, <<ReadMarker \o p, c0, Full>>, h \o w, g)
  <2>1. Hears(e, y, <<ReadMarker \o p, c0, Full>>, h, <<ReadMarker \o p, c, Full>>)
    BY <1>9, HearsHum, Zenon
  <2>2. Parses(e, y, Full, ReadMarker, w8, c, c)
    BY <1>1, LastRead
  <2>3. Hears(e, y, <<ReadMarker \o p, c, Full>>, w8, <<p, c, Full>>)
    BY <1>9, <2>2, HearsMessage, Zenon
  <2>4. Hears(e, y, <<p, c, Full>>, wr, g)
    BY <1>3, <1>5, <1>9, HearsMessage, Zenon
  <2>5. Hears(e, y, <<ReadMarker \o p, c, Full>>, w, g)
    BY <1>3, <1>4, <1>7, <2>3, <2>4, HearsTwo, Zenon
  <2>6. QED
    BY <1>4, <1>7, <2>1, <2>5, HearsTwo, Zenon
<1>11. QED
  <2>1. Tells(e, x, <<TellResult(m, r), a, Full>>, w, d, <<ReadOp, a, Full>>)
    BY <1>6, <1>8
  <2>2. Hears(e, y, <<ReadMarker \o Expects(m), c0, Full>>, h \o w, <<Do("got"), Told(r, c), Full>>)
    BY <1>9, <1>10
  <2>3. QED
    BY <1>7, <2>1, <2>2, Zenon DEF Answers

\* The error that a build ended in, after what the builder said.
LEMMA ErrorTalk ==
  ASSUME NEW e \in Environment, NEW m, m = MinorOf(Full), NEW a, NEW x, x[1] = "toClient", NEW y,
         NEW c0, NEW c, NEW h, Hums(e, y, Full, h, c0, c), NEW d, IsSeq(Expects(m))
  PROVE  Answers(e, x, <<TellError(m), a, Full>>, d, <<ReadOp, a, Full>>,
                 y, <<ReadMarker \o Expects(m), c0, Full>>, h, <<FailIns \o Expects(m), c, Full>>)
<1>1. PICK w : w = StopWorkWithError(m)
  OBVIOUS
<1>2. Ends(w) /\ IsSeq(w) /\ IsSeq(h)
  <2>1. Ends(w)
    BY <1>1, EndsMessages
  <2>2. QED
    BY <2>1, EndsRules DEF Hums
<1>3. Tells(e, x, <<TellError(m), a, Full>>, w, d, <<ReadOp, a, Full>>)
  <2>1. TellError(m) = Send(w) \o Do("Return") /\ IsSeq(Do("Return"))
    BY <1>1, Parts DEF TellError
  <2>2. Tells(e, x, <<Do("Return"), a, Full>>, <<>>, FALSE, <<ReadOp, a, Full>>)
    BY Returned, Zenon
  <2>3. Tells(e, x, <<TellError(m), a, Full>>, w \o <<>>, d, <<ReadOp, a, Full>>)
    BY <1>2, <2>1, <2>2, Nil, TellsSend, Zenon
  <2>4. w \o <<>> = w
    BY <1>2, Nil, Join
  <2>5. QED
    BY <2>3, <2>4
<1>4. PICK p : p = Expects(m)
  OBVIOUS
<1>5. Hears(e, y, <<ReadMarker \o p, c0, Full>>, h, <<ReadMarker \o p, c, Full>>)
  BY <1>4, HearsHum, Zenon
<1>6. Fails(e, y, Full, w, c)
  BY <1>1, ErrorRead
<1>7. Hears(e, y, <<ReadMarker \o p, c, Full>>, w, <<FailIns \o p, c, Full>>)
  BY <1>4, <1>6, HearsError, Zenon
<1>8. Hears(e, y, <<ReadMarker \o p, c0, Full>>, h \o w, <<FailIns \o p, c, Full>>)
  BY <1>2, <1>5, <1>7, HearsThen
<1>9. QED
  BY <1>2, <1>3, <1>4, <1>8, Zenon DEF Answers

\* The operation that follows: the proxy does not serve it.
LEMMA SyncTalk ==
  ASSUME NEW e \in Environment, NEW G, NEW m, m = MinorOf(Full), NEW a, NEW x, x[1] = "toClient", NEW y,
         NEW c, <<y, <<FailIns, c, Full>>, x, <<ReadOp, a, Full>>>> \in G
  PROVE  Dialog(e, G, y, <<ClientSync, c, Full>>, x, <<ReadOp, a, Full>>)
<1>1. PICK w1, w2, k, g, z : /\ w1 = WriteUint64("op", OpSyncWithGC) /\ w2 = StopWorkWithError(m)
                             /\ k = <<ReadOp, a, Full>> /\ g = <<FailIns, c, Full>> /\ z = ServeOp("unhandled", m)
  OBVIOUS
<1>2. Ends(w1) /\ Ends(w2) /\ IsSeq(w1) /\ IsSeq(w2)
  <2>1. OpSyncWithGC # 8
    BY DEF OpSyncWithGC
  <2>2. Ends(w1) /\ Ends(w2)
    BY <1>1, <2>1, EndsRules, EndsMessages
  <2>3. QED
    BY <2>2 DEF Ends
<1>3. IsSeq(ReadMarker) /\ IsSeq(Flush \o Do("ReadOp")) /\ IsSeq(FailIns) /\ IsSeq(Flush) /\ IsSeq(Do("ReadOp"))
  BY Parts
<1>4. Tells(e, y, <<ClientSync, c, Full>>, w1, FALSE, <<ReadMarker, c, Full>>)
  BY <1>1, <1>2, <1>3, TellsLast, Zenon DEF ClientSync
<1>5. handleOperation(OpSyncWithGC) = Do("unhandled")
  BY SMT DEF handleOperation, OpSetOptions, OpBuildDerivation, OpQueryPathInfo, OpAddSignatures, OpSyncWithGC
<1>6. Hears(e, x, k, w1, <<Do("unhandled"), a, Full>>)
  BY <1>1, <1>5, HearsOp
<1>7. z = Send(w2) \o (Flush \o Do("ReadOp"))
  BY <1>1, Zenon DEF ServeOp
<1>8. Tells(e, x, <<Do("unhandled"), a, Full>>, w2, FALSE, k)
  <2>1. Tells(e, x, <<Flush \o Do("ReadOp"), a, Full>>, <<>>, FALSE, <<ReadOp, a, Full>>)
    BY Returned, Zenon
  <2>2. Tells(e, x, <<z, a, Full>>, w2 \o <<>>, FALSE, <<ReadOp, a, Full>>)
    <3>1. PICK f : f = Flush \o Do("ReadOp")
      BY Zenon
    <3>2. z = Send(w2) \o f /\ IsSeq(f) /\ Tells(e, x, <<f, a, Full>>, <<>>, FALSE, <<ReadOp, a, Full>>)
      BY <1>3, <1>7, <2>1, <3>1, Zenon
    <3>3. QED
      BY <1>2, <3>2, Nil, TellsSend, Zenon
  <2>3. w2 \o <<>> = w2
    BY <1>2, Nil, Join
  <2>4. Enters(e, x, Do("unhandled"), a, Full, z)
    BY <1>1 DEF Enters
  <2>5. IsSeq(Do("unhandled")) /\ Do("unhandled") # <<>>
    BY Parts
  <2>6. Tells(e, x, <<z, a, Full>>, w2, FALSE, k)
    BY <1>1, <2>2, <2>3, Zenon
  <2>7. QED
    BY <1>2, <2>4, <2>5, <2>6, EntersRun, Zenon
<1>9. Hears(e, y, <<ReadMarker, c, Full>>, w2, g)
  <2>1. Fails(e, y, Full, w2, c)
    BY <1>1, ErrorRead
  <2>2. Hears(e, y, <<ReadMarker \o <<>>, c, Full>>, w2, <<FailIns \o <<>>, c, Full>>)
    BY <2>1, Nil, HearsError, Zenon
  <2>3. ReadMarker \o <<>> = ReadMarker /\ FailIns \o <<>> = FailIns
    BY <1>3, Nil, Join
  <2>4. QED
    BY <1>1, <2>2, <2>3
<1>10. Waits(<<ReadMarker, c, Full>>) /\ Waits(k)
  BY <1>1, WaitsRules, Zenon
<1>11. Dialog(e, G, y, g, x, k)
  BY <1>1, <1>10, DialogGoal
<1>12. Opens(e, G, x, <<Do("unhandled"), a, Full>>, y, <<ReadMarker, c, Full>>)
  BY <1>2, <1>8, <1>9, <1>11, Zenon DEF Opens
<1>13. Dialog(e, G, x, <<Do("unhandled"), a, Full>>, y, <<ReadMarker, c, Full>>)
  BY <1>10, <1>12, DialogStep
<1>14. Opens(e, G, y, <<ClientSync, c, Full>>, x, k)
  BY <1>2, <1>4, <1>6, <1>13, Zenon DEF Opens
<1>15. QED
  BY <1>1, <1>10, <1>14, DialogStep
=============================================================================
