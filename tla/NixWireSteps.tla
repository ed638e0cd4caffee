---------------------------- MODULE NixWireSteps ----------------------------
(***************************************************************************)
(* What the steps of the parties of NixWire do to their conversations: a   *)
(* read, a write, a flush or the entry of a part of a program, by either   *)
(* end of a connection, whatever the buffer and the wire hold.  Then the   *)
(* parts that a session has, for each of the three peers, and that the     *)
(* steps of the peers keep them.                                           *)
(***************************************************************************)
EXTENDS NixWireLemmas

-----------------------------------------------------------------------------
(* Two ends of a connection *)

\* How the programs begin that are entered.
LEMMA EntersHead ==
  ASSUME NEW e, NEW x, NEW p, NEW a, NEW v, NEW q, Enters(e, x, p, a, v, q)
  PROVE  \/ \E l : p = Do(l) /\ Head(p).k = "do" /\ Head(p).f = l
         \/ p = Flush \o Do("ReadOp") /\ q = Do("ReadOp") /\ x[1] = "toClient" /\ Head(p).k = "flush"
            /\ Tail(p) = Do("ReadOp")
<1>1. \A l : Head(Do(l)).k = "do" /\ Head(Do(l)).f = l
  <2>1. ASSUME NEW l PROVE Head(Do(l)).k = "do" /\ Head(Do(l)).f = l
    <3>1. PICK i : i = Ins("do", l, 0, <<>>)
      OBVIOUS
    <3>2. Do(l) = <<i>> /\ i.k = "do" /\ i.f = l
      BY <3>1 DEF Do, Ins
    <3>3. QED
      BY <3>2, One
  <2>2. QED
    BY <2>1
<1>2. Head(Flush \o Do("ReadOp")).k = "flush" /\ Tail(Flush \o Do("ReadOp")) = Do("ReadOp")
  <2>1. PICK i : i = Ins("flush", "", 0, <<>>)
    BY Zenon
  <2>2. Flush = <<i>> /\ i.k = "flush"
    BY <2>1, Zenon DEF Flush, Ins
  <2>3. IsSeq(Do("ReadOp"))
    BY Parts
  <2>4. QED
    BY <2>2, <2>3, FirstThen
<1>3. (\E l : p = Do(l)) \/ (p = Flush \o Do("ReadOp") /\ q = Do("ReadOp") /\ x[1] = "toClient")
  BY Zenon DEF Enters
<1>4. QED
  BY <1>1, <1>2, <1>3

\* The steps of a listener, by the instruction it is at.
LEMMA HearKinds ==
  ASSUME NEW e, NEW x, NEW s, NEW t, Advance(e, x, "hear", s, t), NEW k, k = Head(s[1]).k
  PROVE  /\ IsSeq(s[1]) /\ s[1] # <<>>
         /\ k \in Reads => Takes1(e, x, s, t) \/ Refuses1(x, s, t)
         /\ k = "loop" => Loops1(s, t)
         /\ k = "forward" => Forwards1(s, t)
         /\ k \in {"do", "flush"} => Enters1(e, x, s, t)
         /\ k \notin {"write", "fail"}
<1>1. /\ IsSeq(s[1]) /\ s[1] # <<>>
      /\ Takes1(e, x, s, t) \/ Loops1(s, t) \/ Forwards1(s, t) \/ Enters1(e, x, s, t) \/ Refuses1(x, s, t)
  BY DEF Advance
<1>2. Takes1(e, x, s, t) => k \in Reads
  BY Zenon DEF Takes1
<1>3. Loops1(s, t) => k = "loop"
  BY DEF Loops1
<1>4. Forwards1(s, t) => k = "forward"
  BY DEF Forwards1
<1>5. Enters1(e, x, s, t) => k \in {"do", "flush"}
  <2>1. SUFFICES ASSUME Enters1(e, x, s, t) PROVE k \in {"do", "flush"}
    OBVIOUS
  <2>2. Enters(e, x, s[1], s[2], s[3], t[1])
    BY <2>1 DEF Enters1
  <2>3. QED
    BY <2>2, EntersHead
<1>6. Refuses1(x, s, t) => k = "nonzero"
  BY DEF Refuses1
<1>7. {"loop", "forward", "do", "flush", "write", "fail"} \intersect Reads = {} /\ "nonzero" \in Reads
  BY DEF Reads
<1>8. QED
  BY <1>1, <1>2, <1>3, <1>4, <1>5, <1>6, <1>7

\* The steps of a speaker.
TellEnters(e, x, s, t) ==
  Enters(e, x, s[1], s[2], s[3], t[1]) /\ ~s[5] /\ t = <<t[1], s[2], s[3], s[4], FALSE>>

\* What a speaker does next follows from its first instruction.
LEMMA TellKinds ==
  ASSUME NEW e, NEW x, NEW s, NEW t, Advance(e, x, "tell", s, t), NEW k, k = Head(s[1]).k
  PROVE  /\ IsSeq(s[1]) /\ s[1] # <<>>
         /\ k \in {"write", "flush", "do"}
         /\ k = "write" => Writes1(s, t)
         /\ k = "do" => TellEnters(e, x, s, t)
         /\ k = "flush" => Flushes1(s, t) \/ TellEnters(e, x, s, t)
<1>1. IsSeq(s[1]) /\ s[1] # <<>> /\ (Writes1(s, t) \/ Flushes1(s, t) \/ TellEnters(e, x, s, t))
  BY Zenon DEF Advance, TellEnters
<1>2. Writes1(s, t) => k = "write"
  BY DEF Writes1
<1>3. Flushes1(s, t) => k = "flush"
  BY DEF Flushes1
<1>4. TellEnters(e, x, s, t) => k \in {"do", "flush"}
  <2>1. SUFFICES ASSUME TellEnters(e, x, s, t) PROVE k \in {"do", "flush"}
    OBVIOUS
  <2>2. Enters(e, x, s[1], s[2], s[3], t[1])
    BY <2>1 DEF TellEnters
  <2>3. QED
    BY <2>2, EntersHead
<1>5. QED
  BY <1>1, <1>2, <1>3, <1>4

\* An end of a connection: who it is, its program, what it knows, the version it
\* goes by, its words on the wire and those in its buffer.
Pos(X) == <<X[2], X[3], X[4]>>
At3(X, p, a, v) == <<X[1], p, a, v, X[5], X[6]>>
Clear(X) == X[5] = <<>> /\ X[6] = <<>>

\* A speaks and B listens: B hears all that A says in this turn, and the
\* dialog goes on from there.
Speaking(e, G, A, B) ==
  /\ Clear(B) /\ IsSeq(A[5]) /\ IsSeq(A[6]) /\ Whole(A[5]) /\ Whole(A[6])
  /\ \E w, d, s, l :
       /\ IsSeq(w) /\ d \in BOOLEAN /\ (d <=> A[6] # <<>>)
       /\ Tells(e, A[1], Pos(A), w, d, s) /\ Hears(e, B[1], Pos(B), A[5] \o A[6] \o w, l)
       /\ Dialog(e, G, B[1], l, A[1], s)

Talk(e, G, X, Y) == Speaking(e, G, X, Y) \/ Speaking(e, G, Y, X)

\* The dialogs lead to places where both ends are known.
Place(s) == s = <<s[1], s[2], s[3]>>
Goals(G) == \A g \in G : Place(g[2]) /\ Place(g[4]) /\ Head(g[2][1]).k \in {"do", "fail"}

\* It is X's turn at a goal, and Y waits, or is about to.
Reached(e, G, X, Y) ==
  /\ Clear(X) /\ Clear(Y)
  /\ \E s : Hears(e, Y[1], Pos(Y), <<>>, s) /\ Waits(s) /\ <<X[1], Pos(X), Y[1], s>> \in G

\* A speaker without words does nothing but go on.
LEMMA TellsNothing ==
  ASSUME NEW e, NEW x, NEW s, NEW t, Tells(e, x, s, <<>>, FALSE, t)
  PROVE  Hears(e, x, s, <<>>, t)
<1> DEFINE f(q) == St(q[1], q[2], q[3], q[4])
           g == Tell(t, <<>>, FALSE)
<1>1. PICK S : Tell(s, <<>>, FALSE) \in S /\ \A q \in S : q = g \/ \E r \in S : Advance(e, x, "tell", q, r)
  BY Zenon DEF Tells, Reaches
<1> DEFINE S1 == {q \in S : q[4] = <<>> /\ ~q[5]}
           T == {f(q) : q \in S1}
<1>2. Hear(s, <<>>) \in T
  <2>1. PICK q : q = Tell(s, <<>>, FALSE)
    BY Zenon
  <2>2. q[1] = s[1] /\ q[2] = s[2] /\ q[3] = s[3] /\ q[4] = <<>> /\ ~q[5]
    BY <2>1 DEF Tell
  <2>3. f(q) = Hear(s, <<>>) /\ q \in S1
    BY <1>1, <2>1, <2>2, Zenon DEF Hear
  <2>4. QED
    BY <2>3
<1>3. ASSUME NEW q \in S1, q # g PROVE \E r \in S1 : Advance(e, x, "hear", f(q), f(r))
  <2>1. PICK r \in S : Advance(e, x, "tell", q, r)
    BY <1>1, <1>3, Zenon
  <2>2. PICK k : k = Head(q[1]).k
    OBVIOUS
  <2>3. ~Writes1(q, r) /\ ~Flushes1(q, r)
    <3>1. ~Flushes1(q, r)
      BY <1>3, Zenon DEF Flushes1
    <3>2. SUFFICES ASSUME Writes1(q, r) PROVE FALSE
      BY <3>1
    <3>3. PICK u, z : z = Head(q[1]).x /\ <<>> = z \o u /\ IsSeq(u) /\ IsSeq(z) /\ z # <<>>
      BY <1>3, <3>2 DEF Writes1
    <3>4. QED
      BY <3>3, Join
  <2>4. /\ IsSeq(q[1]) /\ q[1] # <<>> /\ Enters(e, x, q[1], q[2], q[3], r[1])
        /\ r = <<r[1], q[2], q[3], q[4], FALSE>>
    BY <2>1, <2>3, Zenon DEF Advance
  <2>10. PICK u : u = r[1] /\ r = <<u, q[2], q[3], q[4], FALSE>>
    BY <2>4, Zenon
  <2>11. q[4] = <<>> /\ ~q[5]
    BY <1>3
  <2>12. r[2] = q[2] /\ r[3] = q[3] /\ r[4] = <<>> /\ r[5] = FALSE
    BY <2>10, <2>11
  <2>5. r \in S1
    BY <2>1, <2>12
  <2>6. PICK y, z : y = f(q) /\ z = f(r) /\ y[1] = q[1] /\ y[2] = q[2] /\ y[3] = q[3] /\ y[4] = <<>>
                    /\ z = St(r[1], q[2], q[3], <<>>) /\ z[1] = r[1]
    <3>1. PICK y, z : y = f(q) /\ z = f(r)
      OBVIOUS
    <3>2. y[1] = q[1] /\ y[2] = q[2] /\ y[3] = q[3] /\ y[4] = <<>>
      BY <2>11, <3>1 DEF St
    <3>3. z = St(r[1], q[2], q[3], <<>>) /\ z[1] = r[1]
      BY <2>12, <3>1 DEF St
    <3>4. QED
      BY <3>1, <3>2, <3>3
  <2>7. Enters1(e, x, y, z)
    BY <2>4, <2>6 DEF Enters1
  <2>8. Advance(e, x, "hear", y, z)
    BY <2>4, <2>6, <2>7, Nil DEF Advance
  <2>9. QED
    BY <2>5, <2>6, <2>8, Zenon
<1>4. f(g) = Hear(t, <<>>)
  <2>1. g[1] = t[1] /\ g[2] = t[2] /\ g[3] = t[3] /\ g[4] = <<>>
    BY DEF Tell
  <2>2. QED
    BY <2>1, Zenon DEF Hear
<1>5. ASSUME NEW z \in T PROVE z = Hear(t, <<>>) \/ \E r \in T : Advance(e, x, "hear", z, r)
  <2>1. PICK q \in S1 : z = f(q)
    BY <1>5
  <2>2. CASE q = g
    BY <1>4, <2>1, <2>2, Zenon
  <2>3. CASE q # g
    <3>1. PICK r \in S1 : Advance(e, x, "hear", f(q), f(r))
      BY <1>3, <2>3, Zenon
    <3>2. f(r) \in T
      BY <3>1
    <3>3. QED
      BY <2>1, <3>1, <3>2
  <2>4. QED
    BY <2>2, <2>3, Zenon
<1> HIDE DEF T
<1>6. QED
  BY <1>2, <1>5, Zenon DEF Hears, Reaches

\* What the words of a speaker, on the wire and in its buffer, are like.
Words(A) == IsSeq(A[5]) /\ IsSeq(A[6]) /\ Whole(A[5]) /\ Whole(A[6])
Buffered(A, d) == d \in BOOLEAN /\ (d <=> A[6] # <<>>)

\* X has something to hear, or something to tell, or waits.
Hearing(e, G, X, Y) ==
  /\ Clear(X) /\ Words(Y)
  /\ \E w, d, s, l, t :
       /\ IsSeq(w) /\ Buffered(Y, d) /\ Tells(e, Y[1], Pos(Y), w, d, s)
       /\ Advance(e, X[1], "hear", Hear(Pos(X), Y[5] \o Y[6] \o w), t)
       /\ Reaches(e, X[1], "hear", t, Hear(l, <<>>)) /\ Dialog(e, G, X[1], l, Y[1], s)

Telling(e, G, X, Y) ==
  /\ Clear(Y) /\ Words(X)
  /\ \E w, d, s, l, t :
       /\ IsSeq(w) /\ Buffered(X, d) /\ Advance(e, X[1], "tell", Tell(Pos(X), w, d), t)
       /\ Reaches(e, X[1], "tell", t, Tell(s, <<>>, FALSE))
       /\ Hears(e, Y[1], Pos(Y), X[5] \o X[6] \o w, l) /\ Dialog(e, G, Y[1], l, X[1], s)

Waiting(X, Y) == Waits(Pos(X)) /\ Clear(Y) /\ X[6] = <<>>

\* A speaker has something to tell, or it waits.
LEMMA TurnSpeaker ==
  ASSUME NEW e, NEW G, NEW X, NEW Y, Speaking(e, G, X, Y)
  PROVE  Telling(e, G, X, Y) \/ Waiting(X, Y)
<1>1. Clear(Y) /\ Words(X)
  BY DEF Speaking, Words
<1>2. PICK w, d, s, l : /\ IsSeq(w) /\ Buffered(X, d)
                        /\ Tells(e, X[1], Pos(X), w, d, s) /\ Hears(e, Y[1], Pos(Y), X[5] \o X[6] \o w, l)
                        /\ Dialog(e, G, Y[1], l, X[1], s)
  BY DEF Speaking, Buffered
<1>3. PICK q, g : q = Tell(Pos(X), w, d) /\ g = Tell(s, <<>>, FALSE)
  BY Zenon
<1>4. Reaches(e, X[1], "tell", q, g)
  BY <1>2, <1>3, Zenon DEF Tells
<1>5. CASE q # g
  <2>1. PICK t : Advance(e, X[1], "tell", q, t) /\ Reaches(e, X[1], "tell", t, g)
    BY <1>4, <1>5, ReachesFirst
  <2>2. QED
    BY <1>1, <1>2, <1>3, <2>1, Zenon DEF Telling
<1>6. CASE q = g
  <2>1. q[1] = Pos(X)[1] /\ q[5] = d /\ g[1] = s[1] /\ g[5] = FALSE
    BY <1>3 DEF Tell
  <2>2. Pos(X)[1] = s[1] /\ d = FALSE
    BY <1>6, <2>1
  <2>3. X[6] = <<>>
    BY <1>2, <2>2 DEF Buffered
  <2>4. Waits(s)
    BY <1>2, DialogFirst, Zenon
  <2>5. Waits(Pos(X))
    BY <2>2, <2>4 DEF Waits
  <2>6. QED
    BY <1>1, <2>3, <2>5 DEF Waiting
<1>7. QED
  BY <1>5, <1>6

\* A listener has something to hear, or it has reached a goal, or it speaks.
LEMMA TurnListener ==
  ASSUME NEW e, NEW G, Goals(G), NEW X, NEW Y, Speaking(e, G, Y, X)
  PROVE  Hearing(e, G, X, Y) \/ Reached(e, G, X, Y) \/ Speaking(e, G, X, Y)
<1>1. Clear(X) /\ Words(Y)
  BY DEF Speaking, Words
<1>2. PICK w, d, s, l : /\ IsSeq(w) /\ Buffered(Y, d)
                        /\ Tells(e, Y[1], Pos(Y), w, d, s) /\ Hears(e, X[1], Pos(X), Y[5] \o Y[6] \o w, l)
                        /\ Dialog(e, G, X[1], l, Y[1], s)
  BY DEF Speaking, Buffered
<1>3. PICK u, q, g : u = Y[5] \o Y[6] \o w /\ q = Hear(Pos(X), u) /\ g = Hear(l, <<>>)
  BY Zenon
<1>4. Reaches(e, X[1], "hear", q, g)
  BY <1>2, <1>3 DEF Hears
<1>5. CASE q # g
  <2>1. PICK t : Advance(e, X[1], "hear", q, t) /\ Reaches(e, X[1], "hear", t, g)
    BY <1>4, <1>5, ReachesFirst
  <2>2. QED
    BY <1>1, <1>2, <1>3, <2>1, Zenon DEF Hearing
<1>6. CASE q = g
  <2>1. /\ q[1] = X[2] /\ q[2] = X[3] /\ q[3] = X[4] /\ q[4] = u
        /\ g[1] = l[1] /\ g[2] = l[2] /\ g[3] = l[3] /\ g[4] = <<>>
    BY <1>3, Zenon DEF Hear, St, Pos
  <2>2. u = <<>> /\ l[1] = X[2] /\ l[2] = X[3] /\ l[3] = X[4]
    BY <1>6, <2>1
  <2>3. Y[5] = <<>> /\ Y[6] = <<>> /\ w = <<>>
    <3>1. IsSeq(Y[5]) /\ IsSeq(Y[6]) /\ IsSeq(w) /\ IsSeq(Y[5] \o Y[6])
      BY <1>1, <1>2, Join DEF Words
    <3>2. PICK y : y = Y[5] \o Y[6]
      BY Zenon
    <3>3. IsSeq(y) /\ IsSeq(w) /\ y \o w = <<>>
      BY <1>3, <2>2, <3>1, <3>2, Zenon
    <3>4. y = <<>> /\ w = <<>>
      BY <3>3, Join
    <3>5. IsSeq(Y[5]) /\ IsSeq(Y[6]) /\ Y[5] \o Y[6] = <<>>
      BY <3>1, <3>2, <3>4
    <3>6. Y[5] = <<>> /\ Y[6] = <<>>
      BY <3>5, Join
    <3>7. QED
      BY <3>4, <3>6
  <2>4. d = FALSE
    BY <1>2, <2>3 DEF Buffered
  <2>5. Tells(e, Y[1], Pos(Y), <<>>, FALSE, s)
    BY <1>2, <2>3, <2>4, Zenon
  <2>6. Hears(e, Y[1], Pos(Y), <<>>, s)
    BY <2>5, TellsNothing, Zenon
  <2>7. Clear(Y)
    BY <2>3 DEF Clear
  <2>8. Waits(s) /\ (<<X[1], l, Y[1], s>> \in G \/ Opens(e, G, X[1], l, Y[1], s))
    BY <1>2, DialogFirst
  <2>9. CASE <<X[1], l, Y[1], s>> \in G
    <3>1. PICK z : z = <<X[1], l, Y[1], s>>
      BY Zenon
    <3>6. z[2] = l /\ z \in G
      BY <2>9, <3>1
    <3>2. Place(l)
      BY <3>6 DEF Goals
    <3>3. l = Pos(X)
      BY <2>2, <3>2 DEF Place, Pos
    <3>4. <<X[1], Pos(X), Y[1], s>> \in G
      BY <2>9, <3>3
    <3>5. QED
      BY <1>1, <2>6, <2>7, <2>8, <3>4, Zenon DEF Reached
  <2>10. CASE Opens(e, G, X[1], l, Y[1], s)
    <3>1. PICK w2, t, k : /\ IsSeq(w2) /\ Tells(e, X[1], l, w2, FALSE, t) /\ Hears(e, Y[1], s, w2, k)
                          /\ Dialog(e, G, Y[1], k, X[1], t)
      BY <2>10, Zenon DEF Opens
    <3>2. Tells(e, X[1], Pos(X), w2, FALSE, t)
      <4>1. Tell(l, w2, FALSE) = Tell(Pos(X), w2, FALSE)
        BY <2>2 DEF Tell, Pos
      <4>2. QED
        BY <3>1, <4>1, Zenon DEF Tells
    <3>3. Hears(e, Y[1], Pos(Y), <<>> \o w2, k)
      BY <2>6, <3>1, Nil, HearsThen, Zenon
    <3>4. X[5] = <<>> /\ X[6] = <<>>
      BY <1>1 DEF Clear
    <3>5. X[5] \o X[6] \o w2 = <<>> \o w2
      BY <3>1, <3>4, Nil, Join
    <3>6. Hears(e, Y[1], Pos(Y), X[5] \o X[6] \o w2, k)
      BY <3>3, <3>5
    <3>7. Buffered(X, FALSE) /\ Words(X)
      BY <3>4, Nil DEF Buffered, Words, Whole
    <3>8. QED
      BY <2>7, <3>1, <3>2, <3>6, <3>7, Zenon DEF Speaking, Buffered, Words
  <2>11. QED
    BY <2>8, <2>9, <2>10
<1>7. QED
  BY <1>5, <1>6

\* Whose turn it is.
LEMMA Turn ==
  ASSUME NEW e, NEW G, Goals(G), NEW X, NEW Y, Talk(e, G, X, Y)
  PROVE  Hearing(e, G, X, Y) \/ Telling(e, G, X, Y) \/ Waiting(X, Y) \/ Reached(e, G, X, Y)
BY TurnSpeaker, TurnListener DEF Talk

\* The conversation after a step of a listener, and of a speaker.
LEMMA AfterHearing ==
  ASSUME NEW e, NEW G, NEW X, NEW Y, Clear(X), Words(Y), NEW w, NEW d, NEW s, NEW l, NEW t,
         IsSeq(w), Buffered(Y, d), Tells(e, Y[1], Pos(Y), w, d, s),
         Reaches(e, X[1], "hear", t, Hear(l, <<>>)), Dialog(e, G, X[1], l, Y[1], s),
         t = Hear(Pos(X), Y[5] \o Y[6] \o w)
  PROVE  Talk(e, G, X, Y)
<1>1. Hears(e, X[1], Pos(X), Y[5] \o Y[6] \o w, l)
  BY DEF Hears
<1>2. Speaking(e, G, Y, X)
  BY <1>1, Zenon DEF Speaking, Words, Buffered
<1>3. QED
  BY <1>2 DEF Talk

\* An end that speaks, and runs to the end of its turn, is in the conversation.
LEMMA AfterTelling ==
  ASSUME NEW e, NEW G, NEW X, NEW Y, Clear(Y), Words(X), NEW w, NEW d, NEW s, NEW l, NEW t,
         IsSeq(w), Buffered(X, d), Reaches(e, X[1], "tell", t, Tell(s, <<>>, FALSE)),
         Hears(e, Y[1], Pos(Y), X[5] \o X[6] \o w, l), Dialog(e, G, Y[1], l, X[1], s),
         t = Tell(Pos(X), w, d)
  PROVE  Talk(e, G, X, Y)
<1>1. Tells(e, X[1], Pos(X), w, d, s)
  BY Zenon DEF Tells
<1>2. Speaking(e, G, X, Y)
  BY <1>1, Zenon DEF Speaking, Words, Buffered
<1>3. QED
  BY <1>2 DEF Talk

\* Whose turn it is, by the instruction that X is at.
LEMMA TurnKinds ==
  ASSUME NEW e, NEW G, Goals(G), NEW X, NEW Y, Talk(e, G, X, Y), NEW k, k = Head(X[2]).k
  PROVE  /\ k \in {"loop", "forward"} => Hearing(e, G, X, Y)
         /\ k = "write" => Telling(e, G, X, Y)
         /\ k = "flush" => Hearing(e, G, X, Y) \/ Telling(e, G, X, Y)
         /\ k \in Reads => Hearing(e, G, X, Y) \/ Waiting(X, Y)
         /\ k = "do" => Hearing(e, G, X, Y) \/ Telling(e, G, X, Y) \/ Reached(e, G, X, Y)
         /\ k = "fail" => Reached(e, G, X, Y)
<1>1. Hearing(e, G, X, Y) \/ Telling(e, G, X, Y) \/ Waiting(X, Y) \/ Reached(e, G, X, Y)
  BY Turn
<1>2. Hearing(e, G, X, Y) => k \notin {"write", "fail"}
  <2>1. SUFFICES ASSUME Hearing(e, G, X, Y) PROVE k \notin {"write", "fail"}
    OBVIOUS
  <2>2. PICK w, t, q : q = Hear(Pos(X), Y[5] \o Y[6] \o w) /\ Advance(e, X[1], "hear", q, t)
    BY <2>1, Zenon DEF Hearing
  <2>3. q[1] = X[2]
    BY <2>2 DEF Hear, St, Pos
  <2>4. QED
    BY <2>2, <2>3, HearKinds
<1>3. Telling(e, G, X, Y) => k \in {"write", "flush", "do"}
  <2>1. SUFFICES ASSUME Telling(e, G, X, Y) PROVE k \in {"write", "flush", "do"}
    OBVIOUS
  <2>2. PICK w, d, t, q : q = Tell(Pos(X), w, d) /\ Advance(e, X[1], "tell", q, t)
    BY <2>1, Zenon DEF Telling
  <2>3. q[1] = X[2]
    BY <2>2 DEF Tell, Pos
  <2>4. QED
    BY <2>2, <2>3, TellKinds
<1>4. Waiting(X, Y) => k \in Reads
  BY DEF Waiting, Waits, Pos
<1>5. Reached(e, G, X, Y) => k \in {"do", "fail"}
  <2>1. SUFFICES ASSUME Reached(e, G, X, Y) PROVE k \in {"do", "fail"}
    OBVIOUS
  <2>2. PICK s, z : z = <<X[1], Pos(X), Y[1], s>> /\ z \in G
    BY <2>1, Zenon DEF Reached
  <2>3. z[2] = Pos(X) /\ Pos(X)[1] = X[2]
    BY <2>2 DEF Pos
  <2>4. QED
    BY <2>2, <2>3 DEF Goals
<1>6. {"loop", "forward", "write", "flush", "do", "fail"} \intersect Reads = {}
  BY DEF Reads
<1>7. QED
  BY <1>1, <1>2, <1>3, <1>4, <1>5, <1>6

\* A step of a listener that takes no word.
LEMMA HearTo ==
  ASSUME NEW e, NEW G, NEW X, NEW Y, Hearing(e, G, X, Y), NEW Z, Z[1] = X[1], Z[5] = X[5], Z[6] = X[6],
         \A u, t : Advance(e, X[1], "hear", Hear(Pos(X), u), t) => t = Hear(Pos(Z), u)
  PROVE  Talk(e, G, Z, Y)
<1>1. Clear(X) /\ Words(Y)
  BY DEF Hearing
<1>2. PICK w, d, s, l, t :
       /\ IsSeq(w) /\ Buffered(Y, d) /\ Tells(e, Y[1], Pos(Y), w, d, s)
       /\ Advance(e, X[1], "hear", Hear(Pos(X), Y[5] \o Y[6] \o w), t)
       /\ Reaches(e, X[1], "hear", t, Hear(l, <<>>)) /\ Dialog(e, G, X[1], l, Y[1], s)
  BY Zenon DEF Hearing
<1>3. t = Hear(Pos(Z), Y[5] \o Y[6] \o w)
  BY <1>2, Zenon
<1>4. Clear(Z)
  BY <1>1 DEF Clear
<1>5. Reaches(e, Z[1], "hear", t, Hear(l, <<>>)) /\ Dialog(e, G, Z[1], l, Y[1], s)
  BY <1>2
<1>6. QED
  BY <1>1, <1>2, <1>3, <1>4, <1>5, AfterHearing

\* The end with another position.
LEMMA AtParts ==
  ASSUME NEW X, NEW p, NEW a, NEW v, NEW Z, Z = At3(X, p, a, v)
  PROVE  /\ Z[1] = X[1] /\ Z[2] = p /\ Z[3] = a /\ Z[4] = v /\ Z[5] = X[5] /\ Z[6] = X[6]
         /\ Pos(Z) = <<p, a, v>>
BY DEF At3, Pos

\* A round of a loop.
LEMMA TalkLoop ==
  ASSUME NEW e, NEW G, Goals(G), NEW X, NEW Y, Talk(e, G, X, Y), NEW i, i = Head(X[2]), i.k = "loop"
  PROVE  Talk(e, G, At3(X, When(i.n > 0, i.x \o Loop(i.n - 1, i.x)) \o Tail(X[2]), X[3], X[4]), Y)
<1>1. Hearing(e, G, X, Y)
  BY TurnKinds
<1>2. PICK p, Z : p = When(i.n > 0, i.x \o Loop(i.n - 1, i.x)) \o Tail(X[2]) /\ Z = At3(X, p, X[3], X[4])
  BY Zenon
<1>7. Z = At3(X, p, X[3], X[4])
  BY <1>2
<1>3. Z[1] = X[1] /\ Z[5] = X[5] /\ Z[6] = X[6] /\ Pos(Z) = <<p, X[3], X[4]>>
  BY <1>7, AtParts
<1>4. ASSUME NEW u, NEW t, Advance(e, X[1], "hear", Hear(Pos(X), u), t) PROVE t = Hear(Pos(Z), u)
  <2>1. PICK q : q = Hear(Pos(X), u)
    OBVIOUS
  <2>2. q[1] = X[2] /\ q[2] = X[3] /\ q[3] = X[4] /\ q[4] = u
    BY <2>1 DEF Hear, St, Pos
  <2>3. Loops1(q, t)
    BY <1>4, <2>1, <2>2, HearKinds
  <2>4. t = St(p, X[3], X[4], u)
    BY <1>2, <2>2, <2>3, SMTT(30) DEF Loops1
  <2>5. QED
    BY <1>3, <2>4 DEF Hear
<1>5. Talk(e, G, Z, Y)
  BY <1>1, <1>3, <1>4, HearTo
<1>6. QED
  BY <1>2, <1>5, SMTT(30)

\* What the proxy may forward of the stream.
LEMMA TalkForward ==
  ASSUME NEW e, NEW G, Goals(G), NEW X, NEW Y, Talk(e, G, X, Y), NEW i, i = Head(X[2]), i.k = "forward"
  PROVE  /\ i.f \in Events
         /\ Talk(e, G, At3(X, Tail(X[2]), X[3], X[4]), Y)
<1>1. Hearing(e, G, X, Y)
  BY TurnKinds
<1>2. PICK p, Z : p = Tail(X[2]) /\ Z = At3(X, p, X[3], X[4])
  BY Zenon
<1>3. Z[1] = X[1] /\ Z[5] = X[5] /\ Z[6] = X[6] /\ Pos(Z) = <<p, X[3], X[4]>>
  BY <1>2, AtParts
<1>4. ASSUME NEW u, NEW t, Advance(e, X[1], "hear", Hear(Pos(X), u), t) PROVE t = Hear(Pos(Z), u) /\ i.f \in Events
  <2>1. PICK q : q = Hear(Pos(X), u)
    OBVIOUS
  <2>2. q[1] = X[2] /\ q[2] = X[3] /\ q[3] = X[4] /\ q[4] = u
    BY <2>1 DEF Hear, St, Pos
  <2>3. Forwards1(q, t)
    BY <1>4, <2>1, <2>2, HearKinds
  <2>4. t = St(p, X[3], X[4], u) /\ i.f \in Events
    BY <1>2, <2>2, <2>3 DEF Forwards1
  <2>5. QED
    BY <1>3, <2>4 DEF Hear
<1>5. Talk(e, G, Z, Y)
  BY <1>1, <1>3, <1>4, HearTo
<1>6. i.f \in Events
  <2>1. \E u, t : Advance(e, X[1], "hear", Hear(Pos(X), u), t)
    BY <1>1, Zenon DEF Hearing
  <2>2. QED
    BY <1>4, <2>1
<1>7. QED
  BY <1>2, <1>5, <1>6

\* The part of the program that follows, or a goal.
LEMMA TalkDo ==
  ASSUME NEW e, NEW G, Goals(G), NEW X, NEW Y, Talk(e, G, X, Y), Head(X[2]).k = "do"
  PROVE  \/ Reached(e, G, X, Y)
         \/ \E q : Enters(e, X[1], X[2], X[3], X[4], q) /\ Talk(e, G, At3(X, q, X[3], X[4]), Y)
<1>1. Hearing(e, G, X, Y) \/ Telling(e, G, X, Y) \/ Reached(e, G, X, Y)
  BY TurnKinds
<1>2. CASE Hearing(e, G, X, Y)
  <2>1. Clear(X) /\ Words(Y)
    BY <1>2 DEF Hearing
  <2>2. PICK w, d, s, l, t, u, z :
         /\ IsSeq(w) /\ Buffered(Y, d) /\ Tells(e, Y[1], Pos(Y), w, d, s)
         /\ u = Y[5] \o Y[6] \o w /\ z = Hear(Pos(X), u) /\ Advance(e, X[1], "hear", z, t)
         /\ Reaches(e, X[1], "hear", t, Hear(l, <<>>)) /\ Dialog(e, G, X[1], l, Y[1], s)
    BY <1>2, Zenon DEF Hearing
  <2>3. z[1] = X[2] /\ z[2] = X[3] /\ z[3] = X[4] /\ z[4] = u
    BY <2>2, Zenon DEF Hear, St, Pos
  <2>4. Enters1(e, X[1], z, t)
    BY <2>2, <2>3, HearKinds
  <2>5. PICK q, Z : q = t[1] /\ Z = At3(X, q, X[3], X[4])
    OBVIOUS
  <2>6. Enters(e, X[1], X[2], X[3], X[4], q) /\ t = St(q, X[3], X[4], u)
    BY <2>3, <2>4, <2>5 DEF Enters1
  <2>7. Z[1] = X[1] /\ Z[5] = X[5] /\ Z[6] = X[6] /\ Pos(Z) = <<q, X[3], X[4]>>
    BY <2>5, AtParts
  <2>8. t = Hear(Pos(Z), u)
    BY <2>6, <2>7 DEF Hear
  <2>9. Talk(e, G, Z, Y)
    <3>1. Clear(Z)
      BY <2>1, <2>7 DEF Clear
    <3>2. Reaches(e, Z[1], "hear", t, Hear(l, <<>>)) /\ Dialog(e, G, Z[1], l, Y[1], s)
      BY <2>2, <2>7
    <3>3. t = Hear(Pos(Z), Y[5] \o Y[6] \o w)
      BY <2>2, <2>8
    <3>4. IsSeq(w) /\ Buffered(Y, d) /\ Tells(e, Y[1], Pos(Y), w, d, s)
      BY <2>2
    <3>5. QED
      BY <2>1, <3>1, <3>2, <3>3, <3>4, AfterHearing, Zenon
  <2>10. QED
    BY <2>5, <2>6, <2>9
<1>3. CASE Telling(e, G, X, Y)
  <2>1. Clear(Y) /\ Words(X)
    BY <1>3 DEF Telling
  <2>2. PICK w, d, s, l, t, z :
       /\ IsSeq(w) /\ Buffered(X, d) /\ z = Tell(Pos(X), w, d) /\ Advance(e, X[1], "tell", z, t)
       /\ Reaches(e, X[1], "tell", t, Tell(s, <<>>, FALSE))
       /\ Hears(e, Y[1], Pos(Y), X[5] \o X[6] \o w, l) /\ Dialog(e, G, Y[1], l, X[1], s)
    BY <1>3, Zenon DEF Telling
  <2>3. z[1] = X[2] /\ z[2] = X[3] /\ z[3] = X[4] /\ z[4] = w /\ z[5] = d
    BY <2>2 DEF Tell, Pos
  <2>12. TellEnters(e, X[1], z, t)
    BY <2>2, <2>3, TellKinds
  <2>4. Enters(e, X[1], z[1], z[2], z[3], t[1]) /\ ~z[5] /\ t = <<t[1], z[2], z[3], z[4], FALSE>>
    BY <2>12, Zenon DEF TellEnters
  <2>5. PICK q, Z : q = t[1] /\ Z = At3(X, q, X[3], X[4])
    OBVIOUS
  <2>6. Enters(e, X[1], X[2], X[3], X[4], q) /\ t = <<q, X[3], X[4], w, FALSE>>
    BY <2>3, <2>4, <2>5, Zenon
  <2>7. Z[1] = X[1] /\ Z[5] = X[5] /\ Z[6] = X[6] /\ Pos(Z) = <<q, X[3], X[4]>>
    BY <2>5, AtParts
  <2>8. d = FALSE
    BY <2>2, <2>3, <2>4 DEF Buffered
  <2>9. t = Tell(Pos(Z), w, d)
    <3>1. Pos(Z)[1] = q /\ Pos(Z)[2] = X[3] /\ Pos(Z)[3] = X[4]
      BY <2>7
    <3>2. Tell(Pos(Z), w, d) = <<q, X[3], X[4], w, d>>
      BY <3>1, Zenon DEF Tell
    <3>3. QED
      BY <2>6, <2>8, <3>2, Zenon
  <2>10. Talk(e, G, Z, Y)
    <3>1. Words(Z) /\ Buffered(Z, d)
      BY <2>1, <2>2, <2>7 DEF Words, Buffered
    <3>2. Reaches(e, Z[1], "tell", t, Tell(s, <<>>, FALSE)) /\ Dialog(e, G, Y[1], l, Z[1], s)
      BY <2>2, <2>7, Zenon
    <3>3. Hears(e, Y[1], Pos(Y), Z[5] \o Z[6] \o w, l) /\ IsSeq(w)
      BY <2>2, <2>7
    <3>4. QED
      BY <2>1, <2>9, <3>1, <3>2, <3>3, AfterTelling, Zenon
  <2>11. QED
    BY <2>5, <2>6, <2>10
<1>4. QED
  BY <1>1, <1>2, <1>3

\* What a read of the unit u takes, the first n of the words o; r is left, with
\* the words b after o.
SameJoin(u, r, o, b) == u \o r = o \o b
TookUnit(u, r, o, b, n) ==
  /\ n = Len(u) /\ n \in {1, 2} /\ n <= Len(o) /\ \A k \in 1..n : o[k] = u[k]
  /\ IsSeq(SubSeq(o, n + 1, Len(o))) /\ Whole(SubSeq(o, n + 1, Len(o)))
  /\ r = SubSeq(o, n + 1, Len(o)) \o b

\* The words that a read takes are on the wire when one of them is.
LEMMA TakesUnit ==
  ASSUME NEW i, NEW u, Unit(i, u), NEW o, IsSeq(o), o # <<>>, Whole(o), NEW b, IsSeq(b), NEW r, IsSeq(r),
         SameJoin(u, r, o, b), NEW n, n = Takes(i, o)
  PROVE  TookUnit(u, r, o, b, n)
<1>0. u \o r = o \o b
  BY DEF SameJoin
<1>1. PICK m : m = Len(u)
  BY Zenon
<1>2. /\ IsSeq(u) /\ m \in {1, 2} /\ (m = 1 => (i.k = "str" => u[1].n = 0))
      /\ (m = 2 => u[1].n = 8 /\ i.k = "str")
  BY <1>1, UnitSeq, Zenon
<1>3. Len(o) \in Nat /\ Len(o) >= 1
  BY NonEmpty
<1>4. \A k \in 1..m : (u \o r)[k] = u[k]
  BY <1>1, <1>2, JoinPrefix
<1>5. (o \o b)[1] = o[1]
  <2>1. \A k \in 1..1 : (o \o b)[k] = o[k]
    BY <1>3, JoinPrefix
  <2>2. QED
    BY <2>1
<1>6. o[1] = u[1]
  <2>1. 1 \in 1..m
    BY <1>2
  <2>2. QED
    BY <1>0, <1>4, <1>5, <2>1
<1>7. m <= Len(o)
  <2>1. PICK j : j = Len(o)
    BY Zenon
  <2>2. m = 2 /\ j = 1 => o[j].n = 8
    BY <1>2, <1>6
  <2>3. o[j].n # 8
    BY <2>1 DEF Whole
  <2>4. j \in Nat /\ j >= 1
    BY <1>3, <2>1
  <2>5. m <= j
    BY <1>2, <2>2, <2>3, <2>4
  <2>6. QED
    BY <2>1, <2>5
<1>8. n = m
  <2>1. CASE i.k # "str"
    BY <1>2, <2>1 DEF Takes
  <2>2. CASE i.k = "str" /\ m = 1
    <3>1. o[1].n = 0
      BY <1>2, <1>6, <2>2
    <3>2. 0 <= maxReadBytesLength /\ 1 + (0 + 7) \div 8 = 1
      BY SMT DEF maxReadBytesLength
    <3>3. QED
      BY <2>2, <3>1, <3>2 DEF Takes
  <2>3. CASE i.k = "str" /\ m = 2
    <3>1. o[1].n = 8
      BY <1>2, <1>6, <2>3
    <3>2. 8 <= maxReadBytesLength /\ 1 + (8 + 7) \div 8 = 2
      BY SMT DEF maxReadBytesLength
    <3>3. QED
      BY <2>3, <3>1, <3>2 DEF Takes
  <2>4. QED
    BY <1>2, <2>1, <2>2, <2>3
<1>9. /\ \A k \in 1..m : (o \o b)[k] = o[k]
      /\ SubSeq(o \o b, m + 1, Len(o \o b)) = SubSeq(o, m + 1, Len(o)) \o b
      /\ IsSeq(SubSeq(o, m + 1, Len(o)))
  <2>1. m \in Nat
    BY <1>2
  <2>2. QED
    BY <1>7, <2>1, JoinPrefix, Zenon
<1>10. SubSeq(u \o r, m + 1, Len(u \o r)) = r
  <2>1. SubSeq(u \o r, m + 1, Len(u \o r)) = SubSeq(u, m + 1, Len(u)) \o r
    <3>1. m \in Nat /\ m <= Len(u)
      BY <1>1, <1>2
    <3>2. QED
      BY <1>2, <3>1, JoinPrefix, Zenon
  <2>2. SubSeq(u, m + 1, Len(u)) = <<>>
    <3>1. PICK T : u \in Seq(T)
      BY <1>2 DEF IsSeq
    <3>2. QED
      BY <1>1, <1>2, <3>1
  <2>3. <<>> \o r = r
    BY Nil, Join
  <2>4. QED
    BY <2>1, <2>2, <2>3, Zenon
<1>11. Whole(SubSeq(o, m + 1, Len(o)))
  <2>1. PICK T : o \in Seq(T)
    BY DEF IsSeq
  <2>2. PICK v : v = SubSeq(o, m + 1, Len(o))
    BY Zenon
  <2>3. PICK j : j = Len(o)
    BY Zenon
  <2>4. j \in Nat /\ m \in Nat /\ m <= j
    BY <1>2, <1>3, <1>7, <2>3
  <2>5. Len(v) = j - m
    BY <2>1, <2>2, <2>3, <2>4
  <2>6. \A k \in 1..(j - m) : v[k] = o[k + m]
    BY <2>1, <2>2, <2>3, <2>4
  <2>7. v # <<>> => j - m >= 1
    BY <2>1, <2>2, <2>3, <2>4, <2>5
  <2>8. v # <<>> => v[j - m] = o[j]
    <3>1. SUFFICES ASSUME v # <<>> PROVE v[j - m] = o[j]
      OBVIOUS
    <3>2. (j - m) \in 1..(j - m) /\ (j - m) + m = j
      BY <2>4, <2>7, <3>1
    <3>3. QED
      BY <2>6, <3>2
  <2>9. o[j].n # 8
    BY <2>3 DEF Whole
  <2>10. QED
    BY <2>2, <2>5, <2>8, <2>9, Zenon DEF Whole
<1>12. r = SubSeq(o, m + 1, Len(o)) \o b
  BY <1>0, <1>9, <1>10, Zenon
<1>13. \A k \in 1..m : o[k] = u[k]
  BY <1>0, <1>4, <1>9, Zenon
<1>14. QED
  BY <1>1, <1>2, <1>7, <1>8, <1>9, <1>11, <1>12, <1>13, Zenon DEF TookUnit

\* An end at the goal of a dialog whose instruction is the failure.
LEMMA TalkFail ==
  ASSUME NEW e, NEW G, Goals(G), NEW X, NEW Y, Talk(e, G, X, Y), Head(X[2]).k = "fail"
  PROVE  Reached(e, G, X, Y)
BY TurnKinds

\* The words of the other end, after n of them have been read.
Drop(Y, n) == <<Y[1], Y[2], Y[3], Y[4], SubSeq(Y[5], n + 1, Len(Y[5])), Y[6]>>

\* Reading n words changes nothing else of an end.
LEMMA DropParts ==
  ASSUME NEW Y, NEW n, NEW Z, Z = Drop(Y, n)
  PROVE  /\ Z[1] = Y[1] /\ Z[2] = Y[2] /\ Z[3] = Y[3] /\ Z[4] = Y[4]
         /\ Z[5] = SubSeq(Y[5], n + 1, Len(Y[5])) /\ Z[6] = Y[6] /\ Pos(Z) = Pos(Y)
BY Zenon DEF Drop, Pos

\* What X becomes by the read i of the words of which the first and the last
\* are y and z.
ReadTo(X, i, y, z) ==
  At3(X, Continue(i, y.n, MinorOf(X[4])) \o Tail(X[2]), Learn(X[3], i, z), IF i.k = "version" THEN Full ELSE X[4])

\* A read takes words of the field it is meant for; it is refused only by the
\* proxy at a path info that the store host does not have.
ReadWell(e, G, X, Y, i, o, n) ==
  /\ \A k \in 1..n : o[k].f = i.f
  /\ n \in 1..Len(o)
  /\ \/ /\ ~Refused(i, o[1].n) /\ Minds(X[1], i.f, o[n])
        /\ i.k = "version" => Negotiated(Own(e, X[1]), o[1].n) = Full
        /\ Talk(e, G, ReadTo(X, i, o[1], o[n]), Drop(Y, n))
     \/ /\ Refused(i, o[1].n) /\ X[1][1] = "toStore"
        /\ Talk(e, G, At3(X, Do("NextOutput"), X[3], X[4]), Drop(Y, n))
\* Three sequences, of which the first one is a part of what is read.
LEMMA JoinRest ==
  ASSUME NEW o, NEW b, NEW w, NEW c, IsSeq(o), IsSeq(b), IsSeq(w), Joined(b, w, c)
  PROVE  IsSeq(c) /\ o \o b \o w = o \o c
<1>1. IsSeq(b \o w)
  BY Join
<1>2. (o \o b) \o w = o \o (b \o w)
  <2>1. Assoc(o, b, w)
    BY JoinAssoc3
  <2>2. QED
    BY <2>1 DEF Assoc
<1>3. QED
  BY <1>1, <1>2 DEF Joined

\* A read takes what the other end wrote for it.
LEMMA HearingRead ==
  ASSUME NEW e, NEW G, NEW X, NEW Y, Hearing(e, G, X, Y), NEW i, i = Head(X[2]), i.k \in Reads,
         Y[5] # <<>>, NEW n, n = Takes(i, Y[5])
  PROVE  ReadWell(e, G, X, Y, i, Y[5], n)
<1>1. PICK w, d, s, l, t :
         /\ IsSeq(w) /\ Buffered(Y, d) /\ Tells(e, Y[1], Pos(Y), w, d, s)
         /\ Advance(e, X[1], "hear", Hear(Pos(X), Y[5] \o Y[6] \o w), t)
         /\ Reaches(e, X[1], "hear", t, Hear(l, <<>>)) /\ Dialog(e, G, X[1], l, Y[1], s)
  BY DEF Hearing
<1>2. Clear(X) /\ Words(Y)
  BY DEF Hearing
<1>3. PICK o, b : o = Y[5] /\ b = Y[6] /\ IsSeq(o) /\ IsSeq(b) /\ Whole(o) /\ Whole(b) /\ o # <<>>
  BY <1>2 DEF Words
<1>4. PICK z : z = Y[5] \o Y[6] \o w
  BY Zenon
<1>40. IsSeq(w) /\ IsSeq(o) /\ IsSeq(b)
  BY <1>1, <1>3
<1>41. z = o \o b \o w
  BY <1>3, <1>4
<1>42. PICK c : Joined(b, w, c)
  BY Zenon DEF Joined
<1>43. IsSeq(c) /\ o \o b \o w = o \o c
  BY <1>40, <1>42, JoinRest, SMTT(30)
<1>5. IsSeq(c) /\ z = o \o c
  BY <1>41, <1>43
<1>51. \A q : IsSeq(q) => q \o b \o w = q \o c
  BY <1>40, <1>42, JoinRest
<1>52. IsSeq(o) /\ o # <<>> /\ Whole(o)
  BY <1>3
<1>6. PICK h : h = Hear(Pos(X), z)
  OBVIOUS
<1>7. h[1] = X[2] /\ h[2] = X[3] /\ h[3] = X[4] /\ h[4] = z
  BY <1>6 DEF Hear, Pos, St
<1>8. Advance(e, X[1], "hear", h, t)
  BY <1>1, <1>4, <1>6
<1>9. Takes1(e, X[1], h, t) \/ Refuses1(X[1], h, t)
  BY <1>7, <1>8, HearKinds
<1>10. PICK rest : rest = SubSeq(o, n + 1, Len(o))
  BY Zenon
<1>11. PICK Z : Z = Drop(Y, n)
  OBVIOUS
<1>12. Z[1] = Y[1] /\ Pos(Z) = Pos(Y) /\ Z[5] = rest /\ Z[6] = b
  BY <1>3, <1>10, <1>11, DropParts
<1>13. ASSUME NEW T, T[1] = X[1], T[5] = X[5], T[6] = X[6], t = Hear(Pos(T), rest \o b \o w), IsSeq(rest), Whole(rest)
       PROVE  Talk(e, G, T, Z)
  <2>1. Clear(T) /\ Words(Z)
    BY <1>2, <1>3, <1>12, <1>13 DEF Clear, Words
  <2>2. Buffered(Z, d) /\ Tells(e, Z[1], Pos(Z), w, d, s)
    BY <1>1, <1>3, <1>12 DEF Buffered
  <2>3. t = Hear(Pos(T), Z[5] \o Z[6] \o w)
    BY <1>12, <1>13
  <2>4. Reaches(e, T[1], "hear", t, Hear(l, <<>>)) /\ Dialog(e, G, T[1], l, Z[1], s)
    BY <1>1, <1>12, <1>13
  <2>5. QED
    BY <1>1, <2>1, <2>2, <2>3, <2>4, AfterHearing, Zenon
<1>14. CASE Takes1(e, X[1], h, t)
  <2>1. PICK u, r :
          /\ Unit(i, u) /\ z = u \o r /\ IsSeq(r)
          /\ i.k = "version" => Negotiated(Own(e, X[1]), u[1].n) = Full
          /\ Minds(X[1], i.f, u[Len(u)])
          /\ t = St(Continue(i, u[1].n, MinorOf(X[4])) \o Tail(X[2]), Learn(X[3], i, u[Len(u)]),
                    IF i.k = "version" THEN Full ELSE X[4], r)
    BY <1>7, <1>14, Zenon DEF Takes1
  <2>2. u \o r = o \o c
    BY <1>5, <2>1
  <2>3. /\ n = Len(u) /\ n \in {1, 2} /\ n <= Len(o) /\ \A k \in 1..n : o[k] = u[k]
        /\ IsSeq(rest) /\ Whole(rest) /\ r = rest \o c
    <3>1. Unit(i, u) /\ IsSeq(r) /\ IsSeq(c) /\ n = Takes(i, o)
      BY <1>3, <1>5, <2>1
    <3>2. /\ n = Len(u) /\ n \in {1, 2} /\ n <= Len(o) /\ \A k \in 1..n : o[k] = u[k]
          /\ IsSeq(SubSeq(o, n + 1, Len(o))) /\ Whole(SubSeq(o, n + 1, Len(o)))
          /\ r = SubSeq(o, n + 1, Len(o)) \o c
      <4>1. SameJoin(u, r, o, c)
        BY <2>2 DEF SameJoin
      <4>2. TookUnit(u, r, o, c, n)
        BY <1>52, <3>1, <4>1, TakesUnit
      <4>3. QED
        BY <4>2, Zenon DEF TookUnit
    <3>3. QED
      BY <1>10, <3>2, Zenon
  <2>40. Unit(i, u) /\ n = Len(u)
    BY <2>1, <2>3
  <2>4. n \in 1..n /\ 1 \in 1..n
    BY <2>3
  <2>5. o[1] = u[1] /\ o[n] = u[Len(u)]
    BY <2>3, <2>4
  <2>6. Len(o) \in Nat
    BY <1>3, NonEmpty
  <2>7. n \in 1..Len(o)
    BY <2>3, <2>6
  <2>8. \A k \in 1..n : o[k].f = i.f
    <3>1. (n = 1 => u[1].f = i.f) /\ (n = 2 => u[1].f = i.f /\ u[2].f = i.f)
      BY <2>40, UnitSeq, ZenonT(60)
    <3>2. \A k \in 1..n : k = 1 \/ (k = 2 /\ n = 2)
      BY <2>3
    <3>3. QED
      BY <2>3, <3>1, <3>2
  <2>9. ~Refused(i, o[1].n)
    <3>1. CASE n = 1
      <4>1. ~Refused(i, u[1].n)
        BY <2>40, <3>1, UnitSeq, Zenon
      <4>2. QED
        BY <2>5, <4>1
    <3>2. CASE n = 2
      <4>1. o[1].n = 8 /\ i.k = "str"
        <5>1. u[1].n = 8 /\ i.k = "str"
          BY <2>40, <3>2, UnitSeq, Zenon
        <5>2. QED
          BY <2>5, <5>1
      <4>2. ~(8 > maxReadBytesLength)
        BY SMT DEF maxReadBytesLength
      <4>3. QED
        BY <4>1, <4>2 DEF Refused
    <3>3. QED
      BY <2>3, <3>1, <3>2
  <2>10. PICK T : T = ReadTo(X, i, o[1], o[n])
    OBVIOUS
  <2>11. /\ T[1] = X[1] /\ T[5] = X[5] /\ T[6] = X[6]
         /\ Pos(T) = <<Continue(i, o[1].n, MinorOf(X[4])) \o Tail(X[2]), Learn(X[3], i, o[n]),
                       IF i.k = "version" THEN Full ELSE X[4]>>
    <3>1. PICK p, a, v : /\ p = Continue(i, o[1].n, MinorOf(X[4])) \o Tail(X[2]) /\ a = Learn(X[3], i, o[n])
                         /\ v = IF i.k = "version" THEN Full ELSE X[4]
      BY Zenon
    <3>2. T = At3(X, p, a, v)
      BY <2>10, <3>1 DEF ReadTo
    <3>3. T[1] = X[1] /\ T[5] = X[5] /\ T[6] = X[6] /\ Pos(T) = <<p, a, v>>
      BY <3>2, AtParts
    <3>4. QED
      BY <3>1, <3>3
  <2>12. r = rest \o b \o w
    <3>1. IsSeq(rest) /\ r = rest \o c
      BY <2>3
    <3>2. QED
      BY <1>51, <3>1, Zenon
  <2>13. t = Hear(Pos(T), rest \o b \o w)
    <3>1. PICK p, a, v : /\ p = Continue(i, o[1].n, MinorOf(X[4])) \o Tail(X[2]) /\ a = Learn(X[3], i, o[n])
                         /\ v = IF i.k = "version" THEN Full ELSE X[4]
      BY Zenon
    <3>2. t = St(p, a, v, r)
      BY <2>1, <2>5, <3>1
    <3>3. Pos(T) = <<p, a, v>>
      BY <2>11, <3>1
    <3>4. Hear(<<p, a, v>>, r) = St(p, a, v, r)
      BY DEF Hear
    <3>5. QED
      BY <2>12, <3>2, <3>3, <3>4
  <2>14. Talk(e, G, T, Z)
    BY <1>13, <2>3, <2>11, <2>13, Zenon
  <2>15. Minds(X[1], i.f, o[n]) /\ (i.k = "version" => Negotiated(Own(e, X[1]), o[1].n) = Full)
    BY <2>1, <2>5
  <2>16. QED
    BY <1>3, <1>11, <2>7, <2>8, <2>9, <2>10, <2>14, <2>15 DEF ReadWell
<1>15. CASE Refuses1(X[1], h, t)
  <2>1. /\ X[1][1] = "toStore" /\ i.k = "nonzero" /\ z # <<>> /\ Head(z).f = i.f /\ Head(z).n = 0
        /\ t = St(Do("NextOutput"), X[3], X[4], Tail(z))
    BY <1>7, <1>15 DEF Refuses1
  <2>2. Head(z) = Head(o) /\ Tail(z) = Tail(o) \o c
    BY <1>5, <1>52, Join
  <2>3. n = 1
    BY <1>3, <2>1 DEF Takes
  <2>4. PICK U : o \in Seq(U)
    BY <1>3 DEF IsSeq
  <2>5. Len(o) \in Nat /\ Len(o) >= 1
    BY <1>3, NonEmpty
  <2>6. Head(o) = o[1] /\ Tail(o) = SubSeq(o, 2, Len(o)) /\ Tail(o) \in Seq(U)
    BY <1>3, <2>4
  <2>7. rest = Tail(o) /\ IsSeq(rest)
    <3>1. n + 1 = 2
      BY <2>3
    <3>2. rest = Tail(o)
      BY <1>10, <2>6, <3>1
    <3>3. QED
      BY <2>6, <3>2 DEF IsSeq
  <2>8. Whole(rest)
    <3>1. PICK j : j = Len(o)
      BY Zenon
    <3>2. j \in Nat /\ j >= 1
      BY <2>5, <3>1
    <3>3. Len(rest) = j - 1 /\ \A k \in 1..(j - 1) : rest[k] = o[k + 1]
      BY <1>3, <2>4, <2>7, <3>1
    <3>4. rest # <<>> => j - 1 >= 1
      BY <2>6, <2>7, <3>2, <3>3
    <3>5. rest # <<>> => rest[j - 1] = o[j]
      <4>1. SUFFICES ASSUME rest # <<>> PROVE rest[j - 1] = o[j]
        OBVIOUS
      <4>2. (j - 1) \in 1..(j - 1) /\ (j - 1) + 1 = j
        BY <3>2, <3>4, <4>1
      <4>3. QED
        BY <3>3, <4>2
    <3>6. o[j].n # 8
      BY <1>3, <3>1 DEF Whole
    <3>7. QED
      BY <3>3, <3>5, <3>6 DEF Whole
  <2>9. PICK T : T = At3(X, Do("NextOutput"), X[3], X[4])
    OBVIOUS
  <2>10. T[1] = X[1] /\ T[5] = X[5] /\ T[6] = X[6] /\ Pos(T) = <<Do("NextOutput"), X[3], X[4]>>
    BY <2>9, AtParts
  <2>11. Tail(z) = rest \o b \o w
    <3>1. Tail(z) = rest \o c
      BY <2>2, <2>7, Zenon
    <3>2. QED
      BY <1>51, <2>7, <3>1, Zenon
  <2>12. t = Hear(Pos(T), rest \o b \o w)
    BY <2>1, <2>10, <2>11, SMTT(30) DEF Hear, St
  <2>13. Talk(e, G, T, Z)
    BY <1>13, <2>7, <2>8, <2>10, <2>12
  <2>14. Refused(i, o[1].n)
    BY <2>1, <2>2, <2>6 DEF Refused
  <2>15. n \in 1..Len(o) /\ \A k \in 1..n : o[k].f = i.f
    <3>1. o[1].f = i.f
      BY <2>1, <2>2, <2>6
    <3>2. n \in 1..Len(o) /\ \A k \in 1..n : k = 1
      BY <2>3, <2>5
    <3>3. QED
      BY <3>1, <3>2
  <2>16. QED
    BY <1>3, <1>11, <2>1, <2>9, <2>13, <2>14, <2>15 DEF ReadWell
<1>16. QED
  BY <1>9, <1>14, <1>15

\* A read that finds words finds those it is meant for, and all of them.
LEMMA TalkRead ==
  ASSUME NEW e, NEW G, Goals(G), NEW X, NEW Y, Talk(e, G, X, Y), NEW i, i = Head(X[2]), i.k \in Reads,
         NEW n, n = Takes(i, Y[5])
  PROVE  /\ Complete(i, Y[5]) => ReadWell(e, G, X, Y, i, Y[5], n)
         /\ ~Complete(i, Y[5]) => Y[5] = <<>>
<1>1. Hearing(e, G, X, Y) \/ Waiting(X, Y)
  BY TurnKinds
<1>2. CASE Y[5] = <<>>
  BY <1>2 DEF Complete
<1>3. CASE Y[5] # <<>>
  <2>1. Hearing(e, G, X, Y)
    BY <1>1, <1>3 DEF Waiting, Clear
  <2>2. ReadWell(e, G, X, Y, i, Y[5], n)
    BY <1>3, <2>1, HearingRead
  <2>3. n \in 1..Len(Y[5])
    BY <2>2 DEF ReadWell
  <2>4. IsSeq(Y[5])
    BY <2>1 DEF Hearing, Words
  <2>5. Len(Y[5]) \in Nat
    BY <2>4, NonEmpty
  <2>6. n <= Len(Y[5])
    BY <2>3, <2>5
  <2>7. QED
    BY <1>3, <2>2, <2>6 DEF Complete
<1>4. QED
  BY <1>2, <1>3
\* Words that are written are told when they are in the buffer.
Told1(X, i) == <<X[1], Tail(X[2]), X[3], X[4], X[5], X[6] \o i.x>>
Sent1(X) == <<X[1], Tail(X[2]), X[3], X[4], X[5] \o X[6], <<>>>>

Moved(o, b, x, r, w) == (o \o (b \o x)) \o r = (o \o b) \o w

\* Words that move from the buffer to the wire stay in their order.
LEMMA JoinMoved ==
  ASSUME NEW o, NEW b, NEW x, NEW r, NEW w, IsSeq(o), IsSeq(b), IsSeq(x), IsSeq(r), Joined(x, r, w)
  PROVE  Moved(o, b, x, r, w)
<1>1. PICK j : j = o \o b
  BY Zenon
<1>2. IsSeq(j)
  BY <1>1, Join
<1>3. (o \o b) \o x = o \o (b \o x)
  <2>1. Assoc(o, b, x)
    BY JoinAssoc3
  <2>2. QED
    BY <2>1 DEF Assoc
<1>4. (j \o x) \o r = j \o (x \o r)
  <2>1. Assoc(j, x, r)
    BY <1>2, JoinAssoc3
  <2>2. QED
    BY <2>1 DEF Assoc
<1>5. (o \o (b \o x)) \o r = (j \o x) \o r
  BY <1>1, <1>3
<1>6. j \o (x \o r) = (o \o b) \o w
  BY <1>1 DEF Joined
<1>7. QED
  BY <1>4, <1>5, <1>6 DEF Moved

\* A conversation goes on when the end whose turn it is writes.
LEMMA TalkWrite ==
  ASSUME NEW e, NEW G, Goals(G), NEW X, NEW Y, Talk(e, G, X, Y), NEW i, i = Head(X[2]), i.k = "write"
  PROVE  Talk(e, G, Told1(X, i), Y)
<1>1. Telling(e, G, X, Y)
  BY TurnKinds
<1>2. PICK w, d, s, l, t :
       /\ IsSeq(w) /\ Buffered(X, d) /\ Advance(e, X[1], "tell", Tell(Pos(X), w, d), t)
       /\ Reaches(e, X[1], "tell", t, Tell(s, <<>>, FALSE))
       /\ Hears(e, Y[1], Pos(Y), X[5] \o X[6] \o w, l) /\ Dialog(e, G, Y[1], l, X[1], s)
  BY <1>1, Zenon DEF Telling
<1>3. Clear(Y) /\ IsSeq(X[5]) /\ IsSeq(X[6]) /\ Whole(X[5])
  BY <1>1 DEF Telling, Words
<1>4. PICK h : h = Tell(Pos(X), w, d)
  OBVIOUS
<1>5. h[1] = X[2] /\ h[2] = X[3] /\ h[3] = X[4] /\ h[4] = w
  BY <1>4 DEF Tell, Pos
<1>6. Advance(e, X[1], "tell", h, t)
  BY <1>2, <1>4
<1>7. Writes1(h, t)
  BY <1>5, <1>6, TellKinds
<1>8. PICK r : /\ w = i.x \o r /\ IsSeq(r) /\ IsSeq(i.x) /\ i.x # <<>> /\ Whole(i.x)
               /\ t = <<Tail(X[2]), X[3], X[4], r, TRUE>>
  BY <1>5, <1>7, Zenon DEF Writes1
<1>9. PICK o, b, x : o = X[5] /\ b = X[6] /\ x = i.x
  OBVIOUS
<1>10. IsSeq(o) /\ IsSeq(b) /\ IsSeq(x) /\ IsSeq(r) /\ Joined(x, r, w)
  BY <1>3, <1>8, <1>9 DEF Joined
<1>11. (o \o (b \o x)) \o r = (o \o b) \o w
  <2>1. Moved(o, b, x, r, w)
    BY <1>10, JoinMoved
  <2>2. QED
    BY <2>1 DEF Moved
<1>12. PICK Z : Z = Told1(X, i)
  OBVIOUS
<1>13. Z[1] = X[1] /\ Pos(Z) = <<Tail(X[2]), X[3], X[4]>> /\ Z[5] = o /\ Z[6] = b \o x
  BY <1>9, <1>12, Zenon DEF Told1, Pos
<1>14. Ends(x)
  BY <1>8, <1>9 DEF Ends
<1>15. Ends(b \o x)
  BY <1>10, <1>14, EndsRules
<1>16. Words(Z) /\ Buffered(Z, TRUE)
  BY <1>3, <1>9, <1>13, <1>15 DEF Words, Buffered, Ends
<1>17. t = Tell(Pos(Z), r, TRUE)
  BY <1>8, <1>13 DEF Tell
<1>18. Hears(e, Y[1], Pos(Y), Z[5] \o Z[6] \o r, l)
  BY <1>2, <1>9, <1>11, <1>13, Zenon
<1>19. QED
  BY <1>2, <1>3, <1>8, <1>12, <1>13, <1>16, <1>17, <1>18, AfterTelling, Zenon

\* A buffer that is flushed.  A listener flushes nothing, before it waits for
\* the next operation.
LEMMA TalkFlush ==
  ASSUME NEW e, NEW G, Goals(G), NEW X, NEW Y, Talk(e, G, X, Y), Head(X[2]).k = "flush"
  PROVE  /\ Talk(e, G, Sent1(X), Y)
         /\ \/ Clear(Y)
            \/ X[2] = Flush \o Do("ReadOp") /\ Tail(X[2]) = Do("ReadOp") /\ X[1][1] = "toClient" /\ Clear(X)
<1>1. PICK Z : Z = Sent1(X)
  OBVIOUS
<1>2. Z[1] = X[1] /\ Pos(Z) = <<Tail(X[2]), X[3], X[4]>> /\ Z[5] = X[5] \o X[6] /\ Z[6] = <<>>
  BY <1>1, Zenon DEF Sent1, Pos
<1>3. CASE Hearing(e, G, X, Y)
  <2>1. Clear(X)
    BY <1>3 DEF Hearing
  <2>2. Z[5] = <<>>
    <3>1. <<>> \o <<>> = <<>>
      BY Nil, Join
    <3>2. QED
      BY <1>2, <2>1, <3>1 DEF Clear
  <2>3. ASSUME NEW u, NEW t, Advance(e, X[1], "hear", Hear(Pos(X), u), t)
        PROVE  /\ t = Hear(Pos(Z), u) /\ X[1][1] = "toClient"
               /\ X[2] = Flush \o Do("ReadOp") /\ Tail(X[2]) = Do("ReadOp")
    <3>1. PICK h : h = Hear(Pos(X), u)
      OBVIOUS
    <3>2. h[1] = X[2] /\ h[2] = X[3] /\ h[3] = X[4] /\ h[4] = u
      BY <3>1 DEF Hear, Pos, St
    <3>3. Advance(e, X[1], "hear", h, t)
      BY <2>3, <3>1
    <3>4. Enters1(e, X[1], h, t)
      BY <3>2, <3>3, HearKinds
    <3>5. Enters(e, X[1], X[2], X[3], X[4], t[1]) /\ t = St(t[1], X[3], X[4], u)
      BY <3>2, <3>4 DEF Enters1
    <3>6. /\ X[2] = Flush \o Do("ReadOp") /\ t[1] = Do("ReadOp") /\ X[1][1] = "toClient"
          /\ Tail(X[2]) = Do("ReadOp")
      BY <3>5, EntersHead, SMTT(30)
    <3>7. t = Hear(Pos(Z), u)
      BY <1>2, <3>5, <3>6, SMTT(30) DEF Hear, St
    <3>8. QED
      BY <3>6, <3>7
  <2>4. Talk(e, G, Z, Y)
    <3>1. \A u, t : Advance(e, X[1], "hear", Hear(Pos(X), u), t) => t = Hear(Pos(Z), u)
      BY <2>3
    <3>2. Z[1] = X[1] /\ Z[5] = X[5] /\ Z[6] = X[6]
      BY <1>2, <2>1, <2>2 DEF Clear
    <3>3. QED
      BY <1>3, <3>1, <3>2, HearTo
  <2>5. \E u, t : Advance(e, X[1], "hear", Hear(Pos(X), u), t)
    BY <1>3 DEF Hearing
  <2>6. X[1][1] = "toClient" /\ X[2] = Flush \o Do("ReadOp") /\ Tail(X[2]) = Do("ReadOp")
    BY <2>3, <2>5
  <2>7. QED
    BY <1>1, <2>1, <2>4, <2>6
<1>4. CASE Telling(e, G, X, Y)
  <2>1. PICK w, d, s, l, t :
         /\ IsSeq(w) /\ Buffered(X, d) /\ Advance(e, X[1], "tell", Tell(Pos(X), w, d), t)
         /\ Reaches(e, X[1], "tell", t, Tell(s, <<>>, FALSE))
         /\ Hears(e, Y[1], Pos(Y), X[5] \o X[6] \o w, l) /\ Dialog(e, G, Y[1], l, X[1], s)
    BY <1>4, Zenon DEF Telling
  <2>2. Clear(Y) /\ IsSeq(X[5]) /\ IsSeq(X[6]) /\ Whole(X[5]) /\ Whole(X[6])
    BY <1>4 DEF Telling, Words
  <2>3. PICK h : h = Tell(Pos(X), w, d)
    OBVIOUS
  <2>4. h[1] = X[2] /\ h[2] = X[3] /\ h[3] = X[4] /\ h[4] = w
    BY <2>3 DEF Tell, Pos
  <2>5. Advance(e, X[1], "tell", h, t)
    BY <2>1, <2>3
  <2>6. Flushes1(h, t) \/ TellEnters(e, X[1], h, t)
    BY <2>4, <2>5, TellKinds
  <2>7. t = <<Tail(X[2]), X[3], X[4], w, FALSE>>
    <3>1. CASE Flushes1(h, t)
      BY <2>4, <3>1 DEF Flushes1
    <3>2. CASE TellEnters(e, X[1], h, t)
      <4>1. Enters(e, X[1], X[2], X[3], X[4], t[1]) /\ t = <<t[1], X[3], X[4], w, FALSE>>
        BY <2>4, <3>2, Zenon DEF TellEnters
      <4>2. t[1] = Do("ReadOp") /\ Tail(X[2]) = Do("ReadOp")
        BY <4>1, EntersHead
      <4>3. QED
        BY <4>1, <4>2, Zenon
    <3>3. QED
      BY <2>6, <3>1, <3>2, Zenon
  <2>8. t = Tell(Pos(Z), w, FALSE)
    BY <1>2, <2>7 DEF Tell
  <2>9. PICK o, b : o = X[5] /\ b = X[6]
    OBVIOUS
  <2>10. IsSeq(o) /\ IsSeq(b) /\ Whole(o) /\ Whole(b)
    BY <2>2, <2>9
  <2>11. PICK j : j = o \o b
    BY Zenon
  <2>12. IsSeq(j) /\ j \o <<>> = j
    <3>1. IsSeq(j)
      BY <2>10, <2>11, Join
    <3>2. QED
      BY <3>1, Nil, Join
  <2>13. Whole(j)
    <3>1. CASE b = <<>>
      <4>1. j = o
        BY <2>10, <2>11, <3>1, Join
      <4>2. QED
        BY <2>10, <4>1
    <3>2. CASE b # <<>>
      <4>1. Ends(b)
        BY <2>10, <3>2 DEF Ends
      <4>2. Ends(o \o b)
        BY <2>10, <4>1, EndsRules
      <4>3. QED
        BY <2>11, <4>2 DEF Ends
    <3>3. QED
      BY <3>1, <3>2
  <2>14. Z[5] = j /\ Z[6] = <<>>
    BY <1>2, <2>9, <2>11
  <2>15. Words(Z)
    <3>1. IsSeq(<<>>) /\ Whole(<<>>)
      BY Nil DEF Whole
    <3>2. QED
      BY <2>12, <2>13, <2>14, <3>1 DEF Words
  <2>16. Buffered(Z, FALSE)
    BY <2>14 DEF Buffered
  <2>17. Hears(e, Y[1], Pos(Y), Z[5] \o Z[6] \o w, l)
    <3>1. Z[5] \o Z[6] \o w = o \o b \o w
      BY <2>11, <2>12, <2>14
    <3>2. QED
      BY <2>1, <2>9, <3>1
  <2>18. Talk(e, G, Z, Y)
    <3>1. Reaches(e, Z[1], "tell", t, Tell(s, <<>>, FALSE)) /\ Dialog(e, G, Y[1], l, Z[1], s) /\ IsSeq(w) /\ Clear(Y)
      BY <1>2, <2>1, <2>2, Zenon
    <3>2. QED
      BY <2>8, <2>15, <2>16, <2>17, <3>1, AfterTelling, Zenon
  <2>19. QED
    BY <1>1, <2>2, <2>18
<1>5. QED
  BY <1>3, <1>4, TurnKinds

\* The proxy returns from an operation as from one that went well.
LEMMA TalkReturn ==
  ASSUME NEW e, NEW G, NEW X, NEW Y, Talk(e, G, X, Y), X[2] = Do("ReadOp"), X[1][1] = "toClient", X[6] = <<>>
  PROVE  Talk(e, G, At3(X, Do("Return"), X[3], X[4]), Y)
<1>1. PICK Z : Z = At3(X, Do("Return"), X[3], X[4])
  OBVIOUS
<1>2. Z[1] = X[1] /\ Pos(Z) = <<Do("Return"), X[3], X[4]>> /\ Z[5] = X[5] /\ Z[6] = X[6]
  BY <1>1, AtParts
<1>3. Enters(e, X[1], Do("Return"), X[3], X[4], Do("ReadOp"))
  BY DEF Enters
<1>4. IsSeq(Do("Return")) /\ Do("Return") # <<>>
  BY Parts
<1>5. Pos(X) = <<Do("ReadOp"), X[3], X[4]>>
  BY DEF Pos
<1>6. CASE Speaking(e, G, X, Y)
  <2>1. PICK w, d, s, l :
         /\ IsSeq(w) /\ d \in BOOLEAN /\ (d <=> X[6] # <<>>)
         /\ Tells(e, X[1], Pos(X), w, d, s) /\ Hears(e, Y[1], Pos(Y), X[5] \o X[6] \o w, l)
         /\ Dialog(e, G, Y[1], l, X[1], s)
    BY <1>6 DEF Speaking
  <2>2. d = FALSE
    BY <2>1
  <2>3. Tells(e, X[1], <<Do("ReadOp"), X[3], X[4]>>, w, FALSE, s)
    BY <1>5, <2>1, <2>2, Zenon
  <2>4. Tells(e, X[1], <<Do("Return"), X[3], X[4]>>, w, FALSE, s)
    BY <1>3, <1>4, <2>1, <2>3, EntersRun, Zenon
  <2>5. Tells(e, Z[1], Pos(Z), w, d, s)
    BY <1>2, <2>2, <2>4, Zenon
  <2>6. /\ Clear(Y) /\ IsSeq(Z[5]) /\ IsSeq(Z[6]) /\ Whole(Z[5]) /\ Whole(Z[6])
        /\ (d <=> Z[6] # <<>>) /\ Hears(e, Y[1], Pos(Y), Z[5] \o Z[6] \o w, l) /\ Dialog(e, G, Y[1], l, Z[1], s)
    BY <1>2, <1>6, <2>1 DEF Speaking
  <2>7. QED
    BY <1>1, <2>1, <2>5, <2>6 DEF Talk, Speaking
<1>7. CASE Speaking(e, G, Y, X)
  <2>1. PICK w, d, s, l :
         /\ IsSeq(w) /\ d \in BOOLEAN /\ (d <=> Y[6] # <<>>)
         /\ Tells(e, Y[1], Pos(Y), w, d, s) /\ Hears(e, X[1], Pos(X), Y[5] \o Y[6] \o w, l)
         /\ Dialog(e, G, X[1], l, Y[1], s)
    BY <1>7 DEF Speaking
  <2>2. /\ Clear(X) /\ IsSeq(Y[5]) /\ IsSeq(Y[6]) /\ Whole(Y[5]) /\ Whole(Y[6])
    BY <1>7 DEF Speaking
  <2>3. PICK z : z = Y[5] \o Y[6] \o w
    BY Zenon
  <2>4. IsSeq(z)
    <3>1. IsSeq(Y[5] \o Y[6])
      BY <2>2, Join
    <3>2. IsSeq(w)
      BY <2>1
    <3>3. QED
      BY <2>3, <3>1, <3>2, Join
  <2>5. Hears(e, X[1], <<Do("ReadOp"), X[3], X[4]>>, z, l)
    BY <1>5, <2>1, <2>3
  <2>6. Hears(e, X[1], <<Do("Return"), X[3], X[4]>>, z, l)
    BY <1>3, <1>4, <2>4, <2>5, HearsEnters
  <2>7. Hears(e, Z[1], Pos(Z), Y[5] \o Y[6] \o w, l) /\ Dialog(e, G, Z[1], l, Y[1], s) /\ Clear(Z)
    BY <1>2, <2>1, <2>2, <2>3, <2>6 DEF Clear
  <2>8. QED
    BY <1>1, <2>1, <2>2, <2>7 DEF Talk, Speaking
<1>8. QED
  BY <1>6, <1>7 DEF Talk
\* Y, with nothing said that it has not heard, waits at s or is about to.
Rests(e, Y, s) == Clear(Y) /\ Hears(e, Y[1], Pos(Y), <<>>, s) /\ Waits(s)

\* A step that takes no word.
LEMMA RestsTo ==
  ASSUME NEW e, NEW Y, NEW s, Rests(e, Y, s), Head(Y[2]).k \notin Reads,
         NEW Z, Z[1] = Y[1], Z[5] = Y[5], Z[6] = Y[6],
         \A t : Advance(e, Y[1], "hear", Hear(Pos(Y), <<>>), t) => t = Hear(Pos(Z), <<>>)
  PROVE  Rests(e, Z, s)
<1>1. Reaches(e, Y[1], "hear", Hear(Pos(Y), <<>>), Hear(s, <<>>))
  BY DEF Rests, Hears
<1>2. Hear(Pos(Y), <<>>) # Hear(s, <<>>)
  <2>1. SUFFICES ASSUME Hear(Pos(Y), <<>>) = Hear(s, <<>>) PROVE FALSE
    OBVIOUS
  <2>2. Y[2] = s[1]
    BY <2>1 DEF Hear, Pos, St
  <2>3. QED
    BY <2>2 DEF Rests, Waits
<1>3. PICK t : Advance(e, Y[1], "hear", Hear(Pos(Y), <<>>), t) /\ Reaches(e, Y[1], "hear", t, Hear(s, <<>>))
  BY <1>1, <1>2, ReachesFirst
<1>4. QED
  BY <1>3 DEF Rests, Hears, Clear

\* It has a first step.
LEMMA RestsFirst ==
  ASSUME NEW e, NEW Y, NEW s, Rests(e, Y, s), NEW k, k = Head(Y[2]).k, k \notin Reads
  PROVE  \E t : Advance(e, Y[1], "hear", Hear(Pos(Y), <<>>), t)
<1>1. Reaches(e, Y[1], "hear", Hear(Pos(Y), <<>>), Hear(s, <<>>))
  BY DEF Rests, Hears
<1>2. Hear(Pos(Y), <<>>) # Hear(s, <<>>)
  <2>1. SUFFICES ASSUME Hear(Pos(Y), <<>>) = Hear(s, <<>>) PROVE FALSE
    OBVIOUS
  <2>2. Y[2] = s[1]
    BY <2>1 DEF Hear, Pos, St
  <2>3. QED
    BY <2>2 DEF Rests, Waits
<1>3. QED
  BY <1>1, <1>2, ReachesFirst

\* What it may be at, and where it goes.
LEMMA RestsKinds ==
  ASSUME NEW e, NEW Y, NEW s, Rests(e, Y, s), Y[1][1] # "toClient", NEW i, i = Head(Y[2])
  PROVE  /\ i.k \notin {"write", "flush", "fail"}
         /\ i.k = "loop" => Rests(e, At3(Y, When(i.n > 0, i.x \o Loop(i.n - 1, i.x)) \o Tail(Y[2]), Y[3], Y[4]), s)
         /\ i.k = "forward" => Rests(e, At3(Y, Tail(Y[2]), Y[3], Y[4]), s)
         /\ i.k = "do" => \E q : /\ Enters(e, Y[1], Y[2], Y[3], Y[4], q)
                                 /\ Rests(e, At3(Y, q, Y[3], Y[4]), s)
<1>1. PICK h : h = Hear(Pos(Y), <<>>)
  OBVIOUS
<1>2. h[1] = Y[2] /\ h[2] = Y[3] /\ h[3] = Y[4] /\ h[4] = <<>>
  BY <1>1 DEF Hear, Pos, St
<1>3. CASE i.k = "loop"
  <2>1. PICK p : p = When(i.n > 0, i.x \o Loop(i.n - 1, i.x)) \o Tail(Y[2])
    BY Zenon
  <2>2. PICK Z : Z = At3(Y, p, Y[3], Y[4])
    OBVIOUS
  <2>3. Z[1] = Y[1] /\ Z[5] = Y[5] /\ Z[6] = Y[6] /\ Pos(Z) = <<p, Y[3], Y[4]>>
    BY <2>2, AtParts
  <2>4. ASSUME NEW t, Advance(e, Y[1], "hear", h, t) PROVE t = Hear(Pos(Z), <<>>)
    <3>1. Loops1(h, t)
      BY <1>2, <1>3, <2>4, HearKinds
    <3>2. t = St(p, Y[3], Y[4], <<>>)
      BY <1>2, <2>1, <3>1, SMTT(30) DEF Loops1
    <3>3. QED
      BY <2>3, <3>2 DEF Hear
  <2>5. i.k \notin Reads
    BY <1>3 DEF Reads
  <2>6. Rests(e, Z, s)
    BY <1>1, <2>3, <2>4, <2>5, RestsTo
  <2>7. QED
    BY <1>3, <2>1, <2>2, <2>6, SMTT(30)
<1>4. CASE i.k = "forward"
  <2>2. PICK Z : Z = At3(Y, Tail(Y[2]), Y[3], Y[4])
    OBVIOUS
  <2>3. Z[1] = Y[1] /\ Z[5] = Y[5] /\ Z[6] = Y[6] /\ Pos(Z) = <<Tail(Y[2]), Y[3], Y[4]>>
    BY <2>2, AtParts
  <2>4. ASSUME NEW t, Advance(e, Y[1], "hear", h, t) PROVE t = Hear(Pos(Z), <<>>)
    <3>1. Forwards1(h, t)
      BY <1>2, <1>4, <2>4, HearKinds
    <3>2. t = St(Tail(Y[2]), Y[3], Y[4], <<>>)
      BY <1>2, <3>1 DEF Forwards1
    <3>3. QED
      BY <2>3, <3>2 DEF Hear
  <2>5. i.k \notin Reads
    BY <1>4 DEF Reads
  <2>6. Rests(e, Z, s)
    BY <1>1, <2>3, <2>4, <2>5, RestsTo, Zenon
  <2>7. QED
    BY <1>4, <2>2, <2>6
<1>5. CASE i.k = "do"
  <2>1. i.k \notin Reads
    BY <1>5 DEF Reads
  <2>2. PICK t : Advance(e, Y[1], "hear", h, t) /\ Reaches(e, Y[1], "hear", t, Hear(s, <<>>))
    <3>1. Reaches(e, Y[1], "hear", h, Hear(s, <<>>))
      BY <1>1 DEF Rests, Hears
    <3>2. h # Hear(s, <<>>)
      <4>1. SUFFICES ASSUME h = Hear(s, <<>>) PROVE FALSE
        OBVIOUS
      <4>2. Y[2] = s[1]
        BY <1>1, <4>1 DEF Hear, Pos, St
      <4>3. QED
        BY <2>1, <4>2 DEF Rests, Waits
    <3>3. QED
      BY <3>1, <3>2, ReachesFirst
  <2>3. Enters1(e, Y[1], h, t)
    BY <1>2, <1>5, <2>2, HearKinds
  <2>4. PICK q : Enters(e, Y[1], Y[2], Y[3], Y[4], q) /\ t = St(q, Y[3], Y[4], <<>>)
    BY <1>2, <2>3 DEF Enters1
  <2>5. PICK Z : Z = At3(Y, q, Y[3], Y[4])
    OBVIOUS
  <2>6. Z[1] = Y[1] /\ Z[5] = Y[5] /\ Z[6] = Y[6] /\ Pos(Z) = <<q, Y[3], Y[4]>>
    BY <2>5, AtParts
  <2>7. t = Hear(Pos(Z), <<>>)
    BY <2>4, <2>6 DEF Hear
  <2>8. Rests(e, Z, s)
    BY <2>2, <2>6, <2>7 DEF Rests, Hears, Clear
  <2>9. QED
    BY <1>5, <2>4, <2>5, <2>8
<1>6. CASE i.k \in {"write", "flush", "fail"}
  <2>1. i.k \notin Reads
    BY <1>6 DEF Reads
  <2>2. PICK t : Advance(e, Y[1], "hear", h, t)
    BY <1>1, <2>1, RestsFirst
  <2>3. i.k = "flush" /\ Enters1(e, Y[1], h, t)
    BY <1>2, <1>6, <2>2, HearKinds
  <2>4. Enters(e, Y[1], Y[2], Y[3], Y[4], t[1])
    BY <1>2, <2>3 DEF Enters1
  <2>5. QED
    BY <2>3, <2>4, EntersHead
<1>7. CASE i.k \notin {"write", "flush", "fail", "loop", "forward", "do"}
  BY <1>7
<1>8. QED
  BY <1>3, <1>4, <1>5, <1>6, <1>7

\* The labels of a client say what it may learn; as long as it hears nothing
\* they are the same.
Clients == {"client", "reader", "done"}

\* A peer that waits does so under every name that it goes by.
LEMMA RestsAs ==
  ASSUME NEW e, NEW Y, NEW s, Rests(e, Y, s), Y[1][1] \in Clients, NEW y, y[1] \in Clients,
         NEW Z, Z[1] = y, Pos(Z) = Pos(Y), Z[5] = Y[5], Z[6] = Y[6]
  PROVE  Rests(e, Z, s)
<1>1. PICK h, g : h = Hear(Pos(Y), <<>>) /\ g = Hear(s, <<>>)
  OBVIOUS
<1>2. PICK S : h \in S /\ \A q \in S : q = g \/ \E r \in S : Advance(e, Y[1], "hear", q, r)
  BY <1>1 DEF Rests, Hears, Reaches
<1>3. PICK T : T = {q \in S : q[4] = <<>>}
  BY Zenon
<1>4. h \in T
  BY <1>1, <1>2, <1>3 DEF Hear, St
<1>5. ASSUME NEW q \in T, q # g PROVE \E r \in T : Advance(e, y, "hear", q, r)
  <2>1. q \in S /\ q[4] = <<>>
    BY <1>3
  <2>2. PICK r \in S : Advance(e, Y[1], "hear", q, r)
    BY <1>2, <1>5, <2>1
  <2>3. IsSeq(q[1]) /\ IsSeq(q[4]) /\ q[1] # <<>>
    BY <2>2 DEF Advance
  <2>4. ~Takes1(e, Y[1], q, r) /\ ~Refuses1(Y[1], q, r)
    <3>1. ~Refuses1(Y[1], q, r)
      BY <2>1 DEF Refuses1
    <3>2. SUFFICES ASSUME Takes1(e, Y[1], q, r) PROVE FALSE
      BY <3>1
    <3>3. PICK u, z : Unit(Head(q[1]), u) /\ q[4] = u \o z /\ IsSeq(z)
      BY <3>2, Zenon DEF Takes1
    <3>4. IsSeq(u) /\ u # <<>>
      BY <3>3, UnitSeq
    <3>5. u \o z # <<>>
      <4>1. IsSeq(u) /\ IsSeq(z) /\ u # <<>>
        BY <3>3, <3>4
      <4>2. QED
        BY <4>1, Join
    <3>6. QED
      BY <2>1, <3>3, <3>5
  <2>5. Loops1(q, r) \/ Forwards1(q, r) \/ Enters1(e, Y[1], q, r)
    BY <2>2, <2>4 DEF Advance
  <2>6. r[4] = <<>>
    <3>1. \E p : r = St(p, q[2], q[3], q[4])
      BY <2>5 DEF Loops1, Forwards1, Enters1
    <3>2. QED
      BY <2>1, <3>1 DEF St
  <2>7. r \in T
    BY <1>3, <2>6
  <2>8. ASSUME Enters1(e, Y[1], q, r) PROVE Enters1(e, y, q, r)
    <3>1. Enters(e, Y[1], q[1], q[2], q[3], r[1]) /\ r = St(r[1], q[2], q[3], q[4])
      BY <2>8 DEF Enters1
    <3>2. q[1] = Do("hello") /\ r[1] = ClientHello(e, MinorOf(q[3]))
      BY <3>1 DEF Enters, Clients
    <3>3. Enters(e, y, q[1], q[2], q[3], r[1])
      BY <3>2 DEF Enters, Clients
    <3>4. QED
      BY <3>1, <3>3 DEF Enters1
  <2>9. Advance(e, y, "hear", q, r)
    BY <2>3, <2>5, <2>8 DEF Advance
  <2>10. QED
    BY <2>7, <2>9
<1>6. Reaches(e, y, "hear", h, g)
  BY <1>4, <1>5 DEF Reaches
<1>7. QED
  BY <1>1, <1>6 DEF Rests, Hears, Clear

-----------------------------------------------------------------------------
(* How conversations begin *)

\* At the start.
LEMMA StartTalk ==
  ASSUME NEW e, NEW G, NEW X, NEW Y, Clear(X), Clear(Y), Opens(e, G, X[1], Pos(X), Y[1], Pos(Y))
  PROVE  Talk(e, G, X, Y)
<1>1. PICK w, t, k : IsSeq(w) /\ Tells(e, X[1], Pos(X), w, FALSE, t) /\ Hears(e, Y[1], Pos(Y), w, k)
                     /\ Dialog(e, G, Y[1], k, X[1], t)
  BY Zenon DEF Opens
<1>2. X[5] = <<>> /\ X[6] = <<>>
  BY DEF Clear
<1>3. X[5] \o X[6] \o w = w
  <2>1. <<>> \o <<>> = <<>> /\ <<>> \o w = w
    BY <1>1, Nil, Join
  <2>2. QED
    BY <1>2, <2>1
<1>4. IsSeq(X[5]) /\ IsSeq(X[6]) /\ Whole(X[5]) /\ Whole(X[6])
  BY <1>2, Nil DEF Whole
<1>5. Hears(e, Y[1], Pos(Y), X[5] \o X[6] \o w, k)
  BY <1>1, <1>3
<1>6. FALSE \in BOOLEAN /\ (FALSE <=> X[6] # <<>>)
  BY <1>2
<1>7. QED
  BY <1>1, <1>4, <1>5, <1>6, Zenon DEF Talk, Speaking

\* The other end waits, or is about to, and X begins to tell.
LEMMA Restart ==
  ASSUME NEW e, NEW G, Goals(G), NEW X, NEW Y, NEW l, Rests(e, Y, l), Clear(X),
         Head(X[2]).k \notin {"do", "fail"}, Dialog(e, G, X[1], Pos(X), Y[1], l)
  PROVE  Talk(e, G, X, Y)
<1>1. <<X[1], Pos(X), Y[1], l>> \notin G
  BY DEF Goals, Pos
<1>2. PICK w, t, k : IsSeq(w) /\ Tells(e, X[1], Pos(X), w, FALSE, t) /\ Hears(e, Y[1], l, w, k)
                     /\ Dialog(e, G, Y[1], k, X[1], t)
  BY <1>1, DialogFirst, Zenon DEF Opens
<1>3. Hears(e, Y[1], Pos(Y), <<>> \o w, k)
  BY <1>2, Nil, HearsThen, Zenon DEF Rests
<1>4. <<>> \o w = w
  BY <1>2, Nil, Join
<1>5. Opens(e, G, X[1], Pos(X), Y[1], Pos(Y))
  BY <1>2, <1>3, <1>4, Zenon DEF Opens
<1>6. QED
  BY <1>5, StartTalk DEF Rests

\* The same with words in the buffer.
LEMMA AnswerStart ==
  ASSUME NEW e, NEW G, NEW X, NEW Y, NEW l, Rests(e, Y, l), X[5] = <<>>, IsSeq(X[6]), Whole(X[6]),
         NEW d, Buffered(X, d), NEW t, NEW k, Answers(e, X[1], Pos(X), d, t, Y[1], l, X[6], k),
         Dialog(e, G, Y[1], k, X[1], t)
  PROVE  Talk(e, G, X, Y)
<1>1. PICK w : IsSeq(w) /\ Tells(e, X[1], Pos(X), w, d, t) /\ Hears(e, Y[1], l, X[6] \o w, k)
  BY DEF Answers
<1>2. PICK z : z = X[6] \o w
  BY Zenon
<1>3. IsSeq(z)
  BY <1>1, <1>2, Join
<1>4. Hears(e, Y[1], Pos(Y), <<>> \o z, k)
  BY <1>1, <1>2, <1>3, Nil, HearsThen, Zenon DEF Rests
<1>5. X[5] \o X[6] \o w = <<>> \o z
  <2>1. <<>> \o X[6] = X[6] /\ <<>> \o z = z
    BY <1>3, Nil, Join
  <2>2. QED
    BY <1>2, <2>1
<1>6. Hears(e, Y[1], Pos(Y), X[5] \o X[6] \o w, k)
  BY <1>4, <1>5, Zenon
<1>7. IsSeq(X[5]) /\ Whole(X[5]) /\ Clear(Y)
  BY Nil DEF Whole, Rests
<1>8. d \in BOOLEAN /\ (d <=> X[6] # <<>>)
  BY DEF Buffered
<1>9. QED
  BY <1>1, <1>6, <1>7, <1>8 DEF Talk, Speaking
-----------------------------------------------------------------------------
(* The steps of an end *)

\* X goes on as Z, and Y is W then; bad says whether a word was taken for
\* another field.
Misses(i, o) == \E k \in 1..Takes(i, o) : o[k].f # i.f

MovesRead(own, X, Y, Z, W, bad) ==
  LET i == Head(X[2])
      o == Y[5]
      n == Takes(i, o)
  IN /\ i.k \in Reads /\ Complete(i, o) /\ ~Refused(i, o[1].n)
     /\ Z = At3(X, Continue(i, o[1].n, MinorOf(X[4])) \o Tail(X[2]), Learn(X[3], i, o[n]),
                IF i.k = "version" THEN Negotiated(own, o[1].n) ELSE X[4])
     /\ W = Drop(Y, n) /\ (bad <=> Misses(i, o))

MovesBy(X, Z) ==
  LET i == Head(X[2])
  IN \/ i.k = "write" /\ Z = Told1(X, i)
     \/ i.k = "forward" /\ Z = At3(X, Tail(X[2]), X[3], X[4])
     \/ i.k = "flush" /\ Z = Sent1(X)
     \/ i.k = "loop" /\ Z = At3(X, When(i.n > 0, i.x \o Loop(i.n - 1, i.x)) \o Tail(X[2]), X[3], X[4])

Moves(own, X, Y, Z, W, bad) ==
  \/ MovesRead(own, X, Y, Z, W, bad)
  \/ MovesBy(X, Z) /\ W = Y /\ ~bad

\* X meets an error; cl says whether the connection is closed.
Breaks(X, Y, W, cl, bad) ==
  LET i == Head(X[2])
      o == Y[5]
  IN \/ i.k \in Reads /\ Complete(i, o) /\ Refused(i, o[1].n) /\ W = Drop(Y, Takes(i, o)) /\ (bad <=> Misses(i, o))
     \/ i.k \in Reads /\ ~Complete(i, o) /\ cl /\ W = Y /\ ~bad
     \/ i.k = "flush" /\ cl /\ W = Y /\ ~bad
     \/ i.k = "fail" /\ W = Y /\ ~bad

\* What an end learns by a step is what it may learn.
Minded(x, a, b) == b = a \/ \E i, w : b = Learn(a, i, w) /\ Minds(x, i.f, w)

\* The conversation goes on with every step, and no word is taken for another.
LEMMA MovesTalk ==
  ASSUME NEW e, NEW G, Goals(G), NEW X, NEW Y, Talk(e, G, X, Y), NEW Z, NEW W, NEW bad, NEW own, own = Own(e, X[1]),
         Moves(own, X, Y, Z, W, bad)
  PROVE  /\ Talk(e, G, Z, W) /\ ~bad /\ Z[4] \in {X[4], Full} /\ Minded(X[1], X[3], Z[3])
         /\ Head(X[2]).k = "forward" => Head(X[2]).f \in Events
<1>1. PICK i : i = Head(X[2])
  OBVIOUS
<1>2. CASE MovesRead(own, X, Y, Z, W, bad)
  <2>1. PICK o, n : o = Y[5] /\ n = Takes(i, o)
    OBVIOUS
  <2>2. PICK v : v = IF i.k = "version" THEN Negotiated(own, o[1].n) ELSE X[4]
    OBVIOUS
  <2>3. /\ i.k \in Reads /\ Complete(i, o) /\ ~Refused(i, o[1].n)
        /\ Z = At3(X, Continue(i, o[1].n, MinorOf(X[4])) \o Tail(X[2]), Learn(X[3], i, o[n]), v)
        /\ W = Drop(Y, n) /\ (bad <=> Misses(i, o))
    BY <1>1, <1>2, <2>1, <2>2 DEF MovesRead
  <2>4. ReadWell(e, G, X, Y, i, o, n)
    BY <1>1, <2>1, <2>3, TalkRead
  <2>5. /\ Minds(X[1], i.f, o[n]) /\ (i.k = "version" => Negotiated(Own(e, X[1]), o[1].n) = Full)
        /\ Talk(e, G, ReadTo(X, i, o[1], o[n]), W) /\ \A k \in 1..n : o[k].f = i.f
    BY <2>3, <2>4 DEF ReadWell
  <2>6. v = IF i.k = "version" THEN Full ELSE X[4]
    BY <2>2, <2>5
  <2>7. Z = ReadTo(X, i, o[1], o[n])
    BY <2>3, <2>6 DEF ReadTo
  <2>8. Z[3] = Learn(X[3], i, o[n]) /\ Z[4] = v
    BY <2>3, AtParts
  <2>9. ~bad
    BY <2>1, <2>3, <2>5 DEF Misses
  <2>10. i.k # "forward"
    BY <2>3 DEF Reads
  <2>11. Minded(X[1], X[3], Z[3])
    BY <2>5, <2>8 DEF Minded
  <2>12. Z[4] \in {X[4], Full}
    BY <2>6, <2>8
  <2>13. QED
    BY <1>1, <2>5, <2>7, <2>9, <2>10, <2>11, <2>12
<1>3. CASE MovesBy(X, Z) /\ W = Y /\ ~bad
  <2>1. CASE i.k = "write" /\ Z = Told1(X, i)
    <3>1. Talk(e, G, Z, W)
      BY <1>1, <1>3, <2>1, TalkWrite
    <3>2. Z[3] = X[3] /\ Z[4] = X[4]
      BY <2>1 DEF Told1
    <3>3. QED
      BY <1>1, <1>3, <2>1, <3>1, <3>2 DEF Minded
  <2>2. CASE i.k = "forward" /\ Z = At3(X, Tail(X[2]), X[3], X[4])
    <3>1. Talk(e, G, Z, W) /\ i.f \in Events
      BY <1>1, <1>3, <2>2, TalkForward
    <3>2. Z[3] = X[3] /\ Z[4] = X[4]
      BY <2>2 DEF At3
    <3>3. QED
      BY <1>1, <1>3, <2>2, <3>1, <3>2 DEF Minded
  <2>3. CASE i.k = "flush" /\ Z = Sent1(X)
    <3>1. Talk(e, G, Z, W)
      BY <1>1, <1>3, <2>3, TalkFlush
    <3>2. Z[3] = X[3] /\ Z[4] = X[4]
      BY <2>3 DEF Sent1
    <3>3. QED
      BY <1>1, <1>3, <2>3, <3>1, <3>2 DEF Minded
  <2>4. CASE /\ i.k = "loop"
             /\ Z = At3(X, When(i.n > 0, i.x \o Loop(i.n - 1, i.x)) \o Tail(X[2]), X[3], X[4])
    <3>1. Talk(e, G, Z, W)
      BY <1>1, <1>3, <2>4, TalkLoop
    <3>2. Z[3] = X[3] /\ Z[4] = X[4]
      BY <2>4 DEF At3
    <3>3. QED
      BY <1>1, <1>3, <2>4, <3>1, <3>2, SMTT(30) DEF Minded
  <2>5. QED
    BY <1>1, <1>3, <2>1, <2>2, <2>3, <2>4 DEF MovesBy
<1>4. QED
  BY <1>2, <1>3 DEF Moves

\* The errors that an end may meet: a path info that is not there, a closed
\* connection, and an error that it was told.
Refusal(e, G, X, W) == X[1][1] = "toStore" /\ Talk(e, G, At3(X, Do("NextOutput"), X[3], X[4]), W)
Unread(X, Y, W, cl) == Head(X[2]).k \in Reads /\ cl /\ W = Y /\ Y[5] = <<>>
Unflushed(e, G, X, Y, W, cl) ==
  /\ Head(X[2]).k = "flush" /\ cl /\ W = Y
  /\ \/ Clear(Y)
     \/ /\ X[2] = Flush \o Do("ReadOp") /\ X[1][1] = "toClient" /\ Clear(X)
        /\ Talk(e, G, At3(X, Do("ReadOp"), X[3], X[4]), Y)
Failed(e, G, X, Y, W) == Head(X[2]).k = "fail" /\ W = Y /\ Reached(e, G, X, Y)

\* A step that finds a closed connection, or an error, in a conversation.
LEMMA BreaksTalk ==
  ASSUME NEW e, NEW G, Goals(G), NEW X, NEW Y, Talk(e, G, X, Y), NEW W, NEW cl, NEW bad, Breaks(X, Y, W, cl, bad)
  PROVE  /\ ~bad
         /\ \/ Refusal(e, G, X, W) \/ Unread(X, Y, W, cl) \/ Unflushed(e, G, X, Y, W, cl)
            \/ Failed(e, G, X, Y, W)
<1>1. PICK i, o : i = Head(X[2]) /\ o = Y[5]
  OBVIOUS
<1>2. CASE i.k \in Reads /\ Complete(i, o) /\ Refused(i, o[1].n) /\ W = Drop(Y, Takes(i, o)) /\ (bad <=> Misses(i, o))
  <2>1. PICK n : n = Takes(i, o)
    OBVIOUS
  <2>2. ReadWell(e, G, X, Y, i, o, n)
    BY <1>1, <1>2, <2>1, TalkRead
  <2>3. X[1][1] = "toStore" /\ Talk(e, G, At3(X, Do("NextOutput"), X[3], X[4]), W) /\ \A k \in 1..n : o[k].f = i.f
    BY <1>2, <2>1, <2>2 DEF ReadWell
  <2>4. ~bad
    BY <1>2, <2>1, <2>3 DEF Misses
  <2>5. QED
    BY <2>3, <2>4 DEF Refusal
<1>3. CASE i.k \in Reads /\ ~Complete(i, o) /\ cl /\ W = Y /\ ~bad
  <2>1. Y[5] = <<>>
    BY <1>1, <1>3, TalkRead
  <2>2. QED
    BY <1>1, <1>3, <2>1, Zenon DEF Unread
<1>4. CASE i.k = "flush" /\ cl /\ W = Y /\ ~bad
  <2>1. CASE Clear(Y)
    BY <1>1, <1>4, <2>1, Zenon DEF Unflushed
  <2>2. CASE X[2] = Flush \o Do("ReadOp") /\ Tail(X[2]) = Do("ReadOp") /\ X[1][1] = "toClient" /\ Clear(X)
    <3>1. Talk(e, G, Sent1(X), Y)
      BY <1>1, <1>4, TalkFlush
    <3>2. Sent1(X) = At3(X, Do("ReadOp"), X[3], X[4])
      <4>1. X[5] \o X[6] = <<>> /\ X[5] = <<>> /\ X[6] = <<>>
        <5>1. <<>> \o <<>> = <<>>
          BY Nil, Join
        <5>2. QED
          BY <2>2, <5>1 DEF Clear
      <4>2. QED
        BY <2>2, <4>1 DEF Sent1, At3
    <3>3. QED
      BY <1>1, <1>4, <2>2, <3>1, <3>2, Zenon DEF Unflushed
  <2>3. QED
    BY <1>1, <1>4, <2>1, <2>2, TalkFlush, Zenon
<1>5. CASE i.k = "fail" /\ W = Y /\ ~bad
  BY <1>1, <1>5, TalkFail DEF Failed
<1>6. QED
  BY <1>1, <1>2, <1>3, <1>4, <1>5 DEF Breaks

\* An end that waits, or is about to.
LEMMA MovesRests ==
  ASSUME NEW e, NEW X, NEW s, Rests(e, X, s), X[1][1] # "toClient", NEW Y, Y[5] = <<>>,
         NEW Z, NEW W, NEW bad, NEW own, Moves(own, X, Y, Z, W, bad)
  PROVE  Rests(e, Z, s) /\ W = Y /\ ~bad /\ Z[3] = X[3] /\ Z[4] = X[4]
<1>1. ~MovesRead(own, X, Y, Z, W, bad)
  BY DEF MovesRead, Complete
<1>2. MovesBy(X, Z) /\ W = Y /\ ~bad
  BY <1>1 DEF Moves
<1>3. PICK i : i = Head(X[2])
  OBVIOUS
<1>4. i.k \notin {"write", "flush", "fail"}
  BY <1>3, RestsKinds
<1>5. CASE i.k = "forward" /\ Z = At3(X, Tail(X[2]), X[3], X[4])
  <2>1. Rests(e, Z, s)
    BY <1>3, <1>5, RestsKinds
  <2>2. Z[3] = X[3] /\ Z[4] = X[4]
    BY <1>5 DEF At3
  <2>3. QED
    BY <1>2, <2>1, <2>2
<1>6. CASE /\ i.k = "loop"
           /\ Z = At3(X, When(i.n > 0, i.x \o Loop(i.n - 1, i.x)) \o Tail(X[2]), X[3], X[4])
  <2>1. Rests(e, Z, s)
    BY <1>3, <1>6, RestsKinds
  <2>2. Z[3] = X[3] /\ Z[4] = X[4]
    BY <1>6 DEF At3
  <2>3. QED
    BY <1>2, <2>1, <2>2
<1>7. QED
  BY <1>2, <1>3, <1>4, <1>5, <1>6 DEF MovesBy

\* The same of a peer that waits.
LEMMA BreaksRests ==
  ASSUME NEW e, NEW X, NEW s, Rests(e, X, s), X[1][1] # "toClient", NEW Y, Y[5] = <<>>,
         NEW W, NEW cl, NEW bad, Breaks(X, Y, W, cl, bad)
  PROVE  W = Y /\ ~bad /\ cl
<1>1. PICK i : i = Head(X[2])
  OBVIOUS
<1>2. i.k \notin {"write", "flush", "fail"}
  BY <1>1, RestsKinds
<1>3. QED
  BY <1>1, <1>2 DEF Breaks, Complete
-----------------------------------------------------------------------------
(* The steps of the parties *)

\* The functions of the state have their domains.
Shape ==
  /\ DOMAIN todo = Party /\ DOMAIN mem = Party
  /\ DOMAIN version = Link /\ DOMAIN buf = Link /\ DOMAIN wire = Link
  /\ phase \in DOMAIN At /\ cancelled \in BOOLEAN

\* The end of the party p, and the other end of its connection.
Sink == <<"proxy", "client">>
MyEnd(p, x) == <<x, todo[p], mem[p], version[Out(p)], wire[Out(p)], buf[Out(p)]>>
YourEnd(p, y, r, b) == <<y, r, b, version[In(p)], wire[In(p)], buf[In(p)]>>

\* Where the connections are.
LEMMA Links ==
  ASSUME Shape, NEW p \in Party
  PROVE  /\ Out(p) \in Link /\ In(p) \in Link /\ Out(p) # In(p) /\ ConnOf(p) \in Conn
         /\ p # "proxy" => Out(p) = <<p, "proxy">> /\ In(p) = <<"proxy", p>> /\ ConnOf(p) = p
         /\ p = "proxy" => Out(p) = <<"proxy", At[phase]>> /\ In(p) = <<At[phase], "proxy">>
                           /\ ConnOf(p) = At[phase]
         /\ p = "proxy" /\ phase = "build" => Out(p) # Sink /\ In(p) # Sink
         /\ Sink \in Link
<1>1. At[phase] \in Conn /\ (phase = "build" => At[phase] = "builder")
  BY DEF Shape, At, Conn
<1>2. CASE p = "proxy"
  BY <1>1, <1>2 DEF Out, In, ConnOf, Link, Conn, Sink
<1>3. CASE p # "proxy"
  BY <1>1, <1>3 DEF Out, In, ConnOf, Link, Conn, Sink, Party
<1>4. QED
  BY <1>2, <1>3

\* A step of p leaves the other parties and connections alone; the proxy tells
\* the client what the builder says.
SinkGets(p) ==
  p = "proxy" /\ Now(p).k = "forward" /\ phase = "build" /\ env.caller = "client"
\* A read from the client that fails.
CutsOff(p) ==
  /\ p = "proxy" /\ At[phase] = "client" /\ "client" \in closed
  /\ Now(p).k \in Reads /\ ~Complete(Now(p), wire[In(p)])
Frame(p) ==
  /\ \A q \in Party : q # p => todo'[q] = todo[q] /\ mem'[q] = mem[q]
  /\ \A l \in Link : l \notin {Out(p), In(p)} =>
       /\ version'[l] = version[l] /\ wire'[l] = wire[l]
       /\ buf'[l] = IF l = Sink /\ SinkGets(p) THEN buf[l] \o WriteStderr(Now(p).f, mem[p].fields) ELSE buf[l]
  /\ UNCHANGED <<env, closed, hung, phase, toSign, held, registered, answer>>
  /\ cancelled' \in BOOLEAN /\ (cancelled' # cancelled => CutsOff(p))
  /\ Shape'

\* How p goes on, or where an error leads it.
Lands(p) == Do(IF p = "proxy" THEN OnError[phase] ELSE "leave")
StepsTo(p, x, y, r, b, Z, W, bad) ==
  \/ Moves(OwnVersion(p), MyEnd(p, x), YourEnd(p, y, r, b), Z, W, bad)
  \/ /\ Breaks(MyEnd(p, x), YourEnd(p, y, r, b), W, ConnOf(p) \in closed, bad)
     /\ Z = At3(MyEnd(p, x), Lands(p), mem[p], version[Out(p)])
Misread(p, bad) == misread' = IF bad THEN misread \union {ConnOf(p)} ELSE misread

\* The end of p after a step.
After(p, x) == <<x, todo'[p], mem'[p], version'[Out(p)], wire'[Out(p)], buf'[Out(p)]>>
YourAfter(p, y, r, b) == <<y, r, b, version'[In(p)], wire'[In(p)], buf'[In(p)]>>

\* A read by either end is one of the moves of a conversation.
LEMMA ReadSteps ==
  ASSUME Shape, NEW p \in Party, Read(p)
  PROVE  /\ Frame(p)
         /\ \E bad \in BOOLEAN :
              /\ Misread(p, bad)
              /\ \A x, y, r, b : StepsTo(p, x, y, r, b, After(p, x), YourAfter(p, y, r, b), bad)
<1>1. PICK o, n, i, w, m : o = Out(p) /\ n = In(p) /\ i = Now(p) /\ w = wire[n] /\ m = Takes(i, w)
  OBVIOUS
<1>2. o \in Link /\ n \in Link /\ o # n
  BY <1>1, Links
<1>3. i.k \in Reads /\ Complete(i, w)
  BY <1>1 DEF Read
<1>4. wire' = [wire EXCEPT ![n] = SubSeq(w, m + 1, Len(w))]
  BY <1>1 DEF Read
<1>5. misread' = IF \A k \in 1..m : w[k].f = i.f THEN misread ELSE misread \union {ConnOf(p)}
  BY <1>1 DEF Read
<1>6. UNCHANGED <<buf, env, cancelled, closed, hung, phase, toSign, held, registered, answer>>
  BY DEF Read, others
<1>7. wire'[n] = SubSeq(w, m + 1, Len(w)) /\ wire'[o] = wire[o] /\ DOMAIN wire' = Link
      /\ \A l \in Link : l # n => wire'[l] = wire[l]
  BY <1>2, <1>4, Zenon DEF Shape
<1>8. PICK bad \in BOOLEAN : bad <=> Misses(i, w)
  BY Zenon
<1>9. Misread(p, bad)
  BY <1>1, <1>5, <1>8 DEF Misread, Misses
<1>10. ~SinkGets(p)
  BY <1>1, <1>3 DEF SinkGets, Reads
<1>11. CASE Refused(i, w[1].n)
  <2>1. todo' = [todo EXCEPT ![p] = Lands(p)] /\ UNCHANGED <<mem, version>>
    BY <1>1, <1>11 DEF Read, Fail, Lands
  <2>2. todo'[p] = Lands(p) /\ DOMAIN todo' = Party /\ \A q \in Party : q # p => todo'[q] = todo[q]
    BY <2>1 DEF Shape
  <2>3. Frame(p)
    BY <1>1, <1>6, <1>7, <1>10, <2>1, <2>2 DEF Frame, Shape
  <2>4. ASSUME NEW x, NEW y, NEW r, NEW b
        PROVE  StepsTo(p, x, y, r, b, After(p, x), YourAfter(p, y, r, b), bad)
    <3>1. PICK X, Y, Z, W : X = MyEnd(p, x) /\ Y = YourEnd(p, y, r, b) /\ Z = After(p, x) /\ W = YourAfter(p, y, r, b)
      OBVIOUS
    <3>2. Head(X[2]) = i /\ Y[5] = w
      BY <1>1, <3>1 DEF MyEnd, YourEnd, Now
    <3>3. W = Drop(Y, m)
      BY <1>1, <1>6, <1>7, <2>1, <3>1 DEF YourAfter, YourEnd, Drop
    <3>4. Z = At3(X, Lands(p), mem[p], version[o])
      BY <1>1, <1>6, <1>7, <2>1, <2>2, <3>1 DEF After, MyEnd, At3
    <3>5. Breaks(X, Y, W, ConnOf(p) \in closed, bad)
      BY <1>1, <1>3, <1>8, <1>11, <3>2, <3>3 DEF Breaks
    <3>6. QED
      BY <1>1, <3>1, <3>4, <3>5 DEF StepsTo
  <2>5. QED
    BY <1>9, <2>3, <2>4
<1>12. CASE ~Refused(i, w[1].n)
  <2>1. PICK q, a, v : /\ q = Continue(i, w[1].n, MinorOf(version[o])) \o Tail(todo[p]) /\ a = Learn(mem[p], i, w[m])
                       /\ v = IF i.k = "version" THEN Negotiated(OwnVersion(p), w[1].n) ELSE version[o]
    BY Zenon
  <2>2. todo' = [todo EXCEPT ![p] = q] /\ mem' = [mem EXCEPT ![p] = a]
    BY <1>1, <1>12, <2>1, Zenon DEF Read, M
  <2>3. version' = IF i.k = "version" THEN [version EXCEPT ![o] = Negotiated(OwnVersion(p), w[1].n)] ELSE version
    BY <1>1, <1>12, Zenon DEF Read
  <2>4. version'[o] = v /\ version'[n] = version[n] /\ DOMAIN version' = Link
        /\ \A l \in Link : l # o => version'[l] = version[l]
    BY <1>2, <2>1, <2>3 DEF Shape
  <2>5. /\ todo'[p] = q /\ DOMAIN todo' = Party /\ \A j \in Party : j # p => todo'[j] = todo[j]
        /\ mem'[p] = a /\ DOMAIN mem' = Party /\ \A j \in Party : j # p => mem'[j] = mem[j]
    BY <2>2 DEF Shape
  <2>6. Frame(p)
    BY <1>1, <1>6, <1>7, <1>10, <2>4, <2>5 DEF Frame, Shape
  <2>7. ASSUME NEW x, NEW y, NEW r, NEW b
        PROVE  StepsTo(p, x, y, r, b, After(p, x), YourAfter(p, y, r, b), bad)
    <3>1. PICK X, Y, Z, W : X = MyEnd(p, x) /\ Y = YourEnd(p, y, r, b) /\ Z = After(p, x) /\ W = YourAfter(p, y, r, b)
      OBVIOUS
    <3>2. Head(X[2]) = i /\ Y[5] = w /\ X[2] = todo[p] /\ X[3] = mem[p] /\ X[4] = version[o]
      BY <1>1, <3>1 DEF MyEnd, YourEnd, Now
    <3>3. W = Drop(Y, m)
      BY <1>1, <1>6, <1>7, <2>4, <3>1 DEF YourAfter, YourEnd, Drop
    <3>4. Z = At3(X, q, a, v)
      BY <1>1, <1>6, <1>7, <2>4, <2>5, <3>1 DEF After, MyEnd, At3
    <3>5. MovesRead(OwnVersion(p), X, Y, Z, W, bad)
      BY <1>1, <1>3, <1>8, <1>12, <2>1, <3>2, <3>3, <3>4 DEF MovesRead
    <3>6. QED
      BY <3>1, <3>5 DEF StepsTo, Moves
  <2>8. QED
    BY <1>9, <2>6, <2>7
<1>13. QED
  BY <1>11, <1>12
\* The same for the other steps; no word is read in them.
Quietly(p) ==
  /\ Frame(p) /\ misread' = misread
  /\ \A x, y, r, b : StepsTo(p, x, y, r, b, After(p, x), YourAfter(p, y, r, b), FALSE)

\* An error that changes nothing but the program.
LEMMA FailSteps ==
  ASSUME Shape, NEW p \in Party, Fail(p), UNCHANGED <<mem, version, buf, wire, misread>>,
         UNCHANGED <<env, closed, hung, phase, toSign, held, registered, answer>>,
         cancelled' \in BOOLEAN, cancelled' # cancelled => CutsOff(p),
         ~SinkGets(p),
         \A x, y, r, b : Breaks(MyEnd(p, x), YourEnd(p, y, r, b), YourEnd(p, y, r, b), ConnOf(p) \in closed, FALSE)
  PROVE  Quietly(p)
<1>1. PICK o, n : o = Out(p) /\ n = In(p)
  OBVIOUS
<1>2. todo' = [todo EXCEPT ![p] = Lands(p)]
  BY DEF Fail, Lands
<1>3. todo'[p] = Lands(p) /\ DOMAIN todo' = Party /\ \A q \in Party : q # p => todo'[q] = todo[q]
  BY <1>2 DEF Shape
<1>4. Frame(p)
  BY <1>3 DEF Frame, Shape
<1>5. ASSUME NEW x, NEW y, NEW r, NEW b
      PROVE  StepsTo(p, x, y, r, b, After(p, x), YourAfter(p, y, r, b), FALSE)
  <2>1. YourAfter(p, y, r, b) = YourEnd(p, y, r, b)
    BY DEF YourAfter, YourEnd
  <2>2. After(p, x) = At3(MyEnd(p, x), Lands(p), mem[p], version[Out(p)])
    BY <1>3 DEF After, MyEnd, At3
  <2>3. QED
    BY <2>1, <2>2, Zenon DEF StepsTo
<1>6. QED
  BY <1>4, <1>5, Zenon DEF Quietly

\* A read that fails finds its connection closed.
LEMMA ReadFailSteps ==
  ASSUME Shape, NEW p \in Party, ReadFails(p)
  PROVE  Quietly(p)
<1>1. PICK i, w : i = Now(p) /\ w = wire[In(p)]
  OBVIOUS
<1>2. i.k \in Reads /\ ~Complete(i, w) /\ ConnOf(p) \in closed
  BY <1>1 DEF ReadFails
<1>3. ~SinkGets(p)
  BY <1>1, <1>2 DEF SinkGets, Reads
<1>4. cancelled' = (cancelled \/ (p = "proxy" /\ ConnOf(p) = "client"))
  BY DEF ReadFails
<1>5. cancelled' \in BOOLEAN
  BY <1>4
<1>6. cancelled' # cancelled => CutsOff(p)
  <2>1. SUFFICES ASSUME ~CutsOff(p) PROVE cancelled' = cancelled
    OBVIOUS
  <2>2. ~(p = "proxy" /\ ConnOf(p) = "client")
    BY <1>1, <1>2, <2>1 DEF ConnOf, CutsOff
  <2>3. QED
    BY <1>4, <2>2 DEF Shape
<1>7. ASSUME NEW x, NEW y, NEW r, NEW b
      PROVE  Breaks(MyEnd(p, x), YourEnd(p, y, r, b), YourEnd(p, y, r, b), ConnOf(p) \in closed, FALSE)
  <2>1. PICK X, Y : X = MyEnd(p, x) /\ Y = YourEnd(p, y, r, b)
    OBVIOUS
  <2>2. Head(X[2]) = i /\ Y[5] = w
    BY <1>1, <2>1 DEF MyEnd, YourEnd, Now
  <2>3. QED
    BY <1>2, <2>1, <2>2 DEF Breaks
<1>8. Fail(p) /\ UNCHANGED <<mem, version, buf, wire, misread>>
      /\ UNCHANGED <<env, closed, hung, phase, toSign, held, registered, answer>>
  BY DEF ReadFails
<1>9. QED
  BY <1>3, <1>5, <1>6, <1>7, <1>8, FailSteps, Zenon

\* A step that changes the program of p and the words of its own.
LEMMA ByItself ==
  ASSUME Shape, NEW p \in Party, UNCHANGED <<mem, version, misread, others>>, NEW q, todo' = [todo EXCEPT ![p] = q],
         DOMAIN wire' = Link, DOMAIN buf' = Link,
         \A l \in Link : l # Out(p) =>
           /\ wire'[l] = wire[l]
           /\ buf'[l] = IF l = Sink /\ SinkGets(p) THEN buf[l] \o WriteStderr(Now(p).f, mem[p].fields) ELSE buf[l],
         SinkGets(p) => Out(p) # Sink /\ In(p) # Sink,
         \A x : LET Z == <<x, q, mem[p], version[Out(p)], wire'[Out(p)], buf'[Out(p)]>>
                IN MovesBy(MyEnd(p, x), Z)
  PROVE  Quietly(p)
<1>1. todo'[p] = q /\ DOMAIN todo' = Party /\ \A j \in Party : j # p => todo'[j] = todo[j]
  BY DEF Shape
<1>2. UNCHANGED <<env, cancelled, closed, hung, phase, toSign, held, registered, answer>>
  BY DEF others
<1>3. Out(p) \in Link /\ In(p) \in Link /\ Out(p) # In(p)
  BY Links
<1>4. cancelled' \in BOOLEAN /\ cancelled' = cancelled
  BY <1>2 DEF Shape
<1>5. Shape'
  BY <1>1, <1>2 DEF Shape
<1>6. \A l \in Link : l \notin {Out(p), In(p)} =>
       /\ version'[l] = version[l] /\ wire'[l] = wire[l]
       /\ buf'[l] = IF l = Sink /\ SinkGets(p) THEN buf[l] \o WriteStderr(Now(p).f, mem[p].fields) ELSE buf[l]
  BY Zenon
<1>7. Frame(p)
  BY <1>1, <1>2, <1>4, <1>5, <1>6, Zenon DEF Frame
<1>8. wire'[In(p)] = wire[In(p)] /\ buf'[In(p)] = buf[In(p)]
  BY <1>3, Zenon
<1>9. ASSUME NEW x, NEW y, NEW r, NEW b
      PROVE  StepsTo(p, x, y, r, b, After(p, x), YourAfter(p, y, r, b), FALSE)
  <2>1. YourAfter(p, y, r, b) = YourEnd(p, y, r, b)
    BY <1>8 DEF YourAfter, YourEnd
  <2>2. After(p, x) = <<x, q, mem[p], version[Out(p)], wire'[Out(p)], buf'[Out(p)]>>
    BY <1>1 DEF After
  <2>3. MovesBy(MyEnd(p, x), After(p, x))
    BY <2>2
  <2>4. QED
    BY <2>1, <2>3 DEF StepsTo, Moves
<1>10. QED
  BY <1>7, <1>9, Zenon DEF Quietly

\* A write by either end is one of the moves of a conversation.
LEMMA WriteSteps ==
  ASSUME Shape, NEW p \in Party, WriteWords(p)
  PROVE  Quietly(p)
<1>1. PICK i, o : i = Now(p) /\ o = Out(p)
  OBVIOUS
<1>2. i.k \in {"write", "forward"} /\ todo' = [todo EXCEPT ![p] = Tail(todo[p])]
      /\ UNCHANGED <<mem, version, misread, others>> /\ UNCHANGED wire
  BY <1>1 DEF WriteWords
<1>3. Out(p) \in Link /\ (p = "proxy" /\ phase = "build" => Out(p) # Sink /\ In(p) # Sink) /\ Sink \in Link
  BY Links
<1>4. CASE i.k = "write"
  <2>1. buf' = [buf EXCEPT ![o] = buf[o] \o i.x]
    BY <1>1, <1>4 DEF WriteWords
  <2>2. ~SinkGets(p)
    BY <1>1, <1>4 DEF SinkGets
  <2>3. DOMAIN buf' = Link /\ DOMAIN wire' = Link /\ buf'[o] = buf[o] \o i.x /\ \A l \in Link : l # o => buf'[l] = buf[l]
    BY <1>1, <1>2, <1>3, <2>1 DEF Shape
  <2>4. ASSUME NEW x
        PROVE  MovesBy(MyEnd(p, x), <<x, Tail(todo[p]), mem[p], version[o], wire'[o], buf'[o]>>)
    <3>1. PICK X, Z : X = MyEnd(p, x) /\ Z = <<x, Tail(todo[p]), mem[p], version[o], wire'[o], buf'[o]>>
      BY Zenon
    <3>2. Head(X[2]) = i /\ Z = Told1(X, i)
      BY <1>1, <1>2, <2>3, <3>1, Zenon DEF MyEnd, Now, Told1
    <3>3. QED
      BY <1>4, <3>1, <3>2, Zenon DEF MovesBy
  <2>5. \A l \in Link : l # Out(p) =>
           /\ wire'[l] = wire[l]
           /\ buf'[l] = IF l = Sink /\ SinkGets(p) THEN buf[l] \o WriteStderr(Now(p).f, mem[p].fields) ELSE buf[l]
    BY <1>1, <1>2, <2>2, <2>3
  <2>6. QED
    BY <1>1, <1>2, <2>2, <2>3, <2>4, <2>5, ByItself, Zenon
<1>5. CASE i.k = "forward"
  <2>1. buf' = IF SinkGets(p) THEN [buf EXCEPT ![Sink] = buf[Sink] \o WriteStderr(i.f, mem[p].fields)] ELSE buf
    BY <1>1, <1>5 DEF WriteWords, SinkGets, Sink
  <2>2. SinkGets(p) => Out(p) # Sink /\ In(p) # Sink
    BY <1>3 DEF SinkGets
  <2>3. /\ DOMAIN buf' = Link /\ DOMAIN wire' = Link /\ buf'[o] = buf[o]
        /\ \A l \in Link : buf'[l] = IF l = Sink /\ SinkGets(p) THEN buf[l] \o WriteStderr(i.f, mem[p].fields) ELSE buf[l]
    BY <1>1, <1>2, <1>3, <2>1, <2>2 DEF Shape
  <2>4. ASSUME NEW x
        PROVE  MovesBy(MyEnd(p, x), <<x, Tail(todo[p]), mem[p], version[o], wire'[o], buf'[o]>>)
    <3>1. PICK X, Z : X = MyEnd(p, x) /\ Z = <<x, Tail(todo[p]), mem[p], version[o], wire'[o], buf'[o]>>
      BY Zenon
    <3>2. Head(X[2]) = i /\ Z = At3(X, Tail(X[2]), X[3], X[4])
      BY <1>1, <1>2, <2>3, <3>1 DEF MyEnd, Now, At3
    <3>3. QED
      BY <1>5, <3>1, <3>2, Zenon DEF MovesBy
  <2>5. \A l \in Link : l # Out(p) =>
           /\ wire'[l] = wire[l]
           /\ buf'[l] = IF l = Sink /\ SinkGets(p) THEN buf[l] \o WriteStderr(Now(p).f, mem[p].fields) ELSE buf[l]
    BY <1>1, <1>2, <2>3, Zenon
  <2>6. QED
    BY <1>1, <1>2, <2>2, <2>3, <2>4, <2>5, ByItself, Zenon
<1>6. QED
  BY <1>2, <1>4, <1>5

\* So is a flush, unless its connection is closed.
LEMMA FlushSteps ==
  ASSUME Shape, NEW p \in Party, FlushWords(p)
  PROVE  Quietly(p)
<1>1. PICK i, o : i = Now(p) /\ o = Out(p)
  OBVIOUS
<1>2. i.k = "flush" /\ UNCHANGED <<mem, version, misread, others>>
  BY <1>1 DEF FlushWords
<1>3. Out(p) \in Link
  BY Links
<1>4. ~SinkGets(p)
  BY <1>1, <1>2 DEF SinkGets
<1>5. CASE ConnOf(p) \notin closed
  <2>1. /\ wire' = [wire EXCEPT ![o] = wire[o] \o buf[o]] /\ buf' = [buf EXCEPT ![o] = <<>>]
        /\ todo' = [todo EXCEPT ![p] = Tail(todo[p])]
    BY <1>1, <1>5, Zenon DEF FlushWords
  <2>2. /\ DOMAIN buf' = Link /\ DOMAIN wire' = Link /\ buf'[o] = <<>> /\ wire'[o] = wire[o] \o buf[o]
        /\ \A l \in Link : l # o => buf'[l] = buf[l] /\ wire'[l] = wire[l]
    BY <1>1, <1>3, <2>1 DEF Shape
  <2>3. ASSUME NEW x
        PROVE  MovesBy(MyEnd(p, x), <<x, Tail(todo[p]), mem[p], version[o], wire'[o], buf'[o]>>)
    <3>1. PICK X, Z : X = MyEnd(p, x) /\ Z = <<x, Tail(todo[p]), mem[p], version[o], wire'[o], buf'[o]>>
      BY Zenon
    <3>2. Head(X[2]) = i /\ Z = Sent1(X)
      BY <1>1, <2>2, <3>1, Zenon DEF MyEnd, Now, Sent1
    <3>3. QED
      BY <1>2, <3>1, <3>2 DEF MovesBy
  <2>4. \A l \in Link : l # Out(p) =>
           /\ wire'[l] = wire[l]
           /\ buf'[l] = IF l = Sink /\ SinkGets(p) THEN buf[l] \o WriteStderr(Now(p).f, mem[p].fields) ELSE buf[l]
    BY <1>1, <1>4, <2>2
  <2>5. QED
    BY <1>1, <1>2, <1>4, <2>1, <2>2, <2>3, <2>4, ByItself, Zenon
<1>6. CASE ConnOf(p) \in closed
  <2>1. Fail(p) /\ UNCHANGED <<wire, buf>>
    BY <1>6, Zenon DEF FlushWords
  <2>2. ASSUME NEW x, NEW y, NEW r, NEW b
        PROVE  Breaks(MyEnd(p, x), YourEnd(p, y, r, b), YourEnd(p, y, r, b), ConnOf(p) \in closed, FALSE)
    <3>1. PICK X, Y : X = MyEnd(p, x) /\ Y = YourEnd(p, y, r, b)
      OBVIOUS
    <3>2. Head(X[2]) = i
      BY <1>1, <3>1 DEF MyEnd, Now
    <3>3. QED
      BY <1>2, <1>6, <3>1, <3>2 DEF Breaks
  <2>3. UNCHANGED <<env, cancelled, closed, hung, phase, toSign, held, registered, answer>>
    BY <1>2 DEF others
  <2>4. cancelled' \in BOOLEAN /\ cancelled' = cancelled
    BY <2>3 DEF Shape
  <2>5. QED
    BY <1>2, <1>4, <2>1, <2>2, <2>3, <2>4, FailSteps, Zenon
<1>7. QED
  BY <1>5, <1>6

\* So are a round of a loop and the error that ends a message.
LEMMA ControlSteps ==
  ASSUME Shape, NEW p \in Party, Control(p)
  PROVE  Quietly(p)
<1>1. PICK i, o : i = Now(p) /\ o = Out(p)
  OBVIOUS
<1>2. UNCHANGED <<mem, version, buf, wire, misread, others>>
  BY DEF Control
<1>3. CASE i.k = "loop"
  <2>1. PICK q : q = When(i.n > 0, i.x \o Loop(i.n - 1, i.x)) \o Tail(todo[p])
    BY Zenon
  <2>2. todo' = [todo EXCEPT ![p] = q]
    BY <1>1, <1>3, <2>1, Zenon DEF Control
  <2>3. ~SinkGets(p)
    BY <1>1, <1>3 DEF SinkGets
  <2>4. ASSUME NEW x
        PROVE  MovesBy(MyEnd(p, x), <<x, q, mem[p], version[o], wire'[o], buf'[o]>>)
    <3>1. PICK X, Z : X = MyEnd(p, x) /\ Z = <<x, q, mem[p], version[o], wire'[o], buf'[o]>>
      BY Zenon
    <3>2. Head(X[2]) = i /\ X[2] = todo[p] /\ Z = At3(X, q, X[3], X[4])
      BY <1>1, <1>2, <3>1 DEF MyEnd, Now, At3
    <3>3. QED
      BY <1>3, <2>1, <3>1, <3>2, Zenon DEF MovesBy
  <2>5. \A l \in Link : l # Out(p) =>
           /\ wire'[l] = wire[l]
           /\ buf'[l] = IF l = Sink /\ SinkGets(p) THEN buf[l] \o WriteStderr(Now(p).f, mem[p].fields) ELSE buf[l]
    BY <1>2, <2>3
  <2>6. DOMAIN wire' = Link /\ DOMAIN buf' = Link
    BY <1>2 DEF Shape
  <2>7. QED
    BY <1>1, <1>2, <2>2, <2>3, <2>4, <2>5, <2>6, ByItself, Zenon
<1>4. CASE i.k # "loop"
  <2>1. i.k = "fail" /\ Fail(p)
    BY <1>1, <1>4, Zenon DEF Control
  <2>2. ASSUME NEW x, NEW y, NEW r, NEW b
        PROVE  Breaks(MyEnd(p, x), YourEnd(p, y, r, b), YourEnd(p, y, r, b), ConnOf(p) \in closed, FALSE)
    <3>1. PICK X, Y : X = MyEnd(p, x) /\ Y = YourEnd(p, y, r, b)
      OBVIOUS
    <3>2. Head(X[2]) = i
      BY <1>1, <3>1 DEF MyEnd, Now
    <3>3. QED
      BY <2>1, <3>1, <3>2 DEF Breaks
  <2>3. UNCHANGED <<env, cancelled, closed, hung, phase, toSign, held, registered, answer>>
    BY <1>2 DEF others
  <2>4. cancelled' \in BOOLEAN /\ cancelled' = cancelled
    BY <2>3 DEF Shape
  <2>5. ~SinkGets(p)
    BY <1>1, <2>1 DEF SinkGets
  <2>6. QED
    BY <1>2, <2>1, <2>2, <2>3, <2>4, <2>5, FailSteps, Zenon
<1>5. QED
  BY <1>3, <1>4

\* All steps together.
LEMMA Steps ==
  ASSUME Shape, NEW p \in Party, Step(p)
  PROVE  /\ Frame(p) /\ todo[p] # <<>>
         /\ \E bad \in BOOLEAN :
              /\ Misread(p, bad)
              /\ \A x, y, r, b : StepsTo(p, x, y, r, b, After(p, x), YourAfter(p, y, r, b), bad)
<1>1. todo[p] # <<>>
  BY Zenon DEF Step, Read, ReadFails, WriteWords, FlushWords, Control, Ready
<1>2. CASE Read(p)
  BY <1>1, <1>2, ReadSteps
<1>3. CASE ~Read(p)
  <2>1. Quietly(p)
    BY <1>3, ReadFailSteps, WriteSteps, FlushSteps, ControlSteps DEF Step
  <2>2. Misread(p, FALSE)
    BY <2>1 DEF Quietly, Misread
  <2>3. QED
    BY <1>1, <2>1, <2>2, Zenon DEF Quietly
<1>4. QED
  BY <1>2, <1>3
-----------------------------------------------------------------------------
(* The connections *)

\* A connection c: the program of its peer and what it knows, the version it
\* goes by, its words on the wire and in its buffer, and those of the proxy.
ConvOf(c) ==
  <<todo[c], mem[c],
    version[<<c, "proxy">>], wire[<<c, "proxy">>], buf[<<c, "proxy">>],
    version[<<"proxy", c>>], wire[<<"proxy", c>>], buf[<<"proxy", c>>]>>

\* The peer y at the program q, and the proxy x at the program p with what it
\* knows, a.
PeerSide(K, y, q) == <<y, q, K[2], K[3], K[4], K[5]>>
ProxySide(K, x, p, a) == <<x, p, a, K[6], K[7], K[8]>>

\* The peer is at q, or it was when it left.
Stays(K, q) == K[1] = q \/ K[1] \in {Do("leave"), <<>>}

\* The two ends talk.  When the proxy is busy elsewhere, p and a are where it
\* was, or will be.
Talking(e, G, x, p, a, y, K) ==
  Goals(G) /\ \E q : Stays(K, q) /\ Talk(e, G, ProxySide(K, x, p, a), PeerSide(K, y, q))

\* The goals of the peer are not among the parts that its daemon goes through.
PeerGoals(G, y) == \A g \in G : g[1] = y => Head(g[2][1]).f \notin DaemonParts \union {"leave"}

\* A part of the program by its name.
LEMMA Named ==
  /\ \A l : Head(Do(l)).k = "do" /\ Head(Do(l)).f = l /\ Do(l) # <<>> /\ IsSeq(Do(l))
  /\ \A l, k : Do(l) = Do(k) => l = k
<1>1. \A l : Head(Do(l)) = Ins("do", l, 0, <<>>) /\ Do(l) # <<>> /\ IsSeq(Do(l))
  BY One DEF Do
<1>2. \A l : Ins("do", l, 0, <<>>).k = "do" /\ Ins("do", l, 0, <<>>).f = l
  BY DEF Ins
<1>3. \A l : Head(Do(l)).k = "do" /\ Head(Do(l)).f = l
  BY <1>1, <1>2
<1>4. \A l, k : Do(l) = Do(k) => l = k
  BY <1>3
<1>5. QED
  BY <1>1, <1>3, <1>4

\* The parts that follow the part l, for each end.
EntersAs(e, x, l, a, m, q) ==
  /\ x[1] \in Clients => l = "hello" /\ q = ClientHello(e, m)
  /\ x[1] \in {"builder", "store"} => l \in DaemonParts /\ q = DaemonServes(e, l, m, a)
  /\ x[1] = "toClient" =>
       \/ l = "Handshake" /\ q = ServeHandshake
       \/ l = "PostHandshake" /\ q = ServePostHandshake(m)
       \/ l = "ReadOp" /\ q = ReadOp
       \/ l = "Return" /\ q = Do("ReadOp")
       \/ l \in {"handleSetOptions", "handleBuildDerivation", "unhandled"} /\ q = ServeOp(l, m)
  /\ x[1] = "toBuilder" =>
       \/ l = "HandshakeInfo" /\ q = AskOptions(m, "ExecuteBuild")
       \/ l = "ExecuteBuild" /\ q = AskBuild(m, a.drv)
  /\ x[1] = "toSigning" => l = "HandshakeInfo" /\ q = AskOptions(m, "NextOutput")
  /\ x[1] = "toStore" =>
       \/ l = "SignPath" /\ a.narHash # 0 /\ q = AskSignature(a)
       \/ l = "SignPath" /\ a.narHash = 0 /\ q = Do("NextOutput")

\* A part of a program is entered by its name.
LEMMA EntersNamed ==
  ASSUME NEW e, NEW x, NEW p, NEW a, NEW v, NEW q, Enters(e, x, p, a, v, q), Head(p).k = "do", NEW l, l = Head(p).f
  PROVE  p = Do(l) /\ EntersAs(e, x, l, a, MinorOf(v), q)
<1>1. PICK m : m = MinorOf(v)
  OBVIOUS
<1>2. p = Do(l)
  BY EntersHead
<1>3. \A k : p = Do(k) => k = l
  BY <1>2, Named
<1>4. p # Flush \o Do("ReadOp")
  <2>1. Head(Flush \o Do("ReadOp")) = Ins("flush", "", 0, <<>>)
    BY Named, FirstThen DEF Flush
  <2>2. Ins("flush", "", 0, <<>>).k = "flush"
    BY DEF Ins
  <2>3. QED
    BY <2>1, <2>2, Zenon
<1>5. CASE x[1] \in Clients
  BY <1>1, <1>3, <1>4, <1>2, <1>5 DEF Enters, EntersAs, Clients
<1>6. CASE x[1] \in {"builder", "store"}
  BY <1>1, <1>3, <1>4, <1>2, <1>6 DEF Enters, EntersAs, Clients
<1>7. CASE x[1] = "toClient"
  BY <1>1, <1>3, <1>4, <1>2, <1>7 DEF Enters, EntersAs, Clients
<1>8. CASE x[1] \in {"toBuilder", "toSigning", "toStore"}
  BY <1>1, <1>3, <1>4, <1>2, <1>8 DEF Enters, EntersAs, Clients
<1>9. QED
  <2>1. x[1] \in Clients \/ x[1] \in {"builder", "store"} \/ x[1] = "toClient" \/ x[1] \in {"toBuilder", "toSigning", "toStore"}
    BY DEF Enters, Clients
  <2>2. QED
    BY <1>2, <1>1, <1>5, <1>6, <1>7, <1>8, <2>1

\* It is a goal that an end is at when it has reached one.
LEMMA ReachedGoal ==
  ASSUME NEW e, NEW G, NEW X, NEW Y, Reached(e, G, X, Y)
  PROVE  \E g \in G : /\ g[1] = X[1] /\ g[2] = Pos(X) /\ g[2][1] = X[2] /\ g[3] = Y[1] /\ Rests(e, Y, g[4])
                      /\ g = <<X[1], Pos(X), Y[1], g[4]>>
<1>1. PICK s : Hears(e, Y[1], Pos(Y), <<>>, s) /\ Waits(s) /\ <<X[1], Pos(X), Y[1], s>> \in G
  BY DEF Reached
<1>2. Rests(e, Y, s)
  BY <1>1 DEF Reached, Rests
<1>3. PICK g : g = <<X[1], Pos(X), Y[1], s>>
  BY Zenon
<1>4. g[1] = X[1] /\ g[2] = Pos(X) /\ g[3] = Y[1] /\ g[4] = s
  BY <1>3
<1>5. g[2][1] = X[2]
  BY <1>4 DEF Pos
<1>6. g \in G /\ g = <<X[1], Pos(X), Y[1], g[4]>>
  BY <1>1, <1>3, <1>4
<1>7. QED
  BY <1>2, <1>4, <1>5, <1>6

\* A peer does not leave as long as it talks.
LEMMA NotLeaving ==
  ASSUME NEW e, NEW G, Goals(G), NEW X, NEW Y, Talk(e, G, X, Y), PeerGoals(G, Y[1]), Y[1][1] \in Clients \union {"builder", "store"}
  PROVE  Y[2] # Do("leave")
<1>1. SUFFICES ASSUME Y[2] = Do("leave") PROVE FALSE
  OBVIOUS
<1>2. Head(Y[2]).k = "do" /\ Head(Y[2]).f = "leave"
  BY <1>1, Named
<1>3. Talk(e, G, Y, X)
  BY DEF Talk
<1>4. ~Reached(e, G, Y, X)
  <2>1. SUFFICES ASSUME Reached(e, G, Y, X) PROVE FALSE
    OBVIOUS
  <2>2. PICK g \in G : g[1] = Y[1] /\ g[2][1] = Y[2]
    BY <2>1, ReachedGoal
  <2>3. QED
    BY <1>2, <2>2 DEF PeerGoals
<1>5. PICK q : Enters(e, Y[1], Y[2], Y[3], Y[4], q)
  BY <1>2, <1>3, <1>4, TalkDo
<1>6. EntersAs(e, Y[1], "leave", Y[3], MinorOf(Y[4]), q)
  BY <1>2, <1>5, EntersNamed
<1>7. QED
  BY <1>6 DEF EntersAs, DaemonParts, Clients
\* The connection c is K before a step, and L after it.
IsConv(c, K, L) == K = ConvOf(c) /\ L = ConvOf(c)'

\* What a connection is made of, before and after a step.
LEMMA ConvParts ==
  ASSUME NEW c, NEW K, NEW L, IsConv(c, K, L)
  PROVE  /\ K[1] = todo[c] /\ K[2] = mem[c] /\ K[3] = version[<<c, "proxy">>] /\ K[4] = wire[<<c, "proxy">>]
         /\ K[5] = buf[<<c, "proxy">>] /\ K[6] = version[<<"proxy", c>>] /\ K[7] = wire[<<"proxy", c>>]
         /\ K[8] = buf[<<"proxy", c>>]
         /\ L[1] = todo'[c] /\ L[2] = mem'[c] /\ L[3] = version'[<<c, "proxy">>] /\ L[4] = wire'[<<c, "proxy">>]
         /\ L[5] = buf'[<<c, "proxy">>] /\ L[6] = version'[<<"proxy", c>>] /\ L[7] = wire'[<<"proxy", c>>]
         /\ L[8] = buf'[<<"proxy", c>>]
BY DEF IsConv, ConvOf

\* The peer of it.
LEMMA ConvPeer ==
  ASSUME NEW c, NEW K, NEW L, IsConv(c, K, L)
  PROVE  K[1] = todo[c] /\ K[2] = mem[c] /\ L[1] = todo'[c] /\ L[2] = mem'[c]
BY DEF IsConv, ConvOf

\* The versions of its ends.
LEMMA ConvVersions ==
  ASSUME NEW c, NEW K, NEW L, IsConv(c, K, L)
  PROVE  /\ K[3] = version[<<c, "proxy">>] /\ L[3] = version'[<<c, "proxy">>]
         /\ K[6] = version[<<"proxy", c>>] /\ L[6] = version'[<<"proxy", c>>]
BY DEF IsConv, ConvOf

\* The ends of a connection for a step of the peer.
LEMMA PeerEnds ==
  ASSUME Shape, NEW c \in Conn, NEW K, NEW L, IsConv(c, K, L), NEW y, NEW x, NEW p, NEW a,
         NEW X, X = PeerSide(K, y, K[1]), NEW Y, Y = ProxySide(K, x, p, a),
         NEW Z, Z = PeerSide(L, y, L[1]), NEW W, W = ProxySide(L, x, p, a)
  PROVE  X = MyEnd(c, y) /\ Y = YourEnd(c, x, p, a) /\ Z = After(c, y) /\ W = YourAfter(c, x, p, a)
<1>1. Out(c) = <<c, "proxy">> /\ In(c) = <<"proxy", c>>
  BY Links DEF Conn, Party
<1>2. X = MyEnd(c, y)
  BY <1>1, ConvParts DEF MyEnd, PeerSide
<1>3. Y = YourEnd(c, x, p, a)
  BY <1>1, ConvParts DEF YourEnd, ProxySide
<1>4. Z = After(c, y)
  BY <1>1, ConvParts DEF After, PeerSide
<1>5. W = YourAfter(c, x, p, a)
  BY <1>1, ConvParts DEF YourAfter, ProxySide
<1>6. QED
  BY <1>2, <1>3, <1>4, <1>5

\* The same for a step of the proxy.
LEMMA ProxyEnds ==
  ASSUME Shape, NEW c, c = At[phase], NEW K, NEW L, IsConv(c, K, L), todo'[c] = todo[c], mem'[c] = mem[c],
         NEW x, NEW y, NEW q,
         NEW X, X = ProxySide(K, x, todo["proxy"], mem["proxy"]), NEW Y, Y = PeerSide(K, y, q),
         NEW Z, Z = ProxySide(L, x, todo'["proxy"], mem'["proxy"]), NEW W, W = PeerSide(L, y, q)
  PROVE  X = MyEnd("proxy", x) /\ Y = YourEnd("proxy", y, q, K[2]) /\ Z = After("proxy", x)
         /\ W = YourAfter("proxy", y, q, K[2]) /\ L[1] = K[1] /\ L[2] = K[2]
<1>1. Out("proxy") = <<"proxy", c>> /\ In("proxy") = <<c, "proxy">>
  BY Links DEF Party
<1>2. X = MyEnd("proxy", x)
  BY <1>1, ConvParts DEF MyEnd, ProxySide
<1>3. Y = YourEnd("proxy", y, q, K[2])
  BY <1>1, ConvParts DEF YourEnd, PeerSide
<1>4. Z = After("proxy", x)
  BY <1>1, ConvParts DEF After, ProxySide
<1>5. L[1] = K[1] /\ L[2] = K[2]
  BY ConvPeer
<1>6. W = YourAfter("proxy", y, q, K[2])
  BY <1>1, <1>5, ConvParts DEF YourAfter, PeerSide
<1>7. QED
  BY <1>2, <1>3, <1>4, <1>5, <1>6

\* The components of an end.
LEMMA ProxyParts ==
  ASSUME NEW K, NEW x, NEW p, NEW a, NEW X, X = ProxySide(K, x, p, a)
  PROVE  /\ X[1] = x /\ X[2] = p /\ X[3] = a /\ X[4] = K[6] /\ X[5] = K[7] /\ X[6] = K[8]
         /\ Pos(X) = <<p, a, K[6]>>
BY DEF ProxySide, Pos

\* The same for the peer.
LEMMA PeerParts ==
  ASSUME NEW K, NEW y, NEW q, NEW Y, Y = PeerSide(K, y, q)
  PROVE  /\ Y[1] = y /\ Y[2] = q /\ Y[3] = K[2] /\ Y[4] = K[3] /\ Y[5] = K[4] /\ Y[6] = K[5]
         /\ Pos(Y) = <<q, K[2], K[3]>>
BY DEF PeerSide, Pos

\* Who the peers are.
Peers == Clients \union {"builder", "store"}
IsPeer(c, y) == y[1] = c \/ (c = "client" /\ y[1] \in Clients)

\* A peer speaks its own version, whatever it is called.
LEMMA PeerOwn ==
  ASSUME NEW c \in Conn, NEW y, IsPeer(c, y), NEW e, e = env
  PROVE  OwnVersion(c) = Own(e, y) /\ y[1] \in Peers
<1>1. OwnVersion(c) = Version(e.minor[c])
  BY DEF OwnVersion, Conn
<1>2. CASE y[1] = c
  BY <1>1, <1>2 DEF Own, Conn, Peers, Clients
<1>3. CASE c = "client" /\ y[1] \in Clients
  BY <1>1, <1>3 DEF Own, Conn, Peers, Clients
<1>4. QED
  BY <1>2, <1>3 DEF IsPeer
\* A step of a peer that talks: it goes on talking, and takes no word for
\* another; it leaves when the connection is closed or it was told an error.
PeerKeeps(e, G, x, p, a, c, y, K, L) ==
  /\ misread' = misread /\ Minded(y, K[2], L[2]) /\ L[3] \in {K[3], Full}
  /\ Talking(e, G, x, p, a, y, L)
  /\ L[1] = Do("leave") => c \in closed \/ \E g \in G : g[1] = y /\ Head(g[2][1]).k = "fail"

\* The part of a step that is about what it reads.
PeerPlaces(K, L, x, p, a, y, X, Y, Z, W) ==
  /\ X = PeerSide(K, y, K[1]) /\ Y = ProxySide(K, x, p, a)
  /\ Z = PeerSide(L, y, L[1]) /\ W = ProxySide(L, x, p, a)
PeerGoesOn(own, X, Y, Z, W, c, cs, bad) ==
  \/ Moves(own, X, Y, Z, W, bad)
  \/ Breaks(X, Y, W, c \in cs, bad) /\ Z = At3(X, Do("leave"), X[3], X[4])
GoesWell(e, G, x, p, a, y, K, L, c, cs) ==
  /\ Minded(y, K[2], L[2]) /\ L[3] \in {K[3], Full}
  /\ Talking(e, G, x, p, a, y, L)
  /\ L[1] = Do("leave") => c \in cs \/ \E g \in G : g[1] = y /\ Head(g[2][1]).k = "fail"

\* What a conversation is like after a move of the peer.
LEMMA PeerMoves ==
  ASSUME NEW c, NEW e, NEW G, Goals(G), NEW x, NEW p, NEW a, NEW y, y[1] \in Peers, PeerGoals(G, y), NEW K, NEW L,
         NEW X, NEW Y, NEW Z, NEW W, PeerPlaces(K, L, x, p, a, y, X, Y, Z, W), Talk(e, G, X, Y),
         NEW bad \in BOOLEAN, NEW own, own = Own(e, y), NEW cs, PeerGoesOn(own, X, Y, Z, W, c, cs, bad)
  PROVE  ~bad /\ GoesWell(e, G, x, p, a, y, K, L, c, cs)
<1>0. /\ X = PeerSide(K, y, K[1]) /\ Y = ProxySide(K, x, p, a)
      /\ Z = PeerSide(L, y, L[1]) /\ W = ProxySide(L, x, p, a)
  BY DEF PeerPlaces
<1>1. /\ X[1] = y /\ X[2] = K[1] /\ X[3] = K[2] /\ X[4] = K[3] /\ X[5] = K[4] /\ X[6] = K[5]
      /\ Z[1] = y /\ Z[2] = L[1] /\ Z[3] = L[2] /\ Z[4] = L[3] /\ Z[5] = L[4] /\ Z[6] = L[5]
  BY <1>0, PeerParts
<1>2. CASE Moves(own, X, Y, Z, W, bad)
  <2>1. Talk(e, G, Z, W) /\ ~bad /\ Z[4] \in {X[4], Full} /\ Minded(X[1], X[3], Z[3])
    BY <1>1, <1>2, MovesTalk
  <2>2. Talk(e, G, W, Z)
    BY <2>1 DEF Talk
  <2>3. Z[2] # Do("leave")
    BY <1>1, <2>2, NotLeaving DEF Peers
  <2>4. Talking(e, G, x, p, a, y, L)
    BY <1>0, <2>2 DEF Talking, Stays
  <2>5. QED
    BY <1>1, <2>1, <2>3, <2>4 DEF GoesWell
<1>3. CASE Breaks(X, Y, W, c \in cs, bad) /\ Z = At3(X, Do("leave"), X[3], X[4])
  <2>1. /\ ~bad
        /\ \/ Refusal(e, G, X, W) \/ Unread(X, Y, W, c \in cs) \/ Unflushed(e, G, X, Y, W, c \in cs)
           \/ Failed(e, G, X, Y, W)
    BY <1>3, BreaksTalk
  <2>2. ~Refusal(e, G, X, W)
    BY <1>1 DEF Refusal, Peers, Clients
  <2>3. W = Y /\ (c \in cs \/ (Reached(e, G, X, Y) /\ Head(X[2]).k = "fail"))
    <3>1. CASE Unread(X, Y, W, c \in cs)
      BY <3>1 DEF Unread
    <3>2. CASE Unflushed(e, G, X, Y, W, c \in cs)
      BY <3>2 DEF Unflushed
    <3>3. CASE Failed(e, G, X, Y, W)
      BY <3>3 DEF Failed
    <3>4. QED
      BY <2>1, <2>2, <3>1, <3>2, <3>3
  <2>4. Z[2] = Do("leave") /\ Z[3] = X[3] /\ Z[4] = X[4] /\ Z[5] = X[5] /\ Z[6] = X[6]
    BY <1>3, AtParts
  <2>5. L[1] = Do("leave") /\ L[2] = K[2] /\ L[3] = K[3] /\ L[4] = K[4] /\ L[5] = K[5]
    BY <1>1, <2>4
  <2>6. X = PeerSide(L, y, K[1])
    BY <1>0, <2>5 DEF PeerSide
  <2>7. Talk(e, G, W, X)
    BY <2>3 DEF Talk
  <2>8. Stays(L, K[1])
    BY <2>5 DEF Stays
  <2>9. Talking(e, G, x, p, a, y, L)
    BY <1>0, <2>6, <2>7, <2>8 DEF Talking
  <2>10. c \in cs \/ \E g \in G : g[1] = y /\ Head(g[2][1]).k = "fail"
    <3>1. CASE Reached(e, G, X, Y) /\ Head(X[2]).k = "fail"
      <4>1. PICK g \in G : g[1] = X[1] /\ g[2][1] = X[2]
        BY <3>1, ReachedGoal
      <4>2. QED
        BY <1>1, <3>1, <4>1
    <3>2. QED
      BY <2>3, <3>1
  <2>11. QED
    BY <2>1, <2>5, <2>9, <2>10 DEF Minded, GoesWell
<1>4. QED
  BY <1>2, <1>3 DEF PeerGoesOn

\* The same in a state.
LEMMA PeerStep ==
  ASSUME Shape, NEW c \in Conn, Step(c), NEW e, e = env, NEW G, NEW x, NEW p, NEW a, NEW y, IsPeer(c, y),
         PeerGoals(G, y), NEW K, NEW L, IsConv(c, K, L), Talking(e, G, x, p, a, y, K)
  PROVE  PeerKeeps(e, G, x, p, a, c, y, K, L) /\ Frame(c) /\ L[6] = K[6]
<1>1. OwnVersion(c) = Own(e, y) /\ y[1] \in Peers
  BY PeerOwn
<1>2. c \in Party /\ c # "proxy" /\ ConnOf(c) = c
  BY Links DEF Conn, Party
<1>3. Frame(c) /\ todo[c] # <<>>
  BY <1>2, Steps
<1>4. PICK bad \in BOOLEAN : /\ Misread(c, bad)
                             /\ \A z, u, r, b : StepsTo(c, z, u, r, b, After(c, z), YourAfter(c, u, r, b), bad)
  BY <1>2, Steps
<1>5. StepsTo(c, y, x, p, a, After(c, y), YourAfter(c, x, p, a), bad)
  BY <1>4
<1>6. PICK X, Y, Z, W : X = PeerSide(K, y, K[1]) /\ Y = ProxySide(K, x, p, a) /\ Z = PeerSide(L, y, L[1]) /\ W = ProxySide(L, x, p, a)
  OBVIOUS
<1>7. /\ K[1] = todo[c] /\ K[2] = mem[c] /\ K[3] = version[Out(c)]
      /\ MyEnd(c, y) = X /\ After(c, y) = Z /\ YourEnd(c, x, p, a) = Y /\ YourAfter(c, x, p, a) = W
  <2>1. Out(c) = <<c, "proxy">>
    BY <1>2, Links
  <2>2. K[1] = todo[c] /\ K[2] = mem[c] /\ K[3] = version[<<c, "proxy">>]
    BY ConvPeer, ConvVersions, Zenon
  <2>3. MyEnd(c, y) = X /\ After(c, y) = Z /\ YourEnd(c, x, p, a) = Y /\ YourAfter(c, x, p, a) = W
    BY <1>6, PeerEnds
  <2>4. QED
    BY <2>1, <2>2, <2>3
<1>8. X[3] = mem[c] /\ X[4] = version[Out(c)]
  BY <1>6, <1>7, PeerParts, ProxyParts
<1>9. \/ Moves(Own(e, y), X, Y, Z, W, bad)
      \/ Breaks(X, Y, W, c \in closed, bad) /\ Z = At3(X, Do("leave"), X[3], X[4])
  BY <1>1, <1>2, <1>5, <1>7, <1>8 DEF StepsTo, Lands
<1>10. Goals(G) /\ Talk(e, G, X, Y)
  <2>1. PICK q : Goals(G) /\ Stays(K, q) /\ Talk(e, G, ProxySide(K, x, p, a), PeerSide(K, y, q))
    BY DEF Talking
  <2>2. K[1] # Do("leave")
    <3>1. SUFFICES ASSUME todo[c] = Do("leave") PROVE FALSE
      BY <1>7
    <3>2. Now(c).k = "do"
      BY <3>1, Named DEF Now
    <3>3. QED
      BY <3>2 DEF Step, Read, ReadFails, WriteWords, FlushWords, Control, Reads
  <2>3. K[1] = q
    BY <1>3, <1>7, <2>1, <2>2 DEF Stays
  <2>4. QED
    BY <1>6, <2>1, <2>3 DEF Talk
<1>11. /\ ~bad /\ Minded(y, K[2], L[2]) /\ L[3] \in {K[3], Full} /\ Talking(e, G, x, p, a, y, L)
       /\ L[1] = Do("leave") => c \in closed \/ \E g \in G : g[1] = y /\ Head(g[2][1]).k = "fail"
  <2>1. PICK cs : cs = closed
    OBVIOUS
  <2>2. \/ Moves(Own(e, y), X, Y, Z, W, bad)
        \/ Breaks(X, Y, W, c \in cs, bad) /\ Z = At3(X, Do("leave"), X[3], X[4])
    BY <1>9, <2>1
  <2>3. PICK own : own = Own(e, y)
    OBVIOUS
  <2>4. PeerGoesOn(own, X, Y, Z, W, c, cs, bad)
    BY <2>2, <2>3 DEF PeerGoesOn
  <2>5. PeerPlaces(K, L, x, p, a, y, X, Y, Z, W)
    BY <1>6 DEF PeerPlaces
  <2>6. ~bad /\ GoesWell(e, G, x, p, a, y, K, L, c, cs)
    BY <1>1, <1>10, <2>3, <2>4, <2>5, PeerMoves
  <2>7. QED
    BY <2>1, <2>6 DEF GoesWell
<1>12. misread' = misread
  BY <1>4, <1>11 DEF Misread
<1>13. L[6] = K[6]
  <2>1. YourEnd(c, x, p, a)[4] = version[In(c)] /\ YourAfter(c, x, p, a)[4] = version'[In(c)]
    BY DEF YourEnd, YourAfter
  <2>2. Y[4] = K[6] /\ W[4] = L[6]
    BY <1>6, PeerParts, ProxyParts
  <2>3. W[4] = Y[4]
    <3>1. CASE Moves(Own(e, y), X, Y, Z, W, bad)
      BY <3>1 DEF Moves, MovesRead, Drop
    <3>2. CASE Breaks(X, Y, W, c \in closed, bad)
      BY <3>2 DEF Breaks, Drop
    <3>3. QED
      BY <1>9, <3>1, <3>2
  <2>4. QED
    BY <2>2, <2>3
<1>14. QED
  BY <1>3, <1>11, <1>12, <1>13 DEF PeerKeeps
\* The proxy is at a goal, and the peer waits or is about to.
Arrives(e, G, x, p, a, y, K) ==
  /\ K[7] = <<>> /\ K[8] = <<>>
  /\ \E g, q : /\ g \in G /\ g = <<x, <<p, a, K[6]>>, y, g[4]>>
               /\ Stays(K, q) /\ Rests(e, PeerSide(K, y, q), g[4])

\* The proxy meets an error: a path info that the store host does not have, a
\* connection that is closed, before or after the peer has heard all that it was
\* told, or an error that the peer told it.
CutShort(K, L, c, cs) == c \in cs /\ L = K /\ K[4] = <<>>
LateFlush(e, G, x, a, y, K, L, c, cs) ==
  c \in cs /\ L = K /\ x[1] = "toClient" /\ K[8] = <<>> /\ Talking(e, G, x, Do("ReadOp"), a, y, K)
Stopped(e, G, x, p, a, y, K, L, c, cs) ==
  \/ x[1] = "toStore" /\ Talking(e, G, x, Do("NextOutput"), a, y, L)
  \/ CutShort(K, L, c, cs)
  \/ Head(p).k = "flush" /\ LateFlush(e, G, x, a, y, K, L, c, cs)
  \/ L = K /\ Head(p).k = "fail" /\ Arrives(e, G, x, p, a, y, K)

\* A step of the proxy from the program p with what it knows, a, to r and b.
Eight(K) == K = <<K[1], K[2], K[3], K[4], K[5], K[6], K[7], K[8]>>
ProxyPlaces(K, L, x, p, a, r, b, y, q, X, Y, Z, W) ==
  /\ X = ProxySide(K, x, p, a) /\ Y = PeerSide(K, y, q)
  /\ Z = ProxySide(L, x, r, b) /\ W = PeerSide(L, y, q)
ProxyGoesOn(own, X, Y, Z, W, land, c, cs, bad) ==
  \/ Moves(own, X, Y, Z, W, bad)
  \/ Breaks(X, Y, W, c \in cs, bad) /\ Z = At3(X, land, X[3], X[4])
Misses1(p, K) == Head(p).k \in Reads /\ ~Complete(Head(p), K[4])
Proceeds(e, G, x, p, r, b, y, K, L) ==
  /\ Talking(e, G, x, r, b, y, L) /\ ~Misses1(p, K)
  /\ Head(p).k = "forward" => Head(p).f \in Events
ProxyWell(e, G, x, p, a, r, b, y, K, L, land, c, cs) ==
  /\ Minded(x, a, b) /\ L[6] \in {K[6], Full} /\ L[3] = K[3]
  /\ \/ Proceeds(e, G, x, p, r, b, y, K, L)
     \/ r = land /\ b = a /\ Stopped(e, G, x, p, a, y, K, L, c, cs)

\* The conversation goes on, or the proxy meets one of these errors.
LEMMA ProxyMoves ==
  ASSUME NEW c, NEW cs, NEW e, NEW G, Goals(G), NEW x, NEW p, NEW a, NEW r, NEW b, NEW y, NEW q, NEW K, NEW L, Eight(K), Eight(L),
         L[1] = K[1], L[2] = K[2], Stays(K, q),
         NEW X, NEW Y, NEW Z, NEW W, ProxyPlaces(K, L, x, p, a, r, b, y, q, X, Y, Z, W), Talk(e, G, X, Y),
         NEW bad \in BOOLEAN, NEW own, own = Own(e, x), NEW land, ProxyGoesOn(own, X, Y, Z, W, land, c, cs, bad)
  PROVE  ~bad /\ ProxyWell(e, G, x, p, a, r, b, y, K, L, land, c, cs)
<1>1. /\ X = ProxySide(K, x, p, a) /\ Y = PeerSide(K, y, q)
      /\ Z = ProxySide(L, x, r, b) /\ W = PeerSide(L, y, q)
  BY DEF ProxyPlaces
<1>2. /\ X[1] = x /\ X[2] = p /\ X[3] = a /\ X[4] = K[6] /\ X[5] = K[7] /\ X[6] = K[8] /\ Pos(X) = <<p, a, K[6]>>
      /\ Z[1] = x /\ Z[2] = r /\ Z[3] = b /\ Z[4] = L[6] /\ Z[5] = L[7] /\ Z[6] = L[8]
  BY <1>1, ProxyParts
<1>3. /\ Y[1] = y /\ Y[2] = q /\ Y[3] = K[2] /\ Y[4] = K[3] /\ Y[5] = K[4] /\ Y[6] = K[5]
      /\ W[1] = y /\ W[2] = q /\ W[3] = L[2] /\ W[4] = L[3] /\ W[5] = L[4] /\ W[6] = L[5]
  BY <1>1, PeerParts
<1>4. Stays(L, q)
  BY DEF Stays
<1>5. CASE Moves(own, X, Y, Z, W, bad)
  <2>1. Talk(e, G, Z, W) /\ ~bad /\ Z[4] \in {X[4], Full} /\ Minded(X[1], X[3], Z[3])
    BY <1>2, <1>5, MovesTalk, Zenon
  <2>2. Head(X[2]).k = "forward" => Head(X[2]).f \in Events
    BY <1>2, <1>5, MovesTalk, Zenon
  <2>3. Talking(e, G, x, r, b, y, L)
    BY <1>1, <1>4, <2>1 DEF Talking
  <2>4. ~Misses1(p, K)
    <3>1. CASE MovesRead(own, X, Y, Z, W, bad)
      <4>1. Complete(Head(X[2]), Y[5])
        BY <3>1 DEF MovesRead
      <4>2. QED
        BY <1>2, <1>3, <4>1 DEF Misses1
    <3>2. CASE MovesBy(X, Z)
      <4>1. Head(X[2]).k \in {"write", "forward", "flush", "loop"}
        BY <3>2 DEF MovesBy
      <4>2. Head(p).k \notin Reads
        BY <1>2, <4>1 DEF Reads
      <4>3. QED
        BY <4>2 DEF Misses1
    <3>3. QED
      BY <1>5, <3>1, <3>2 DEF Moves
  <2>5. W[4] = Y[4]
    BY <1>5 DEF Moves, MovesRead, Drop
  <2>6. Proceeds(e, G, x, p, r, b, y, K, L)
    BY <1>2, <2>2, <2>3, <2>4 DEF Proceeds
  <2>7. QED
    BY <1>2, <1>3, <2>1, <2>5, <2>6 DEF ProxyWell
<1>6. CASE Breaks(X, Y, W, c \in cs, bad) /\ Z = At3(X, land, X[3], X[4])
  <2>1. /\ ~bad
        /\ \/ Refusal(e, G, X, W) \/ Unread(X, Y, W, c \in cs) \/ Unflushed(e, G, X, Y, W, c \in cs)
           \/ Failed(e, G, X, Y, W)
    BY <1>6, BreaksTalk
  <2>2. Z[2] = land /\ Z[3] = X[3] /\ Z[4] = X[4] /\ Z[5] = X[5] /\ Z[6] = X[6]
    BY <1>6, AtParts
  <2>3. W[4] = Y[4]
    BY <1>6 DEF Breaks, Drop
  <2>4. W = Y => L = K
    <3>1. SUFFICES ASSUME W = Y PROVE L = K
      OBVIOUS
    <3>2. L[3] = K[3] /\ L[4] = K[4] /\ L[5] = K[5] /\ L[6] = K[6] /\ L[7] = K[7] /\ L[8] = K[8]
      BY <1>2, <1>3, <2>2, <3>1
    <3>3. QED
      BY <3>2 DEF Eight
  <2>5. r = land /\ b = a /\ L[6] = K[6] /\ L[3] = K[3]
    BY <1>2, <1>3, <2>2, <2>3
  <2>6. Stopped(e, G, x, p, a, y, K, L, c, cs)
    <3>1. CASE Refusal(e, G, X, W)
      <4>1. At3(X, Do("NextOutput"), X[3], X[4]) = ProxySide(L, x, Do("NextOutput"), a)
        BY <1>2, <2>2 DEF At3, ProxySide
      <4>2. x[1] = "toStore" /\ Talk(e, G, At3(X, Do("NextOutput"), X[3], X[4]), W)
        BY <1>2, <3>1 DEF Refusal
      <4>3. Talking(e, G, x, Do("NextOutput"), a, y, L)
        BY <1>1, <1>4, <4>1, <4>2 DEF Talking
      <4>4. QED
        BY <4>2, <4>3 DEF Stopped
    <3>2. CASE Unread(X, Y, W, c \in cs)
      <4>1. c \in cs /\ W = Y /\ Y[5] = <<>>
        BY <3>2 DEF Unread
      <4>2. CutShort(K, L, c, cs)
        BY <1>3, <2>4, <4>1 DEF CutShort
      <4>3. QED
        BY <4>2 DEF Stopped
    <3>3. CASE Unflushed(e, G, X, Y, W, c \in cs)
      <4>1. c \in cs /\ W = Y
        BY <3>3 DEF Unflushed
      <4>2. CASE Clear(Y)
        <5>1. CutShort(K, L, c, cs)
          BY <1>3, <2>4, <4>1, <4>2 DEF CutShort, Clear
        <5>2. QED
          BY <5>1 DEF Stopped
      <4>3. CASE ~Clear(Y)
        <5>1. X[1][1] = "toClient" /\ Clear(X) /\ Talk(e, G, At3(X, Do("ReadOp"), X[3], X[4]), Y)
          BY <3>3, <4>3 DEF Unflushed
        <5>2. At3(X, Do("ReadOp"), X[3], X[4]) = ProxySide(K, x, Do("ReadOp"), a)
          BY <1>2 DEF At3, ProxySide
        <5>3. Talking(e, G, x, Do("ReadOp"), a, y, K)
          BY <1>1, <5>1, <5>2 DEF Talking
        <5>4. x[1] = "toClient" /\ K[8] = <<>>
          BY <1>2, <5>1 DEF Clear
        <5>5. LateFlush(e, G, x, a, y, K, L, c, cs)
          BY <2>4, <4>1, <5>3, <5>4 DEF LateFlush
        <5>6. Head(p).k = "flush"
          BY <1>2, <3>3 DEF Unflushed
        <5>7. QED
          BY <5>5, <5>6 DEF Stopped
      <4>4. QED
        BY <4>2, <4>3
    <3>4. CASE Failed(e, G, X, Y, W)
      <4>1. Head(X[2]).k = "fail" /\ W = Y /\ Reached(e, G, X, Y)
        BY <3>4 DEF Failed
      <4>2. PICK g \in G : /\ g[1] = X[1] /\ g[2] = Pos(X) /\ g[2][1] = X[2] /\ g[3] = Y[1] /\ Rests(e, Y, g[4])
                           /\ g = <<X[1], Pos(X), Y[1], g[4]>>
        BY <4>1, ReachedGoal
      <4>3. g = <<x, <<p, a, K[6]>>, y, g[4]>> /\ Rests(e, PeerSide(K, y, q), g[4])
        BY <1>1, <1>2, <1>3, <4>2
      <4>4. K[7] = <<>> /\ K[8] = <<>>
        BY <1>2, <4>1 DEF Reached, Clear
      <4>5. Arrives(e, G, x, p, a, y, K)
        BY <4>3, <4>4 DEF Arrives
      <4>6. QED
        BY <1>2, <2>4, <4>1, <4>5 DEF Stopped
    <3>5. QED
      BY <2>1, <3>1, <3>2, <3>3, <3>4
  <2>7. QED
    BY <2>1, <2>5, <2>6 DEF ProxyWell, Minded
<1>7. QED
  BY <1>5, <1>6 DEF ProxyGoesOn

\* The proxy by the peers it talks to.
ProxyRoles == {"toClient", "toBuilder", "toSigning", "toStore"}

\* The version of the proxy is the same on all its connections.
LEMMA ProxyOwn ==
  ASSUME NEW e, NEW x, x[1] \in ProxyRoles
  PROVE  OwnVersion("proxy") = Own(e, x)
<1>1. x[1] \notin Conn \union {"reader", "done"}
  BY DEF ProxyRoles, Conn
<1>2. QED
  BY <1>1 DEF Own, OwnVersion

\* A step of the proxy on the connection it uses.
ProxyKeeps(e, G, x, p, a, c, y, K, L) ==
  /\ misread' = misread /\ L[1] = K[1] /\ L[2] = K[2]
  /\ ProxyWell(e, G, x, p, a, todo'["proxy"], mem'["proxy"], y, K, L, Do(OnError[phase]), c, closed)

\* A step of the proxy on the connection that it uses is a move of its
\* conversation, or breaks it off.
LEMMA ProxyStep ==
  ASSUME Shape, Step("proxy"), NEW e, e = env, NEW c, c = At[phase], NEW K, NEW L, IsConv(c, K, L),
         NEW G, NEW x, x[1] \in ProxyRoles, NEW y, NEW p, p = todo["proxy"], NEW a, a = mem["proxy"],
         Talking(e, G, x, p, a, y, K)
  PROVE  Frame("proxy") /\ ProxyKeeps(e, G, x, p, a, c, y, K, L)
<1>1. OwnVersion("proxy") = Own(e, x)
  BY ProxyOwn
<1>2. "proxy" \in Party /\ ConnOf("proxy") = c /\ c \in Conn /\ c # "proxy" /\ c \in Party
  <2>1. "proxy" \in Party
    BY DEF Party
  <2>2. ConnOf("proxy") = c /\ c \in Conn
    BY <2>1, Links
  <2>3. QED
    BY <2>1, <2>2 DEF Conn, Party
<1>3. Frame("proxy")
  BY <1>2, Steps
<1>4. PICK bad \in BOOLEAN :
        /\ Misread("proxy", bad)
        /\ \A z, u, r, b : StepsTo("proxy", z, u, r, b, After("proxy", z), YourAfter("proxy", u, r, b), bad)
  BY <1>2, Steps
<1>5. PICK q : Goals(G) /\ Stays(K, q) /\ Talk(e, G, ProxySide(K, x, p, a), PeerSide(K, y, q))
  BY DEF Talking
<1>6. StepsTo("proxy", x, y, q, K[2], After("proxy", x), YourAfter("proxy", y, q, K[2]), bad)
  BY <1>4
<1>7. PICK X, Y, Z, W : /\ X = ProxySide(K, x, p, a) /\ Y = PeerSide(K, y, q)
                        /\ Z = ProxySide(L, x, todo'["proxy"], mem'["proxy"]) /\ W = PeerSide(L, y, q)
  OBVIOUS
<1>8. todo'[c] = todo[c] /\ mem'[c] = mem[c]
  BY <1>2, <1>3 DEF Frame
<1>9. X = MyEnd("proxy", x) /\ Y = YourEnd("proxy", y, q, K[2]) /\ Z = After("proxy", x)
      /\ W = YourAfter("proxy", y, q, K[2]) /\ L[1] = K[1] /\ L[2] = K[2]
  BY <1>7, <1>8, ProxyEnds
<1>10. X[3] = mem["proxy"] /\ X[4] = version[Out("proxy")]
  BY <1>9 DEF MyEnd
<1>11. PICK own, land, r, b, cs : /\ own = Own(e, x) /\ land = Do(OnError[phase]) /\ r = todo'["proxy"]
                                  /\ b = mem'["proxy"] /\ cs = closed
  OBVIOUS
<1>12. ProxyGoesOn(own, X, Y, Z, W, land, c, cs, bad)
  <2>1. \/ Moves(OwnVersion("proxy"), X, Y, Z, W, bad)
        \/ Breaks(X, Y, W, ConnOf("proxy") \in closed, bad) /\ Z = At3(X, Lands("proxy"), mem["proxy"], version[Out("proxy")])
    BY <1>6, <1>9 DEF StepsTo
  <2>2. Lands("proxy") = land
    BY <1>11 DEF Lands
  <2>3. QED
    BY <1>1, <1>2, <1>10, <1>11, <2>1, <2>2 DEF ProxyGoesOn
<1>13. ProxyPlaces(K, L, x, p, a, r, b, y, q, X, Y, Z, W)
  BY <1>7, <1>11 DEF ProxyPlaces
<1>14. Eight(K) /\ Eight(L)
  BY DEF Eight, IsConv, ConvOf
<1>15. Talk(e, G, X, Y)
  BY <1>5, <1>7
<1>16. ~bad /\ ProxyWell(e, G, x, p, a, r, b, y, K, L, land, c, cs)
  BY <1>5, <1>9, <1>11, <1>12, <1>13, <1>14, <1>15, ProxyMoves
<1>17. misread' = misread
  BY <1>4, <1>16 DEF Misread
<1>18. QED
  BY <1>3, <1>9, <1>11, <1>16, <1>17 DEF ProxyKeeps

\* The connections that a step does not use.
LEMMA FrameConn ==
  ASSUME Shape, NEW p \in Party, Frame(p), NEW d \in Conn, d # ConnOf(p), d # "client" \/ ~SinkGets(p)
  PROVE  ConvOf(d)' = ConvOf(d)
<1>1. d \in Party /\ d # p /\ ConnOf(p) \in Conn
  <2>1. ConnOf(p) \in Conn
    BY Links
  <2>2. QED
    BY <2>1, Links DEF Conn, Party
<1>2. todo'[d] = todo[d] /\ mem'[d] = mem[d]
  BY <1>1 DEF Frame
<1>3. PICK l, k : l = <<d, "proxy">> /\ k = <<"proxy", d>>
  BY Zenon
<1>4. l \in Link /\ k \in Link
  BY <1>3 DEF Link
<1>5. l \notin {Out(p), In(p)} /\ k \notin {Out(p), In(p)}
  <2>1. \E c \in Conn : c # d /\ {Out(p), In(p)} = {<<c, "proxy">>, <<"proxy", c>>}
    <3>1. CASE p = "proxy"
      BY <3>1, <1>1, Links, ZenonT(60)
    <3>2. CASE p # "proxy"
      BY <3>2, <1>1, Links
    <3>3. QED
      BY <3>1, <3>2
  <2>2. PICK c \in Conn : c # d /\ {Out(p), In(p)} = {<<c, "proxy">>, <<"proxy", c>>}
    BY <2>1
  <2>3. c # "proxy" /\ d # "proxy"
    BY DEF Conn
  <2>4. l \notin {<<c, "proxy">>, <<"proxy", c>>} /\ k \notin {<<c, "proxy">>, <<"proxy", c>>}
    BY <1>3, <2>2, <2>3
  <2>5. QED
    BY <2>2, <2>4
<1>6. ~(l = Sink /\ SinkGets(p)) /\ ~(k = Sink /\ SinkGets(p))
  <2>1. l # Sink
    BY <1>3 DEF Sink, Conn
  <2>2. k = Sink => d = "client"
    BY <1>3 DEF Sink
  <2>3. QED
    BY <2>1, <2>2
<1>7. /\ version'[l] = version[l] /\ wire'[l] = wire[l] /\ buf'[l] = buf[l]
      /\ version'[k] = version[k] /\ wire'[k] = wire[k] /\ buf'[k] = buf[k]
  BY <1>4, <1>5, <1>6 DEF Frame
<1>8. QED
  BY <1>2, <1>3, <1>7 DEF ConvOf

\* The client's buffer gets what the builder says.
Gets(K, w) == <<K[1], K[2], K[3], K[4], K[5], K[6], K[7], K[8] \o w>>

\* What the builder says goes to the buffer of the client, and nowhere else.
LEMMA SinkConn ==
  ASSUME Shape, Frame("proxy"), SinkGets("proxy"), NEW i, i = Now("proxy"), NEW a, a = mem["proxy"]
  PROVE  ConvOf("client")' = Gets(ConvOf("client"), WriteStderr(i.f, a.fields))
<1>1. "proxy" \in Party /\ "client" \in Party /\ "client" \in Conn
  BY DEF Party, Conn
<1>2. Out("proxy") = <<"proxy", "builder">> /\ In("proxy") = <<"builder", "proxy">>
  <2>1. phase = "build" /\ At["build"] = "builder"
    BY DEF SinkGets, At
  <2>2. QED
    BY <1>1, <2>1, Links
<1>3. todo'["client"] = todo["client"] /\ mem'["client"] = mem["client"]
  BY <1>1 DEF Frame
<1>4. PICK l, k : l = <<"client", "proxy">> /\ k = <<"proxy", "client">>
  BY Zenon
<1>5. l \in Link /\ k \in Link /\ k = Sink /\ l # Sink
  BY <1>1, <1>4 DEF Link, Sink
<1>6. l \notin {Out("proxy"), In("proxy")} /\ k \notin {Out("proxy"), In("proxy")}
  BY <1>2, <1>4
<1>7. /\ version'[l] = version[l] /\ wire'[l] = wire[l] /\ buf'[l] = buf[l]
      /\ version'[k] = version[k] /\ wire'[k] = wire[k] /\ buf'[k] = buf[k] \o WriteStderr(i.f, a.fields)
  BY <1>5, <1>6, Zenon DEF Frame
<1>8. QED
  BY <1>3, <1>4, <1>7, Zenon DEF ConvOf, Gets

-----------------------------------------------------------------------------
(* What the parties know *)

\* A read changes at most one of the things that a party keeps: a result of a
\* build only if it reads one.
Learnt(a, i, w, b) ==
  \/ b = a
  \/ \E k, t :
       /\ k \in MemNames /\ b = Set1(a, k, t)
       /\ k \in {"status", "cpu", "outs", "drv"} => i.f \in Results
       /\ k = "outs" => i.f = "json" /\ t = a.outs \union {<<w.o, w.s>>}
       /\ k = "fields" => t = <<>> \/ t = Append(a.fields, w.n)

\* A read changes one thing that is known at most.
LEMMA LearnSets ==
  ASSUME NEW a, NEW i, NEW w
  PROVE  Learnt(a, i, w, Learn(a, i, w))
<1> DEFINE b == Learn(a, i, w)
<1>1. ASSUME NEW k \in MemNames, NEW t, b = Set1(a, k, t), k \in {"status", "cpu", "outs", "drv"} => i.f \in Results,
             k = "outs" => i.f = "json" /\ t = a.outs \union {<<w.o, w.s>>},
             k = "fields" => t = <<>> \/ t = Append(a.fields, w.n)
      PROVE  Learnt(a, i, w, b)
  BY <1>1 DEF Learnt
<1>2. CASE i.f = "status"
  <2>1. b = Set1(a, "status", w.n)
    BY <1>2 DEF Learn, Set1
  <2>2. QED
    BY <1>1, <1>2, <2>1 DEF MemNames, Results
<1>3. CASE i.f = "cpuUser"
  <2>1. b = Set1(a, "cpu", TRUE)
    BY <1>3, Zenon DEF Learn, Set1
  <2>2. QED
    BY <1>1, <1>3, <2>1, Zenon DEF MemNames, Results
<1>4. CASE i.f = "json"
  <2>1. b = Set1(a, "outs", a.outs \union {<<w.o, w.s>>})
    BY <1>4 DEF Learn, Set1
  <2>2. QED
    BY <1>1, <1>4, <2>1, Zenon DEF MemNames, Results
<1>5. CASE i.f = "outPath"
  <2>1. b = Set1(a, "drv", a.drv \union {w.o})
    BY <1>5 DEF Learn, Set1
  <2>2. QED
    BY <1>1, <1>5, <2>1, Zenon DEF MemNames, Results
<1>6. CASE i.f = "act"
  <2>1. b = Set1(a, "fields", <<>>)
    BY <1>6 DEF Learn, Set1
  <2>2. QED
    BY <1>1, <1>6, <2>1 DEF MemNames, Results
<1>7. CASE i.f = "fieldType"
  <2>1. b = Set1(a, "fields", Append(a.fields, w.n))
    BY <1>7, Zenon DEF Learn, Set1
  <2>2. QED
    BY <1>1, <1>7, <2>1, Zenon DEF MemNames, Results
<1>8. CASE i.f = "path"
  <2>1. b = Set1(a, "path", w.o)
    BY <1>8 DEF Learn, Set1
  <2>2. QED
    BY <1>1, <1>8, <2>1 DEF MemNames, Results
<1>9. CASE i.f = "sig" /\ i.k = "str"
  <2>1. b = Set1(a, "sig", <<w.o, w.s>>)
    BY <1>9 DEF Learn, Set1
  <2>2. QED
    BY <1>1, <1>9, <2>1 DEF MemNames, Results
<1>10. CASE i.f = "narHash"
  <2>1. b = Set1(a, "narHash", Owner("narHash", w))
    BY <1>10 DEF Learn, Set1
  <2>2. QED
    BY <1>1, <1>10, <2>1 DEF MemNames, Results
<1>11. CASE i.f = "narSize"
  <2>1. b = Set1(a, "narSize", Owner("narSize", w))
    BY <1>11 DEF Learn, Set1
  <2>2. QED
    BY <1>1, <1>11, <2>1 DEF MemNames, Results
<1>12. CASE i.f \notin Kept \/ (i.f = "sig" /\ i.k # "str")
  <2>1. b = a
    BY <1>12 DEF Learn, Kept
  <2>2. QED
    BY <2>1 DEF Learnt
<1>13. QED
  BY <1>2, <1>3, <1>4, <1>5, <1>6, <1>7, <1>8, <1>9, <1>10, <1>11, <1>12 DEF Kept

\* The result of a build that a party knows.
SameResult(a, b) == b.status = a.status /\ b.cpu = a.cpu /\ b.outs = a.outs /\ b.drv = a.drv

\* What is known of a result changes only for an end that reads one.
LEMMA LearnMem ==
  ASSUME NEW x, NEW a, IsMem(a), NEW b, Minded(x, a, b)
  PROVE  /\ IsMem(b) /\ (IsSeq(a.fields) => IsSeq(b.fields))
         /\ ~Learns(x) => SameResult(a, b)
         /\ x[1] = "reader" => b.outs \subseteq a.outs \union x[2]
<1>1. CASE b = a
  BY <1>1 DEF SameResult
<1>2. CASE b # a
  <2>1. PICK i, w : b = Learn(a, i, w) /\ Minds(x, i.f, w)
    BY <1>2 DEF Minded
  <2>2. Learnt(a, i, w, b)
    BY <2>1, LearnSets
  <2>3. PICK k, t : /\ k \in MemNames /\ b = Set1(a, k, t)
                    /\ k \in {"status", "cpu", "outs", "drv"} => i.f \in Results
                    /\ k = "outs" => i.f = "json" /\ t = a.outs \union {<<w.o, w.s>>}
                    /\ k = "fields" => t = <<>> \/ t = Append(a.fields, w.n)
    BY <1>2, <2>2 DEF Learnt
  <2>4. IsMem(b) /\ b[k] = t /\ \A j \in MemNames : j # k => b[j] = a[j]
    BY <2>3, MemSet
  <2>5. IsSeq(a.fields) => IsSeq(b.fields)
    <3>1. CASE k # "fields"
      <4>1. b["fields"] = a["fields"]
        BY <2>4, <3>1 DEF MemNames
      <4>2. QED
        BY <4>1
    <3>2. CASE k = "fields"
      <4>1. b.fields = t
        BY <2>4, <3>2
      <4>2. CASE t = <<>>
        BY <4>1, <4>2, Nil
      <4>3. CASE t = Append(a.fields, w.n)
        <5>1. SUFFICES ASSUME NEW T, a.fields \in Seq(T) PROVE IsSeq(b.fields)
          BY DEF IsSeq
        <5>2. a.fields \in Seq(T \union {w.n}) /\ w.n \in T \union {w.n}
          BY <5>1
        <5>3. Append(a.fields, w.n) \in Seq(T \union {w.n})
          BY <5>2
        <5>4. QED
          BY <4>1, <4>3, <5>3 DEF IsSeq
      <4>4. QED
        BY <2>3, <3>2, <4>2, <4>3
    <3>3. QED
      BY <3>1, <3>2
  <2>6. ~Learns(x) => SameResult(a, b)
    <3>1. SUFFICES ASSUME ~Learns(x) PROVE SameResult(a, b)
      OBVIOUS
    <3>2. k \notin {"status", "cpu", "outs", "drv"}
      BY <2>1, <2>3, <3>1 DEF Minds
    <3>3. b["status"] = a["status"] /\ b["cpu"] = a["cpu"] /\ b["outs"] = a["outs"] /\ b["drv"] = a["drv"]
      BY <2>4, <3>2 DEF MemNames
    <3>4. QED
      BY <3>3 DEF SameResult
  <2>7. x[1] = "reader" => b.outs \subseteq a.outs \union x[2]
    <3>1. SUFFICES ASSUME x[1] = "reader" PROVE b.outs \subseteq a.outs \union x[2]
      OBVIOUS
    <3>2. CASE k = "outs"
      <4>1. b.outs = a.outs \union {<<w.o, w.s>>}
        BY <2>3, <2>4, <3>2
      <4>2. <<w.o, w.s>> \in x[2]
        BY <2>1, <2>3, <3>1, <3>2 DEF Minds, Results
      <4>3. QED
        BY <4>1, <4>2
    <3>3. CASE k # "outs"
      <4>1. b["outs"] = a["outs"]
        BY <2>4, <3>3 DEF MemNames
      <4>2. QED
        BY <4>1
    <3>4. QED
      BY <3>2, <3>3
  <2>8. QED
    BY <2>4, <2>5, <2>6, <2>7
<1>3. QED
  BY <1>1, <1>2

-----------------------------------------------------------------------------
(* The other steps of a peer *)

\* The peer of K with another program.
WithProgram(K, q) == <<q, K[2], K[3], K[4], K[5], K[6], K[7], K[8]>>
\* A connection whose peer waits at s, or is about to.
RestingAt(e, y, s, K) == \E q : Stays(K, q) /\ Rests(e, PeerSide(K, y, q), s)
\* The peer is at the part l of its program.
IsAt(K, l) == K[1] # <<>> /\ Head(K[1]).k = "do" /\ Head(K[1]).f = l

\* Another program leaves the rest of a connection alone.
LEMMA WithProgramParts ==
  ASSUME NEW K, NEW q, NEW L, L = WithProgram(K, q), NEW y, NEW r, NEW x, NEW p, NEW a
  PROVE  /\ L[1] = q /\ L[2] = K[2] /\ L[3] = K[3] /\ L[4] = K[4] /\ L[5] = K[5] /\ L[6] = K[6]
         /\ L[7] = K[7] /\ L[8] = K[8]
         /\ PeerSide(L, y, r) = PeerSide(K, y, r) /\ ProxySide(L, x, p, a) = ProxySide(K, x, p, a)
<1>1. /\ L[1] = q /\ L[2] = K[2] /\ L[3] = K[3] /\ L[4] = K[4] /\ L[5] = K[5] /\ L[6] = K[6]
      /\ L[7] = K[7] /\ L[8] = K[8]
  BY DEF WithProgram
<1>2. QED
  BY <1>1 DEF PeerSide, ProxySide

\* A conversation depends on the program of the peer by its place only.
LEMMA WithProgramAt ==
  ASSUME NEW K, NEW q, NEW L, L = WithProgram(K, q), NEW y, NEW r, NEW z
  PROVE  /\ L[1] = q /\ PeerSide(L, y, r) = PeerSide(K, y, r)
         /\ At3(PeerSide(K, y, z), r, K[2], K[3]) = PeerSide(K, y, r)
<1>1. /\ L[1] = q /\ L[2] = K[2] /\ L[3] = K[3] /\ L[4] = K[4] /\ L[5] = K[5]
  BY DEF WithProgram
<1>2. QED
  BY <1>1 DEF PeerSide, At3

\* A peer that leaves, or dies.
LEMMA TalkingGone ==
  ASSUME NEW e, NEW G, NEW x, NEW p, NEW a, NEW y, NEW K, Talking(e, G, x, p, a, y, K)
  PROVE  Talking(e, G, x, p, a, y, WithProgram(K, <<>>))
<1>1. PICK q : Goals(G) /\ Stays(K, q) /\ Talk(e, G, ProxySide(K, x, p, a), PeerSide(K, y, q))
  BY DEF Talking
<1>2. PICK L : L = WithProgram(K, <<>>)
  OBVIOUS
<1>3. L[1] = <<>> /\ PeerSide(L, y, q) = PeerSide(K, y, q) /\ ProxySide(L, x, p, a) = ProxySide(K, x, p, a)
  BY <1>2, WithProgramParts
<1>4. QED
  BY <1>1, <1>2, <1>3 DEF Talking, Stays

\* A peer that waits may go away.
LEMMA RestingGone ==
  ASSUME NEW e, NEW y, NEW s, NEW K, RestingAt(e, y, s, K)
  PROVE  RestingAt(e, y, s, WithProgram(K, <<>>))
<1>1. PICK q : Stays(K, q) /\ Rests(e, PeerSide(K, y, q), s)
  BY DEF RestingAt
<1>2. PICK L : L = WithProgram(K, <<>>)
  OBVIOUS
<1>3. L[1] = <<>> /\ PeerSide(L, y, q) = PeerSide(K, y, q)
  BY <1>2 DEF WithProgram, PeerSide
<1>4. QED
  BY <1>1, <1>2, <1>3 DEF RestingAt, Stays

\* A peer at a part of its program: it enters it, or has reached a goal.
LEMMA TalkingDo ==
  ASSUME NEW e, NEW G, NEW x, NEW p, NEW a, NEW y, NEW K, Talking(e, G, x, p, a, y, K), NEW l, IsAt(K, l), K[1] # Do("leave"),
         y[1] \in Peers, PeerGoals(G, y)
  PROVE  \/ Reached(e, G, PeerSide(K, y, K[1]), ProxySide(K, x, p, a))
         \/ \E q : /\ K[1] = Do(l) /\ EntersAs(e, y, l, K[2], MinorOf(K[3]), q) /\ q # Do("leave")
                   /\ Talking(e, G, x, p, a, y, WithProgram(K, q))
<1>1. PICK q : Goals(G) /\ Stays(K, q) /\ Talk(e, G, ProxySide(K, x, p, a), PeerSide(K, y, q))
  BY DEF Talking
<1>2. K[1] = q
  BY <1>1 DEF Stays, IsAt
<1>3. PICK X, Y : X = PeerSide(K, y, K[1]) /\ Y = ProxySide(K, x, p, a)
  OBVIOUS
<1>4. Talk(e, G, X, Y)
  BY <1>1, <1>2, <1>3 DEF Talk
<1>5. X[1] = y /\ X[2] = K[1] /\ X[3] = K[2] /\ X[4] = K[3]
  BY <1>3, PeerParts
<1>6. Head(X[2]).k = "do" /\ Head(X[2]).f = l
  BY <1>5 DEF IsAt
<1>7. \/ Reached(e, G, X, Y)
      \/ \E r : Enters(e, X[1], X[2], X[3], X[4], r) /\ Talk(e, G, At3(X, r, X[3], X[4]), Y)
  BY <1>1, <1>4, <1>6, TalkDo
<1>8. CASE \E r : Enters(e, X[1], X[2], X[3], X[4], r) /\ Talk(e, G, At3(X, r, X[3], X[4]), Y)
  <2>1. PICK r : Enters(e, X[1], X[2], X[3], X[4], r) /\ Talk(e, G, At3(X, r, X[3], X[4]), Y)
    BY <1>8
  <2>2. X[2] = Do(l) /\ EntersAs(e, X[1], l, X[3], MinorOf(X[4]), r)
    BY <1>6, <2>1, EntersNamed
  <2>3. PICK L : L = WithProgram(K, r)
    OBVIOUS
  <2>4. /\ L[1] = r /\ PeerSide(L, y, r) = PeerSide(K, y, r) /\ ProxySide(L, x, p, a) = ProxySide(K, x, p, a)
        /\ At3(PeerSide(K, y, K[1]), r, K[2], K[3]) = PeerSide(K, y, r)
    BY <2>3, WithProgramParts, WithProgramAt
  <2>5. Talk(e, G, ProxySide(L, x, p, a), PeerSide(L, y, r))
    BY <1>3, <1>5, <2>1, <2>4 DEF Talk
  <2>6. Talking(e, G, x, p, a, y, L)
    BY <1>1, <2>4, <2>5 DEF Talking, Stays
  <2>7. r # Do("leave")
    <3>1. PeerSide(L, y, r)[1] = y /\ PeerSide(L, y, r)[2] = r
      BY PeerParts
    <3>2. QED
      BY <1>1, <2>5, <3>1, NotLeaving DEF Peers
  <2>8. QED
    BY <1>5, <2>2, <2>3, <2>6, <2>7
<1>9. QED
  BY <1>3, <1>7, <1>8
\* A peer that waits, or is about to, does not leave.
LEMMA RestNotLeaving ==
  ASSUME NEW e, NEW Y, Y[1][1] \in Peers, NEW s, Rests(e, Y, s)
  PROVE  Y[2] # Do("leave")
<1>1. SUFFICES ASSUME Y[2] = Do("leave") PROVE FALSE
  OBVIOUS
<1>2. PICK i : i = Head(Y[2])
  OBVIOUS
<1>3. i.k = "do" /\ i.f = "leave" /\ Y[1][1] # "toClient"
  BY <1>1, <1>2, Named DEF Peers, Clients
<1>4. PICK q : Enters(e, Y[1], Y[2], Y[3], Y[4], q)
  BY <1>2, <1>3, RestsKinds
<1>5. EntersAs(e, Y[1], "leave", Y[3], MinorOf(Y[4]), q)
  BY <1>2, <1>3, <1>4, EntersNamed
<1>6. QED
  BY <1>5 DEF EntersAs, Peers, DaemonParts

\* A peer that is about to wait enters a part of its program.
LEMMA RestingDo ==
  ASSUME NEW e, NEW y, y[1] \in Peers, NEW s, NEW K, RestingAt(e, y, s, K), NEW l, IsAt(K, l), K[1] # Do("leave")
  PROVE  \E q : /\ K[1] = Do(l) /\ EntersAs(e, y, l, K[2], MinorOf(K[3]), q) /\ q # Do("leave")
                /\ RestingAt(e, y, s, WithProgram(K, q))
<1>1. PICK q : Stays(K, q) /\ Rests(e, PeerSide(K, y, q), s)
  BY DEF RestingAt
<1>2. K[1] = q
  BY <1>1 DEF Stays, IsAt
<1>3. PICK X : X = PeerSide(K, y, K[1])
  OBVIOUS
<1>4. Rests(e, X, s)
  BY <1>1, <1>2, <1>3
<1>5. X[1] = y /\ X[2] = K[1] /\ X[3] = K[2] /\ X[4] = K[3]
  BY <1>3, PeerParts
<1>6. Head(X[2]).k = "do" /\ Head(X[2]).f = l
  BY <1>5 DEF IsAt
<1>7. PICK r : Enters(e, X[1], X[2], X[3], X[4], r) /\ Rests(e, At3(X, r, X[3], X[4]), s)
  <2>1. PICK i : i = Head(X[2])
    OBVIOUS
  <2>2. i.k = "do"
    BY <1>6, <2>1
  <2>3. X[1][1] # "toClient"
    BY <1>5 DEF Peers, Clients
  <2>4. QED
    BY <1>4, <2>1, <2>2, <2>3, RestsKinds
<1>8. X[2] = Do(l) /\ EntersAs(e, X[1], l, X[3], MinorOf(X[4]), r)
  BY <1>6, <1>7, EntersNamed
<1>9. PICK L : L = WithProgram(K, r)
  OBVIOUS
<1>10. /\ L[1] = r /\ PeerSide(L, y, r) = PeerSide(K, y, r)
       /\ At3(PeerSide(K, y, K[1]), r, K[2], K[3]) = PeerSide(K, y, r)
  BY <1>9, WithProgramAt
<1>11. RestingAt(e, y, s, L)
  <2>1. Rests(e, PeerSide(L, y, r), s)
    BY <1>3, <1>5, <1>7, <1>10
  <2>2. QED
    BY <1>10, <2>1 DEF RestingAt, Stays
<1>12. r # Do("leave")
  <2>1. At3(X, r, X[3], X[4])[1] = y /\ At3(X, r, X[3], X[4])[2] = r
    BY <1>5, AtParts
  <2>2. QED
    BY <1>7, <2>1, RestNotLeaving
<1>13. QED
  BY <1>5, <1>8, <1>9, <1>11, <1>12

\* The proxy.
Program == todo["proxy"]
Knows == mem["proxy"]
\* What a step of the peer of c leaves alone.
Alone(c) ==
  /\ Shape' /\ Program' = Program /\ Knows' = Knows
  /\ \A d \in Conn : d # c => ConvOf(d)' = ConvOf(d)
  /\ UNCHANGED <<env, phase, toSign, cancelled>>
\* A change of the program of a peer, and of nothing else about it.
LEMMA OnlyProgram ==
  ASSUME Shape, NEW c \in Conn, NEW K, NEW L, IsConv(c, K, L), NEW q, PeerGoes(c, q),
         UNCHANGED <<mem, version, buf, wire, env, phase, toSign, cancelled>>
  PROVE  L = WithProgram(K, q) /\ Alone(c)
<1>1. c \in Party /\ c # "proxy" /\ "proxy" \in Party
  BY DEF Conn, Party
<1>2. todo' = [todo EXCEPT ![c] = q] /\ DOMAIN todo = Party
  BY DEF PeerGoes, Shape
<1>3. todo'[c] = q /\ todo'["proxy"] = todo["proxy"] /\ DOMAIN todo' = Party
  BY <1>1, <1>2
<1>4. \A d \in Conn : d # c => todo'[d] = todo[d]
  BY <1>2 DEF Conn, Party
<1>5. L = WithProgram(K, q)
  <2>1. /\ K[2] = mem[c] /\ K[3] = version[<<c, "proxy">>] /\ K[4] = wire[<<c, "proxy">>]
        /\ K[5] = buf[<<c, "proxy">>] /\ K[6] = version[<<"proxy", c>>] /\ K[7] = wire[<<"proxy", c>>]
        /\ K[8] = buf[<<"proxy", c>>]
    BY ConvParts
  <2>2. L = ConvOf(c)'
    BY DEF IsConv
  <2>3. QED
    BY <1>3, <2>1, <2>2 DEF ConvOf, WithProgram
<1>6. \A d \in Conn : d # c => ConvOf(d)' = ConvOf(d)
  BY <1>4 DEF ConvOf
<1>7. Shape'
  BY <1>3 DEF Shape
<1>8. QED
  BY <1>3, <1>5, <1>6, <1>7 DEF Alone, Program, Knows

\* The steps of a peer, without those by which it takes a signature or has got
\* its answer.
HelloClient ==
  /\ PeerAt("client", "hello") /\ PeerGoes("client", ClientHello(env, M("client")))
  /\ UNCHANGED <<mem, version, buf, wire, misread, others>>
GotAnswer ==
  /\ PeerAt("client", "got") /\ answer' = "result" /\ PeerGoes("client", ClientSync)
  /\ UNCHANGED <<mem, version, buf, wire, misread, env, cancelled, closed, hung, phase, toSign, held, registered>>
Ordinary(c) ==
  \/ Step(c) \/ Leave(c) \/ Die(c) \/ Hang(c)
  \/ c = "client" /\ HelloClient
  \/ c # "client" /\ DaemonDo(c)

\* Every step of a peer is an ordinary one, or one of these two.
LEMMA PeerCases ==
  ASSUME NEW c \in Conn, PeerNext(c) \/ Die(c) \/ Hang(c)
  PROVE  Ordinary(c) \/ (c = "client" /\ GotAnswer) \/ (c = "store" /\ Register)
<1>1. c = "client" /\ ClientDo => c = "client" /\ (HelloClient \/ GotAnswer)
  BY DEF ClientDo, HelloClient, GotAnswer, others
<1>2. QED
  BY <1>1 DEF PeerNext, Ordinary

\* What else they change: a peer that goes away is gone, and a client that has
\* no answer then takes that for an error.
Goes1(c, K, L) ==
  /\ registered' = registered
  /\ closed' = closed \/ (closed' = closed \union {c} /\ L[1] = <<>> /\ (c \in env.dies \/ IsAt(K, "leave")))
  /\ \/ answer' = answer
     \/ c = "client" /\ answer = "none" /\ answer' = "error" /\ IsAt(K, "leave")
\* A change that leaves the words alone: the peer goes on, is gone, or enters a
\* part of its program.
Changes(e, c, K, L) ==
  \/ L = K
  \/ L = WithProgram(K, <<>>)
  \/ c = "client" /\ IsAt(K, "hello") /\ L = WithProgram(K, ClientHello(e, MinorOf(K[3])))
  \/ /\ c # "client"
     /\ \E l \in DaemonParts : IsAt(K, l) /\ L = WithProgram(K, DaemonServes(e, l, MinorOf(K[3]), K[2]))

\* A step of a peer on its connection leaves everything else alone.
LEMMA StepGoes ==
  ASSUME Shape, NEW c \in Conn, NEW K, NEW L, IsConv(c, K, L), Step(c)
  PROVE  Alone(c) /\ Goes1(c, K, L) /\ K[1] # <<>> /\ Frame(c)
<1>1. c \in Party /\ c # "proxy" /\ "proxy" \in Party
  BY DEF Conn, Party
<1>2. Frame(c) /\ todo[c] # <<>>
  BY <1>1, Steps
<1>3. ~SinkGets(c) /\ ~CutsOff(c) /\ ConnOf(c) = c
  BY <1>1, Links DEF SinkGets, CutsOff
<1>4. \A d \in Conn : d # c => ConvOf(d)' = ConvOf(d)
  BY <1>1, <1>2, <1>3, FrameConn
<1>5. Program' = Program /\ Knows' = Knows
  BY <1>1, <1>2 DEF Frame, Program, Knows
<1>6. Shape' /\ UNCHANGED <<env, phase, toSign, cancelled>> /\ registered' = registered /\ closed' = closed /\ answer' = answer
  BY <1>2, <1>3 DEF Frame, Shape
<1>7. K[1] = todo[c]
  BY ConvPeer
<1>8. QED
  BY <1>2, <1>4, <1>5, <1>6, <1>7 DEF Alone, Goes1

\* So does every ordinary step of a peer.
LEMMA OrdinaryGoes ==
  ASSUME Shape, NEW c \in Conn, NEW K, NEW L, IsConv(c, K, L), Ordinary(c), NEW e, e = env
  PROVE  /\ Alone(c) /\ Goes1(c, K, L)
         /\ Step(c) \/ (Changes(e, c, K, L) /\ misread' = misread)
         /\ K[1] = <<>> => ~Step(c)
<1>1. K[1] = todo[c] /\ K[2] = mem[c] /\ K[3] = version[<<c, "proxy">>]
  BY ConvPeer, ConvVersions, Zenon
<1>2. c \in Party /\ c # "proxy" /\ M(c) = MinorOf(K[3])
  <2>1. c \in Party /\ c # "proxy"
    BY DEF Conn, Party
  <2>2. Out(c) = <<c, "proxy">>
    BY <2>1, Links
  <2>3. QED
    BY <1>1, <2>1, <2>2 DEF M
<1>3. \A l : PeerAt(c, l) => IsAt(K, l)
  BY <1>1 DEF PeerAt, IsAt, Ready, Now
<1>4. CASE Step(c)
  BY <1>4, StepGoes
<1>5. CASE Leave(c)
  <2>1. /\ PeerAt(c, "leave") /\ PeerGoes(c, <<>>) /\ closed' = closed \union {c}
        /\ answer' = IF c = "client" /\ answer = "none" THEN "error" ELSE answer
        /\ UNCHANGED <<mem, version, buf, wire, misread, env, cancelled, phase, toSign, registered>>
    BY <1>5 DEF Leave
  <2>2. L = WithProgram(K, <<>>) /\ Alone(c)
    BY <2>1, OnlyProgram
  <2>3. L[1] = <<>>
    BY <2>2 DEF WithProgram
  <2>4. IsAt(K, "leave")
    BY <1>3, <2>1
  <2>5. Goes1(c, K, L)
    BY <2>1, <2>3, <2>4 DEF Goes1
  <2>6. K[1] = <<>> => ~Step(c)
    BY <2>4 DEF IsAt
  <2>7. QED
    BY <2>1, <2>2, <2>5, <2>6 DEF Changes
<1>6. CASE Die(c)
  <2>1. /\ c \in env.dies /\ PeerGoes(c, <<>>) /\ closed' = closed \union {c} /\ answer' = answer
        /\ UNCHANGED <<mem, version, buf, wire, misread, env, cancelled, phase, toSign, registered>>
    BY <1>6 DEF Die
  <2>2. L = WithProgram(K, <<>>) /\ Alone(c)
    BY <2>1, OnlyProgram
  <2>3. L[1] = <<>>
    BY <2>2 DEF WithProgram
  <2>4. Goes1(c, K, L)
    BY <2>1, <2>3 DEF Goes1
  <2>5. K[1] = <<>> => ~Step(c)
    BY <1>1, <1>2, Steps, Zenon
  <2>6. QED
    BY <2>1, <2>2, <2>4, <2>5 DEF Changes
<1>7. CASE Hang(c)
  <2>1. UNCHANGED <<todo, mem, version, buf, wire, misread, env, cancelled, closed, phase, toSign, registered, answer>>
    BY <1>7 DEF Hang, ends
  <2>2. L = K
    BY <2>1 DEF IsConv, ConvOf
  <2>3. \A d \in Conn : ConvOf(d)' = ConvOf(d)
    BY <2>1 DEF ConvOf
  <2>4. Alone(c)
    BY <2>1, <2>3 DEF Alone, Shape, Program, Knows
  <2>5. Goes1(c, K, L)
    BY <2>1 DEF Goes1
  <2>6. K[1] = <<>> => ~Step(c)
    BY <1>1, <1>2, Steps, Zenon
  <2>7. QED
    BY <2>1, <2>2, <2>4, <2>5, <2>6 DEF Changes
<1>8. CASE c = "client" /\ HelloClient
  <2>1. /\ PeerAt(c, "hello") /\ PeerGoes(c, ClientHello(e, M(c))) /\ closed' = closed /\ answer' = answer
        /\ UNCHANGED <<mem, version, buf, wire, misread, env, cancelled, phase, toSign, registered>>
    BY <1>8 DEF HelloClient, others
  <2>2. L = WithProgram(K, ClientHello(e, M(c))) /\ Alone(c)
    BY <2>1, OnlyProgram
  <2>3. IsAt(K, "hello")
    BY <1>3, <2>1
  <2>4. Goes1(c, K, L)
    BY <2>1 DEF Goes1
  <2>5. K[1] = <<>> => ~Step(c)
    BY <2>3 DEF IsAt
  <2>6. QED
    BY <1>2, <1>8, <2>1, <2>2, <2>3, <2>4, <2>5 DEF Changes
<1>9. CASE c # "client" /\ DaemonDo(c)
  <2>1. PICK l \in DaemonParts : PeerAt(c, l) /\ PeerGoes(c, DaemonServes(e, l, M(c), mem[c]))
    BY <1>9 DEF DaemonDo
  <2>2. /\ closed' = closed /\ answer' = answer
        /\ UNCHANGED <<mem, version, buf, wire, misread, env, cancelled, phase, toSign, registered>>
    BY <1>9 DEF DaemonDo, others
  <2>3. L = WithProgram(K, DaemonServes(e, l, M(c), mem[c])) /\ Alone(c)
    BY <2>1, <2>2, OnlyProgram
  <2>4. IsAt(K, l)
    BY <1>3, <2>1
  <2>5. Goes1(c, K, L)
    BY <2>2 DEF Goes1
  <2>6. K[1] = <<>> => ~Step(c)
    BY <2>4 DEF IsAt
  <2>7. Changes(e, c, K, L)
    BY <1>1, <1>2, <1>9, <2>1, <2>3, <2>4 DEF Changes
  <2>8. QED
    BY <2>2, <2>3, <2>5, <2>6, <2>7
<1>10. QED
  BY <1>4, <1>5, <1>6, <1>7, <1>8, <1>9 DEF Ordinary

\* A peer that talks leaves by the part of its program for that.
LEMMA LeaveNamed ==
  ASSUME NEW e, NEW G, NEW x, NEW p, NEW a, NEW y, NEW K, Talking(e, G, x, p, a, y, K), y[1] \in Peers, PeerGoals(G, y),
         IsAt(K, "leave")
  PROVE  K[1] = Do("leave")
<1>1. SUFFICES ASSUME K[1] # Do("leave") PROVE FALSE
  OBVIOUS
<1>2. ~Reached(e, G, PeerSide(K, y, K[1]), ProxySide(K, x, p, a))
  <2>1. SUFFICES ASSUME Reached(e, G, PeerSide(K, y, K[1]), ProxySide(K, x, p, a)) PROVE FALSE
    OBVIOUS
  <2>2. PICK X, Y : X = PeerSide(K, y, K[1]) /\ Y = ProxySide(K, x, p, a)
    OBVIOUS
  <2>3. X[1] = y /\ X[2] = K[1]
    BY <2>2, PeerParts
  <2>4. PICK g \in G : g[1] = X[1] /\ g[2][1] = X[2]
    BY <2>1, <2>2, ReachedGoal
  <2>5. QED
    BY <2>3, <2>4 DEF PeerGoals, IsAt
<1>3. PICK l : l = "leave"
  OBVIOUS
<1>4. PICK q : EntersAs(e, y, l, K[2], MinorOf(K[3]), q)
  BY <1>1, <1>2, <1>3, TalkingDo
<1>5. QED
  BY <1>3, <1>4 DEF EntersAs, Peers, DaemonParts

\* A peer that waits leaves by the part of its program for that.
LEMMA RestLeaveNamed ==
  ASSUME NEW e, NEW y, y[1] \in Peers, NEW s, NEW K, RestingAt(e, y, s, K), IsAt(K, "leave")
  PROVE  K[1] = Do("leave")
<1>1. SUFFICES ASSUME K[1] # Do("leave") PROVE FALSE
  OBVIOUS
<1>2. PICK l : l = "leave"
  OBVIOUS
<1>3. PICK q : EntersAs(e, y, l, K[2], MinorOf(K[3]), q)
  BY <1>1, <1>2, RestingDo
<1>4. QED
  BY <1>2, <1>3 DEF EntersAs, Peers, DaemonParts

\* The parts that a peer enters by itself are those of its conversation.
LEMMA EntersOwn ==
  ASSUME NEW e, NEW c \in Conn, NEW y, IsPeer(c, y), NEW l, NEW a, NEW m, NEW q, EntersAs(e, y, l, a, m, q)
  PROVE  /\ c = "client" => q = ClientHello(e, m)
         /\ c # "client" => q = DaemonServes(e, l, m, a)
<1>1. c = "client" => y[1] \in Clients
  BY DEF IsPeer, Clients
<1>2. c # "client" => y[1] \in {"builder", "store"}
  BY DEF IsPeer, Conn
<1>3. QED
  BY <1>1, <1>2 DEF EntersAs
\* A peer is at most at one part of its program, and not at an empty one.
AtPart(e, c, K, L, l) ==
  /\ IsAt(K, l) /\ K[1] # Do("leave")
  /\ c = "client" => L = WithProgram(K, ClientHello(e, MinorOf(K[3])))
  /\ c # "client" => L = WithProgram(K, DaemonServes(e, l, MinorOf(K[3]), K[2]))

\* A change is none, the end of the program, or the entry of a part.
LEMMA ChangesAt ==
  ASSUME NEW e, NEW c, NEW K, NEW L, Changes(e, c, K, L)
  PROVE  L = K \/ L = WithProgram(K, <<>>) \/ \E l \in DaemonParts : AtPart(e, c, K, L, l)
<1>1. \A l \in DaemonParts : IsAt(K, l) => K[1] # Do("leave")
  BY Named DEF IsAt, DaemonParts
<1>2. "hello" \in DaemonParts
  BY DEF DaemonParts
<1>3. QED
  BY <1>1, <1>2 DEF Changes, AtPart

\* A change of the program leaves the rest of the connection.
SameRest(K, L) == L[2] = K[2] /\ L[3] = K[3] /\ L[4] = K[4] /\ L[5] = K[5] /\ L[6] = K[6] /\ L[7] = K[7] /\ L[8] = K[8]

\* It leaves the rest of the connection alone.
LEMMA ChangesRest ==
  ASSUME NEW e, NEW c, NEW K, NEW L, Changes(e, c, K, L)
  PROVE  SameRest(K, L) /\ (K[1] = <<>> => L[1] = <<>>)
<1>1. \A q : SameRest(K, WithProgram(K, q)) /\ WithProgram(K, q)[1] = q
  BY DEF WithProgram, SameRest
<1>2. SameRest(K, K)
  BY DEF SameRest
<1>3. \A l : IsAt(K, l) => K[1] # <<>>
  BY DEF IsAt
<1>4. QED
  BY <1>1, <1>2, <1>3 DEF Changes

\* A conversation goes on after it.
LEMMA ChangesTalk ==
  ASSUME NEW e, NEW G, NEW x, NEW p, NEW a, NEW c \in Conn, NEW y, IsPeer(c, y), y[1] \in Peers, PeerGoals(G, y),
         NEW K, NEW L, Talking(e, G, x, p, a, y, K), Changes(e, c, K, L)
  PROVE  Talking(e, G, x, p, a, y, L) /\ (L[1] = Do("leave") => K[1] = Do("leave"))
<1>1. CASE L = K
  BY <1>1
<1>2. CASE L = WithProgram(K, <<>>)
  <2>1. L[1] = <<>>
    BY <1>2 DEF WithProgram
  <2>2. QED
    BY <1>2, <2>1, TalkingGone, Named
<1>3. ASSUME NEW l \in DaemonParts, AtPart(e, c, K, L, l)
      PROVE  Talking(e, G, x, p, a, y, L) /\ L[1] # Do("leave")
  <2>1. ~Reached(e, G, PeerSide(K, y, K[1]), ProxySide(K, x, p, a))
    <3>1. SUFFICES ASSUME Reached(e, G, PeerSide(K, y, K[1]), ProxySide(K, x, p, a)) PROVE FALSE
      OBVIOUS
    <3>2. PICK X, Y : X = PeerSide(K, y, K[1]) /\ Y = ProxySide(K, x, p, a)
      OBVIOUS
    <3>3. X[1] = y /\ X[2] = K[1]
      BY <3>2, PeerParts
    <3>4. PICK g \in G : g[1] = X[1] /\ g[2][1] = X[2]
      BY <3>1, <3>2, ReachedGoal
    <3>5. QED
      BY <1>3, <3>3, <3>4 DEF PeerGoals, IsAt, AtPart
  <2>2. PICK q : /\ EntersAs(e, y, l, K[2], MinorOf(K[3]), q) /\ q # Do("leave")
                 /\ Talking(e, G, x, p, a, y, WithProgram(K, q))
    BY <1>3, <2>1, TalkingDo DEF AtPart
  <2>3. /\ c = "client" => q = ClientHello(e, MinorOf(K[3]))
        /\ c # "client" => q = DaemonServes(e, l, MinorOf(K[3]), K[2])
    BY <2>2, EntersOwn
  <2>4. L = WithProgram(K, q)
    BY <1>3, <2>3 DEF AtPart
  <2>5. L[1] = q
    BY <2>4 DEF WithProgram
  <2>6. QED
    BY <2>2, <2>4, <2>5
<1>4. QED
  BY <1>1, <1>2, <1>3, ChangesAt

\* A peer that waits still does.
LEMMA ChangesRests ==
  ASSUME NEW e, NEW c \in Conn, NEW y, IsPeer(c, y), y[1] \in Peers, NEW s,
         NEW K, NEW L, RestingAt(e, y, s, K), Changes(e, c, K, L)
  PROVE  RestingAt(e, y, s, L) /\ (L[1] = Do("leave") => K[1] = Do("leave"))
<1>1. CASE L = K
  BY <1>1
<1>2. CASE L = WithProgram(K, <<>>)
  <2>1. L[1] = <<>>
    BY <1>2 DEF WithProgram
  <2>2. QED
    BY <1>2, <2>1, RestingGone, Named
<1>3. ASSUME NEW l \in DaemonParts, AtPart(e, c, K, L, l)
      PROVE  RestingAt(e, y, s, L) /\ L[1] # Do("leave")
  <2>2. PICK q : /\ EntersAs(e, y, l, K[2], MinorOf(K[3]), q) /\ q # Do("leave")
                 /\ RestingAt(e, y, s, WithProgram(K, q))
    BY <1>3, RestingDo DEF AtPart
  <2>3. /\ c = "client" => q = ClientHello(e, MinorOf(K[3]))
        /\ c # "client" => q = DaemonServes(e, l, MinorOf(K[3]), K[2])
    BY <2>2, EntersOwn
  <2>4. L = WithProgram(K, q)
    BY <1>3, <2>3 DEF AtPart
  <2>5. L[1] = q
    BY <2>4 DEF WithProgram
  <2>6. QED
    BY <2>2, <2>4, <2>5
<1>4. QED
  BY <1>1, <1>2, <1>3, ChangesAt

\* A peer that talks goes on talking with every step of its own.
PeerKept(e, G, x, p, a, c, y, K, L) ==
  /\ misread' = misread /\ Minded(y, K[2], L[2]) /\ L[3] \in {K[3], Full} /\ L[6] = K[6]
  /\ Talking(e, G, x, p, a, y, L)
  /\ L[1] = Do("leave") => K[1] = Do("leave") \/ c \in closed \/ \E g \in G : g[1] = y /\ Head(g[2][1]).k = "fail"
  /\ K[1] = <<>> => L[1] = <<>>

\* Every ordinary step of a peer that talks keeps the conversation.
LEMMA PeerTalks ==
  ASSUME Shape, NEW c \in Conn, Ordinary(c), NEW e, e = env, NEW G, NEW x, NEW p, NEW a, NEW y, IsPeer(c, y),
         PeerGoals(G, y), NEW K, NEW L, IsConv(c, K, L), Talking(e, G, x, p, a, y, K)
  PROVE  PeerKept(e, G, x, p, a, c, y, K, L)
<1>1. y[1] \in Peers
  BY PeerOwn
<1>2. CASE Step(c)
  <2>1. PeerKeeps(e, G, x, p, a, c, y, K, L) /\ L[6] = K[6]
    BY <1>2, PeerStep
  <2>2. K[1] # <<>>
    BY <1>2, StepGoes
  <2>3. QED
    BY <2>1, <2>2 DEF PeerKeeps, PeerKept
<1>3. CASE ~Step(c)
  <2>1. Changes(e, c, K, L) /\ misread' = misread
    BY <1>3, OrdinaryGoes
  <2>2. Talking(e, G, x, p, a, y, L) /\ (L[1] = Do("leave") => K[1] = Do("leave"))
    BY <1>1, <2>1, ChangesTalk
  <2>3. SameRest(K, L) /\ (K[1] = <<>> => L[1] = <<>>)
    BY <2>1, ChangesRest
  <2>4. QED
    BY <2>1, <2>2, <2>3 DEF SameRest, PeerKept, Minded
<1>4. QED
  BY <1>2, <1>3

\* A peer that waits, or is about to, goes on to: it finds nothing to read.
RestWell(e, y, s, c, cs, K, L) ==
  /\ L[2] = K[2] /\ L[3] = K[3] /\ L[6] = K[6] /\ L[7] = K[7] /\ L[8] = K[8]
  /\ RestingAt(e, y, s, L) /\ (L[1] = Do("leave") => c \in cs)

\* A peer that waits has nothing to read.
LEMMA RestMoves ==
  ASSUME NEW c, NEW e, NEW x, NEW p, NEW a, NEW y, y[1] \in Peers, NEW s, NEW K, NEW L, K[7] = <<>>,
         NEW X, NEW Y, NEW Z, NEW W, PeerPlaces(K, L, x, p, a, y, X, Y, Z, W), Rests(e, X, s),
         NEW bad \in BOOLEAN, NEW own, NEW cs, PeerGoesOn(own, X, Y, Z, W, c, cs, bad)
  PROVE  ~bad /\ RestWell(e, y, s, c, cs, K, L)
<1>0. /\ X = PeerSide(K, y, K[1]) /\ Y = ProxySide(K, x, p, a)
      /\ Z = PeerSide(L, y, L[1]) /\ W = ProxySide(L, x, p, a)
  BY DEF PeerPlaces
<1>1. /\ X[1] = y /\ X[2] = K[1] /\ X[3] = K[2] /\ X[4] = K[3] /\ X[5] = K[4] /\ X[6] = K[5]
      /\ Z[1] = y /\ Z[2] = L[1] /\ Z[3] = L[2] /\ Z[4] = L[3] /\ Z[5] = L[4] /\ Z[6] = L[5]
  BY <1>0, PeerParts
<1>2. /\ Y[4] = K[6] /\ Y[5] = K[7] /\ Y[6] = K[8] /\ W[4] = L[6] /\ W[5] = L[7] /\ W[6] = L[8]
  BY <1>0, ProxyParts
<1>3. X[1][1] # "toClient" /\ Y[5] = <<>>
  BY <1>1, <1>2 DEF Peers, Clients
<1>4. CASE Moves(own, X, Y, Z, W, bad)
  <2>1. Rests(e, Z, s) /\ W = Y /\ ~bad /\ Z[3] = X[3] /\ Z[4] = X[4]
    BY <1>3, <1>4, MovesRests
  <2>2. Z[2] # Do("leave")
    BY <1>1, <2>1, RestNotLeaving
  <2>3. RestingAt(e, y, s, L)
    BY <1>0, <2>1 DEF RestingAt, Stays
  <2>4. QED
    BY <1>1, <1>2, <2>1, <2>2, <2>3 DEF RestWell
<1>5. CASE Breaks(X, Y, W, c \in cs, bad) /\ Z = At3(X, Do("leave"), X[3], X[4])
  <2>1. W = Y /\ ~bad /\ c \in cs
    BY <1>3, <1>5, BreaksRests
  <2>2. Z[2] = Do("leave") /\ Z[3] = X[3] /\ Z[4] = X[4] /\ Z[5] = X[5] /\ Z[6] = X[6]
    BY <1>5, AtParts
  <2>3. X = PeerSide(L, y, K[1]) /\ L[1] = Do("leave")
    BY <1>0, <1>1, <2>2 DEF PeerSide
  <2>4. RestingAt(e, y, s, L)
    BY <2>3 DEF RestingAt, Stays
  <2>5. QED
    BY <1>1, <1>2, <2>1, <2>2, <2>4 DEF RestWell
<1>6. QED
  BY <1>4, <1>5 DEF PeerGoesOn
RestKept(e, y, s, c, K, L) ==
  /\ misread' = misread /\ L[2] = K[2] /\ L[3] = K[3] /\ L[6] = K[6] /\ L[7] = K[7] /\ L[8] = K[8]
  /\ RestingAt(e, y, s, L)
  /\ L[1] = Do("leave") => K[1] = Do("leave") \/ c \in closed
  /\ K[1] = <<>> => L[1] = <<>>

\* A step of a peer that waits, or is about to.
LEMMA RestStep ==
  ASSUME Shape, NEW c \in Conn, Step(c), NEW e, e = env, NEW y, IsPeer(c, y), NEW s,
         NEW K, NEW L, IsConv(c, K, L), K[7] = <<>>, RestingAt(e, y, s, K)
  PROVE  RestKept(e, y, s, c, K, L)
<1>1. y[1] \in Peers
  BY PeerOwn
<1>2. c \in Party /\ c # "proxy" /\ ConnOf(c) = c
  BY Links DEF Conn, Party
<1>3. K[1] # <<>>
  BY StepGoes
<1>4. PICK bad \in BOOLEAN : /\ Misread(c, bad)
                             /\ \A z, u, r, b : StepsTo(c, z, u, r, b, After(c, z), YourAfter(c, u, r, b), bad)
  BY <1>2, Steps
<1>5. PICK x, p, a : x = <<>> /\ p = <<>> /\ a = <<>>
  OBVIOUS
<1>6. PICK X, Y, Z, W : X = PeerSide(K, y, K[1]) /\ Y = ProxySide(K, x, p, a) /\ Z = PeerSide(L, y, L[1]) /\ W = ProxySide(L, x, p, a)
  OBVIOUS
<1>7. StepsTo(c, y, x, p, a, After(c, y), YourAfter(c, x, p, a), bad)
  BY <1>4
<1>8. MyEnd(c, y) = X /\ After(c, y) = Z /\ YourEnd(c, x, p, a) = Y /\ YourAfter(c, x, p, a) = W
  BY <1>6, PeerEnds
<1>9. X[3] = mem[c] /\ X[4] = version[Out(c)]
  BY <1>8 DEF MyEnd
<1>10. PICK own, cs : own = OwnVersion(c) /\ cs = closed
  OBVIOUS
<1>11. PeerGoesOn(own, X, Y, Z, W, c, cs, bad)
  BY <1>2, <1>7, <1>8, <1>9, <1>10 DEF StepsTo, Lands, PeerGoesOn
<1>12. PeerPlaces(K, L, x, p, a, y, X, Y, Z, W)
  BY <1>6 DEF PeerPlaces
<1>13. Rests(e, X, s)
  <2>1. PICK q : Stays(K, q) /\ Rests(e, PeerSide(K, y, q), s)
    BY DEF RestingAt
  <2>2. K[1] # Do("leave")
    <3>1. SUFFICES ASSUME todo[c] = Do("leave") PROVE FALSE
      BY ConvPeer
    <3>2. Now(c).k = "do"
      BY <3>1, Named DEF Now
    <3>3. QED
      BY <3>2 DEF Step, Read, ReadFails, WriteWords, FlushWords, Control, Reads
  <2>3. K[1] = q
    BY <1>3, <2>1, <2>2 DEF Stays
  <2>4. QED
    BY <1>6, <2>1, <2>3
<1>14. ~bad /\ RestWell(e, y, s, c, cs, K, L)
  BY <1>1, <1>11, <1>12, <1>13, RestMoves
<1>15. misread' = misread
  BY <1>4, <1>14 DEF Misread
<1>16. QED
  BY <1>3, <1>10, <1>14, <1>15 DEF RestWell, RestKept

\* Every ordinary step of a peer that waits leaves it waiting.
LEMMA PeerRests ==
  ASSUME Shape, NEW c \in Conn, Ordinary(c), NEW e, e = env, NEW y, IsPeer(c, y), NEW s,
         NEW K, NEW L, IsConv(c, K, L), K[7] = <<>>, RestingAt(e, y, s, K)
  PROVE  RestKept(e, y, s, c, K, L)
<1>1. y[1] \in Peers
  BY PeerOwn
<1>2. CASE Step(c)
  BY <1>2, RestStep
<1>3. CASE ~Step(c)
  <2>1. Changes(e, c, K, L) /\ misread' = misread
    BY <1>3, OrdinaryGoes
  <2>2. RestingAt(e, y, s, L) /\ (L[1] = Do("leave") => K[1] = Do("leave"))
    BY <1>1, <2>1, ChangesRests
  <2>3. SameRest(K, L) /\ (K[1] = <<>> => L[1] = <<>>)
    BY <2>1, ChangesRest
  <2>4. QED
    BY <2>1, <2>2, <2>3 DEF SameRest, RestKept
<1>4. QED
  BY <1>2, <1>3

\* A peer that is gone does nothing.
LEMMA PeerGone ==
  ASSUME Shape, NEW c \in Conn, Ordinary(c), NEW K, NEW L, IsConv(c, K, L), K[1] = <<>>
  PROVE  L[1] = <<>> /\ SameRest(K, L) /\ misread' = misread
<1>1. PICK e : e = env
  OBVIOUS
<1>2. Changes(e, c, K, L) /\ misread' = misread
  BY <1>1, OrdinaryGoes
<1>3. QED
  BY <1>2, ChangesRest

-----------------------------------------------------------------------------
(* The parts of a session *)

TheBuilder == Role("builder")
TheStore == Role("store")
ToBuilder == Role("toBuilder")
ToSigning == Role("toSigning")
ToStore == Role("toStore")

\* The outputs that the caller has to get, and an answer that has them.
Names(e) == IF e.status \in Success /\ e.outs = {} THEN Outputs ELSE e.outs
GotOK(e, b) == b.status = e.status /\ b.cpu = e.cpu /\ {q[1] : q \in b.outs} = Names(e)
\* A signature was made for the output it is shown for, and is registered.
Sound(S, rg) == \A q \in S : q[2] # 0 => q[1] = q[2] /\ q \in rg
\* The outputs that could be signed and are not yet are among T.
LeftIn(e, b, T) ==
  e.signs /\ e.status \in Success /\ e.trusted /\ "store" \notin e.dies =>
    \A q \in b.outs : q[2] = 0 /\ q[1] \in e.present \intersect e.signable => q[1] \in T
ResultOK(e, rg, b) ==
  GotOK(e, b) /\ IsFiniteSet(b.outs) /\ Sound(b.outs, rg) /\ \A q \in b.outs : q = <<q[1], q[2]>>
\* Why a build may end in an error.
Excuse(e, cn) ==
  ~e.supplied \/ e.error # "none" \/ e.dies # {} \/ e.hangs # {} \/ (e.caller = "job" /\ cn)

\* Where the conversations lead.
OpeningGoals ==
  {<<ToClient, <<Do("GetBuilder"), Asked, Full>>, Client, <<ReadMarker \o Expects(MinorOf(Full)), Nothing, Full>>>>}
BuildEnd(e) ==
  IF e.error = "none" THEN <<Do("BuildDone"), Told(Reported(e), Asked), Full>>
  ELSE <<FailIns \o AfterBuild(MinorOf(Full)), Asked, Full>>
BuildGoals(e) == {<<ToBuilder, BuildEnd(e), TheBuilder, <<ReadOp, Set1(Nothing, "drv", Outputs), Full>>>>}
Result(e) == Populated(Told(Reported(e), Asked))
SigningGoals(e) == {<<ToSigning, <<Do("NextOutput"), Result(e), Full>>, TheStore, <<ReadOp, Nothing, Full>>>>}
\* The work on the output o: it is left as it is, the store host takes its
\* signature, or has taken it, or does not.
SignsFor(a, o) == a.path = o /\ a.narHash = o /\ a.narSize = o
StoreGoal(e, rg, o, g) ==
  \E a, b :
    /\ IsMem(a) /\ a.fields = <<>> /\ IsMem(b)
    /\ \/ g = <<ToStore, <<Do("NextOutput"), a, Full>>, TheStore, <<ReadOp, b, Full>>>> /\ o \notin e.present \intersect e.signable
       \/ /\ g = <<TheStore, <<Do("register"), b, Full>>, ToStore, <<ReadMarker \o Do("Signed"), a, Full>>>>
          /\ b.sig = <<o, o>> /\ SignsFor(a, o)
       \/ g = <<ToStore, <<Do("Signed"), a, Full>>, TheStore, <<ReadOp, b, Full>>>> /\ <<o, o>> \in rg /\ SignsFor(a, o)
       \/ g = <<ToStore, <<FailIns \o Do("Signed"), a, Full>>, TheStore, <<ReadOp, b, Full>>>> /\ ~e.trusted
\* The answer to a client: it gets the result, or an error, or an error to what
\* it asks for after it got the result.
AnswerGoal(e, an, y, g) ==
  /\ g[1] = y /\ Place(g[2]) /\ Place(g[4])
  /\ \/ /\ g[2][1] = Do("got") /\ GotOK(e, g[2][2]) /\ LeftIn(e, g[2][2], {}) /\ g[2][3] = Full
        /\ \E a : g[4] = <<ReadOp, a, Full>>
     \/ g[2][1] = FailIns \o Expects(MinorOf(Full)) /\ Excuse(e, FALSE)
     \/ g[2][1] = FailIns /\ an = "result"

\* What the connections are like: the proxy is, was or will be at the program
\* and with the memory that a mode names.
BuilderIn(e, m, K) == Talking(e, BuildGoals(e), ToBuilder, m[1], m[2], TheBuilder, K)
SigningIn(e, p, a, K) == Talking(e, SigningGoals(e), ToSigning, p, a, TheStore, K)
AskingIn(e, rg, o, p, a, K) ==
  \E G : (\A g \in G : StoreGoal(e, rg, o, g)) /\ Talking(e, G, ToStore, p, a, TheStore, K)
RestsIn(e, K) ==
  K[6] = Full /\ K[7] = <<>> /\ K[8] = <<>> /\ \E b : IsMem(b) /\ RestingAt(e, TheStore, <<ReadOp, b, Full>>, K)
StoreIn(e, rg, m, K) ==
  \/ m[1] = "signing" /\ SigningIn(e, m[2], m[3], K)
  \/ m[1] = "asking" /\ AskingIn(e, rg, m[2], m[3], m[4], K)
  \/ m[1] = "rests" /\ RestsIn(e, K)
  \/ m[1] = "dead" /\ K[1] = <<>> /\ K[4] = <<>>
OpeningIn(e, p, a, K) == Talking(e, OpeningGoals, ToClient, p, a, Client, K)
\* What the builder said, in the client's buffer.
Hummed(e, h) ==
  IsSeq(h) /\ Whole(h) /\ \E t : IsSeq(t) /\ \A y : Hums(e, y, Full, h, Nothing, SetFields(Nothing, t))
IdleIn(e, K) ==
  /\ K[6] = Full /\ K[7] = <<>> /\ Hummed(e, K[8])
  /\ \E q : /\ Stays(K, q)
            /\ Rests(e, PeerSide(K, Client, q), <<ReadMarker \o Expects(MinorOf(Full)), Nothing, Full>>)
AnsweringIn(e, rg, an, p, a, K) ==
  \E G, y : /\ y[1] \in Clients /\ (\A g \in G : AnswerGoal(e, an, y, g))
            /\ y[1] = "reader" => Sound(y[2], rg) /\ an # "result"
            /\ Talking(e, G, ToClient, p, a, y, K)
ClientIn(e, rg, an, m, K) ==
  \/ m[1] = "opening" /\ OpeningIn(e, m[2], m[3], K)
  \/ m[1] = "idle" /\ IdleIn(e, K)
  \/ m[1] = "answering" /\ AnsweringIn(e, rg, an, m[2], m[3], K)
  \/ m[1] = "gone" /\ K[1] = <<>>
  \/ m[1] = "cut" /\ K[1] = <<>> /\ K[4] = <<>>

\* How the programs begin.
LEMMA FailHead ==
  /\ Head(FailIns).k = "fail" /\ Head(FailIns).f = ""
  /\ \A q : IsSeq(q) => Head(FailIns \o q).k = "fail" /\ Head(FailIns \o q).f = ""
<1>1. \A i, q : IsSeq(q) => Head(<<i>> \o q) = i
  BY FirstThen
<1>2. \A i : Head(<<i>>) = i
  BY One
<1>3. PICK i : i = Ins("fail", "", 0, <<>>)
  BY Zenon
<1>4. FailIns = <<i>> /\ i.k = "fail" /\ i.f = ""
  BY <1>3, Zenon DEF FailIns, Ins
<1>5. QED
  BY <1>1, <1>2, <1>4, Zenon

\* What the client expects, and what follows an error, are programs.
LEMMA PeerParts2 ==
  IsSeq(Expects(MinorOf(Full))) /\ IsSeq(AfterBuild(MinorOf(Full)))
<1>1. PICK m : m = MinorOf(Full)
  OBVIOUS
<1>2. IsSeq(ReadBuildResult(m))
  <2>1. PICK r : r = [status |-> 0, cpu |-> FALSE, outs |-> {}]
    BY Zenon
  <2>2. r.cpu \in BOOLEAN /\ IsFiniteSet(r.outs)
    BY <2>1, FS_EmptySet
  <2>3. m \in Nat /\ m >= 37
    BY <1>1, FullVersion
  <2>4. PICK x : x = ToBuilder
    OBVIOUS
  <2>5. Learns(x) /\ x[1] # "reader" /\ IsMem(Nothing)
    BY <2>4, Roles, NothingKnown DEF ToBuilder
  <2>6. Parses(0, x, 0, ReadBuildResult(m), WriteBuildResult(m, r), Nothing, Told(r, Nothing))
    BY <2>2, <2>3, <2>5, BuildResultRead
  <2>7. QED
    BY <2>6 DEF Parses
<1>3. QED
  BY <1>1, <1>2, Parts DEF Expects, AfterBuild
\* The goals are places of the conversations, and only the store host and the
\* client are at one by themselves.
LEMMA OpeningGoalsOK ==
  /\ Goals(OpeningGoals) /\ PeerGoals(OpeningGoals, Client)
  /\ \A g \in OpeningGoals : g[1] # Client
<1>1. PICK g : g = <<ToClient, <<Do("GetBuilder"), Asked, Full>>, Client, <<ReadMarker \o Expects(MinorOf(Full)), Nothing, Full>>>>
  BY Zenon
<1>2. OpeningGoals = {g}
  BY <1>1 DEF OpeningGoals
<1>3. g[1] = ToClient /\ g[2][1] = Do("GetBuilder") /\ Place(g[2]) /\ Place(g[4])
  BY <1>1 DEF Place
<1>4. ToClient # Client
  BY Roles
<1>5. QED
  BY <1>2, <1>3, <1>4, Named DEF Goals, PeerGoals

\* The same of the conversation with the builder.
LEMMA BuildGoalsOK ==
  ASSUME NEW e
  PROVE  /\ Goals(BuildGoals(e)) /\ PeerGoals(BuildGoals(e), TheBuilder)
         /\ \A g \in BuildGoals(e) : g[1] # TheBuilder
<1>1. PICK g : g = <<ToBuilder, BuildEnd(e), TheBuilder, <<ReadOp, Set1(Nothing, "drv", Outputs), Full>>>>
  BY Zenon
<1>2. BuildGoals(e) = {g}
  BY <1>1 DEF BuildGoals
<1>3. g[1] = ToBuilder /\ g[2] = BuildEnd(e) /\ Place(g[4])
  BY <1>1 DEF Place
<1>4. Place(BuildEnd(e)) /\ BuildEnd(e)[1] \in {Do("BuildDone"), FailIns \o AfterBuild(MinorOf(Full))}
  BY Zenon DEF BuildEnd, Place
<1>5. Head(BuildEnd(e)[1]).k \in {"do", "fail"}
  BY <1>4, FailHead, Named, PeerParts2, ZenonT(60)
<1>6. ToBuilder # TheBuilder
  BY Roles DEF ToBuilder, TheBuilder
<1>7. QED
  BY <1>2, <1>3, <1>4, <1>5, <1>6 DEF Goals, PeerGoals

\* The same of the handshake with the store host.
LEMMA SigningGoalsOK ==
  ASSUME NEW e
  PROVE  /\ Goals(SigningGoals(e)) /\ PeerGoals(SigningGoals(e), TheStore)
         /\ \A g \in SigningGoals(e) : g[1] # TheStore
<1>1. PICK g : g = <<ToSigning, <<Do("NextOutput"), Result(e), Full>>, TheStore, <<ReadOp, Nothing, Full>>>>
  BY Zenon
<1>2. SigningGoals(e) = {g}
  BY <1>1 DEF SigningGoals
<1>3. g[1] = ToSigning /\ g[2][1] = Do("NextOutput") /\ Place(g[2]) /\ Place(g[4])
  BY <1>1 DEF Place
<1>4. ToSigning # TheStore
  BY Roles DEF ToSigning, TheStore
<1>5. QED
  BY <1>2, <1>3, <1>4, Named DEF Goals, PeerGoals

\* The same of each goal of the work on an output.
LEMMA StoreGoalOK ==
  ASSUME NEW e, NEW rg, NEW o, NEW g, StoreGoal(e, rg, o, g)
  PROVE  /\ Place(g[2]) /\ Place(g[4]) /\ Head(g[2][1]).k \in {"do", "fail"}
         /\ g[1] = TheStore => Head(g[2][1]).k = "do" /\ Head(g[2][1]).f = "register"
<1>1. PICK a, b :
    \/ g = <<ToStore, <<Do("NextOutput"), a, Full>>, TheStore, <<ReadOp, b, Full>>>>
    \/ g = <<TheStore, <<Do("register"), b, Full>>, ToStore, <<ReadMarker \o Do("Signed"), a, Full>>>>
    \/ g = <<ToStore, <<Do("Signed"), a, Full>>, TheStore, <<ReadOp, b, Full>>>>
    \/ g = <<ToStore, <<FailIns \o Do("Signed"), a, Full>>, TheStore, <<ReadOp, b, Full>>>>
  BY DEF StoreGoal
<1>2. Place(g[2]) /\ Place(g[4])
  BY <1>1 DEF Place
<1>3. ToStore # TheStore
  BY Roles DEF ToStore, TheStore
<1>4. IsSeq(Do("Signed"))
  BY Named
<1>5. \/ g[1] = ToStore /\ g[2][1] = Do("NextOutput")
      \/ g[1] = TheStore /\ g[2][1] = Do("register")
      \/ g[1] = ToStore /\ g[2][1] = Do("Signed")
      \/ g[1] = ToStore /\ g[2][1] = FailIns \o Do("Signed")
  BY <1>1
<1>6. QED
  BY <1>2, <1>3, <1>4, <1>5, FailHead, Named, ZenonT(60)

\* The same of all of them.
LEMMA StoreGoalsOK ==
  ASSUME NEW e, NEW rg, NEW o, NEW G, \A g \in G : StoreGoal(e, rg, o, g)
  PROVE  /\ Goals(G) /\ PeerGoals(G, TheStore)
         /\ \A g \in G : g[1] = TheStore => Head(g[2][1]).k # "fail"
<1>1. \A g \in G : /\ Place(g[2]) /\ Place(g[4]) /\ Head(g[2][1]).k \in {"do", "fail"}
                   /\ g[1] = TheStore => Head(g[2][1]).k = "do" /\ Head(g[2][1]).f = "register"
  BY StoreGoalOK
<1>2. "register" \notin DaemonParts \union {"leave"}
  BY DEF DaemonParts
<1>3. QED
  BY <1>1, <1>2 DEF Goals, PeerGoals

\* The same of the answer to the client.
LEMMA AnswerGoalsOK ==
  ASSUME NEW e, NEW an, NEW y, NEW G, \A g \in G : AnswerGoal(e, an, y, g)
  PROVE  /\ Goals(G) /\ PeerGoals(G, y)
         /\ \A g \in G : Head(g[2][1]).k = "fail" => Excuse(e, FALSE) \/ an = "result"
<1>1. \A g \in G : /\ Place(g[2]) /\ Place(g[4])
                   /\ \/ g[2][1] = Do("got") 
                      \/ g[2][1] = FailIns \o Expects(MinorOf(Full)) /\ Excuse(e, FALSE)
                      \/ g[2][1] = FailIns /\ an = "result"
  BY Zenon DEF AnswerGoal
<1>2. Head(Do("got")).k = "do" /\ Head(Do("got")).f = "got"
  BY Named
<1>3. \A p : p = FailIns \/ p = FailIns \o Expects(MinorOf(Full)) => Head(p).k = "fail" /\ Head(p).f = ""
  BY FailHead, PeerParts2, Zenon
<1>4. {"got", ""} \intersect (DaemonParts \union {"leave"}) = {}
  BY DEF DaemonParts
<1>5. QED
  BY <1>1, <1>2, <1>3, <1>4, Zenon DEF Goals, PeerGoals
-----------------------------------------------------------------------------
(* The steps of the peers keep the connections *)

\* What is true of a daemon, and of the client, whatever they talk about.
DaemonFacts(c, cl, K) ==
  K[3] \in {0, Full} /\ K[6] \in {0, Full} /\ (K[1] = Do("leave") => c \in cl)
ClientFacts(e, rg, an, cl, K) ==
  /\ IsMem(K[2]) /\ K[3] \in {0, Full} /\ K[6] \in {0, Full}
  /\ "client" \in cl => K[1] = <<>>
  /\ Sound(K[2].outs, rg)
  /\ K[1] = Do("leave") => Excuse(e, FALSE) \/ an # "none"
  /\ e.caller = "client" /\ an = "result" => GotOK(e, K[2]) /\ LeftIn(e, K[2], {})
  /\ e.caller = "job" => K[1] = <<>> /\ K[2] = Nothing

\* The roles of the daemons.
LEMMA DaemonRoles ==
  /\ IsPeer("builder", TheBuilder) /\ IsPeer("store", TheStore) /\ IsPeer("client", Client)
  /\ TheBuilder[1] = "builder" /\ TheStore[1] = "store" /\ Client[1] = "client"
  /\ ToBuilder[1] = "toBuilder" /\ ToStore[1] = "toStore" /\ ToSigning[1] = "toSigning" /\ ToClient[1] = "toClient"
  /\ {ToBuilder[1], ToStore[1], ToSigning[1], ToClient[1]} \subseteq ProxyRoles
  /\ {TheBuilder[1], TheStore[1], Client[1]} \subseteq Peers
  /\ \A y : y[1] \in Clients => IsPeer("client", y) /\ y[1] \in Peers
  /\ ~Learns(Client) /\ ~Learns(ToStore) /\ ~Learns(ToSigning) /\ \A y : y[1] = "done" => ~Learns(y)
<1>1. \A r : Role(r)[1] = r
  BY Roles
<1>2. QED
  BY <1>1 DEF TheBuilder, TheStore, Client, ToBuilder, ToStore, ToSigning, ToClient, IsPeer, ProxyRoles, Peers, Clients, Learns

\* What a step of a daemon leaves true.
DaemonKept(c, K, L) ==
  /\ misread' = misread /\ DaemonFacts(c, closed', L) /\ Alone(c) /\ UNCHANGED <<registered, answer>>
  /\ closed' = closed \/ (closed' = closed \union {c} /\ c \in env.dies /\ L[1] = <<>>)
  /\ K[1] = <<>> => L[1] = <<>>
\* A daemon leaves only when its connection is closed.
LEMMA DaemonGoes ==
  ASSUME Shape, NEW c \in {"builder", "store"}, Ordinary(c), NEW K, NEW L, IsConv(c, K, L), DaemonFacts(c, closed, K),
         misread' = misread, L[3] \in {K[3], Full}, L[6] = K[6], K[1] = <<>> => L[1] = <<>>,
         L[1] = Do("leave") => K[1] = Do("leave") \/ c \in closed,
         IsAt(K, "leave") => K[1] = Do("leave")
  PROVE  DaemonKept(c, K, L)
<1>1. c \in Conn /\ c # "client"
  BY DEF Conn
<1>2. PICK e : e = env
  OBVIOUS
<1>3. Alone(c) /\ Goes1(c, K, L)
  BY <1>1, <1>2, OrdinaryGoes
<1>4. registered' = registered /\ answer' = answer
  BY <1>1, <1>3 DEF Goes1
<1>5. closed' = closed \/ (closed' = closed \union {c} /\ L[1] = <<>> /\ (c \in env.dies \/ c \in closed))
  BY <1>3 DEF Goes1, DaemonFacts
<1>6. closed' = closed \/ (closed' = closed \union {c} /\ L[1] = <<>> /\ c \in env.dies)
  BY <1>5, Zenon
<1>7. DaemonFacts(c, closed', L)
  <2>1. closed \subseteq closed'
    BY <1>6
  <2>2. L[1] = Do("leave") => c \in closed
    BY DEF DaemonFacts
  <2>3. QED
    BY <2>1, <2>2 DEF DaemonFacts
<1>8. QED
  BY <1>3, <1>4, <1>6, <1>7 DEF DaemonKept

\* A daemon that talks.
LEMMA DaemonTalks ==
  ASSUME Shape, NEW c \in {"builder", "store"}, Ordinary(c), NEW K, NEW L, IsConv(c, K, L), DaemonFacts(c, closed, K),
         NEW e, e = env, NEW G, NEW x, NEW p, NEW a, NEW y, y[1] = c, PeerGoals(G, y),
         \A g \in G : g[1] = y => Head(g[2][1]).k # "fail", Talking(e, G, x, p, a, y, K)
  PROVE  DaemonKept(c, K, L) /\ Talking(e, G, x, p, a, y, L)
<1>1. c \in Conn /\ IsPeer(c, y) /\ y[1] \in Peers
  BY DEF Conn, IsPeer, Peers
<1>2. PeerKept(e, G, x, p, a, c, y, K, L)
  BY <1>1, PeerTalks
<1>3. /\ misread' = misread /\ L[3] \in {K[3], Full} /\ L[6] = K[6] /\ (K[1] = <<>> => L[1] = <<>>)
      /\ Talking(e, G, x, p, a, y, L)
      /\ L[1] = Do("leave") => K[1] = Do("leave") \/ c \in closed
  BY <1>2 DEF PeerKept
<1>4. IsAt(K, "leave") => K[1] = Do("leave")
  BY <1>1, LeaveNamed
<1>5. DaemonKept(c, K, L)
  BY <1>3, <1>4, DaemonGoes
<1>6. QED
  BY <1>3, <1>5

\* The builder.
LEMMA BuilderKept ==
  ASSUME Shape, Ordinary("builder"), NEW K, NEW L, IsConv("builder", K, L), DaemonFacts("builder", closed, K),
         NEW e, e = env, NEW m, BuilderIn(e, m, K)
  PROVE  DaemonKept("builder", K, L) /\ BuilderIn(e, m, L)
<1>1. PICK G : G = BuildGoals(e)
  OBVIOUS
<1>2. PeerGoals(G, TheBuilder) /\ \A g \in G : g[1] = TheBuilder => Head(g[2][1]).k # "fail"
  BY <1>1, BuildGoalsOK
<1>3. Talking(e, G, ToBuilder, m[1], m[2], TheBuilder, K)
  BY <1>1 DEF BuilderIn
<1>4. TheBuilder[1] = "builder"
  BY DaemonRoles
<1>5. DaemonKept("builder", K, L) /\ Talking(e, G, ToBuilder, m[1], m[2], TheBuilder, L)
  BY <1>2, <1>3, <1>4, DaemonTalks
<1>6. QED
  BY <1>1, <1>5 DEF BuilderIn

\* The store host.
LEMMA StoreKept ==
  ASSUME Shape, Ordinary("store"), NEW K, NEW L, IsConv("store", K, L), DaemonFacts("store", closed, K),
         NEW e, e = env, NEW rg, NEW m, StoreIn(e, rg, m, K)
  PROVE  DaemonKept("store", K, L) /\ StoreIn(e, rg, m, L)
<1>1. TheStore[1] = "store" /\ TheStore[1] \in Peers /\ IsPeer("store", TheStore) /\ "store" \in Conn
  BY DaemonRoles DEF Conn
<1>2. CASE m[1] = "signing" /\ SigningIn(e, m[2], m[3], K)
  <2>1. PICK G : G = SigningGoals(e)
    OBVIOUS
  <2>2. PeerGoals(G, TheStore) /\ \A g \in G : g[1] = TheStore => Head(g[2][1]).k # "fail"
    BY <2>1, SigningGoalsOK
  <2>3. Talking(e, G, ToSigning, m[2], m[3], TheStore, K)
    BY <1>2, <2>1 DEF SigningIn
  <2>4. DaemonKept("store", K, L) /\ Talking(e, G, ToSigning, m[2], m[3], TheStore, L)
    BY <1>1, <2>2, <2>3, DaemonTalks
  <2>5. QED
    BY <1>2, <2>1, <2>4 DEF SigningIn, StoreIn
<1>3. CASE m[1] = "asking" /\ AskingIn(e, rg, m[2], m[3], m[4], K)
  <2>1. PICK G : (\A g \in G : StoreGoal(e, rg, m[2], g)) /\ Talking(e, G, ToStore, m[3], m[4], TheStore, K)
    BY <1>3 DEF AskingIn
  <2>2. PeerGoals(G, TheStore) /\ \A g \in G : g[1] = TheStore => Head(g[2][1]).k # "fail"
    BY <2>1, StoreGoalsOK, ZenonT(60)
  <2>3. DaemonKept("store", K, L) /\ Talking(e, G, ToStore, m[3], m[4], TheStore, L)
    BY <1>1, <2>1, <2>2, DaemonTalks
  <2>4. QED
    BY <1>3, <2>1, <2>3 DEF AskingIn, StoreIn
<1>4. CASE m[1] = "rests" /\ RestsIn(e, K)
  <2>1. PICK b : IsMem(b) /\ RestingAt(e, TheStore, <<ReadOp, b, Full>>, K)
    BY <1>4 DEF RestsIn
  <2>2. K[6] = Full /\ K[7] = <<>> /\ K[8] = <<>>
    BY <1>4 DEF RestsIn
  <2>3. PICK s : s = <<ReadOp, b, Full>>
    BY Zenon
  <2>4. RestKept(e, TheStore, s, "store", K, L)
    BY <1>1, <2>1, <2>2, <2>3, PeerRests
  <2>5. IsAt(K, "leave") => K[1] = Do("leave")
    BY <1>1, <2>1, <2>3, RestLeaveNamed
  <2>6. /\ misread' = misread /\ L[3] = K[3] /\ L[6] = K[6] /\ (K[1] = <<>> => L[1] = <<>>)
        /\ L[1] = Do("leave") => K[1] = Do("leave") \/ "store" \in closed
        /\ L[7] = K[7] /\ L[8] = K[8] /\ RestingAt(e, TheStore, s, L)
    BY <2>4 DEF RestKept
  <2>7. DaemonKept("store", K, L)
    BY <2>5, <2>6, DaemonGoes
  <2>8. RestsIn(e, L)
    BY <2>1, <2>2, <2>3, <2>6 DEF RestsIn
  <2>9. QED
    BY <1>4, <2>7, <2>8 DEF StoreIn
<1>5. CASE m[1] = "dead" /\ K[1] = <<>> /\ K[4] = <<>>
  <2>1. L[1] = <<>> /\ SameRest(K, L) /\ misread' = misread
    BY <1>1, <1>5, PeerGone
  <2>2. L[3] = K[3] /\ L[4] = K[4] /\ L[6] = K[6]
    BY <2>1 DEF SameRest
  <2>3. L[1] # Do("leave") /\ ~IsAt(K, "leave")
    BY <1>5, <2>1, Named DEF IsAt
  <2>4. DaemonKept("store", K, L)
    BY <2>1, <2>2, <2>3, DaemonGoes
  <2>5. QED
    BY <1>5, <2>1, <2>2, <2>4 DEF StoreIn
<1>6. QED
  BY <1>2, <1>3, <1>4, <1>5 DEF StoreIn
\* The client: what a step of it leaves true.
ClientKept(e, K, L) ==
  /\ misread' = misread /\ Alone("client") /\ registered' = registered
  /\ ClientFacts(e, registered', answer', closed', L)
  /\ closed' = closed \/ closed' = closed \union {"client"}
  /\ answer' = answer \/ (answer = "none" /\ answer' = "error" /\ Excuse(e, FALSE))
\* What it learns is sound, and it learns nothing after it has got its answer.
Heeds(e, rg, an, a, b) ==
  /\ IsMem(b) /\ Sound(b.outs, rg)
  /\ e.caller = "client" /\ an = "result" => GotOK(e, b) /\ LeftIn(e, b, {})

\* An ordinary step of the client leaves its answer true.
LEMMA ClientGoes ==
  ASSUME Shape, Ordinary("client"), NEW K, NEW L, IsConv("client", K, L), NEW e, e = env,
         ClientFacts(e, registered, answer, closed, K), e.caller = "client",
         misread' = misread, L[3] \in {K[3], Full}, L[6] = K[6], K[1] = <<>> => L[1] = <<>>,
         L[1] = Do("leave") => K[1] = Do("leave") \/ Excuse(e, FALSE) \/ answer = "result",
         IsAt(K, "leave") => K[1] = Do("leave"),
         Heeds(e, registered, answer, K[2], L[2])
  PROVE  ClientKept(e, K, L)
<1>1. "client" \in Conn
  BY DEF Conn
<1>2. Alone("client") /\ Goes1("client", K, L)
  BY <1>1, OrdinaryGoes
<1>3. registered' = registered
  BY <1>2 DEF Goes1
<1>4. closed' = closed \/ (closed' = closed \union {"client"} /\ L[1] = <<>>)
  BY <1>2 DEF Goes1
<1>5. answer' = answer \/ (answer = "none" /\ answer' = "error" /\ K[1] = Do("leave"))
  BY <1>2 DEF Goes1
<1>6. answer' = answer \/ (answer = "none" /\ answer' = "error" /\ Excuse(e, FALSE))
  BY <1>5, Zenon DEF ClientFacts
<1>7. ClientFacts(e, registered', answer', closed', L)
  <2>1. "client" \in closed' => L[1] = <<>>
    BY <1>4 DEF ClientFacts
  <2>2. L[1] = Do("leave") => Excuse(e, FALSE) \/ answer' # "none"
    BY <1>6, Zenon DEF ClientFacts
  <2>3. answer' = "result" => answer = "result"
    BY <1>6
  <2>4. IsMem(L[2]) /\ Sound(L[2].outs, registered') /\ (answer' = "result" => GotOK(e, L[2]) /\ LeftIn(e, L[2], {}))
    BY <1>3, <2>3 DEF Heeds
  <2>5. L[3] \in {0, Full} /\ L[6] \in {0, Full}
    BY DEF ClientFacts
  <2>6. QED
    BY <2>1, <2>2, <2>4, <2>5, Zenon DEF ClientFacts
<1>8. QED
  BY <1>2, <1>3, <1>4, <1>6, <1>7, Zenon DEF ClientKept

\* What a client that talks learns.
LEMMA ClientHeeds ==
  ASSUME NEW e, NEW rg, NEW an, NEW cl, NEW K, ClientFacts(e, rg, an, cl, K), NEW y, NEW b, Minded(y, K[2], b),
         y[1] \in Clients, y[1] = "reader" => Sound(y[2], rg) /\ an # "result"
  PROVE  Heeds(e, rg, an, K[2], b)
<1>0. PICK a : a = K[2]
  OBVIOUS
<1>1. IsMem(a) /\ Sound(a.outs, rg) /\ (e.caller = "client" /\ an = "result" => GotOK(e, a) /\ LeftIn(e, a, {}))
  BY <1>0 DEF ClientFacts
<1>2. /\ IsMem(b) /\ (~Learns(y) => SameResult(a, b))
      /\ y[1] = "reader" => b.outs \subseteq a.outs \union y[2]
  BY <1>0, <1>1, LearnMem
<1>3. CASE y[1] = "reader"
  <2>1. Sound(b.outs, rg)
    BY <1>1, <1>2, <1>3 DEF Sound
  <2>2. QED
    BY <1>2, <1>3, <2>1 DEF Heeds
<1>4. CASE y[1] # "reader"
  <2>1. SameResult(a, b)
    BY <1>2, <1>4 DEF Learns, Clients
  <2>2. b.outs = a.outs /\ b.status = a.status /\ b.cpu = a.cpu
    BY <2>1 DEF SameResult
  <2>3. Sound(b.outs, rg)
    BY <1>1, <2>2
  <2>4. GotOK(e, a) => GotOK(e, b)
    BY <2>2 DEF GotOK
  <2>5. LeftIn(e, a, {}) => LeftIn(e, b, {})
    BY <2>2 DEF LeftIn
  <2>6. QED
    BY <1>1, <1>2, <2>3, <2>4, <2>5 DEF Heeds
<1>5. QED
  BY <1>3, <1>4

\* A client that talks.
LEMMA ClientTalks ==
  ASSUME Shape, Ordinary("client"), NEW K, NEW L, IsConv("client", K, L), NEW e, e = env, e.caller = "client",
         ClientFacts(e, registered, answer, closed, K), NEW G, NEW x, NEW p, NEW a, NEW y, y[1] \in Clients,
         y[1] = "reader" => Sound(y[2], registered) /\ answer # "result", PeerGoals(G, y),
         \A g \in G : g[1] = y /\ Head(g[2][1]).k = "fail" => Excuse(e, FALSE) \/ answer = "result",
         Talking(e, G, x, p, a, y, K)
  PROVE  ClientKept(e, K, L) /\ Talking(e, G, x, p, a, y, L)
<1>1. "client" \in Conn /\ IsPeer("client", y) /\ y[1] \in Peers
  BY DaemonRoles DEF Conn
<1>2. PeerKept(e, G, x, p, a, "client", y, K, L)
  BY <1>1, PeerTalks
<1>3. /\ misread' = misread /\ L[3] \in {K[3], Full} /\ L[6] = K[6] /\ (K[1] = <<>> => L[1] = <<>>)
      /\ Talking(e, G, x, p, a, y, L) /\ Minded(y, K[2], L[2])
      /\ L[1] = Do("leave") => K[1] = Do("leave") \/ "client" \in closed \/ Excuse(e, FALSE) \/ answer = "result"
  BY <1>2, Zenon DEF PeerKept
<1>4. "client" \in closed => L[1] # Do("leave")
  <2>1. "client" \in closed => K[1] = <<>>
    BY DEF ClientFacts
  <2>2. QED
    BY <1>3, <2>1, Named
<1>5. IsAt(K, "leave") => K[1] = Do("leave")
  BY <1>1, LeaveNamed
<1>6. Heeds(e, registered, answer, K[2], L[2])
  BY <1>3, ClientHeeds, Zenon
<1>7. L[1] = Do("leave") => K[1] = Do("leave") \/ Excuse(e, FALSE) \/ answer = "result"
  BY <1>3, <1>4, Zenon
<1>8. ClientKept(e, K, L)
  BY <1>3, <1>5, <1>6, <1>7, ClientGoes, Zenon
<1>9. QED
  BY <1>3, <1>8

\* A client that is gone.
LEMMA ClientIsGone ==
  ASSUME Shape, Ordinary("client"), NEW K, NEW L, IsConv("client", K, L), NEW e, e = env, e.caller \in {"client", "job"},
         ClientFacts(e, registered, answer, closed, K), K[1] = <<>>
  PROVE  ClientKept(e, K, L) /\ L[1] = <<>> /\ L[4] = K[4]
<1>0. "client" \in Conn
  BY DEF Conn
<1>1. L[1] = <<>> /\ SameRest(K, L) /\ misread' = misread
  BY <1>0, PeerGone
<1>2. L[2] = K[2] /\ L[3] = K[3] /\ L[4] = K[4] /\ L[6] = K[6]
  BY <1>1 DEF SameRest
<1>3. L[1] # Do("leave") /\ ~IsAt(K, "leave")
  BY <1>1, Named DEF IsAt
<1>4. Heeds(e, registered, answer, K[2], L[2])
  BY <1>2 DEF Heeds, ClientFacts
<1>5. CASE e.caller = "client"
  BY <1>1, <1>2, <1>3, <1>4, <1>5, ClientGoes, Zenon
<1>6. CASE e.caller = "job"
  <2>1. Alone("client") /\ Goes1("client", K, L)
    BY <1>0, OrdinaryGoes
  <2>2. registered' = registered /\ answer' = answer
    BY <1>3, <2>1 DEF Goes1
  <2>3. closed' = closed \/ closed' = closed \union {"client"}
    BY <2>1 DEF Goes1
  <2>4. ClientFacts(e, registered', answer', closed', L)
    BY <1>1, <1>2, <1>3, <1>6, <2>2, Zenon DEF ClientFacts
  <2>5. QED
    BY <1>1, <1>2, <2>1, <2>2, <2>3, <2>4 DEF ClientKept
<1>7. QED
  BY <1>5, <1>6
\* An answer that becomes an error is not the result.
LEMMA AnsweringMore ==
  ASSUME NEW e, NEW rg, NEW an, NEW sg, NEW bn, NEW p, NEW a, NEW K, AnsweringIn(e, rg, an, p, a, K), rg \subseteq sg,
         bn = an \/ (an = "none" /\ bn = "error")
  PROVE  AnsweringIn(e, sg, bn, p, a, K)
<1>1. PICK G, y : /\ y[1] \in Clients /\ (\A g \in G : AnswerGoal(e, an, y, g))
                  /\ y[1] = "reader" => Sound(y[2], rg) /\ an # "result"
                  /\ Talking(e, G, ToClient, p, a, y, K)
  BY DEF AnsweringIn
<1>2. \A g \in G : AnswerGoal(e, bn, y, g)
  BY <1>1, Zenon DEF AnswerGoal
<1>3. Sound(y[2], rg) => Sound(y[2], sg)
  BY DEF Sound
<1>4. QED
  BY <1>1, <1>2, <1>3 DEF AnsweringIn

\* The client, in every part of a session.
LEMMA ClientKeeps ==
  ASSUME Shape, Ordinary("client"), NEW K, NEW L, IsConv("client", K, L), NEW e, e = env, e.caller \in {"client", "job"},
         ClientFacts(e, registered, answer, closed, K), NEW m, m[1] # "gone" => e.caller = "client",
         ClientIn(e, registered, answer, m, K)
  PROVE  ClientKept(e, K, L) /\ ClientIn(e, registered', answer', m, L)
<1>1. /\ Client[1] \in Clients /\ Client[1] # "reader" /\ "client" \in Conn /\ IsPeer("client", Client)
      /\ Client[1] \in Peers /\ ~Learns(Client)
  BY DaemonRoles DEF Conn, Clients
<1>2. CASE m[1] = "opening" /\ OpeningIn(e, m[2], m[3], K)
  <2>1. PICK G : G = OpeningGoals
    OBVIOUS
  <2>2. PeerGoals(G, Client) /\ \A g \in G : g[1] # Client
    BY <2>1, OpeningGoalsOK
  <2>3. Talking(e, G, ToClient, m[2], m[3], Client, K)
    BY <1>2, <2>1 DEF OpeningIn
  <2>4. ClientKept(e, K, L) /\ Talking(e, G, ToClient, m[2], m[3], Client, L)
    <3>1. e.caller = "client" /\ \A g \in G : g[1] = Client /\ Head(g[2][1]).k = "fail" => Excuse(e, FALSE) \/ answer = "result"
      BY <1>2, <2>2, Zenon
    <3>2. PICK p, a, x : p = m[2] /\ a = m[3] /\ x = ToClient
      OBVIOUS
    <3>3. Talking(e, G, x, p, a, Client, K)
      BY <2>3, <3>2
    <3>4. ClientKept(e, K, L) /\ Talking(e, G, x, p, a, Client, L)
      BY <1>1, <2>2, <3>1, <3>3, ClientTalks, Zenon
    <3>5. QED
      BY <3>2, <3>4
  <2>5. QED
    BY <1>2, <2>1, <2>4 DEF OpeningIn, ClientIn
<1>3. CASE m[1] = "idle" /\ IdleIn(e, K)
  <2>1. PICK s : s = <<ReadMarker \o Expects(MinorOf(Full)), Nothing, Full>>
    BY Zenon
  <2>2. K[6] = Full /\ K[7] = <<>> /\ Hummed(e, K[8]) /\ RestingAt(e, Client, s, K)
    BY <1>3, <2>1 DEF IdleIn, RestingAt
  <2>3. RestKept(e, Client, s, "client", K, L)
    BY <1>1, <2>2, PeerRests
  <2>4. IsAt(K, "leave") => K[1] = Do("leave")
    BY <1>1, <2>2, RestLeaveNamed
  <2>5. /\ misread' = misread /\ L[2] = K[2] /\ L[3] = K[3] /\ L[6] = K[6] /\ (K[1] = <<>> => L[1] = <<>>)
        /\ L[1] = Do("leave") => K[1] = Do("leave") \/ "client" \in closed
        /\ L[7] = K[7] /\ L[8] = K[8] /\ RestingAt(e, Client, s, L)
    BY <2>3 DEF RestKept
  <2>6. "client" \in closed => L[1] # Do("leave")
    <3>1. "client" \in closed => K[1] = <<>>
      BY DEF ClientFacts
    <3>2. QED
      BY <2>5, <3>1, Named
  <2>7. Minded(Client, K[2], L[2])
    BY <2>5 DEF Minded
  <2>8. Heeds(e, registered, answer, K[2], L[2])
    BY <1>1, <2>7, ClientHeeds
  <2>9. ClientKept(e, K, L)
    BY <1>3, <2>4, <2>5, <2>6, <2>8, ClientGoes, Zenon
  <2>10. IdleIn(e, L)
    BY <2>1, <2>2, <2>5 DEF IdleIn, RestingAt
  <2>11. QED
    BY <1>3, <2>9, <2>10 DEF ClientIn
<1>4. CASE m[1] = "answering" /\ AnsweringIn(e, registered, answer, m[2], m[3], K)
  <2>1. PICK G, y : /\ y[1] \in Clients /\ (\A g \in G : AnswerGoal(e, answer, y, g))
                    /\ y[1] = "reader" => Sound(y[2], registered) /\ answer # "result"
                    /\ Talking(e, G, ToClient, m[2], m[3], y, K)
    BY <1>4 DEF AnsweringIn
  <2>2. PeerGoals(G, y) /\ \A g \in G : Head(g[2][1]).k = "fail" => Excuse(e, FALSE) \/ answer = "result"
    BY <2>1, AnswerGoalsOK, Zenon
  <2>3. ClientKept(e, K, L) /\ Talking(e, G, ToClient, m[2], m[3], y, L)
    <3>1. e.caller = "client" /\ \A g \in G : g[1] = y /\ Head(g[2][1]).k = "fail" => Excuse(e, FALSE) \/ answer = "result"
      BY <1>4, <2>2, Zenon
    <3>2. PICK p, a, x : p = m[2] /\ a = m[3] /\ x = ToClient
      OBVIOUS
    <3>3. Talking(e, G, x, p, a, y, K)
      BY <2>1, <3>2
    <3>4. y[1] = "reader" => Sound(y[2], registered) /\ answer # "result"
      BY <2>1
    <3>5. ClientKept(e, K, L) /\ Talking(e, G, x, p, a, y, L)
      BY <2>1, <2>2, <3>1, <3>3, <3>4, ClientTalks, Zenon
    <3>6. QED
      BY <3>2, <3>5
  <2>4. AnsweringIn(e, registered, answer, m[2], m[3], L)
    BY <2>1, <2>3 DEF AnsweringIn
  <2>5. registered' = registered /\ (answer' = answer \/ (answer = "none" /\ answer' = "error"))
    BY <2>3, Zenon DEF ClientKept
  <2>6. AnsweringIn(e, registered', answer', m[2], m[3], L)
    BY <2>4, <2>5, AnsweringMore
  <2>7. QED
    BY <1>4, <2>3, <2>6 DEF ClientIn
<1>5. CASE m[1] \in {"gone", "cut"} /\ K[1] = <<>> /\ (m[1] = "cut" => K[4] = <<>>)
  <2>1. ClientKept(e, K, L) /\ L[1] = <<>> /\ L[4] = K[4]
    BY <1>5, ClientIsGone
  <2>2. QED
    BY <1>5, <2>1 DEF ClientIn
<1>6. QED
  BY <1>2, <1>3, <1>4, <1>5 DEF ClientIn
-----------------------------------------------------------------------------
(* A signature is taken *)

\* What a message that is sent begins with.
LEMMA SendHead ==
  ASSUME NEW w, NEW q, IsSeq(q)
  PROVE  LET p == Send(w) \o q IN IsSeq(p) /\ p # <<>> /\ Head(p).k = "write" /\ Tail(p) = Flush \o q
<1>1. PICK i : i = Ins("write", "", 0, w)
  BY Zenon
<1>2. i.k = "write" /\ Write(w) = <<i>>
  BY <1>1, Zenon DEF Ins, Write
<1>3. IsSeq(Flush) /\ IsSeq(<<i>>) /\ IsSeq(Flush \o q)
  BY Parts, One
<1>4. Send(w) \o q = <<i>> \o (Flush \o q)
  BY <1>2, <1>3, JoinAssoc DEF Send
<1>5. QED
  BY <1>2, <1>3, <1>4, FirstThen, Zenon

\* The goal at which the store host takes a signature.
TakenFor(o, a, b, g) ==
  /\ g = <<TheStore, <<Do("register"), b, Full>>, ToStore, <<ReadMarker \o Do("Signed"), a, Full>>>>
  /\ IsMem(a) /\ a.fields = <<>> /\ IsMem(b) /\ b.sig = <<o, o>> /\ SignsFor(a, o)

\* The store host takes a signature at one goal only.
LEMMA RegisterGoal ==
  ASSUME NEW e, NEW rg, NEW o, NEW g, StoreGoal(e, rg, o, g), g[1] = TheStore
  PROVE  \E a, b : TakenFor(o, a, b, g)
<1>1. ToStore # TheStore
  BY Roles DEF ToStore, TheStore
<1>2. \A s, t, u : <<ToStore, s, t, u>>[1] = ToStore
  OBVIOUS
<1>3. QED
  BY <1>1, <1>2 DEF StoreGoal, TakenFor

\* The store host is where it takes a signature only if the proxy has asked it
\* to.
LEMMA RegisterReached ==
  ASSUME NEW e, NEW G, NEW x, NEW p, NEW a, NEW K, Talking(e, G, x, p, a, TheStore, K), PeerGoals(G, TheStore),
         IsAt(K, "register")
  PROVE  Reached(e, G, PeerSide(K, TheStore, K[1]), ProxySide(K, x, p, a))
<1>1. K[1] # Do("leave")
  BY Named DEF IsAt
<1>2. TheStore[1] = "store" /\ TheStore[1] \in Peers
  BY DaemonRoles
<1>3. \A q : ~EntersAs(e, TheStore, "register", K[2], MinorOf(K[3]), q)
  BY <1>2 DEF EntersAs, DaemonParts
<1>4. QED
  BY <1>1, <1>2, <1>3, TalkingDo

\* A store host that talks about something else does not take one.
LEMMA RegisterNotIn ==
  ASSUME NEW e, NEW K, IsAt(K, "register"), NEW rg, NEW m, StoreIn(e, rg, m, K)
  PROVE  m[1] = "asking" /\ AskingIn(e, rg, m[2], m[3], m[4], K)
<1>1. K[1] # Do("leave") /\ K[1] # <<>>
  BY Named DEF IsAt
<1>2. TheStore[1] = "store" /\ TheStore[1] \in Peers
  BY DaemonRoles
<1>3. ASSUME SigningIn(e, m[2], m[3], K) PROVE FALSE
  <2>1. PICK G, p, a : G = SigningGoals(e) /\ p = m[2] /\ a = m[3]
    OBVIOUS
  <2>2. Talking(e, G, ToSigning, p, a, TheStore, K)
    BY <1>3, <2>1 DEF SigningIn
  <2>3. PeerGoals(G, TheStore) /\ \A g \in G : g[1] # TheStore
    BY <2>1, SigningGoalsOK
  <2>4. PICK X, Y : X = PeerSide(K, TheStore, K[1]) /\ Y = ProxySide(K, ToSigning, p, a)
    OBVIOUS
  <2>5. Reached(e, G, X, Y)
    BY <2>2, <2>3, <2>4, RegisterReached
  <2>6. \E g \in G : g[1] = X[1]
    BY <2>5, ReachedGoal
  <2>7. X[1] = TheStore
    BY <2>4, PeerParts
  <2>8. QED
    BY <2>3, <2>6, <2>7
<1>4. ASSUME RestsIn(e, K) PROVE FALSE
  <2>1. PICK b : RestingAt(e, TheStore, <<ReadOp, b, Full>>, K)
    BY <1>4, Zenon DEF RestsIn
  <2>2. PICK s : s = <<ReadOp, b, Full>>
    BY Zenon
  <2>3. \E q : EntersAs(e, TheStore, "register", K[2], MinorOf(K[3]), q)
    BY <1>1, <1>2, <2>1, <2>2, RestingDo
  <2>4. QED
    BY <1>2, <2>3 DEF EntersAs, DaemonParts
<1>5. QED
  BY <1>1, <1>3, <1>4 DEF StoreIn

\* What the store host takes is the signature of the output that the proxy
\* works on, and it answers.
LEMMA RegisterTalks ==
  ASSUME NEW e \in Environment, ~e.acks, NEW rg, NEW o, NEW p, NEW a, NEW K, AskingIn(e, rg, o, p, a, K), IsAt(K, "register"),
         NEW L, L = WithProgram(K, AnswerSignature(e, MinorOf(K[3]))),
         NEW sg, sg = IF e.trusted THEN rg \union {K[2].sig} ELSE rg
  PROVE  AskingIn(e, sg, o, p, a, L) /\ L[1] # Do("leave")
<1>1. PICK G : (\A g \in G : StoreGoal(e, rg, o, g)) /\ Talking(e, G, ToStore, p, a, TheStore, K)
  BY DEF AskingIn
<1>2. PeerGoals(G, TheStore)
  BY <1>1, StoreGoalsOK, Zenon
<1>3. PICK X, Y : X = PeerSide(K, TheStore, K[1]) /\ Y = ProxySide(K, ToStore, p, a)
  OBVIOUS
<1>4. Reached(e, G, X, Y)
  BY <1>1, <1>2, <1>3, RegisterReached
<1>5. X[1] = TheStore /\ Pos(X) = <<K[1], K[2], K[3]>> /\ Y[1] = ToStore
  BY <1>3, PeerParts, ProxyParts
<1>6. PICK g \in G : g[1] = X[1] /\ g[2] = Pos(X) /\ g[3] = Y[1] /\ Rests(e, Y, g[4])
  BY <1>4, ReachedGoal
<1>7. PICK c, b : TakenFor(o, c, b, g)
  BY <1>1, <1>5, <1>6, RegisterGoal
<1>8. g[2] = <<Do("register"), b, Full>> /\ g[4] = <<ReadMarker \o Do("Signed"), c, Full>>
  BY <1>7 DEF TakenFor
<1>9. K[2] = b /\ K[3] = Full
  <2>1. <<K[1], K[2], K[3]>> = <<Do("register"), b, Full>>
    BY <1>5, <1>6, <1>8
  <2>2. QED
    BY <2>1
<1>10. IsMem(c) /\ c.fields = <<>> /\ IsMem(b) /\ b.sig = <<o, o>> /\ SignsFor(c, o)
  BY <1>7 DEF TakenFor
<1>11. PICK m : m = MinorOf(Full)
  OBVIOUS
<1>12. PICK s, f, k : /\ k = <<ReadOp, b, Full>>
                      /\ s = <<ToStore, <<Do("Signed"), c, Full>>, TheStore, k>>
                      /\ f = <<ToStore, <<FailIns \o Do("Signed"), c, Full>>, TheStore, k>>
  BY Zenon
<1>13. PICK H : H = IF e.trusted THEN {s} ELSE {f}
  BY Zenon
<1>14. \A h \in H : StoreGoal(e, sg, o, h)
  <2>1. CASE e.trusted
    <3>1. <<o, o>> \in sg
      BY <1>9, <1>10, <2>1
    <3>2. StoreGoal(e, sg, o, s)
      BY <1>10, <1>12, <3>1 DEF StoreGoal
    <3>3. QED
      BY <1>13, <2>1, <3>2
  <2>2. CASE ~e.trusted
    <3>1. StoreGoal(e, sg, o, f)
      BY <1>10, <1>12, <2>2 DEF StoreGoal
    <3>2. QED
      BY <1>13, <2>2, <3>1
  <2>3. QED
    BY <2>1, <2>2
<1>15. Goals(H)
  BY <1>14, StoreGoalsOK, Zenon
<1>16. TheStore[1] = "store" /\ ToStore[1] = "toStore"
  BY DaemonRoles
<1>17. Dialog(e, H, TheStore, <<AnswerSignature(e, m), b, Full>>, ToStore, <<ReadMarker \o Do("Signed"), c, Full>>)
  <2>1. e.trusted => s \in H
    BY <1>13
  <2>2. ~e.trusted => f \in H
    BY <1>13
  <2>3. QED
    BY <1>10, <1>11, <1>12, <1>16, <2>1, <2>2, SignTalk, Zenon
<1>18. PICK q : q = AnswerSignature(e, m)
  OBVIOUS
<1>19. Head(q).k = "write"
  BY <1>18, SendHead, Named, Zenon DEF AnswerSignature
<1>20. L = WithProgram(K, q)
  BY <1>9, <1>11, <1>18
<1>21. PICK Z : Z = PeerSide(K, TheStore, q)
  OBVIOUS
<1>22. L[1] = q /\ PeerSide(L, TheStore, q) = Z /\ ProxySide(L, ToStore, p, a) = Y
  BY <1>3, <1>20, <1>21, WithProgramParts
<1>23. Z[1] = TheStore /\ Z[2] = q /\ Pos(Z) = <<q, b, Full>> /\ Z[5] = X[5] /\ Z[6] = X[6]
  BY <1>3, <1>9, <1>21, PeerParts
<1>24. Clear(Z)
  BY <1>4, <1>23 DEF Clear, Reached
<1>25. Talk(e, H, Z, Y)
  <2>1. Dialog(e, H, Z[1], Pos(Z), Y[1], g[4])
    BY <1>5, <1>8, <1>17, <1>18, <1>23
  <2>2. Head(Z[2]).k \notin {"do", "fail"}
    BY <1>19, <1>23
  <2>3. QED
    BY <1>6, <1>15, <1>24, <2>1, <2>2, Restart
<1>26. Talk(e, H, Y, Z)
  BY <1>25 DEF Talk
<1>27. Talking(e, H, ToStore, p, a, TheStore, L)
  BY <1>15, <1>22, <1>26 DEF Talking, Stays
<1>28. L[1] # Do("leave")
  BY <1>19, <1>22, Named
<1>29. QED
  BY <1>14, <1>27, <1>28 DEF AskingIn
-----------------------------------------------------------------------------
(* The client gets its answer *)

\* A client that has not been answered has not got an answer.
LEMMA GotReached ==
  ASSUME NEW e, NEW G, NEW x, NEW p, NEW a, NEW y, y[1] \in Clients, NEW K, Talking(e, G, x, p, a, y, K), PeerGoals(G, y),
         IsAt(K, "got")
  PROVE  Reached(e, G, PeerSide(K, y, K[1]), ProxySide(K, x, p, a))
<1>1. K[1] # Do("leave")
  BY Named DEF IsAt
<1>2. y[1] \in Peers
  BY DaemonRoles
<1>3. \A q : ~EntersAs(e, y, "got", K[2], MinorOf(K[3]), q)
  BY DEF EntersAs
<1>4. QED
  BY <1>1, <1>2, <1>3, TalkingDo

\* The client has got its answer only when it is answered.
LEMMA GotNotIn ==
  ASSUME NEW e, NEW K, IsAt(K, "got"), NEW rg, NEW an, NEW m, ClientIn(e, rg, an, m, K)
  PROVE  m[1] = "answering" /\ AnsweringIn(e, rg, an, m[2], m[3], K)
<1>1. K[1] # Do("leave") /\ K[1] # <<>>
  BY Named DEF IsAt
<1>2. Client[1] \in Clients /\ Client[1] \in Peers
  BY DaemonRoles DEF Clients
<1>3. ASSUME OpeningIn(e, m[2], m[3], K) PROVE FALSE
  <2>1. PICK G, p, a : G = OpeningGoals /\ p = m[2] /\ a = m[3]
    OBVIOUS
  <2>2. Talking(e, G, ToClient, p, a, Client, K)
    BY <1>3, <2>1 DEF OpeningIn
  <2>3. PeerGoals(G, Client) /\ \A g \in G : g[1] # Client
    BY <2>1, OpeningGoalsOK
  <2>4. PICK X, Y : X = PeerSide(K, Client, K[1]) /\ Y = ProxySide(K, ToClient, p, a)
    OBVIOUS
  <2>5. Reached(e, G, X, Y)
    BY <1>2, <2>2, <2>3, <2>4, GotReached
  <2>6. \E g \in G : g[1] = X[1]
    BY <2>5, ReachedGoal
  <2>7. X[1] = Client
    BY <2>4, PeerParts
  <2>8. QED
    BY <2>3, <2>6, <2>7
<1>4. ASSUME IdleIn(e, K) PROVE FALSE
  <2>1. PICK s : s = <<ReadMarker \o Expects(MinorOf(Full)), Nothing, Full>>
    BY Zenon
  <2>2. RestingAt(e, Client, s, K)
    BY <1>4, <2>1 DEF IdleIn, RestingAt
  <2>3. \E q : EntersAs(e, Client, "got", K[2], MinorOf(K[3]), q)
    BY <1>1, <1>2, <2>2, RestingDo
  <2>4. QED
    BY <1>2, <2>3 DEF EntersAs
<1>5. QED
  BY <1>1, <1>3, <1>4 DEF ClientIn

\* The answer is the one that the builder gave, and the client goes on.
LEMMA GotTalks ==
  ASSUME NEW e \in Environment, NEW rg, NEW an, NEW p, NEW a, NEW K, AnsweringIn(e, rg, an, p, a, K), IsAt(K, "got"),
         NEW L, L = WithProgram(K, ClientSync)
  PROVE  /\ AnsweringIn(e, rg, "result", p, a, L) /\ L[1] # Do("leave")
         /\ GotOK(e, K[2]) /\ LeftIn(e, K[2], {})
<1>1. PICK G, y : /\ y[1] \in Clients /\ (\A g \in G : AnswerGoal(e, an, y, g))
                  /\ Talking(e, G, ToClient, p, a, y, K)
  BY DEF AnsweringIn
<1>2. PeerGoals(G, y)
  BY <1>1, AnswerGoalsOK, Zenon
<1>3. PICK X, Y : X = PeerSide(K, y, K[1]) /\ Y = ProxySide(K, ToClient, p, a)
  OBVIOUS
<1>4. Reached(e, G, X, Y)
  BY <1>1, <1>2, <1>3, GotReached
<1>5. X[1] = y /\ Pos(X) = <<K[1], K[2], K[3]>> /\ Y[1] = ToClient
  BY <1>3, PeerParts, ProxyParts
<1>6. PICK g \in G : g[1] = X[1] /\ g[2] = Pos(X) /\ g[3] = Y[1] /\ Rests(e, Y, g[4])
  BY <1>4, ReachedGoal
<1>7. Head(K[1]).k = "do"
  BY DEF IsAt
<1>8. g[2][1] = K[1] /\ g[2][2] = K[2] /\ g[2][3] = K[3]
  BY <1>5, <1>6
<1>9. g[2][1] # FailIns /\ g[2][1] # FailIns \o Expects(MinorOf(Full))
  BY <1>7, <1>8, FailHead, PeerParts2, Zenon
<1>10. AnswerGoal(e, an, y, g)
  BY <1>1
<1>11. GotOK(e, K[2]) /\ LeftIn(e, K[2], {}) /\ K[3] = Full /\ \E d : g[4] = <<ReadOp, d, Full>>
  BY <1>8, <1>9, <1>10, Zenon DEF AnswerGoal
<1>12. PICK d : g[4] = <<ReadOp, d, Full>>
  BY <1>11
<1>13. PICK z, c, m : z = Role("done") /\ c = K[2] /\ m = MinorOf(Full)
  OBVIOUS
<1>14. z[1] = "done" /\ z[1] \in Clients /\ ToClient[1] = "toClient"
  BY <1>13, Roles, DaemonRoles DEF Clients
<1>15. PICK h, H : h = <<z, <<FailIns, c, Full>>, ToClient, <<ReadOp, d, Full>>>> /\ H = {h}
  BY Zenon
<1>16. \A f \in H : AnswerGoal(e, "result", z, f)
  <2>1. h[1] = z /\ h[2][1] = FailIns /\ Place(h[2]) /\ Place(h[4])
    BY <1>15 DEF Place
  <2>2. AnswerGoal(e, "result", z, h)
    BY <2>1 DEF AnswerGoal
  <2>3. QED
    BY <1>15, <2>2
<1>17. Goals(H)
  BY <1>16, AnswerGoalsOK, Zenon
<1>18. Dialog(e, H, z, <<ClientSync, c, Full>>, ToClient, <<ReadOp, d, Full>>)
  <2>1. <<z, <<FailIns, c, Full>>, ToClient, <<ReadOp, d, Full>>>> \in H
    BY <1>15
  <2>2. QED
    BY <1>13, <1>14, <2>1, SyncTalk
<1>19. PICK q : q = ClientSync
  OBVIOUS
<1>20. Head(q).k = "write"
  BY <1>19, SendHead, Parts DEF ClientSync
<1>21. PICK Z : Z = PeerSide(K, z, q)
  OBVIOUS
<1>22. L[1] = q /\ PeerSide(L, z, q) = Z /\ ProxySide(L, ToClient, p, a) = Y
  BY <1>3, <1>19, <1>21, WithProgramParts
<1>23. Z[1] = z /\ Z[2] = q /\ Pos(Z) = <<q, c, Full>> /\ Z[5] = X[5] /\ Z[6] = X[6]
  BY <1>3, <1>11, <1>13, <1>21, PeerParts
<1>24. Clear(Z)
  BY <1>4, <1>23 DEF Clear, Reached
<1>25. Talk(e, H, Z, Y)
  <2>1. Dialog(e, H, Z[1], Pos(Z), Y[1], g[4])
    BY <1>5, <1>12, <1>18, <1>19, <1>23
  <2>2. Head(Z[2]).k \notin {"do", "fail"}
    BY <1>20, <1>23
  <2>3. QED
    BY <1>6, <1>17, <1>24, <2>1, <2>2, Restart
<1>26. Talk(e, H, Y, Z)
  BY <1>25 DEF Talk
<1>27. Talking(e, H, ToClient, p, a, z, L)
  BY <1>17, <1>22, <1>26 DEF Talking, Stays
<1>28. L[1] # Do("leave")
  BY <1>20, <1>22, Named
<1>29. z[1] # "reader"
  BY <1>14
<1>30. AnsweringIn(e, rg, "result", p, a, L)
  BY <1>14, <1>16, <1>27, <1>29 DEF AnsweringIn
<1>31. QED
  BY <1>11, <1>28, <1>30
=============================================================================
