----------------------------- MODULE MCNixWire -----------------------------
(* NixWire for TLC: the environments of its run. *)
EXTENDS NixWire

AllOutputs == {1, 2}

Plain ==
  [caller |-> "client", minor |-> [c \in Conn |-> 38], pinned |-> FALSE,
   supplied |-> TRUE, signs |-> TRUE, chat |-> "none", status |-> 0,
   outs |-> AllOutputs, cpu |-> TRUE, error |-> "none",
   present |-> AllOutputs, signable |-> AllOutputs, deriver |-> TRUE,
   trusted |-> TRUE, acks |-> FALSE, dies |-> {}, hangs |-> {}]

\* Versions on both sides of 1.38, and a client with an affinity.
Versions ==
  {[Plain EXCEPT !.minor[c] = n, !.dies = {"client"}] :
     c \in Conn, n \in {13, 37, 39}}
  \union {[Plain EXCEPT !.minor["client"] = n, !.pinned = TRUE] :
            n \in {37, 38}}

\* What a builder reports, and what the daemons say meanwhile.
Builds ==
  {[Plain EXCEPT !.status = st, !.outs = os, !.cpu = b] :
     st \in {2, 9}, os \in {{}, {2}}, b \in BOOLEAN}
  \union {[Plain EXCEPT !.chat = ch] : ch \in Chats}
  \union {[Plain EXCEPT !.supplied = FALSE], [Plain EXCEPT !.signs = FALSE]}
  \union {[Plain EXCEPT !.error = e, !.chat = "activity"] :
            e \in {"plain", "positioned"}}

\* What a store host has, knows and does.
Stores ==
  {[Plain EXCEPT !.present = os, !.deriver = d, !.acks = a] :
     os \in {{2}, AllOutputs}, d \in BOOLEAN, a \in BOOLEAN}
  \union {[Plain EXCEPT !.trusted = FALSE], [Plain EXCEPT !.signable = {1}]}

\* Peers that go away or stop answering at any point.
Failing ==
  {[Plain EXCEPT !.dies = {c}] : c \in Conn}
  \union {[Plain EXCEPT !.dies = {"client"}, !.hangs = {c}] :
            c \in {"builder", "store"}}

\* Builds of a job, whose context may be cancelled at any point.
Job == [Plain EXCEPT !.caller = "job"]
Jobs ==
  {[Job EXCEPT !.outs = os] : os \in {{}, {2}}}
  \union {[Job EXCEPT !.minor["builder"] = 37], [Job EXCEPT !.supplied = FALSE],
          [Job EXCEPT !.error = "positioned", !.chat = "activity"]}
  \union {[Job EXCEPT !.dies = {"builder"}], [Job EXCEPT !.hangs = {"builder"}]}

Peers == Versions \union Builds \union Stores \union Failing \union Jobs
=============================================================================
