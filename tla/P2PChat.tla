------------------------------ MODULE P2PChat ------------------------------
(***************************************************************************)
(* The peers of p2p-chat.py.  Each starts a server, dials one other peer,  *)
(* and keeps a protocol object for every connection, whoever dialled it.   *)
(* A message is written to all of them; who gets one that is not for him   *)
(* writes it to all but the connection it came by.  Nothing remembers what *)
(* was seen.  What one read of the socket returns is parsed as one message.*)
(*                                                                         *)
(* A connection is named by the peer that dialled it, its ends by that     *)
(* name and the side.  All peers run on one host.                          *)
(***************************************************************************)
EXTENDS Integers, Sequences, FiniteSets, FiniteSetsExt

CONSTANTS
    Peers,
    Nobody,     \* a nickname that no peer has, and a peer that dials nobody
    Overlays,   \* who dials whom: functions of the peers, one is chosen
    Talkers,    \* peers whose users send messages (a bound)
    Leavers,    \* peers whose users may quit (a bound)
    MaxSent,    \* bound on the messages of all users
    MaxWire     \* bound on the messages of a connection on their way

ASSUME P2PAssumption ==
    /\ IsFiniteSet(Peers) /\ Nobody \notin Peers
    /\ Overlays \subseteq [Peers -> Peers \cup {Nobody}]
    /\ Talkers \subseteq Peers /\ Leavers \subseteq Peers
    /\ MaxSent \in Nat /\ MaxWire \in Nat \ {0}

VARIABLES
    dials,      \* --client of each peer: never changes
    state,      \* how far run_until_stop() has come
    protos,     \* the ends that are in the lists _protos
    wire,       \* messages on their way to each end
    sent,       \* messages of the users, with whom they could reach then
    shown,      \* how often each peer has shown each message: 0, 1, more
    broken      \* history: a connection was lost

vars == <<dials, state, protos, wire, sent, shown, broken>>

Sides == {"client", "server"}
Ends == Peers \X Sides
Other(e) == <<e[1], IF e[2] = "client" THEN "server" ELSE "client">>
Owner(e) == IF e[2] = "client" THEN e[1] ELSE dials[e[1]]

Ids == 1..Len(sent)

TypeOK ==
    /\ dials \in Overlays
    /\ state \in [Peers -> {"off", "server", "running", "stopping", "ended"}]
    /\ protos \subseteq Ends
    /\ \A e \in protos : Owner(e) \in Peers /\ state[Owner(e)] \notin {"off", "ended"}
    /\ sent \in Seq([to : Peers \cup {Nobody}, reach : SUBSET Peers])
    /\ Len(sent) <= MaxSent
    /\ wire \in [Ends -> Seq(Ids)]
    /\ \A e \in Ends : wire[e] # <<>> => e \in protos
    /\ shown \in [Peers -> [1..MaxSent -> 0..2]]
    /\ broken \in BOOLEAN

Init ==
    /\ dials \in Overlays
    /\ state = [p \in Peers |-> "off"]
    /\ protos = {}
    /\ wire = [e \in Ends |-> <<>>]
    /\ sent = <<>>
    /\ shown = [p \in Peers |-> [i \in 1..MaxSent |-> 0]]
    /\ broken = FALSE

-----------------------------------------------------------------------------
(* Connections.                                                            *)

\* The event loop of the peer who has an end.
LoopRuns(e) == state[Owner(e)] # "stopping"

\* Communicator.run(): the server first.
Listen(p) ==
    /\ state[p] = "off"
    /\ state' = [state EXCEPT ![p] = IF dials[p] = Nobody THEN "running" ELSE "server"]
    /\ UNCHANGED <<dials, protos, wire, sent, shown, broken>>

\* The ends of a peer.
EndsOf(p) == {e \in protos : Owner(e) = p}

\* Slip: what was on its way comes to the next connection.
CloseOnly(ends) == protos' = protos \ ends /\ UNCHANGED wire

\* A peer's ends are closed; what was on its way to it is lost.
Close(ends) ==
    /\ protos' = protos \ ends
    /\ wire' = [e \in Ends |-> IF e \in ends THEN <<>> ELSE wire[e]]

\* Then the connection.  If it is refused, run() throws and the peer ends,
\* with the connections that others have made to it by then.  Nobody dials a
\* peer that is stopping (a bound).
Dial(p) ==
    /\ state[p] = "server"
    /\ dials[p] # Nobody /\ state[dials[p]] # "stopping"
    /\ UNCHANGED <<dials, sent, shown>>
    /\ IF state[dials[p]] \in {"server", "running"}
       THEN /\ state' = [state EXCEPT ![p] = "running"]
            /\ protos' = protos \cup {<<p, "client">>, <<p, "server">>}
            /\ UNCHANGED <<wire, broken>>
       ELSE /\ state' = [state EXCEPT ![p] = "ended"]
            /\ Close(EndsOf(p))
            /\ broken' = (broken \/ EndsOf(p) # {})

\* Control-C.  stop() waits for the thread that reads the user's next line and
\* holds the event loop: what was and will be written to this peer is lost.
Quit(p) ==
    /\ p \in Leavers /\ state[p] = "running"
    /\ state' = [state EXCEPT ![p] = "stopping"]
    /\ wire' = [e \in Ends |-> IF e \in EndsOf(p) THEN <<>> ELSE wire[e]]
    /\ broken' = (broken \/ EndsOf(p) # {})
    /\ UNCHANGED <<dials, protos, sent, shown>>

\* The line comes, and the peer closes its connections and ends.
Stop(p) ==
    /\ state[p] = "stopping"
    /\ state' = [state EXCEPT ![p] = "ended"]
    /\ Close(EndsOf(p))
    /\ UNCHANGED <<dials, sent, shown, broken>>

\* eof_received() or connection_lost() behind the other side's close.  What
\* it had still written may be lost with a reset.
Disconnect(e) ==
    /\ e \in protos /\ Other(e) \notin protos /\ LoopRuns(e)
    /\ Close({e})
    /\ UNCHANGED <<dials, state, sent, shown, broken>>

-----------------------------------------------------------------------------
(* Messages.                                                               *)

\* The address of an end: a port of its own, or that of the server.
SockName(e) == <<Owner(e), e[2]>>
PeerName(e) == SockName(Other(e))

\* Slip: only the connections that others have dialled.
TargetsDialled(p, exceptions) ==
    {e \in EndsOf(p) : e[2] = "server" /\ PeerName(e) \notin exceptions}

\* The ends that send_message() of a peer writes to.
Targets(p, exceptions) == {e \in EndsOf(p) : PeerName(e) \notin exceptions}

\* Bound: messages are written only where there is room on the wire.
RoomFor(targets) == \A e \in targets : Len(wire[Other(e)]) < MaxWire

\* The wires with a message written to some ends.  A transport whose other
\* side is closed, or not read any more, takes it and drops it.
Written(w, id, targets) ==
    [e \in Ends |-> IF Other(e) \in targets /\ e \in protos /\ LoopRuns(e)
                    THEN Append(w[e], id) ELSE w[e]]

\* The peers that a message written by a peer can get to: those in every set
\* with him that no connection leads out of.
Linked(p, q) == \E e \in protos : Other(e) \in protos /\ {Owner(e), Owner(Other(e))} = {p, q}
Reach(p) ==
    {q \in Peers \ {p} : \A s \in SUBSET Peers :
        p \in s /\ (\A r \in s, x \in Peers : Linked(r, x) => x \in s) => q \in s}

\* A user types "receiver, text".
Say(p, to) ==
    /\ p \in Talkers /\ state[p] = "running" /\ Len(sent) < MaxSent
    /\ to # p /\ RoomFor(Targets(p, {}))
    /\ sent' = Append(sent, [to |-> to, reach |-> Reach(p)])
    /\ wire' = Written(wire, Len(sent) + 1, Targets(p, {}))
    /\ UNCHANGED <<dials, state, protos, shown, broken>>

\* Slip: nothing is left out.
ExceptNothing(e) == {}

\* What _on_message() does not write a message to that came by an end.
Exceptions(e) == {PeerName(e), SockName(e)}

\* The message is for this peer, who then does not resend it.
ForMe(p, id) == sent[id].to = p

\* data_received() with one message.
Receive(e) ==
    /\ e \in protos /\ wire[e] # <<>> /\ LoopRuns(e)
    /\ LET p == Owner(e)
           id == Head(wire[e])
           rest == [wire EXCEPT ![e] = Tail(@)]
       IN IF ForMe(p, id)
          THEN /\ shown' = [shown EXCEPT ![p][id] = Min({2, @ + 1})]
               /\ wire' = rest
          ELSE /\ RoomFor(Targets(p, Exceptions(e)))
               /\ wire' = Written(rest, id, Targets(p, Exceptions(e)))
               /\ UNCHANGED shown
    /\ UNCHANGED <<dials, state, protos, sent, broken>>

\* data_received() with several: json.loads() throws, and the event loop
\* closes the connection.
Coalesced(e) ==
    /\ e \in protos /\ Len(wire[e]) > 1 /\ LoopRuns(e)
    /\ Close({e})
    /\ broken' = TRUE
    /\ UNCHANGED <<dials, state, sent, shown>>

-----------------------------------------------------------------------------
Next ==
    \/ \E p \in Peers :
           \/ Listen(p) \/ Dial(p) \/ Quit(p) \/ Stop(p)
           \/ \E to \in Peers \cup {Nobody} : Say(p, to)
    \/ \E e \in Ends : Disconnect(e) \/ Receive(e) \/ Coalesced(e)

Spec == Init /\ [][Next]_vars

\* The event loop of each peer runs until its user quits.
Fairness == \A e \in Ends : WF_vars(Disconnect(e)) /\ WF_vars(Receive(e) \/ Coalesced(e))
FairSpec == Spec /\ Fairness

-----------------------------------------------------------------------------
(* Properties.                                                             *)

\* A peer runs, and both ends of the connection it has dialled are there.
Whole(p) == state[p] = "running" /\ {<<p, "client">>, <<p, "server">>} \subseteq protos

\* Peers that dial each other in a ring, or two that dial each other.
Ring == \E s \in SUBSET Peers : Cardinality(s) > 1
            /\ \A p \in s : dials[p] \in s \ {p}
\* The same with all connections there now.
RingOpen == \E s \in SUBSET Peers : Cardinality(s) > 1
            /\ \A p \in s : dials[p] \in s \ {p} /\ Whole(p)

\* Where nobody dials himself and there is no ring, the flood finds each peer
\* once: a message is shown once at most, and only to whom it is for.
ShownOnce ==
    \A p \in Peers : \A i \in 1..MaxSent :
        shown[p][i] > 0 =>
            /\ i \in Ids /\ sent[i].to = p
            /\ shown[p][i] > 1 => Ring \/ \E q \in Peers : dials[q] = q

\* Nothing is on its way.
Quiet == \A e \in Ends : wire[e] = <<>>

\* When nothing is on its way any more, each message was shown to whom it was
\* for and could reach when it was said.  Only a lost connection can undo
\* that, a peer whose user has quit, and two messages in one read.
ShownUnlessBroken ==
    Quiet /\ ~broken =>
        \A i \in Ids : sent[i].to \in sent[i].reach => shown[sent[i].to][i] > 0

\* Without a ring the flood comes to rest, also where a peer has dialled
\* himself, as the defaults of the options let him.  In a ring it goes round
\* as long as all its peers run and all its connections are there.
ComesToRest == []<>(Quiet \/ RingOpen)
=============================================================================
