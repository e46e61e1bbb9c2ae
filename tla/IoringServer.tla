---------------------------- MODULE IoringServer ----------------------------
(***************************************************************************)
(* The echo server over io_uring.  One thread waits for completions; each  *)
(* client has a Request, which is given to the kernel for one operation at *)
(* a time: recv, send, recv, ...  One more Request waits for the next      *)
(* client.  Nothing is waited for longer than five seconds.                *)
(*                                                                         *)
(* A client sends the cells 1, 2, 3, ...; the buffer of a Request has Size *)
(* cells.  That accept() fails is not part of the model, and the kernel    *)
(* sends with MSG_NOSIGNAL, as io_uring does by itself.                    *)
(***************************************************************************)
EXTENDS Integers, Sequences, FiniteSets, FiniteSetsExt

CONSTANTS
    Clients,    \* one connection of each
    Good,       \* those that read their echo and leave in order
    Listener,   \* stands for the Request of accept_client()
    Size,       \* cells of data_
    MaxCells    \* bound on the cells that a client sends

ASSUME IoringAssumption ==
    /\ IsFiniteSet(Clients) /\ Good \subseteq Clients /\ Listener \notin Clients
    /\ Size \in Nat \ {0} /\ MaxCells \in Nat

VARIABLES
    up,         \* the server runs
    event,      \* event_type_ of each Request
    length,     \* iov_len of each Request
    data,       \* data_ of each Request
    flight,     \* operations of each Request that the kernel has
    cq,         \* completions that the server has not seen
    peer,       \* the client's end of the connection
    said,       \* cells the client has sent
    taken,      \* of these, cells that were received
    echo,       \* cells the client got back
    told,       \* clients whose reset was already reported, to a send
    \* History variables.
    short,      \* clients with a send that was short or failed
    idle        \* five seconds passed without a completion

client == <<peer, said>>
vars == <<up, event, length, data, flight, cq, client, taken, echo, told, short, idle>>

Requests == Clients \cup {Listener}

TypeOK ==
    /\ up \in BOOLEAN /\ idle \in BOOLEAN /\ told \subseteq short /\ short \subseteq Clients
    /\ event \in [Requests -> {"none", "accept", "recv", "send", "freed"}]
    /\ length \in [Clients -> 1..Size]
    /\ data \in [Clients -> [1..Size -> 0..MaxCells]]
    /\ flight \in [Requests -> Nat]
    /\ cq \in Seq([request : Requests, client : Clients, res : -1..Size])
    /\ peer \in [Clients -> {"out", "open", "shut", "reset"}]
    /\ said \in [Clients -> 0..MaxCells] /\ taken \in [Clients -> 0..MaxCells]
    /\ \A c \in Clients : taken[c] <= said[c]
    /\ echo \in [Clients -> Seq(0..MaxCells)]

Init ==
    /\ up = TRUE
    /\ event = [r \in Requests |-> IF r = Listener THEN "accept" ELSE "none"]
    /\ length = [c \in Clients |-> Size]
    /\ data = [c \in Clients |-> [k \in 1..Size |-> 0]]
    /\ flight = [r \in Requests |-> IF r = Listener THEN 1 ELSE 0]
    /\ cq = <<>>
    /\ peer = [c \in Clients |-> "out"]
    /\ said = [c \in Clients |-> 0]
    /\ taken = [c \in Clients |-> 0]
    /\ echo = [c \in Clients |-> <<>>]
    /\ told = {}
    /\ short = {}
    /\ idle = FALSE

-----------------------------------------------------------------------------
(* The clients.                                                            *)

Connect(c) ==
    /\ up /\ peer[c] = "out"
    /\ peer' = [peer EXCEPT ![c] = "open"]
    /\ UNCHANGED <<up, event, length, data, flight, cq, said, taken, echo, told, short, idle>>

Say(c) ==
    /\ peer[c] = "open" /\ said[c] < MaxCells
    /\ said' = [said EXCEPT ![c] = @ + 1]
    /\ UNCHANGED <<up, event, length, data, flight, cq, peer, taken, echo, told, short, idle>>

\* A client that closes with a part of the echo unread resets the connection.
Leave(c) ==
    /\ peer[c] = "open"
    /\ \/ peer' = [peer EXCEPT ![c] = "shut"]
       \/ c \notin Good /\ peer' = [peer EXCEPT ![c] = "reset"]
    /\ UNCHANGED <<up, event, length, data, flight, cq, said, taken, echo, told, short, idle>>

-----------------------------------------------------------------------------
(* The kernel carries out what was submitted.                              *)

Has(r, kind) == flight[r] > 0 /\ event[r] = kind

\* An operation is carried out: its completion joins the queue.
Completed(r, client_of, res) ==
    /\ flight' = [flight EXCEPT ![r] = @ - 1]
    /\ cq' = Append(cq, [request |-> r, client |-> client_of, res |-> res])

Accepted(c) ==
    /\ Has(Listener, "accept") /\ peer[c] # "out" /\ event[c] = "none"
    /\ \A k \in DOMAIN cq : cq[k].client # c
    /\ Completed(Listener, c, 0)
    /\ UNCHANGED <<up, event, length, data, client, taken, echo, told, short, idle>>

Available(c) == said[c] - taken[c]

\* What waits in the socket comes first, then the end of the stream or the
\* reset.  A reset is reported once: where a send got it, recvmsg() finds the
\* end of the stream.
Received(c) ==
    /\ Has(c, "recv")
    /\ \/ /\ Available(c) > 0
          /\ LET n == Min({Available(c), length[c]}) IN
             /\ data' = [data EXCEPT ![c] =
                            [k \in 1..Size |-> IF k <= n THEN taken[c] + k ELSE @[k]]]
             /\ taken' = [taken EXCEPT ![c] = @ + n]
             /\ Completed(c, c, n)
       \/ /\ Available(c) = 0 /\ (peer[c] = "shut" \/ c \in told)
          /\ Completed(c, c, 0) /\ UNCHANGED <<data, taken>>
       \/ /\ Available(c) = 0 /\ peer[c] = "reset" /\ c \notin told
          /\ Completed(c, c, -1) /\ UNCHANGED <<data, taken>>
    /\ UNCHANGED <<up, event, length, client, echo, told, short, idle>>

\* sendmsg() sends as much as there is room for, or fails.
Sent(c) ==
    /\ Has(c, "send")
    /\ \/ /\ peer[c] # "reset"
          /\ \E n \in 1..length[c] :
                /\ echo' = [echo EXCEPT ![c] = @ \o [k \in 1..n |-> data[c][k]]]
                /\ short' = IF n < length[c] THEN short \cup {c} ELSE short
                /\ Completed(c, c, n)
          /\ UNCHANGED told
       \/ /\ peer[c] \in {"shut", "reset"}
          /\ Completed(c, c, -1) /\ short' = short \cup {c} /\ UNCHANGED echo
          /\ told' = IF peer[c] = "reset" THEN told \cup {c} ELSE told
    /\ UNCHANGED <<up, event, length, data, client, taken, idle>>

-----------------------------------------------------------------------------
(* The server: the loop over the completions.                              *)

This == Head(cq)
Seen == up /\ cq # <<>> /\ cq' = Tail(cq)

\* Slip: accept is not submitted again.
ArmOnlyRecv(c) == flight' = [flight EXCEPT ![c] = @ + 1]

\* Behind an accept() both the next accept() and the first recv() are given
\* to the kernel.
Arm(c) == flight' = [flight EXCEPT ![c] = @ + 1, ![Listener] = @ + 1]

OnAccept ==
    /\ Seen /\ event[This.request] = "accept"
    /\ event' = [event EXCEPT ![This.client] = "recv"]
    /\ Arm(This.client)
    /\ UNCHANGED <<up, length, data, client, taken, echo, told, short, idle>>

\* Slip: the length of the buffer is not set.
LengthUnset(c, n) == length

\* Slip: it is added to the length.
LengthGrows(c, n) == [length EXCEPT ![c] = @ + n]

\* set_length(): as much as was received.
LengthSet(c, n) == [length EXCEPT ![c] = n]

\* An empty request frees the Request, an error ends the server.
OnRecv ==
    /\ Seen /\ event[This.request] = "recv"
    /\ LET c == This.client IN
       \/ /\ This.res > 0
          /\ length' = LengthSet(c, This.res)
          /\ event' = [event EXCEPT ![c] = "send"]
          /\ flight' = [flight EXCEPT ![c] = @ + 1]
          /\ UNCHANGED up
       \/ /\ This.res = 0
          /\ event' = [event EXCEPT ![c] = "freed"]
          /\ UNCHANGED <<up, length, flight>>
       \/ /\ This.res < 0
          /\ up' = FALSE
          /\ UNCHANGED <<event, length, flight>>
    /\ UNCHANGED <<data, client, taken, echo, told, short, idle>>

\* Slip: a failed send ends the server as a failed recv does.
SurvivesIfSent(res) == res >= 0

\* The result of a send is not looked at.
Survives(res) == TRUE

\* reset_length(), and the next recv().
OnSend ==
    /\ Seen /\ event[This.request] = "send"
    /\ LET c == This.client IN
       /\ length' = [length EXCEPT ![c] = Size]
       /\ event' = [event EXCEPT ![c] = "recv"]
       /\ flight' = [flight EXCEPT ![c] = @ + 1]
    /\ up' = Survives(This.res)
    /\ UNCHANGED <<data, client, taken, echo, told, short, idle>>

\* The peer need not read: what is sent to it waits for room.
Blocked(c) == c \notin Good /\ peer[c] = "open"

\* The kernel has nothing that it must complete.
Still ==
    /\ cq = <<>>
    /\ \A c \in Clients :
        /\ Has(c, "send") => Blocked(c)
        /\ Has(c, "recv") => peer[c] = "open" /\ Available(c) = 0
        /\ peer[c] # "out" => event[c] # "none"

\* io_uring_wait_cqes() returns -ETIME, which throws like any other error.
Timeout ==
    /\ up /\ Still
    /\ up' = FALSE /\ idle' = TRUE
    /\ UNCHANGED <<event, length, data, flight, cq, client, taken, echo, told, short>>

-----------------------------------------------------------------------------
Kernel(c) == up /\ (Accepted(c) \/ Received(c) \/ Sent(c))
Server == OnAccept \/ OnRecv \/ OnSend
Next ==
    \/ Server \/ Timeout
    \/ \E c \in Clients : Kernel(c) \/ Connect(c) \/ Say(c) \/ Leave(c)

Spec == Init /\ [][Next]_vars

\* The kernel completes what it can for a good client, which reads its echo,
\* and the server's thread runs.  A send to another may wait for ever.
Fairness == WF_vars(Server) /\ \A c \in Good : WF_vars(Kernel(c))
FairSpec == Spec /\ Fairness

-----------------------------------------------------------------------------
(* Properties.                                                             *)

InQueue(r) == Cardinality({k \in DOMAIN cq : cq[k].request = r})

\* While the server runs, each Request has exactly one operation, with the
\* kernel or completed, and a freed one, whose memory is gone, has none: one
\* accept() is always there, and no buffer is received into while it is sent.
OneOperationEach ==
    up => \A r \in Requests :
        flight[r] + InQueue(r) = IF event[r] \in {"none", "freed"} THEN 0 ELSE 1

\* A client gets its own cells back, in their order and each once.  As long
\* as no send was short it gets all of them: when the server receives again,
\* all that was received has gone back.
EchoInOrder ==
    \A c \in Clients :
        /\ \A k \in DOMAIN echo[c] : echo[c][k] \in 1..taken[c]
        /\ \A j, k \in DOMAIN echo[c] : j < k => echo[c][j] < echo[c][k]
        /\ c \notin short /\ Has(c, "recv") => Len(echo[c]) = taken[c]

\* The server ends with a connection that was reset or with five seconds
\* without a completion, be it that nobody speaks or that no peer reads.  A client that has closed and is sent to is no cause, nor
\* is a reset that a send has met first: that costs this client alone.
EndsForCause ==
    ~up => idle \/ \E c \in Clients \ told : peer[c] = "reset" /\ event[c] = "recv"

\* What a good client says comes back, whatever the others do, unless the
\* server ends or a send is short.
GoodIsEchoed ==
    \A c \in Good :
        said[c] > Len(echo[c]) ~> said[c] = Len(echo[c]) \/ ~up \/ c \in short
=============================================================================
