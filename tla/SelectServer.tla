---------------------------- MODULE SelectServer ----------------------------
(***************************************************************************)
(* The select() file server: SelectProcessor::run_step() is one thread     *)
(* that polls the listening socket, the client sockets and their files,    *)
(* accepts at most one connection, and then serves every client of its     *)
(* list.  One action is one system call of that thread; between two of     *)
(* them the peers connect, write, read, close and reset as they like.      *)
(*                                                                         *)
(* A peer sends its request line in Segments TCP segments, asks for a file *)
(* of FileLength bytes and connects once.  The ring of a client is kept as *)
(* the bounded stream that module Transceiver shows it to be.              *)
(***************************************************************************)
EXTENDS Integers, Sequences, FiniteSets, SequencesExt

CONSTANTS
    Peers,       \* the remote programs
    MaxClients,  \* max_clients
    FileLength,  \* bytes in the requested file
    Capacity,    \* bytes a client's ring holds
    SockRoom,    \* bytes the kernels hold between send() and the peer's recv()
    Segments,    \* TCP segments a request line is cut into
    Faulty,      \* peers that may misbehave ...
    Faults,      \* ... and the ways they may do it
    BadFdTest    \* what FD_ISSET(-1, ...) may do in this build: "clear", "abort"

ASSUME SelectAssumption ==
    /\ MaxClients \in Nat \ {0}
    /\ FileLength \in Nat
    /\ Capacity \in Nat \ {0}
    /\ SockRoom \in Nat \ {0}
    /\ Segments \in Nat \ {0}
    /\ Faulty \subseteq Peers
    /\ Faults \subseteq {"more", "shutdown", "leave", "reset", "urgent",
                   "missing", "barred", "ioerror"}
    /\ BadFdTest \subseteq {"clear", "abort"}
    /\ BadFdTest # {}

VARIABLES
    up,          \* the server process runs
    backlog,     \* connections waiting in listen()'s queue
    clients,     \* clients_, in list order
    tr,          \* Transceiver of each peer's client
    conn,        \* what became of each peer's connection
    sock,        \* the two ends of each connection, as the kernels hold them
    ready,       \* the descriptor sets as select() left them
    released,    \* this step has closed a descriptor
    pc,          \* where run_step() is ...
    cursor       \* ... and client_iter's position in the list

server == <<up, clients, tr, conn, ready, released, pc, cursor>>
vars == <<up, backlog, clients, tr, conn, sock, ready, released, pc, cursor>>

\* Segments of the request plus one more that a faulty peer may write.
MaxWritten == Segments + 1

Transceivers == [
    opened : BOOLEAN,             \* file_descriptor_ # -1
    fetched : 0..FileLength,      \* bytes read from the file
    handed : 0..FileLength,       \* sent_size_
    ended : BOOLEAN,              \* read_finished_
    cut : BOOLEAN]                \* get_request() took a part of the request line

Ends == [
    inbox : 0..MaxWritten,        \* segments waiting at the server
    wrote : 0..MaxWritten,        \* segments the peer wrote so far
    fin : BOOLEAN,                \* the peer shut down its writing side
    rst : BOOLEAN,                \* the connection was reset by the peer's kernel
    urgent : BOOLEAN,             \* out-of-band data wait at the server
    gone : BOOLEAN,               \* the peer closed its socket
    inflight : 0..SockRoom,       \* bytes sent and not yet read by the peer
    got : 0..FileLength]          \* bytes the peer read

Served == {p \in Peers : conn[p] = "served"}

TypeOK ==
    /\ up \in BOOLEAN
    /\ backlog \in Seq(Peers)
    /\ clients \in Seq(Peers)
    /\ tr \in [Peers -> Transceivers]
    /\ conn \in [Peers -> {"none", "queued", "served", "refused", "dropped", "done"}]
    /\ sock \in [Peers -> Ends]
    /\ ready \in [r : SUBSET Peers, w : SUBSET Peers, e : SUBSET Peers,
                  f : SUBSET Peers, accept : BOOLEAN]
    /\ released \in BOOLEAN
    /\ pc \in {"select", "accept", "recv", "send", "read"}
    /\ cursor \in 1..MaxClients

NothingReady == [r |-> {}, w |-> {}, e |-> {}, f |-> {}, accept |-> FALSE]

Init ==
    /\ up = TRUE
    /\ backlog = <<>>
    /\ clients = <<>>
    /\ tr = [p \in Peers |-> [opened |-> FALSE, fetched |-> 0, handed |-> 0,
                              ended |-> FALSE, cut |-> FALSE]]
    /\ conn = [p \in Peers |-> "none"]
    /\ sock = [p \in Peers |-> [inbox |-> 0, wrote |-> 0, fin |-> FALSE, rst |-> FALSE,
                                urgent |-> FALSE, gone |-> FALSE, inflight |-> 0, got |-> 0]]
    /\ ready = NothingReady
    /\ released = FALSE
    /\ pc = "select"
    /\ cursor = 1

-----------------------------------------------------------------------------
(* The peers and the kernels (outside the server).                         *)

Misbehaves(p, fault) == p \in Faulty /\ fault \in Faults
Linked(p) == conn[p] \in {"queued", "served"} /\ ~sock[p].rst

Connect(p) ==
    /\ up /\ conn[p] = "none"
    /\ conn' = [conn EXCEPT ![p] = "queued"]
    /\ backlog' = Append(backlog, p)
    /\ UNCHANGED <<up, clients, tr, sock, ready, released, pc, cursor>>

\* A segment of the request line, or one that nobody asked for.
Write(p) ==
    /\ Linked(p) /\ ~sock[p].fin
    /\ sock[p].wrote < (IF Misbehaves(p, "more") THEN MaxWritten ELSE Segments)
    /\ sock' = [sock EXCEPT ![p].wrote = @ + 1, ![p].inbox = @ + 1]
    /\ UNCHANGED <<server, backlog>>

WriteUrgent(p) ==
    /\ Misbehaves(p, "urgent") /\ Linked(p) /\ ~sock[p].fin /\ ~sock[p].urgent
    /\ sock' = [sock EXCEPT ![p].urgent = TRUE]
    /\ UNCHANGED <<server, backlog>>

\* shutdown(SHUT_WR): the peer has said all it had to say and still reads.
Shutdown(p) ==
    /\ Misbehaves(p, "shutdown") /\ Linked(p) /\ ~sock[p].fin
    /\ sock' = [sock EXCEPT ![p].fin = TRUE]
    /\ UNCHANGED <<server, backlog>>

\* close() with nothing unread: an orderly end.
Leave(p) ==
    /\ Misbehaves(p, "leave") /\ Linked(p) /\ ~sock[p].gone /\ sock[p].inflight = 0
    /\ sock' = [sock EXCEPT ![p].fin = TRUE, ![p].gone = TRUE]
    /\ UNCHANGED <<server, backlog>>

\* close() with bytes unread, or a crash of the peer: the connection is reset.
Abandon(p) ==
    /\ Misbehaves(p, "reset") /\ Linked(p) /\ ~sock[p].gone
    /\ sock' = [sock EXCEPT ![p].rst = TRUE, ![p].gone = TRUE, ![p].inflight = 0]
    /\ UNCHANGED <<server, backlog>>

\* Data for a closed socket are answered with a reset.
AnswerWithReset(p) ==
    /\ sock[p].gone /\ ~sock[p].rst /\ sock[p].inflight > 0
    /\ sock' = [sock EXCEPT ![p].rst = TRUE, ![p].inflight = 0]
    /\ UNCHANGED <<server, backlog>>

PeerReads(p) ==
    /\ ~sock[p].gone /\ sock[p].inflight > 0
    /\ \E n \in 1..sock[p].inflight :
        sock' = [sock EXCEPT ![p].inflight = @ - n, ![p].got = @ + n]
    /\ UNCHANGED <<server, backlog>>

Environment ==
    \E p \in Peers :
        \/ Connect(p) \/ Write(p) \/ WriteUrgent(p) \/ Shutdown(p)
        \/ Leave(p) \/ Abandon(p) \/ AnswerWithReset(p) \/ PeerReads(p)

-----------------------------------------------------------------------------
(* What the calls of run_step() do to the list and the connections.        *)

Current == clients[cursor]

Buffered(p) == tr[p].fetched - tr[p].handed

\* Slip: the slot that keeps a full ring from looking empty is used as well.
RoomNoGap(p) == Capacity + 1 - Buffered(p)
\* What read_data() may still ask of the file.
Room(p) == Capacity - Buffered(p)

\* Go on with the client at this position of the list, or end the step.
Iterate(list, position, closed) ==
    IF position <= Len(list)
    THEN /\ pc' = "recv"
         /\ cursor' = position
         /\ released' = closed
         /\ UNCHANGED ready
    ELSE /\ pc' = "select"
         /\ cursor' = 1
         /\ released' = FALSE
         /\ ready' = NothingReady

\* clients_.erase(client_iter++) closes the client's descriptors.  A socket
\* closed with segments unread is reset: what the peer has not got by then
\* may be lost.
Erase(p, outcome, unread) ==
    /\ clients' = RemoveAt(clients, cursor)
    /\ conn' = [conn EXCEPT ![p] = outcome]
    /\ \E kept \in IF unread = 0 THEN {sock[p].inflight} ELSE 0..sock[p].inflight :
        sock' = [sock EXCEPT ![p].inflight = kept, ![p].inbox = 0]
    /\ Iterate(clients', cursor, TRUE)
    /\ UNCHANGED <<up, backlog>>

-----------------------------------------------------------------------------
(* run_step().                                                             *)

Readable(p) == sock[p].inbox > 0 \/ sock[p].fin \/ sock[p].rst
Writable(p) == sock[p].inflight < SockRoom \/ sock[p].rst

\* Slip: sockets are watched for requests even after the end of the file.
WatchedAlways(p) == TRUE
\* build_sock_list() puts a socket into the read set until its file ends.
Watched(p) == ~tr[p].ended

\* build_sock_list() and select(): regular files are always ready.  A call
\* that times out changes nothing and is left out.
Select ==
    /\ up /\ pc = "select"
    /\ ready' = [r |-> {p \in Served : Watched(p) /\ Readable(p)},
                 w |-> {p \in Served : Writable(p)},
                 e |-> {p \in Served : sock[p].urgent},
                 f |-> {p \in Served : tr[p].opened /\ ~tr[p].ended},
                 accept |-> backlog # <<>>]
    /\ ready' # NothingReady
    /\ pc' = "accept"
    /\ UNCHANGED <<up, backlog, clients, tr, conn, sock, released, cursor>>

\* Slip: the limit is compared one too late.
HasRoomOffByOne == Len(clients) <= MaxClients
HasRoom == Len(clients) < MaxClients

\* process_new_client(): a connection over the limit is told so and closed.
Accept ==
    /\ up /\ pc = "accept"
    /\ IF ~ready.accept
       THEN UNCHANGED <<backlog, clients, conn>>
       ELSE LET p == Head(backlog) IN
            /\ backlog' = Tail(backlog)
            /\ IF HasRoom
               THEN /\ clients' = Append(clients, p)
                    /\ conn' = [conn EXCEPT ![p] = "served"]
               ELSE /\ conn' = [conn EXCEPT ![p] = "refused"]
                    /\ UNCHANGED clients
    /\ Iterate(clients', 1, FALSE)
    /\ UNCHANGED <<up, tr, sock>>

AtClient(stage) == up /\ pc = stage
SkipTo(stage) ==
    /\ pc' = stage
    /\ UNCHANGED <<up, backlog, clients, tr, conn, sock, ready, released, cursor>>

\* The process ends: an exception leaves run_step(), or FD_ISSET aborts.
Die ==
    /\ up' = FALSE
    /\ UNCHANGED <<backlog, clients, tr, conn, sock, ready, released, pc, cursor>>

\* The socket is in the error set (out-of-band data).
DropOnError ==
    /\ AtClient("recv") /\ Current \in ready.e
    /\ Erase(Current, "dropped", sock[Current].inbox)
    /\ UNCHANGED tr

\* FD_ISSET(client_iter->get_fd(), ...) with no file open tests descriptor -1.
TestNoFile ==
    /\ AtClient("recv") /\ Current \notin ready.e
    /\ ~tr[Current].opened /\ "abort" \in BadFdTest
    /\ Die

Reads(p) == p \notin ready.e /\ p \in ready.r /\ (tr[p].opened \/ "clear" \in BadFdTest)

NoRequest ==
    /\ AtClient("recv")
    /\ Current \notin ready.e /\ Current \notin ready.r
    /\ tr[Current].opened \/ "clear" \in BadFdTest
    /\ SkipTo("send")

\* recv() fails with ECONNRESET; waiting data and a FIN are reported first.
RecvFails(p) == sock[p].inbox = 0 /\ ~sock[p].fin /\ sock[p].rst

\* weakly_canonical(), exists() or is_regular_file() cannot tell what the name
\* stands for (a directory that may not be searched, a loop of links, a name
\* too long or not to be converted).  The name is resolved before
\* file_opened() is asked, and a part of a line is a name as well.
NameFails(p) == sock[p].inbox > 0 /\ Misbehaves(p, "barred")

\* get_request() or recv_file_path() throws, outside the try block.
RequestThrows ==
    /\ AtClient("recv") /\ Reads(Current)
    /\ RecvFails(Current) \/ NameFails(Current)
    /\ Die

\* One recv() takes all that waits; get_request() cuts it at the first line
\* end and takes what there is if there is none.
IsRequest(p) == sock[p].inbox >= Segments

\* update_file_path() returns -1: a second request or end of stream, an
\* incomplete name, or a name known to be no regular file.
RequestRejected ==
    /\ AtClient("recv") /\ Reads(Current)
    /\ LET p == Current IN
       /\ sock[p].inbox > 0 \/ sock[p].fin
       /\ tr[p].opened \/ ~IsRequest(p) \/ Misbehaves(p, "missing")
       /\ tr' = [tr EXCEPT ![p].cut = ~tr[p].opened /\ ~IsRequest(p)]
       /\ Erase(p, "dropped", 0)

\* update_file_path() opens the file.  Its descriptor may be one that this
\* step closed, and then it inherits the bit of the old one in the read set.
RequestOpens ==
    /\ AtClient("recv") /\ Reads(Current)
    /\ ~tr[Current].opened /\ IsRequest(Current)
    /\ tr' = [tr EXCEPT ![Current].opened = TRUE]
    /\ sock' = [sock EXCEPT ![Current].inbox = 0]
    /\ \E stale \in {FALSE, released} :
        ready' = IF stale THEN [ready EXCEPT !.f = @ \cup {Current}] ELSE ready
    /\ pc' = "send"
    /\ UNCHANGED <<up, backlog, clients, conn, released, cursor>>

\* Slip: the write set is not consulted.
MaySendUntested(p) == TRUE
\* The socket is in the write set.
MaySend(p) == p \in ready.w

\* The socket is not writable, or there is nothing to send yet.
NothingToSend ==
    /\ AtClient("send")
    /\ MaySend(Current) => Buffered(Current) = 0 /\ ~tr[Current].ended
    /\ SkipTo("read")

\* Slip: an empty ring is taken for the end of the transfer.
FinishedWhenEmpty(p) == Buffered(p) = 0
\* send_buffer() answers finished and read_finished() holds.
Finished(p) == Buffered(p) = 0 /\ tr[p].ended

SendFinished ==
    /\ AtClient("send") /\ MaySend(Current) /\ Finished(Current)
    /\ Erase(Current, "done", sock[Current].inbox)
    /\ UNCHANGED tr

\* Slip: need_to_repeat() also repeats a send() to a reset connection.
SendErrorRepeated(p) == FALSE
\* send() fails on a reset connection.
SendError(p) == sock[p].rst

SendFails ==
    /\ AtClient("send") /\ MaySend(Current) /\ Buffered(Current) > 0
    /\ SendError(Current)
    /\ Erase(Current, "dropped", sock[Current].inbox)
    /\ UNCHANGED tr

\* send() of at least one byte; with no room it would repeat on EAGAIN.
Send ==
    /\ AtClient("send") /\ MaySend(Current) /\ ~sock[Current].rst
    /\ \E n \in 1..Buffered(Current) :
        /\ sock[Current].inflight + n <= SockRoom
        /\ tr' = [tr EXCEPT ![Current].handed = @ + n]
        /\ sock' = [sock EXCEPT ![Current].inflight = @ + n]
    /\ pc' = "read"
    /\ UNCHANGED <<up, backlog, clients, conn, ready, released, cursor>>

\* The file is not in the read set, or the ring is full.
NothingToRead ==
    /\ AtClient("read")
    /\ Current \in ready.f => Room(Current) = 0
    /\ Iterate(clients, cursor + 1, released)
    /\ UNCHANGED <<up, backlog, clients, tr, conn, sock>>

\* Slip: every answer of read_data() but "ok" is an error, a full ring too.
ReadErrorUnlessOk(p) == Room(p) = 0 \/ Misbehaves(p, "ioerror")
\* read_data() answers "error": the file cannot be read.
ReadError(p) == Room(p) # 0 /\ Misbehaves(p, "ioerror")

ReadFails ==
    /\ AtClient("read") /\ Current \in ready.f /\ ReadError(Current)
    /\ Erase(Current, "dropped", sock[Current].inbox)
    /\ UNCHANGED tr

\* read() of at least one byte, or of none at the end of the file.
Read ==
    /\ AtClient("read") /\ Current \in ready.f /\ Room(Current) # 0
    /\ \/ /\ tr[Current].fetched = FileLength
          /\ tr' = [tr EXCEPT ![Current].ended = TRUE]
       \/ \E n \in 1..Room(Current) :
          /\ tr[Current].fetched + n <= FileLength
          /\ tr' = [tr EXCEPT ![Current].fetched = @ + n]
    /\ Iterate(clients, cursor + 1, released)
    /\ UNCHANGED <<up, backlog, clients, conn, sock>>

RunStep ==
    \/ Select \/ Accept
    \/ DropOnError \/ TestNoFile \/ NoRequest \/ RequestThrows \/ RequestRejected \/ RequestOpens
    \/ NothingToSend \/ SendFinished \/ SendFails \/ Send
    \/ NothingToRead \/ ReadFails \/ Read

Next == RunStep \/ Environment

Spec == Init /\ [][Next]_vars

\* The server's thread always runs on; peers that are not faulty write their
\* request and read what arrives; kernels answer data for closed sockets.
Fairness ==
    /\ WF_vars(RunStep)
    /\ \A p \in Peers : WF_vars(AnswerWithReset(p))
    /\ \A p \in Peers \ Faulty : WF_vars(Write(p)) /\ WF_vars(PeerReads(p))

FairSpec == Spec /\ Fairness

-----------------------------------------------------------------------------
(* Properties.                                                             *)

\* clients_ and the connections agree: no more than max_clients are served,
\* each once, and the iterator of run_step() points into the list whenever
\* it is dereferenced, also after erase(client_iter++) and emplace_back().
ListSound ==
    /\ Len(clients) <= MaxClients
    /\ IsInjective(clients)
    /\ Range(clients) = Served
    /\ pc \in {"recv", "send", "read"} => cursor <= Len(clients)

\* A transfer logged as "was sent" reaches its reader whole: the socket took
\* every byte, and closing it loses none unless the peer went away or wrote
\* more than its request, which nobody reads after the end of the file.
DoneIsDelivered ==
    \A p \in Peers :
        conn[p] = "done" =>
            /\ tr[p].handed = FileLength
            /\ \/ sock[p].got + sock[p].inflight = FileLength
               \/ sock[p].rst
               \/ sock[p].wrote > Segments

\* No client is erased without a reason of its own: whatever the others do,
\* however short the sends and however full the ring, a peer that sends its
\* line and reads is dropped only if the line arrived in pieces.
DroppedForCause ==
    \A p \in Peers \ Faulty : conn[p] = "dropped" => tr[p].cut

\* The server ends only on a client whose file has not ended: its socket was
\* reset with nothing left to read, it asked for a name that the file system
\* refuses to resolve, or it has no file yet and FD_ISSET(-1, ...) aborts in
\* this build.  The same reset or name costs a client alone once its file has
\* ended, and nothing else a peer does ends the server.
DiesOnRequest ==
    ~up => /\ ~tr[Current].ended
           /\ \/ RecvFails(Current)
              \/ NameFails(Current)
              \/ ~tr[Current].opened /\ "abort" \in BadFdTest

\* Every client's transfer is the bounded stream of FileStream.
Stream(p) == INSTANCE FileStream WITH
    fetched <- tr[p].fetched,
    sent <- [i \in 1..tr[p].handed |-> i],
    ended <- tr[p].ended

StreamOfEachClient ==
    /\ \A p \in Peers : Stream(p)!Init
    /\ [][\A p \in Peers : [Stream(p)!Next]_(Stream(p)!vars)]_vars

\* One thread serves all: a peer that sends its line in one segment and
\* reads gets the whole file or is turned away as one too many, whatever
\* the other clients do short of a reset or of a name that throws.
GoodPeerServed ==
    \A p \in Peers \ Faulty :
        conn[p] = "queued" ~> (conn[p] = "refused" \/ sock[p].got = FileLength)

\* A peer that closed its socket does not keep a place in clients_.
DepartedIsReleased ==
    \A p \in Peers : sock[p].gone ~> conn[p] # "served"

\* What the comments of run_step() say of a failing client socket, "Client
\* socket error." and then the next client: the server goes on.
ServerSurvives == up
=============================================================================
