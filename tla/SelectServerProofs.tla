------------------------ MODULE SelectServerProofs ------------------------
(***************************************************************************)
(* Proofs about SelectServer for any peers and faults, any limit of        *)
(* clients and any length of the file, the ring and the request line.      *)
(***************************************************************************)
EXTENDS SelectServer, SequenceTheorems, TLAPS

\* Every connection of the backlog waits there once.
BacklogSound ==
    /\ \A j, k \in DOMAIN backlog : backlog[j] = backlog[k] => j = k
    /\ \A k \in DOMAIN backlog : conn[backlog[k]] = "queued"
    /\ pc = "accept" /\ ready.accept => backlog # <<>>

\* The bytes of one connection: nothing is received that was not sent or sent
\* that was not read, no byte is lost while the connection is served, and a
\* file is open only behind a whole request.
BytesSound(p) ==
    LET s == sock[p]
        t == tr[p]
    IN /\ s.inbox <= s.wrote
       /\ s.got + s.inflight <= t.handed /\ t.handed <= t.fetched
       /\ t.fetched - t.handed <= Capacity
       /\ t.ended => t.opened /\ t.fetched = FileLength
       /\ t.opened => s.wrote - s.inbox >= Segments
       /\ conn[p] \notin {"dropped", "done"} => s.rst \/ s.got + s.inflight = t.handed

\* A peer that is not faulty does nothing that could cost it the connection.
Innocent(p) ==
    /\ ~sock[p].urgent /\ ~sock[p].fin /\ ~sock[p].rst /\ ~sock[p].gone
    /\ sock[p].wrote <= Segments

DoneWhole(p) ==
    /\ tr[p].handed = FileLength
    /\ \/ sock[p].got + sock[p].inflight = FileLength
       \/ sock[p].rst
       \/ sock[p].wrote > Segments

PeerOK(p) ==
    /\ BytesSound(p)
    /\ conn[p] = "done" => DoneWhole(p)
    /\ p \notin Faulty => Innocent(p) /\ (conn[p] = "dropped" => tr[p].cut)

\* What select() answered is still true of the clients that this step has yet
\* to come to: their files have not ended meanwhile.
Undecided(p) == p \in ready.r \cup ready.f => ~tr[p].ended

ReadyOK ==
    /\ ready.e \subseteq Faulty
    /\ \A p \in ready.f : tr[p].opened
    /\ pc = "accept" => \A p \in Peers : Undecided(p)
    /\ pc \in {"recv", "send", "read"} =>
            \A k \in cursor..Len(clients) : Undecided(clients[k])

\* The inductive invariant.
IInv ==
    /\ TypeOK
    /\ ListSound
    /\ BacklogSound
    /\ \A p \in Peers : PeerOK(p)
    /\ ReadyOK
    /\ DiesOnRequest
    /\ ~up => pc = "recv"

-----------------------------------------------------------------------------
(* Types of what the model records of a peer.                              *)

LEMMA EndsOf ==
    ASSUME TypeOK, NEW p \in Peers
    PROVE  /\ sock[p] \in Ends /\ tr[p] \in Transceivers
           /\ sock[p].inbox \in 0..MaxWritten /\ sock[p].wrote \in 0..MaxWritten
           /\ sock[p].fin \in BOOLEAN /\ sock[p].rst \in BOOLEAN
           /\ sock[p].urgent \in BOOLEAN /\ sock[p].gone \in BOOLEAN
           /\ sock[p].inflight \in 0..SockRoom /\ sock[p].got \in 0..FileLength
           /\ tr[p].opened \in BOOLEAN /\ tr[p].ended \in BOOLEAN /\ tr[p].cut \in BOOLEAN
           /\ tr[p].fetched \in 0..FileLength /\ tr[p].handed \in 0..FileLength
<1>1. sock[p] \in Ends /\ tr[p] \in Transceivers
  BY DEF TypeOK
<1> QED
  BY <1>1 DEF Ends, Transceivers

LEMMA Numbers ==
    /\ MaxClients \in Nat \ {0} /\ FileLength \in Nat /\ Capacity \in Nat \ {0}
    /\ SockRoom \in Nat \ {0} /\ Segments \in Nat \ {0}
    /\ MaxWritten \in Nat /\ MaxWritten = Segments + 1
BY SelectAssumption DEF MaxWritten

\* The iterator is at a client that is served.
LEMMA CurrentServed ==
    ASSUME TypeOK, ListSound, pc \in {"recv", "send", "read"}
    PROVE  /\ Current \in Peers /\ conn[Current] = "served"
           /\ cursor \in 1..Len(clients) /\ Len(clients) \in Nat
           /\ DOMAIN clients = 1..Len(clients)
<1>1. clients \in Seq(Peers) /\ cursor \in 1..MaxClients /\ cursor <= Len(clients)
  BY DEF TypeOK, ListSound
<1>2. Len(clients) \in Nat /\ DOMAIN clients = 1..Len(clients)
  BY <1>1, LenProperties
<1>3. cursor \in 1..Len(clients)
  BY <1>1, <1>2, Numbers
<1>4. Current \in Range(clients)
  BY <1>2, <1>3 DEF Current, Range
<1> QED
  BY <1>2, <1>3, <1>4 DEF ListSound, Served

-----------------------------------------------------------------------------
(* The peers and the kernels.                                              *)

\* A step at the far end of one connection leaves the server's own state, and
\* what it has decided, as it is.
LEMMA FarEndStep ==
    ASSUME IInv, NEW c \in Peers, UNCHANGED <<server, backlog>>,
           sock' \in [Peers -> Ends], \A q \in Peers \ {c} : sock'[q] = sock[q],
           RecvFails(c) => RecvFails(c)', NameFails(c) => NameFails(c)',
           PeerOK(c)'
    PROVE  IInv'
<1> USE DEF server
<1>1. TypeOK' /\ ListSound' /\ BacklogSound' /\ ReadyOK'
  BY DEF IInv, TypeOK, ListSound, BacklogSound, ReadyOK, Undecided, Served
<1>2. \A p \in Peers : PeerOK(p)'
  <2>1. ASSUME NEW p \in Peers, p # c PROVE PeerOK(p)'
    BY <2>1 DEF IInv, PeerOK, BytesSound, DoneWhole, Innocent
  <2> QED
    BY <2>1
<1>3. DiesOnRequest'
  <2> SUFFICES ASSUME ~up PROVE DiesOnRequest'
    BY DEF DiesOnRequest
  <2>1. PICK d \in Peers : d = Current
    BY CurrentServed DEF IInv
  <2>2. Current' = d
    BY <2>1 DEF Current
  <2>3. /\ ~tr[d].ended
        /\ RecvFails(d) \/ NameFails(d) \/ (~tr[d].opened /\ "abort" \in BadFdTest)
    BY <2>1 DEF IInv, DiesOnRequest, RecvFails, NameFails
  <2>4. (RecvFails(d) => RecvFails(d)') /\ (NameFails(d) => NameFails(d)')
    <3>1. CASE d = c
      BY <3>1
    <3>2. CASE d # c
      BY <3>2 DEF RecvFails, NameFails
    <3> QED
      BY <3>1, <3>2
  <2>5. /\ ~tr'[d].ended
        /\ RecvFails(d)' \/ NameFails(d)' \/ (~tr'[d].opened /\ "abort" \in BadFdTest)
    BY <2>3, <2>4
  <2> QED
    BY <2>2, <2>5 DEF DiesOnRequest, RecvFails, NameFails
<1> QED
  BY <1>1, <1>2, <1>3 DEF IInv

\* What the peers and the kernels do to a connection keeps its bytes sound,
\* and only a faulty peer does what is not innocent.
LEMMA WriteStep == ASSUME IInv, NEW c \in Peers, Write(c) PROVE IInv'
<1>1. /\ sock' = [sock EXCEPT ![c].wrote = @ + 1, ![c].inbox = @ + 1]
      /\ UNCHANGED <<server, backlog>> /\ conn[c] \in {"queued", "served"}
      /\ ~sock[c].rst /\ ~sock[c].fin
      /\ sock[c].wrote < IF Misbehaves(c, "more") THEN MaxWritten ELSE Segments
  BY DEF Write, Linked
<1>2. TypeOK /\ PeerOK(c)
  BY DEF IInv
<1>3. sock \in [Peers -> Ends]
  BY <1>2 DEF TypeOK
<1>4. sock'[c] = [sock[c] EXCEPT !.wrote = @ + 1, !.inbox = @ + 1]
      /\ \A q \in Peers \ {c} : sock'[q] = sock[q]
  BY <1>1, <1>3
<1>5. sock[c].wrote + 1 \in 0..MaxWritten /\ sock[c].inbox + 1 \in 0..MaxWritten
  BY <1>1, <1>2, EndsOf, Numbers DEF PeerOK, BytesSound
<1>6. sock'[c] \in Ends /\ sock' \in [Peers -> Ends]
  BY <1>1, <1>3, <1>4, <1>5 DEF Ends
<1>7. /\ sock'[c].wrote = sock[c].wrote + 1 /\ sock'[c].inbox = sock[c].inbox + 1
      /\ sock'[c].got = sock[c].got /\ sock'[c].inflight = sock[c].inflight
      /\ sock'[c].rst = sock[c].rst /\ sock'[c].fin = sock[c].fin
      /\ sock'[c].urgent = sock[c].urgent /\ sock'[c].gone = sock[c].gone
      /\ tr'[c] = tr[c] /\ conn'[c] = conn[c]
  BY <1>1, <1>3, <1>4 DEF server, Ends
<1>8. BytesSound(c)'
  BY <1>2, <1>7, EndsOf, Numbers DEF PeerOK, BytesSound
<1>9. c \notin Faulty => Innocent(c)'
  BY <1>1, <1>2, <1>7, EndsOf, Numbers DEF PeerOK, Innocent, Misbehaves
<1>10. PeerOK(c)'
  BY <1>1, <1>7, <1>8, <1>9 DEF PeerOK
<1>11. ~RecvFails(c) /\ (NameFails(c) => NameFails(c)')
  BY <1>1, <1>2, <1>7, EndsOf DEF RecvFails, NameFails, Misbehaves
<1> QED
  BY <1>1, <1>4, <1>6, <1>10, <1>11, FarEndStep

LEMMA FlagStep ==
    ASSUME IInv, NEW c \in Peers, WriteUrgent(c) \/ Shutdown(c) \/ Leave(c)
    PROVE  IInv'
<1>1. /\ UNCHANGED <<server, backlog>> /\ ~sock[c].rst /\ c \in Faulty
      /\ \/ sock' = [sock EXCEPT ![c].urgent = TRUE]
         \/ sock' = [sock EXCEPT ![c].fin = TRUE]
         \/ sock' = [sock EXCEPT ![c].fin = TRUE, ![c].gone = TRUE]
  BY DEF WriteUrgent, Shutdown, Leave, Linked, Misbehaves
<1>2. TypeOK /\ PeerOK(c)
  BY DEF IInv
<1>3. sock \in [Peers -> Ends]
  BY <1>2 DEF TypeOK
<1>4. /\ \A q \in Peers \ {c} : sock'[q] = sock[q]
      /\ sock' \in [Peers -> Ends]
      /\ sock'[c].wrote = sock[c].wrote /\ sock'[c].inbox = sock[c].inbox
      /\ sock'[c].got = sock[c].got /\ sock'[c].inflight = sock[c].inflight
      /\ sock'[c].rst = sock[c].rst
  <2>1. CASE sock' = [sock EXCEPT ![c].urgent = TRUE]
    BY <1>3, <2>1 DEF Ends
  <2>2. CASE sock' = [sock EXCEPT ![c].fin = TRUE]
    BY <1>3, <2>2 DEF Ends
  <2>3. CASE sock' = [sock EXCEPT ![c].fin = TRUE, ![c].gone = TRUE]
    <3>1. sock'[c] = [sock[c] EXCEPT !.fin = TRUE, !.gone = TRUE]
          /\ \A q \in Peers \ {c} : sock'[q] = sock[q]
      BY <1>3, <2>3
    <3>2. sock'[c] \in Ends
      BY <1>3, <3>1 DEF Ends
    <3> QED
      BY <1>3, <2>3, <3>1, <3>2 DEF Ends
  <2> QED
    BY <1>1, <2>1, <2>2, <2>3
<1>a. tr'[c] = tr[c] /\ conn'[c] = conn[c]
  BY <1>1 DEF server
<1>5. BytesSound(c)' /\ (DoneWhole(c) => DoneWhole(c)')
  BY <1>2, <1>4, <1>a DEF PeerOK, BytesSound, DoneWhole
<1>6. PeerOK(c)'
  BY <1>1, <1>2, <1>4, <1>5, <1>a DEF PeerOK
<1>7. ~RecvFails(c) /\ (NameFails(c) => NameFails(c)')
  BY <1>1, <1>4 DEF RecvFails, NameFails
<1> QED
  BY <1>1, <1>4, <1>6, <1>7, FarEndStep

LEMMA ResetStep ==
    ASSUME IInv, NEW c \in Peers, Abandon(c) \/ AnswerWithReset(c)
    PROVE  IInv'
<1>1. TypeOK /\ PeerOK(c)
  BY DEF IInv
<1>2. /\ UNCHANGED <<server, backlog>> /\ ~sock[c].rst /\ c \in Faulty
      /\ \/ sock' = [sock EXCEPT ![c].rst = TRUE, ![c].gone = TRUE, ![c].inflight = 0]
         \/ sock' = [sock EXCEPT ![c].rst = TRUE, ![c].inflight = 0]
  BY <1>1 DEF Abandon, AnswerWithReset, Linked, Misbehaves, PeerOK, Innocent
<1>3. sock \in [Peers -> Ends]
  BY <1>1 DEF TypeOK
<1>4. /\ \A q \in Peers \ {c} : sock'[q] = sock[q]
      /\ sock' \in [Peers -> Ends]
      /\ sock'[c].wrote = sock[c].wrote /\ sock'[c].inbox = sock[c].inbox
      /\ sock'[c].got = sock[c].got /\ sock'[c].inflight = 0
      /\ sock'[c].rst = TRUE
  <2>1. 0 \in 0..SockRoom
    BY Numbers
  <2>2. /\ \/ sock'[c] = [sock[c] EXCEPT !.rst = TRUE, !.gone = TRUE, !.inflight = 0]
           \/ sock'[c] = [sock[c] EXCEPT !.rst = TRUE, !.inflight = 0]
        /\ \A q \in Peers \ {c} : sock'[q] = sock[q]
    BY <1>2, <1>3
  <2>3. sock'[c] \in Ends
    BY <1>3, <2>1, <2>2 DEF Ends
  <2>4. sock' \in [Peers -> Ends]
    <3>1. DOMAIN sock' = Peers /\ sock' = [q \in Peers |-> sock'[q]]
      BY <1>2, <1>3
    <3> QED
      BY <1>3, <2>2, <2>3, <3>1
  <2> QED
    BY <1>3, <2>2, <2>3, <2>4 DEF Ends
<1>a. tr'[c] = tr[c] /\ conn'[c] = conn[c]
  BY <1>2 DEF server
<1>5. BytesSound(c)' /\ (DoneWhole(c) => DoneWhole(c)')
  BY <1>1, <1>4, <1>a, EndsOf, Numbers DEF PeerOK, BytesSound, DoneWhole
<1>6. PeerOK(c)'
  BY <1>1, <1>2, <1>4, <1>5, <1>a DEF PeerOK
<1>7. ~RecvFails(c) /\ (NameFails(c) => NameFails(c)')
  BY <1>2, <1>4 DEF RecvFails, NameFails
<1> QED
  BY <1>2, <1>4, <1>6, <1>7, FarEndStep

LEMMA PeerReadsStep == ASSUME IInv, NEW c \in Peers, PeerReads(c) PROVE IInv'
<1>1. TypeOK /\ PeerOK(c)
  BY DEF IInv
<1>2. UNCHANGED <<server, backlog>>
  BY DEF PeerReads
<1>3. PICK n \in 1..sock[c].inflight :
          sock' = [sock EXCEPT ![c].inflight = @ - n, ![c].got = @ + n]
  BY DEF PeerReads
<1>4. sock \in [Peers -> Ends]
  BY <1>1 DEF TypeOK
<1>5. sock'[c] = [sock[c] EXCEPT !.inflight = @ - n, !.got = @ + n]
      /\ \A q \in Peers \ {c} : sock'[q] = sock[q]
  BY <1>3, <1>4
<1>6. sock[c].inflight - n \in 0..SockRoom /\ sock[c].got + n \in 0..FileLength
  BY <1>1, EndsOf, Numbers DEF PeerOK, BytesSound
<1>7. sock'[c] \in Ends /\ sock' \in [Peers -> Ends]
  BY <1>3, <1>4, <1>5, <1>6 DEF Ends
<1>8. /\ sock'[c].wrote = sock[c].wrote /\ sock'[c].inbox = sock[c].inbox
      /\ sock'[c].got = sock[c].got + n /\ sock'[c].inflight = sock[c].inflight - n
      /\ sock'[c].rst = sock[c].rst /\ sock'[c].fin = sock[c].fin
      /\ sock'[c].urgent = sock[c].urgent /\ sock'[c].gone = sock[c].gone
      /\ tr'[c] = tr[c] /\ conn'[c] = conn[c]
  BY <1>2, <1>4, <1>5 DEF server, Ends
<1>9. sock'[c].got + sock'[c].inflight = sock[c].got + sock[c].inflight
  BY <1>1, <1>8, EndsOf, Numbers
<1>10. BytesSound(c)' /\ (DoneWhole(c) => DoneWhole(c)') /\ (Innocent(c) => Innocent(c)')
  BY <1>1, <1>8, <1>9 DEF PeerOK, BytesSound, DoneWhole, Innocent
<1>11. PeerOK(c)'
  BY <1>1, <1>8, <1>10 DEF PeerOK
<1>12. (RecvFails(c) => RecvFails(c)') /\ (NameFails(c) => NameFails(c)')
  BY <1>8 DEF RecvFails, NameFails
<1> QED
  BY <1>2, <1>5, <1>7, <1>8, <1>11, <1>12, FarEndStep

\* A connection joins the backlog.
LEMMA ConnectStep == ASSUME IInv, NEW c \in Peers, Connect(c) PROVE IInv'
<1>1. /\ up /\ conn[c] = "none"
      /\ conn' = [conn EXCEPT ![c] = "queued"] /\ backlog' = Append(backlog, c)
      /\ UNCHANGED <<up, clients, tr, sock, ready, released, pc, cursor>>
  BY DEF Connect
<1>2. /\ TypeOK /\ ListSound /\ BacklogSound /\ ReadyOK
      /\ backlog \in Seq(Peers)
      /\ conn \in [Peers -> {"none", "queued", "served", "refused", "dropped", "done"}]
  BY DEF IInv, TypeOK
<1>3. /\ backlog' \in Seq(Peers) /\ backlog' # <<>>
      /\ DOMAIN backlog = 1..Len(backlog) /\ DOMAIN backlog' = 1..(Len(backlog) + 1)
      /\ Len(backlog) \in Nat
      /\ \A k \in 1..Len(backlog) : backlog'[k] = backlog[k]
      /\ backlog'[Len(backlog) + 1] = c
  BY <1>1, <1>2, AppendProperties, LenProperties
<1>4. /\ conn'[c] = "queued" /\ \A q \in Peers \ {c} : conn'[q] = conn[q]
      /\ conn' \in [Peers -> {"none", "queued", "served", "refused", "dropped", "done"}]
  BY <1>1, <1>2
<1>5. TypeOK'
  BY <1>1, <1>2, <1>3, <1>4 DEF TypeOK
<1>6. ListSound'
  <2>1. Served' = Served
    BY <1>1, <1>4 DEF Served
  <2> QED
    BY <1>1, <1>2, <2>1 DEF ListSound
<1>7. BacklogSound'
  <2>1. \A k \in 1..Len(backlog) : backlog[k] # c /\ backlog[k] \in Peers /\ conn[backlog[k]] = "queued"
    BY <1>1, <1>2, <1>3, ElementOfSeq DEF BacklogSound
  <2>2. \A k \in DOMAIN backlog' : conn'[backlog'[k]] = "queued"
    BY <1>3, <1>4, <2>1
  <2>3. \A j, k \in DOMAIN backlog' : backlog'[j] = backlog'[k] => j = k
    BY <1>2, <1>3, <2>1 DEF BacklogSound
  <2> QED
    BY <1>3, <2>2, <2>3 DEF BacklogSound
<1>8. \A p \in Peers : PeerOK(p)'
  BY <1>1, <1>4 DEF IInv, PeerOK, BytesSound, DoneWhole, Innocent
<1>9. ReadyOK' /\ DiesOnRequest'
  BY <1>1, <1>2 DEF ReadyOK, Undecided, DiesOnRequest
<1> QED
  BY <1>1, <1>5, <1>6, <1>7, <1>8, <1>9 DEF IInv

-----------------------------------------------------------------------------
(* clients_.erase().                                                       *)

\* What erasing one position leaves.
LEMMA RemoveAtProperties ==
    ASSUME NEW S, NEW s \in Seq(S), NEW i \in 1..Len(s)
    PROVE  /\ RemoveAt(s, i) \in Seq(S)
           /\ Len(RemoveAt(s, i)) = Len(s) - 1
           /\ \A k \in 1..(Len(s) - 1) : RemoveAt(s, i)[k] = IF k < i THEN s[k] ELSE s[k + 1]
<1> DEFINE front == SubSeq(s, 1, i - 1)
           back == SubSeq(s, i + 1, Len(s))
<1>1. Len(s) \in Nat /\ \A k \in 1..Len(s) : s[k] \in S
  BY LenProperties, ElementOfSeq
<1>2. /\ front \in Seq(S) /\ Len(front) = i - 1
      /\ \A k \in 1..(i - 1) : front[k] = s[k]
  <2>1. /\ 1 \in Int /\ i - 1 \in Int /\ \A k \in 1..(i - 1) : s[k] \in S
    BY <1>1
  <2>2. /\ front \in Seq(S) /\ Len(front) = IF 1 <= i - 1 THEN i - 1 - 1 + 1 ELSE 0
        /\ \A k \in 1..(i - 1 - 1 + 1) : front[k] = s[1 + k - 1]
    BY <2>1, SubSeqProperties
  <2> QED
    BY <1>1, <2>2
<1>3. /\ back \in Seq(S) /\ Len(back) = Len(s) - i
      /\ \A k \in 1..(Len(s) - i) : back[k] = s[i + k]
  <2>1. /\ i + 1 \in Int /\ Len(s) \in Int /\ \A k \in (i + 1)..Len(s) : s[k] \in S
    BY <1>1
  <2>2. /\ back \in Seq(S)
        /\ Len(back) = IF i + 1 <= Len(s) THEN Len(s) - (i + 1) + 1 ELSE 0
        /\ \A k \in 1..(Len(s) - (i + 1) + 1) : back[k] = s[(i + 1) + k - 1]
    BY <2>1, SubSeqProperties
  <2> QED
    BY <1>1, <2>2
<1> HIDE DEF front, back
<1>4. /\ front \o back \in Seq(S) /\ Len(front \o back) = Len(front) + Len(back)
      /\ \A k \in 1..(Len(front) + Len(back)) :
            (front \o back)[k] = IF k <= Len(front) THEN front[k] ELSE back[k - Len(front)]
  BY <1>2, <1>3, ConcatProperties, Zenon
<1>5. Len(front) + Len(back) = Len(s) - 1
  BY <1>1, <1>2, <1>3
<1>6. ASSUME NEW k \in 1..(Len(s) - 1)
      PROVE  (front \o back)[k] = IF k < i THEN s[k] ELSE s[k + 1]
  <2>1. CASE k < i
    BY <1>1, <1>2, <1>4, <1>5, <2>1
  <2>2. CASE ~(k < i)
    <3>1. k - (i - 1) \in 1..(Len(s) - i) /\ i + (k - (i - 1)) = k + 1 /\ ~(k <= i - 1)
      BY <1>1, <2>2
    <3>2. (front \o back)[k] = back[k - (i - 1)]
      BY <1>2, <1>4, <1>5, <3>1
    <3>3. back[k - (i - 1)] = s[i + (k - (i - 1))]
      BY <1>3, <3>1
    <3> QED
      BY <2>2, <3>1, <3>2, <3>3
  <2> QED
    BY <2>1, <2>2
<1>7. RemoveAt(s, i) = front \o back
  BY DEF RemoveAt, front, back
<1> QED
  BY <1>4, <1>5, <1>6, <1>7

\* Erasing the client at the iterator leaves the others once each, those
\* behind it one position earlier.
LEMMA ErasedList ==
    ASSUME TypeOK, ListSound, pc \in {"recv", "send", "read"},
           NEW c \in Peers, c = Current, clients' = RemoveAt(clients, cursor)
    PROVE  /\ clients' \in Seq(Peers) /\ Len(clients') = Len(clients) - 1
           /\ Len(clients) \in Nat /\ cursor \in 1..Len(clients)
           /\ DOMAIN clients' = 1..(Len(clients) - 1)
           /\ \A k \in cursor..(Len(clients) - 1) : clients'[k] = clients[k + 1]
           /\ IsInjective(clients') /\ Range(clients') = Range(clients) \ {c}
<1>1. /\ clients \in Seq(Peers) /\ cursor \in 1..Len(clients) /\ Len(clients) \in Nat
      /\ DOMAIN clients = 1..Len(clients) /\ clients[cursor] = c
  BY CurrentServed DEF TypeOK, Current
<1>2. /\ clients' \in Seq(Peers) /\ Len(clients') = Len(clients) - 1
      /\ \A k \in 1..(Len(clients) - 1) :
            clients'[k] = IF k < cursor THEN clients[k] ELSE clients[k + 1]
  BY <1>1, RemoveAtProperties
<1>3. DOMAIN clients' = 1..(Len(clients) - 1)
  BY <1>2, LenProperties
<1>4. \A j, k \in 1..Len(clients) : clients[j] = clients[k] => j = k
  BY <1>1 DEF ListSound, IsInjective
<1>5. IsInjective(clients')
  <2> SUFFICES ASSUME NEW j \in 1..(Len(clients) - 1), NEW k \in 1..(Len(clients) - 1),
                      clients'[j] = clients'[k]
               PROVE  j = k
    BY <1>3 DEF IsInjective
  <2> DEFINE old(m) == IF m < cursor THEN m ELSE m + 1
  <2>1. old(j) \in 1..Len(clients) /\ old(k) \in 1..Len(clients)
    BY <1>1
  <2>2. clients'[j] = clients[old(j)] /\ clients'[k] = clients[old(k)]
    BY <1>2
  <2>3. old(j) = old(k)
    BY <1>4, <2>1, <2>2
  <2> QED
    BY <1>1, <2>3
<1>6. Range(clients') = Range(clients) \ {c}
  <2>1. ASSUME NEW k \in 1..(Len(clients) - 1)
        PROVE  clients'[k] \in Range(clients) /\ clients'[k] # c
    <3> DEFINE old == IF k < cursor THEN k ELSE k + 1
    <3>1. old \in 1..Len(clients) /\ old # cursor /\ clients'[k] = clients[old]
      BY <1>1, <1>2
    <3> QED
      BY <1>1, <1>4, <3>1 DEF Range
  <2>2. ASSUME NEW k \in 1..Len(clients), clients[k] # c
        PROVE  clients[k] \in Range(clients')
    <3> DEFINE new == IF k < cursor THEN k ELSE k - 1
    <3>1. k # cursor
      BY <1>1, <2>2
    <3>2. new \in 1..(Len(clients) - 1) /\ clients'[new] = clients[k]
      BY <1>1, <1>2, <3>1
    <3> QED
      BY <1>3, <3>2 DEF Range
  <2> QED
    BY <1>1, <1>3, <2>1, <2>2 DEF Range
<1>7. \A k \in cursor..(Len(clients) - 1) : clients'[k] = clients[k + 1]
  BY <1>1, <1>2
<1> QED
  BY <1>1, <1>2, <1>3, <1>5, <1>6, <1>7

\* A client is erased for the reason that the caller gives: what is left is
\* sound, whichever bytes the closed socket loses.
LEMMA EraseStep ==
    ASSUME IInv, up, pc \in {"recv", "send", "read"},
           NEW c \in Peers, c = Current,
           NEW outcome \in {"dropped", "done"}, NEW unread \in 0..sock[c].inbox,
           Erase(c, outcome, unread),
           tr' \in [Peers -> Transceivers],
           \A q \in Peers \ {c} : tr'[q] = tr[q],
           /\ tr'[c].opened = tr[c].opened /\ tr'[c].ended = tr[c].ended
           /\ tr'[c].fetched = tr[c].fetched /\ tr'[c].handed = tr[c].handed,
           outcome = "done" =>
                tr[c].opened /\ tr[c].handed = FileLength,
           c \notin Faulty /\ outcome = "dropped" => tr'[c].cut
    PROVE  IInv'
<1>1. /\ TypeOK /\ ListSound /\ BacklogSound /\ ReadyOK /\ PeerOK(c)
      /\ conn[c] = "served"
  BY CurrentServed DEF IInv
<1>2. /\ clients' = RemoveAt(clients, cursor)
      /\ conn' = [conn EXCEPT ![c] = outcome]
      /\ UNCHANGED <<up, backlog>>
      /\ Iterate(clients', cursor, TRUE)
  BY DEF Erase
<1>3. PICK kept \in 0..sock[c].inflight :
          /\ unread = 0 => kept = sock[c].inflight
          /\ sock' = [sock EXCEPT ![c].inflight = kept, ![c].inbox = 0]
  <2>1. sock[c].inflight \in 0..SockRoom /\ SockRoom \in Nat
    BY <1>1, EndsOf, Numbers
  <2>2. PICK kept \in IF unread = 0 THEN {sock[c].inflight} ELSE 0..sock[c].inflight :
            sock' = [sock EXCEPT ![c].inflight = kept, ![c].inbox = 0]
    BY DEF Erase
  <2>3. kept \in 0..sock[c].inflight /\ (unread = 0 => kept = sock[c].inflight)
    BY <2>1
  <2> QED
    BY <2>2, <2>3
<1>4. /\ sock \in [Peers -> Ends] /\ sock' \in [Peers -> Ends]
      /\ \A q \in Peers \ {c} : sock'[q] = sock[q]
      /\ sock'[c] = [sock[c] EXCEPT !.inflight = kept, !.inbox = 0]
  <2>1. sock \in [Peers -> Ends]
    BY <1>1 DEF TypeOK
  <2>2. kept \in 0..SockRoom /\ 0 \in 0..MaxWritten
    BY <1>1, EndsOf, Numbers
  <2>3. sock'[c] = [sock[c] EXCEPT !.inflight = kept, !.inbox = 0]
        /\ \A q \in Peers \ {c} : sock'[q] = sock[q]
    BY <1>3, <2>1
  <2>4. sock'[c] \in Ends
    <3>1. sock[c] \in Ends
      BY <2>1
    <3> QED
      BY <2>2, <2>3, <3>1 DEF Ends
  <2>5. sock' \in [Peers -> Ends]
    <3>1. DOMAIN sock' = Peers /\ sock' = [q \in Peers |-> sock'[q]]
      BY <1>3, <2>1
    <3> QED
      BY <2>1, <2>3, <2>4, <3>1
  <2> QED
    BY <2>1, <2>3, <2>5
<1>5. /\ sock'[c].wrote = sock[c].wrote /\ sock'[c].inbox = 0
      /\ sock'[c].got = sock[c].got /\ sock'[c].inflight = kept
      /\ sock'[c].rst = sock[c].rst /\ sock'[c].fin = sock[c].fin
      /\ sock'[c].urgent = sock[c].urgent /\ sock'[c].gone = sock[c].gone
  BY <1>4 DEF Ends
<1>6. /\ conn'[c] = outcome /\ \A q \in Peers \ {c} : conn'[q] = conn[q]
      /\ conn' \in [Peers -> {"none", "queued", "served", "refused", "dropped", "done"}]
  BY <1>1, <1>2 DEF TypeOK
<1>7. /\ clients' \in Seq(Peers) /\ Len(clients') = Len(clients) - 1
      /\ Len(clients) \in Nat /\ cursor \in 1..Len(clients)
      /\ DOMAIN clients' = 1..(Len(clients) - 1)
      /\ \A k \in cursor..(Len(clients) - 1) : clients'[k] = clients[k + 1]
      /\ IsInjective(clients') /\ Range(clients') = Range(clients) \ {c}
  BY <1>1, <1>2, ErasedList
<1>8. \/ /\ pc' = "recv" /\ cursor' = cursor /\ cursor <= Len(clients') /\ ready' = ready
         /\ released' = TRUE
      \/ pc' = "select" /\ cursor' = 1 /\ ready' = NothingReady /\ released' = FALSE
  BY <1>2 DEF Iterate
<1>9. TypeOK'
  <2>1. ready' \in [r : SUBSET Peers, w : SUBSET Peers, e : SUBSET Peers,
                    f : SUBSET Peers, accept : BOOLEAN]
    <3> DEFINE Sets == [r : SUBSET Peers, w : SUBSET Peers, e : SUBSET Peers,
                        f : SUBSET Peers, accept : BOOLEAN]
    <3>1. ready \in Sets
      BY <1>1 DEF TypeOK
    <3>2. NothingReady \in Sets
      BY DEF NothingReady
    <3> QED
      BY <1>8, <3>1, <3>2
  <2>2. cursor' \in 1..MaxClients
    BY <1>1, <1>8, Numbers DEF TypeOK
  <2>3. backlog' \in Seq(Peers) /\ up' \in BOOLEAN
    BY <1>1, <1>2 DEF TypeOK
  <2> QED
    BY <1>4, <1>6, <1>7, <1>8, <2>1, <2>2, <2>3 DEF TypeOK
<1>10. ListSound'
  <2>1. Served' = Served \ {c}
    BY <1>6 DEF Served
  <2>2. Range(clients)' = Served'
    BY <1>1, <1>7, <2>1 DEF ListSound
  <2>3. Len(clients') <= MaxClients
    BY <1>1, <1>7, Numbers DEF ListSound
  <2>4. pc' \in {"recv", "send", "read"} => cursor' <= Len(clients')
    BY <1>8
  <2> QED
    BY <1>7, <2>2, <2>3, <2>4 DEF ListSound
<1>11. BacklogSound'
  <2>1. \A k \in DOMAIN backlog : backlog[k] # c /\ backlog[k] \in Peers
    <3>1. backlog \in Seq(Peers)
      BY <1>1 DEF TypeOK
    <3> QED
      BY <1>1, <3>1, ElementOfSeq, LenProperties DEF BacklogSound
  <2>2. pc' # "accept"
    BY <1>8
  <2> QED
    BY <1>1, <1>2, <1>6, <2>1, <2>2 DEF BacklogSound
<1>12. PeerOK(c)'
  <2>1. BytesSound(c)
    BY <1>1 DEF PeerOK
  <2>2. BytesSound(c)'
    BY <1>1, <1>3, <1>5, <1>6, <2>1, EndsOf, Numbers DEF BytesSound
  <2>3. outcome = "done" => DoneWhole(c)'
    <3> SUFFICES ASSUME outcome = "done" PROVE DoneWhole(c)'
      OBVIOUS
    <3>1. /\ tr[c].opened /\ tr'[c].handed = FileLength
          /\ sock[c].rst \/ sock[c].got + sock[c].inflight = FileLength
          /\ sock[c].wrote - sock[c].inbox >= Segments
      BY <1>1, <2>1 DEF BytesSound
    <3>2. CASE unread = 0
      BY <1>3, <1>5, <3>1, <3>2 DEF DoneWhole
    <3>3. CASE unread # 0
      <4>1. sock[c].wrote > Segments
        BY <1>1, <3>1, <3>3, EndsOf, Numbers
      <4> QED
        BY <1>5, <3>1, <4>1 DEF DoneWhole
    <3> QED
      BY <3>2, <3>3
  <2>4. c \notin Faulty => Innocent(c)'
    BY <1>1, <1>5 DEF PeerOK, Innocent
  <2> QED
    BY <1>6, <2>2, <2>3, <2>4 DEF PeerOK
<1>13. \A p \in Peers : PeerOK(p)'
  <2>1. ASSUME NEW p \in Peers, p # c PROVE PeerOK(p)'
    BY <1>4, <1>6, <2>1 DEF IInv, PeerOK, BytesSound, DoneWhole, Innocent
  <2> QED
    BY <1>12, <2>1
<1>14. ReadyOK'
  <2>1. \A p \in Peers : tr'[p].opened = tr[p].opened /\ tr'[p].ended = tr[p].ended
    OBVIOUS
  <2>2. CASE ready' = NothingReady /\ pc' = "select"
    BY <2>2 DEF ReadyOK, NothingReady
  <2>3. CASE /\ pc' = "recv" /\ cursor' = cursor /\ ready' = ready
    <3>1. ready.e \subseteq Faulty /\ ready.f \subseteq Peers
          /\ \A p \in ready.f : tr[p].opened
      BY <1>1 DEF ReadyOK, TypeOK
    <3>2. ASSUME NEW k \in cursor..Len(clients') PROVE Undecided(clients[k])'
      <4>1. k + 1 \in cursor..Len(clients) /\ clients'[k] = clients[k + 1]
        BY <1>7
      <4>2. clients[k + 1] \in Peers
        BY <1>1, <1>7, <4>1, ElementOfSeq DEF TypeOK
      <4>3. Undecided(clients[k + 1])
        BY <1>1, <4>1 DEF ReadyOK
      <4> QED
        BY <2>1, <2>3, <4>1, <4>2, <4>3 DEF Undecided
    <3> QED
      BY <2>1, <2>3, <3>1, <3>2 DEF ReadyOK
  <2> QED
    BY <1>8, <2>2, <2>3
<1> QED
  BY <1>2, <1>9, <1>10, <1>11, <1>13, <1>14 DEF IInv, DiesOnRequest

\* The five places of run_step() that erase a client, each with its reason.
LEMMA DropOnErrorStep == IInv /\ DropOnError => IInv'
<1> SUFFICES ASSUME IInv, DropOnError PROVE IInv'
  OBVIOUS
<1>1. PICK c \in Peers : c = Current
  BY CurrentServed DEF IInv, DropOnError, AtClient
<1>2. /\ up /\ pc = "recv" /\ c \in ready.e /\ tr' = tr
      /\ Erase(c, "dropped", sock[c].inbox)
  BY <1>1 DEF DropOnError, AtClient
<1>3. c \in Faulty /\ tr \in [Peers -> Transceivers]
  BY <1>2 DEF IInv, ReadyOK, TypeOK
<1>4. PICK unread \in 0..sock[c].inbox : unread = sock[c].inbox
  BY EndsOf, Numbers DEF IInv
<1> QED
  BY <1>1, <1>2, <1>3, <1>4, EraseStep

LEMMA RequestRejectedStep == IInv /\ RequestRejected => IInv'
<1> SUFFICES ASSUME IInv, RequestRejected PROVE IInv'
  OBVIOUS
<1>1. PICK c \in Peers : c = Current
  BY CurrentServed DEF IInv, RequestRejected, AtClient
<1>2. /\ up /\ pc = "recv"
      /\ sock[c].inbox > 0 \/ sock[c].fin
      /\ tr[c].opened \/ ~IsRequest(c) \/ Misbehaves(c, "missing")
      /\ tr' = [tr EXCEPT ![c].cut = ~tr[c].opened /\ ~IsRequest(c)]
      /\ Erase(c, "dropped", 0)
  BY <1>1 DEF RequestRejected, AtClient
<1>3. TypeOK /\ PeerOK(c) /\ tr \in [Peers -> Transceivers]
  BY DEF IInv, TypeOK
<1>4. (~tr[c].opened /\ ~IsRequest(c)) \in BOOLEAN
  OBVIOUS
<1>5. /\ tr' \in [Peers -> Transceivers]
      /\ \A q \in Peers \ {c} : tr'[q] = tr[q]
      /\ tr'[c].opened = tr[c].opened /\ tr'[c].ended = tr[c].ended
      /\ tr'[c].fetched = tr[c].fetched /\ tr'[c].handed = tr[c].handed
      /\ tr'[c].cut = (~tr[c].opened /\ ~IsRequest(c))
  BY <1>2, <1>3, <1>4 DEF Transceivers
<1>6. c \notin Faulty => tr'[c].cut
  <2> SUFFICES ASSUME c \notin Faulty PROVE ~tr[c].opened /\ ~IsRequest(c)
    BY <1>5
  <2>1. Innocent(c) /\ BytesSound(c)
    BY <1>3 DEF PeerOK
  <2>2. sock[c].inbox > 0 /\ sock[c].wrote <= Segments
    BY <1>2, <2>1 DEF Innocent
  <2>3. ~tr[c].opened
    BY <1>3, <2>1, <2>2, EndsOf, Numbers DEF BytesSound
  <2> QED
    BY <1>2, <2>3 DEF Misbehaves
<1>7. 0 \in 0..sock[c].inbox
  BY <1>3, EndsOf, Numbers
<1> QED
  BY <1>1, <1>2, <1>5, <1>6, <1>7, EraseStep

LEMMA SendFinishedStep == IInv /\ SendFinished => IInv'
<1> SUFFICES ASSUME IInv, SendFinished PROVE IInv'
  OBVIOUS
<1>1. PICK c \in Peers : c = Current
  BY CurrentServed DEF IInv, SendFinished, AtClient
<1>2. /\ up /\ pc = "send" /\ Finished(c) /\ tr' = tr
      /\ Erase(c, "done", sock[c].inbox)
  BY <1>1 DEF SendFinished, AtClient
<1>3. TypeOK /\ PeerOK(c) /\ tr \in [Peers -> Transceivers]
  BY DEF IInv, TypeOK
<1>4. PICK unread \in 0..sock[c].inbox : unread = sock[c].inbox
  BY <1>3, EndsOf, Numbers
<1>5. tr[c].opened /\ tr[c].handed = FileLength
  BY <1>2, <1>3, EndsOf, Numbers DEF Finished, Buffered, PeerOK, BytesSound
<1> QED
  BY <1>1, <1>2, <1>3, <1>4, <1>5, EraseStep

LEMMA FailsStep == IInv /\ (SendFails \/ ReadFails) => IInv'
<1> SUFFICES ASSUME IInv, SendFails \/ ReadFails PROVE IInv'
  OBVIOUS
<1>1. PICK c \in Peers : c = Current
  BY CurrentServed DEF IInv, SendFails, ReadFails, AtClient
<1>2. /\ up /\ pc \in {"send", "read"} /\ tr' = tr
      /\ SendError(c) \/ ReadError(c)
      /\ Erase(c, "dropped", sock[c].inbox)
  BY <1>1 DEF SendFails, ReadFails, AtClient
<1>3. TypeOK /\ PeerOK(c) /\ tr \in [Peers -> Transceivers]
  BY DEF IInv, TypeOK
<1>4. PICK unread \in 0..sock[c].inbox : unread = sock[c].inbox
  BY <1>3, EndsOf, Numbers
<1>5. c \in Faulty
  BY <1>2, <1>3 DEF SendError, ReadError, Misbehaves, PeerOK, Innocent
<1> QED
  BY <1>1, <1>2, <1>3, <1>4, <1>5, EraseStep

-----------------------------------------------------------------------------
(* The client at the iterator is served and stays in the list.             *)

LEMMA ServeStep ==
    ASSUME IInv, up, pc \in {"recv", "send", "read"},
           NEW c \in Peers, c = Current,
           UNCHANGED <<up, backlog, clients, conn>>,
           tr' \in [Peers -> Transceivers], sock' \in [Peers -> Ends],
           \A q \in Peers \ {c} : tr'[q] = tr[q] /\ sock'[q] = sock[q],
           PeerOK(c)', tr[c].opened => tr'[c].opened,
           \/ /\ pc' \in {"send", "read"} /\ cursor' = cursor /\ released' = released
              /\ ready' \in [r : SUBSET Peers, w : SUBSET Peers, e : SUBSET Peers,
                             f : SUBSET Peers, accept : BOOLEAN]
              /\ ready'.e = ready.e /\ ready'.r = ready.r
              /\ tr'[c].ended => tr[c].ended
              /\ \/ ready'.f = ready.f
                 \/ ready'.f = ready.f \cup {c} /\ tr'[c].opened /\ ~tr'[c].ended
           \/ Iterate(clients, cursor + 1, released)
    PROVE  IInv'
<1>1. TypeOK /\ ListSound /\ BacklogSound /\ ReadyOK
  BY DEF IInv
<1>2. /\ cursor \in 1..Len(clients) /\ Len(clients) \in Nat /\ clients[cursor] = c
      /\ DOMAIN clients = 1..Len(clients)
  BY <1>1, CurrentServed DEF Current
<1>3. \/ pc' \in {"send", "read"} /\ cursor' = cursor /\ released' = released
      \/ /\ pc' = "recv" /\ cursor' = cursor + 1 /\ cursor + 1 <= Len(clients)
         /\ ready' = ready /\ released' = released
      \/ pc' = "select" /\ cursor' = 1 /\ ready' = NothingReady /\ released' = FALSE
  BY DEF Iterate
<1>4. ready' \in [r : SUBSET Peers, w : SUBSET Peers, e : SUBSET Peers,
                  f : SUBSET Peers, accept : BOOLEAN]
  <2> DEFINE Sets == [r : SUBSET Peers, w : SUBSET Peers, e : SUBSET Peers,
                      f : SUBSET Peers, accept : BOOLEAN]
  <2>1. ready \in Sets
    BY <1>1 DEF TypeOK
  <2>2. NothingReady \in Sets
    BY DEF NothingReady
  <2> QED
    BY <2>1, <2>2 DEF Iterate
<1>5. TypeOK'
  <2>1. cursor' \in 1..MaxClients /\ pc' \in {"select", "accept", "recv", "send", "read"}
    BY <1>1, <1>2, <1>3, Numbers DEF TypeOK, ListSound
  <2>2. released' \in BOOLEAN
    BY <1>1, <1>3 DEF TypeOK
  <2> QED
    BY <1>1, <1>4, <2>1, <2>2 DEF TypeOK
<1>6. ListSound'
  BY <1>1, <1>2, <1>3 DEF ListSound, Served
<1>7. BacklogSound'
  BY <1>1, <1>3 DEF BacklogSound
<1>8. \A p \in Peers : PeerOK(p)'
  <2>1. ASSUME NEW p \in Peers, p # c PROVE PeerOK(p)'
    BY <2>1 DEF IInv, PeerOK, BytesSound, DoneWhole, Innocent
  <2> QED
    BY <2>1
<1>9. ReadyOK'
  <2>1. /\ ready.e \subseteq Faulty /\ ready.f \subseteq Peers
        /\ \A p \in ready.f : tr'[p].opened
        /\ \A k \in cursor..Len(clients) : Undecided(clients[k]) /\ clients[k] \in Peers
    <3>1. \A k \in cursor..Len(clients) : clients[k] \in Peers
      BY <1>1, <1>2, ElementOfSeq DEF TypeOK
    <3>2. ready.f \subseteq Peers
      BY <1>1 DEF TypeOK
    <3>3. \A p \in ready.f : tr'[p].opened
      BY <1>1, <3>2 DEF ReadyOK
    <3> QED
      BY <1>1, <3>1, <3>2, <3>3 DEF ReadyOK
  <2>2. CASE /\ pc' \in {"send", "read"} /\ cursor' = cursor
             /\ ready'.e = ready.e /\ ready'.r = ready.r
             /\ tr'[c].ended => tr[c].ended
             /\ \/ ready'.f = ready.f
                \/ ready'.f = ready.f \cup {c} /\ tr'[c].opened /\ ~tr'[c].ended
    <3>1. \A k \in cursor..Len(clients) : Undecided(clients[k])'
      BY <2>1, <2>2 DEF Undecided
    <3> QED
      BY <2>1, <2>2, <3>1 DEF ReadyOK
  <2>3. CASE pc' = "recv" /\ cursor' = cursor + 1 /\ ready' = ready
    <3>1. \A k \in (cursor + 1)..Len(clients) : k \in cursor..Len(clients) /\ clients[k] # c
      BY <1>1, <1>2 DEF ListSound, IsInjective
    <3>2. \A k \in (cursor + 1)..Len(clients) : Undecided(clients[k])'
      BY <2>1, <2>3, <3>1 DEF Undecided
    <3> QED
      BY <2>1, <2>3, <3>2 DEF ReadyOK
  <2>4. CASE pc' = "select" /\ ready' = NothingReady
    BY <2>4 DEF ReadyOK, NothingReady
  <2> QED
    BY <2>2, <2>3, <2>4 DEF Iterate
<1> QED
  BY <1>5, <1>6, <1>7, <1>8, <1>9 DEF IInv, DiesOnRequest

LEMMA SkipStep == IInv /\ (NoRequest \/ NothingToSend \/ NothingToRead) => IInv'
<1> SUFFICES ASSUME IInv, NoRequest \/ NothingToSend \/ NothingToRead PROVE IInv'
  OBVIOUS
<1>1. PICK c \in Peers : c = Current
  BY CurrentServed DEF IInv, NoRequest, NothingToSend, NothingToRead, AtClient
<1>2. /\ up /\ pc \in {"recv", "send", "read"}
      /\ UNCHANGED <<up, backlog, clients, tr, conn, sock>>
      /\ \/ /\ pc' \in {"send", "read"} /\ UNCHANGED <<ready, released, cursor>>
         \/ Iterate(clients, cursor + 1, released)
  BY DEF NoRequest, NothingToSend, NothingToRead, AtClient, SkipTo
<1>3. PeerOK(c)'
  BY <1>2 DEF IInv, PeerOK, BytesSound, DoneWhole, Innocent
<1>4. /\ tr' \in [Peers -> Transceivers] /\ sock' \in [Peers -> Ends]
      /\ ready \in [r : SUBSET Peers, w : SUBSET Peers, e : SUBSET Peers,
                    f : SUBSET Peers, accept : BOOLEAN]
  BY <1>2 DEF IInv, TypeOK
<1> QED
  BY <1>1, <1>2, <1>3, <1>4, ServeStep

LEMMA RequestOpensStep == IInv /\ RequestOpens => IInv'
<1> SUFFICES ASSUME IInv, RequestOpens PROVE IInv'
  OBVIOUS
<1>1. PICK c \in Peers : c = Current
  BY CurrentServed DEF IInv, RequestOpens, AtClient
<1>2. /\ up /\ pc = "recv" /\ ~tr[c].opened /\ IsRequest(c)
      /\ tr' = [tr EXCEPT ![c].opened = TRUE]
      /\ sock' = [sock EXCEPT ![c].inbox = 0]
      /\ \/ ready' = ready
         \/ ready' = [ready EXCEPT !.f = @ \cup {c}]
      /\ pc' = "send"
      /\ UNCHANGED <<up, backlog, clients, conn, released, cursor>>
  BY <1>1 DEF RequestOpens, AtClient
<1>3. TypeOK /\ PeerOK(c) /\ tr \in [Peers -> Transceivers] /\ sock \in [Peers -> Ends]
      /\ ready \in [r : SUBSET Peers, w : SUBSET Peers, e : SUBSET Peers,
                    f : SUBSET Peers, accept : BOOLEAN]
  BY DEF IInv, TypeOK
<1>4. /\ tr' \in [Peers -> Transceivers]
      /\ \A q \in Peers \ {c} : tr'[q] = tr[q]
      /\ tr'[c].opened /\ tr'[c].ended = tr[c].ended /\ tr'[c].cut = tr[c].cut
      /\ tr'[c].fetched = tr[c].fetched /\ tr'[c].handed = tr[c].handed
  BY <1>2, <1>3 DEF Transceivers
<1>5. /\ sock' \in [Peers -> Ends]
      /\ \A q \in Peers \ {c} : sock'[q] = sock[q]
      /\ sock'[c].wrote = sock[c].wrote /\ sock'[c].inbox = 0
      /\ sock'[c].got = sock[c].got /\ sock'[c].inflight = sock[c].inflight
      /\ sock'[c].rst = sock[c].rst /\ sock'[c].fin = sock[c].fin
      /\ sock'[c].urgent = sock[c].urgent /\ sock'[c].gone = sock[c].gone
  <2>1. 0 \in 0..MaxWritten
    BY Numbers
  <2> QED
    BY <1>2, <1>3, <2>1 DEF Ends
<1>6. BytesSound(c)'
  <2>1. BytesSound(c) /\ conn'[c] = conn[c] /\ sock[c].inbox >= Segments
    BY <1>2, <1>3 DEF PeerOK, IsRequest
  <2>2. ~tr[c].ended
    BY <1>2, <2>1 DEF BytesSound
  <2> QED
    BY <1>3, <1>4, <1>5, <2>1, <2>2, EndsOf, Numbers DEF BytesSound
<1>7. PeerOK(c)'
  BY <1>2, <1>3, <1>4, <1>5, <1>6 DEF PeerOK, DoneWhole, Innocent
<1>8. ~tr[c].ended
  BY <1>2, <1>3 DEF PeerOK, BytesSound
<1>9. /\ ready' \in [r : SUBSET Peers, w : SUBSET Peers, e : SUBSET Peers,
                     f : SUBSET Peers, accept : BOOLEAN]
      /\ ready'.e = ready.e /\ ready'.r = ready.r
      /\ ready'.f = ready.f \/ ready'.f = ready.f \cup {c}
  BY <1>2, <1>3
<1> QED
  BY <1>1, <1>2, <1>4, <1>5, <1>7, <1>8, <1>9, ServeStep

LEMMA SendStep == IInv /\ Send => IInv'
<1> SUFFICES ASSUME IInv, Send PROVE IInv'
  OBVIOUS
<1>1. PICK c \in Peers : c = Current /\ conn[c] = "served"
  BY CurrentServed DEF IInv, Send, AtClient
<1>2. /\ up /\ pc = "send" /\ ~sock[c].rst /\ pc' = "read"
      /\ UNCHANGED <<up, backlog, clients, conn, ready, released, cursor>>
  BY <1>1 DEF Send, AtClient
<1>3. PICK n \in 1..Buffered(c) :
          /\ sock[c].inflight + n <= SockRoom
          /\ tr' = [tr EXCEPT ![c].handed = @ + n]
          /\ sock' = [sock EXCEPT ![c].inflight = @ + n]
  BY <1>1 DEF Send
<1>4. TypeOK /\ BytesSound(c) /\ PeerOK(c)
      /\ tr \in [Peers -> Transceivers] /\ sock \in [Peers -> Ends]
      /\ ready \in [r : SUBSET Peers, w : SUBSET Peers, e : SUBSET Peers,
                    f : SUBSET Peers, accept : BOOLEAN]
  BY DEF IInv, TypeOK, PeerOK
<1>5. tr[c].handed + n <= tr[c].fetched /\ tr[c].handed + n \in 0..FileLength
      /\ sock[c].inflight + n \in 0..SockRoom /\ n \in Nat
  BY <1>3, <1>4, EndsOf, Numbers DEF Buffered, BytesSound
<1>6. /\ tr' \in [Peers -> Transceivers]
      /\ \A q \in Peers \ {c} : tr'[q] = tr[q]
      /\ tr'[c].opened = tr[c].opened /\ tr'[c].ended = tr[c].ended
      /\ tr'[c].cut = tr[c].cut
      /\ tr'[c].fetched = tr[c].fetched /\ tr'[c].handed = tr[c].handed + n
  BY <1>3, <1>4, <1>5 DEF Transceivers
<1>7. /\ sock' \in [Peers -> Ends]
      /\ \A q \in Peers \ {c} : sock'[q] = sock[q]
      /\ sock'[c].wrote = sock[c].wrote /\ sock'[c].inbox = sock[c].inbox
      /\ sock'[c].got = sock[c].got /\ sock'[c].inflight = sock[c].inflight + n
      /\ sock'[c].rst = sock[c].rst /\ sock'[c].fin = sock[c].fin
      /\ sock'[c].urgent = sock[c].urgent /\ sock'[c].gone = sock[c].gone
  BY <1>3, <1>4, <1>5 DEF Ends
<1>8. BytesSound(c)'
  BY <1>1, <1>2, <1>4, <1>5, <1>6, <1>7, EndsOf, Numbers DEF BytesSound
<1>9. PeerOK(c)'
  BY <1>1, <1>2, <1>4, <1>6, <1>7, <1>8 DEF PeerOK, Innocent
<1> QED
  BY <1>1, <1>2, <1>4, <1>6, <1>7, <1>9, ServeStep

LEMMA ReadStep == IInv /\ Read => IInv'
<1> SUFFICES ASSUME IInv, Read PROVE IInv'
  OBVIOUS
<1>1. PICK c \in Peers : c = Current /\ conn[c] = "served"
  BY CurrentServed DEF IInv, Read, AtClient
<1>2. /\ up /\ pc = "read" /\ c \in ready.f
      /\ Iterate(clients, cursor + 1, released)
      /\ UNCHANGED <<up, backlog, clients, conn, sock>>
  BY <1>1 DEF Read, AtClient
<1>3. \/ tr[c].fetched = FileLength /\ tr' = [tr EXCEPT ![c].ended = TRUE]
      \/ \E n \in 1..Room(c) :
            tr[c].fetched + n <= FileLength /\ tr' = [tr EXCEPT ![c].fetched = @ + n]
  BY <1>1 DEF Read
<1>4. TypeOK /\ BytesSound(c) /\ PeerOK(c) /\ tr[c].opened
      /\ tr \in [Peers -> Transceivers] /\ sock \in [Peers -> Ends]
  BY <1>2 DEF IInv, TypeOK, PeerOK, ReadyOK
<1>5. /\ tr' \in [Peers -> Transceivers]
      /\ \A q \in Peers \ {c} : tr'[q] = tr[q]
      /\ tr'[c].opened = tr[c].opened /\ tr'[c].cut = tr[c].cut
      /\ tr'[c].handed = tr[c].handed
      /\ \/ tr'[c].ended /\ tr[c].fetched = FileLength /\ tr'[c].fetched = tr[c].fetched
         \/ \E n \in 1..Room(c) :
               /\ tr[c].fetched + n <= FileLength /\ tr'[c].fetched = tr[c].fetched + n
               /\ tr'[c].ended = tr[c].ended
  <2>1. CASE tr[c].fetched = FileLength /\ tr' = [tr EXCEPT ![c].ended = TRUE]
    BY <1>4, <2>1 DEF Transceivers
  <2>2. ASSUME NEW n \in 1..Room(c), tr[c].fetched + n <= FileLength,
               tr' = [tr EXCEPT ![c].fetched = @ + n]
        PROVE  /\ tr' \in [Peers -> Transceivers]
               /\ \A q \in Peers \ {c} : tr'[q] = tr[q]
               /\ tr'[c].opened = tr[c].opened /\ tr'[c].cut = tr[c].cut
               /\ tr'[c].handed = tr[c].handed
               /\ tr'[c].fetched = tr[c].fetched + n /\ tr'[c].ended = tr[c].ended
    <3>1. tr[c].fetched + n \in 0..FileLength
      BY <1>4, <2>2, EndsOf, Numbers DEF Room, Buffered
    <3> QED
      BY <1>4, <2>2, <3>1 DEF Transceivers
  <2> QED
    BY <1>3, <2>1, <2>2
<1>6. BytesSound(c)'
  BY <1>1, <1>2, <1>4, <1>5, EndsOf, Numbers DEF BytesSound, Room, Buffered
<1>7. PeerOK(c)'
  BY <1>1, <1>2, <1>4, <1>5, <1>6 DEF PeerOK, Innocent
<1>8. sock' \in [Peers -> Ends] /\ \A q \in Peers \ {c} : sock'[q] = sock[q]
  BY <1>2, <1>4
<1> QED
  BY <1>1, <1>2, <1>5, <1>7, <1>8, ServeStep

-----------------------------------------------------------------------------
(* select(), accept() and the end of the process.                          *)

LEMMA SelectStep == IInv /\ Select => IInv'
<1> SUFFICES ASSUME IInv, Select PROVE IInv'
  OBVIOUS
<1> DEFINE answer == [r |-> {p \in Served : Watched(p) /\ Readable(p)},
                      w |-> {p \in Served : Writable(p)},
                      e |-> {p \in Served : sock[p].urgent},
                      f |-> {p \in Served : tr[p].opened /\ ~tr[p].ended},
                      accept |-> backlog # <<>>]
<1>1. /\ up /\ ready' = answer /\ pc' = "accept"
      /\ UNCHANGED <<up, backlog, clients, tr, conn, sock, released, cursor>>
  BY DEF Select
<1>2. TypeOK /\ ListSound /\ BacklogSound /\ Served \subseteq Peers
  BY DEF IInv, Served
<1>3. answer \in [r : SUBSET Peers, w : SUBSET Peers, e : SUBSET Peers,
                  f : SUBSET Peers, accept : BOOLEAN]
  BY <1>2
<1>4. TypeOK'
  BY <1>1, <1>2, <1>3 DEF TypeOK
<1>5. ListSound' /\ BacklogSound'
  BY <1>1, <1>2 DEF ListSound, BacklogSound, Served
<1>6. \A p \in Peers : PeerOK(p)'
  BY <1>1 DEF IInv, PeerOK, BytesSound, DoneWhole, Innocent
<1>7. ReadyOK'
  <2>1. answer.e \subseteq Faulty
    BY <1>2 DEF IInv, PeerOK, Innocent
  <2>2. \A p \in answer.r \cup answer.f : ~tr[p].ended
    BY DEF Watched
  <2> QED
    BY <1>1, <2>1, <2>2 DEF ReadyOK, Undecided
<1> QED
  BY <1>1, <1>4, <1>5, <1>6, <1>7 DEF IInv, DiesOnRequest

\* A connection taken from the backlog was not in the list, and whoever is in
\* the list now has what select() answered still before it.
LEMMA AcceptStep == IInv /\ Accept => IInv'
<1> SUFFICES ASSUME IInv, Accept PROVE IInv'
  OBVIOUS
<1>1. /\ up /\ pc = "accept" /\ Iterate(clients', 1, FALSE)
      /\ UNCHANGED <<up, tr, sock>>
  BY DEF Accept
<1>2. /\ TypeOK /\ ListSound /\ BacklogSound /\ ReadyOK
      /\ backlog \in Seq(Peers) /\ clients \in Seq(Peers)
      /\ conn \in [Peers -> {"none", "queued", "served", "refused", "dropped", "done"}]
      /\ Len(clients) \in Nat /\ DOMAIN clients = 1..Len(clients)
  BY LenProperties DEF IInv, TypeOK
<1>3. /\ clients' \in Seq(Peers) /\ backlog' \in Seq(Peers)
      /\ conn' \in [Peers -> {"none", "queued", "served", "refused", "dropped", "done"}]
      /\ Len(clients') <= MaxClients /\ IsInjective(clients')
      /\ Range(clients') = {p \in Peers : conn'[p] = "served"}
      /\ \A j, k \in DOMAIN backlog' : backlog'[j] = backlog'[k] => j = k
      /\ \A k \in DOMAIN backlog' : conn'[backlog'[k]] = "queued"
      /\ \A p \in Peers : conn'[p] = conn[p] \/ (conn[p] = "queued" /\ conn'[p] \in {"served", "refused"})
  <2>0. Range(clients) = {p \in Peers : conn[p] = "served"}
    BY <1>2 DEF ListSound, Served
  <2>1. CASE ~ready.accept
    <3>1. clients' = clients /\ backlog' = backlog /\ conn' = conn
      BY <2>1 DEF Accept
    <3> QED
      BY <1>2, <2>0, <3>1 DEF ListSound, BacklogSound
  <2>2. CASE ready.accept
    <3>1. backlog # <<>>
      BY <1>1, <1>2, <2>2 DEF BacklogSound
    <3>2. PICK c \in Peers : c = Head(backlog)
      BY <1>2, <3>1, HeadTailProperties
    <3>3. /\ backlog' = Tail(backlog) /\ backlog' \in Seq(Peers)
          /\ Len(backlog') = Len(backlog) - 1 /\ Len(backlog) \in Nat /\ Len(backlog) # 0
          /\ \A i \in 1..Len(backlog') : backlog'[i] = backlog[i + 1]
          /\ DOMAIN backlog = 1..Len(backlog) /\ DOMAIN backlog' = 1..Len(backlog')
          /\ c = backlog[1]
      <4>1. backlog' = Tail(backlog)
        BY <2>2 DEF Accept
      <4>2. c = backlog[1]
        BY <1>2, <3>1, <3>2
      <4> QED
        BY <1>2, <3>1, <4>1, <4>2, HeadTailProperties, LenProperties, EmptySeq
    <3>4. /\ \A i \in DOMAIN backlog' : backlog'[i] # c /\ backlog'[i] \in Peers
                                      /\ conn[backlog'[i]] = "queued"
          /\ \A j, k \in DOMAIN backlog' : backlog'[j] = backlog'[k] => j = k
          /\ conn[c] = "queued"
      <4>1. \A i \in DOMAIN backlog' : i + 1 \in DOMAIN backlog /\ i + 1 # 1
        BY <3>3
      <4>2. 1 \in DOMAIN backlog
        BY <3>3
      <4>3. \A i \in DOMAIN backlog' : backlog'[i] \in Peers
        BY <3>3, ElementOfSeq
      <4>4. \A j, k \in DOMAIN backlog' : j + 1 = k + 1 => j = k
        BY <3>3
      <4> QED
        BY <1>2, <3>3, <4>1, <4>2, <4>3, <4>4 DEF BacklogSound
    <3>5. CASE HasRoom
      <4>1. clients' = Append(clients, c) /\ conn' = [conn EXCEPT ![c] = "served"]
        BY <2>2, <3>2, <3>5 DEF Accept
      <4>2. /\ clients' \in Seq(Peers) /\ Len(clients') = Len(clients) + 1
            /\ DOMAIN clients' = 1..(Len(clients) + 1)
            /\ \A k \in 1..Len(clients) : clients'[k] = clients[k]
            /\ clients'[Len(clients) + 1] = c
        BY <1>2, <4>1, AppendProperties, LenProperties
      <4>3. \A k \in 1..Len(clients) : clients[k] # c
        BY <1>2, <3>4 DEF ListSound, Range, Served
      <4>4. Len(clients') <= MaxClients
        BY <1>2, <3>5, <4>2, Numbers DEF HasRoom
      <4>5. IsInjective(clients')
        BY <1>2, <4>2, <4>3 DEF ListSound, IsInjective
      <4>6. Range(clients') = Range(clients) \cup {c}
        <5>1. DOMAIN clients' = DOMAIN clients \cup {Len(clients) + 1}
          BY <1>2, <4>2
        <5> QED
          BY <1>2, <4>2, <5>1 DEF Range
      <4>7. Range(clients') = {p \in Peers : conn'[p] = "served"}
        BY <1>2, <4>1, <4>6 DEF ListSound, Served
      <4> QED
        <5>1. /\ conn' \in [Peers -> {"none", "queued", "served", "refused", "dropped", "done"}]
              /\ \A p \in Peers : conn'[p] = IF p = c THEN "served" ELSE conn[p]
          BY <1>2, <4>1
        <5>2. \A k \in DOMAIN backlog' : conn'[backlog'[k]] = "queued"
          BY <3>4, <5>1
        <5> QED
          BY <3>3, <3>4, <4>2, <4>4, <4>5, <4>7, <5>1, <5>2
    <3>6. CASE ~HasRoom
      <4>1. clients' = clients /\ conn' = [conn EXCEPT ![c] = "refused"]
        BY <2>2, <3>2, <3>6 DEF Accept
      <4>2. Range(clients') = {p \in Peers : conn'[p] = "served"}
        BY <1>2, <3>4, <4>1 DEF ListSound, Served
      <4>3. /\ conn' \in [Peers -> {"none", "queued", "served", "refused", "dropped", "done"}]
            /\ \A p \in Peers : conn'[p] = IF p = c THEN "refused" ELSE conn[p]
        BY <1>2, <4>1
      <4>4. \A k \in DOMAIN backlog' : conn'[backlog'[k]] = "queued"
        BY <3>4, <4>3
      <4>5. Len(clients') <= MaxClients /\ IsInjective(clients') /\ clients' \in Seq(Peers)
        BY <1>2, <4>1 DEF ListSound
      <4> QED
        BY <3>3, <3>4, <4>2, <4>3, <4>4, <4>5
    <3> QED
      BY <3>5, <3>6
  <2> QED
    BY <2>1, <2>2
<1>4. \/ /\ pc' = "recv" /\ cursor' = 1 /\ 1 <= Len(clients')
         /\ ready' = ready /\ released' = FALSE
      \/ pc' = "select" /\ cursor' = 1 /\ ready' = NothingReady /\ released' = FALSE
  BY <1>1 DEF Iterate
<1>5. TypeOK'
  <2>1. ready' \in [r : SUBSET Peers, w : SUBSET Peers, e : SUBSET Peers,
                    f : SUBSET Peers, accept : BOOLEAN]
    <3>1. NothingReady \in [r : SUBSET Peers, w : SUBSET Peers, e : SUBSET Peers,
                           f : SUBSET Peers, accept : BOOLEAN]
      BY DEF NothingReady
    <3>2. ready \in [r : SUBSET Peers, w : SUBSET Peers, e : SUBSET Peers,
                    f : SUBSET Peers, accept : BOOLEAN]
      BY <1>2 DEF TypeOK
    <3> QED
      BY <1>4, <3>1, <3>2
  <2>2. cursor' \in 1..MaxClients /\ pc' \in {"select", "accept", "recv", "send", "read"}
    BY <1>4, Numbers
  <2> QED
    BY <1>1, <1>2, <1>3, <1>4, <2>1, <2>2 DEF TypeOK
<1>6. ListSound'
  BY <1>3, <1>4 DEF ListSound, Served
<1>7. BacklogSound'
  BY <1>3, <1>4 DEF BacklogSound
<1>8. \A p \in Peers : PeerOK(p)'
  BY <1>1, <1>3 DEF IInv, PeerOK, BytesSound, DoneWhole, Innocent
<1>9. ReadyOK'
  <2>1. \A k \in 1..Len(clients') : clients'[k] \in Peers
    BY <1>3, ElementOfSeq
  <2> QED
    BY <1>1, <1>2, <1>4, <2>1 DEF ReadyOK, Undecided, NothingReady
<1> QED
  BY <1>1, <1>5, <1>6, <1>7, <1>8, <1>9 DEF IInv, DiesOnRequest

\* The process ends at a client whose file has not ended, for one of three causes.
LEMMA DieStep == IInv /\ (TestNoFile \/ RequestThrows) => IInv'
<1> SUFFICES ASSUME IInv, TestNoFile \/ RequestThrows PROVE IInv'
  OBVIOUS
<1>1. PICK c \in Peers : c = Current
  BY CurrentServed DEF IInv, TestNoFile, RequestThrows, AtClient
<1>2. /\ pc = "recv" /\ up' = FALSE
      /\ UNCHANGED <<backlog, clients, tr, conn, sock, ready, released, pc, cursor>>
      /\ \/ ~tr[c].opened /\ "abort" \in BadFdTest
         \/ c \in ready.r /\ (RecvFails(c) \/ NameFails(c))
  BY <1>1 DEF TestNoFile, RequestThrows, AtClient, Die, Reads
<1>3. TypeOK /\ ListSound /\ ReadyOK /\ BytesSound(c)
  BY DEF IInv, PeerOK
<1>4. cursor \in cursor..Len(clients)
  BY <1>2, <1>3, CurrentServed
<1>5. ~tr[c].ended
  BY <1>1, <1>2, <1>3, <1>4 DEF ReadyOK, Undecided, Current, BytesSound
<1>6. DiesOnRequest'
  BY <1>1, <1>2, <1>5 DEF DiesOnRequest, Current, RecvFails, NameFails
<1>7. TypeOK' /\ ListSound' /\ BacklogSound' /\ ReadyOK'
  BY <1>2 DEF IInv, TypeOK, ListSound, BacklogSound, ReadyOK, Undecided, Served
<1>8. \A p \in Peers : PeerOK(p)'
  BY <1>2 DEF IInv, PeerOK, BytesSound, DoneWhole, Innocent
<1> QED
  BY <1>2, <1>6, <1>7, <1>8 DEF IInv

-----------------------------------------------------------------------------
(* The inductive invariant holds.                                          *)

LEMMA InitInvariant == Init => IInv
<1> SUFFICES ASSUME Init PROVE IInv
  OBVIOUS
<1>1. TypeOK
  <2>1. [opened |-> FALSE, fetched |-> 0, handed |-> 0, ended |-> FALSE, cut |-> FALSE]
            \in Transceivers
    BY Numbers DEF Transceivers
  <2>2. [inbox |-> 0, wrote |-> 0, fin |-> FALSE, rst |-> FALSE, urgent |-> FALSE,
         gone |-> FALSE, inflight |-> 0, got |-> 0] \in Ends
    BY Numbers DEF Ends
  <2>3. cursor \in 1..MaxClients /\ <<>> \in Seq(Peers)
    BY Numbers DEF Init
  <2> QED
    BY <2>1, <2>2, <2>3 DEF Init, TypeOK, NothingReady
<1>2. ListSound
  <2>1. Len(clients) = 0 /\ DOMAIN clients = {}
    BY DEF Init
  <2> QED
    BY <2>1, Numbers DEF Init, ListSound, IsInjective, Range, Served
<1>3. BacklogSound /\ ReadyOK /\ DiesOnRequest
  <2>1. DOMAIN backlog = {}
    BY DEF Init
  <2> QED
    BY <2>1 DEF Init, BacklogSound, ReadyOK, DiesOnRequest, NothingReady
<1>4. \A p \in Peers : PeerOK(p)
  BY Numbers DEF Init, PeerOK, BytesSound, Innocent
<1> QED
  BY <1>1, <1>2, <1>3, <1>4 DEF Init, IInv

LEMMA NextInvariant == IInv /\ [Next]_vars => IInv'
<1> SUFFICES ASSUME IInv, [Next]_vars PROVE IInv'
  OBVIOUS
<1>1. CASE RunStep
  BY <1>1, SelectStep, AcceptStep, DropOnErrorStep, DieStep, SkipStep, RequestRejectedStep,
     RequestOpensStep, SendFinishedStep, FailsStep, SendStep, ReadStep DEF RunStep
<1>2. CASE Environment
  <2>1. PICK c \in Peers :
            \/ Connect(c) \/ Write(c) \/ WriteUrgent(c) \/ Shutdown(c)
            \/ Leave(c) \/ Abandon(c) \/ AnswerWithReset(c) \/ PeerReads(c)
    BY <1>2 DEF Environment
  <2> QED
    BY <2>1, ConnectStep, WriteStep, FlagStep, ResetStep, PeerReadsStep
<1>3. CASE UNCHANGED vars
  BY <1>3 DEF vars, IInv, TypeOK, ListSound, BacklogSound, ReadyOK, Undecided, Served,
     DiesOnRequest, RecvFails, NameFails, Current, PeerOK, BytesSound, DoneWhole, Innocent
<1> QED
  BY <1>1, <1>2, <1>3 DEF Next

LEMMA Invariant == Spec => []IInv
BY InitInvariant, NextInvariant, PTL DEF Spec

\* Whatever the peers do, the state keeps its types: bounded rings, counters
\* of bytes within the file, and an iterator within max_clients.
THEOREM TypeCorrect == Spec => []TypeOK
BY Invariant, PTL DEF IInv

\* clients_ holds each served connection once and no more than max_clients,
\* and run_step() never dereferences an iterator outside the list.
THEOREM ListCorrect == Spec => []ListSound
BY Invariant, PTL DEF IInv

\* A transfer that the server logs as sent reaches its reader whole.
THEOREM DoneCorrect == Spec => []DoneIsDelivered
<1>1. IInv => DoneIsDelivered
  BY DEF IInv, PeerOK, DoneWhole, DoneIsDelivered
<1> QED
  BY <1>1, Invariant, PTL

\* A peer that is not faulty is erased only if its request came in pieces.
THEOREM DroppedCorrect == Spec => []DroppedForCause
<1>1. IInv => DroppedForCause
  BY DEF IInv, PeerOK, DroppedForCause
<1> QED
  BY <1>1, Invariant, PTL

\* The server ends only on a client whose file has not ended, and only by a
\* reset met by recv(), by a name that cannot be resolved, or by FD_ISSET(-1).
THEOREM DeathCorrect == Spec => []DiesOnRequest
BY Invariant, PTL DEF IInv

-----------------------------------------------------------------------------
(* Every client's transfer is the stream of FileStream.                    *)

\* Only send() and read() move a transfer, and only the current client's.
LEMMA TransfersStand ==
    ASSUME IInv, [Next]_vars, ~Send, ~Read, NEW p \in Peers
    PROVE  /\ tr'[p].fetched = tr[p].fetched /\ tr'[p].handed = tr[p].handed
           /\ tr'[p].ended = tr[p].ended
<1>1. tr \in [Peers -> Transceivers]
  BY DEF IInv, TypeOK
<1>2. CASE RequestRejected
  <2>1. PICK c \in Peers : c = Current
    BY <1>2, CurrentServed DEF IInv, RequestRejected, AtClient
  <2>2. tr' = [tr EXCEPT ![c].cut = ~tr[c].opened /\ ~IsRequest(c)]
    BY <1>2, <2>1 DEF RequestRejected
  <2> QED
    BY <1>1, <2>2 DEF Transceivers
<1>3. CASE RequestOpens
  <2>1. PICK c \in Peers : c = Current
    BY <1>3, CurrentServed DEF IInv, RequestOpens, AtClient
  <2>2. tr' = [tr EXCEPT ![c].opened = TRUE]
    BY <1>3, <2>1 DEF RequestOpens
  <2> QED
    BY <1>1, <2>2 DEF Transceivers
<1>4. CASE ~RequestRejected /\ ~RequestOpens
  <2>1. tr' = tr
    BY <1>4 DEF Next, RunStep, Environment, vars, server, Select, Accept, DropOnError,
       TestNoFile, NoRequest, RequestThrows, NothingToSend, SendFinished, SendFails,
       NothingToRead, ReadFails, Die, SkipTo, Connect, Write, WriteUrgent, Shutdown,
       Leave, Abandon, AnswerWithReset, PeerReads
  <2> QED
    BY <2>1
<1> QED
  BY <1>2, <1>3, <1>4

\* send() delivers the next bytes of the file.
LEMMA SendDelivers ==
    ASSUME IInv, Send, NEW p \in Peers
    PROVE  [Stream(p)!Next]_(Stream(p)!vars)
<1>1. PICK c \in Peers : c = Current
  BY CurrentServed DEF IInv, Send, AtClient
<1>2. PICK n \in 1..Buffered(c) : tr' = [tr EXCEPT ![c].handed = @ + n]
  BY <1>1 DEF Send
<1>3. tr \in [Peers -> Transceivers]
  BY DEF IInv, TypeOK
<1>4. CASE p # c
  BY <1>2, <1>3, <1>4 DEF Stream!vars
<1>5. CASE p = c
  <2>1. /\ tr[p].handed \in Nat /\ tr[p].fetched \in Nat
        /\ n \in 1..(tr[p].fetched - tr[p].handed)
    BY <1>2, <1>5, EndsOf, Numbers DEF IInv, Buffered
  <2>2. /\ tr'[p].handed = tr[p].handed + n /\ tr'[p].fetched = tr[p].fetched
        /\ tr'[p].ended = tr[p].ended
    BY <1>2, <1>3, <1>5 DEF Transceivers
  <2>3. Len([i \in 1..tr[p].handed |-> i]) = tr[p].handed
    BY <2>1
  <2> QED
    BY <2>1, <2>2, <2>3 DEF Stream!Next, Stream!Deliver, Stream!Prefix
<1> QED
  BY <1>4, <1>5

\* read() fetches no more than the ring holds, and sees the end once.
LEMMA ReadFetches ==
    ASSUME IInv, Read, NEW p \in Peers
    PROVE  [Stream(p)!Next]_(Stream(p)!vars)
<1>1. PICK c \in Peers : c = Current
  BY CurrentServed DEF IInv, Read, AtClient
<1>2. /\ pc = "read" /\ c \in ready.f
      /\ \/ tr[c].fetched = FileLength /\ tr' = [tr EXCEPT ![c].ended = TRUE]
         \/ \E n \in 1..Room(c) :
              tr[c].fetched + n <= FileLength /\ tr' = [tr EXCEPT ![c].fetched = @ + n]
  BY <1>1 DEF Read, AtClient
<1>3. TypeOK /\ ListSound /\ ReadyOK /\ tr \in [Peers -> Transceivers]
  BY DEF IInv, TypeOK
<1>4. ~tr[c].ended
  <2>1. cursor \in cursor..Len(clients)
    BY <1>2, <1>3, CurrentServed
  <2> QED
    BY <1>1, <1>2, <1>3, <2>1 DEF ReadyOK, Undecided, Current
<1>5. CASE p # c
  BY <1>2, <1>3, <1>5 DEF Stream!vars
<1>6. CASE p = c
  <2>1. tr[p].handed \in Nat /\ tr[p].fetched \in Nat
    BY <1>3, EndsOf, Numbers
  <2>2. Len([i \in 1..tr[p].handed |-> i]) = tr[p].handed
    BY <2>1
  <2>3. CASE tr[c].fetched = FileLength /\ tr' = [tr EXCEPT ![c].ended = TRUE]
    <3>1. /\ tr'[p].handed = tr[p].handed /\ tr'[p].fetched = tr[p].fetched
          /\ tr'[p].ended = TRUE
      BY <1>3, <1>6, <2>3 DEF Transceivers
    <3> QED
      BY <1>4, <1>6, <2>3, <3>1 DEF Stream!Next, Stream!End
  <2>4. ASSUME NEW n \in 1..Room(c), tr[c].fetched + n <= FileLength,
               tr' = [tr EXCEPT ![c].fetched = @ + n]
        PROVE  Stream(p)!Next
    <3>1. /\ tr'[p].handed = tr[p].handed /\ tr'[p].fetched = tr[p].fetched + n
          /\ tr'[p].ended = tr[p].ended
      BY <1>3, <1>6, <2>4 DEF Transceivers
    <3>2. /\ n \in 1..(FileLength - tr[p].fetched)
          /\ tr[p].fetched + n <= tr[p].handed + Capacity
      BY <1>6, <2>1, <2>4, Numbers DEF Room, Buffered
    <3> QED
      BY <1>4, <1>6, <2>2, <3>1, <3>2 DEF Stream!Next, Stream!Fetch
  <2> QED
    BY <1>2, <2>3, <2>4
<1> QED
  BY <1>5, <1>6

\* However the clients are interleaved, each one's transfer implements the
\* bounded stream: bytes in order, at most Capacity waiting, one end.
THEOREM StreamCorrect == Spec => StreamOfEachClient
<1>1. ASSUME Init, NEW p \in Peers PROVE Stream(p)!Init
  BY <1>1 DEF Init, Stream!Init, Stream!Prefix
<1>2. ASSUME IInv, [Next]_vars, NEW p \in Peers PROVE [Stream(p)!Next]_(Stream(p)!vars)
  <2>1. CASE ~Send /\ ~Read
    BY <1>2, <2>1, TransfersStand DEF Stream!vars
  <2> QED
    BY <1>2, <2>1, SendDelivers, ReadFetches
<1>3. Init => \A p \in Peers : Stream(p)!Init
  BY <1>1
<1>4. IInv /\ [Next]_vars => \A p \in Peers : [Stream(p)!Next]_(Stream(p)!vars)
  BY <1>2
<1> QED
  BY <1>3, <1>4, Invariant, PTL DEF Spec, StreamOfEachClient
=============================================================================
