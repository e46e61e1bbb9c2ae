---------------------------- MODULE IoringProofs ----------------------------
(***************************************************************************)
(* Proofs about IoringServer for any clients, any size of the buffer and   *)
(* any number of cells.                                                    *)
(***************************************************************************)
EXTENDS IoringServer, FiniteSetTheorems, SequenceTheorems, TLAPS

Entries == [request : Requests, client : Clients, res : -1..Size]

\* The n cells received last are in the buffer and have not gone back, all
\* before them have, unless a send was short.
Unsent(c, n) ==
    /\ n <= taken[c]
    /\ \A k \in 1..n : data[c][k] = taken[c] - n + k
    /\ \A k \in DOMAIN echo[c] : echo[c][k] <= taken[c] - n
    /\ c \notin short => Len(echo[c]) = taken[c] - n

\* The Listener accepts and does nothing else.
KindsApart == \A r \in Requests : event[r] = "accept" <=> r = Listener

Queued(r) == \E k \in DOMAIN cq : cq[k].request = r

\* One operation each, without counting.
FlightOK ==
    \A r \in Requests :
        /\ event[r] \in {"none", "freed"} => flight[r] = 0
        /\ event[r] \notin {"none", "freed"} =>
                flight[r] \in {0, 1} /\ (flight[r] = 0 <=> Queued(r))

\* What the completion of a client's operation says of that client.
CompletionOK(c, res) ==
    /\ event[c] = "recv" /\ res > 0 => Unsent(c, res)
    /\ event[c] = "recv" /\ res < 0 => peer[c] = "reset" /\ c \notin told
    /\ event[c] = "send" => Unsent(c, 0)

QueueOK ==
    /\ \A j, k \in DOMAIN cq : cq[j].request = cq[k].request => j = k
    /\ \A k \in DOMAIN cq :
        /\ event[cq[k].request] \notin {"none", "freed"}
        /\ cq[k].request = Listener => event[cq[k].client] = "none"
        /\ cq[k].request # Listener =>
                cq[k].client = cq[k].request /\ CompletionOK(cq[k].client, cq[k].res)

\* What is in the buffer of a client without a completion.
BufferOK ==
    \A c \in Clients :
        /\ event[c] = "none" => Unsent(c, 0)
        /\ Has(c, "recv") => Unsent(c, 0)
        /\ Has(c, "send") => Unsent(c, length[c])

\* The inductive invariant.  The server that has ended leaves everything as
\* it is, in the middle of an operation.
IInv ==
    /\ TypeOK /\ KindsApart /\ EchoInOrder /\ EndsForCause
    /\ up => FlightOK /\ QueueOK /\ BufferOK

-----------------------------------------------------------------------------
(* Facts about the operators.                                              *)

\* The least of two numbers, as Received() uses it.
LEMMA MinOfTwo ==
    ASSUME NEW a \in Int, NEW b \in Int
    PROVE  /\ Min({a, b}) \in {a, b}
           /\ Min({a, b}) <= a /\ Min({a, b}) <= b
<1>1. \E x \in {a, b} : \A y \in {a, b} : x <= y
  BY SMT
<1> QED
  BY <1>1, SMT DEF Min

\* A completion joins the queue behind all others.
LEMMA CompletedQueue ==
    ASSUME TypeOK, NEW r \in Requests, NEW c \in Clients, NEW res \in -1..Size,
           flight[r] > 0, Completed(r, c, res)
    PROVE  /\ flight' \in [Requests -> Nat]
           /\ cq \in Seq(Entries) /\ cq' \in Seq(Entries)
           /\ DOMAIN cq = 1..Len(cq) /\ DOMAIN cq' = 1..(Len(cq) + 1)
           /\ Len(cq) \in Nat
           /\ \A k \in 1..Len(cq) : cq'[k] = cq[k]
           /\ cq'[Len(cq) + 1] = [request |-> r, client |-> c, res |-> res]
<1>1. cq \in Seq(Entries) /\ [request |-> r, client |-> c, res |-> res] \in Entries
  BY DEF TypeOK, Entries
<1>2. cq' = Append(cq, [request |-> r, client |-> c, res |-> res])
  BY DEF Completed
<1>3. flight' \in [Requests -> Nat]
  <2>1. flight \in [Requests -> Nat] /\ flight' = [flight EXCEPT ![r] = @ - 1]
    BY DEF Completed, TypeOK
  <2> QED
    BY <2>1
<1> QED
  BY <1>1, <1>2, <1>3, AppendProperties, LenProperties

\* The server takes the oldest completion.
LEMMA SeenQueue ==
    ASSUME TypeOK, Seen
    PROVE  /\ cq \in Seq(Entries) /\ cq' \in Seq(Entries)
           /\ DOMAIN cq = 1..Len(cq) /\ DOMAIN cq' = 1..(Len(cq) - 1)
           /\ Len(cq) \in Nat \ {0}
           /\ \A k \in 1..(Len(cq) - 1) : cq'[k] = cq[k + 1]
           /\ This = cq[1] /\ This \in Entries
<1>1. cq \in Seq(Entries) /\ cq # <<>> /\ cq' = Tail(cq)
  BY DEF TypeOK, Entries, Seen
<1>2. cq' \in Seq(Entries) /\ Len(cq') = Len(cq) - 1
      /\ \A i \in 1..Len(cq') : cq'[i] = cq[i + 1]
  BY <1>1, HeadTailProperties
<1>3. Len(cq) \in Nat \ {0}
  BY <1>1, EmptySeq
<1>4. Head(cq) = cq[1]
  BY <1>1, <1>3 DEF Head
<1> QED
  BY <1>1, <1>2, <1>3, <1>4, LenProperties, ElementOfSeq DEF This

-----------------------------------------------------------------------------
(* The types.                                                              *)

LEMMA InitTyped == Init => TypeOK
<1> SUFFICES ASSUME Init PROVE TypeOK
  OBVIOUS
<1>1. cq \in Seq([request : Requests, client : Clients, res : -1..Size])
  BY EmptySeq DEF Init
<1>2. echo \in [Clients -> Seq(0..MaxCells)]
  BY EmptySeq DEF Init
<1>3. length \in [Clients -> 1..Size] /\ data \in [Clients -> [1..Size -> 0..MaxCells]]
  BY IoringAssumption DEF Init
<1>4. said \in [Clients -> 0..MaxCells] /\ taken \in [Clients -> 0..MaxCells]
      /\ \A c \in Clients : taken[c] <= said[c]
  BY IoringAssumption DEF Init
<1>5. event \in [Requests -> {"none", "accept", "recv", "send", "freed"}]
      /\ flight \in [Requests -> Nat] /\ peer \in [Clients -> {"out", "open", "shut", "reset"}]
  BY DEF Init
<1> QED
  BY <1>1, <1>2, <1>3, <1>4, <1>5 DEF Init, TypeOK

\* Every step of the server, the kernel and the clients keeps the types.
LEMMA NextTyped == TypeOK /\ [Next]_vars => TypeOK'
<1> SUFFICES ASSUME TypeOK, [Next]_vars PROVE TypeOK'
  OBVIOUS
<1>a. flight \in [Requests -> Nat] /\ Listener \in Requests
  BY DEF TypeOK, Requests
<1>b. length \in [Clients -> 1..Size] /\ Size \in Nat \ {0}
  BY IoringAssumption DEF TypeOK
<1>c. /\ said \in [Clients -> 0..MaxCells] /\ taken \in [Clients -> 0..MaxCells]
      /\ \A d \in Clients : taken[d] <= said[d]
      /\ MaxCells \in Nat
  BY IoringAssumption DEF TypeOK
<1>d. \A c \in Clients : c \in Requests
  BY DEF Requests
<1>1. CASE OnAccept
  <2>1. This.client \in Clients /\ cq' \in Seq(Entries)
    BY <1>1, SeenQueue DEF OnAccept, Entries
  <2>2. event' \in [Requests -> {"none", "accept", "recv", "send", "freed"}]
    BY <1>1, <2>1 DEF TypeOK, OnAccept
  <2>3. flight' \in [Requests -> Nat]
    <3>1. flight' = [flight EXCEPT ![This.client] = @ + 1, ![Listener] = @ + 1]
      BY <1>1 DEF OnAccept, Arm
    <3> QED
      BY <2>1, <3>1, <1>a, <1>d
  <2> QED
    BY <1>1, <2>1, <2>2, <2>3 DEF TypeOK, OnAccept, Entries, client
<1>2. CASE OnRecv
  <2>1. This.client \in Clients /\ This.res \in -1..Size /\ cq' \in Seq(Entries)
    BY <1>2, SeenQueue DEF OnRecv, Entries
  <2>2. event' \in [Requests -> {"none", "accept", "recv", "send", "freed"}]
    BY <1>2, <2>1 DEF TypeOK, OnRecv
  <2>3. flight' \in [Requests -> Nat]
    <3>1. flight' = flight \/ flight' = [flight EXCEPT ![This.client] = @ + 1]
      BY <1>2 DEF OnRecv
    <3> QED
      BY <2>1, <3>1, <1>a, <1>d
  <2>4. length' \in [Clients -> 1..Size]
    <3>1. \/ length' = [length EXCEPT ![This.client] = This.res] /\ This.res > 0
          \/ length' = length
      BY <1>2 DEF OnRecv, LengthSet
    <3> QED
      BY <2>1, <3>1, <1>b
  <2> QED
    BY <1>2, <2>1, <2>2, <2>3, <2>4 DEF TypeOK, OnRecv, Entries, client
<1>3. CASE OnSend
  <2>1. This.client \in Clients /\ cq' \in Seq(Entries)
    BY <1>3, SeenQueue DEF OnSend, Entries
  <2>2. event' \in [Requests -> {"none", "accept", "recv", "send", "freed"}]
    BY <1>3, <2>1 DEF TypeOK, OnSend
  <2>3. flight' \in [Requests -> Nat] /\ length' \in [Clients -> 1..Size]
    <3>1. /\ flight' = [flight EXCEPT ![This.client] = @ + 1]
          /\ length' = [length EXCEPT ![This.client] = Size]
      BY <1>3 DEF OnSend
    <3> QED
      BY <2>1, <3>1, <1>a, <1>b, <1>d
  <2> QED
    BY <1>3, <2>1, <2>2, <2>3 DEF TypeOK, OnSend, Survives, Entries, client
<1>4. CASE Timeout
  BY <1>4 DEF TypeOK, Timeout, client
<1>5. ASSUME NEW c \in Clients, Connect(c) PROVE TypeOK'
  BY <1>5 DEF TypeOK, Connect
<1>6. ASSUME NEW c \in Clients, Say(c) PROVE TypeOK'
  <2>1. said' \in [Clients -> 0..MaxCells] /\ \A d \in Clients : taken[d] <= said'[d]
    <3>1. said' = [said EXCEPT ![c] = @ + 1] /\ said[c] < MaxCells
      BY <1>6 DEF Say
    <3> QED
      BY <3>1, <1>c
  <2> QED
    BY <1>6, <2>1 DEF TypeOK, Say
<1>7. ASSUME NEW c \in Clients, Leave(c) PROVE TypeOK'
  BY <1>7 DEF TypeOK, Leave
<1>8. ASSUME NEW c \in Clients, Accepted(c) PROVE TypeOK'
  <2>1. Completed(Listener, c, 0) /\ Listener \in Requests /\ flight[Listener] > 0
    BY <1>8 DEF Accepted, Has, Requests
  <2>2. cq' \in Seq(Entries) /\ flight' \in [Requests -> Nat]
    <3>1. 0 \in -1..Size
      BY <1>b
    <3> QED
      BY <2>1, <3>1, CompletedQueue
  <2> QED
    BY <1>8, <2>2 DEF TypeOK, Accepted, Entries, client
<1>9. ASSUME NEW c \in Clients, Received(c) PROVE TypeOK'
  <2>1. c \in Requests /\ flight[c] > 0 /\ length[c] \in 1..Size
    BY <1>9 DEF Received, Has, Requests, TypeOK
  <2>2. ASSUME NEW res \in -1..Size, Completed(c, c, res)
        PROVE  cq' \in Seq(Entries) /\ flight' \in [Requests -> Nat]
    BY <2>1, <2>2, CompletedQueue
  <2>3. CASE Available(c) > 0
    <3>1. Available(c) \in Nat /\ Available(c) = said[c] - taken[c]
      BY DEF Available, TypeOK
    <3> DEFINE n == Min({Available(c), length[c]})
    <3>2. n \in 1..Size /\ n <= said[c] - taken[c]
      <4>1. n \in {Available(c), length[c]} /\ n <= Available(c) /\ n <= length[c]
        <5>1. Available(c) \in Int /\ length[c] \in Int
          BY <1>b, <2>1, <3>1
        <5> QED
          BY <5>1, MinOfTwo
      <4> QED
        BY <1>b, <2>1, <2>3, <3>1, <4>1
    <3> HIDE DEF n
    <3>3. /\ data' = [data EXCEPT ![c] =
                         [k \in 1..Size |-> IF k <= n THEN taken[c] + k ELSE @[k]]]
          /\ taken' = [taken EXCEPT ![c] = @ + n]
          /\ Completed(c, c, n)
          /\ UNCHANGED <<up, event, length, client, echo, told, short, idle>>
      <4>1. Available(c) # 0
        BY <2>3, <3>1
      <4> QED
        BY <1>9, <4>1, Zenon DEF Received, n
    <3>4. cq' \in Seq(Entries) /\ flight' \in [Requests -> Nat]
      BY <2>2, <3>2, <3>3
    <3>5. data' \in [Clients -> [1..Size -> 0..MaxCells]]
      <4>1. data \in [Clients -> [1..Size -> 0..MaxCells]]
        BY DEF TypeOK
      <4>2. \A k \in 1..Size : k <= n => taken[c] + k \in 0..MaxCells
        BY <1>b, <1>c, <3>2
      <4>3. [k \in 1..Size |-> IF k <= n THEN taken[c] + k ELSE data[c][k]]
                \in [1..Size -> 0..MaxCells]
        BY <4>1, <4>2
      <4> QED
        BY <3>3, <4>1, <4>3
    <3>6. taken' \in [Clients -> 0..MaxCells] /\ \A d \in Clients : taken'[d] <= said'[d]
      <4>1. said' = said /\ taken' = [taken EXCEPT ![c] = @ + n]
        BY <3>3 DEF client
      <4> QED
        BY <1>b, <1>c, <3>2, <4>1
    <3> QED
      BY <3>3, <3>4, <3>5, <3>6 DEF TypeOK, client, Entries
  <2>4. CASE Available(c) = 0
    <3>1. /\ Completed(c, c, 0) \/ Completed(c, c, -1)
          /\ UNCHANGED <<up, event, length, client, data, taken, echo, told, short, idle>>
      BY <1>9, <2>4 DEF Received
    <3>2. cq' \in Seq(Entries) /\ flight' \in [Requests -> Nat]
      BY <1>b, <2>2, <3>1
    <3> QED
      BY <3>1, <3>2 DEF TypeOK, client, Entries
  <2> QED
    BY <1>9, <2>3, <2>4 DEF Received
<1>10. ASSUME NEW c \in Clients, Sent(c) PROVE TypeOK'
  <2>1. c \in Requests /\ flight[c] > 0 /\ length[c] \in 1..Size
    BY <1>10 DEF Sent, Has, Requests, TypeOK
  <2>2. ASSUME NEW res \in -1..Size, Completed(c, c, res)
        PROVE  cq' \in Seq(Entries) /\ flight' \in [Requests -> Nat]
    BY <2>1, <2>2, CompletedQueue
  <2>3. ASSUME NEW n \in 1..length[c], Completed(c, c, n),
               echo' = [echo EXCEPT ![c] = @ \o [k \in 1..n |-> data[c][k]]],
               short' = IF n < length[c] THEN short \cup {c} ELSE short,
               UNCHANGED <<up, event, length, data, client, taken, idle, told>>
        PROVE  TypeOK'
    <3>1. [k \in 1..n |-> data[c][k]] \in Seq(0..MaxCells)
      <4>1. [k \in 1..n |-> data[c][k]] \in [1..n -> 0..MaxCells] /\ n \in Nat
        <5>1. data[c] \in [1..Size -> 0..MaxCells]
          BY DEF TypeOK
        <5>2. n \in Nat /\ 1..n \subseteq 1..Size
          BY <1>b, <2>1
        <5> QED
          BY <5>1, <5>2
      <4> QED
        BY <4>1, SeqDef
    <3>2. echo' \in [Clients -> Seq(0..MaxCells)]
      BY <2>3, <3>1, ConcatProperties DEF TypeOK
    <3>3. cq' \in Seq(Entries) /\ flight' \in [Requests -> Nat]
      <4>1. n \in -1..Size
        BY <1>b, <2>1
      <4> QED
        BY <2>2, <2>3, <4>1
    <3> QED
      BY <2>3, <3>2, <3>3 DEF TypeOK, client, Entries
  <2>4. ASSUME Completed(c, c, -1), short' = short \cup {c},
               told' = IF peer[c] = "reset" THEN told \cup {c} ELSE told,
               UNCHANGED <<up, event, length, data, client, taken, idle, echo>>
        PROVE  TypeOK'
    <3>1. cq' \in Seq(Entries) /\ flight' \in [Requests -> Nat]
      BY <1>b, <2>2, <2>4
    <3> QED
      BY <2>4, <3>1 DEF TypeOK, client, Entries
  <2> QED
    BY <1>10, <2>3, <2>4 DEF Sent
<1>11. CASE UNCHANGED vars
  BY <1>11 DEF TypeOK, vars, client
<1> QED
  BY <1>1, <1>2, <1>3, <1>4, <1>5, <1>6, <1>7, <1>8, <1>9, <1>10, <1>11
     DEF Next, Server, Kernel

\* The variables of the server, the kernel and the clients keep their types,
\* and no client has more cells received than it said.
THEOREM TypeCorrect == Spec => []TypeOK
BY InitTyped, NextTyped, PTL DEF Spec

-----------------------------------------------------------------------------
(* The queue and the operations that are counted against it.               *)

\* A completion that joins the queue is the only one of its Request.
LEMMA CompletedOnce ==
    ASSUME IInv, up, up' = up, event' = event, length' = length,
           NEW r \in Requests, NEW c \in Clients, NEW res \in -1..Size,
           flight[r] > 0, Completed(r, c, res)
    PROVE  /\ FlightOK'
           /\ \A j, k \in DOMAIN cq' : cq'[j].request = cq'[k].request => j = k
           /\ event[r] \notin {"none", "freed"} /\ ~Queued(r)
           /\ flight'[r] = 0 /\ \A d \in Requests \ {r} : flight'[d] = flight[d]
<1>1. TypeOK /\ FlightOK /\ QueueOK
  BY DEF IInv
<1>2. /\ DOMAIN cq = 1..Len(cq) /\ DOMAIN cq' = 1..(Len(cq) + 1)
      /\ Len(cq) \in Nat
      /\ \A k \in 1..Len(cq) : cq'[k] = cq[k]
      /\ cq'[Len(cq) + 1].request = r
  <2>1. cq'[Len(cq) + 1] = [request |-> r, client |-> c, res |-> res]
    BY <1>1, CompletedQueue
  <2> QED
    BY <1>1, <2>1, CompletedQueue
<1>3. /\ flight \in [Requests -> Nat]
      /\ flight' = [flight EXCEPT ![r] = @ - 1]
  BY <1>1 DEF TypeOK, Completed
<1>4. event[r] \notin {"none", "freed"} /\ flight[r] = 1 /\ ~Queued(r)
  BY <1>1, <1>3 DEF FlightOK
<1>5. flight'[r] = 0 /\ \A d \in Requests \ {r} : flight'[d] = flight[d]
  BY <1>3, <1>4
<1>6. \A j, k \in DOMAIN cq' : cq'[j].request = cq'[k].request => j = k
  <2>1. \A k \in 1..Len(cq) : cq'[k].request # r
    BY <1>2, <1>4 DEF Queued
  <2>2. \A j, k \in 1..Len(cq) : cq[j].request = cq[k].request => j = k
    BY <1>1, <1>2 DEF QueueOK
  <2> QED
    BY <1>2, <2>1, <2>2
<1>7. Queued(r)' /\ \A d \in Requests \ {r} : Queued(d)' <=> Queued(d)
  <2>1. Len(cq) + 1 \in DOMAIN cq'
    BY <1>2
  <2>2. ASSUME NEW d \in Requests \ {r} PROVE Queued(d)' <=> Queued(d)
    BY <1>2 DEF Queued
  <2> QED
    BY <1>2, <2>1, <2>2 DEF Queued
<1>8. FlightOK'
  <2> SUFFICES ASSUME NEW d \in Requests
               PROVE  /\ event[d] \in {"none", "freed"} => flight'[d] = 0
                      /\ event[d] \notin {"none", "freed"} =>
                            flight'[d] \in {0, 1} /\ (flight'[d] = 0 <=> Queued(d)')
    BY DEF FlightOK
  <2>1. CASE d = r
    BY <1>4, <1>5, <1>7, <2>1
  <2>2. CASE d # r
    <3>1. flight'[d] = flight[d] /\ (Queued(d)' <=> Queued(d))
      BY <1>5, <1>7, <2>2
    <3> QED
      BY <1>1, <3>1 DEF FlightOK
  <2> QED
    BY <2>1, <2>2
<1> QED
  BY <1>4, <1>5, <1>6, <1>8

\* The completion that the server takes was the only one of its Request.
LEMMA SeenOnce ==
    ASSUME IInv, Seen, NEW r \in Requests, This.request = r
    PROVE  /\ This \in Entries
           /\ DOMAIN cq = 1..Len(cq) /\ DOMAIN cq' = 1..(Len(cq) - 1)
           /\ Len(cq) \in Nat \ {0} /\ This = cq[1]
           /\ \A k \in DOMAIN cq' :
                /\ k + 1 \in DOMAIN cq /\ cq'[k] = cq[k + 1]
                /\ cq'[k].request # r
           /\ \A j, k \in DOMAIN cq' : cq'[j].request = cq'[k].request => j = k
           /\ event[r] \notin {"none", "freed"}
           /\ flight[r] = 0 /\ ~Queued(r)'
           /\ \A d \in Requests \ {r} : Queued(d)' <=> Queued(d)
<1>1. TypeOK /\ FlightOK /\ QueueOK
  BY DEF IInv, Seen
<1>2. /\ This \in Entries
      /\ DOMAIN cq = 1..Len(cq) /\ DOMAIN cq' = 1..(Len(cq) - 1)
      /\ Len(cq) \in Nat \ {0} /\ This = cq[1]
      /\ \A k \in 1..(Len(cq) - 1) : cq'[k] = cq[k + 1]
  BY <1>1, SeenQueue
<1>3. \A k \in DOMAIN cq' : k + 1 \in DOMAIN cq /\ k + 1 # 1 /\ cq'[k] = cq[k + 1]
  BY <1>2
<1>4. 1 \in DOMAIN cq
  BY <1>2
<1>5. \A j, k \in DOMAIN cq : cq[j].request = cq[k].request => j = k
  BY <1>1 DEF QueueOK
<1>6. \A k \in DOMAIN cq' : cq'[k].request # r
  BY <1>2, <1>3, <1>4, <1>5
<1>7. \A j, k \in DOMAIN cq' : cq'[j].request = cq'[k].request => j = k
  BY <1>2, <1>3, <1>5
<1>8. event[r] \notin {"none", "freed"} /\ Queued(r)
  BY <1>1, <1>2, <1>4 DEF QueueOK, Queued
<1>9. flight[r] = 0
  BY <1>1, <1>8 DEF FlightOK
<1>10. ASSUME NEW d \in Requests \ {r} PROVE Queued(d)' <=> Queued(d)
  <2>1. Queued(d)' => Queued(d)
    BY <1>3 DEF Queued
  <2>2. ASSUME Queued(d) PROVE Queued(d)'
    <3>1. PICK k \in DOMAIN cq : cq[k].request = d
      BY <2>2 DEF Queued
    <3>2. k # 1
      BY <1>2, <3>1
    <3>3. k - 1 \in DOMAIN cq' /\ cq'[k - 1] = cq[k]
      BY <1>2, <3>2
    <3> QED
      BY <3>1, <3>3 DEF Queued
  <2> QED
    BY <2>1, <2>2
<1>11. ~Queued(r)'
  BY <1>6 DEF Queued
<1> QED
  BY <1>2, <1>3, <1>6, <1>7, <1>8, <1>9, <1>10, <1>11

-----------------------------------------------------------------------------
(* Every action keeps the invariant.                                       *)

LEMMA InitInvariant == Init => IInv
<1> SUFFICES ASSUME Init PROVE IInv
  OBVIOUS
<1>1. TypeOK
  BY InitTyped
<1>2. KindsApart
  BY IoringAssumption DEF Init, KindsApart, Requests
<1>3. \A c \in Clients : c # Listener /\ event[c] = "none" /\ Unsent(c, 0)
  BY IoringAssumption DEF Init, Unsent, Requests
<1>4. EchoInOrder
  BY <1>3 DEF Init, EchoInOrder, Has, Requests
<1>5. FlightOK /\ QueueOK
  BY DEF Init, FlightOK, QueueOK, Queued
<1>6. BufferOK
  BY <1>3 DEF BufferOK, Has
<1> QED
  BY <1>1, <1>2, <1>4, <1>5, <1>6 DEF IInv, EndsForCause, Init

\* A step of a client that takes back no reset, which is all the server's
\* invariant has to know of it.
LEMMA ClientStep ==
    ASSUME IInv, TypeOK',
           UNCHANGED <<up, event, length, data, flight, cq, taken, echo, told, short, idle>>,
           \A c \in Clients : peer[c] = "reset" => peer'[c] = "reset"
    PROVE  IInv'
<1>1. KindsApart' /\ EchoInOrder' /\ EndsForCause'
  BY DEF IInv, KindsApart, EchoInOrder, EndsForCause, Has
<1>2. ASSUME up PROVE FlightOK' /\ QueueOK' /\ BufferOK'
  <2>1. FlightOK /\ QueueOK /\ BufferOK
    BY <1>2 DEF IInv
  <2>2. FlightOK'
    BY <2>1 DEF FlightOK, Queued
  <2>3. \A c, n : Unsent(c, n)' <=> Unsent(c, n)
    BY DEF Unsent
  <2>4. BufferOK'
    BY <2>1, <2>3 DEF BufferOK, Has
  <2>5. \A k \in DOMAIN cq : cq[k].client \in Clients
    <3>1. cq \in Seq(Entries)
      BY DEF IInv, TypeOK, Entries
    <3> QED
      <4>1. \A k \in DOMAIN cq : cq[k] \in Entries
        BY <3>1, ElementOfSeq, LenProperties
      <4> QED
        BY <4>1 DEF Entries
  <2>6. QueueOK'
    BY <2>1, <2>3, <2>5 DEF QueueOK, CompletionOK
  <2> QED
    BY <2>2, <2>4, <2>6
<1> QED
  BY <1>1, <1>2 DEF IInv

LEMMA TimeoutStep == IInv /\ TypeOK' /\ Timeout => IInv'
<1> SUFFICES ASSUME IInv, TypeOK', Timeout PROVE IInv'
  OBVIOUS
<1>1. KindsApart' /\ EchoInOrder' /\ EndsForCause'
  BY DEF IInv, KindsApart, EchoInOrder, EndsForCause, Has, Timeout, client
<1>2. ~up'
  BY DEF Timeout
<1> QED
  BY <1>1, <1>2 DEF IInv

\* accept() completes: it was the Listener's operation.
LEMMA AcceptedStep ==
    ASSUME IInv, TypeOK', up, NEW c \in Clients, Accepted(c)
    PROVE  IInv'
<1> USE DEF client
<1>1. /\ Listener \in Requests /\ flight[Listener] > 0 /\ event[c] = "none"
      /\ Completed(Listener, c, 0) /\ 0 \in -1..Size
      /\ UNCHANGED <<up, event, length, data, peer, said, taken, echo, told, short, idle>>
  BY IoringAssumption DEF Accepted, Has, Requests
<1>2. FlightOK /\ QueueOK /\ BufferOK /\ TypeOK
  BY <1>1 DEF IInv
<1>3. /\ FlightOK'
      /\ \A j, k \in DOMAIN cq' : cq'[j].request = cq'[k].request => j = k
      /\ event[Listener] \notin {"none", "freed"}
      /\ \A d \in Requests \ {Listener} : flight'[d] = flight[d]
  BY <1>1, CompletedOnce
<1>4. \A d, n : Unsent(d, n)' <=> Unsent(d, n)
  BY <1>1 DEF Unsent
<1>5. \A d \in Clients : d \in Requests \ {Listener}
  BY IoringAssumption DEF Requests
<1>6. BufferOK' /\ EchoInOrder' /\ KindsApart' /\ EndsForCause'
  BY <1>1, <1>2, <1>3, <1>4, <1>5
     DEF IInv, BufferOK, EchoInOrder, KindsApart, EndsForCause, Has
<1>7. /\ DOMAIN cq = 1..Len(cq) /\ DOMAIN cq' = 1..(Len(cq) + 1)
      /\ Len(cq) \in Nat
      /\ \A k \in 1..Len(cq) : cq'[k] = cq[k] /\ cq[k] \in Entries
      /\ cq'[Len(cq) + 1] = [request |-> Listener, client |-> c, res |-> 0]
  BY <1>1, <1>2, CompletedQueue, ElementOfSeq
<1>8. QueueOK'
  <2> SUFFICES ASSUME NEW k \in DOMAIN cq'
               PROVE  /\ event[cq'[k].request] \notin {"none", "freed"}
                      /\ cq'[k].request = Listener => event[cq'[k].client] = "none"
                      /\ cq'[k].request # Listener =>
                            /\ cq'[k].client = cq'[k].request
                            /\ CompletionOK(cq[k].client, cq[k].res)'
    BY <1>1, <1>3, <1>7 DEF QueueOK
  <2>1. CASE k = Len(cq) + 1
    BY <1>1, <1>3, <1>7, <2>1
  <2>2. CASE k \in 1..Len(cq)
    BY <1>1, <1>2, <1>4, <1>7, <2>2 DEF QueueOK, CompletionOK, Entries
  <2> QED
    BY <1>7, <2>1, <2>2
<1> QED
  BY <1>3, <1>6, <1>8 DEF IInv

\* A recv or a send of one client completes: what is known of the others
\* stays, so it is enough to know the completion and the echo of this one.
LEMMA ClientCompleted ==
    ASSUME IInv, TypeOK', up, UNCHANGED <<up, event, length, peer>>,
           NEW c \in Clients, NEW res \in -1..Size,
           flight[c] > 0, Completed(c, c, res),
           \A d \in Clients \ {c} :
                /\ taken'[d] = taken[d] /\ data'[d] = data[d] /\ echo'[d] = echo[d]
                /\ (d \in short' <=> d \in short) /\ (d \in told' <=> d \in told),
           CompletionOK(c, res)',
           \A k \in DOMAIN echo'[c] : echo'[c][k] \in 1..taken'[c],
           \A j, k \in DOMAIN echo'[c] : j < k => echo'[c][j] < echo'[c][k]
    PROVE  IInv'
<1>1. FlightOK /\ QueueOK /\ BufferOK /\ TypeOK /\ KindsApart /\ EchoInOrder
  BY DEF IInv
<1>2. c \in Requests /\ c # Listener
  BY IoringAssumption DEF Requests
<1>3. /\ FlightOK'
      /\ \A j, k \in DOMAIN cq' : cq'[j].request = cq'[k].request => j = k
      /\ event[c] \notin {"none", "freed"} /\ ~Queued(c)
      /\ flight'[c] = 0 /\ \A d \in Requests \ {c} : flight'[d] = flight[d]
  BY <1>2, CompletedOnce
<1>4. ASSUME NEW d \in Clients \ {c}, NEW n PROVE Unsent(d, n)' <=> Unsent(d, n)
  BY DEF Unsent
<1>5. ~Has(c, "recv")' /\ ~Has(c, "send")'
  BY <1>3 DEF Has
<1>6. \A d \in Clients \ {c} : \A kind : Has(d, kind)' <=> Has(d, kind)
  BY <1>3 DEF Has, Requests
<1>7. BufferOK'
  BY <1>1, <1>3, <1>4, <1>5, <1>6 DEF BufferOK
<1>8. EchoInOrder'
  <2> SUFFICES ASSUME NEW d \in Clients
               PROVE  /\ \A k \in DOMAIN echo'[d] : echo'[d][k] \in 1..taken'[d]
                      /\ \A j, k \in DOMAIN echo'[d] : j < k => echo'[d][j] < echo'[d][k]
                      /\ d \notin short' /\ Has(d, "recv")' => Len(echo'[d]) = taken'[d]
    BY DEF EchoInOrder
  <2>1. CASE d = c
    BY <1>5, <2>1
  <2>2. CASE d # c
    BY <1>1, <1>6, <2>2 DEF EchoInOrder
  <2> QED
    BY <2>1, <2>2
<1>9. KindsApart' /\ EndsForCause'
  BY <1>1 DEF KindsApart, EndsForCause
<1>10. /\ DOMAIN cq = 1..Len(cq) /\ DOMAIN cq' = 1..(Len(cq) + 1)
       /\ Len(cq) \in Nat
       /\ \A k \in 1..Len(cq) : cq'[k] = cq[k] /\ cq[k] \in Entries
       /\ cq'[Len(cq) + 1] = [request |-> c, client |-> c, res |-> res]
  BY <1>1, <1>2, CompletedQueue, ElementOfSeq
<1>11. QueueOK'
  <2> SUFFICES ASSUME NEW k \in DOMAIN cq'
               PROVE  /\ event[cq'[k].request] \notin {"none", "freed"}
                      /\ cq'[k].request = Listener => event[cq'[k].client] = "none"
                      /\ cq'[k].request # Listener =>
                            /\ cq'[k].client = cq'[k].request
                            /\ CompletionOK(cq[k].client, cq[k].res)'
    BY <1>3 DEF QueueOK
  <2>1. CASE k = Len(cq) + 1
    BY <1>2, <1>3, <1>10, <2>1
  <2>2. CASE k \in 1..Len(cq)
    <3>1. cq'[k] = cq[k] /\ cq[k].request # c /\ cq[k] \in Entries /\ k \in DOMAIN cq
      BY <1>3, <1>10, <2>2 DEF Queued
    <3>2. event[cq[k].request] \notin {"none", "freed"}
          /\ (cq[k].request = Listener => event[cq[k].client] = "none")
      BY <1>1, <3>1 DEF QueueOK
    <3>3. ASSUME cq[k].request # Listener
          PROVE  /\ cq[k].client = cq[k].request
                 /\ CompletionOK(cq[k].client, cq[k].res)'
      <4>1. cq[k].client = cq[k].request /\ CompletionOK(cq[k].client, cq[k].res)
        BY <1>1, <3>1, <3>3 DEF QueueOK
      <4>2. cq[k].client \in Clients \ {c}
        BY <3>1, <4>1 DEF Entries
      <4> QED
        BY <1>4, <3>1, <4>1, <4>2 DEF CompletionOK
    <3> QED
      BY <3>1, <3>2, <3>3
  <2> QED
    BY <1>10, <2>1, <2>2
<1> QED
  BY <1>3, <1>7, <1>8, <1>9, <1>11 DEF IInv

\* The numbers and the buffer of one client.
LEMMA ClientTypes ==
    ASSUME TypeOK, NEW c \in Clients
    PROVE  /\ taken[c] \in Nat /\ said[c] \in Nat /\ taken[c] <= said[c]
           /\ length[c] \in 1..Size /\ Size \in Nat /\ data[c] \in [1..Size -> 0..MaxCells]
<1>1. Size \in Nat /\ MaxCells \in Nat
  BY IoringAssumption
<1>2. data \in [Clients -> [1..Size -> 0..MaxCells]] /\ length \in [Clients -> 1..Size]
  BY DEF TypeOK
<1>3. taken \in [Clients -> 0..MaxCells] /\ said \in [Clients -> 0..MaxCells] /\ taken[c] <= said[c]
  BY DEF TypeOK
<1>4. data[c] \in [1..Size -> 0..MaxCells] /\ length[c] \in 1..Size
  BY <1>2
<1>5. taken[c] \in 0..MaxCells /\ said[c] \in 0..MaxCells
  BY <1>3
<1> QED
  BY <1>1, <1>3, <1>4, <1>5

LEMMA ReceivedStep ==
    ASSUME IInv, TypeOK', up, NEW c \in Clients, Received(c)
    PROVE  IInv'
<1> USE DEF client
<1>1. /\ flight[c] > 0 /\ event[c] = "recv" /\ Has(c, "recv")
      /\ UNCHANGED <<up, event, length, peer, said, echo, told, short, idle>>
  BY DEF Received, Has
<1>2. TypeOK /\ BufferOK /\ EchoInOrder
  BY <1>1 DEF IInv
<1>3. Unsent(c, 0)
  BY <1>1, <1>2 DEF BufferOK
<1>4. taken[c] \in Nat /\ said[c] \in Nat /\ length[c] \in 1..Size /\ Size \in Nat
      /\ taken[c] <= said[c] /\ data[c] \in [1..Size -> 0..MaxCells]
  BY <1>2, ClientTypes
<1>5. CASE Available(c) > 0
  <2>1. Available(c) \in Nat /\ Available(c) # 0
    BY <1>4, <1>5 DEF Available
  <2>2. Min({Available(c), length[c]}) \in 1..Size
    <3>1. Available(c) \in Int /\ length[c] \in Int
      BY <1>4, <2>1
    <3> QED
      <4> DEFINE m == Min({Available(c), length[c]})
      <4>1. m \in {Available(c), length[c]} /\ m <= length[c]
        BY <3>1, MinOfTwo
      <4> HIDE DEF m
      <4>2. m \in 1..Size
        BY <1>4, <2>1, <4>1
      <4> QED
        BY <4>2 DEF m
  <2>3. PICK n \in 1..Size : n = Min({Available(c), length[c]})
    BY <2>2
  <2>4. /\ data' = [data EXCEPT ![c] =
                       [k \in 1..Size |-> IF k <= n THEN taken[c] + k ELSE @[k]]]
        /\ taken' = [taken EXCEPT ![c] = @ + n]
        /\ Completed(c, c, n)
    BY <2>1, <2>3, Zenon DEF Received
  <2>5. /\ taken'[c] = taken[c] + n /\ echo'[c] = echo[c] /\ short' = short
        /\ \A k \in 1..n : data'[c][k] = taken[c] + k
    BY <1>1, <1>2, <1>4, <2>4 DEF TypeOK
  <2>6. Unsent(c, n)'
    <3>1. \A k \in DOMAIN echo[c] : echo[c][k] <= taken[c] - 0
      BY <1>3 DEF Unsent
    <3>2. c \notin short => Len(echo[c]) = taken[c] - 0
      BY <1>3 DEF Unsent
    <3> QED
      <4>1. n \in Nat /\ taken[c] = taken'[c] - n /\ n <= taken'[c]
        BY <1>4, <2>5
      <4>2. \A k \in 1..n : data'[c][k] = taken'[c] - n + k
        BY <2>5, <4>1
      <4>3. taken[c] - 0 = taken'[c] - n
        BY <1>4, <4>1
      <4> QED
        BY <2>5, <3>1, <3>2, <4>1, <4>2, <4>3 DEF Unsent
  <2>7. CompletionOK(c, n)'
    BY <1>1, <2>3, <2>6 DEF CompletionOK
  <2>8. \A d \in Clients \ {c} : taken'[d] = taken[d] /\ data'[d] = data[d]
    BY <1>2, <2>4 DEF TypeOK
  <2>9. /\ \A k \in DOMAIN echo'[c] : echo'[c][k] \in 1..taken'[c]
        /\ \A j, k \in DOMAIN echo'[c] : j < k => echo'[c][j] < echo'[c][k]
    <3>1. \A k \in DOMAIN echo[c] : echo[c][k] \in 1..taken[c]
      BY <1>2 DEF EchoInOrder
    <3>2. 1..taken[c] \subseteq 1..taken'[c]
      BY <1>4, <2>5
    <3> QED
      BY <1>1, <1>2, <3>1, <3>2 DEF EchoInOrder
  <2>10. n \in -1..Size
    BY <1>4
  <2> QED
    BY <1>1, <2>4, <2>7, <2>8, <2>9, <2>10, ClientCompleted
<1>6. ASSUME NEW res \in {-1, 0}, Completed(c, c, res), UNCHANGED <<data, taken>>,
             res = -1 => peer[c] = "reset" /\ c \notin told
      PROVE  IInv'
  <2>1. CompletionOK(c, res)'
    BY <1>1, <1>6 DEF CompletionOK
  <2>2. res \in -1..Size
    BY <1>4
  <2>3. /\ \A k \in DOMAIN echo'[c] : echo'[c][k] \in 1..taken'[c]
        /\ \A j, k \in DOMAIN echo'[c] : j < k => echo'[c][j] < echo'[c][k]
    BY <1>1, <1>2, <1>6 DEF EchoInOrder
  <2> QED
    BY <1>1, <1>6, <2>1, <2>2, <2>3, ClientCompleted
<1> QED
  BY <1>5, <1>6 DEF Received

LEMMA SentStep ==
    ASSUME IInv, TypeOK', up, NEW c \in Clients, Sent(c)
    PROVE  IInv'
<1> USE DEF client
<1>1. /\ flight[c] > 0 /\ event[c] = "send" /\ Has(c, "send")
      /\ UNCHANGED <<up, event, length, data, peer, said, taken, idle>>
  BY DEF Sent, Has
<1>2. TypeOK /\ BufferOK /\ EchoInOrder
  BY <1>1 DEF IInv
<1>3. Unsent(c, length[c])
  BY <1>1, <1>2 DEF BufferOK
<1>4. taken[c] \in Nat /\ length[c] \in 1..Size /\ Size \in Nat
      /\ data[c] \in [1..Size -> 0..MaxCells]
  BY <1>2, ClientTypes
<1>5. echo[c] \in Seq(0..MaxCells)
  BY <1>2 DEF TypeOK
<1>6. /\ \A k \in DOMAIN echo[c] : echo[c][k] \in 1..taken[c]
      /\ \A j, k \in DOMAIN echo[c] : j < k => echo[c][j] < echo[c][k]
      /\ \A k \in DOMAIN echo[c] : echo[c][k] <= taken[c] - length[c]
      /\ \A k \in 1..length[c] : data[c][k] = taken[c] - length[c] + k
      /\ length[c] <= taken[c]
      /\ c \notin short => Len(echo[c]) = taken[c] - length[c]
  BY <1>2, <1>3 DEF EchoInOrder, Unsent
<1>7. ASSUME NEW n \in 1..length[c], Completed(c, c, n), UNCHANGED told,
             echo' = [echo EXCEPT ![c] = @ \o [k \in 1..n |-> data[c][k]]],
             short' = IF n < length[c] THEN short \cup {c} ELSE short
      PROVE  IInv'
  <2> DEFINE part == [k \in 1..n |-> data[c][k]]
  <2>1. n \in Nat /\ n <= length[c] /\ 1 <= n
    BY <1>4
  <2>2. part \in Seq(0..MaxCells) /\ Len(part) = n
        /\ \A k \in 1..n : part[k] = taken[c] - length[c] + k
    <3>1. part \in [1..n -> 0..MaxCells]
      BY <1>4, <2>1
    <3>2. part \in Seq(0..MaxCells)
      BY <2>1, <3>1, SeqDef
    <3>3. Len(part) = n
      BY <2>1, <3>1, <3>2, LenProperties
    <3> QED
      <4>1. \A k \in 1..n : part[k] = data[c][k] /\ k \in 1..length[c]
        BY <1>4, <2>1
      <4> QED
        BY <1>6, <3>2, <3>3, <4>1
  <2>3. echo'[c] = echo[c] \o part /\ \A d \in Clients \ {c} : echo'[d] = echo[d]
    BY <1>2, <1>7 DEF TypeOK
  <2> HIDE DEF part
  <2> DEFINE old == Len(echo[c])
  <2>4. old \in Nat /\ DOMAIN echo[c] = 1..old
    BY <1>5, LenProperties
  <2>5. /\ echo'[c] \in Seq(0..MaxCells) /\ Len(echo'[c]) = old + n
        /\ \A k \in 1..(old + n) :
              echo'[c][k] = IF k <= old THEN echo[c][k] ELSE part[k - old]
    <3>1. /\ echo[c] \o part \in Seq(0..MaxCells)
          /\ Len(echo[c] \o part) = old + Len(part)
          /\ \A k \in 1..(old + Len(part)) :
                (echo[c] \o part)[k] = IF k <= old THEN echo[c][k] ELSE part[k - old]
      BY <1>5, <2>2, ConcatProperties, Zenon
    <3> QED
      BY <2>2, <2>3, <3>1, Zenon
  <2> HIDE DEF old
  <2>6. DOMAIN echo'[c] = 1..(old + n)
    BY <2>5, LenProperties
  <2> DEFINE base == taken[c] - length[c]
  <2>a. base \in Nat /\ base + n <= taken[c] /\ taken'[c] = taken[c]
    BY <1>1, <1>4, <1>6, <2>1
  <2>b. \A k \in 1..old : k \in DOMAIN echo'[c] /\ echo'[c][k] = echo[c][k]
    BY <2>1, <2>4, <2>5, <2>6
  <2>c. \A k \in (old + 1)..(old + n) : echo'[c][k] = base + (k - old)
    <3> SUFFICES ASSUME NEW k \in (old + 1)..(old + n)
                 PROVE  echo'[c][k] = base + (k - old)
      OBVIOUS
    <3>1. k \in 1..(old + n) /\ ~(k <= old) /\ k - old \in 1..n
      BY <2>1, <2>4
    <3>2. echo'[c][k] = part[k - old]
      BY <2>5, <3>1
    <3> QED
      BY <2>2, <3>1, <3>2
  <2>d. \A k \in 1..old : echo[c][k] \in 1..taken[c] /\ echo[c][k] <= base
    BY <1>6, <2>4
  <2> HIDE DEF base
  <2>7. \A k \in DOMAIN echo'[c] : echo'[c][k] \in 1..taken'[c]
    <3> SUFFICES ASSUME NEW k \in 1..(old + n) PROVE echo'[c][k] \in 1..taken[c]
      BY <2>6, <2>a
    <3>1. CASE k <= old
      BY <2>4, <2>b, <2>d, <3>1
    <3>2. CASE k > old
      <4>1. k \in (old + 1)..(old + n)
        BY <2>4, <3>2
      <4>2. echo'[c][k] = base + (k - old)
        BY <2>c, <4>1
      <4> QED
        BY <1>4, <2>1, <2>4, <2>a, <3>2, <4>2
    <3> QED
      BY <2>4, <3>1, <3>2
  <2>8. \A j, k \in DOMAIN echo'[c] : j < k => echo'[c][j] < echo'[c][k]
    <3> SUFFICES ASSUME NEW j \in 1..(old + n), NEW k \in 1..(old + n), j < k
                 PROVE  echo'[c][j] < echo'[c][k]
      BY <2>6
    <3>1. CASE k <= old
      <4>1. j \in 1..old /\ k \in 1..old
        BY <2>4, <3>1
      <4> QED
        BY <1>6, <2>4, <2>b, <4>1
    <3>2. CASE k > old
      <4>1. k \in (old + 1)..(old + n)
        BY <2>4, <3>2
      <4>2. echo'[c][k] = base + (k - old)
        BY <2>c, <4>1
      <4>3. CASE j <= old
        <5>1. j \in 1..old
          BY <2>4, <4>3
        <5>2. echo'[c][j] <= base /\ echo'[c][j] \in Int
          BY <1>4, <2>b, <2>d, <5>1
        <5> QED
          BY <2>4, <2>a, <3>2, <4>2, <5>2
      <4>4. CASE j > old
        <5>1. j \in (old + 1)..(old + n)
          BY <2>4, <4>4
        <5>2. echo'[c][j] = base + (j - old)
          BY <2>c, <5>1
        <5> QED
          BY <2>4, <2>a, <4>2, <5>2
      <4> QED
        BY <2>4, <4>3, <4>4
    <3> QED
      BY <2>4, <3>1, <3>2
  <2>9. c \notin short' => Len(echo'[c]) = taken'[c]
    <3> SUFFICES ASSUME c \notin short' PROVE Len(echo'[c]) = taken'[c]
      OBVIOUS
    <3>1. c \notin short /\ ~(n < length[c])
      BY <1>7
    <3>2. n = length[c]
      BY <1>4, <2>1, <3>1
    <3>3. old = base
      BY <1>6, <3>1 DEF old, base
    <3> QED
      BY <1>4, <2>5, <2>a, <3>2, <3>3 DEF base
  <2>10. Unsent(c, 0)'
    BY <1>1, <1>4, <2>7, <2>9 DEF Unsent
  <2>11. CompletionOK(c, n)'
    BY <1>1, <2>10 DEF CompletionOK
  <2>12. n \in -1..Size
    BY <1>4, <2>1
  <2> QED
    BY <1>1, <1>7, <2>3, <2>7, <2>8, <2>11, <2>12, ClientCompleted
<1>8. ASSUME Completed(c, c, -1), short' = short \cup {c}, UNCHANGED echo,
             told' = IF peer[c] = "reset" THEN told \cup {c} ELSE told
      PROVE  IInv'
  <2>1. Unsent(c, 0)'
    BY <1>1, <1>4, <1>6, <1>8 DEF Unsent
  <2>2. CompletionOK(c, -1)'
    BY <1>1, <2>1 DEF CompletionOK
  <2>3. -1 \in -1..Size
    BY <1>4
  <2>4. /\ \A k \in DOMAIN echo'[c] : echo'[c][k] \in 1..taken'[c]
        /\ \A j, k \in DOMAIN echo'[c] : j < k => echo'[c][j] < echo'[c][k]
    BY <1>1, <1>6, <1>8
  <2> QED
    BY <1>1, <1>8, <2>2, <2>3, <2>4, ClientCompleted
<1> QED
  BY <1>7, <1>8 DEF Sent

\* The server takes a completion and looks at its client c.  What it knows of
\* the other clients and of the completions behind it stays.
LEMMA ServerStep ==
    ASSUME IInv, TypeOK', Seen, UNCHANGED <<data, peer, taken, echo, told, short, idle>>,
           NEW r \in Requests, NEW c \in Clients, This.request = r,
           r = Listener => event[c] = "none", r # Listener => r = c,
           event'[Listener] = event[Listener], event'[c] # "accept",
           \A d \in Clients \ {c} :
                event'[d] = event[d] /\ flight'[d] = flight[d] /\ length'[d] = length[d],
           flight'[Listener] = IF r = Listener THEN 1 ELSE flight[Listener],
           up' => flight'[c] = IF event'[c] \in {"none", "freed"} THEN 0 ELSE 1,
           up' /\ event'[c] = "none" => Unsent(c, 0),
           Has(c, "recv")' => Unsent(c, 0),
           up' /\ Has(c, "send")' => Unsent(c, length'[c]),
           ~up' => EndsForCause'
    PROVE  IInv'
<1>1. FlightOK /\ QueueOK /\ BufferOK /\ TypeOK /\ KindsApart /\ EchoInOrder
  BY DEF IInv, Seen
<1>2. /\ c \in Requests /\ c # Listener /\ Listener \in Requests
      /\ \A d \in Requests : d # Listener => d \in Clients
  BY IoringAssumption DEF Requests
<1>3. /\ This \in Entries
      /\ DOMAIN cq = 1..Len(cq) /\ DOMAIN cq' = 1..(Len(cq) - 1)
      /\ Len(cq) \in Nat \ {0}
      /\ \A k \in DOMAIN cq' :
            k + 1 \in DOMAIN cq /\ cq'[k] = cq[k + 1] /\ cq'[k].request # r
      /\ \A j, k \in DOMAIN cq' : cq'[j].request = cq'[k].request => j = k
      /\ event[r] \notin {"none", "freed"}
      /\ flight[r] = 0 /\ ~Queued(r)'
      /\ \A d \in Requests \ {r} : Queued(d)' <=> Queued(d)
  BY SeenOnce
<1>4. \A d, n : Unsent(d, n)' <=> Unsent(d, n)
  BY DEF Unsent
<1>5. KindsApart'
  BY <1>1, <1>2 DEF KindsApart
<1>6. ~Queued(c)'
  <2>1. r = Listener => ~Queued(c)
    BY <1>1, <1>2 DEF QueueOK, Queued
  <2> QED
    BY <1>2, <1>3, <2>1
<1>7. EchoInOrder'
  <2> SUFFICES ASSUME NEW d \in Clients
               PROVE  d \notin short /\ Has(d, "recv")' => Len(echo[d]) = taken[d]
    BY <1>1 DEF EchoInOrder
  <2>1. CASE d = c
    <3>1. Unsent(c, 0) => (c \notin short => Len(echo[c]) = taken[c] - 0)
      BY DEF Unsent
    <3>2. taken[c] - 0 = taken[c]
      BY <1>1 DEF TypeOK
    <3> QED
      BY <2>1, <3>1, <3>2
  <2>2. CASE d # c
    BY <1>1, <2>2 DEF EchoInOrder, Has
  <2> QED
    BY <2>1, <2>2
<1>8. CASE ~up'
  BY <1>5, <1>7, <1>8 DEF IInv
<1>9. CASE up'
  <2>1. FlightOK'
    <3> SUFFICES ASSUME NEW d \in Requests
                 PROVE  /\ event'[d] \in {"none", "freed"} => flight'[d] = 0
                        /\ event'[d] \notin {"none", "freed"} =>
                              flight'[d] \in {0, 1} /\ (flight'[d] = 0 <=> Queued(d)')
      BY DEF FlightOK
    <3>1. CASE d = c
      BY <1>6, <1>9, <3>1
    <3>2. CASE d = Listener /\ r = Listener
      BY <1>3, <3>2
    <3>3. CASE d # c /\ ~(d = Listener /\ r = Listener)
      <4>1. d # r /\ event'[d] = event[d] /\ flight'[d] = flight[d]
        BY <1>2, <3>3
      <4>2. Queued(d)' <=> Queued(d)
        BY <1>3, <4>1
      <4> QED
        BY <1>1, <4>1, <4>2 DEF FlightOK
    <3> QED
      BY <3>1, <3>2, <3>3
  <2>2. QueueOK'
    <3> SUFFICES ASSUME NEW k \in DOMAIN cq'
                 PROVE  /\ event'[cq'[k].request] \notin {"none", "freed"}
                        /\ cq'[k].request = Listener => event'[cq'[k].client] = "none"
                        /\ cq'[k].request # Listener =>
                              /\ cq'[k].client = cq'[k].request
                              /\ CompletionOK(cq[k].client, cq[k].res)'
      BY <1>3 DEF QueueOK
    <3>1. PICK e \in Entries : e = cq'[k]
      <4>1. cq' \in Seq(Entries)
        BY DEF TypeOK, Entries
      <4> QED
        BY <4>1, ElementOfSeq, LenProperties
    <3>2. /\ event[e.request] \notin {"none", "freed"}
          /\ e.request = Listener => event[e.client] = "none"
          /\ e.request # Listener =>
                e.client = e.request /\ CompletionOK(e.client, e.res)
      BY <1>1, <1>3, <3>1 DEF QueueOK
    <3>3. e.request # r /\ e.request # c
      BY <1>3, <1>6, <3>1 DEF Queued
    <3>4. event'[e.request] = event[e.request]
      BY <1>2, <3>1, <3>3 DEF Entries
    <3>5. ASSUME e.request = Listener PROVE event'[e.client] = "none"
      <4>1. r # Listener /\ r = c /\ event[c] # "none"
        BY <1>3, <3>3, <3>5
      <4>2. e.client # c /\ e.client \in Clients
        BY <3>1, <3>2, <3>5, <4>1 DEF Entries
      <4> QED
        BY <3>2, <3>5, <4>2
    <3>6. ASSUME e.request # Listener
          PROVE  e.client = e.request /\ CompletionOK(e.client, e.res)'
      <4>1. e.client = e.request /\ CompletionOK(e.client, e.res) /\ e.client \in Clients
        BY <3>1, <3>2, <3>6 DEF Entries
      <4> QED
        BY <1>4, <3>4, <4>1 DEF CompletionOK
    <3> QED
      BY <3>1, <3>2, <3>4, <3>5, <3>6
  <2>3. BufferOK'
    <3> SUFFICES ASSUME NEW d \in Clients
                 PROVE  /\ event'[d] = "none" => Unsent(d, 0)
                        /\ Has(d, "recv")' => Unsent(d, 0)
                        /\ Has(d, "send")' => Unsent(d, length'[d])
      BY <1>4 DEF BufferOK
    <3>1. CASE d = c
      BY <1>9, <3>1
    <3>2. CASE d # c
      BY <1>1, <3>2 DEF BufferOK, Has
    <3> QED
      BY <3>1, <3>2
  <2>4. EndsForCause'
    BY <1>9 DEF EndsForCause
  <2> QED
    BY <1>5, <1>7, <2>1, <2>2, <2>3, <2>4 DEF IInv
<1> QED
  BY <1>8, <1>9

LEMMA OnAcceptStep == IInv /\ TypeOK' /\ OnAccept => IInv'
<1> SUFFICES ASSUME IInv, TypeOK', OnAccept PROVE IInv'
  OBVIOUS
<1> USE DEF client
<1>1. FlightOK /\ QueueOK /\ BufferOK /\ TypeOK /\ KindsApart /\ Seen /\ up
  BY DEF IInv, OnAccept, Seen
<1>2. This \in Entries /\ Len(cq) \in Nat \ {0} /\ This = cq[1] /\ DOMAIN cq = 1..Len(cq)
  BY <1>1, SeenQueue
<1>3. PICK c \in Clients : c = This.client
  BY <1>2 DEF Entries
<1>4. This.request = Listener /\ Listener \in Requests /\ c \in Requests /\ c # Listener
  BY <1>1, <1>2, IoringAssumption DEF OnAccept, KindsApart, Entries, Requests
<1>5. event[c] = "none" /\ flight[c] = 0
  <2>1. 1 \in DOMAIN cq
    BY <1>2
  <2>2. event[c] = "none"
    BY <1>1, <1>2, <1>3, <1>4, <2>1 DEF QueueOK
  <2> QED
    BY <1>1, <1>4, <2>2 DEF FlightOK
<1>6. flight[Listener] = 0
  BY <1>1, <1>4, SeenOnce
<1>7. /\ event' = [event EXCEPT ![c] = "recv"]
      /\ flight' = [flight EXCEPT ![c] = @ + 1, ![Listener] = @ + 1]
      /\ UNCHANGED <<up, length, data, peer, said, taken, echo, told, short, idle>>
  BY <1>3 DEF OnAccept, Arm
<1>8. /\ event'[c] = "recv" /\ flight'[c] = 1 /\ flight'[Listener] = 1
      /\ event'[Listener] = event[Listener]
      /\ \A d \in Clients \ {c} : event'[d] = event[d] /\ flight'[d] = flight[d]
  <2>1. event \in [Requests -> {"none", "accept", "recv", "send", "freed"}]
        /\ flight \in [Requests -> Nat]
    BY <1>1 DEF TypeOK
  <2>2. \A d \in Clients : d \in Requests /\ d # Listener
    BY IoringAssumption DEF Requests
  <2> QED
    BY <1>4, <1>5, <1>6, <1>7, <2>1, <2>2
<1>9. Unsent(c, 0)
  BY <1>1, <1>5 DEF BufferOK
<1>10. ~Has(c, "send")'
  BY <1>8 DEF Has
<1> QED
  BY <1>1, <1>4, <1>5, <1>7, <1>8, <1>9, <1>10, ServerStep

\* The completion of a client's operation: what the server finds.
LEMMA ClientSeen ==
    ASSUME IInv, Seen, event[This.request] \in {"recv", "send"}
    PROVE  /\ This.request \in Clients /\ This.client = This.request
           /\ This.res \in -1..Size /\ flight[This.client] = 0
           /\ CompletionOK(This.client, This.res)
<1>1. FlightOK /\ QueueOK /\ TypeOK /\ KindsApart
  BY DEF IInv, Seen
<1>2. This \in Entries /\ Len(cq) \in Nat \ {0} /\ This = cq[1] /\ DOMAIN cq = 1..Len(cq)
  BY <1>1, SeenQueue
<1>3. This.request \in Clients
  BY <1>1, <1>2 DEF Entries, KindsApart, Requests
<1>4. 1 \in DOMAIN cq /\ This.request # Listener
  BY <1>2, <1>3, IoringAssumption
<1>5. This.client = This.request /\ CompletionOK(This.client, This.res)
  BY <1>1, <1>2, <1>4 DEF QueueOK
<1>6. This.request \in Requests /\ Queued(This.request)
  BY <1>2, <1>4 DEF Queued, Entries
<1>7. flight[This.request] = 0
  BY <1>1, <1>6 DEF FlightOK
<1> QED
  BY <1>2, <1>3, <1>5, <1>7 DEF Entries

LEMMA OnRecvStep == IInv /\ TypeOK' /\ OnRecv => IInv'
<1> SUFFICES ASSUME IInv, TypeOK', OnRecv PROVE IInv'
  OBVIOUS
<1> USE DEF client
<1>1. TypeOK /\ KindsApart /\ Seen /\ up /\ event[This.request] = "recv"
  BY DEF IInv, OnRecv, Seen
<1>2. PICK c \in Clients, res \in -1..Size :
          /\ c = This.client /\ This.request = c /\ res = This.res
          /\ flight[c] = 0 /\ CompletionOK(c, res)
  BY <1>1, ClientSeen
<1>3. c \in Requests /\ c # Listener /\ event[c] = "recv"
      /\ \A d \in Clients : d \in Requests /\ d # Listener
  BY <1>1, <1>2, IoringAssumption DEF Requests
<1>4. event \in [Requests -> {"none", "accept", "recv", "send", "freed"}]
      /\ flight \in [Requests -> Nat] /\ length \in [Clients -> 1..Size]
  BY <1>1 DEF TypeOK
<1>5. UNCHANGED <<data, peer, said, taken, echo, told, short, idle>>
  BY DEF OnRecv
<1>6. CASE res > 0
  <2>1. /\ length' = [length EXCEPT ![c] = res]
        /\ event' = [event EXCEPT ![c] = "send"]
        /\ flight' = [flight EXCEPT ![c] = @ + 1] /\ up' = up
    <3>1. ~(res = 0) /\ ~(res < 0)
      BY <1>6
    <3> QED
      BY <1>2, <3>1, Zenon DEF OnRecv, LengthSet
  <2>2. /\ event'[c] = "send" /\ flight'[c] = 1 /\ length'[c] = res
        /\ event'[Listener] = event[Listener] /\ flight'[Listener] = flight[Listener]
        /\ \A d \in Clients \ {c} :
              event'[d] = event[d] /\ flight'[d] = flight[d] /\ length'[d] = length[d]
    BY <1>2, <1>3, <1>4, <2>1 DEF Requests
  <2>3. Unsent(c, res)
    BY <1>2, <1>3, <1>6 DEF CompletionOK
  <2>4. ~Has(c, "recv")'
    BY <2>2 DEF Has
  <2> QED
    BY <1>1, <1>2, <1>3, <1>5, <2>1, <2>2, <2>3, <2>4, ServerStep
<1>7. CASE res = 0
  <2>1. event' = [event EXCEPT ![c] = "freed"] /\ UNCHANGED <<up, length, flight>>
    <3>1. ~(res > 0) /\ ~(res < 0)
      BY <1>7
    <3> QED
      BY <1>2, <3>1, Zenon DEF OnRecv
  <2>2. /\ event'[c] = "freed" /\ event'[Listener] = event[Listener]
        /\ \A d \in Clients \ {c} : event'[d] = event[d]
    BY <1>3, <1>4, <2>1 DEF Requests
  <2>3. ~Has(c, "recv")' /\ ~Has(c, "send")'
    BY <2>2 DEF Has
  <2> QED
    BY <1>1, <1>2, <1>3, <1>5, <2>1, <2>2, <2>3, ServerStep
<1>8. CASE res < 0
  <2>1. up' = FALSE /\ UNCHANGED <<event, length, flight>>
    <3>1. ~(res > 0) /\ ~(res = 0)
      BY <1>8
    <3> QED
      BY <1>2, <3>1, Zenon DEF OnRecv
  <2>2. peer[c] = "reset" /\ c \notin told
    BY <1>2, <1>3, <1>8 DEF CompletionOK
  <2>3. EndsForCause'
    BY <1>3, <1>5, <2>1, <2>2 DEF EndsForCause
  <2>4. KindsApart' /\ EchoInOrder'
    BY <1>5, <2>1 DEF IInv, KindsApart, EchoInOrder, Has
  <2> QED
    BY <2>1, <2>3, <2>4 DEF IInv
<1> QED
  BY <1>2, <1>6, <1>7, <1>8, <1>1, IoringAssumption

LEMMA OnSendStep == IInv /\ TypeOK' /\ OnSend => IInv'
<1> SUFFICES ASSUME IInv, TypeOK', OnSend PROVE IInv'
  OBVIOUS
<1> USE DEF client
<1>1. TypeOK /\ Seen /\ up /\ event[This.request] = "send"
  BY DEF IInv, OnSend, Seen
<1>2. PICK c \in Clients :
          /\ c = This.client /\ This.request = c
          /\ flight[c] = 0 /\ CompletionOK(c, This.res)
  BY <1>1, ClientSeen
<1>3. c \in Requests /\ c # Listener /\ event[c] = "send"
      /\ \A d \in Clients : d \in Requests /\ d # Listener
  BY <1>1, <1>2, IoringAssumption DEF Requests
<1>4. event \in [Requests -> {"none", "accept", "recv", "send", "freed"}]
      /\ flight \in [Requests -> Nat] /\ length \in [Clients -> 1..Size]
  BY <1>1 DEF TypeOK
<1>5. /\ length' = [length EXCEPT ![c] = Size]
      /\ event' = [event EXCEPT ![c] = "recv"]
      /\ flight' = [flight EXCEPT ![c] = @ + 1] /\ up' = TRUE
      /\ UNCHANGED <<data, peer, said, taken, echo, told, short, idle>>
  BY <1>2 DEF OnSend, Survives
<1>6. /\ event'[c] = "recv" /\ flight'[c] = 1
      /\ event'[Listener] = event[Listener] /\ flight'[Listener] = flight[Listener]
      /\ \A d \in Clients \ {c} :
            event'[d] = event[d] /\ flight'[d] = flight[d] /\ length'[d] = length[d]
  BY <1>2, <1>3, <1>4, <1>5 DEF Requests
<1>7. Unsent(c, 0)
  BY <1>2, <1>3 DEF CompletionOK
<1>8. ~Has(c, "send")'
  BY <1>6 DEF Has
<1> QED
  BY <1>1, <1>2, <1>3, <1>5, <1>6, <1>7, <1>8, ServerStep

-----------------------------------------------------------------------------
(* The theorems.                                                           *)

LEMMA NextInvariant == IInv /\ [Next]_vars => IInv'
<1> SUFFICES ASSUME IInv, [Next]_vars PROVE IInv'
  OBVIOUS
<1> USE DEF client
<1>1. TypeOK'
  BY NextTyped DEF IInv
<1>2. CASE Server
  BY <1>1, <1>2, OnAcceptStep, OnRecvStep, OnSendStep DEF Server
<1>3. CASE Timeout
  BY <1>1, <1>3, TimeoutStep
<1>4. ASSUME NEW c \in Clients, Kernel(c) PROVE IInv'
  BY <1>1, <1>4, AcceptedStep, ReceivedStep, SentStep DEF Kernel
<1>5. ASSUME NEW c \in Clients, Connect(c) \/ Say(c) \/ Leave(c) PROVE IInv'
  <2>1. UNCHANGED <<up, event, length, data, flight, cq, taken, echo, told, short, idle>>
    BY <1>5 DEF Connect, Say, Leave
  <2>2. \A d \in Clients : peer[d] = "reset" => peer'[d] = "reset"
    BY <1>5 DEF Connect, Say, Leave, IInv, TypeOK
  <2> QED
    BY <1>1, <2>1, <2>2, ClientStep
<1>6. CASE UNCHANGED vars
  <2>1. \A d \in Clients : peer[d] = "reset" => peer'[d] = "reset"
    BY <1>6 DEF vars
  <2> QED
    BY <1>1, <1>6, <2>1, ClientStep DEF vars
<1> QED
  BY <1>2, <1>3, <1>4, <1>5, <1>6 DEF Next

LEMMA Invariant == Spec => []IInv
BY InitInvariant, NextInvariant, PTL DEF Spec

\* Counting agrees with the invariant: a Request that is queued is queued once.
LEMMA CountOfQueued ==
    ASSUME IInv, up, NEW r \in Requests
    PROVE  InQueue(r) = IF Queued(r) THEN 1 ELSE 0
<1>1. \A j, k \in DOMAIN cq : cq[j].request = cq[k].request => j = k
  BY DEF IInv, QueueOK
<1> DEFINE Places == {k \in DOMAIN cq : cq[k].request = r}
<1>2. CASE Queued(r)
  <2>1. PICK k \in DOMAIN cq : cq[k].request = r
    BY <1>2 DEF Queued
  <2>2. Places = {k}
    BY <1>1, <2>1
  <2> QED
    BY <1>2, <2>2, FS_Singleton DEF InQueue
<1>3. CASE ~Queued(r)
  <2>1. Places = {}
    BY <1>3 DEF Queued
  <2> QED
    BY <1>3, <2>1, FS_EmptySet DEF InQueue
<1> QED
  BY <1>2, <1>3

\* While the server runs each Request has exactly one operation, and a freed
\* one none: a second receive never fills the buffer that is being sent, and
\* accept() is always there.
THEOREM OneOperationCorrect == Spec => []OneOperationEach
<1>1. IInv => OneOperationEach
  <2> SUFFICES ASSUME IInv, up, NEW r \in Requests
               PROVE  flight[r] + InQueue(r) = IF event[r] \in {"none", "freed"} THEN 0 ELSE 1
    BY DEF OneOperationEach
  <2>1. InQueue(r) = IF Queued(r) THEN 1 ELSE 0
    BY CountOfQueued
  <2>2. FlightOK
    BY DEF IInv
  <2>3. Queued(r) => event[r] \notin {"none", "freed"}
    BY DEF IInv, QueueOK, Queued
  <2> QED
    BY <2>1, <2>2, <2>3 DEF FlightOK
<1> QED
  BY <1>1, Invariant, PTL

\* A client's cells come back in their order and each once, and all of them
\* unless a send was short, whatever the order of the completions.
THEOREM EchoCorrect == Spec => []EchoInOrder
<1>1. IInv => EchoInOrder
  BY DEF IInv
<1> QED
  BY <1>1, Invariant, PTL

\* The server ends only for five seconds of silence or for a reset that a
\* recv meets first.
THEOREM EndCorrect == Spec => []EndsForCause
<1>1. IInv => EndsForCause
  BY DEF IInv
<1> QED
  BY <1>1, Invariant, PTL
=============================================================================
