--------------------------- MODULE MtServerProofs ---------------------------
(***************************************************************************)
(* Proofs about MtServer for both editions and for any clients, files,     *)
(* block size and number of workers.                                       *)
(***************************************************************************)
EXTENDS MtServer, SequenceTheorems, TLAPS

\* The tasks in the list are those of accepted clients, and main() asks for
\* the result of one of them.
TasksOK ==
    /\ \A k \in DOMAIN tasks : stage[tasks[k]] # "none"
    /\ main.stage = "result" => main.at <= Len(tasks)

\* Offset of the block that is being sent.
Start(c) == Len(got[c]) - file[c].sent

\* The block at hand holds the cells of the file from its offset on.  In C++
\* it is always a whole buffer and the stream goes on until a read was short;
\* in Python it is what was read.
TransferOK(c) ==
    LET f == file[c] IN
    /\ f.sent < Len(f.block)
    /\ Start(c) >= 0 /\ Start(c) <= wants[c]
    /\ f.read = Min2(Start(c) + BlockSize, wants[c])
    /\ \A k \in 1..(f.read - Start(c)) : f.block[k] = Start(c) + k
    /\ edition = "cpp" =>
           Len(f.block) = BlockSize /\ (f.more <=> Start(c) + BlockSize <= wants[c])
    /\ edition # "cpp" => Len(f.block) = f.read - Start(c) /\ f.more

\* What the client has is the file as far as the file goes.
GotFile(c) == \A k \in 1..Len(got[c]) : k <= wants[c] => got[c][k] = k

\* All of the file was sent, and in C++ what the last buffer held behind it.
Complete(c) ==
    IF edition = "cpp"
    THEN Len(got[c]) - wants[c] \in 1..BlockSize
    ELSE Len(got[c]) = wants[c]

ClientOK(c) ==
    /\ peer[c] \in {"in", "part", "closed"} => wants[c] = Unasked
    /\ peer[c] \in {"asked", "gone"} => wants[c] # Unasked
    /\ stage[c] \in {"none", "queued", "request"} => got[c] = <<>>
    /\ stage[c] = "send" => HasFile(c) /\ TransferOK(c)
    /\ HasFile(c) => GotFile(c)
    /\ Done(c) /\ peer[c] = "asked" /\ HasFile(c) => Complete(c)

\* A good client stays and asks for a file of its own, and its task ends
\* without one only where C++ took a segment for the request.
GoodOK(c) ==
    c \in Good =>
        /\ peer[c] \in {"in", "part", "asked"} /\ wants[c] \in Files[c] \cup {Unasked}
        /\ Done(c) /\ ~HasFile(c) => edition = "cpp" /\ c \in cut /\ got[c] = <<>>

\* A task that failed is one whose recv() failed or whose name was refused, and
\* what main() leaves its loop for is such a task.
FailedOK ==
    /\ \A c \in failed :
        edition = "cpp" /\ c \notin Good /\ (RecvFails(c) \/ NameFails(c)) /\ Done(c)
    /\ main.stage \in {"unwind", "exit"} => failed # {}

\* The inductive invariant.
IInv ==
    /\ TypeOK
    /\ TasksOK
    /\ \A c \in Clients : ClientOK(c) /\ GoodOK(c)
    /\ FailedOK

-----------------------------------------------------------------------------
(* Types and numbers.                                                      *)

LEMMA Numbers ==
    /\ BlockSize \in Nat \ {0}
    /\ edition \in Editions => edition \in {"cpp", "python"}
BY MtServerAssumption

\* What the model records of a client.
LEMMA ClientTypes ==
    ASSUME TypeOK, NEW c \in Clients
    PROVE  /\ wants[c] \in Int
           /\ file[c] \in [read : Nat, block : Seq(Nat), sent : Nat, more : BOOLEAN]
           /\ file[c].read \in Nat /\ file[c].block \in Seq(Nat) /\ file[c].sent \in Nat
           /\ file[c].more \in BOOLEAN
           /\ Len(file[c].block) \in Nat /\ Len(file[c].block) <= BlockSize
           /\ file[c].sent <= Len(file[c].block)
           /\ got[c] \in Seq(Nat) /\ Len(got[c]) \in Nat
<1>1. /\ wants[c] \in Int /\ got[c] \in Seq(Nat)
      /\ file[c] \in [read : Nat, block : Seq(Nat), sent : Nat, more : BOOLEAN]
      /\ Len(file[c].block) <= BlockSize /\ file[c].sent <= Len(file[c].block)
  BY DEF TypeOK
<1>2. file[c].block \in Seq(Nat)
  BY <1>1
<1> QED
  BY <1>1, <1>2, LenProperties

\* A file that is not open holds a whole buffer.
LEMMA ClosedType ==
    /\ Closed \in [read : Nat, block : Seq(Nat), sent : Nat, more : BOOLEAN]
    /\ Closed.read = 0 /\ Closed.sent = 0 /\ Closed.more = TRUE
    /\ Len(Closed.block) = BlockSize
<1>1. [k \in 1..BlockSize |-> 0] \in Seq(Nat) /\ Len([k \in 1..BlockSize |-> 0]) = BlockSize
  BY Numbers
<1> QED
  BY <1>1 DEF Closed

-----------------------------------------------------------------------------
(* The list of tasks.                                                      *)

\* What erasing one position leaves.
LEMMA RemoveAtProperties ==
    ASSUME NEW S, NEW s \in Seq(S), NEW i \in 1..Len(s)
    PROVE  /\ RemoveAt(s, i) \in Seq(S)
           /\ Len(RemoveAt(s, i)) = Len(s) - 1
           /\ \A k \in 1..(Len(s) - 1) : RemoveAt(s, i)[k] = IF k < i THEN s[k] ELSE s[k + 1]
<1> DEFINE front == SubSeq(s, 1, i - 1)
           back == SubSeq(s, i + 1, Len(s))
<1>1. Len(s) \in Nat /\ \A k \in 1..Len(s) : s[k] \in S
  BY LenProperties, ElementOfSeq
<1>2. /\ front \in Seq(S) /\ Len(front) = i - 1
      /\ \A k \in 1..(i - 1) : front[k] = s[k]
  <2>1. /\ 1 \in Int /\ i - 1 \in Int /\ \A k \in 1..(i - 1) : s[k] \in S
    BY <1>1
  <2>2. /\ front \in Seq(S) /\ Len(front) = IF 1 <= i - 1 THEN i - 1 - 1 + 1 ELSE 0
        /\ \A k \in 1..(i - 1 - 1 + 1) : front[k] = s[1 + k - 1]
    BY <2>1, SubSeqProperties
  <2> QED
    BY <1>1, <2>2
<1>3. /\ back \in Seq(S) /\ Len(back) = Len(s) - i
      /\ \A k \in 1..(Len(s) - i) : back[k] = s[i + k]
  <2>1. /\ i + 1 \in Int /\ Len(s) \in Int /\ \A k \in (i + 1)..Len(s) : s[k] \in S
    BY <1>1
  <2>2. /\ back \in Seq(S)
        /\ Len(back) = IF i + 1 <= Len(s) THEN Len(s) - (i + 1) + 1 ELSE 0
        /\ \A k \in 1..(Len(s) - (i + 1) + 1) : back[k] = s[(i + 1) + k - 1]
    BY <2>1, SubSeqProperties
  <2> QED
    BY <1>1, <2>2
<1> HIDE DEF front, back
<1>4. /\ front \o back \in Seq(S) /\ Len(front \o back) = Len(front) + Len(back)
      /\ \A k \in 1..(Len(front) + Len(back)) :
            (front \o back)[k] = IF k <= Len(front) THEN front[k] ELSE back[k - Len(front)]
  BY <1>2, <1>3, ConcatProperties, Zenon
<1>5. Len(front) + Len(back) = Len(s) - 1
  BY <1>1, <1>2, <1>3
<1>6. ASSUME NEW k \in 1..(Len(s) - 1)
      PROVE  (front \o back)[k] = IF k < i THEN s[k] ELSE s[k + 1]
  <2>1. CASE k < i
    BY <1>1, <1>2, <1>4, <1>5, <2>1
  <2>2. CASE ~(k < i)
    <3>1. k - (i - 1) \in 1..(Len(s) - i) /\ i + (k - (i - 1)) = k + 1 /\ ~(k <= i - 1)
      BY <1>1, <2>2
    <3>2. (front \o back)[k] = back[k - (i - 1)]
      BY <1>2, <1>4, <1>5, <3>1
    <3>3. back[k - (i - 1)] = s[i + (k - (i - 1))]
      BY <1>3, <3>1
    <3> QED
      BY <2>2, <3>1, <3>2, <3>3
  <2> QED
    BY <2>1, <2>2
<1>7. RemoveAt(s, i) = front \o back
  BY DEF RemoveAt, front, back
<1> QED
  BY <1>4, <1>5, <1>6, <1>7

-----------------------------------------------------------------------------
(* Reading the file.                                                       *)

\* What a read asks for brings the offset to the end of the block or of the file.
LEMMA AmountSum ==
    ASSUME NEW size \in Nat, NEW read \in Nat, NEW whole \in Nat, read <= whole
    PROVE  /\ read + Min2(size, whole - read) = Min2(read + size, whole)
           /\ (Min2(size, whole - read) = size <=> read + size <= whole)
BY DEF Min2

\* The next block of the file, whatever the buffer held before.
LEMMA NextBlockProperties ==
    ASSUME TypeOK, NEW c \in Clients, HasFile(c),
           NEW f \in [read : Nat, block : Seq(Nat), sent : Nat, more : BOOLEAN],
           f.read <= wants[c], edition = "cpp" => Len(f.block) = BlockSize
    PROVE  LET n == Amount(c, f)
               next == NextBlock(c, f)
           IN /\ n \in 0..BlockSize /\ n = Min2(BlockSize, wants[c] - f.read)
              /\ next \in [read : Nat, block : Seq(Nat), sent : Nat, more : BOOLEAN]
              /\ next.read = f.read + n /\ next.sent = 0
              /\ (next.more <=> edition = "python" \/ n = BlockSize)
              /\ edition = "cpp" => Len(next.block) = BlockSize
              /\ edition = "python" => Len(next.block) = n
              /\ \A k \in 1..n : next.block[k] = f.read + k
<1> DEFINE n == Amount(c, f)
           next == NextBlock(c, f)
           data == [k \in 1..n |-> f.read + k]
           rest == SubSeq(f.block, n + 1, BlockSize)
<1>1. wants[c] \in Int /\ wants[c] >= 0 /\ f.read \in Nat /\ f.block \in Seq(Nat)
  BY ClientTypes DEF HasFile
<1>2. n \in 0..BlockSize /\ n = Min2(BlockSize, wants[c] - f.read)
  BY <1>1, Numbers DEF Amount, Min2
<1>3. /\ next.read = f.read + n /\ next.sent = 0
      /\ next.more = (edition = "python" \/ n = BlockSize)
      /\ (next.more <=> edition = "python" \/ n = BlockSize)
      /\ next.block = IF edition = "cpp" THEN data \o rest ELSE data
      /\ next = [read |-> f.read + n, sent |-> 0, block |-> next.block, more |-> next.more]
  BY DEF NextBlock
<1> HIDE DEF n, next
<1>4. data \in Seq(Nat) /\ Len(data) = n /\ \A k \in 1..n : data[k] = f.read + k
  <2>1. n \in Nat
    BY <1>2, Numbers
  <2>2. \A k \in 1..n : f.read + k \in Nat
    BY <1>1, <2>1
  <2>3. data \in [1..n -> Nat]
    BY <2>2
  <2>4. data \in Seq(Nat)
    BY <2>1, <2>3
  <2>5. Len(data) = n
    BY <2>1
  <2> QED
    BY <2>4, <2>5
<1> HIDE DEF data
<1>5. ASSUME edition = "cpp"
      PROVE  /\ data \o rest \in Seq(Nat) /\ Len(data \o rest) = BlockSize
             /\ \A k \in 1..n : (data \o rest)[k] = f.read + k
  <2>1. /\ n + 1 \in Int /\ BlockSize \in Int /\ Len(f.block) = BlockSize
        /\ \A k \in (n + 1)..BlockSize : f.block[k] \in Nat
    BY <1>1, <1>2, <1>5, Numbers, ElementOfSeq
  <2>2. /\ rest \in Seq(Nat)
        /\ Len(rest) = IF n + 1 <= BlockSize THEN BlockSize - (n + 1) + 1 ELSE 0
    BY <2>1, SubSeqProperties
  <2>3. Len(rest) = BlockSize - n
    BY <1>2, <2>1, <2>2, Numbers
  <2> HIDE DEF rest
  <2>4. /\ data \o rest \in Seq(Nat) /\ Len(data \o rest) = Len(data) + Len(rest)
        /\ \A k \in 1..(Len(data) + Len(rest)) :
              (data \o rest)[k] = IF k <= Len(data) THEN data[k] ELSE rest[k - Len(data)]
    BY <1>4, <2>2, ConcatProperties, Zenon
  <2> QED
    BY <1>2, <1>4, <2>3, <2>4, Numbers
<1>6. next.block \in Seq(Nat)
  BY <1>3, <1>4, <1>5
<1>7. next \in [read : Nat, block : Seq(Nat), sent : Nat, more : BOOLEAN]
  <2> DEFINE more == (edition = "python" \/ n = BlockSize)
  <2>1. f.read + n \in Nat /\ more \in BOOLEAN
    BY <1>1, <1>2, Numbers
  <2>2. PICK block \in Seq(Nat) : block = next.block
    BY <1>6
  <2> HIDE DEF more
  <2>3. next = [read |-> f.read + n, sent |-> 0, block |-> block, more |-> more]
    BY <1>3, <2>2 DEF more
  <2> QED
    BY <2>1, <2>3
<1> QED
  BY <1>2, <1>3, <1>4, <1>5, <1>7 DEF n, next

\* Between two blocks the task of a client goes on with the next cells of its
\* file, or all of the file was sent.
LEMMA GoOnStep ==
    ASSUME TypeOK, NEW c \in Clients, HasFile(c),
           NEW f \in [read : Nat, block : Seq(Nat), sent : Nat, more : BOOLEAN],
           UNCHANGED <<edition, wants>>, got' \in [Clients -> Seq(Nat)],
           f.read <= wants[c], edition = "cpp" => Len(f.block) = BlockSize,
           f.more => Len(got'[c]) = f.read, ~f.more => edition = "cpp" /\ Complete(c)',
           GoOn(c, f)
    PROVE  /\ stage' \in [Clients -> {"none", "queued", "request", "send", "done"}]
           /\ file' \in [Clients -> [read : Nat, block : Seq(Nat), sent : Nat, more : BOOLEAN]]
           /\ \A d \in Clients \ {c} : stage'[d] = stage[d] /\ file'[d] = file[d]
           /\ Len(file'[c].block) <= BlockSize /\ file'[c].sent <= Len(file'[c].block)
           /\ file'[c].read > 0 => file'[c].read <= wants[c]
           /\ \/ stage'[c] = "send" /\ TransferOK(c)'
              \/ stage'[c] = "done" /\ Complete(c)'
<1> DEFINE next == NextBlock(c, f)
           n == Amount(c, f)
<1>1. /\ n \in 0..BlockSize /\ n = Min2(BlockSize, wants[c] - f.read)
      /\ next \in [read : Nat, block : Seq(Nat), sent : Nat, more : BOOLEAN]
      /\ next.read = f.read + n /\ next.sent = 0
      /\ (next.more <=> edition = "python" \/ n = BlockSize)
      /\ edition = "cpp" => Len(next.block) = BlockSize
      /\ edition = "python" => Len(next.block) = n
      /\ \A k \in 1..n : next.block[k] = f.read + k
  BY NextBlockProperties
<1>2. /\ wants[c] \in Int /\ wants[c] >= 0 /\ f.read \in Nat /\ edition \in {"cpp", "python"}
      /\ BlockSize \in Nat /\ BlockSize > 0
      /\ stage \in [Clients -> {"none", "queued", "request", "send", "done"}]
      /\ file \in [Clients -> [read : Nat, block : Seq(Nat), sent : Nat, more : BOOLEAN]]
  BY ClientTypes, Numbers DEF HasFile, TypeOK
<1>3. next.block \in Seq(Nat) /\ (next.block # <<>> <=> Len(next.block) # 0)
  BY <1>1, EmptySeq
<1>a. CASE f.more /\ next.block # <<>>
  <2>1. stage' = [stage EXCEPT ![c] = "send"] /\ file' = [file EXCEPT ![c] = next]
    BY <1>a DEF GoOn, Goes
  <2> HIDE DEF next, n
  <2>2. /\ stage'[c] = "send" /\ file'[c] = next
        /\ stage' \in [Clients -> {"none", "queued", "request", "send", "done"}]
        /\ file' \in [Clients -> [read : Nat, block : Seq(Nat), sent : Nat, more : BOOLEAN]]
        /\ \A d \in Clients \ {c} : stage'[d] = stage[d] /\ file'[d] = file[d]
    BY <1>1, <1>2, <2>1
  <2>3. Len(next.block) \in 1..BlockSize
    <3>1. Len(next.block) # 0 /\ BlockSize \in Nat /\ n \in 0..BlockSize
      BY <1>1, <1>2, <1>3, <1>a
    <3>2. Len(next.block) = BlockSize \/ Len(next.block) = n
      BY <1>1, <1>2
    <3> QED
      BY <3>1, <3>2
  <2>4. next.read <= wants[c]
    <3>1. /\ BlockSize \in Nat /\ wants[c] \in Int /\ f.read \in Nat /\ f.read <= wants[c]
          /\ n = Min2(BlockSize, wants[c] - f.read) /\ next.read = f.read + n
      BY <1>1, <1>2
    <3>2. n \in Int /\ n <= wants[c] - f.read
      BY <3>1 DEF Min2
    <3> QED
      BY <3>1, <3>2
  <2>5. Start(c)' = f.read
    <3>1. Len(got'[c]) = f.read
      BY <1>a
    <3> QED
      BY <1>1, <1>2, <2>2, <3>1 DEF Start
  <2>6. TransferOK(c)'
    <3>1. Len(next.block) > 0 /\ f.read >= 0 /\ f.read <= wants'[c]
      BY <1>2, <2>3
    <3>2. wants[c] \in Nat /\ wants'[c] = wants[c] /\ next.read = f.read + n
      BY <1>1, <1>2
    <3>3. /\ f.read + n = Min2(f.read + BlockSize, wants[c])
          /\ (n = BlockSize <=> f.read + BlockSize <= wants[c])
      <4>1. f.read \in Nat /\ BlockSize \in Nat /\ wants[c] \in Nat /\ f.read <= wants[c]
        BY <1>2, <3>2
      <4>2. n = Min2(BlockSize, wants[c] - f.read)
        BY <1>1
      <4>3. /\ f.read + Min2(BlockSize, wants[c] - f.read) = Min2(f.read + BlockSize, wants[c])
            /\ (Min2(BlockSize, wants[c] - f.read) = BlockSize <=> f.read + BlockSize <= wants[c])
        BY <4>1, AmountSum
      <4> QED
        BY <4>2, <4>3
    <3>4. next.read = Min2(f.read + BlockSize, wants'[c])
      BY <3>2, <3>3
    <3>5. next.read - f.read = n
      BY <1>1, <1>2, <3>2
    <3>6. edition = "cpp" => (next.more <=> f.read + BlockSize <= wants'[c])
      BY <1>1, <3>2, <3>3
    <3>7. /\ edition' = edition /\ next.sent = 0 /\ (edition # "cpp" => Len(next.block) = n /\ next.more)
          /\ (edition = "cpp" => Len(next.block) = BlockSize) /\ \A k \in 1..n : next.block[k] = f.read + k
      BY <1>1, <1>2
    <3> QED
      BY <2>2, <2>5, <3>1, <3>4, <3>5, <3>6, <3>7 DEF TransferOK
  <2>7. /\ next.sent = 0 /\ 0 <= Len(next.block)
        /\ Len(file'[c].block) <= BlockSize /\ file'[c].sent <= Len(file'[c].block)
        /\ file'[c].read <= wants[c]
    BY <1>1, <2>2, <2>3, <2>4
  <2> QED
    BY <2>2, <2>6, <2>7
<1>b. CASE ~(f.more /\ next.block # <<>>)
  <2>1. stage' = [stage EXCEPT ![c] = "done"] /\ file' = [file EXCEPT ![c] = Closed]
    BY <1>b DEF GoOn, Goes
  <2>2. Complete(c)'
    <3>1. CASE ~f.more
      BY <3>1
    <3>2. CASE f.more
      <4>1. Len(next.block) = 0
        BY <1>3, <1>b, <3>2
      <4>2. edition = "python" /\ n = 0
        BY <1>1, <1>2, <4>1
      <4>3. f.read = wants[c]
        BY <1>1, <1>2, <4>2 DEF Min2
      <4> QED
        BY <3>2, <4>2, <4>3 DEF Complete
    <3> QED
      BY <3>1, <3>2
  <2> HIDE DEF next, n
  <2>3. /\ stage'[c] = "done" /\ file'[c] = Closed
        /\ stage' \in [Clients -> {"none", "queued", "request", "send", "done"}]
        /\ file' \in [Clients -> [read : Nat, block : Seq(Nat), sent : Nat, more : BOOLEAN]]
        /\ \A d \in Clients \ {c} : stage'[d] = stage[d] /\ file'[d] = file[d]
    BY <1>2, <2>1, ClosedType
  <2> QED
    BY <1>2, <2>2, <2>3, ClosedType
<1> QED
  BY <1>a, <1>b

-----------------------------------------------------------------------------
(* The task of a client.                                                   *)

\* A step of one client's task that keeps what is said of this client.
LEMMA TaskStep ==
    ASSUME IInv, NEW c \in Clients, stage[c] \in {"queued", "request", "send"},
           UNCHANGED <<edition, main, tasks, client>>,
           stage' \in [Clients -> {"none", "queued", "request", "send", "done"}],
           file' \in [Clients -> [read : Nat, block : Seq(Nat), sent : Nat, more : BOOLEAN]],
           got' \in [Clients -> Seq(Nat)],
           \A d \in Clients \ {c} : stage'[d] = stage[d] /\ file'[d] = file[d] /\ got'[d] = got[d],
           Len(file'[c].block) <= BlockSize, file'[c].sent <= Len(file'[c].block),
           file'[c].read > 0 => file'[c].read <= wants[c],
           stage'[c] # "none", ClientOK(c)', GoodOK(c)',
           \/ failed' = failed
           \/ /\ failed' = failed \cup {c} /\ stage'[c] = "done"
              /\ edition = "cpp" /\ c \notin Good /\ (RecvFails(c) \/ NameFails(c))
    PROVE  IInv'
<1> USE DEF client
<1>1. TypeOK /\ TasksOK /\ FailedOK
  BY DEF IInv
<1>2. TypeOK'
  <2>1. \A d \in Clients :
            /\ wants'[d] \in Files[d] \cup {Missing, Unasked, Barred}
            /\ Len(file'[d].block) <= BlockSize /\ file'[d].sent <= Len(file'[d].block)
            /\ file'[d].read > 0 => file'[d].read <= wants'[d]
    BY <1>1 DEF TypeOK
  <2>2. failed' \subseteq Clients
    BY <1>1 DEF TypeOK
  <2> QED
    BY <1>1, <2>1, <2>2 DEF TypeOK
<1>3. TasksOK'
  <2>1. \A k \in DOMAIN tasks : tasks[k] \in Clients
    BY <1>1, LenProperties, ElementOfSeq DEF TypeOK
  <2> QED
    BY <1>1, <2>1 DEF TasksOK
<1>4. \A d \in Clients : ClientOK(d)'
  <2>1. ASSUME NEW d \in Clients, d # c PROVE ClientOK(d)'
    <3>1. /\ stage'[d] = stage[d] /\ file'[d] = file[d] /\ got'[d] = got[d]
          /\ wants' = wants /\ peer' = peer /\ edition' = edition
      BY <2>1
    <3>2. TransferOK(d) => TransferOK(d)'
      BY <3>1 DEF TransferOK, Start
    <3>3. /\ GotFile(d) => GotFile(d)'
          /\ Complete(d) => Complete(d)'
      BY <3>1 DEF GotFile, Complete
    <3> QED
      BY <3>1, <3>2, <3>3 DEF IInv, ClientOK, HasFile, Done
  <2> QED
    BY <2>1
<1>5. \A d \in Clients : GoodOK(d)'
  BY DEF IInv, GoodOK, HasFile, Done
<1>6. FailedOK'
  BY <1>1 DEF FailedOK, RecvFails, NameFails, IsPart, Done, TypeOK
<1> QED
  BY <1>2, <1>3, <1>4, <1>5, <1>6 DEF IInv

LEMMA StartTaskStep == ASSUME IInv, NEW c \in Clients, StartTask(c) PROVE IInv'
<1>1. /\ stage[c] = "queued" /\ stage' = [stage EXCEPT ![c] = "request"]
      /\ UNCHANGED <<edition, main, tasks, failed, client, file, got>>
  BY DEF StartTask, Goes
<1>2. TypeOK /\ ClientOK(c)
      /\ stage \in [Clients -> {"none", "queued", "request", "send", "done"}]
  BY DEF IInv, TypeOK
<1>3. /\ stage'[c] = "request" /\ \A d \in Clients \ {c} : stage'[d] = stage[d]
      /\ stage' \in [Clients -> {"none", "queued", "request", "send", "done"}]
  BY <1>1, <1>2
<1>4. ClientOK(c)'
  BY <1>1, <1>2, <1>3 DEF ClientOK, HasFile, GotFile, Done, client
<1>5. GoodOK(c)'
  BY <1>1, <1>3 DEF IInv, GoodOK, Done, client
<1> QED
  BY <1>1, <1>2, <1>3, <1>4, <1>5, TaskStep DEF TypeOK

LEMMA GetRequestStep == ASSUME IInv, NEW c \in Clients, GetRequest(c) PROVE IInv'
<1>1. /\ stage[c] = "request"
      /\ UNCHANGED <<edition, main, tasks, client, got>>
      /\ \/ HasFile(c) /\ GoOn(c, Closed) /\ failed' = failed
         \/ /\ NamesNoFile(c) \/ NameFails(c) \/ RecvFails(c)
            /\ Goes(c, "done") /\ UNCHANGED file
            /\ \/ NamesNoFile(c) /\ failed' = failed
               \/ /\ NameFails(c) \/ RecvFails(c)
                  /\ failed' = IF edition = "cpp" THEN failed \cup {c} ELSE failed
  BY DEF GetRequest
<1>2. TypeOK /\ ClientOK(c) /\ GoodOK(c) /\ got[c] = <<>> /\ Len(got[c]) = 0
      /\ stage \in [Clients -> {"none", "queued", "request", "send", "done"}]
  BY <1>1 DEF IInv, TypeOK, ClientOK
<1>3. got' \in [Clients -> Seq(Nat)] /\ wants' = wants /\ edition' = edition
      /\ file \in [Clients -> [read : Nat, block : Seq(Nat), sent : Nat, more : BOOLEAN]]
      /\ peer' = peer
  BY <1>1, <1>2 DEF TypeOK, client
<1>4. CASE HasFile(c) /\ GoOn(c, Closed) /\ failed' = failed
  <2>1. wants[c] >= 0 /\ wants[c] # Unasked /\ wants[c] # Missing
    BY <1>4 DEF HasFile, Unasked, Missing
  <2>2. /\ stage' \in [Clients -> {"none", "queued", "request", "send", "done"}]
        /\ file' \in [Clients -> [read : Nat, block : Seq(Nat), sent : Nat, more : BOOLEAN]]
        /\ \A d \in Clients \ {c} : stage'[d] = stage[d] /\ file'[d] = file[d]
        /\ Len(file'[c].block) <= BlockSize /\ file'[c].sent <= Len(file'[c].block)
        /\ file'[c].read > 0 => file'[c].read <= wants[c]
        /\ \/ stage'[c] = "send" /\ TransferOK(c)'
           \/ stage'[c] = "done" /\ Complete(c)'
    <3>1. Closed.more /\ Len(got'[c]) = Closed.read /\ Closed.read <= wants[c]
      BY <1>1, <1>2, <2>1, ClosedType
    <3> QED
      BY <1>2, <1>3, <1>4, <3>1, ClosedType, GoOnStep
  <2>3. GoodOK(c)'
    BY <1>1, <1>2, <1>3, <1>4 DEF GoodOK, HasFile, client
  <2>4. ClientOK(c)'
    <3>1. GotFile(c)' /\ HasFile(c)'
      BY <1>1, <1>2, <1>3, <1>4 DEF GotFile, HasFile
    <3>2. stage'[c] \in {"send", "done"}
      BY <2>2
    <3> QED
      BY <1>2, <1>3, <2>2, <3>1, <3>2 DEF ClientOK, Done
  <2> QED
    BY <1>1, <1>3, <1>4, <2>2, <2>3, <2>4, TaskStep
<1>5. CASE /\ NamesNoFile(c) \/ NameFails(c) \/ RecvFails(c)
           /\ Goes(c, "done") /\ UNCHANGED file
           /\ \/ NamesNoFile(c) /\ failed' = failed
              \/ /\ NameFails(c) \/ RecvFails(c)
                 /\ failed' = IF edition = "cpp" THEN failed \cup {c} ELSE failed
  <2>1. /\ stage'[c] = "done" /\ \A d \in Clients \ {c} : stage'[d] = stage[d]
        /\ stage' \in [Clients -> {"none", "queued", "request", "send", "done"}]
    BY <1>2, <1>5 DEF Goes
  <2>2. ~HasFile(c)
    BY <1>2, <1>5 DEF NamesNoFile, NameFails, IsPart, RecvFails, HasFile, ClientOK,
       Missing, Unasked, Barred
  <2>3. ClientOK(c)'
    BY <1>2, <1>3, <2>1, <2>2 DEF ClientOK, HasFile
  <2>4. c \in Good => wants[c] = Unasked /\ ~RecvFails(c) /\ ~NameFails(c) /\ IsPart(c)
    <3>1. c \in Good => wants[c] = Unasked /\ peer[c] \in {"in", "part", "asked"}
      BY <1>2, <2>2, MtServerAssumption DEF GoodOK, HasFile
    <3> QED
      BY <1>5, <3>1 DEF NamesNoFile, NameFails, RecvFails, Missing, Unasked, Barred
  <2>5. GoodOK(c)'
    BY <1>1, <1>2, <1>3, <2>1, <2>2, <2>4 DEF GoodOK, IsPart, HasFile, client
  <2>6. \/ failed' = failed
        \/ /\ failed' = failed \cup {c} /\ edition = "cpp"
           /\ c \notin Good /\ (RecvFails(c) \/ NameFails(c))
    BY <1>5, <2>4
  <2> QED
    BY <1>1, <1>2, <1>3, <1>5, <2>1, <2>3, <2>5, <2>6, TaskStep DEF TypeOK
<1> QED
  BY <1>1, <1>4, <1>5

LEMMA SendFailsStep == ASSUME IInv, NEW c \in Clients, SendFails(c) PROVE IInv'
<1>1. /\ stage[c] = "send" /\ peer[c] \in {"gone", "reset"}
      /\ stage' = [stage EXCEPT ![c] = "done"] /\ file' = [file EXCEPT ![c] = Closed]
      /\ failed' = failed
      /\ UNCHANGED <<edition, main, tasks, client, got>>
  BY DEF SendFails, Goes, Fails
<1>2. /\ TypeOK /\ ClientOK(c)
      /\ stage \in [Clients -> {"none", "queued", "request", "send", "done"}]
      /\ file \in [Clients -> [read : Nat, block : Seq(Nat), sent : Nat, more : BOOLEAN]]
  BY DEF IInv, TypeOK
<1>3. /\ stage'[c] = "done" /\ file'[c] = Closed
      /\ \A d \in Clients \ {c} : stage'[d] = stage[d] /\ file'[d] = file[d]
      /\ stage' \in [Clients -> {"none", "queued", "request", "send", "done"}]
      /\ file' \in [Clients -> [read : Nat, block : Seq(Nat), sent : Nat, more : BOOLEAN]]
  BY <1>1, <1>2, ClosedType
<1>4. ClientOK(c)'
  BY <1>1, <1>2, <1>3 DEF ClientOK, HasFile, GotFile, Done, client
<1>5. /\ Len(file'[c].block) <= BlockSize /\ file'[c].sent <= Len(file'[c].block)
      /\ ~(file'[c].read > 0)
  BY <1>3, ClosedType, Numbers
<1>6. got' \in [Clients -> Seq(Nat)]
  BY <1>1, <1>2 DEF TypeOK
<1>7. GoodOK(c)'
  BY <1>1, <1>2 DEF IInv, GoodOK, ClientOK, HasFile, client
<1> QED
  BY <1>1, <1>3, <1>4, <1>5, <1>6, <1>7, TaskStep

\* What is left of a block, and what the client has when n cells of it are sent.
Unsent(block, sent) == SubSeq(block, sent + 1, Len(block))
With(had, block, sent, n) == had \o SubSeq(Unsent(block, sent), 1, n)

\* What send() takes is the next piece of the block.
LEMMA SentPiece ==
    ASSUME NEW had \in Seq(Nat), NEW block \in Seq(Nat), NEW sent \in Nat, sent <= Len(block),
           NEW n \in 1..Len(Unsent(block, sent))
    PROVE  /\ n \in Nat /\ n > 0 /\ sent + n <= Len(block)
           /\ With(had, block, sent, n) \in Seq(Nat)
           /\ Len(With(had, block, sent, n)) = Len(had) + n
           /\ \A k \in 1..Len(had) : With(had, block, sent, n)[k] = had[k]
           /\ \A k \in 1..n : With(had, block, sent, n)[Len(had) + k] = block[sent + k]
<1> DEFINE rest == Unsent(block, sent)
           piece == SubSeq(rest, 1, n)
           has == With(had, block, sent, n)
<1>1. Len(block) \in Nat /\ Len(had) \in Nat
  BY LenProperties
<1>2. /\ rest \in Seq(Nat) /\ Len(rest) = Len(block) - sent
      /\ \A k \in 1..(Len(block) - sent) : rest[k] = block[sent + k]
  <2>1. /\ sent + 1 \in Int /\ Len(block) \in Int
        /\ \A k \in (sent + 1)..Len(block) : block[k] \in Nat
    BY <1>1, ElementOfSeq
  <2>2. PICK from \in Int, to \in Int : from = sent + 1 /\ to = Len(block)
    BY <2>1
  <2>3. /\ SubSeq(block, from, to) \in Seq(Nat)
        /\ Len(SubSeq(block, from, to)) = IF from <= to THEN to - from + 1 ELSE 0
        /\ \A k \in 1..(to - from + 1) : SubSeq(block, from, to)[k] = block[from + k - 1]
    BY <2>1, <2>2, SubSeqProperties
  <2>4. rest = SubSeq(block, from, to)
    BY <2>2 DEF Unsent
  <2> HIDE DEF rest
  <2>5. from <= to + 1 /\ to - from + 1 = Len(block) - sent
    BY <1>1, <2>2
  <2>6. Len(rest) = Len(block) - sent
    BY <2>3, <2>4, <2>5
  <2>7. ASSUME NEW k \in 1..(Len(block) - sent)
        PROVE  rest[k] = block[sent + k]
    <3>1. k \in 1..(to - from + 1) /\ from + k - 1 = sent + k
      BY <2>2, <2>5
    <3> QED
      BY <2>3, <2>4, <3>1
  <2> QED
    BY <2>3, <2>4, <2>6, <2>7
<1> HIDE DEF rest
<1>c. n \in 1..Len(rest)
  BY DEF rest
<1>a. n \in Nat /\ n > 0
  BY <1>1, <1>2, <1>c
<1>3. /\ piece \in Seq(Nat) /\ Len(piece) = n
      /\ \A k \in 1..n : piece[k] = rest[k]
  <2>1. 1 \in Int /\ n \in Int /\ \A k \in 1..n : rest[k] \in Nat
    <3>1. \A k \in 1..Len(rest) : rest[k] \in Nat
      BY <1>2, ElementOfSeq
    <3>2. \A k \in 1..n : k \in 1..Len(rest)
      BY <1>1, <1>2, <1>a, <1>c
    <3> QED
      BY <1>a, <3>1, <3>2
  <2>2. /\ piece \in Seq(Nat) /\ Len(piece) = IF 1 <= n THEN n - 1 + 1 ELSE 0
        /\ \A k \in 1..(n - 1 + 1) : piece[k] = rest[1 + k - 1]
    BY <2>1, SubSeqProperties
  <2> QED
    BY <1>a, <2>2
<1> HIDE DEF piece
<1>b. /\ had \o piece \in Seq(Nat) /\ Len(had \o piece) = Len(had) + Len(piece)
      /\ \A k \in 1..(Len(had) + Len(piece)) :
            (had \o piece)[k] = IF k <= Len(had) THEN had[k] ELSE piece[k - Len(had)]
  BY <1>3, ConcatProperties, Zenon
<1>4. /\ has \in Seq(Nat) /\ Len(has) = Len(had) + Len(piece)
      /\ \A k \in 1..(Len(had) + Len(piece)) :
            has[k] = IF k <= Len(had) THEN had[k] ELSE piece[k - Len(had)]
  BY <1>b DEF piece, rest, With
<1> HIDE DEF has
<1>5. \A k \in 1..n : has[Len(had) + k] = block[sent + k]
  <2> SUFFICES ASSUME NEW k \in 1..n PROVE has[Len(had) + k] = block[sent + k]
    OBVIOUS
  <2>1. has[Len(had) + k] = piece[k]
    <3>1. /\ Len(had) + k \in 1..(Len(had) + Len(piece))
          /\ ~(Len(had) + k <= Len(had)) /\ (Len(had) + k) - Len(had) = k
      BY <1>1, <1>3, <1>a
    <3> QED
      BY <1>4, <3>1
  <2>2. k \in 1..(Len(block) - sent)
    BY <1>1, <1>2, <1>c
  <2> QED
    BY <1>2, <1>3, <2>1, <2>2
<1>6. \A k \in 1..Len(had) : has[k] = had[k]
  <2> SUFFICES ASSUME NEW k \in 1..Len(had) PROVE has[k] = had[k]
    OBVIOUS
  <2>1. k \in 1..(Len(had) + Len(piece)) /\ k <= Len(had)
    BY <1>1, <1>3, <1>a
  <2> QED
    BY <1>4, <2>1
<1>7. sent + n <= Len(block)
  BY <1>1, <1>2, <1>c
<1> QED
  BY <1>3, <1>4, <1>5, <1>6, <1>7, <1>a DEF has

LEMMA SendStep == ASSUME IInv, NEW c \in Clients, Send(c) PROVE IInv'
<1>1. /\ stage[c] = "send" /\ peer[c] \in {"asked", "gone"}
      /\ UNCHANGED <<edition, main, tasks, failed, client>>
      /\ edition' = edition /\ wants' = wants /\ peer' = peer
  BY DEF Send, client
<1>2. /\ TypeOK /\ ClientOK(c) /\ HasFile(c) /\ TransferOK(c) /\ GotFile(c)
      /\ stage \in [Clients -> {"none", "queued", "request", "send", "done"}]
      /\ file \in [Clients -> [read : Nat, block : Seq(Nat), sent : Nat, more : BOOLEAN]]
      /\ got \in [Clients -> Seq(Nat)]
      /\ BlockSize \in Nat /\ BlockSize > 0 /\ edition \in {"cpp", "python"}
  <2>1. TypeOK /\ ClientOK(c)
    BY DEF IInv
  <2>2. HasFile(c) /\ TransferOK(c) /\ GotFile(c)
    BY <1>1, <2>1 DEF ClientOK
  <2> QED
    BY <2>1, <2>2, Numbers DEF TypeOK
<1>a. PICK f \in [read : Nat, block : Seq(Nat), sent : Nat, more : BOOLEAN] : f = file[c]
  BY <1>2
<1>b. PICK had \in Seq(Nat) : had = got[c]
  BY <1>2
<1>c. PICK rest : rest = Rest(c)
  OBVIOUS
<1>d. PICK whole \in Int : whole = wants[c]
  BY <1>2, ClientTypes
<1>3. f = file[c] /\ had = got[c] /\ rest = Rest(c) /\ whole = wants[c]
  BY <1>a, <1>b, <1>c, <1>d
<1>4. PICK n \in 1..Len(rest) :
          /\ got' = [got EXCEPT ![c] = had \o SubSeq(rest, 1, n)]
          /\ IF f.sent + n >= Len(f.block)
             THEN GoOn(c, f)
             ELSE file' = [file EXCEPT ![c].sent = f.sent + n] /\ UNCHANGED stage
  BY <1>2, <1>3 DEF Send
<1>5. /\ f.read \in Nat /\ f.sent \in Nat /\ f.block \in Seq(Nat)
      /\ Len(f.block) \in Nat /\ Len(f.block) <= BlockSize /\ f.sent <= Len(f.block)
      /\ Len(had) \in Nat
  BY <1>2, <1>3, ClientTypes
<1>6. PICK has \in Seq(Nat) :
          /\ has = had \o SubSeq(rest, 1, n)
          /\ n \in Nat /\ n > 0 /\ f.sent + n <= Len(f.block)
          /\ Len(has) = Len(had) + n
          /\ \A k \in 1..Len(had) : has[k] = had[k]
          /\ \A k \in 1..n : has[Len(had) + k] = f.block[f.sent + k]
  <2>1. rest = SubSeq(f.block, f.sent + 1, Len(f.block))
    BY <1>3 DEF Rest
  <2>2. PICK block \in Seq(Nat), sent \in Nat : block = f.block /\ sent = f.sent
    BY <1>5
  <2>3. rest = Unsent(block, sent)
    BY <2>1, <2>2 DEF Unsent
  <2>4. PICK has : has = With(had, block, sent, n)
    OBVIOUS
  <2>5. /\ n \in Nat /\ n > 0 /\ sent + n <= Len(block)
        /\ has \in Seq(Nat) /\ Len(has) = Len(had) + n
        /\ \A k \in 1..Len(had) : has[k] = had[k]
        /\ \A k \in 1..n : has[Len(had) + k] = block[sent + k]
    <3>1. sent <= Len(block) /\ n \in 1..Len(Unsent(block, sent))
      BY <1>5, <2>2, <2>3
    <3>2. /\ n \in Nat /\ n > 0 /\ sent + n <= Len(block)
          /\ With(had, block, sent, n) \in Seq(Nat)
          /\ Len(With(had, block, sent, n)) = Len(had) + n
          /\ \A k \in 1..Len(had) : With(had, block, sent, n)[k] = had[k]
          /\ \A k \in 1..n : With(had, block, sent, n)[Len(had) + k] = block[sent + k]
      BY <3>1, SentPiece
    <3> QED
      BY <2>4, <3>2
  <2>6. has = had \o SubSeq(rest, 1, n)
    BY <2>3, <2>4 DEF With
  <2> QED
    BY <2>2, <2>5, <2>6
<1>7. /\ got'[c] = has /\ got' \in [Clients -> Seq(Nat)]
      /\ \A d \in Clients \ {c} : got'[d] = got[d]
  BY <1>2, <1>4, <1>6
<1>8. PICK read \in Nat, sent \in Nat, size \in Nat, length \in Nat, start \in Nat :
          /\ read = f.read /\ sent = f.sent /\ size = Len(f.block) /\ length = Len(had)
          /\ start = length - sent
  <2>1. Len(had) - f.sent >= 0
    BY <1>2, <1>3 DEF TransferOK, Start
  <2>2. Len(had) - f.sent \in Nat
    BY <1>5, <2>1
  <2> QED
    BY <1>5, <2>2
<1>9. /\ sent < size /\ start <= whole /\ size <= BlockSize
      /\ read = Min2(start + BlockSize, whole)
      /\ \A k \in 1..(read - start) : f.block[k] = start + k
      /\ edition = "cpp" => size = BlockSize /\ (f.more <=> start + BlockSize <= whole)
      /\ edition # "cpp" => size = read - start /\ f.more
  <2>1. /\ f.sent < Len(f.block) /\ Start(c) <= wants[c] /\ f.read = Min2(Start(c) + BlockSize, wants[c])
        /\ \A k \in 1..(f.read - Start(c)) : f.block[k] = Start(c) + k
        /\ edition = "cpp" =>
               Len(f.block) = BlockSize /\ (f.more <=> Start(c) + BlockSize <= wants[c])
        /\ edition # "cpp" => Len(f.block) = f.read - Start(c) /\ f.more
    BY <1>2, <1>3 DEF TransferOK
  <2>2. Start(c) = start /\ wants[c] = whole /\ f.sent = sent /\ f.read = read /\ Len(f.block) = size
    BY <1>3, <1>8 DEF Start
  <2> QED
    BY <1>5, <2>1, <2>2
<1>10. n \in Nat /\ n > 0 /\ sent + n <= size /\ Len(has) = length + n /\ length = start + sent
  <2>1. n \in Nat /\ n > 0 /\ f.sent + n <= Len(f.block) /\ Len(has) = Len(had) + n
    BY <1>6
  <2>2. sent = f.sent /\ size = Len(f.block) /\ length = Len(had) /\ start = length - sent
    BY <1>8
  <2>3. sent + n <= size
    BY <2>1, <2>2
  <2>4. Len(has) = length + n
    BY <2>1, <2>2
  <2>5. length = start + sent
    BY <2>2
  <2> QED
    BY <2>1, <2>3, <2>4, <2>5
<1>11. read <= whole
  BY <1>9 DEF Min2
<1>12. GotFile(c)'
  <2> SUFFICES ASSUME NEW k \in 1..(length + n), k <= whole PROVE has[k] = k
    BY <1>1, <1>3, <1>7, <1>10 DEF GotFile
  <2>1. CASE k <= length
    <3>1. k \in 1..length
      BY <2>1
    <3> QED
      BY <1>2, <1>3, <1>6, <1>8, <3>1 DEF GotFile
  <2>2. CASE ~(k <= length)
    <3>1. PICK j \in 1..n : k = length + j
      <4>1. k - length \in 1..n /\ k = length + (k - length)
        BY <1>10, <2>2
      <4> QED
        BY <4>1
    <3>2. sent + j \in 1..(read - start)
      <4>1. sent + j <= BlockSize /\ start + (sent + j) <= whole /\ j \in Nat /\ j > 0
        BY <1>2, <1>9, <1>10, <3>1
      <4> QED
        BY <1>2, <1>9, <4>1 DEF Min2
    <3>3. f.block[sent + j] = start + (sent + j)
      BY <1>9, <3>2
    <3>4. start + (sent + j) = k
      BY <1>10, <3>1
    <3> QED
      BY <1>6, <1>8, <3>1, <3>3, <3>4
  <2> QED
    BY <2>1, <2>2
<1>13. HasFile(c)'
  BY <1>1, <1>2 DEF HasFile
<1>e. GoodOK(c)'
  BY <1>1, <1>2 DEF IInv, GoodOK, HasFile, client
<1>14. CASE sent + n >= size
  <2>1. sent + n = size /\ GoOn(c, f)
    <3>1. sent + n = size
      BY <1>10, <1>14
    <3>2. GoOn(c, f)
      BY <1>4, <1>8, <1>14
    <3> QED
      BY <3>1, <3>2
  <2>2. f.more => length + n = read
    BY <1>2, <1>9, <1>10, <2>1 DEF Min2
  <2>3. ~f.more => edition = "cpp" /\ Complete(c)'
    <3> SUFFICES ASSUME ~f.more
                 PROVE  edition = "cpp" /\ (length + n) - whole \in 1..BlockSize
      BY <1>1, <1>3, <1>7, <1>10 DEF Complete
    <3>1. edition = "cpp" /\ size = BlockSize /\ ~(start + BlockSize <= whole)
      BY <1>2, <1>9
    <3>2. length + n = start + BlockSize
      BY <1>10, <2>1, <3>1
    <3>3. start <= whole /\ BlockSize \in Nat /\ BlockSize > 0
      BY <1>2, <1>9
    <3> QED
      BY <3>1, <3>2, <3>3
  <2>4. /\ stage' \in [Clients -> {"none", "queued", "request", "send", "done"}]
        /\ file' \in [Clients -> [read : Nat, block : Seq(Nat), sent : Nat, more : BOOLEAN]]
        /\ \A d \in Clients \ {c} : stage'[d] = stage[d] /\ file'[d] = file[d]
        /\ Len(file'[c].block) <= BlockSize /\ file'[c].sent <= Len(file'[c].block)
        /\ file'[c].read > 0 => file'[c].read <= wants[c]
        /\ \/ stage'[c] = "send" /\ TransferOK(c)'
           \/ stage'[c] = "done" /\ Complete(c)'
    <3>1. /\ f.read <= wants[c]
          /\ edition = "cpp" => Len(f.block) = BlockSize
          /\ f.more => Len(got'[c]) = f.read
      BY <1>3, <1>7, <1>8, <1>9, <1>10, <1>11, <2>2
    <3> QED
      BY <1>1, <1>2, <1>7, <2>1, <2>3, <3>1, GoOnStep
  <2>5. ClientOK(c)'
    BY <1>1, <1>2, <1>12, <1>13, <2>4 DEF ClientOK, Done
  <2> QED
    BY <1>1, <1>7, <1>e, <2>4, <2>5, TaskStep
<1>15. CASE ~(sent + n >= size)
  <2>1. file' = [file EXCEPT ![c].sent = sent + n] /\ stage' = stage
    BY <1>4, <1>8, <1>15
  <2>2. /\ file'[c].sent = sent + n /\ file'[c].block = f.block
        /\ file'[c].read = read /\ file'[c].more = f.more
        /\ file' \in [Clients -> [read : Nat, block : Seq(Nat), sent : Nat, more : BOOLEAN]]
        /\ \A d \in Clients \ {c} : file'[d] = file[d]
    <3>1. sent + n \in Nat
      BY <1>10
    <3> QED
      BY <1>2, <1>3, <1>8, <2>1, <3>1
  <2>3. sent + n < size
    BY <1>10, <1>15
  <2>4. TransferOK(c)'
    <3>1. Start(c)' = start
      <4>1. (length + n) - (sent + n) = start
        BY <1>10
      <4> QED
        BY <1>7, <1>10, <2>2, <4>1 DEF Start
    <3>2. wants'[c] = whole /\ edition' = edition /\ start >= 0
      BY <1>1, <1>3
    <3> QED
      BY <1>8, <1>9, <2>2, <2>3, <3>1, <3>2 DEF TransferOK
  <2>5. ClientOK(c)'
    BY <1>1, <1>2, <1>12, <1>13, <2>1, <2>4 DEF ClientOK, Done
  <2>6. /\ Len(file'[c].block) <= BlockSize /\ file'[c].sent <= Len(file'[c].block)
        /\ file'[c].read > 0 => file'[c].read <= wants[c]
    BY <1>3, <1>5, <1>8, <1>10, <1>11, <2>2
  <2> QED
    BY <1>1, <1>2, <1>7, <2>1, <2>2, <2>5, <2>6, <1>e, TaskStep
<1> QED
  BY <1>14, <1>15

-----------------------------------------------------------------------------
(* The clients.                                                            *)

LEMMA PeerStep ==
    ASSUME IInv, NEW c \in Clients, stage[c] # "done", Part(c) \/ Ask(c) \/ Leave(c)
    PROVE  IInv'
<1>1. /\ UNCHANGED <<edition, main, tasks, stage, failed, file, got>>
      /\ cut' \subseteq cut \cup {c}
  BY DEF Part, Ask, Leave
<1>2. /\ TypeOK /\ ClientOK(c)
      /\ peer \in [Clients -> {"in", "part", "asked", "closed", "gone", "reset"}]
      /\ wants \in [Clients -> Int]
      /\ \A d \in Clients : Files[d] \subseteq Nat
  BY MtServerAssumption DEF IInv, TypeOK
<1>3. PICK state \in {"part", "asked", "gone", "closed", "reset"} :
          peer' = [peer EXCEPT ![c] = state]
  BY DEF Part, Ask, Leave
<1>4. PICK size \in Files[c] \cup {Missing, Unasked, Barred} :
          /\ wants' = [wants EXCEPT ![c] = size]
          /\ \/ Part(c) /\ state = "part" /\ size = wants[c] /\ peer[c] = "in"
             \/ Ask(c) /\ state = "asked" /\ size # Unasked /\ peer[c] \in {"in", "part"}
             \/ Leave(c) /\ size = wants[c] /\ state = "closed" /\ peer[c] \in {"in", "part"}
             \/ Leave(c) /\ size = wants[c] /\ state = "gone" /\ peer[c] = "asked"
             \/ Leave(c) /\ size = wants[c] /\ state = "reset"
  <2>1. wants[c] \in Files[c] \cup {Missing, Unasked, Barred} /\ peer'[c] = state
    BY <1>2, <1>3 DEF TypeOK
  <2>2. CASE Part(c)
    <3>1. wants' = [wants EXCEPT ![c] = wants[c]] /\ state = "part" /\ peer[c] = "in"
      BY <1>2, <2>1, <2>2 DEF Part
    <3> QED
      BY <2>1, <2>2, <3>1
  <2>3. CASE Ask(c)
    <3>1. PICK f \in Files[c] \cup {Missing, Barred} : wants' = [wants EXCEPT ![c] = f]
      BY <2>3 DEF Ask
    <3>2. f # Unasked
      BY <1>2, <3>1 DEF Missing, Unasked, Barred
    <3>3. state = "asked" /\ peer[c] \in {"in", "part"}
      BY <1>2, <2>1, <2>3 DEF Ask
    <3> QED
      BY <2>3, <3>1, <3>2, <3>3
  <2>4. CASE Leave(c)
    <3>1. wants' = [wants EXCEPT ![c] = wants[c]] /\ peer[c] \in {"in", "part", "asked"}
      BY <1>2, <2>4 DEF Leave
    <3>2. state = "reset" \/ state = IF peer[c] = "asked" THEN "gone" ELSE "closed"
      BY <1>2, <2>1, <2>4 DEF Leave
    <3> QED
      BY <2>1, <2>4, <3>1, <3>2
  <2> QED
    BY <2>2, <2>3, <2>4
<1>5. /\ peer' \in [Clients -> {"in", "part", "asked", "closed", "gone", "reset"}]
      /\ peer'[c] = state /\ wants'[c] = size /\ size \in Int
      /\ \A d \in Clients \ {c} : peer'[d] = peer[d] /\ wants'[d] = wants[d]
      /\ wants' \in [Clients -> Int]
  <2>1. size \in Int
    BY <1>2 DEF Missing, Unasked, Barred
  <2> QED
    BY <1>2, <1>3, <1>4, <2>1
<1>6. size = wants[c] \/ (wants[c] = Unasked /\ stage[c] \in {"none", "queued", "request"})
  <2>1. wants[c] = Unasked => ~HasFile(c)
    BY DEF HasFile, Unasked
  <2>2. stage[c] \in {"none", "queued", "request", "send"}
    BY <1>2 DEF TypeOK
  <2>3. peer[c] \in {"in", "part"} => wants[c] = Unasked /\ stage[c] # "send"
    BY <1>2, <2>1 DEF ClientOK
  <2> QED
    BY <1>4, <2>2, <2>3
<1>7. TypeOK'
  <2>1. \A d \in Clients :
            /\ wants'[d] \in Files[d] \cup {Missing, Unasked, Barred}
            /\ Len(file'[d].block) <= BlockSize /\ file'[d].sent <= Len(file'[d].block)
            /\ file'[d].read > 0 => file'[d].read <= wants'[d]
    <3>1. ASSUME NEW d \in Clients, d # c
          PROVE  /\ wants'[d] \in Files[d] \cup {Missing, Unasked, Barred}
                 /\ file'[d].read > 0 => file'[d].read <= wants'[d]
      BY <1>1, <1>2, <1>5, <3>1 DEF TypeOK
    <3>2. file[c].read > 0 => file[c].read <= wants[c]
      BY <1>2 DEF TypeOK
    <3>3. file'[c].read > 0 => file'[c].read <= wants'[c]
      <4>1. file[c].read \in Nat
        BY <1>2, ClientTypes
      <4> QED
        BY <1>1, <1>5, <1>6, <3>2, <4>1 DEF Unasked
    <3>4. \A d \in Clients : Len(file[d].block) <= BlockSize /\ file[d].sent <= Len(file[d].block)
      BY <1>2 DEF TypeOK
    <3> QED
      BY <1>1, <1>5, <3>1, <3>3, <3>4
  <2>2. cut' \subseteq Clients
    BY <1>1, <1>2 DEF TypeOK
  <2> QED
    BY <1>1, <1>2, <1>5, <2>1, <2>2 DEF TypeOK
<1>8. ClientOK(c)'
  <2>1. /\ peer'[c] \in {"in", "part", "closed"} => wants'[c] = Unasked
        /\ peer'[c] \in {"asked", "gone"} => wants'[c] # Unasked
    BY <1>2, <1>4, <1>5 DEF ClientOK
  <2>2. stage[c] \in {"none", "queued", "request"} => got[c] = <<>> /\ Len(got[c]) = 0
    BY <1>2 DEF ClientOK
  <2>3. CASE size = wants[c]
    <3>1. TransferOK(c) => TransferOK(c)'
      BY <1>1, <1>5, <2>3 DEF TransferOK, Start
    <3>2. /\ HasFile(c)' <=> HasFile(c)
          /\ GotFile(c) => GotFile(c)'
      BY <1>1, <1>5, <2>3 DEF HasFile, GotFile
    <3> QED
      BY <1>1, <1>2, <2>1, <2>2, <3>1, <3>2 DEF ClientOK, Done
  <2>4. CASE stage[c] \in {"none", "queued", "request"}
    <3>1. GotFile(c)'
      BY <1>1, <2>2, <2>4 DEF GotFile
    <3> QED
      BY <1>1, <2>1, <2>2, <2>4, <3>1 DEF ClientOK, Done
  <2> QED
    BY <1>6, <2>3, <2>4
<1>9. \A d \in Clients : ClientOK(d)'
  <2>1. ASSUME NEW d \in Clients, d # c PROVE ClientOK(d)'
    <3>1. /\ peer'[d] = peer[d] /\ wants'[d] = wants[d] /\ got' = got /\ file' = file
          /\ stage' = stage /\ edition' = edition
      BY <1>1, <1>5, <2>1
    <3>2. /\ TransferOK(d) => TransferOK(d)'
          /\ GotFile(d) => GotFile(d)'
          /\ Complete(d) => Complete(d)'
      BY <3>1 DEF TransferOK, Start, GotFile, Complete
    <3> QED
      BY <3>1, <3>2 DEF IInv, ClientOK, HasFile, Done
  <2> QED
    BY <1>8, <2>1
<1>10. TasksOK'
  BY <1>1, <1>2 DEF IInv, TasksOK, TypeOK
<1>11. FailedOK'
  <2>1. \A d \in failed : d # c /\ d \in Clients
    BY <1>2 DEF IInv, FailedOK, Done, TypeOK
  <2>2. \A d \in Clients : d # c => (d \in cut' <=> d \in cut)
    BY DEF Part, Ask, Leave
  <2> QED
    BY <1>1, <1>5, <2>1, <2>2 DEF IInv, FailedOK, RecvFails, NameFails, IsPart, Done
<1>12. \A d \in Clients : GoodOK(d)'
  <2>1. ASSUME NEW d \in Clients, d # c PROVE GoodOK(d)'
    <3>1. d \in cut => d \in cut'
      BY DEF Part, Ask, Leave
    <3> QED
      BY <1>1, <1>5, <2>1, <3>1 DEF IInv, GoodOK, HasFile, Done
  <2>2. c \in Good => state \in {"part", "asked"} /\ size \in Files[c] \cup {Unasked}
    <3>1. c \in Good => ~Leave(c)
      BY DEF Leave
    <3>2. c \in Good => wants[c] \in Files[c] \cup {Unasked}
      BY DEF IInv, GoodOK
    <3>3. c \in Good /\ Ask(c) => size \in Files[c]
      BY <1>2, <1>5 DEF Ask
    <3> QED
      BY <1>4, <3>1, <3>2, <3>3
  <2> QED
    BY <1>1, <1>5, <2>1, <2>2 DEF GoodOK, Done
<1> QED
  BY <1>7, <1>9, <1>10, <1>11, <1>12 DEF IInv

-----------------------------------------------------------------------------
(* The accepting thread.                                                   *)

\* A step of main() that moves only in its list.
LEMMA MainStep ==
    ASSUME IInv, UNCHANGED <<edition, stage, failed, client, file, got>>,
           tasks' \in Seq(Clients), IsInjective(tasks'), Range(tasks') \subseteq Range(tasks),
           main' \in [stage : {"accept", "sweep", "result", "unwind", "exit"}, at : Nat],
           main'.at \in 1..(Len(tasks') + 1),
           main'.stage = "result" => main'.at <= Len(tasks'),
           main'.stage \in {"unwind", "exit"} => failed # {}
    PROVE  IInv'
<1> USE DEF client
<1>1. TypeOK'
  BY DEF IInv, TypeOK
<1>2. TasksOK'
  <2>1. \A t \in Range(tasks) : stage[t] # "none"
    BY DEF IInv, TasksOK, Range
  <2> QED
    BY <2>1 DEF TasksOK, Range
<1>3. \A c \in Clients : ClientOK(c)'
  BY DEF IInv, ClientOK, HasFile, TransferOK, Start, GotFile, Complete, Done
<1>4. FailedOK'
  BY DEF IInv, FailedOK, RecvFails, NameFails, IsPart, Done
<1>5. \A c \in Clients : GoodOK(c)'
  BY DEF IInv, GoodOK, HasFile, Done
<1> QED
  BY <1>1, <1>2, <1>3, <1>4, <1>5 DEF IInv

\* main() goes on in the list it has.
LEMMA SweepStep == IInv /\ (Keep \/ AskResult \/ Swept \/ Exit) => IInv'
<1> SUFFICES ASSUME IInv, Keep \/ AskResult \/ Swept \/ Exit PROVE IInv'
  OBVIOUS
<1>1. /\ tasks' = tasks
      /\ UNCHANGED <<edition, stage, failed, client, file, got>>
  BY DEF Keep, AskResult, Swept, Exit
<1>2. /\ tasks \in Seq(Clients) /\ IsInjective(tasks) /\ Len(tasks) \in Nat
      /\ main \in [stage : {"accept", "sweep", "result", "unwind", "exit"}, at : Nat]
      /\ main.at \in 1..(Len(tasks) + 1)
      /\ main.stage \in {"unwind", "exit"} => failed # {}
  BY LenProperties DEF IInv, TypeOK, FailedOK
<1>3. \/ Sweeping /\ main' = [main EXCEPT !.at = main.at + 1]
      \/ Sweeping /\ main' = [main EXCEPT !.stage = "result"]
      \/ main' = [stage |-> "accept", at |-> 1]
      \/ main.stage = "unwind" /\ main' = [main EXCEPT !.stage = "exit"]
  BY DEF Keep, AskResult, Swept, Exit
<1>4. /\ main' \in [stage : {"accept", "sweep", "result", "unwind", "exit"}, at : Nat]
      /\ main'.at \in 1..(Len(tasks) + 1)
      /\ main'.stage = "result" => main'.at <= Len(tasks)
      /\ main'.stage \in {"unwind", "exit"} => failed # {}
  <2>1. CASE Sweeping /\ main' = [main EXCEPT !.at = main.at + 1]
    <3>1. main'.at = main.at + 1 /\ main'.stage = "sweep"
      BY <1>2, <2>1 DEF Sweeping
    <3>2. main.at + 1 \in 1..(Len(tasks) + 1) /\ main.at + 1 \in Nat
      BY <1>2, <2>1 DEF Sweeping
    <3>3. main' \in [stage : {"accept", "sweep", "result", "unwind", "exit"}, at : Nat]
      BY <1>2, <2>1, <3>2
    <3> QED
      BY <3>1, <3>2, <3>3
  <2>2. CASE Sweeping /\ main' = [main EXCEPT !.stage = "result"]
    <3>1. main'.at = main.at /\ main'.stage = "result" /\ main.at <= Len(tasks)
      BY <1>2, <2>2 DEF Sweeping
    <3>2. main' \in [stage : {"accept", "sweep", "result", "unwind", "exit"}, at : Nat]
      BY <1>2, <2>2
    <3> QED
      BY <1>2, <3>1, <3>2
  <2>3. CASE main' = [stage |-> "accept", at |-> 1]
    BY <1>2, <2>3
  <2>4. CASE main.stage = "unwind" /\ main' = [main EXCEPT !.stage = "exit"]
    BY <1>2, <2>4
  <2> QED
    BY <1>3, <2>1, <2>2, <2>3, <2>4
<1> QED
  BY <1>1, <1>2, <1>4, MainStep

\* A result that throws ends the loop; another one leaves the list.
LEMMA CollectStep == IInv /\ Collect => IInv'
<1> SUFFICES ASSUME IInv, Collect PROVE IInv'
  OBVIOUS
<1>1. /\ main.stage = "result"
      /\ UNCHANGED <<edition, stage, failed, client, file, got>>
      /\ \/ This \in failed /\ main' = [main EXCEPT !.stage = "unwind"] /\ tasks' = tasks
         \/ main' = [main EXCEPT !.stage = "sweep"] /\ tasks' = RemoveAt(tasks, main.at)
  BY DEF Collect
<1>2. /\ tasks \in Seq(Clients) /\ IsInjective(tasks) /\ Len(tasks) \in Nat
      /\ DOMAIN tasks = 1..Len(tasks)
      /\ main \in [stage : {"accept", "sweep", "result", "unwind", "exit"}, at : Nat]
      /\ main.at \in 1..Len(tasks)
  <2>1. /\ tasks \in Seq(Clients) /\ IsInjective(tasks)
        /\ main \in [stage : {"accept", "sweep", "result", "unwind", "exit"}, at : Nat]
        /\ main.at \in 1..(Len(tasks) + 1) /\ main.at <= Len(tasks)
    BY <1>1 DEF IInv, TypeOK, TasksOK
  <2> QED
    BY <2>1, LenProperties
<1>3. CASE This \in failed /\ main' = [main EXCEPT !.stage = "unwind"] /\ tasks' = tasks
  <2>1. /\ main' \in [stage : {"accept", "sweep", "result", "unwind", "exit"}, at : Nat]
        /\ main'.stage = "unwind" /\ main'.at = main.at
    BY <1>2, <1>3
  <2> QED
    BY <1>1, <1>2, <1>3, <2>1, MainStep
<1>4. CASE main' = [main EXCEPT !.stage = "sweep"] /\ tasks' = RemoveAt(tasks, main.at)
  <2>1. /\ main' \in [stage : {"accept", "sweep", "result", "unwind", "exit"}, at : Nat]
        /\ main'.stage = "sweep" /\ main'.at = main.at
    BY <1>2, <1>4
  <2>a. PICK list \in Seq(Clients) : list = tasks
    BY <1>2
  <2>b. PICK at \in 1..Len(list) : at = main.at
    BY <1>2, <2>a
  <2>2. list = tasks /\ at = main.at
    BY <2>a, <2>b
  <2>3. /\ tasks' \in Seq(Clients) /\ Len(tasks') = Len(list) - 1
        /\ \A k \in 1..(Len(list) - 1) : tasks'[k] = IF k < at THEN list[k] ELSE list[k + 1]
    BY <1>4, <2>2, RemoveAtProperties
  <2>4. DOMAIN tasks' = 1..(Len(list) - 1) /\ DOMAIN list = 1..Len(list) /\ Len(list) \in Nat
    BY <1>2, <2>2, <2>3, LenProperties
  <2>5. IsInjective(tasks')
    <3> SUFFICES ASSUME NEW j \in 1..(Len(list) - 1), NEW k \in 1..(Len(list) - 1),
                        tasks'[j] = tasks'[k]
                 PROVE  j = k
      BY <2>4 DEF IsInjective
    <3>1. PICK u \in 1..Len(list) : tasks'[j] = list[u] /\ u = IF j < at THEN j ELSE j + 1
      BY <2>3, <2>4
    <3>2. PICK v \in 1..Len(list) : tasks'[k] = list[v] /\ v = IF k < at THEN k ELSE k + 1
      BY <2>3, <2>4
    <3>3. u = v
      BY <1>2, <2>2, <2>4, <3>1, <3>2 DEF IsInjective
    <3> QED
      BY <2>2, <2>4, <3>1, <3>2, <3>3
  <2>6. Range(tasks') \subseteq Range(tasks)
    <3> SUFFICES ASSUME NEW k \in 1..(Len(list) - 1) PROVE tasks'[k] \in Range(list)
      BY <2>2, <2>4 DEF Range
    <3>1. PICK v \in 1..Len(list) : tasks'[k] = list[v]
      BY <2>3, <2>4
    <3> QED
      BY <2>4, <3>1 DEF Range
  <2>7. main'.at \in 1..(Len(tasks') + 1)
    BY <2>1, <2>2, <2>3, <2>4
  <2> QED
    BY <1>1, <2>1, <2>3, <2>5, <2>6, <2>7, MainStep
<1> QED
  BY <1>1, <1>3, <1>4

\* A client that is accepted had no task.
LEMMA AcceptStep == ASSUME IInv, NEW c \in Clients, Accept(c) PROVE IInv'
<1>1. /\ stage[c] = "none" /\ tasks' = Append(tasks, c)
      /\ stage' = [stage EXCEPT ![c] = "queued"]
      /\ main' = [stage |-> "sweep", at |-> 1]
      /\ UNCHANGED <<edition, failed, client, file, got>>
  BY DEF Accept, Goes
<1>2. /\ TypeOK /\ TasksOK /\ FailedOK
      /\ tasks \in Seq(Clients) /\ IsInjective(tasks)
      /\ Len(tasks) \in Nat /\ DOMAIN tasks = 1..Len(tasks)
      /\ stage \in [Clients -> {"none", "queued", "request", "send", "done"}]
  BY LenProperties DEF IInv, TypeOK
<1>3. /\ tasks' \in Seq(Clients) /\ Len(tasks') = Len(tasks) + 1
      /\ DOMAIN tasks' = 1..(Len(tasks) + 1)
      /\ \A k \in 1..Len(tasks) : tasks'[k] = tasks[k]
      /\ tasks'[Len(tasks) + 1] = c
  BY <1>1, <1>2, AppendProperties, LenProperties
<1>4. \A k \in 1..Len(tasks) : tasks[k] # c /\ tasks[k] \in Clients
  BY <1>1, <1>2, ElementOfSeq DEF TasksOK
<1>5. IsInjective(tasks')
  BY <1>2, <1>3, <1>4 DEF IsInjective
<1>6. /\ stage'[c] = "queued" /\ \A d \in Clients \ {c} : stage'[d] = stage[d]
      /\ stage' \in [Clients -> {"none", "queued", "request", "send", "done"}]
  BY <1>1, <1>2
<1>7. TypeOK'
  <2>1. main'.at \in 1..(Len(tasks') + 1)
    BY <1>1, <1>2, <1>3
  <2> QED
    BY <1>1, <1>2, <1>3, <1>5, <1>6, <2>1 DEF TypeOK, client
<1>8. TasksOK'
  BY <1>1, <1>2, <1>3, <1>4, <1>6 DEF TasksOK
<1>9. \A d \in Clients : ClientOK(d)'
  <2> SUFFICES ASSUME NEW d \in Clients PROVE ClientOK(d)'
    OBVIOUS
  <2>1. /\ TransferOK(d) => TransferOK(d)'
        /\ GotFile(d) => GotFile(d)'
        /\ Complete(d) => Complete(d)'
    BY <1>1 DEF TransferOK, Start, GotFile, Complete, client
  <2>2. stage'[d] = stage[d] \/ (stage[d] = "none" /\ stage'[d] = "queued")
    BY <1>1, <1>6
  <2> QED
    BY <1>1, <2>1, <2>2 DEF IInv, ClientOK, HasFile, Done, client
<1>10. FailedOK'
  BY <1>1, <1>2, <1>6 DEF FailedOK, RecvFails, NameFails, IsPart, Done, client, TypeOK
<1>11. \A d \in Clients : GoodOK(d)'
  BY <1>1, <1>6 DEF IInv, GoodOK, HasFile, Done, client
<1> QED
  BY <1>7, <1>8, <1>9, <1>10, <1>11 DEF IInv

-----------------------------------------------------------------------------
(* The inductive invariant holds.                                          *)

LEMMA InitInvariant == Init => IInv
<1> SUFFICES ASSUME Init PROVE IInv
  OBVIOUS
<1>1. Len(tasks) = 0 /\ DOMAIN tasks = {} /\ tasks \in Seq(Clients)
  BY DEF Init
<1>2. TypeOK
  <2>1. IsInjective(tasks) /\ main.at \in 1..(Len(tasks) + 1)
    BY <1>1 DEF Init, IsInjective
  <2>2. \A c \in Clients :
            /\ wants[c] \in Files[c] \cup {Missing, Unasked, Barred}
            /\ Len(file[c].block) <= BlockSize /\ file[c].sent <= Len(file[c].block)
            /\ ~(file[c].read > 0)
    BY ClosedType, Numbers DEF Init
  <2> QED
    BY <1>1, <2>1, <2>2, ClosedType DEF Init, TypeOK, Unasked
<1>3. \A c \in Clients : ClientOK(c) /\ GoodOK(c)
  BY DEF Init, ClientOK, GoodOK, HasFile, Done, Unasked
<1> QED
  BY <1>1, <1>2, <1>3 DEF Init, IInv, TasksOK, FailedOK

LEMMA NextInvariant == IInv /\ [Next]_vars => IInv'
<1> SUFFICES ASSUME IInv, [Next]_vars PROVE IInv'
  OBVIOUS
<1>1. CASE Main
  BY <1>1, AcceptStep, SweepStep, CollectStep DEF Main
<1>2. ASSUME NEW c \in Clients, Task(c) PROVE IInv'
  BY <1>2, StartTaskStep, GetRequestStep, SendStep, SendFailsStep DEF Task
<1>3. ASSUME NEW c \in Clients, Peer(c) PROVE IInv'
  BY <1>3, PeerStep DEF Peer
<1>4. CASE UNCHANGED vars
  BY <1>4 DEF vars, IInv, TypeOK, TasksOK, FailedOK, RecvFails, NameFails, IsPart,
     ClientOK, GoodOK, HasFile, TransferOK, Start,
     GotFile, Complete, Done
<1> QED
  BY <1>1, <1>2, <1>3, <1>4 DEF Next

LEMMA Invariant == Spec => []IInv
BY InitInvariant, NextInvariant, PTL DEF Spec

\* The state keeps its types in both editions: each client has one task, main()
\* stays within its list, and no block or offset leaves the buffer or the file.
THEOREM TypeCorrect == Spec => []TypeOK
BY Invariant, PTL DEF IInv

\* Blocks and partial sends put no cell in the wrong place, and a transfer that
\* ends for a peer that is still there has sent the whole file.
THEOREM DeliveredCorrect == Spec => []DoneIsDelivered
<1>1. ASSUME IInv, NEW c \in Clients, HasFile(c)
      PROVE  LET n == Min2(Len(got[c]), wants[c]) IN SubSeq(got[c], 1, n) = Cells(n)
  <2>1. /\ TypeOK /\ GotFile(c) /\ wants[c] \in Int /\ wants[c] >= 0
        /\ got[c] \in Seq(Nat) /\ Len(got[c]) \in Nat
    BY <1>1, ClientTypes DEF IInv, ClientOK, HasFile
  <2>2. PICK had \in Seq(Nat), n \in Nat :
            had = got[c] /\ n = Min2(Len(got[c]), wants[c]) /\ n <= Len(had) /\ n <= wants[c]
    BY <2>1 DEF Min2
  <2>3. \A k \in 1..n : k \in 1..Len(had) /\ k <= wants[c]
    BY <2>1, <2>2
  <2>4. \A k \in 1..n : had[k] = k /\ had[k] \in Nat
    BY <2>1, <2>2, <2>3 DEF GotFile
  <2>5. /\ SubSeq(had, 1, n) \in Seq(Nat)
        /\ Len(SubSeq(had, 1, n)) = IF 1 <= n THEN n - 1 + 1 ELSE 0
        /\ \A k \in 1..(n - 1 + 1) : SubSeq(had, 1, n)[k] = had[1 + k - 1]
    BY <2>4, SubSeqProperties
  <2> DEFINE piece == SubSeq(had, 1, n)
  <2>6. Len(piece) = n /\ piece \in Seq(Nat) /\ \A k \in 1..n : piece[k] = k
    BY <2>4, <2>5
  <2> HIDE DEF piece
  <2>7. piece = Cells(n)
    BY <2>6 DEF Cells
  <2> QED
    BY <2>2, <2>7 DEF piece
<1>2. ASSUME IInv, NEW c \in Clients, Done(c), peer[c] = "asked", HasFile(c)
      PROVE  LET beyond == Len(got[c]) - wants[c]
             IN IF edition = "cpp" THEN beyond \in 1..BlockSize ELSE beyond = 0
  <2>1. Complete(c) /\ wants[c] \in Int
    BY <1>2, ClientTypes DEF IInv, ClientOK
  <2> QED
    BY <2>1 DEF Complete
<1>3. ASSUME IInv, NEW c \in Clients, Done(c), c \in Good, ~HasFile(c)
      PROVE  edition = "cpp" /\ c \in cut /\ got[c] = <<>>
  BY <1>3 DEF IInv, GoodOK
<1>4. IInv => DoneIsDelivered
  BY <1>1, <1>2, <1>3 DEF DoneIsDelivered
<1> QED
  BY <1>4, Invariant, PTL

\* A peer ends the server only in C++ and only before its file is open: by a
\* reset that recv() meets, or by a name that cannot be resolved.
THEOREM DeathCorrect == Spec => []DiesOnRequest
<1>1. IInv => DiesOnRequest
  BY DEF IInv, FailedOK, DiesOnRequest
<1> QED
  BY <1>1, Invariant, PTL
=============================================================================
