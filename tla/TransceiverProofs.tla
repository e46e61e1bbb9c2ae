------------------------- MODULE TransceiverProofs -------------------------
(***************************************************************************)
(* Proofs about Transceiver for every ring size and every file length.     *)
(***************************************************************************)
EXTENDS Transceiver, SequenceTheorems, TLAPS

\* The inductive invariant: the ring holds the unsent bytes, the socket has
\* the bytes before them, and the end of the file is believed only at its end.
IInv ==
    /\ TypeOK
    /\ RingHoldsUnsent
    /\ received = Stream!Prefix(sent_size)
    /\ read_finished => file_offset = FileLength
    /\ FinishedMeansAllSent

-----------------------------------------------------------------------------
(* Index arithmetic.                                                       *)

\* Advancing an index by a contiguous part wraps only at the end of the ring.
LEMMA WrapAtEnd ==
    ASSUME NEW i \in 0..Size
    PROVE  Wrap(i) = IF i < Size THEN i ELSE 0
BY SizeAssumption DEF Wrap

\* What read_data() asks of the file fits the free slots, leaves one of them
\* free, and does not run past the end of the vector.
LEMMA ReadRequestFits ==
    ASSUME read_index \in Slots, send_index \in Slots
    PROVE  /\ ReadRequest \in Nat
           /\ Occupied + ReadRequest <= Size - 1
           /\ read_index + ReadRequest <= Size
           /\ read_index < send_index => read_index + ReadRequest < send_index
BY SizeAssumption DEF ReadRequest, Occupied, Slots

\* What send_buffer() offers is occupied and contiguous, and there is some
\* unless the indexes meet.
LEMMA SendRequestFits ==
    ASSUME read_index \in Slots, send_index \in Slots
    PROVE  /\ SendRequest \in 0..Occupied
           /\ send_index + SendRequest <= Size
           /\ send_index # read_index => SendRequest # 0
BY SizeAssumption DEF SendRequest, Occupied, Slots

LEMMA OccupiedBound ==
    ASSUME read_index \in Slots, send_index \in Slots
    PROVE  /\ Occupied \in 0..(Size - 1)
           /\ Occupied = 0 <=> send_index = read_index
BY SizeAssumption DEF Occupied, Slots

\* The k-th unsent byte lies in the ring, and a read stores into none of the
\* slots that are occupied.
LEMMA UnsentSlotSafe ==
    ASSUME read_index \in Slots, send_index \in Slots,
           NEW k \in 0..(Occupied - 1)
    PROVE  /\ UnsentSlot(k) \in Slots
           /\ UnsentSlot(k) \notin read_index..(read_index + ReadRequest - 1)
BY SizeAssumption DEF UnsentSlot, Occupied, ReadRequest, Slots

-----------------------------------------------------------------------------
(* The invariant holds initially and is kept by every operation.           *)

LEMMA InitInvariant == Init => IInv
<1> SUFFICES ASSUME Init PROVE IInv
  OBVIOUS
<1>1. TypeOK
  <2>1. buffer \in [Slots -> Bytes \cup {0}] /\ received \in Seq(Bytes)
    BY DEF Init
  <2>2. read_index \in Slots /\ send_index \in Slots
    BY SizeAssumption DEF Init, Slots
  <2>3. file_offset \in 0..FileLength /\ sent_size \in 0..FileLength
    BY FileLengthAssumption DEF Init
  <2> QED
    BY <2>1, <2>2, <2>3 DEF Init, TypeOK, IOStatus
<1>2. RingHoldsUnsent
  BY DEF Init, RingHoldsUnsent, Occupied
<1>3. received = Stream!Prefix(sent_size)
  BY DEF Init, Stream!Prefix
<1> QED
  BY <1>1, <1>2, <1>3 DEF Init, IInv, FinishedMeansAllSent

\* An operation that leaves the ring alone keeps the invariant if it answers
\* "finished" to send_buffer() only for an empty ring after the last read.
LEMMA RingUnchanged ==
    ASSUME IInv, UNCHANGED ring,
           call' \in {"create", "open", "read", "send"}, status' \in IOStatus,
           (call' = "send" /\ status' = "finished") =>
               (send_index = read_index /\ read_finished)
    PROVE  IInv'
<1> USE DEF IInv, ring
<1>1. TypeOK'
  BY DEF TypeOK
<1>2. RingHoldsUnsent'
  BY DEF RingHoldsUnsent, Occupied, UnsentSlot
<1>3. (received = Stream!Prefix(sent_size))'
  BY DEF Stream!Prefix
<1>4. ASSUME call' = "send", status' = "finished"
      PROVE  received' = [i \in Bytes |-> i]
  <2>1. file_offset = FileLength /\ file_offset = sent_size + Occupied /\ Occupied = 0
    BY <1>4, OccupiedBound DEF TypeOK, RingHoldsUnsent
  <2>2. sent_size = FileLength
    BY <2>1 DEF TypeOK
  <2> QED
    BY <2>2 DEF Stream!Prefix, Bytes
<1> QED
  BY <1>1, <1>2, <1>3, <1>4 DEF FinishedMeansAllSent

LEMMA OpenFileInvariant == IInv /\ OpenFile => IInv'
<1> SUFFICES ASSUME IInv, OpenFile PROVE IInv'
  OBVIOUS
<1> USE DEF IInv, OpenFile, Returns
<1>1. TypeOK'
  BY DEF TypeOK, IOStatus
<1>2. RingHoldsUnsent'
  BY DEF RingHoldsUnsent, Occupied, UnsentSlot
<1> QED
  BY <1>1, <1>2 DEF FinishedMeansAllSent, Stream!Prefix

LEMMA ReadSomeInvariant ==
    ASSUME IInv, NEW n \in ReadAnswers(ReadRequest), ReadSome(n)
    PROVE  IInv'
<1> USE SizeAssumption, FileLengthAssumption
<1> DEFINE asked == ReadRequest
           occupied == Occupied
<1>1. TypeOK /\ RingHoldsUnsent
  BY DEF IInv
<1>2. /\ read_index \in Slots /\ send_index \in Slots
      /\ asked \in Nat /\ occupied \in 0..(Size - 1)
      /\ file_offset \in 0..FileLength
  BY <1>1, ReadRequestFits, OccupiedBound DEF TypeOK
<1>3. /\ n \in 0..asked
      /\ file_offset + n \in 0..FileLength
      /\ n = 0 => file_offset = FileLength
  BY <1>2 DEF ReadAnswers
<1>4. /\ read_index + n \in 0..Size
      /\ occupied + n \in 0..(Size - 1)
      /\ read_index < send_index => read_index + n < send_index
  BY <1>2, <1>3, ReadRequestFits DEF Slots
<1>5. read_index' = IF read_index + n < Size THEN read_index + n ELSE 0
  BY <1>4, WrapAtEnd DEF ReadSome
<1>6. read_index' \in Slots /\ send_index' = send_index
  BY <1>2, <1>4, <1>5 DEF ReadSome, Slots
<1>7. Occupied' = occupied + n
  <2>1. Occupied' = IF send_index <= read_index'
                    THEN read_index' - send_index
                    ELSE Size - send_index + read_index'
    BY <1>6 DEF Occupied
  <2>2. n \in Nat /\ Size \in Nat /\ read_index \in Nat /\ send_index \in Nat
    BY <1>2, <1>3 DEF Slots
  <2>3. CASE read_index + n < Size
    BY <2>1, <2>2, <2>3, <1>2, <1>4, <1>5 DEF Occupied, Slots
  <2>4. CASE read_index + n = Size
    <3>1. send_index <= read_index
      BY <2>2, <2>4, <1>2, <1>4 DEF Slots
    <3>2. occupied = read_index - send_index /\ read_index' = 0
      BY <3>1, <2>4, <2>2, <1>5 DEF Occupied
    <3> QED
      BY <3>1, <3>2, <2>1, <2>2, <2>4, <1>4
  <2> QED
    BY <2>2, <2>3, <2>4, <1>4
<1>8. buffer' \in [Slots -> Bytes \cup {0}]
  <2> SUFFICES ASSUME NEW i \in Slots
               PROVE  buffer'[i] \in Bytes \cup {0}
    BY DEF ReadSome
  <2>1. CASE i \in read_index..(read_index + n - 1)
    BY <2>1, <1>2, <1>3 DEF ReadSome, Bytes, Slots
  <2>2. CASE i \notin read_index..(read_index + n - 1)
    BY <2>2, <1>1 DEF ReadSome, TypeOK
  <2> QED
    BY <2>1, <2>2
<1>9. TypeOK'
  BY <1>1, <1>3, <1>6, <1>8 DEF TypeOK, ReadSome, Returns, EndsFile, IOStatus
<1>10. ASSUME NEW k \in 0..(occupied + n - 1)
       PROVE  buffer'[UnsentSlot(k)] = sent_size + k + 1
  <2>2. CASE k < occupied
    <3>1. k \in 0..(Occupied - 1)
      BY <2>2, <1>2
    <3>2. /\ UnsentSlot(k) \in Slots
          /\ UnsentSlot(k) \notin read_index..(read_index + asked - 1)
      BY <3>1, <1>2, UnsentSlotSafe
    <3>3. UnsentSlot(k) \notin read_index..(read_index + n - 1)
      BY <3>2, <1>2, <1>3 DEF Slots
    <3>4. buffer'[UnsentSlot(k)] = buffer[UnsentSlot(k)]
      BY <3>2, <3>3 DEF ReadSome
    <3> QED
      BY <3>1, <3>4, <1>1 DEF RingHoldsUnsent
  <2>3. CASE k >= occupied
    <3>1. UnsentSlot(k) = read_index + (k - occupied)
      BY <2>3, <1>2, <1>3, <1>4 DEF UnsentSlot, Occupied, Slots
    <3>2. UnsentSlot(k) \in read_index..(read_index + n - 1) /\ UnsentSlot(k) \in Slots
      BY <3>1, <2>3, <1>2, <1>3, <1>4 DEF Slots
    <3>3. buffer'[UnsentSlot(k)] = file_offset + 1 + (k - occupied)
      BY <3>1, <3>2, <1>2 DEF ReadSome, Slots
    <3>4. file_offset = sent_size + occupied
      BY <1>1 DEF RingHoldsUnsent
    <3> QED
      BY <3>3, <3>4, <1>1, <1>2 DEF TypeOK
  <2> QED
    BY <2>2, <2>3, <1>2
<1>11. RingHoldsUnsent'
  <2>1. sent_size' = sent_size /\ file_offset' = file_offset + n
    BY DEF ReadSome
  <2>2. file_offset' = sent_size' + Occupied'
    BY <2>1, <1>1, <1>2, <1>3, <1>7 DEF RingHoldsUnsent, TypeOK
  <2>3. ASSUME NEW k \in 0..(occupied + n - 1)
        PROVE  (buffer[UnsentSlot(k)] = sent_size + k + 1)'
    BY <2>1, <1>6, <1>10 DEF UnsentSlot
  <2> QED
    BY <2>2, <2>3, <1>2, <1>3, <1>7 DEF RingHoldsUnsent
<1>12. (received = Stream!Prefix(sent_size))'
  BY DEF ReadSome, IInv, Stream!Prefix
<1>13. (read_finished => file_offset = FileLength)'
  <2>1. (read_finished' => n = 0) /\ file_offset' = file_offset + n
    BY DEF ReadSome, EndsFile
  <2>2. n = 0 => file_offset + n = FileLength
    BY <1>2, <1>3
  <2> QED
    BY <2>1, <2>2
<1> QED
  BY <1>9, <1>11, <1>12, <1>13 DEF IInv, FinishedMeansAllSent, ReadSome, Returns

\* A prefix of the file followed by its next n bytes is a longer prefix.
LEMMA PrefixExtends ==
    ASSUME NEW m \in Nat, NEW n \in Nat
    PROVE  Stream!Prefix(m) \o [i \in 1..n |-> m + i] = Stream!Prefix(m + n)
<1> DEFINE P == [i \in 1..m |-> i]
           C == [i \in 1..n |-> m + i]
           R == [i \in 1..(m + n) |-> i]
<1>1. P \in Seq(Nat) /\ C \in Seq(Nat) /\ R \in Seq(Nat)
  OBVIOUS
<1>2. Len(P) = m /\ Len(C) = n /\ Len(R) = m + n
  OBVIOUS
<1>3. P \o C \in Seq(Nat) /\ Len(P \o C) = m + n
  BY <1>1, <1>2
<1>4. \A i \in 1..(m + n) : (P \o C)[i] = R[i]
  BY <1>1, <1>2
<1> HIDE DEF P, C, R
<1>5. P \o C = R
  BY <1>1, <1>2, <1>3, <1>4, SeqEqual
<1> QED
  BY <1>5 DEF P, C, R, Stream!Prefix

\* What send_buffer() gives to the socket are the next bytes of the file.
LEMMA SendSomeDelivers ==
    ASSUME IInv, NEW n \in SendAnswers(SendRequest), SendSome(n)
    PROVE  /\ n \in 1..Occupied
           /\ send_index + n <= Size
           /\ received' = Stream!Prefix(sent_size + n)
<1> USE SizeAssumption, FileLengthAssumption
<1>1. TypeOK /\ RingHoldsUnsent /\ received = Stream!Prefix(sent_size)
  BY DEF IInv
<1>2. /\ read_index \in Slots /\ send_index \in Slots /\ sent_size \in Nat
      /\ send_index # read_index
  BY <1>1 DEF TypeOK, SendSome
<1>3. n \in 1..Occupied /\ send_index + n <= Size
  <2>1. SendRequest # 0 /\ SendRequest \in 0..Occupied /\ send_index + SendRequest <= Size
    BY <1>2, SendRequestFits
  <2>2. n \in 1..SendRequest
    BY <2>1 DEF SendAnswers
  <2> QED
    BY <2>1, <2>2, <1>2, OccupiedBound DEF Slots
<1>4. \A i \in 1..n : buffer[send_index + i - 1] = sent_size + i
  <2> SUFFICES ASSUME NEW i \in 1..n
               PROVE  buffer[send_index + i - 1] = sent_size + i
    OBVIOUS
  <2>1. i - 1 \in 0..(Occupied - 1) /\ UnsentSlot(i - 1) = send_index + i - 1
    BY <1>2, <1>3, OccupiedBound DEF UnsentSlot, Slots
  <2>2. buffer[UnsentSlot(i - 1)] = sent_size + (i - 1) + 1
    BY <2>1, <1>1 DEF RingHoldsUnsent
  <2> QED
    BY <2>1, <2>2, <1>2
<1>5. received' = received \o [i \in 1..n |-> sent_size + i]
  BY <1>4 DEF SendSome
<1>6. n \in Nat
  BY <1>2, <1>3, OccupiedBound
<1>7. received' = Stream!Prefix(sent_size + n)
  BY <1>1, <1>2, <1>5, <1>6, PrefixExtends
<1> QED
  BY <1>3, <1>7

LEMMA SendSomeInvariant ==
    ASSUME IInv, NEW n \in SendAnswers(SendRequest), SendSome(n)
    PROVE  IInv'
<1> USE SizeAssumption, FileLengthAssumption
<1> DEFINE occupied == Occupied
<1>1. TypeOK /\ RingHoldsUnsent
  BY DEF IInv
<1>2. /\ read_index \in Slots /\ send_index \in Slots
      /\ occupied \in 0..(Size - 1)
      /\ sent_size \in 0..FileLength /\ file_offset \in 0..FileLength
      /\ file_offset = sent_size + occupied
  BY <1>1, OccupiedBound DEF TypeOK, RingHoldsUnsent
<1>3. n \in 1..occupied /\ send_index + n \in 0..Size
  BY <1>2, SendSomeDelivers DEF Slots
<1>4. received' = Stream!Prefix(sent_size + n) /\ sent_size' = sent_size + n
  BY SendSomeDelivers DEF SendSome
<1>5. send_index' = IF send_index + n < Size THEN send_index + n ELSE 0
  BY <1>3, WrapAtEnd DEF SendSome
<1>6. send_index' \in Slots /\ read_index' = read_index
  BY <1>2, <1>3, <1>5 DEF SendSome, Slots
<1>7. Occupied' = occupied - n
  <2>1. Occupied' = IF send_index' <= read_index
                    THEN read_index - send_index'
                    ELSE Size - send_index' + read_index
    BY <1>6 DEF Occupied
  <2>2. /\ n \in Nat /\ Size \in Nat /\ read_index \in Nat /\ send_index \in Nat
        /\ read_index < Size
    BY <1>2, <1>3 DEF Slots
  <2>3. CASE send_index + n < Size
    BY <2>1, <2>2, <2>3, <1>2, <1>3, <1>5 DEF Occupied
  <2>4. CASE send_index + n = Size
    BY <2>1, <2>2, <2>4, <1>2, <1>3, <1>5 DEF Occupied
  <2> QED
    BY <2>2, <2>3, <2>4, <1>3
<1>8. sent_size + n \in 0..FileLength
  BY <1>2, <1>3
<1>9. Stream!Prefix(sent_size + n) \in Seq(Bytes)
  BY <1>8 DEF Stream!Prefix, Bytes
<1>10. TypeOK'
  BY <1>1, <1>3, <1>4, <1>6, <1>8, <1>9 DEF TypeOK, SendSome, Returns, IOStatus
<1>11. RingHoldsUnsent'
  <2>1. file_offset' = sent_size' + Occupied'
    BY <1>2, <1>3, <1>4, <1>7 DEF SendSome
  <2>2. ASSUME NEW k \in 0..(occupied - n - 1)
        PROVE  (buffer[UnsentSlot(k)] = sent_size + k + 1)'
    <3>1. k + n \in 0..(Occupied - 1)
      BY <1>2, <1>3
    <3>2. UnsentSlot(k)' = UnsentSlot(k + n)
      BY <3>1, <1>2, <1>3, <1>5 DEF UnsentSlot, Slots
    <3>3. buffer[UnsentSlot(k + n)] = sent_size + (k + n) + 1
      BY <3>1, <1>1 DEF RingHoldsUnsent
    <3> QED
      BY <3>2, <3>3, <1>2, <1>3, <1>4 DEF SendSome
  <2> QED
    BY <2>1, <2>2, <1>2, <1>3, <1>7 DEF RingHoldsUnsent
<1>12. (received = Stream!Prefix(sent_size))'
  BY <1>4 DEF Stream!Prefix
<1>13. (read_finished => file_offset = FileLength)'
  BY DEF IInv, SendSome
<1>14. FinishedMeansAllSent'
  BY <1>3 DEF FinishedMeansAllSent, SendSome, Returns
<1> QED
  BY <1>10, <1>11, <1>12, <1>13, <1>14 DEF IInv

LEMMA NextInvariant == IInv /\ [Next]_vars => IInv'
<1> SUFFICES ASSUME IInv, [Next]_vars PROVE IInv'
  OBVIOUS
<1>1. CASE OpenFile
  BY <1>1, OpenFileInvariant
<1>2. CASE ReadNothing
  BY <1>2, RingUnchanged DEF ReadNothing, Returns, IOStatus
<1>3. ASSUME NEW n \in ReadAnswers(ReadRequest), ReadSome(n)
      PROVE  IInv'
  BY <1>3, ReadSomeInvariant
<1>4. CASE SendNothing
  BY <1>4, RingUnchanged DEF SendNothing, Returns, IOStatus
<1>5. ASSUME NEW n \in SendAnswers(SendRequest), SendSome(n)
      PROVE  IInv'
  BY <1>5, SendSomeInvariant
<1>6. CASE UNCHANGED vars
  <2>1. UNCHANGED ring /\ call' = call /\ status' = status
    BY <1>6 DEF vars
  <2> QED
    BY <2>1 DEF IInv, ring, TypeOK, RingHoldsUnsent, Occupied, UnsentSlot,
                FinishedMeansAllSent, Stream!Prefix
<1> QED
  BY <1>1, <1>2, <1>3, <1>4, <1>5, <1>6 DEF Next, ReadData, SendBuffer

-----------------------------------------------------------------------------
(* The theorems.                                                           *)

LEMMA Invariance == Spec => []IInv
BY InitInvariant, NextInvariant, PTL DEF Spec

\* For every ring size and file length the indexes stay in the vector and
\* the counters in the file (class Transceiver's members).
THEOREM TypeCorrect == Spec => []TypeOK
<1>1. IInv => TypeOK
  BY DEF IInv
<1> QED
  BY <1>1, Invariance, PTL

\* No sequence of partial reads and partial sends overwrites or repeats an
\* unsent byte (read_data(), send_buffer()).
THEOREM RingCorrect == Spec => []RingHoldsUnsent
<1>1. IInv => RingHoldsUnsent
  BY DEF IInv
<1> QED
  BY <1>1, Invariance, PTL

\* "finished" from send_buffer() means that the whole file was sent.
THEOREM FinishedCorrect == Spec => []FinishedMeansAllSent
<1>1. IInv => FinishedMeansAllSent
  BY DEF IInv
<1> QED
  BY <1>1, Invariance, PTL

\* The ring implements the bounded stream of FileStream with Size - 1 bytes.
THEOREM Implements == Spec => StreamSpec
<1> USE SizeAssumption, FileLengthAssumption
<1>1. Init => Stream!Init
  BY DEF Init, Stream!Init, Stream!Prefix
<1>2. ASSUME IInv, [Next]_vars
      PROVE  [Stream!Next]_(Stream!vars)
  <2>1. /\ TypeOK /\ file_offset = sent_size + Occupied
        /\ received = Stream!Prefix(sent_size)
    BY <1>2 DEF IInv, RingHoldsUnsent
  <2>2. /\ read_index \in Slots /\ send_index \in Slots
        /\ sent_size \in Nat /\ file_offset \in 0..FileLength
        /\ Occupied \in 0..(Size - 1)
    BY <2>1, OccupiedBound DEF TypeOK
  <2>3. Len(received) = sent_size
    BY <2>1, <2>2 DEF Stream!Prefix
  <2>4. CASE OpenFile \/ ReadNothing \/ SendNothing \/ UNCHANGED vars
    BY <2>4 DEF OpenFile, ReadNothing, SendNothing, vars, ring, Stream!vars
  <2>5. ASSUME NEW n \in ReadAnswers(ReadRequest), ReadSome(n)
        PROVE  Stream!Next
    <3>1. /\ ~read_finished /\ file_offset' = file_offset + n
          /\ read_finished' = (n = 0) /\ received' = received
      BY <2>5 DEF ReadSome, EndsFile
    <3>2. ReadRequest \in Nat /\ Occupied + ReadRequest <= Size - 1
      BY <2>2, ReadRequestFits
    <3>3. CASE n = 0
      <4>1. file_offset = FileLength /\ file_offset' = file_offset
        BY <2>2, <3>1, <3>2, <3>3 DEF ReadAnswers
      <4> QED
        BY <4>1, <3>1, <3>3 DEF Stream!Next, Stream!End
    <3>4. CASE n # 0
      <4>1. /\ n \in 1..(FileLength - file_offset)
            /\ file_offset + n <= Len(received) + (Size - 1)
        BY <2>1, <2>2, <2>3, <3>2, <3>4 DEF ReadAnswers
      <4>2. read_finished' = read_finished
        BY <2>1, <3>1, <3>4 DEF TypeOK
      <4> QED
        BY <4>1, <4>2, <3>1 DEF Stream!Next, Stream!Fetch
    <3> QED
      BY <3>3, <3>4
  <2>6. ASSUME NEW n \in SendAnswers(SendRequest), SendSome(n)
        PROVE  Stream!Next
    <3>1. n \in 1..Occupied /\ received' = Stream!Prefix(sent_size + n)
      BY <1>2, <2>6, SendSomeDelivers
    <3>2. n \in 1..(file_offset - Len(received))
      BY <2>1, <2>2, <2>3, <3>1
    <3>3. file_offset' = file_offset /\ read_finished' = read_finished
      BY <2>6 DEF SendSome
    <3> QED
      BY <3>1, <3>2, <3>3, <2>3 DEF Stream!Next, Stream!Deliver
  <2> QED
    BY <1>2, <2>4, <2>5, <2>6 DEF Next, ReadData, SendBuffer
<1> QED
  BY <1>1, <1>2, Invariance, PTL DEF Spec, StreamSpec, Stream!Spec
=============================================================================
