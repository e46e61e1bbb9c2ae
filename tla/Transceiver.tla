---------------------------- MODULE Transceiver ----------------------------
(***************************************************************************)
(* Class Transceiver of the select() server: a ring buffer between a file  *)
(* descriptor and a client socket.  read_data() fills the ring from the    *)
(* file, send_buffer() drains it into the socket; both ask the kernel for  *)
(* the contiguous part only, and the kernel may serve less than it was     *)
(* asked.  A call repeats on EINTR/EAGAIN until the kernel gives another   *)
(* answer, so a call is one step with that answer.                         *)
(*                                                                         *)
(* Bytes are named by their offsets in the file.                           *)
(***************************************************************************)
EXTENDS Integers, Sequences

CONSTANTS
    Size,        \* buffer_.size()
    FileLength   \* number of bytes in the file a client asked for

ASSUME SizeAssumption == Size \in Nat \ {0}
ASSUME FileLengthAssumption == FileLength \in Nat

VARIABLES
    buffer,         \* buffer_: slot -> byte, 0 before anything is stored
    read_index,     \* read_index_: where the next byte of the file goes
    send_index,     \* send_index_: the next byte to send
    opened,         \* file_descriptor_ # -1
    file_offset,    \* the kernel's offset in the open file
    read_finished,  \* read_finished_
    sent_size,      \* sent_size_
    received,       \* bytes the socket has taken, in order
    call,           \* the last call of the owner ...
    status          \* ... and the IOStatus it returned

ring == <<buffer, read_index, send_index, opened, file_offset, read_finished, sent_size, received>>
vars == <<ring, call, status>>

Slots == 0..(Size - 1)
Bytes == 1..FileLength
IOStatus == {"ok", "no_data", "error", "finished"}

TypeOK ==
    /\ buffer \in [Slots -> Bytes \cup {0}]
    /\ read_index \in Slots
    /\ send_index \in Slots
    /\ opened \in BOOLEAN
    /\ file_offset \in 0..FileLength
    /\ read_finished \in BOOLEAN
    /\ sent_size \in 0..FileLength
    /\ received \in Seq(Bytes)
    /\ call \in {"create", "open", "read", "send"}
    /\ status \in IOStatus

Init ==
    /\ buffer = [i \in Slots |-> 0]
    /\ read_index = 0
    /\ send_index = 0
    /\ opened = FALSE
    /\ file_offset = 0
    /\ read_finished = FALSE
    /\ sent_size = 0
    /\ received = <<>>
    /\ call = "create"
    /\ status = "ok"

Returns(c, s) == call' = c /\ status' = s

-----------------------------------------------------------------------------
(* Index arithmetic.                                                       *)

\* Slip: the index runs past the end of the vector.
WrapForgotten(i) == i
Wrap(i) == i % Size

\* Slip: the whole tail is filled even when the reader would meet send_index.
ReadRequestNoGap ==
    (IF send_index <= read_index THEN Size ELSE send_index - 1) - read_index
\* Bytes read_data() asks of the file: up to the end of the vector or up to
\* one slot before send_index, so that a full ring never looks empty.
ReadRequest ==
    (IF send_index <= read_index
        THEN Size - (IF send_index = 0 THEN 1 ELSE 0)
        ELSE send_index - 1) - read_index

\* Bytes send_buffer() offers to the socket.
SendRequest == (IF send_index > read_index THEN Size ELSE read_index) - send_index

\* Slip: a short read is taken for the end of the file.
EndsFileOnShortRead(n) == n < ReadRequest
EndsFile(n) == n = 0

-----------------------------------------------------------------------------
(* The kernel's answers.                                                   *)

\* read(): 0 at the end of the file, else at least a byte, possibly less
\* than asked.
ReadAnswers(asked) ==
    IF file_offset = FileLength
    THEN {0}
    ELSE {n \in 1..asked : file_offset + n <= FileLength}

\* send(): 0 only if nothing was offered.
SendAnswers(offered) == IF offered = 0 THEN {0} ELSE 1..offered

-----------------------------------------------------------------------------
(* Operations.                                                             *)

\* open_file() as Client::update_file_path() calls it: only while no file is
\* open; open() may fail.
OpenFile ==
    /\ ~opened
    /\ \E ok \in BOOLEAN :
        /\ opened' = ok
        /\ Returns("open", IF ok THEN "ok" ELSE "error")
    /\ UNCHANGED <<buffer, read_index, send_index, file_offset, read_finished, sent_size, received>>

\* The early returns of read_data() and a failed read().
ReadNothing ==
    /\ UNCHANGED ring
    /\ \/ /\ read_finished
          /\ Returns("read", "finished")
       \/ /\ ~read_finished /\ ~opened
          /\ Returns("read", "error")
       \/ /\ ~read_finished /\ opened /\ ReadRequest = 0
          /\ Returns("read", "no_data")
       \/ /\ ~read_finished /\ opened /\ ReadRequest # 0
          /\ Returns("read", "error")

\* read() returned n >= 0 bytes.
ReadSome(n) ==
    /\ ~read_finished /\ opened /\ ReadRequest # 0
    /\ buffer' = [i \in Slots |->
                    IF i \in read_index..(read_index + n - 1)
                    THEN file_offset + 1 + (i - read_index)
                    ELSE buffer[i]]
    /\ read_index' = Wrap(read_index + n)
    /\ file_offset' = file_offset + n
    /\ read_finished' = EndsFile(n)
    /\ Returns("read", IF n = 0 THEN "finished" ELSE "ok")
    /\ UNCHANGED <<send_index, opened, sent_size, received>>

ReadData == ReadNothing \/ \E n \in ReadAnswers(ReadRequest) : ReadSome(n)

\* The ring is empty, or send() failed.
SendNothing ==
    /\ UNCHANGED ring
    /\ \/ /\ send_index = read_index
          /\ Returns("send", IF read_finished THEN "finished" ELSE "no_data")
       \/ /\ send_index # read_index
          /\ Returns("send", "error")

\* send() took n bytes.
SendSome(n) ==
    /\ send_index # read_index
    /\ received' = received \o [i \in 1..n |-> buffer[send_index + i - 1]]
    /\ sent_size' = sent_size + n
    /\ send_index' = Wrap(send_index + n)
    /\ Returns("send", IF n = 0 THEN "finished" ELSE "ok")
    /\ UNCHANGED <<buffer, read_index, opened, file_offset, read_finished>>

SendBuffer == SendNothing \/ \E n \in SendAnswers(SendRequest) : SendSome(n)

Next == OpenFile \/ ReadData \/ SendBuffer

Spec == Init /\ [][Next]_vars

-----------------------------------------------------------------------------
(* Properties.                                                             *)

Occupied ==
    IF send_index <= read_index
    THEN read_index - send_index
    ELSE Size - send_index + read_index

\* Slot of the k-th unsent byte, k counted from 0.
UnsentSlot(k) ==
    IF send_index + k < Size THEN send_index + k ELSE send_index + k - Size

\* The occupied slots hold exactly the bytes that were read and not yet
\* sent, in order, whatever partial reads, partial sends and wraps led here:
\* read_data() never overwrites an unsent byte, and a full ring is never
\* taken for an empty one (read_data() / send_buffer() index arithmetic).
RingHoldsUnsent ==
    /\ file_offset = sent_size + Occupied
    /\ \A k \in 0..(Occupied - 1) : buffer[UnsentSlot(k)] = sent_size + k + 1

\* When send_buffer() answers "finished" the socket has taken the whole
\* file: SelectProcessor::run_step() erases the client on this answer and
\* its comment says that "all file was sent".
FinishedMeansAllSent ==
    (call = "send" /\ status = "finished") => received = [i \in Bytes |-> i]

\* The ring is a faithful bounded stream: its reads, sends and end of file
\* are those of FileStream with room for Size - 1 bytes.
Stream == INSTANCE FileStream WITH
    Capacity <- Size - 1,
    fetched <- file_offset,
    sent <- received,
    ended <- read_finished

StreamSpec == Stream!Spec
=============================================================================
