------------------------------ MODULE MtServer ------------------------------
(***************************************************************************)
(* The multithreaded file server in its two editions: in C++ every client  *)
(* gets a thread of its own by std::async(), in Python a task of a pool.   *)
(* The accepting thread keeps the futures in a list and goes over it after *)
(* each accept(): in C++ it asks which are ready, and get() throws what    *)
(* the client's thread threw; in Python result() waits for every task that *)
(* is not running, the queued ones included.                               *)
(*                                                                         *)
(* A file is a sequence of cells and a block is BlockSize of them.         *)
(***************************************************************************)
EXTENDS Integers, Sequences, SequencesExt, FiniteSets, FiniteSetsExt

CONSTANTS
    Editions,   \* "cpp", "python"
    Clients,    \* one connection of each
    Good,       \* those that ask for a file and read all of it
    Segmented,  \* those whose request may come in two segments (a bound)
    Workers,    \* max_workers of the Python edition
    BlockSize,  \* cells of the buffer
    Files       \* lengths of the files that each client may ask for (a bound)

ASSUME MtServerAssumption ==
    /\ Editions \subseteq {"cpp", "python"}
    /\ IsFiniteSet(Clients) /\ Good \subseteq Clients /\ Segmented \subseteq Clients
    /\ Workers \in Nat \ {0} /\ BlockSize \in Nat \ {0}
    /\ Files \in [Clients -> SUBSET Nat]

VARIABLES
    edition,    \* which of the programs runs: never changes
    main,       \* where the accepting thread is, and at which task
    tasks,      \* pending_tasks: clients in the order of their tasks
    stage,      \* where the task of each client is
    failed,     \* clients whose task ended with an exception
    peer,       \* the client's end of the connection
    wants,      \* length of the file that it has asked for, or one of:
    cut,        \* clients whose request came in two segments
    file,       \* cells of the file that are read, and sent of this block
    got         \* what the client has received

vars == <<edition, main, tasks, stage, failed, peer, wants, cut, file, got>>
client == <<peer, wants, cut>>

Missing == -1   \* there is no such file
Unasked == -2   \* no whole request was sent
Barred == -3    \* the file system refuses to resolve the name

Min2(a, b) == IF a < b THEN a ELSE b
Cells(n) == [k \in 1..n |-> k]

TypeOK ==
    /\ edition \in Editions
    /\ tasks \in Seq(Clients) /\ IsInjective(tasks)
    /\ main \in [stage : {"accept", "sweep", "result", "unwind", "exit"}, at : Nat]
    /\ main.at \in 1..(Len(tasks) + 1)
    /\ stage \in [Clients -> {"none", "queued", "request", "send", "done"}]
    /\ failed \subseteq Clients
    /\ peer \in [Clients -> {"in", "part", "asked", "closed", "gone", "reset"}]
    /\ wants \in [Clients -> Int]
    /\ cut \subseteq Clients
    /\ file \in [Clients -> [read : Nat, block : Seq(Nat), sent : Nat, more : BOOLEAN]]
    /\ got \in [Clients -> Seq(Nat)]
    /\ \A c \in Clients :
        /\ wants[c] \in Files[c] \cup {Missing, Unasked, Barred}
        /\ Len(file[c].block) <= BlockSize /\ file[c].sent <= Len(file[c].block)
        /\ file[c].read > 0 => file[c].read <= wants[c]

Closed == [read |-> 0, block |-> [k \in 1..BlockSize |-> 0], sent |-> 0, more |-> TRUE]

Init ==
    /\ edition \in Editions
    /\ main = [stage |-> "accept", at |-> 1]
    /\ tasks = <<>>
    /\ stage = [c \in Clients |-> "none"]
    /\ failed = {}
    /\ peer = [c \in Clients |-> "in"]
    /\ wants = [c \in Clients |-> Unasked]
    /\ cut = {}
    /\ file = [c \in Clients |-> Closed]
    /\ got = [c \in Clients |-> <<>>]

-----------------------------------------------------------------------------
(* The clients.                                                            *)

Running == main.stage # "exit"

\* The first segment of a request: it has no end of line.
Part(c) ==
    /\ c \in Segmented /\ peer[c] = "in"
    /\ peer' = [peer EXCEPT ![c] = "part"]
    /\ cut' = cut \cup {c}
    /\ UNCHANGED <<edition, main, tasks, stage, failed, wants, file, got>>

Ask(c) ==
    /\ peer[c] \in {"in", "part"}
    /\ peer' = [peer EXCEPT ![c] = "asked"]
    /\ \E f \in IF c \in Good THEN Files[c] ELSE Files[c] \cup {Missing, Barred} :
           wants' = [wants EXCEPT ![c] = f]
    /\ UNCHANGED <<edition, main, tasks, stage, failed, cut, file, got>>

\* It ends its side before a line is complete, leaves with its request sent,
\* or resets the connection.
Leave(c) ==
    /\ c \notin Good /\ peer[c] \in {"in", "part", "asked"}
    /\ \/ peer' = [peer EXCEPT ![c] = IF peer[c] = "asked" THEN "gone" ELSE "closed"]
       \/ peer' = [peer EXCEPT ![c] = "reset"]
    /\ UNCHANGED <<edition, main, tasks, stage, failed, wants, cut, file, got>>

-----------------------------------------------------------------------------
(* The task of a client.                                                   *)

Goes(c, s) == stage' = [stage EXCEPT ![c] = s]

InWork == {c \in Clients : stage[c] \in {"request", "send"}}

\* The pool starts its tasks in their order; std::async() has threads enough.
StartTask(c) ==
    /\ stage[c] = "queued"
    /\ edition = "python" =>
           /\ Cardinality(InWork) < Workers
           /\ \A k \in DOMAIN tasks :
                  tasks[k] = c => \A j \in 1..(k - 1) : stage[tasks[j]] # "queued"
    /\ Goes(c, "request")
    /\ UNCHANGED <<edition, main, tasks, failed, client, file, got>>

\* Slip: the end of the file is overrun.
AmountWhole(c, f) == BlockSize

\* What the next read of the file gives.
Amount(c, f) == Min2(BlockSize, wants[c] - f.read)

\* The next read of the file into a block.  In C++ the buffer keeps its size,
\* and what an earlier read has left in it, and the stream ends with the read
\* that was short; in Python the data is what was read, and none ends it.
NextBlock(c, f) ==
    LET n == Amount(c, f)
        data == [k \in 1..n |-> f.read + k]
    IN [read |-> f.read + n, sent |-> 0,
        block |-> IF edition = "cpp" THEN data \o SubSeq(f.block, n + 1, BlockSize) ELSE data,
        more |-> edition = "python" \/ n = BlockSize]

\* send_file() between two blocks: it goes on with the next one or ends.
GoOn(c, f) ==
    LET next == NextBlock(c, f) IN
    IF f.more /\ next.block # <<>>
    THEN Goes(c, "send") /\ file' = [file EXCEPT ![c] = next]
    ELSE Goes(c, "done") /\ file' = [file EXCEPT ![c] = Closed]

\* A client's file can be read: its request names one.
HasFile(c) == wants[c] >= 0

\* A part of a line is taken for the request where the stream ends behind it,
\* and in C++ also where recv() brought no more.
IsPart(c) ==
    \/ peer[c] = "closed"
    \/ edition = "cpp" /\ c \in cut /\ wants[c] = Unasked

\* The request, or its part, is empty or is known to name no regular file.
NamesNoFile(c) == wants[c] = Missing \/ IsPart(c)

\* weakly_canonical(), exists() and is_regular_file(), in Python exists() and
\* is_file(), throw where they cannot tell what the name, or a part of it that
\* is no good client's, stands for: a directory that may not be searched, a
\* loop of links, a name too long.
NameFails(c) == wants[c] = Barred \/ (IsPart(c) /\ c \notin Good)

\* recv() fails when it has returned what was sent before the reset.
RecvFails(c) == peer[c] = "reset" /\ wants[c] = Unasked /\ ~IsPart(c)

\* get_request() and what follows: a request that names no file ends the task,
\* and so does an exception, which Python catches in
\* send_file_to_the_client() and C++ keeps in the future.
GetRequest(c) ==
    /\ stage[c] = "request"
    /\ \/ HasFile(c) /\ GoOn(c, Closed) /\ UNCHANGED failed
       \/ NamesNoFile(c) /\ Goes(c, "done") /\ UNCHANGED <<file, failed>>
       \/ /\ NameFails(c) \/ RecvFails(c)
          /\ Goes(c, "done") /\ UNCHANGED file
          /\ failed' = IF edition = "cpp" THEN failed \cup {c} ELSE failed
    /\ UNCHANGED <<edition, main, tasks, client, got>>

\* Slip: after a partial send() the block is sent from its beginning.
RestAnew(c) == file[c].block

\* What is left of the block.
Rest(c) == SubSeq(file[c].block, file[c].sent + 1, Len(file[c].block))

\* send(): a peer that reads takes a part of what is left of the block.
Send(c) ==
    /\ stage[c] = "send" /\ peer[c] \in {"asked", "gone"}
    /\ \E n \in 1..Len(Rest(c)) :
        /\ got' = [got EXCEPT ![c] = @ \o SubSeq(Rest(c), 1, n)]
        /\ IF file[c].sent + n >= Len(file[c].block)
           THEN GoOn(c, file[c])
           ELSE file' = [file EXCEPT ![c].sent = @ + n] /\ UNCHANGED stage
    /\ UNCHANGED <<edition, main, tasks, failed, client>>

\* Slip: a failed send() throws as a failed recv() does.
FailsWithThrow(c) == IF edition = "cpp" THEN failed \cup {c} ELSE failed

\* In both editions a failed send() ends the task as one that sent nothing.
Fails(c) == failed

SendFails(c) ==
    /\ stage[c] = "send" /\ peer[c] \in {"gone", "reset"}
    /\ Goes(c, "done") /\ file' = [file EXCEPT ![c] = Closed]
    /\ failed' = Fails(c)
    /\ UNCHANGED <<edition, main, tasks, client, got>>

-----------------------------------------------------------------------------
(* The accepting thread.                                                   *)

Done(c) == stage[c] = "done"

\* All clients are in the backlog from the start and are taken in any order:
\* one that connects later is one that is taken later.
Accept(c) ==
    /\ main.stage = "accept" /\ stage[c] = "none"
    /\ tasks' = Append(tasks, c)
    /\ Goes(c, "queued")
    /\ main' = [stage |-> "sweep", at |-> 1]
    /\ UNCHANGED <<edition, failed, client, file, got>>

\* The task that the pass over the list has come to.
This == tasks[main.at]
Sweeping == main.stage = "sweep" /\ main.at <= Len(tasks)

\* The future's result is there.
HasResult(c) == Done(c)

\* Slip: main() asks each task for its result in turn.
KeptNever(c) == FALSE

\* wait_for() or running() tell that the task is still at work.
Kept(c) == IF edition = "cpp" THEN ~Done(c) ELSE c \in InWork

\* The task is left in the list.
Keep ==
    /\ Sweeping /\ Kept(This)
    /\ main' = [main EXCEPT !.at = @ + 1]
    /\ UNCHANGED <<edition, tasks, stage, failed, client, file, got>>

\* The task is ready, or is not running: main() asks for its result, and
\* waits for it if it is a queued one's.
AskResult ==
    /\ Sweeping /\ ~Kept(This)
    /\ main' = [main EXCEPT !.stage = "result"]
    /\ UNCHANGED <<edition, tasks, stage, failed, client, file, got>>

\* get() and result() return and the task is removed, or throw and main()'s
\* loop is left.
Collect ==
    /\ main.stage = "result" /\ HasResult(This)
    /\ IF This \in failed
       THEN main' = [main EXCEPT !.stage = "unwind"] /\ UNCHANGED tasks
       ELSE main' = [main EXCEPT !.stage = "sweep"] /\ tasks' = RemoveAt(tasks, main.at)
    /\ UNCHANGED <<edition, stage, failed, client, file, got>>

Swept ==
    /\ main.stage = "sweep" /\ main.at > Len(tasks)
    /\ main' = [stage |-> "accept", at |-> 1]
    /\ UNCHANGED <<edition, tasks, stage, failed, client, file, got>>

\* The futures of std::async() wait in their destructors.
MayExit == \A k \in DOMAIN tasks : Done(tasks[k])

Exit ==
    /\ main.stage = "unwind" /\ MayExit
    /\ main' = [main EXCEPT !.stage = "exit"]
    /\ UNCHANGED <<edition, tasks, stage, failed, client, file, got>>

-----------------------------------------------------------------------------
Main == (\E c \in Clients : Accept(c)) \/ Keep \/ AskResult \/ Collect \/ Swept \/ Exit
Task(c) ==
    /\ Running
    /\ StartTask(c) \/ GetRequest(c) \/ Send(c) \/ SendFails(c)
\* The connection is closed with the task.
Peer(c) == stage[c] # "done" /\ (Part(c) \/ Ask(c) \/ Leave(c))

Next == Main \/ \E c \in Clients : Task(c) \/ Peer(c)

Spec == Init /\ [][Next]_vars

\* Threads run, and good clients ask; of the others nothing is assumed, so
\* one of them may be silent for ever.
Fairness ==
    /\ WF_vars(Keep \/ AskResult \/ Collect \/ Swept \/ Exit)
    /\ \A c \in Clients : WF_vars(Accept(c)) /\ WF_vars(Task(c))
    /\ \A c \in Good : WF_vars(Ask(c))
FairSpec == Spec /\ Fairness

-----------------------------------------------------------------------------
(* Properties.                                                             *)

\* Blocks and partial sends put no cell in the wrong place: what a client has
\* is the file as far as it goes.  At the end it is all of the file; in C++ at
\* least one cell, and at most a block, of what the buffer held follows it.  A
\* good client whose task ends without a file gets nothing at all, and only
\* because the C++ edition took the first segment of its line for the request.
DoneIsDelivered ==
    \A c \in Clients :
        /\ HasFile(c) =>
               LET n == Min2(Len(got[c]), wants[c]) IN SubSeq(got[c], 1, n) = Cells(n)
        /\ Done(c) /\ peer[c] = "asked" /\ HasFile(c) =>
               LET beyond == Len(got[c]) - wants[c]
               IN IF edition = "cpp" THEN beyond \in 1..BlockSize ELSE beyond = 0
        /\ Done(c) /\ c \in Good /\ ~HasFile(c) =>
               edition = "cpp" /\ c \in cut /\ got[c] = <<>>

\* One client ends the server for all: only in C++, and only before its file
\* is open, by resetting the connection with nothing sent that recv() could
\* return, or by a name that the file system refuses to resolve.  A peer that
\* leaves or resets in its file or behind it costs no other client anything.
DiesOnRequest ==
    main.stage \in {"unwind", "exit"} =>
        \E c \in failed : edition = "cpp" /\ c \notin Good /\ (RecvFails(c) \/ NameFails(c))

\* Clients that hold the pool, or the pass over the list, for as long as they
\* are silent.
PoolHeld == edition = "python" /\ Cardinality(InWork \ Good) = Workers
MainHeld == edition = "python" /\ main.stage = "result" /\ This \notin Good

\* A good client that has connected is served, whatever the others do, unless
\* what another client asks, or a reset, ends the C++ server before it accepts
\* again, or unless silent clients hold all workers of the Python server or its
\* accepting thread, which waits for a queued one.
GoodIsServed ==
    \A c \in Good :
        stage[c] = "none" ~> Done(c) \/ main.stage \in {"unwind", "exit"} \/ PoolHeld \/ MainHeld
=============================================================================
