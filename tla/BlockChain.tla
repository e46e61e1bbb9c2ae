---------------------------- MODULE BlockChain ----------------------------
(***************************************************************************)
(* The nodes of simple_blockchain.  Each has two threads and no lock: the  *)
(* command line mines a block, adds it and posts the whole chain to every  *)
(* node of its list, one request after another; the server of one thread   *)
(* answers /addnode, /latestchain and /newchain, and replaces its chain by *)
(* a longer one, block by block.  A new node announces itself, fetches the *)
(* longest chain, and only then starts its server.                         *)
(*                                                                         *)
(* SHA-256 is free of collisions, and a block is written as what its hash  *)
(* is the hash of: index, hash of the block before it, and text.           *)
(* Users type different texts: the text of a block is the node's name.     *)
(***************************************************************************)
EXTENDS Integers, Sequences, SequencesExt, FiniteSetsExt

CONSTANTS
    Nodes,      \* processes, each with a port of its own
    Ports,      \* the ports a user gives when a node starts: a sequence of
                \* nodes, empty for the initial node
    MaxBlocks,  \* bound on the blocks the user of each node adds
    Leavers,    \* the nodes that may end before the others (a bound)
    NoHash      \* the previous hash of the genesis block

ASSUME BlockChainAssumption ==
    /\ Ports \in [Nodes -> Seq(Nodes)]
    /\ MaxBlocks \in [Nodes -> Nat]
    /\ Leavers \subseteq Nodes
    /\ NoHash \notin Nodes

VARIABLES
    pc,         \* where main() of each node is
    nodes,      \* listOfNodes
    at,         \* the loop index over listOfNodes or over the blocks of a chain
    chain,      \* bc.blockchain
    json,       \* the chain that main() sends, or the longest it has fetched
    asked,      \* length and last hash as main() has read them: two reads
    mined,      \* the block whose hash findHash() has found
    replace,    \* the request /newchain that the server carries out
    left,       \* blocks that the user may still add (a bound)
    \* History variables.
    overlap,    \* a replacement ran into the push or under toJSON() of main()
    before,     \* the length the chain had when it was last replaced
    heard       \* the length of the longest chain fetched or posted here

vars == <<pc, nodes, at, chain, json, asked, mined, replace, left, overlap, before, heard>>

Genesis == [index |-> 0, prev |-> NoHash, text |-> NoHash]

\* toJSON() of a chain that stays as it is: the length, and at each index the
\* last block that carries it.
ToJSON(c) ==
    [length |-> Len(c),
     data |-> [i \in {c[k].index : k \in DOMAIN c} |->
                  c[Max({k \in DOMAIN c : c[k].index = i})]]]

NoJSON == [length |-> 0, data |-> <<>>]
NoReplace == [from |-> NoHash, json |-> NoJSON, next |-> 0]

TypeOK ==
    /\ pc \in [Nodes -> {"off", "announce", "fetch", "rebuild", "menu", "search", "mined",
                         "asked", "test", "push", "snapshot", "copy", "send", "wait", "dead"}]
    /\ nodes \in [Nodes -> Seq(Nodes)]
    /\ at \in [Nodes -> Nat \ {0}]
    /\ DOMAIN chain = Nodes /\ DOMAIN json = Nodes /\ DOMAIN asked = Nodes
    /\ DOMAIN mined = Nodes /\ DOMAIN replace = Nodes
    /\ \A n \in Nodes :
        /\ pc[n] = "rebuild" => at[n] <= json[n].length
        /\ pc[n] \notin {"rebuild", "copy"} => at[n] <= Len(nodes[n]) + 1
        /\ chain[n] \in Seq(Range(chain[n])) /\ chain[n] # <<>> /\ chain[n][1] = Genesis
        /\ \A k \in DOMAIN chain[n] : chain[n][k].index \in Nat
        /\ json[n].length \in Nat /\ (json[n].length = 0 => json[n] = NoJSON)
        /\ asked[n].index \in Nat /\ mined[n].index \in Nat
        /\ replace[n] \in [from : Nodes \cup {NoHash}, json : {replace[n].json}, next : Nat]
        /\ replace[n] # NoReplace =>
               replace[n].from \in Nodes /\ replace[n].next \in 0..replace[n].json.length
        /\ left[n] <= MaxBlocks[n]
    /\ left \in [Nodes -> Nat] /\ overlap \in BOOLEAN
    /\ before \in [Nodes -> Nat] /\ heard \in [Nodes -> Nat]

Init ==
    /\ pc = [n \in Nodes |-> "off"]
    /\ nodes = [n \in Nodes |-> <<>>]
    /\ at = [n \in Nodes |-> 1]
    /\ chain = [n \in Nodes |-> <<Genesis>>]
    /\ json = [n \in Nodes |-> NoJSON]
    /\ asked = [n \in Nodes |-> Genesis]
    /\ mined = [n \in Nodes |-> Genesis]
    /\ replace = [n \in Nodes |-> NoReplace]
    /\ left = MaxBlocks
    /\ overlap = FALSE
    /\ before = [n \in Nodes |-> 0]
    /\ heard = [n \in Nodes |-> 0]

-----------------------------------------------------------------------------
(* The chain.                                                              *)

\* Slip: the hash is not compared.
AcceptsAnyHash(c, block, hash) == block.index = Len(c)

\* addBlock(): the hash is that of the other arguments, and the block comes
\* next by its index.  What its previous hash is, is not looked at.
Accepts(c, block, hash) == hash = block /\ block.index = Len(c)

AddBlock(c, block) == IF Accepts(c, block, block) THEN Append(c, block) ELSE c

\* The block that main() asks for, and later adds, on top of a chain.
NextBlock(n, c) == [index |-> Len(c), prev |-> Last(c), text |-> n]

\* The length and the last hash are arguments of one call, read in no given
\* order: of the two that were read, one was read before and one is read now.
ReadAgain(block, c) == {[block EXCEPT !.index = Len(c)], [block EXCEPT !.prev = Last(c)]}

\* toJSON() adds a block: at its index, whatever was there.
Put(data, block) ==
    [i \in DOMAIN data \cup {block.index} |-> IF i = block.index THEN block ELSE data[i]]

\* Slip: also if it is as long.
ReplacesSame(posted, c) == posted.length >= Len(c)

\* A posted chain replaces the own one if it is longer.
Replaces(posted, c) == posted.length > Len(c)

\* Slip: the genesis block goes as well.
PopsGenesis(c) == Len(c) > 0

\* The blocks that replaceChain() removes: all but the genesis block.
Pops(c) == Len(c) > 1

-----------------------------------------------------------------------------
(* Requests.                                                               *)

Target(n) == nodes[n][at[n]]
AtEnd(n) == at[n] > Len(nodes[n])

\* The server is started behind the initialization, and ends with main().
ServerUp(n) == pc[n] \notin {"off", "announce", "fetch", "rebuild", "dead"}
Busy(n) == replace[n] # NoReplace /\ ServerUp(n)

\* Slip: the server shares the thread of the command line.
FreeInMain(n) == ServerUp(n) /\ ~Busy(n) /\ pc[n] \notin {"send", "wait"}

\* The one thread of the server takes the next request.
Free(n) == ServerUp(n) /\ ~Busy(n)

\* Nobody listens at the port: the request fails, the loop goes on.
Refused(n) ==
    /\ ~AtEnd(n) /\ ~ServerUp(Target(n))
    /\ at' = [at EXCEPT ![n] = @ + 1]

-----------------------------------------------------------------------------
(* A node starts.                                                          *)

Start(n) ==
    /\ pc[n] = "off"
    /\ nodes' = [nodes EXCEPT ![n] = Ports[n]]
    /\ pc' = [pc EXCEPT ![n] = IF Ports[n] = <<>> THEN "menu" ELSE "announce"]
    /\ UNCHANGED <<at, chain, json, asked, mined, replace, left, overlap, before, heard>>

\* addSelfToNetwork() and /addnode.
Announce(n) ==
    /\ pc[n] = "announce"
    /\ UNCHANGED <<chain, json, asked, mined, replace, left, overlap, before, heard>>
    /\ \/ Refused(n) /\ UNCHANGED <<pc, nodes>>
       \/ /\ AtEnd(n)
          /\ pc' = [pc EXCEPT ![n] = "fetch"] /\ at' = [at EXCEPT ![n] = 1]
          /\ UNCHANGED nodes
       \/ /\ ~AtEnd(n) /\ Free(Target(n))
          /\ nodes' = [nodes EXCEPT ![Target(n)] = Append(@, n)]
          /\ at' = [at EXCEPT ![n] = @ + 1]
          /\ UNCHANGED pc

\* Slip: the last one is kept.
LongestIsLast(a, b) == b

\* Of the chains fetched the first of the longest is kept.
Longest(a, b) == IF b.length > a.length THEN b ELSE a

\* getChainFromNodes() and /latestchain.  The target's server goes over its
\* chain while its main() may add a block, behind the length that was read.
\* Without an answer vect[0] is not there, which ends the process.
Fetch(n) ==
    /\ pc[n] = "fetch"
    /\ UNCHANGED <<nodes, chain, asked, mined, replace, left, overlap, before>>
    /\ \/ Refused(n) /\ UNCHANGED <<pc, json, heard>>
       \/ /\ ~AtEnd(n) /\ Free(Target(n))
          /\ LET answer == ToJSON(chain[Target(n)]) IN
             /\ json' = [json EXCEPT ![n] = Longest(@, answer)]
             /\ heard' = [heard EXCEPT ![n] = Max({@, answer.length})]
          /\ at' = [at EXCEPT ![n] = @ + 1]
          /\ UNCHANGED pc
       \/ /\ AtEnd(n) /\ json[n] # NoJSON
          /\ pc' = [pc EXCEPT ![n] = "rebuild"] /\ at' = [at EXCEPT ![n] = 1]
          /\ UNCHANGED <<json, heard>>
       \/ /\ AtEnd(n) /\ json[n] = NoJSON
          /\ pc' = [pc EXCEPT ![n] = "dead"]
          /\ UNCHANGED <<at, json, heard>>

\* main() adds the blocks to the genesis block, one by one, and starts the
\* server.  An index that is missing throws, which ends the process.
Rebuild(n) ==
    /\ pc[n] = "rebuild"
    /\ UNCHANGED <<nodes, asked, mined, replace, left, overlap, before, heard>>
    /\ \/ /\ at[n] < json[n].length /\ at[n] \in DOMAIN json[n].data
          /\ chain' = [chain EXCEPT ![n] = AddBlock(@, json[n].data[at[n]])]
          /\ at' = [at EXCEPT ![n] = @ + 1]
          /\ UNCHANGED <<pc, json>>
       \/ /\ at[n] < json[n].length /\ at[n] \notin DOMAIN json[n].data
          /\ pc' = [pc EXCEPT ![n] = "dead"] /\ at' = [at EXCEPT ![n] = 1]
          /\ UNCHANGED <<chain, json>>
       \/ /\ at[n] = json[n].length
          /\ pc' = [pc EXCEPT ![n] = "menu"] /\ at' = [at EXCEPT ![n] = 1]
          /\ json' = [json EXCEPT ![n] = NoJSON]
          /\ UNCHANGED chain

-----------------------------------------------------------------------------
(* The command line.                                                       *)

Go(n, stage) == pc' = [pc EXCEPT ![n] = stage]

\* "Add block": main() reads the length and the last hash, on top of which
\* findHash() then searches.
Mine(n) ==
    /\ pc[n] = "menu" /\ left[n] > 0
    /\ asked' = [asked EXCEPT ![n] = NextBlock(n, chain[n])]
    /\ left' = [left EXCEPT ![n] = @ - 1]
    /\ Go(n, "search")
    /\ UNCHANGED <<nodes, at, chain, json, mined, replace, overlap, before, heard>>

Find(n) ==
    /\ pc[n] = "search"
    /\ \E block \in ReadAgain(asked[n], chain[n]) : mined' = [mined EXCEPT ![n] = block]
    /\ Go(n, "mined")
    /\ UNCHANGED <<nodes, at, chain, json, asked, replace, left, overlap, before, heard>>

\* For addBlock() it reads both once more, after the search.
Ask(n) ==
    /\ pc[n] = "mined"
    /\ asked' = [asked EXCEPT ![n] = NextBlock(n, chain[n])]
    /\ Go(n, "asked")
    /\ UNCHANGED <<nodes, at, chain, json, mined, replace, left, overlap, before, heard>>

Asked(n) ==
    /\ pc[n] = "asked"
    /\ \E block \in ReadAgain(asked[n], chain[n]) : asked' = [asked EXCEPT ![n] = block]
    /\ Go(n, "test")
    /\ UNCHANGED <<nodes, at, chain, json, mined, replace, left, overlap, before, heard>>

\* addBlock() tests them with the hash that was found before.
Check(n) ==
    /\ pc[n] = "test"
    /\ Go(n, IF Accepts(chain[n], asked[n], mined[n]) THEN "push" ELSE "snapshot")
    /\ UNCHANGED <<nodes, at, chain, json, asked, mined, replace, left, overlap, before, heard>>

\* push_back() of the block that was tested.
Push(n) ==
    /\ pc[n] = "push"
    /\ chain' = [chain EXCEPT ![n] = Append(@, mined[n])]
    /\ overlap' = (overlap \/ Busy(n))
    /\ Go(n, "snapshot")
    /\ UNCHANGED <<nodes, at, json, asked, mined, replace, left, before, heard>>

\* toJSON(), whether a block was added or not: the length first, ...
Snapshot(n) ==
    /\ pc[n] = "snapshot"
    /\ json' = [json EXCEPT ![n] = [length |-> Len(chain[n]), data |-> <<>>]]
    /\ asked' = [asked EXCEPT ![n] = Genesis] /\ mined' = [mined EXCEPT ![n] = Genesis]
    /\ Go(n, "copy") /\ at' = [at EXCEPT ![n] = 1]
    /\ UNCHANGED <<nodes, chain, replace, left, overlap, before, heard>>

\* ... then block by block, up to the length as it is by then.
Copy(n) ==
    /\ pc[n] = "copy"
    /\ UNCHANGED <<nodes, chain, asked, mined, replace, left, overlap, before, heard>>
    /\ \/ /\ at[n] <= Len(chain[n])
          /\ json' = [json EXCEPT ![n].data = Put(@, chain[n][at[n]])]
          /\ at' = [at EXCEPT ![n] = @ + 1]
          /\ UNCHANGED pc
       \/ /\ at[n] > Len(chain[n])
          /\ Go(n, "send") /\ at' = [at EXCEPT ![n] = 1]
          /\ UNCHANGED json

\* sendNewChain(): a request to /newchain of the next node of the list, and
\* what its handler does with it first.
Post(n) ==
    /\ pc[n] = "send"
    /\ UNCHANGED <<nodes, chain, asked, mined, left, overlap>>
    /\ \/ Refused(n) /\ UNCHANGED <<pc, json, replace, before, heard>>
       \/ /\ AtEnd(n)
          /\ pc' = [pc EXCEPT ![n] = "menu"] /\ at' = [at EXCEPT ![n] = 1]
          /\ json' = [json EXCEPT ![n] = NoJSON]
          /\ UNCHANGED <<replace, before, heard>>
       \/ /\ ~AtEnd(n) /\ Free(Target(n))
          /\ heard' = [heard EXCEPT ![Target(n)] = Max({@, json[n].length})]
          /\ UNCHANGED json
          /\ \/ /\ ~Replaces(json[n], chain[Target(n)])
                /\ at' = [at EXCEPT ![n] = @ + 1]
                /\ UNCHANGED <<pc, replace, before>>
             \/ /\ Replaces(json[n], chain[Target(n)])
                /\ replace' = [replace EXCEPT ![Target(n)] =
                                  [from |-> n, json |-> json[n], next |-> 0]]
                /\ before' = [before EXCEPT ![Target(n)] = Len(chain[Target(n)])]
                /\ pc' = [pc EXCEPT ![n] = "wait"]
                /\ UNCHANGED at

\* The other node ends before it has answered.
NoAnswer(n) ==
    /\ pc[n] = "wait" /\ pc[Target(n)] = "dead"
    /\ pc' = [pc EXCEPT ![n] = "send"] /\ at' = [at EXCEPT ![n] = @ + 1]
    /\ UNCHANGED <<nodes, chain, json, asked, mined, replace, left, overlap, before, heard>>

\* The user's Control-C, at any point, or the twentieth input: main() ends, and
\* the process with it.  So may a data race: main() uses the chain while the
\* server rebuilds it, or the server reads the chain or adds to the list while
\* main() adds a block or goes over the list.  The other steps are what threads
\* do that get away with it.  What is in memory is lost.
End(n) ==
    /\ n \in Leavers /\ pc[n] \notin {"off", "dead"}
    /\ Go(n, "dead")
    /\ nodes' = [nodes EXCEPT ![n] = <<>>] /\ at' = [at EXCEPT ![n] = 1]
    /\ chain' = [chain EXCEPT ![n] = <<Genesis>>]
    /\ json' = [json EXCEPT ![n] = NoJSON]
    /\ asked' = [asked EXCEPT ![n] = Genesis] /\ mined' = [mined EXCEPT ![n] = Genesis]
    /\ replace' = [replace EXCEPT ![n] = NoReplace]
    /\ left' = [left EXCEPT ![n] = 0]
    /\ before' = [before EXCEPT ![n] = 0] /\ heard' = [heard EXCEPT ![n] = 0]
    /\ UNCHANGED overlap

-----------------------------------------------------------------------------
(* The server: replaceChain().                                             *)

\* main() is in one of the stages in which it must not meet a replacement.
Overlaps(n, stages) == overlap' = (overlap \/ pc[n] \in stages)

Pop(n) ==
    /\ Busy(n) /\ replace[n].next = 0 /\ Pops(chain[n])
    /\ chain' = [chain EXCEPT ![n] = Front(@)]
    /\ Overlaps(n, {"push", "copy"})
    /\ UNCHANGED <<pc, nodes, at, json, asked, mined, replace, left, before, heard>>

Popped(n) ==
    /\ Busy(n) /\ replace[n].next = 0 /\ ~Pops(chain[n])
    /\ replace' = [replace EXCEPT ![n].next = 1]
    /\ UNCHANGED <<pc, nodes, at, chain, json, asked, mined, left, overlap, before, heard>>

Restore(n) ==
    LET next == replace[n].next IN
    /\ Busy(n) /\ next \in 1..(replace[n].json.length - 1)
    /\ next \in DOMAIN replace[n].json.data
    /\ chain' = [chain EXCEPT ![n] = AddBlock(@, replace[n].json.data[next])]
    /\ replace' = [replace EXCEPT ![n].next = @ + 1]
    /\ Overlaps(n, {"push"})
    /\ UNCHANGED <<pc, nodes, at, json, asked, mined, left, before, heard>>

\* The handler answers: behind the last block, or with the exception about an
\* index that is missing.
Answer(n) ==
    LET next == replace[n].next
        from == replace[n].from
    IN /\ Busy(n) /\ next # 0
       /\ next = replace[n].json.length \/ next \notin DOMAIN replace[n].json.data
       /\ replace' = [replace EXCEPT ![n] = NoReplace]
       /\ IF pc[from] = "wait"
          THEN pc' = [pc EXCEPT ![from] = "send"] /\ at' = [at EXCEPT ![from] = @ + 1]
          ELSE UNCHANGED <<pc, at>>
       /\ UNCHANGED <<nodes, chain, json, asked, mined, left, overlap, before, heard>>

-----------------------------------------------------------------------------
Main(n) ==
    \/ Start(n) \/ Announce(n) \/ Fetch(n) \/ Rebuild(n)
    \/ Mine(n) \/ Find(n) \/ Ask(n) \/ Asked(n) \/ Check(n) \/ Push(n)
    \/ Snapshot(n) \/ Copy(n) \/ Post(n) \/ NoAnswer(n) \/ End(n)
Server(n) == Pop(n) \/ Popped(n) \/ Restore(n) \/ Answer(n)

Next == \E n \in Nodes : Main(n) \/ Server(n)

Spec == Init /\ [][Next]_vars

\* Each thread runs; the user starts and ends commands at will.
Fairness ==
    \A n \in Nodes :
        /\ WF_vars(Announce(n)) /\ WF_vars(Fetch(n)) /\ WF_vars(Rebuild(n))
        /\ WF_vars(\/ Find(n) \/ Ask(n) \/ Asked(n) \/ Check(n) \/ Push(n)
                   \/ Snapshot(n) \/ Copy(n) \/ Post(n) \/ NoAnswer(n))
        /\ WF_vars(Server(n))
FairSpec == Spec /\ Fairness

-----------------------------------------------------------------------------
(* Properties.                                                             *)

Linked(c) == \A k \in 2..Len(c) : c[k].prev = c[k - 1] /\ c[k].index = k - 1

\* Nothing tests that a block names the hash of the block before it, and the
\* two threads share the chain without a lock.  The links hold in every node's
\* chain all the same, and with them in every chain that is posted, unless
\* somewhere a replacement ran into the push of an own block, or took blocks
\* away from under toJSON().  One that runs into the search for the hash, or
\* between the reads of length and last hash before it and after it, does not
\* break a link, although both pairs are read in two steps.
LinkBreaksByOverlap == overlap \/ \A n \in Nodes : Linked(chain[n])

\* A node that answers requests and is not replacing its chain has one longer
\* than the one that it gave up last, unless somewhere a replacement ran into
\* the push or toJSON() of main(): of two chains of one length a node keeps
\* its own, and what is posted has the blocks that its length says.
GivenUpForLonger ==
    \A n \in Nodes : Free(n) /\ ~overlap => Len(chain[n]) > before[n]

\* What a node has fetched before it came up, and what it was posted since,
\* was not longer than what it has, with the same exception.
HeardIsReached ==
    \A n \in Nodes : Free(n) /\ ~overlap => Len(chain[n]) >= heard[n]

\* Nodes that post to each other at the same time do not wait for each other:
\* of the commands that the users give, none goes on for ever or waits for ever
\* for an answer, so that again and again no command is under way.
InCommand(n) ==
    pc[n] \in {"search", "mined", "asked", "test", "push", "snapshot", "copy", "send", "wait"}
CommandEnds == []<>(\A n \in Nodes : ~InCommand(n))
=============================================================================
