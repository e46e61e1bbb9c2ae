-------------------------- MODULE BlockChainProofs --------------------------
(***************************************************************************)
(* Proofs about BlockChain for any nodes, ports and number of blocks.      *)
(*                                                                         *)
(* As long as no replacement ran into the push of main()'s own block or    *)
(* took blocks away from under toJSON(), every chain that a node has or    *)
(* sends is whole: block by block it says what it is built on.  The        *)
(* invariant adds how far a chain that is replaced, copied or rebuilt has  *)
(* come, and why torn reads before and after the search do no harm: a      *)
(* replacement makes the chain longer, so that a length that is the final  *)
(* one was read from a chain that no longer changes.                       *)
(***************************************************************************)
EXTENDS BlockChain, SequenceTheorems, TLAPS

IsChain(c) ==
    /\ c \in Seq(Range(c)) /\ c # <<>> /\ c[1] = Genesis
    /\ \A k \in DOMAIN c : c[k].index \in Nat

\* A chain as it is sent: a block for each index, on top of the one before it.
Whole(j) ==
    /\ j.length \in Nat \ {0}
    /\ \A i \in 0..(j.length - 1) : i \in DOMAIN j.data
    /\ j.data[0] = Genesis
    /\ \A i \in 1..(j.length - 1) : j.data[i].index = i /\ j.data[i].prev = j.data[i - 1]

\* A chain is the first blocks of one that was sent.
Follows(c, j, m) == Len(c) = m /\ \A k \in 1..m : c[k] = j.data[k - 1]

IsBlock(b) == b = [index |-> b.index, prev |-> b.prev, text |-> b.text] /\ b.index \in Nat

MainType(n) ==
    /\ pc[n] = "rebuild" => at[n] <= json[n].length
    /\ pc[n] \notin {"rebuild", "copy"} => at[n] <= Len(nodes[n]) + 1
    /\ pc[n] = "copy" =>
        json[n] = [length |-> json[n].length, data |-> json[n].data] /\ json[n].length # 0
    /\ pc[n] = "off" => at[n] = 1
    /\ pc[n] = "wait" => at[n] <= Len(nodes[n])
    /\ json[n].length \in Nat /\ (json[n].length = 0 => json[n] = NoJSON)
    /\ IsBlock(asked[n]) /\ IsBlock(mined[n])
    /\ left[n] <= MaxBlocks[n]

ServerType(n) ==
    /\ IsChain(chain[n])
    /\ replace[n] \in [from : Nodes \cup {NoHash}, json : {replace[n].json}, next : Nat]
    /\ replace[n] # NoReplace =>
        /\ replace[n].from \in Nodes /\ replace[n].next \in 0..replace[n].json.length
        /\ replace[n].json.length \in Nat \ {0} /\ ServerUp(n)

\* The length that the chain will have, and that it has come to it.
Goal(n) == IF replace[n] = NoReplace THEN Len(chain[n]) ELSE replace[n].json.length
Settled(n) == replace[n] = NoReplace \/ replace[n].next = replace[n].json.length

\* A length that was read at some time.
ReadOK(n, b) == b.index <= Goal(n) /\ (b.index = Goal(n) => Settled(n))

\* The blocks that toJSON() has gone over are still there.
Copied(n) ==
    /\ json[n].length <= Len(chain[n]) /\ at[n] <= Len(chain[n]) + 1
    /\ \A k \in 1..Len(chain[n]) :
           k < at[n] => k - 1 \in DOMAIN json[n].data /\ json[n].data[k - 1] = chain[n][k]

\* What main() has read for its own block.
Reading(n) ==
    /\ pc[n] = "search" => ReadOK(n, asked[n])
    /\ pc[n] \in {"mined", "asked", "test"} => ReadOK(n, mined[n])
    /\ pc[n] \in {"asked", "test"} /\ mined[n].index = Goal(n) => asked[n] = NextBlock(n, chain[n])
    /\ pc[n] = "push" => mined[n] = NextBlock(n, chain[n]) \/ ~Settled(n)

\* What main() has sent, read and fetched.
MainOK(n) ==
    /\ json[n].length # 0 /\ pc[n] # "copy" => Whole(json[n])
    /\ pc[n] = "copy" => Copied(n)
    /\ Reading(n)
    /\ pc[n] = "off" => json[n].length = 0
    /\ pc[n] \in {"off", "announce", "fetch"} => Len(chain[n]) = 1
    /\ pc[n] \in {"off", "announce", "fetch", "rebuild"} => before[n] = 0 /\ heard[n] = json[n].length
    /\ pc[n] = "rebuild" => json[n].length # 0 /\ Follows(chain[n], json[n], at[n])

\* What the server has, or is replacing.
ServerOK(n) ==
    /\ Linked(chain[n])
    /\ replace[n] = NoReplace /\ ServerUp(n) => Len(chain[n]) > before[n] /\ Len(chain[n]) >= heard[n]
    /\ replace[n] # NoReplace =>
        /\ Whole(replace[n].json)
        /\ replace[n].json.length > before[n] /\ replace[n].json.length >= heard[n]
        /\ replace[n].next = 0 => Len(chain[n]) < replace[n].json.length
        /\ replace[n].next # 0 => Follows(chain[n], replace[n].json, replace[n].next)

NodeInv(n) == MainType(n) /\ ServerType(n) /\ (~overlap => MainOK(n) /\ ServerOK(n))

Shapes ==
    /\ pc \in [Nodes -> {"off", "announce", "fetch", "rebuild", "menu", "search", "mined",
                         "asked", "test", "push", "snapshot", "copy", "send", "wait", "dead"}]
    /\ nodes \in [Nodes -> Seq(Nodes)]
    /\ at \in [Nodes -> Nat \ {0}]
    /\ DOMAIN chain = Nodes /\ DOMAIN json = Nodes /\ DOMAIN asked = Nodes
    /\ DOMAIN mined = Nodes /\ DOMAIN replace = Nodes
    /\ left \in [Nodes -> Nat] /\ overlap \in BOOLEAN
    /\ before \in [Nodes -> Nat] /\ heard \in [Nodes -> Nat]

IInv == Shapes /\ \A n \in Nodes : NodeInv(n)

-----------------------------------------------------------------------------
(* Chains.                                                                 *)

LEMMA ChainProperties ==
    ASSUME NEW c, IsChain(c)
    PROVE  Len(c) \in Nat \ {0} /\ DOMAIN c = 1..Len(c) /\ c \in Seq(Range(c)) /\ 1 \in 1..Len(c)
<1>1. Len(c) \in Nat /\ DOMAIN c = 1..Len(c)
  BY LenProperties DEF IsChain
<1>2. Len(c) # 0
  BY EmptySeq DEF IsChain
<1> QED
  BY <1>1, <1>2 DEF IsChain

LEMMA GenesisChain == IsChain(<<Genesis>>) /\ Len(<<Genesis>>) = 1 /\ Linked(<<Genesis>>)
<1>1. /\ <<Genesis>> \in Seq({Genesis}) /\ Len(<<Genesis>>) = 1 /\ <<Genesis>>[1] = Genesis
      /\ DOMAIN <<Genesis>> = 1..1 /\ <<Genesis>> # <<>>
  OBVIOUS
<1>2. <<Genesis>> \in Seq(Range(<<Genesis>>))
  BY <1>1, SeqOfRange
<1>3. \A k \in 1..1 : k = 1
  OBVIOUS
<1>4. Genesis.index \in Nat
  BY DEF Genesis
<1>5. \A k \in 2..1 : FALSE
  OBVIOUS
<1> QED
  BY <1>1, <1>2, <1>3, <1>4, <1>5 DEF IsChain, Linked

\* A block is put at the end.
LEMMA ChainAppend ==
    ASSUME NEW c, IsChain(c), NEW block, block.index \in Nat
    PROVE  /\ IsChain(Append(c, block)) /\ Len(Append(c, block)) = Len(c) + 1
           /\ \A k \in 1..Len(c) : Append(c, block)[k] = c[k]
           /\ Append(c, block)[Len(c) + 1] = block
<1>1. /\ Len(c) \in Nat \ {0} /\ DOMAIN c = 1..Len(c) /\ 1 \in 1..Len(c)
      /\ c \in Seq(Range(c) \cup {block}) /\ block \in Range(c) \cup {block}
  BY ChainProperties
<1>2. /\ Append(c, block) \in Seq(Range(c) \cup {block}) /\ Len(Append(c, block)) = Len(c) + 1
      /\ \A k \in 1..Len(c) : Append(c, block)[k] = c[k]
      /\ Append(c, block)[Len(c) + 1] = block
  BY <1>1, AppendProperties
<1>3. Append(c, block) \in Seq(Range(Append(c, block)))
  BY <1>2, SeqOfRange
<1>4. DOMAIN Append(c, block) = 1..(Len(c) + 1)
      /\ \A k \in 1..(Len(c) + 1) : k \in 1..Len(c) \/ k = Len(c) + 1
  BY <1>1, <1>2, LenProperties
<1>5. Append(c, block)[1] = Genesis /\ \A k \in DOMAIN Append(c, block) : Append(c, block)[k].index \in Nat
  BY <1>1, <1>2, <1>4 DEF IsChain
<1>6. Append(c, block) # <<>>
  BY <1>1, <1>2
<1> QED
  BY <1>2, <1>3, <1>5, <1>6 DEF IsChain

\* The last block is taken away, but for the genesis block.
LEMMA ChainFront ==
    ASSUME NEW c, IsChain(c), Len(c) > 1
    PROVE  /\ IsChain(Front(c)) /\ Len(Front(c)) = Len(c) - 1
           /\ \A k \in 1..Len(Front(c)) : k \in 1..Len(c) /\ Front(c)[k] = c[k]
<1>1. Len(c) \in Nat \ {0} /\ DOMAIN c = 1..Len(c) /\ c \in Seq(Range(c))
  BY ChainProperties
<1>2. /\ Front(c) \in Seq(Range(c)) /\ Len(Front(c)) = Len(c) - 1
      /\ \A k \in 1..(Len(c) - 1) : Front(c)[k] = c[k]
  BY <1>1, SubSeqProperties DEF Front
<1>3. Front(c) \in Seq(Range(Front(c))) /\ DOMAIN Front(c) = 1..(Len(c) - 1)
  BY <1>2, SeqOfRange, LenProperties
<1>4. \A k \in 1..(Len(c) - 1) : k \in 1..Len(c)
  BY <1>1
<1>5. 1 \in 1..(Len(c) - 1) /\ Front(c) # <<>>
  BY <1>1, <1>2
<1> QED
  BY <1>1, <1>2, <1>3, <1>4, <1>5 DEF IsChain

\* addBlock() puts a block that comes next by its index, and no other.
LEMMA AddBlockIsChain ==
    ASSUME NEW c, IsChain(c), NEW block
    PROVE  /\ IsChain(AddBlock(c, block))
           /\ block.index = Len(c) => AddBlock(c, block) = Append(c, block)
<1>1. Len(c) \in Nat
  BY ChainProperties
<1>2. CASE block.index = Len(c)
  BY <1>1, <1>2, ChainAppend DEF AddBlock, Accepts
<1>3. CASE block.index # Len(c)
  BY <1>3 DEF AddBlock, Accepts
<1> QED
  BY <1>2, <1>3

LEMMA LinkedFront ==
    ASSUME NEW c, IsChain(c), Len(c) > 1, Linked(c)
    PROVE  Linked(Front(c))
<1>1. Len(c) \in Nat /\ Len(Front(c)) = Len(c) - 1
      /\ \A k \in 1..Len(Front(c)) : Front(c)[k] = c[k]
  BY ChainProperties, ChainFront
<1>2. \A k \in 2..Len(Front(c)) : k \in 1..Len(Front(c)) /\ k - 1 \in 1..Len(Front(c)) /\ k \in 2..Len(c)
  BY <1>1
<1> QED
  BY <1>1, <1>2 DEF Linked

\* A block on top of the last one.
LEMMA LinkedAppend ==
    ASSUME NEW c, IsChain(c), Linked(c), NEW block, block.index = Len(c), block.prev = c[Len(c)]
    PROVE  Linked(Append(c, block))
<1>1. Len(c) \in Nat \ {0}
  BY ChainProperties
<1>2. /\ Len(Append(c, block)) = Len(c) + 1
      /\ \A k \in 1..Len(c) : Append(c, block)[k] = c[k]
      /\ Append(c, block)[Len(c) + 1] = block
  BY <1>1, ChainAppend
<1>3. ASSUME NEW k \in 2..(Len(c) + 1)
      PROVE  Append(c, block)[k].prev = Append(c, block)[k - 1] /\ Append(c, block)[k].index = k - 1
  <2>1. CASE k = Len(c) + 1
    <3>1. k - 1 = Len(c) /\ Len(c) \in 1..Len(c)
      BY <1>1, <2>1
    <3> QED
      BY <1>2, <2>1, <3>1
  <2>2. CASE k # Len(c) + 1
    <3>1. k \in 2..Len(c) /\ k \in 1..Len(c) /\ k - 1 \in 1..Len(c)
      BY <1>1, <2>2
    <3> QED
      BY <1>2, <3>1 DEF Linked
  <2> QED
    BY <2>1, <2>2
<1> QED
  BY <1>2, <1>3 DEF Linked

LEMMA GenesisBlock == IsBlock(Genesis)
BY DEF IsBlock, Genesis

LEMMA MaxOfOne == \A n \in Int : Max({n}) = n
BY DEF Max

LEMMA MaxOfTwo ==
    ASSUME NEW a \in Nat, NEW b \in Nat
    PROVE  Max({a, b}) \in Nat /\ Max({a, b}) = IF b > a THEN b ELSE a
<1>1. \E x \in {a, b} : \A y \in {a, b} : x >= y
  OBVIOUS
<1>2. Max({a, b}) \in {a, b} /\ \A y \in {a, b} : Max({a, b}) >= y
  BY <1>1 DEF Max
<1> QED
  BY <1>2

LEMMA ToJSONLength ==
    ASSUME NEW c, IsChain(c)
    PROVE  ToJSON(c).length = Len(c) /\ Len(c) \in Nat \ {0}
BY ChainProperties DEF ToJSON

\* toJSON() of a chain that is linked loses no block.
LEMMA ToJSONWhole ==
    ASSUME NEW c, IsChain(c), Linked(c)
    PROVE  Whole(ToJSON(c))
<1>1. Len(c) \in Nat \ {0} /\ DOMAIN c = 1..Len(c) /\ 1 \in 1..Len(c)
  BY ChainProperties
<1>2. ToJSON(c).length = Len(c)
  BY DEF ToJSON
<1>3. \A k \in 1..Len(c) : c[k].index = k - 1
  <2>1. ASSUME NEW k \in 1..Len(c)
        PROVE  c[k].index = k - 1
    <3>1. CASE k = 1
      BY <3>1 DEF IsChain, Genesis
    <3>2. CASE k # 1
      <4>1. k \in 2..Len(c)
        BY <1>1, <3>2
      <4> QED
        BY <4>1 DEF Linked
    <3> QED
      BY <3>1, <3>2
  <2> QED
    BY <2>1
<1>4. ASSUME NEW i \in 0..(Len(c) - 1)
      PROVE  i \in DOMAIN ToJSON(c).data /\ ToJSON(c).data[i] = c[i + 1]
  <2>1. i + 1 \in 1..Len(c) /\ c[i + 1].index = i
    BY <1>1, <1>3
  <2>2. {k \in DOMAIN c : c[k].index = i} = {i + 1}
    BY <1>1, <1>3, <2>1
  <2>3. Max({k \in DOMAIN c : c[k].index = i}) = i + 1
    BY <2>2, MaxOfOne
  <2>4. i \in {c[k].index : k \in DOMAIN c}
    BY <1>1, <2>1
  <2> QED
    BY <2>3, <2>4 DEF ToJSON
<1>5. ToJSON(c).data[0] = Genesis
  <2>1. 0 \in 0..(Len(c) - 1)
    BY <1>1
  <2> QED
    BY <1>4, <2>1 DEF IsChain
<1>6. ASSUME NEW i \in 1..(Len(c) - 1)
      PROVE  ToJSON(c).data[i].index = i /\ ToJSON(c).data[i].prev = ToJSON(c).data[i - 1]
  <2>1. i \in 0..(Len(c) - 1) /\ i - 1 \in 0..(Len(c) - 1) /\ i + 1 \in 2..Len(c) /\ (i - 1) + 1 = i
        /\ (i + 1) - 1 = i
    BY <1>1
  <2>2. ToJSON(c).data[i] = c[i + 1] /\ ToJSON(c).data[i - 1] = c[i]
    BY <1>4, <2>1
  <2> QED
    BY <2>1, <2>2 DEF Linked
<1> QED
  BY <1>1, <1>2, <1>4, <1>5, <1>6 DEF Whole

\* The next block of a whole chain goes on top of the blocks before it.
LEMMA FollowsNext ==
    ASSUME NEW c, IsChain(c), Linked(c), NEW j, Whole(j),
           NEW m \in 1..(j.length - 1), Follows(c, j, m)
    PROVE  /\ AddBlock(c, j.data[m]) = Append(c, j.data[m])
           /\ Linked(Append(c, j.data[m])) /\ Follows(Append(c, j.data[m]), j, m + 1)
<1>1. Len(c) = m /\ m \in Nat \ {0} /\ j.data[m].index = m /\ j.data[m].prev = j.data[m - 1]
  BY DEF Follows, Whole
<1>2. c[m] = j.data[m - 1]
  <2>1. m \in 1..m
    BY <1>1
  <2> QED
    BY <2>1 DEF Follows
<1>3. AddBlock(c, j.data[m]) = Append(c, j.data[m])
  BY <1>1, AddBlockIsChain
<1>4. Linked(Append(c, j.data[m]))
  BY <1>1, <1>2, LinkedAppend
<1>5. /\ Len(Append(c, j.data[m])) = m + 1
      /\ \A k \in 1..m : Append(c, j.data[m])[k] = c[k]
      /\ Append(c, j.data[m])[m + 1] = j.data[m]
  BY <1>1, ChainAppend
<1>6. Follows(Append(c, j.data[m]), j, m + 1)
  <2>1. ASSUME NEW k \in 1..(m + 1)
        PROVE  Append(c, j.data[m])[k] = j.data[k - 1]
    <3>1. CASE k = m + 1
      <4>1. k - 1 = m
        BY <1>1, <3>1
      <4> QED
        BY <1>5, <3>1, <4>1
    <3>2. CASE k # m + 1
      <4>1. k \in 1..m
        BY <1>1, <3>2
      <4> QED
        BY <1>5, <4>1 DEF Follows
    <3> QED
      BY <3>1, <3>2
  <2> QED
    BY <1>5, <2>1 DEF Follows
<1> QED
  BY <1>3, <1>4, <1>6

\* The genesis block alone follows every whole chain.
LEMMA FollowsFirst ==
    ASSUME NEW c, IsChain(c), Len(c) = 1, NEW j, Whole(j)
    PROVE  Follows(c, j, 1)
<1>1. \A k \in 1..1 : k = 1 /\ k - 1 = 0
  OBVIOUS
<1> QED
  BY <1>1 DEF Follows, IsChain, Whole

-----------------------------------------------------------------------------
(* The nodes that a step leaves alone.                                     *)

Same(m) ==
    /\ pc'[m] = pc[m] /\ nodes'[m] = nodes[m] /\ at'[m] = at[m] /\ chain'[m] = chain[m]
    /\ json'[m] = json[m] /\ asked'[m] = asked[m] /\ mined'[m] = mined[m]
    /\ replace'[m] = replace[m]
    /\ left'[m] = left[m] /\ before'[m] = before[m] /\ heard'[m] = heard[m]

LEMMA SameReading ==
    ASSUME NEW m, chain'[m] = chain[m], replace'[m] = replace[m],
           json'[m] = json[m], asked'[m] = asked[m], mined'[m] = mined[m]
    PROVE  /\ Goal(m)' = Goal(m) /\ (Settled(m)' <=> Settled(m))
           /\ at'[m] = at[m] => (Copied(m)' <=> Copied(m))
           /\ pc'[m] = pc[m] => (Reading(m)' <=> Reading(m))
<1>1. Goal(m)' = Goal(m) /\ (Settled(m)' <=> Settled(m))
  BY DEF Goal, Settled
<1>2. at'[m] = at[m] => (Copied(m)' <=> Copied(m))
  BY DEF Copied
<1>3. pc'[m] = pc[m] => (Reading(m)' <=> Reading(m))
  BY <1>1 DEF Reading, ReadOK
<1> QED
  BY <1>1, <1>2, <1>3

LEMMA SameNode ==
    ASSUME NEW m \in Nodes, NodeInv(m), Same(m), overlap => overlap'
    PROVE  NodeInv(m)'
<1>1. MainType(m)' /\ ServerType(m)'
  BY DEF NodeInv, Same, MainType, ServerType, ServerUp
<1>2. ~overlap' => MainOK(m)'
  BY SameReading DEF NodeInv, Same, MainOK
<1>3. ~overlap' => ServerOK(m)'
  BY DEF NodeInv, Same, ServerOK, ServerUp
<1> QED
  BY <1>1, <1>2, <1>3 DEF NodeInv

\* The server's part, when only main() takes a step.
SameServer(m) ==
    /\ chain'[m] = chain[m] /\ replace'[m] = replace[m]
    /\ before'[m] = before[m] /\ heard'[m] = heard[m]

LEMMA SameServerNode ==
    ASSUME NEW m \in Nodes, NodeInv(m), SameServer(m), overlap => overlap', ServerUp(m)' <=> ServerUp(m)
    PROVE  ServerType(m)' /\ (~overlap' => ServerOK(m)')
<1>1. ServerType(m)'
  BY DEF NodeInv, SameServer, ServerType
<1>2. ~overlap' => ServerOK(m)'
  BY DEF NodeInv, SameServer, ServerOK
<1> QED
  BY <1>1, <1>2

-----------------------------------------------------------------------------
(* One lemma per action.                                                   *)

LEMMA InitInv == Init => IInv
<1> SUFFICES ASSUME Init PROVE IInv
  OBVIOUS
<1>1. Shapes
  <2>1. /\ pc \in [Nodes -> {"off"}] /\ nodes \in [Nodes -> {<<>>}] /\ at \in [Nodes -> {1}]
        /\ before \in [Nodes -> {0}] /\ heard \in [Nodes -> {0}]
        /\ left \in [Nodes -> Nat] /\ overlap \in BOOLEAN
    BY BlockChainAssumption DEF Init
  <2>2. DOMAIN chain = Nodes /\ DOMAIN json = Nodes /\ DOMAIN asked = Nodes /\ DOMAIN mined = Nodes /\ DOMAIN replace = Nodes
    BY DEF Init
  <2>3. nodes \in [Nodes -> Seq(Nodes)] /\ at \in [Nodes -> Nat \ {0}]
    <3>1. nodes = [n \in Nodes |-> <<>>] /\ at = [n \in Nodes |-> 1] /\ <<>> \in Seq(Nodes)
      BY DEF Init
    <3> QED
      BY <3>1
  <2>4. before \in [Nodes -> Nat] /\ heard \in [Nodes -> Nat]
    BY <2>1
  <2>5. pc \in [Nodes -> {"off", "announce", "fetch", "rebuild", "menu", "search", "mined",
                         "asked", "test", "push", "snapshot", "copy", "send", "wait", "dead"}]
    BY <2>1
  <2> QED
    BY <2>1, <2>2, <2>3, <2>4, <2>5 DEF Shapes
<1>2. ASSUME NEW n \in Nodes
      PROVE  NodeInv(n)
  <2>1. /\ pc[n] = "off" /\ nodes[n] = <<>> /\ at[n] = 1 /\ chain[n] = <<Genesis>> /\ json[n] = NoJSON
        /\ asked[n] = Genesis /\ mined[n] = Genesis /\ replace[n] = NoReplace /\ left[n] = MaxBlocks[n]
        /\ before[n] = 0 /\ heard[n] = 0
    BY DEF Init
  <2>2. NoJSON.length = 0 /\ Genesis.index = 0 /\ Len(<<>>) = 0
    BY DEF NoJSON, Genesis
  <2>3. MainType(n)
    BY <2>1, <2>2, GenesisBlock, BlockChainAssumption DEF MainType, IsBlock
  <2>4. ServerType(n)
    BY <2>1, GenesisChain DEF ServerType, NoReplace
  <2>5. MainOK(n)
    BY <2>1, <2>2, GenesisChain DEF MainOK, Reading
  <2>6. ServerOK(n)
    BY <2>1, GenesisChain DEF ServerOK, ServerUp
  <2> QED
    BY <2>3, <2>4, <2>5, <2>6 DEF NodeInv
<1> QED
  BY <1>1, <1>2 DEF IInv

LEMMA StartInv ==
    ASSUME IInv, NEW n \in Nodes, Start(n)
    PROVE  IInv'
<1>1. Shapes'
  BY BlockChainAssumption DEF IInv, Shapes, Start
<1>2. ASSUME NEW m \in Nodes
      PROVE  NodeInv(m)'
  <2>1. CASE m # n
    <3>1. Same(m) /\ (overlap => overlap') /\ NodeInv(m)
      BY <2>1 DEF Start, Same, IInv, Shapes
    <3> QED
      BY <3>1, SameNode
  <2>2. CASE m = n
    <3>1. /\ nodes'[m] \in Seq(Nodes) /\ pc[m] = "off" /\ pc'[m] \in {"menu", "announce"}
          /\ at'[m] = at[m] /\ json'[m] = json[m] /\ asked'[m] = asked[m] /\ mined'[m] = mined[m] /\ left'[m] = left[m]
          /\ SameServer(m) /\ NodeInv(m) /\ (overlap => overlap')
      BY <1>1, <2>2 DEF Start, IInv, Shapes, SameServer
    <3>2. MainType(m)'
      BY <1>1, <3>1 DEF NodeInv, MainType, Shapes
    <3>3. ServerType(m)'
      BY <3>1 DEF NodeInv, ServerType, SameServer, ServerUp
    <3>4. ~overlap' => MainOK(m)'
      BY <3>1 DEF NodeInv, MainOK, Reading, SameServer
    <3>5. ~overlap' => ServerOK(m)'
      <4>1. replace[m] = NoReplace /\ IsChain(chain[m])
        BY <3>1 DEF NodeInv, ServerType, ServerUp
      <4>2. Len(chain[m]) \in Nat \ {0}
        BY <4>1, ChainProperties
      <4> QED
        BY <3>1, <4>1, <4>2 DEF NodeInv, ServerOK, MainOK, Reading, SameServer
    <3> QED
      BY <3>2, <3>3, <3>4, <3>5 DEF NodeInv
  <2> QED
    BY <2>1, <2>2
<1> QED
  BY <1>1, <1>2 DEF IInv

LEMMA TargetNode ==
    ASSUME Shapes, NEW n \in Nodes, ~AtEnd(n)
    PROVE  Target(n) \in Nodes /\ at[n] \in 1..Len(nodes[n]) /\ Len(nodes[n]) \in Nat
<1>1. nodes[n] \in Seq(Nodes) /\ at[n] \in Nat \ {0}
  BY DEF Shapes
<1>2. Len(nodes[n]) \in Nat /\ at[n] <= Len(nodes[n])
  BY <1>1, LenProperties DEF AtEnd
<1> QED
  BY <1>1, <1>2, ElementOfSeq DEF Target

\* A request that is refused, or that changes nothing at its target.
LEMMA MoveOnInv ==
    ASSUME IInv, NEW n \in Nodes, ~AtEnd(n), pc[n] \in {"announce", "fetch", "send"},
           at' = [at EXCEPT ![n] = @ + 1],
           UNCHANGED <<pc, nodes, chain, json, asked, mined, replace, left, overlap, before, heard>>
    PROVE  IInv'
<1>1. Shapes'
  BY DEF IInv, Shapes
<1>2. ASSUME NEW m \in Nodes
      PROVE  NodeInv(m)'
  <2>1. CASE m # n
    <3>1. Same(m) /\ (overlap => overlap') /\ NodeInv(m)
      BY <2>1 DEF Same, IInv, Shapes
    <3> QED
      BY <3>1, SameNode
  <2>2. CASE m = n
    <3>1. NodeInv(m) /\ pc[m] \in {"announce", "fetch", "send"} /\ at[m] \in Nat \ {0} /\ at'[m] = at[m] + 1
      BY <2>2 DEF IInv, Shapes
    <3>2. at[m] \in 1..Len(nodes[m]) /\ Len(nodes[m]) \in Nat
      BY <2>2, TargetNode DEF IInv
    <3>3. ServerType(m)' /\ (~overlap' => ServerOK(m)')
      BY <3>1, SameServerNode DEF SameServer, ServerUp
    <3>4. MainType(m)'
      BY <3>1, <3>2 DEF NodeInv, MainType
    <3>5. ~overlap' => MainOK(m)'
      BY <3>1 DEF NodeInv, MainOK, Reading
    <3> QED
      BY <3>3, <3>4, <3>5 DEF NodeInv
  <2> QED
    BY <2>1, <2>2
<1> QED
  BY <1>1, <1>2 DEF IInv

LEMMA AnnounceInv ==
    ASSUME IInv, NEW n \in Nodes, Announce(n)
    PROVE  IInv'
<1>1. CASE Refused(n) /\ UNCHANGED <<pc, nodes>>
  BY <1>1, MoveOnInv DEF Announce, Refused
<1>2. CASE /\ AtEnd(n)
           /\ pc' = [pc EXCEPT ![n] = "fetch"] /\ at' = [at EXCEPT ![n] = 1]
           /\ UNCHANGED nodes
  <2>1. Shapes'
    BY <1>2 DEF IInv, Shapes, Announce
  <2>2. ASSUME NEW m \in Nodes
        PROVE  NodeInv(m)'
    <3>1. CASE m # n
      <4>1. Same(m) /\ (overlap => overlap') /\ NodeInv(m)
        BY <1>2, <3>1 DEF Announce, Same, IInv, Shapes
      <4> QED
        BY <4>1, SameNode
    <3>2. CASE m = n
      <4>1. /\ NodeInv(m) /\ pc[m] = "announce" /\ pc'[m] = "fetch" /\ at'[m] = 1 /\ nodes'[m] = nodes[m]
            /\ json' = json /\ asked' = asked /\ mined' = mined /\ left' = left /\ overlap' = overlap /\ SameServer(m)
            /\ nodes[m] \in Seq(Nodes)
        BY <1>2, <3>2 DEF Announce, IInv, Shapes, SameServer
      <4>2. ServerType(m)' /\ (~overlap' => ServerOK(m)')
        BY <4>1, SameServerNode DEF ServerUp
      <4>3. Len(nodes[m]) \in Nat
        BY <4>1, LenProperties
      <4>4. MainType(m)'
        BY <4>1, <4>3 DEF NodeInv, MainType
      <4>5. ~overlap' => MainOK(m)'
        BY <4>1 DEF NodeInv, MainOK, Reading, SameServer
      <4> QED
        BY <4>2, <4>4, <4>5 DEF NodeInv
    <3> QED
      BY <3>1, <3>2
  <2> QED
    BY <2>1, <2>2 DEF IInv
<1>3. CASE /\ ~AtEnd(n) /\ Free(Target(n))
           /\ nodes' = [nodes EXCEPT ![Target(n)] = Append(@, n)]
           /\ at' = [at EXCEPT ![n] = @ + 1]
           /\ UNCHANGED pc
  <2> DEFINE t == Target(n)
  <2>1. /\ t \in Nodes /\ at[n] \in 1..Len(nodes[n]) /\ Len(nodes[n]) \in Nat
        /\ t # n /\ pc[n] = "announce"
    BY <1>3, TargetNode DEF IInv, Announce, Free, ServerUp
  <2>2. /\ nodes' = [nodes EXCEPT ![t] = Append(nodes[t], n)]
        /\ nodes[t] \in Seq(Nodes)
    BY <1>3, <2>1 DEF IInv, Shapes
  <2>3. Append(nodes[t], n) \in Seq(Nodes) /\ Len(Append(nodes[t], n)) = Len(nodes[t]) + 1 /\ Len(nodes[t]) \in Nat
    BY <2>2, AppendProperties, LenProperties
  <2> HIDE DEF t
  <2>4. Shapes'
    <3>1. nodes' \in [Nodes -> Seq(Nodes)]
      <4>1. nodes \in [Nodes -> Seq(Nodes)]
        BY DEF IInv, Shapes
      <4> QED
        BY <2>1, <2>2, <2>3, <4>1
    <3>2. at' \in [Nodes -> Nat \ {0}]
      <4>1. at \in [Nodes -> Nat \ {0}] /\ at[n] + 1 \in Nat \ {0}
        BY DEF IInv, Shapes
      <4> QED
        BY <1>3, <4>1
    <3>3. UNCHANGED <<pc, chain, json, asked, mined, replace, left, overlap, before, heard>>
      BY <1>3 DEF Announce
    <3> QED
      BY <3>1, <3>2, <3>3 DEF IInv, Shapes
  <2>5. ASSUME NEW m \in Nodes
        PROVE  NodeInv(m)'
    <3>1. CASE m # n /\ m # t
      <4>1. Same(m) /\ (overlap => overlap') /\ NodeInv(m)
        BY <1>3, <2>2, <3>1 DEF Announce, Same, IInv, Shapes
      <4> QED
        BY <4>1, SameNode
    <3>2. CASE m = t \/ m = n
      <4>1. /\ NodeInv(m) /\ pc' = pc /\ SameServer(m)
            /\ json' = json /\ asked' = asked /\ mined' = mined /\ left' = left /\ overlap' = overlap
            /\ at[m] \in Nat \ {0}
        BY <1>3, <3>2 DEF Announce, IInv, Shapes, SameServer
      <4>2. ServerType(m)' /\ (~overlap' => ServerOK(m)')
        BY <4>1, SameServerNode DEF ServerUp
      <4>3. \/ at'[m] = at[m] /\ nodes'[m] = Append(nodes[m], n) /\ m = t
            \/ /\ pc[m] = "announce" /\ at'[m] = at[m] + 1 /\ nodes'[m] = nodes[m]
               /\ at[m] \in 1..Len(nodes[m]) /\ Len(nodes[m]) \in Nat
        BY <1>3, <2>1, <2>2, <3>2 DEF IInv, Shapes
      <4>4. MainType(m)'
        <5>1. CASE at'[m] = at[m] /\ nodes'[m] = Append(nodes[m], n) /\ m = t
          <6>1. Len(nodes[m]) \in Nat /\ Len(nodes'[m]) = Len(nodes[m]) + 1
            BY <2>3, <5>1
          <6> QED
            BY <4>1, <5>1, <6>1 DEF NodeInv, MainType
        <5>2. CASE at'[m] # at[m] \/ nodes'[m] # Append(nodes[m], n) \/ m # t
          BY <4>1, <4>3, <5>2 DEF NodeInv, MainType
        <5> QED
          BY <5>1, <5>2
      <4>5. ~overlap' => MainOK(m)'
        <5>1. json'[m] = json[m] /\ asked'[m] = asked[m] /\ mined'[m] = mined[m] /\ pc'[m] = pc[m]
          BY <4>1
        <5>2. at'[m] = at[m] => (Copied(m)' <=> Copied(m))
          BY <4>1, <5>1, SameReading DEF SameServer
        <5>3. Reading(m)' <=> Reading(m)
          BY <4>1, <5>1, SameReading DEF SameServer
        <5> QED
          BY <4>1, <4>3, <5>2, <5>3 DEF NodeInv, MainOK, SameServer
      <4> QED
        BY <4>2, <4>4, <4>5 DEF NodeInv
    <3> QED
      BY <3>1, <3>2
  <2> QED
    BY <2>4, <2>5 DEF IInv
<1> QED
  BY <1>1, <1>2, <1>3 DEF Announce

LEMMA LongestOf ==
    ASSUME NEW a, NEW b, a.length \in Nat, b.length \in Nat
    PROVE  /\ Longest(a, b) \in {a, b} /\ Longest(a, b).length = Max({a.length, b.length})
           /\ Longest(a, b).length >= a.length /\ Longest(a, b).length >= b.length
BY MaxOfTwo DEF Longest

LEMMA FetchInv ==
    ASSUME IInv, NEW n \in Nodes, Fetch(n)
    PROVE  IInv'
<1>1. CASE Refused(n) /\ UNCHANGED <<pc, json, heard>>
  BY <1>1, MoveOnInv DEF Fetch, Refused
<1>2. CASE /\ ~AtEnd(n) /\ Free(Target(n))
           /\ json' = [json EXCEPT ![n] = Longest(@, ToJSON(chain[Target(n)]))]
           /\ heard' = [heard EXCEPT ![n] = Max({@, ToJSON(chain[Target(n)]).length})]
           /\ at' = [at EXCEPT ![n] = @ + 1]
           /\ UNCHANGED pc
  <2> DEFINE answer == ToJSON(chain[Target(n)])
  <2>1. /\ Target(n) \in Nodes /\ at[n] \in 1..Len(nodes[n]) /\ Len(nodes[n]) \in Nat
        /\ pc[n] = "fetch" /\ UNCHANGED <<nodes, chain, asked, mined, replace, left, overlap, before>>
    BY <1>2, TargetNode DEF IInv, Fetch
  <2>2. NodeInv(Target(n)) /\ IsChain(chain[Target(n)])
    BY <2>1 DEF IInv, NodeInv, ServerType
  <2>3. answer.length \in Nat \ {0}
    BY <2>2, ToJSONLength
  <2>4. ~overlap => Whole(answer)
    BY <2>2, ToJSONWhole DEF NodeInv, ServerOK
  <2>5. NodeInv(n) /\ json[n].length \in Nat /\ heard[n] \in Nat
    BY DEF IInv, Shapes, NodeInv, MainType
  <2>6. /\ json' = [json EXCEPT ![n] = Longest(json[n], answer)]
        /\ heard' = [heard EXCEPT ![n] = Max({heard[n], answer.length})]
    BY <1>2 DEF IInv, Shapes
  <2> HIDE DEF answer
  <2>7. /\ Longest(json[n], answer) \in {json[n], answer}
        /\ Longest(json[n], answer).length = Max({json[n].length, answer.length})
        /\ Longest(json[n], answer).length >= answer.length
    BY <2>3, <2>5, LongestOf
  <2>8. Max({heard[n], answer.length}) \in Nat
    BY <2>3, <2>5, MaxOfTwo
  <2>9. Shapes'
    <3>1. heard' \in [Nodes -> Nat] /\ DOMAIN json' = Nodes
      BY <2>6, <2>8 DEF IInv, Shapes
    <3> QED
      <4>1. at' \in [Nodes -> Nat \ {0}]
        BY <1>2 DEF IInv, Shapes
      <4> QED
        BY <1>2, <2>1, <3>1, <4>1 DEF IInv, Shapes
  <2>10. ASSUME NEW m \in Nodes
         PROVE  NodeInv(m)'
    <3>1. CASE m # n
      <4>1. Same(m) /\ (overlap => overlap') /\ NodeInv(m)
        BY <1>2, <2>1, <2>6, <3>1 DEF Same, IInv, Shapes
      <4> QED
        BY <4>1, SameNode
    <3>2. CASE m = n
      <4>1. /\ NodeInv(m) /\ pc[m] = "fetch" /\ pc'[m] = "fetch" /\ at'[m] = at[m] + 1 /\ nodes'[m] = nodes[m]
            /\ at[m] \in 1..Len(nodes[m]) /\ Len(nodes[m]) \in Nat
            /\ chain'[m] = chain[m] /\ asked'[m] = asked[m] /\ mined'[m] = mined[m] /\ left'[m] = left[m]
            /\ replace'[m] = replace[m] /\ before'[m] = before[m] /\ overlap' = overlap
            /\ json'[m] \in {json[m], answer} /\ json'[m].length = Max({json[m].length, answer.length})
            /\ json'[m].length >= answer.length
            /\ heard'[m] = Max({heard[m], answer.length})
        BY <1>2, <2>1, <2>5, <2>6, <2>7, <3>2 DEF IInv, Shapes
      <4>2. ServerType(m)'
        BY <4>1 DEF NodeInv, ServerType, ServerUp
      <4>3. json'[m].length \in Nat \ {0}
        BY <2>3, <4>1 DEF NodeInv, MainType
      <4>4. MainType(m)'
        BY <4>1, <4>3 DEF NodeInv, MainType
      <4>5. ~overlap' => MainOK(m)'
        <5>1. ASSUME ~overlap
              PROVE  Whole(json'[m])
          BY <2>3, <2>4, <4>1, <5>1, <4>3 DEF NodeInv, MainOK, Reading
        <5> QED
          BY <4>1, <5>1 DEF NodeInv, MainOK, Reading
      <4>6. ~overlap' => ServerOK(m)'
        <5>1. replace[m] = NoReplace
          BY <4>1 DEF NodeInv, ServerType, ServerUp
        <5> QED
          BY <4>1, <5>1 DEF NodeInv, ServerOK, ServerUp
      <4> QED
        BY <4>2, <4>4, <4>5, <4>6 DEF NodeInv
    <3> QED
      BY <3>1, <3>2
  <2> QED
    BY <2>9, <2>10 DEF IInv
<1>3. CASE \/ /\ AtEnd(n) /\ json[n] # NoJSON
              /\ pc' = [pc EXCEPT ![n] = "rebuild"] /\ at' = [at EXCEPT ![n] = 1]
              /\ UNCHANGED <<json, heard>>
           \/ /\ AtEnd(n) /\ json[n] = NoJSON
              /\ pc' = [pc EXCEPT ![n] = "dead"]
              /\ UNCHANGED <<at, json, heard>>
  <2>1. Shapes'
    <3>1. at' \in [Nodes -> Nat \ {0}]
      <4>1. at' = at \/ at' = [at EXCEPT ![n] = 1]
        BY <1>3
      <4>2. at \in [Nodes -> Nat \ {0}] /\ 1 \in Nat \ {0}
        BY DEF IInv, Shapes
      <4> QED
        BY <4>1, <4>2
    <3>2. pc' \in [Nodes -> {"off", "announce", "fetch", "rebuild", "menu", "search", "mined",
                            "asked", "test", "push", "snapshot", "copy", "send", "wait", "dead"}]
      <4>1. CASE pc' = [pc EXCEPT ![n] = "rebuild"]
        BY <4>1 DEF IInv, Shapes
      <4>2. CASE pc' = [pc EXCEPT ![n] = "dead"]
        BY <4>2 DEF IInv, Shapes
      <4> QED
        BY <1>3, <4>1, <4>2
    <3> QED
      BY <1>3, <3>1, <3>2 DEF IInv, Shapes, Fetch
  <2>2. ASSUME NEW m \in Nodes
        PROVE  NodeInv(m)'
    <3>1. CASE m # n
      <4>1. Same(m) /\ (overlap => overlap') /\ NodeInv(m)
        BY <1>3, <3>1 DEF Fetch, Same, IInv, Shapes
      <4> QED
        BY <4>1, SameNode
    <3>2. CASE m = n
      <4>1. /\ NodeInv(m) /\ pc[m] = "fetch" /\ nodes'[m] = nodes[m]
            /\ json'[m] = json[m] /\ asked'[m] = asked[m] /\ mined'[m] = mined[m] /\ left'[m] = left[m] /\ overlap' = overlap
            /\ SameServer(m)
            /\ \/ pc'[m] = "rebuild" /\ at'[m] = 1 /\ json[m] # NoJSON
               \/ pc'[m] = "dead" /\ at'[m] = at[m]
        BY <1>3, <3>2 DEF Fetch, IInv, Shapes, SameServer
      <4>2. ServerType(m)' /\ (~overlap' => ServerOK(m)')
        BY <4>1, SameServerNode DEF ServerUp
      <4>3. json[m] # NoJSON => json[m].length \in Nat \ {0}
        BY <4>1 DEF NodeInv, MainType
      <4>4. MainType(m)'
        BY <4>1, <4>3 DEF NodeInv, MainType
      <4>5. ~overlap' => MainOK(m)'
        <5>1. ASSUME ~overlap, pc'[m] = "rebuild"
              PROVE  Follows(chain[m], json[m], 1) /\ Whole(json[m])
          <6>1. IsChain(chain[m]) /\ Len(chain[m]) = 1 /\ Whole(json[m])
            BY <4>1, <4>3, <5>1 DEF NodeInv, MainOK, Reading, ServerType
          <6> QED
            BY <6>1, FollowsFirst
        <5> QED
          BY <4>1, <4>3, <5>1 DEF NodeInv, MainOK, Reading, SameServer
      <4> QED
        BY <4>2, <4>4, <4>5 DEF NodeInv
    <3> QED
      BY <3>1, <3>2
  <2> QED
    BY <2>1, <2>2 DEF IInv
<1> QED
  BY <1>1, <1>2, <1>3 DEF Fetch

LEMMA RebuildInv ==
    ASSUME IInv, NEW n \in Nodes, Rebuild(n)
    PROVE  IInv'
<1>1. Shapes'
  <2>1. at' \in [Nodes -> Nat \ {0}]
    <3>1. at' = at \/ at' = [at EXCEPT ![n] = 1] \/ at' = [at EXCEPT ![n] = at[n] + 1]
      BY DEF Rebuild
    <3>2. at \in [Nodes -> Nat \ {0}] /\ at[n] + 1 \in Nat \ {0}
      BY DEF IInv, Shapes
    <3> QED
      BY <3>1, <3>2
  <2>2. pc' \in [Nodes -> {"off", "announce", "fetch", "rebuild", "menu", "search", "mined",
                          "asked", "test", "push", "snapshot", "copy", "send", "wait", "dead"}]
    BY DEF IInv, Shapes, Rebuild
  <2>3. DOMAIN chain' = Nodes /\ DOMAIN json' = Nodes
    BY DEF IInv, Shapes, Rebuild
  <2> QED
    BY <2>1, <2>2, <2>3 DEF IInv, Shapes, Rebuild
<1>2. ASSUME NEW m \in Nodes
      PROVE  NodeInv(m)'
  <2>1. CASE m # n
    <3>1. Same(m) /\ (overlap => overlap') /\ NodeInv(m)
      BY <2>1 DEF Rebuild, Same, IInv, Shapes
    <3> QED
      BY <3>1, SameNode
  <2>2. CASE m = n
    <3>1. /\ NodeInv(m) /\ pc[m] = "rebuild" /\ nodes'[m] = nodes[m] /\ asked'[m] = asked[m] /\ mined'[m] = mined[m]
          /\ left'[m] = left[m] /\ overlap' = overlap /\ replace'[m] = replace[m]
          /\ before'[m] = before[m] /\ heard'[m] = heard[m]
          /\ at[m] \in Nat \ {0} /\ nodes[m] \in Seq(Nodes)
      BY <2>2 DEF Rebuild, IInv, Shapes
    <3>2. /\ replace[m] = NoReplace /\ IsChain(chain[m]) /\ json[m].length \in Nat
          /\ Len(nodes[m]) \in Nat /\ NoJSON.length = 0
      BY <3>1, LenProperties DEF NodeInv, ServerType, MainType, ServerUp, NoJSON
    <3>3. CASE /\ at[m] < json[m].length /\ at[m] \in DOMAIN json[m].data
               /\ chain'[m] = AddBlock(chain[m], json[m].data[at[m]])
               /\ at'[m] = at[m] + 1 /\ pc'[m] = pc[m] /\ json'[m] = json[m]
      <4>1. ServerType(m)'
        BY <3>1, <3>2, <3>3, AddBlockIsChain DEF NodeInv, ServerType
      <4>2. MainType(m)'
        BY <3>1, <3>2, <3>3 DEF NodeInv, MainType
      <4>3. ASSUME ~overlap
            PROVE  Linked(chain'[m]) /\ Follows(chain'[m], json[m], at[m] + 1)
        <5>1. /\ Linked(chain[m]) /\ Whole(json[m]) /\ Follows(chain[m], json[m], at[m])
              /\ at[m] \in 1..(json[m].length - 1)
          BY <3>1, <3>2, <3>3, <4>3 DEF NodeInv, MainOK, Reading, ServerOK
        <5>2. PICK k : k = at[m]
          OBVIOUS
        <5>3. /\ AddBlock(chain[m], json[m].data[k]) = Append(chain[m], json[m].data[k])
              /\ Linked(Append(chain[m], json[m].data[k]))
              /\ Follows(Append(chain[m], json[m].data[k]), json[m], k + 1)
          BY <3>2, <5>1, <5>2, FollowsNext
        <5> QED
          BY <3>3, <5>2, <5>3
      <4>4. ~overlap' => MainOK(m)'
        BY <3>1, <3>2, <3>3, <4>3 DEF NodeInv, MainOK, Reading
      <4>5. ~overlap' => ServerOK(m)'
        BY <3>1, <3>2, <3>3, <4>3 DEF NodeInv, ServerOK, ServerUp
      <4> QED
        BY <4>1, <4>2, <4>4, <4>5 DEF NodeInv
    <3>4. CASE /\ pc'[m] = "dead" /\ at'[m] = 1 /\ chain'[m] = chain[m] /\ json'[m] = json[m]
      <4>1. ServerType(m)' /\ (~overlap' => ServerOK(m)')
        BY <3>1, <3>4, SameServerNode DEF ServerUp, SameServer
      <4>2. MainType(m)'
        BY <3>1, <3>2, <3>4 DEF NodeInv, MainType
      <4>3. ~overlap' => MainOK(m)'
        BY <3>1, <3>4 DEF NodeInv, MainOK, Reading
      <4> QED
        BY <4>1, <4>2, <4>3 DEF NodeInv
    <3>5. CASE /\ at[m] = json[m].length
               /\ pc'[m] = "menu" /\ at'[m] = 1 /\ json'[m] = NoJSON /\ chain'[m] = chain[m]
      <4>1. ServerType(m)'
        BY <3>1, <3>2, <3>5 DEF NodeInv, ServerType
      <4>2. MainType(m)'
        BY <3>1, <3>2, <3>5 DEF NodeInv, MainType
      <4>3. ~overlap' => MainOK(m)'
        BY <3>1, <3>2, <3>5 DEF NodeInv, MainOK, Reading
      <4>4. ~overlap' => ServerOK(m)'
        BY <3>1, <3>2, <3>5 DEF NodeInv, ServerOK, MainOK, Reading, Follows
      <4> QED
        BY <4>1, <4>2, <4>3, <4>4 DEF NodeInv
    <3>6. \/ /\ at[n] < json[n].length /\ at[n] \in DOMAIN json[n].data
             /\ chain' = [chain EXCEPT ![n] = AddBlock(chain[n], json[n].data[at[n]])]
             /\ at' = [at EXCEPT ![n] = at[n] + 1] /\ pc' = pc /\ json' = json
          \/ /\ pc' = [pc EXCEPT ![n] = "dead"] /\ at' = [at EXCEPT ![n] = 1]
             /\ chain' = chain /\ json' = json
          \/ /\ at[n] = json[n].length
             /\ pc' = [pc EXCEPT ![n] = "menu"] /\ at' = [at EXCEPT ![n] = 1]
             /\ json' = [json EXCEPT ![n] = NoJSON] /\ chain' = chain
      BY DEF Rebuild
    <3> QED
      BY <2>2, <3>3, <3>4, <3>5, <3>6 DEF IInv, Shapes
  <2> QED
    BY <2>1, <2>2
<1> QED
  BY <1>1, <1>2 DEF IInv

LEMMA NextBlockOf ==
    ASSUME NEW n, NEW c, IsChain(c)
    PROVE  /\ NextBlock(n, c).index = Len(c) /\ NextBlock(n, c).index \in Nat
           /\ NextBlock(n, c).prev = c[Len(c)]
BY ChainProperties DEF NextBlock, Last

\* A block on top of the chain as it is.
LEMMA ReadNow ==
    ASSUME NEW n \in Nodes, NodeInv(n)
    PROVE  /\ IsBlock(NextBlock(n, chain[n])) /\ NextBlock(n, chain[n]).index = Len(chain[n])
           /\ NextBlock(n, chain[n]).prev = chain[n][Len(chain[n])]
           /\ NextBlock(n, chain[n]).text = n
           /\ ~overlap => ReadOK(n, NextBlock(n, chain[n]))
<1>1. IsChain(chain[n]) /\ Len(chain[n]) \in Nat \ {0}
  BY ChainProperties DEF NodeInv, ServerType
<1>2. /\ NextBlock(n, chain[n]).index = Len(chain[n])
      /\ NextBlock(n, chain[n]).prev = chain[n][Len(chain[n])]
      /\ NextBlock(n, chain[n]).text = n
  BY DEF NextBlock, Last
<1>3. IsBlock(NextBlock(n, chain[n]))
  BY <1>1, <1>2 DEF IsBlock, NextBlock
<1>4. ASSUME ~overlap
      PROVE  ReadOK(n, NextBlock(n, chain[n]))
  <2>1. CASE replace[n] = NoReplace
    BY <1>1, <1>2, <2>1 DEF ReadOK, Goal, Settled
  <2>2. CASE replace[n] # NoReplace
    <3>1. /\ replace[n].next \in 0..replace[n].json.length /\ replace[n].json.length \in Nat \ {0}
          /\ replace[n].next = 0 => Len(chain[n]) < replace[n].json.length
          /\ replace[n].next # 0 => Len(chain[n]) = replace[n].next
      BY <1>4, <2>2 DEF NodeInv, ServerType, ServerOK, Follows
    <3> QED
      BY <1>1, <1>2, <2>2, <3>1 DEF ReadOK, Goal, Settled
  <2> QED
    BY <2>1, <2>2
<1> QED
  BY <1>2, <1>3, <1>4

\* Of two blocks that were read, each part is that of one or of the other.
LEMMA ReadAgainOf ==
    ASSUME NEW n \in Nodes, NEW c, IsBlock(NextBlock(n, c)), NEW a, IsBlock(a),
           NEW b \in ReadAgain(a, c)
    PROVE  /\ IsBlock(b) /\ b.index \in {a.index, NextBlock(n, c).index}
           /\ a = NextBlock(n, c) => b = a
<1>1. NextBlock(n, c).index = Len(c) /\ NextBlock(n, c).prev = Last(c) /\ Len(c) \in Nat
  BY DEF NextBlock, IsBlock
<1>2. a = [index |-> a.index, prev |-> a.prev, text |-> a.text] /\ a.index \in Nat
  BY DEF IsBlock
<1>3. CASE b = [a EXCEPT !.index = Len(c)]
  <2>1. b = [index |-> Len(c), prev |-> a.prev, text |-> a.text]
    BY <1>2, <1>3
  <2> QED
    BY <1>1, <1>2, <2>1 DEF IsBlock
<1>4. CASE b = [a EXCEPT !.prev = Last(c)]
  <2>1. b = [index |-> a.index, prev |-> Last(c), text |-> a.text]
    BY <1>2, <1>4
  <2> QED
    BY <1>1, <1>2, <2>1 DEF IsBlock
<1> QED
  BY <1>3, <1>4 DEF ReadAgain

\* A step of main() behind which it is at another point.
Reads(m) ==
    /\ nodes'[m] = nodes[m] /\ at'[m] = at[m] /\ json'[m] = json[m]
    /\ overlap' = overlap /\ SameServer(m)
    /\ pc[m] \in {"menu", "search", "mined", "asked", "test"}
    /\ pc'[m] \in {"search", "mined", "asked", "test", "push", "snapshot"}

LEMMA ReadsInv ==
    ASSUME NEW m \in Nodes, NodeInv(m), Reads(m), IsBlock(asked[m])', IsBlock(mined[m])',
           left'[m] <= MaxBlocks[m],
           ~overlap => /\ pc'[m] = "search" => ReadOK(m, asked'[m])
                       /\ pc'[m] \in {"mined", "asked", "test"} => ReadOK(m, mined'[m])
                       /\ pc'[m] \in {"asked", "test"} /\ mined'[m].index = Goal(m) =>
                              asked'[m] = NextBlock(m, chain[m])
                       /\ pc'[m] = "push" => mined'[m] = NextBlock(m, chain[m]) \/ ~Settled(m)
    PROVE  NodeInv(m)'
<1>1. ServerType(m)' /\ (~overlap' => ServerOK(m)')
  BY SameServerNode DEF Reads, ServerUp
<1>2. MainType(m)'
  BY DEF NodeInv, Reads, MainType
<1>3. Goal(m)' = Goal(m) /\ (Settled(m)' <=> Settled(m)) /\ chain'[m] = chain[m]
  BY DEF Reads, SameServer, Goal, Settled
<1>4. ~overlap' => MainOK(m)'
  BY <1>3 DEF NodeInv, Reads, MainOK, Reading, ReadOK
<1> QED
  BY <1>1, <1>2, <1>4 DEF NodeInv

LEMMA MineInv ==
    ASSUME IInv, NEW n \in Nodes, Mine(n)
    PROVE  IInv'
<1>1. Shapes'
  <2>1. left' \in [Nodes -> Nat]
    <3>1. left[n] \in Nat /\ left[n] > 0
      BY DEF IInv, Shapes, Mine
    <3>2. left[n] - 1 \in Nat
      BY <3>1
    <3> QED
      BY <3>2 DEF IInv, Shapes, Mine
  <2> QED
    BY <2>1 DEF IInv, Shapes, Mine, Go
<1>2. ASSUME NEW m \in Nodes
      PROVE  NodeInv(m)'
  <2>1. CASE m # n
    <3>1. Same(m) /\ (overlap => overlap') /\ NodeInv(m)
      BY <2>1 DEF Mine, Go, Same, IInv, Shapes
    <3> QED
      BY <3>1, SameNode
  <2>2. CASE m = n
    <3>1. /\ NodeInv(m) /\ Reads(m) /\ pc'[m] = "search" /\ asked'[m] = NextBlock(m, chain[m])
          /\ mined'[m] = mined[m] /\ left'[m] = left[m] - 1 /\ left[m] \in Nat /\ MaxBlocks[m] \in Nat
      BY <2>2, BlockChainAssumption DEF Mine, Go, IInv, Shapes, SameServer, Reads
    <3>2. IsBlock(mined[m]) /\ left[m] <= MaxBlocks[m]
      BY <3>1 DEF NodeInv, MainType
    <3>3. left'[m] <= MaxBlocks[m]
      BY <3>1, <3>2
    <3>4. IsBlock(asked[m])' /\ IsBlock(mined[m])'
      BY <3>1, <3>2, ReadNow DEF IsBlock
    <3>5. ~overlap => ReadOK(m, asked'[m])
      BY <3>1, ReadNow
    <3> QED
      BY <3>1, <3>3, <3>4, <3>5, ReadsInv
  <2> QED
    BY <2>1, <2>2
<1> QED
  BY <1>1, <1>2 DEF IInv

LEMMA FindInv ==
    ASSUME IInv, NEW n \in Nodes, Find(n)
    PROVE  IInv'
<1>1. Shapes'
  BY DEF IInv, Shapes, Find, Go
<1>2. ASSUME NEW m \in Nodes
      PROVE  NodeInv(m)'
  <2>1. CASE m # n
    <3>1. Same(m) /\ (overlap => overlap') /\ NodeInv(m)
      BY <2>1 DEF Find, Go, Same, IInv, Shapes
    <3> QED
      BY <3>1, SameNode
  <2>2. CASE m = n
    <3>1. /\ NodeInv(m) /\ Reads(m) /\ pc[m] = "search" /\ pc'[m] = "mined" /\ asked'[m] = asked[m]
          /\ mined'[m] \in ReadAgain(asked[m], chain[m]) /\ left'[m] = left[m]
      BY <2>2 DEF Find, Go, IInv, Shapes, SameServer, Reads
    <3>2. IsBlock(asked[m]) /\ left[m] <= MaxBlocks[m]
      BY <3>1 DEF NodeInv, MainType
    <3>3. PICK b : b = mined'[m]
      OBVIOUS
    <3>4. IsBlock(b) /\ b.index \in {asked[m].index, NextBlock(m, chain[m]).index}
      BY <3>1, <3>2, <3>3, ReadNow, ReadAgainOf
    <3>5. IsBlock(asked[m])' /\ IsBlock(mined[m])'
      BY <3>1, <3>2, <3>3, <3>4 DEF IsBlock
    <3>6. ~overlap => ReadOK(m, mined'[m])
      BY <3>1, <3>3, <3>4, ReadNow DEF NodeInv, MainOK, Reading, ReadOK
    <3> QED
      BY <3>1, <3>2, <3>5, <3>6, ReadsInv
  <2> QED
    BY <2>1, <2>2
<1> QED
  BY <1>1, <1>2 DEF IInv

LEMMA AskInv ==
    ASSUME IInv, NEW n \in Nodes, Ask(n)
    PROVE  IInv'
<1>1. Shapes'
  BY DEF IInv, Shapes, Ask, Go
<1>2. ASSUME NEW m \in Nodes
      PROVE  NodeInv(m)'
  <2>1. CASE m # n
    <3>1. Same(m) /\ (overlap => overlap') /\ NodeInv(m)
      BY <2>1 DEF Ask, Go, Same, IInv, Shapes
    <3> QED
      BY <3>1, SameNode
  <2>2. CASE m = n
    <3>1. /\ NodeInv(m) /\ Reads(m) /\ pc[m] = "mined" /\ pc'[m] = "asked"
          /\ asked'[m] = NextBlock(m, chain[m]) /\ mined'[m] = mined[m] /\ left'[m] = left[m]
      BY <2>2 DEF Ask, Go, IInv, Shapes, SameServer, Reads
    <3>2. IsBlock(mined[m]) /\ left[m] <= MaxBlocks[m]
      BY <3>1 DEF NodeInv, MainType
    <3>3. IsBlock(asked[m])' /\ IsBlock(mined[m])'
      BY <3>1, <3>2, ReadNow DEF IsBlock
    <3>4. ~overlap => ReadOK(m, mined'[m])
      BY <3>1 DEF NodeInv, MainOK, Reading
    <3> QED
      BY <3>1, <3>2, <3>3, <3>4, ReadsInv
  <2> QED
    BY <2>1, <2>2
<1> QED
  BY <1>1, <1>2 DEF IInv

LEMMA AskedInv ==
    ASSUME IInv, NEW n \in Nodes, Asked(n)
    PROVE  IInv'
<1>1. Shapes'
  BY DEF IInv, Shapes, Asked, Go
<1>2. ASSUME NEW m \in Nodes
      PROVE  NodeInv(m)'
  <2>1. CASE m # n
    <3>1. Same(m) /\ (overlap => overlap') /\ NodeInv(m)
      BY <2>1 DEF Asked, Go, Same, IInv, Shapes
    <3> QED
      BY <3>1, SameNode
  <2>2. CASE m = n
    <3>1. /\ NodeInv(m) /\ Reads(m) /\ pc[m] = "asked" /\ pc'[m] = "test" /\ mined'[m] = mined[m]
          /\ asked'[m] \in ReadAgain(asked[m], chain[m]) /\ left'[m] = left[m]
      BY <2>2 DEF Asked, Go, IInv, Shapes, SameServer, Reads
    <3>2. IsBlock(asked[m]) /\ IsBlock(mined[m]) /\ left[m] <= MaxBlocks[m]
      BY <3>1 DEF NodeInv, MainType
    <3>3. PICK b : b = asked'[m]
      OBVIOUS
    <3>4. IsBlock(b) /\ (asked[m] = NextBlock(m, chain[m]) => b = asked[m])
      BY <3>1, <3>2, <3>3, ReadNow, ReadAgainOf
    <3>5. IsBlock(asked[m])' /\ IsBlock(mined[m])'
      BY <3>1, <3>2, <3>3, <3>4 DEF IsBlock
    <3>6. ~overlap => /\ ReadOK(m, mined'[m])
                      /\ mined'[m].index = Goal(m) => asked'[m] = NextBlock(m, chain[m])
      BY <3>1, <3>3, <3>4 DEF NodeInv, MainOK, Reading
    <3> QED
      BY <3>1, <3>2, <3>5, <3>6, ReadsInv
  <2> QED
    BY <2>1, <2>2
<1> QED
  BY <1>1, <1>2 DEF IInv

\* A block that passes the test is on top of the chain, or the chain is still
\* being replaced by a longer one.
LEMMA CheckInv ==
    ASSUME IInv, NEW n \in Nodes, Check(n)
    PROVE  IInv'
<1>1. Shapes'
  BY DEF IInv, Shapes, Check, Go
<1>2. ASSUME NEW m \in Nodes
      PROVE  NodeInv(m)'
  <2>1. CASE m # n
    <3>1. Same(m) /\ (overlap => overlap') /\ NodeInv(m)
      BY <2>1 DEF Check, Go, Same, IInv, Shapes
    <3> QED
      BY <3>1, SameNode
  <2>2. CASE m = n
    <3>1. /\ NodeInv(m) /\ Reads(m) /\ pc[m] = "test" /\ pc'[m] \in {"push", "snapshot"}
          /\ pc'[m] = "push" => mined[m] = asked[m] /\ asked[m].index = Len(chain[m])
          /\ asked'[m] = asked[m] /\ mined'[m] = mined[m] /\ left'[m] = left[m]
      BY <2>2 DEF Check, Go, Accepts, IInv, Shapes, SameServer, Reads
    <3>2. IsBlock(asked[m]) /\ IsBlock(mined[m]) /\ left[m] <= MaxBlocks[m]
      BY <3>1 DEF NodeInv, MainType
    <3>3. IsBlock(asked[m])' /\ IsBlock(mined[m])'
      BY <3>1, <3>2 DEF IsBlock
    <3>4. ASSUME ~overlap, pc'[m] = "push"
          PROVE  mined'[m] = NextBlock(m, chain[m]) \/ ~Settled(m)
      <4>1. mined[m].index = Goal(m) => mined[m] = NextBlock(m, chain[m])
        BY <3>1, <3>4 DEF NodeInv, MainOK, Reading
      <4>2. Settled(m) => Len(chain[m]) = Goal(m)
        <5>1. replace[m] # NoReplace /\ replace[m].next = replace[m].json.length =>
                  Len(chain[m]) = replace[m].json.length
          BY <3>1, <3>4 DEF NodeInv, ServerType, ServerOK, Follows
        <5> QED
          BY <5>1 DEF Settled, Goal
      <4> QED
        BY <3>1, <3>4, <4>1, <4>2
    <3> QED
      BY <3>1, <3>2, <3>3, <3>4, ReadsInv
  <2> QED
    BY <2>1, <2>2
<1> QED
  BY <1>1, <1>2 DEF IInv

LEMMA PushInv ==
    ASSUME IInv, NEW n \in Nodes, Push(n)
    PROVE  IInv'
<1>1. Shapes'
  BY DEF IInv, Shapes, Push, Go, Busy
<1>2. ASSUME NEW m \in Nodes
      PROVE  NodeInv(m)'
  <2>1. CASE m # n
    <3>1. Same(m) /\ (overlap => overlap') /\ NodeInv(m)
      BY <2>1 DEF Push, Go, Same, IInv, Shapes
    <3> QED
      BY <3>1, SameNode
  <2>2. CASE m = n
    <3>1. /\ NodeInv(m) /\ pc[m] = "push" /\ pc'[m] = "snapshot" /\ at' = at /\ nodes' = nodes
          /\ chain'[m] = Append(chain[m], mined[m])
          /\ json' = json /\ asked' = asked /\ mined' = mined /\ left' = left /\ replace' = replace
          /\ before' = before /\ heard' = heard /\ (overlap' <=> overlap \/ Busy(m))
          /\ before[m] \in Nat /\ heard[m] \in Nat
      BY <2>2 DEF Push, Go, IInv, Shapes
    <3>2. IsChain(chain[m]) /\ mined[m].index \in Nat /\ Len(chain[m]) \in Nat
      BY <3>1, ChainProperties DEF NodeInv, ServerType, MainType, IsBlock
    <3>3. IsChain(chain'[m]) /\ Len(chain'[m]) = Len(chain[m]) + 1
      BY <3>1, <3>2, ChainAppend
    <3>4. ServerType(m)'
      BY <3>1, <3>3 DEF NodeInv, ServerType, ServerUp
    <3>5. MainType(m)'
      BY <3>1 DEF NodeInv, MainType
    <3>6. ~overlap' => MainOK(m)'
      BY <3>1 DEF NodeInv, MainOK, Reading
    <3>7. ASSUME ~overlap'
          PROVE  ServerOK(m)'
      <4>1. ~overlap /\ replace[m] = NoReplace /\ mined[m] = NextBlock(m, chain[m])
        BY <3>1, <3>7 DEF Busy, ServerUp, NodeInv, MainOK, Reading, Settled
      <4>2. Linked(chain'[m])
        BY <3>1, <3>2, <4>1, NextBlockOf, LinkedAppend DEF NodeInv, ServerOK
      <4> QED
        BY <3>1, <3>2, <3>3, <4>1, <4>2 DEF NodeInv, ServerOK, ServerUp
    <3> QED
      BY <3>4, <3>5, <3>6, <3>7 DEF NodeInv
  <2> QED
    BY <2>1, <2>2
<1> QED
  BY <1>1, <1>2 DEF IInv

LEMMA SnapshotInv ==
    ASSUME IInv, NEW n \in Nodes, Snapshot(n)
    PROVE  IInv'
<1>1. Shapes'
  BY DEF IInv, Shapes, Snapshot, Go
<1>2. ASSUME NEW m \in Nodes
      PROVE  NodeInv(m)'
  <2>1. CASE m # n
    <3>1. Same(m) /\ (overlap => overlap') /\ NodeInv(m)
      BY <2>1 DEF Snapshot, Go, Same, IInv, Shapes
    <3> QED
      BY <3>1, SameNode
  <2>2. CASE m = n
    <3>1. /\ NodeInv(m) /\ pc[m] = "snapshot" /\ pc'[m] = "copy" /\ at'[m] = 1 /\ nodes' = nodes
          /\ json'[m] = [length |-> Len(chain[m]), data |-> <<>>]
          /\ asked'[m] = Genesis /\ mined'[m] = Genesis /\ left' = left
          /\ overlap' = overlap /\ SameServer(m)
      BY <2>2 DEF Snapshot, Go, IInv, Shapes, SameServer
    <3>2. ServerType(m)' /\ (~overlap' => ServerOK(m)')
      BY <3>1, SameServerNode DEF ServerUp
    <3>3. Len(chain[m]) \in Nat \ {0} /\ IsBlock(Genesis) /\ chain'[m] = chain[m]
      BY <3>1, ChainProperties DEF NodeInv, ServerType, IsBlock, Genesis, SameServer
    <3>4. json'[m].length = Len(chain[m])
      BY <3>1
    <3>5. IsBlock(asked[m])' /\ IsBlock(mined[m])'
      BY <3>1, <3>3 DEF IsBlock
    <3>6. MainType(m)'
      BY <3>1, <3>3, <3>4, <3>5 DEF NodeInv, MainType
    <3>7. Copied(m)'
      BY <3>1, <3>3, <3>4 DEF Copied
    <3>8. ~overlap' => MainOK(m)'
      BY <3>1, <3>7 DEF MainOK, Reading
    <3> QED
      BY <3>2, <3>6, <3>8 DEF NodeInv
  <2> QED
    BY <2>1, <2>2
<1> QED
  BY <1>1, <1>2 DEF IInv

LEMMA LinkedIndex ==
    ASSUME NEW c, IsChain(c), Linked(c), NEW k \in 1..Len(c)
    PROVE  c[k].index = k - 1
<1>1. Len(c) \in Nat
  BY ChainProperties
<1>2. CASE k = 1
  BY <1>2 DEF IsChain, Genesis
<1>3. CASE k # 1
  <2>1. k \in 2..Len(c)
    BY <1>1, <1>3
  <2> QED
    BY <2>1 DEF Linked
<1> QED
  BY <1>2, <1>3

\* A chain that was gone over to its end is whole.
LEMMA CopiedWhole ==
    ASSUME NEW n \in Nodes, IsChain(chain[n]), Linked(chain[n]), Copied(n),
           at[n] > Len(chain[n]), at[n] \in Nat, json[n].length \in Nat \ {0}
    PROVE  Whole(json[n])
<1>1. Len(chain[n]) \in Nat \ {0} /\ 1 \in 1..Len(chain[n])
  BY ChainProperties
<1>2. ASSUME NEW i \in 0..(json[n].length - 1)
      PROVE  i \in DOMAIN json[n].data /\ json[n].data[i] = chain[n][i + 1] /\ i + 1 \in 1..Len(chain[n])
  <2>1. i + 1 \in 1..Len(chain[n]) /\ i + 1 < at[n] /\ (i + 1) - 1 = i
    BY <1>1 DEF Copied
  <2> QED
    BY <2>1 DEF Copied
<1>3. json[n].data[0] = Genesis
  <2>1. 0 \in 0..(json[n].length - 1) /\ 0 + 1 = 1
    OBVIOUS
  <2> QED
    BY <1>2, <2>1 DEF IsChain
<1>4. ASSUME NEW i \in 1..(json[n].length - 1)
      PROVE  json[n].data[i].index = i /\ json[n].data[i].prev = json[n].data[i - 1]
  <2>1. i \in 0..(json[n].length - 1) /\ i - 1 \in 0..(json[n].length - 1) /\ (i - 1) + 1 = i
        /\ (i + 1) - 1 = i
    OBVIOUS
  <2>2. json[n].data[i] = chain[n][i + 1] /\ json[n].data[i - 1] = chain[n][i] /\ i + 1 \in 2..Len(chain[n])
    BY <1>1, <1>2, <2>1
  <2> QED
    BY <2>1, <2>2 DEF Linked
<1> QED
  BY <1>2, <1>3, <1>4 DEF Whole

LEMMA CopyInv ==
    ASSUME IInv, NEW n \in Nodes, Copy(n)
    PROVE  IInv'
<1>1. Shapes'
  <2>1. at' \in [Nodes -> Nat \ {0}]
    <3>1. at \in [Nodes -> Nat \ {0}] /\ at[n] + 1 \in Nat \ {0}
      BY DEF IInv, Shapes
    <3>2. at' = [at EXCEPT ![n] = at[n] + 1] \/ at' = [at EXCEPT ![n] = 1]
      BY DEF Copy
    <3> QED
      BY <3>1, <3>2
  <2>2. pc' \in [Nodes -> {"off", "announce", "fetch", "rebuild", "menu", "search", "mined",
                          "asked", "test", "push", "snapshot", "copy", "send", "wait", "dead"}]
        /\ DOMAIN json' = Nodes
    BY DEF IInv, Shapes, Copy, Go
  <2> QED
    BY <2>1, <2>2 DEF IInv, Shapes, Copy
<1>2. ASSUME NEW m \in Nodes
      PROVE  NodeInv(m)'
  <2>1. CASE m # n
    <3>1. Same(m) /\ (overlap => overlap') /\ NodeInv(m)
      BY <2>1 DEF Copy, Go, Same, IInv, Shapes
    <3> QED
      BY <3>1, SameNode
  <2>2. CASE m = n
    <3>1. /\ NodeInv(m) /\ pc[m] = "copy" /\ nodes' = nodes /\ asked' = asked /\ mined' = mined
          /\ left' = left /\ overlap' = overlap /\ SameServer(m) /\ chain' = chain
          /\ at[m] \in Nat \ {0} /\ nodes[m] \in Seq(Nodes) /\ pc[n] = pc[m]
      BY <2>2 DEF Copy, IInv, Shapes, SameServer
    <3>2. /\ json[m] = [length |-> json[m].length, data |-> json[m].data]
          /\ json[m].length \in Nat \ {0} /\ IsChain(chain[m]) /\ Len(chain[m]) \in Nat \ {0}
          /\ Len(nodes[m]) \in Nat
      BY <3>1, ChainProperties, LenProperties DEF NodeInv, MainType, ServerType
    <3>3. CASE /\ at[m] <= Len(chain[m]) /\ pc'[m] = "copy" /\ at'[m] = at[m] + 1
               /\ json'[m] = [json[m] EXCEPT !.data = Put(json[m].data, chain[m][at[m]])]
      <4>1. json'[m] = [length |-> json[m].length, data |-> Put(json[m].data, chain[m][at[m]])]
        BY <3>2, <3>3
      <4>2. json'[m].length = json[m].length /\ json'[m].data = Put(json[m].data, chain[m][at[m]])
        BY <4>1
      <4>3. ServerType(m)' /\ (~overlap' => ServerOK(m)')
        BY <3>1, <3>3, SameServerNode DEF ServerUp
      <4>4. MainType(m)'
        BY <3>1, <3>2, <3>3, <4>1, <4>2 DEF NodeInv, MainType
      <4>5. ASSUME ~overlap
            PROVE  Copied(m)'
        <5>1. Linked(chain[m]) /\ Copied(m)
          BY <3>1, <4>5 DEF NodeInv, MainOK, Reading, ServerOK
        <5>2. PICK k \in 1..Len(chain[m]) : k = at[m]
          BY <3>1, <3>2, <3>3
        <5>3. chain[m][k].index = k - 1
          BY <3>2, <5>1, LinkedIndex
        <5>4. PICK d : d = Put(json[m].data, chain[m][k])
          OBVIOUS
        <5>5. /\ DOMAIN d = DOMAIN json[m].data \cup {k - 1} /\ d[k - 1] = chain[m][k]
              /\ \A i \in DOMAIN json[m].data : i # k - 1 => d[i] = json[m].data[i]
          <6>1. PICK block, data : block = chain[m][k] /\ data = json[m].data
            OBVIOUS
          <6>2. block.index = k - 1 /\ d = Put(data, block)
            BY <5>3, <5>4, <6>1
          <6>3. /\ DOMAIN d = DOMAIN data \cup {k - 1} /\ d[k - 1] = block
                /\ \A i \in DOMAIN data : i # k - 1 => d[i] = data[i]
            BY <6>2 DEF Put
          <6> QED
            BY <6>1, <6>3
        <5>6. ASSUME NEW l \in 1..Len(chain[m]), l < k + 1
              PROVE  l - 1 \in DOMAIN d /\ d[l - 1] = chain[m][l]
          <6>1. CASE l = k
            BY <5>5, <6>1
          <6>2. CASE l # k
            <7>1. l < at[m] /\ l - 1 # k - 1
              BY <5>2, <5>6, <6>2
            <7>2. l - 1 \in DOMAIN json[m].data /\ json[m].data[l - 1] = chain[m][l]
              BY <5>1, <7>1 DEF Copied
            <7> QED
              BY <5>5, <7>1, <7>2
          <6> QED
            BY <6>1, <6>2
        <5>7. json'[m].data = d /\ at'[m] = k + 1 /\ chain'[m] = chain[m] /\ k + 1 <= Len(chain[m]) + 1
              /\ json'[m].length <= Len(chain[m])
          BY <3>1, <3>2, <3>3, <4>2, <5>1, <5>2, <5>4 DEF Copied
        <5> QED
          BY <5>6, <5>7 DEF Copied
      <4>6. ~overlap' => MainOK(m)'
        BY <3>1, <3>3, <4>5 DEF MainOK, Reading
      <4> QED
        BY <4>3, <4>4, <4>6 DEF NodeInv
    <3>4. CASE at[m] > Len(chain[m]) /\ pc'[m] = "send" /\ at'[m] = 1 /\ json'[m] = json[m]
      <4>1. ServerType(m)' /\ (~overlap' => ServerOK(m)')
        BY <3>1, <3>4, SameServerNode DEF ServerUp
      <4>2. MainType(m)'
        BY <3>1, <3>2, <3>4 DEF NodeInv, MainType
      <4>3. ~overlap => Whole(json[m])
        BY <3>1, <3>2, <3>4, CopiedWhole DEF NodeInv, MainOK, Reading, ServerOK
      <4>4. ~overlap' => MainOK(m)'
        BY <3>1, <3>4, <4>3 DEF MainOK, Reading
      <4> QED
        BY <4>1, <4>2, <4>4 DEF NodeInv
    <3>5. \/ /\ at[n] <= Len(chain[n]) /\ pc' = pc /\ at' = [at EXCEPT ![n] = at[n] + 1]
             /\ json' = [json EXCEPT ![n] = [json[n] EXCEPT !.data = Put(json[n].data, chain[n][at[n]])]]
          \/ /\ at[n] > Len(chain[n]) /\ pc' = [pc EXCEPT ![n] = "send"] /\ at' = [at EXCEPT ![n] = 1]
             /\ json' = json
      BY DEF Copy, Go
    <3> QED
      BY <2>2, <3>1, <3>3, <3>4, <3>5 DEF IInv, Shapes
  <2> QED
    BY <2>1, <2>2
<1> QED
  BY <1>1, <1>2 DEF IInv

\* What main() has read stays as good as it was: a replacement makes the chain
\* longer, and the chain that main() has read last was not being replaced.
LEMMA ReadingStays ==
    ASSUME NEW m \in Nodes, NodeInv(m), ~overlap, asked'[m] = asked[m], mined'[m] = mined[m],
           pc'[m] = pc[m] \/ pc'[m] \in {"send", "wait"},
           Goal(m)' \in Nat, Goal(m)' >= Goal(m),
           Settled(m) /\ Goal(m)' = Goal(m) => Settled(m)',
           chain'[m] = chain[m] \/ (~Settled(m) /\ pc[m] # "push"),
           pc[m] = "push" /\ ~Settled(m) => ~Settled(m)'
    PROVE  Reading(m)'
<1>1. /\ Reading(m) /\ asked[m].index \in Nat /\ mined[m].index \in Nat /\ IsChain(chain[m])
      /\ replace[m] # NoReplace => replace[m].json.length \in Nat
  BY DEF NodeInv, MainOK, MainType, ServerType, IsBlock
<1>2. Goal(m) \in Nat
  BY <1>1, ChainProperties DEF Goal
<1>3. pc'[m] = "search" => ReadOK(m, asked[m])'
  BY <1>1, <1>2 DEF Reading, ReadOK
<1>4. pc'[m] \in {"mined", "asked", "test"} => ReadOK(m, mined[m])'
  BY <1>1, <1>2 DEF Reading, ReadOK
<1>5. ASSUME pc'[m] \in {"asked", "test"}, mined'[m].index = Goal(m)'
      PROVE  asked'[m] = NextBlock(m, chain'[m])
  <2>1. pc[m] = pc'[m] /\ ReadOK(m, mined[m]) /\ mined[m].index = Goal(m)'
    BY <1>1, <1>5 DEF Reading
  <2>2. mined[m].index = Goal(m) /\ Settled(m)
    BY <1>1, <1>2, <2>1 DEF ReadOK
  <2> QED
    BY <1>1, <1>5, <2>1, <2>2 DEF Reading
<1>6. pc'[m] = "push" => mined'[m] = NextBlock(m, chain'[m]) \/ ~Settled(m)'
  BY <1>1 DEF Reading
<1> QED
  BY <1>3, <1>4, <1>5, <1>6 DEF Reading

\* Of main()'s part: a request was posted at its node, or it goes on or waits.
LEMMA MainMoves ==
    ASSUME NEW m \in Nodes, NodeInv(m), nodes' = nodes, json' = json, asked' = asked, mined' = mined,
           left' = left, chain' = chain, overlap => overlap', nodes[m] \in Seq(Nodes), at[m] \in Nat \ {0},
           \/ at'[m] = at[m] /\ pc'[m] = pc[m]
           \/ /\ at'[m] = at[m] /\ pc'[m] = "wait" /\ pc[m] = "send" /\ at[m] <= Len(nodes[m])
           \/ /\ at'[m] = at[m] + 1 /\ pc'[m] = "send" /\ pc[m] \in {"send", "wait"}
              /\ at[m] <= Len(nodes[m]),
           ServerUp(m) \/ (before'[m] = before[m] /\ heard'[m] = heard[m]),
           \/ replace'[m] = replace[m]
           \/ /\ replace[m] = NoReplace /\ replace'[m] # NoReplace /\ replace'[m].next = 0
              /\ replace'[m].json.length \in Nat /\ replace'[m].json.length > Len(chain[m])
           \/ /\ replace[m] # NoReplace /\ replace'[m] = NoReplace
              /\ ~overlap => replace[m].next = replace[m].json.length /\ Len(chain[m]) = replace[m].next
    PROVE  MainType(m)' /\ (~overlap' => MainOK(m)')
<1>1. Len(nodes[m]) \in Nat /\ Len(chain[m]) \in Nat \ {0}
  BY LenProperties, ChainProperties DEF NodeInv, ServerType
<1>2. MainType(m)'
  BY <1>1 DEF NodeInv, MainType
<1>3. ASSUME ~overlap
      PROVE  Reading(m)'
  <2>1. replace[m] # NoReplace => replace[m].json.length \in Nat
    BY DEF NodeInv, ServerType
  <2>2. Goal(m) \in Nat /\ Goal(m)' \in Nat /\ Goal(m)' >= Goal(m)
    BY <1>1, <1>3, <2>1 DEF Goal
  <2>3. Settled(m) /\ Goal(m)' = Goal(m) => Settled(m)'
    BY <1>1, <1>3, <2>1 DEF Settled, Goal
  <2>4. ~Settled(m) => ~Settled(m)'
    BY <1>3 DEF Settled
  <2> QED
    BY <1>3, <2>2, <2>3, <2>4, ReadingStays
<1>4. at'[m] = at[m] => (Copied(m)' <=> Copied(m))
  BY DEF Copied
<1>5. ~overlap' => MainOK(m)'
  BY <1>3, <1>4 DEF NodeInv, MainOK, ServerUp
<1> QED
  BY <1>2, <1>5

LEMMA PostInv ==
    ASSUME IInv, NEW n \in Nodes, Post(n)
    PROVE  IInv'
<1>1. CASE Refused(n) /\ UNCHANGED <<pc, json, replace, before, heard>>
  BY <1>1, MoveOnInv DEF Post, Refused
<1>2. CASE /\ AtEnd(n)
           /\ pc' = [pc EXCEPT ![n] = "menu"] /\ at' = [at EXCEPT ![n] = 1]
           /\ json' = [json EXCEPT ![n] = NoJSON]
           /\ UNCHANGED <<replace, before, heard>>
  <2>1. Shapes'
    BY <1>2 DEF IInv, Shapes, Post
  <2>2. ASSUME NEW m \in Nodes
        PROVE  NodeInv(m)'
    <3>1. CASE m # n
      <4>1. Same(m) /\ (overlap => overlap') /\ NodeInv(m)
        BY <1>2, <3>1 DEF Post, Same, IInv, Shapes
      <4> QED
        BY <4>1, SameNode
    <3>2. CASE m = n
      <4>1. /\ NodeInv(m) /\ pc[m] = "send" /\ pc'[m] = "menu" /\ nodes' = nodes /\ at'[m] = 1
            /\ json'[m] = NoJSON /\ asked' = asked /\ mined' = mined /\ left' = left /\ overlap' = overlap /\ SameServer(m)
            /\ nodes[m] \in Seq(Nodes) /\ NoJSON.length = 0
        BY <1>2, <3>2 DEF Post, IInv, Shapes, SameServer, NoJSON
      <4>2. ServerType(m)' /\ (~overlap' => ServerOK(m)')
        BY <4>1, SameServerNode DEF ServerUp
      <4>3. MainType(m)'
        BY <4>1, LenProperties DEF NodeInv, MainType
      <4>4. ~overlap' => MainOK(m)'
        BY <4>1 DEF NodeInv, MainOK, Reading
      <4> QED
        BY <4>2, <4>3, <4>4 DEF NodeInv
    <3> QED
      BY <3>1, <3>2
  <2> QED
    BY <2>1, <2>2 DEF IInv
<1>3. ASSUME /\ ~AtEnd(n) /\ Free(Target(n))
             /\ heard' = [heard EXCEPT ![Target(n)] = Max({@, json[n].length})]
             /\ UNCHANGED json,
             \/ /\ ~Replaces(json[n], chain[Target(n)])
                /\ at' = [at EXCEPT ![n] = @ + 1]
                /\ UNCHANGED <<pc, replace, before>>
             \/ /\ Replaces(json[n], chain[Target(n)])
                /\ replace' = [replace EXCEPT ![Target(n)] =
                                  [from |-> n, json |-> json[n], next |-> 0]]
                /\ before' = [before EXCEPT ![Target(n)] = Len(chain[Target(n)])]
                /\ pc' = [pc EXCEPT ![n] = "wait"]
                /\ UNCHANGED at
      PROVE  IInv'
  <2>1. PICK t \in Nodes : t = Target(n)
    BY <1>3, TargetNode DEF IInv
  <2>2. /\ at[n] \in 1..Len(nodes[n]) /\ Len(nodes[n]) \in Nat /\ pc[n] = "send"
        /\ UNCHANGED <<nodes, chain, asked, mined, left, overlap>>
        /\ NodeInv(n) /\ json[n].length \in Nat
        /\ NodeInv(t) /\ heard[t] \in Nat /\ before[t] \in Nat /\ IsChain(chain[t])
        /\ replace[t] = NoReplace /\ ServerUp(t)
    BY <1>3, <2>1, TargetNode DEF IInv, Post, Free, Busy, NodeInv, MainType, ServerType, Shapes
  <2>3. Len(chain[t]) \in Nat \ {0}
    BY <2>2, ChainProperties
  <2>4. PICK h : h = Max({heard[t], json[n].length})
    OBVIOUS
  <2>5. h \in Nat /\ h = IF json[n].length > heard[t] THEN json[n].length ELSE heard[t]
    BY <2>2, <2>4, MaxOfTwo
  <2>6. heard' = [heard EXCEPT ![t] = h] /\ json' = json
    BY <1>3, <2>1, <2>4 DEF IInv, Shapes
  <2>7. \/ /\ json[n].length <= Len(chain[t])
           /\ at' = [at EXCEPT ![n] = at[n] + 1]
           /\ pc' = pc /\ replace' = replace /\ before' = before
        \/ /\ json[n].length > Len(chain[t])
           /\ replace' = [replace EXCEPT ![t] = [from |-> n, json |-> json[n], next |-> 0]]
           /\ before' = [before EXCEPT ![t] = Len(chain[t])]
           /\ pc' = [pc EXCEPT ![n] = "wait"] /\ at' = at
    BY <1>3, <2>1, <2>2, <2>3 DEF Replaces
  <2>8. Shapes'
    <3>1. heard' \in [Nodes -> Nat]
      BY <2>5, <2>6 DEF IInv, Shapes
    <3>2. before' \in [Nodes -> Nat] /\ DOMAIN replace' = Nodes
      <4>1. before \in [Nodes -> Nat] /\ DOMAIN replace = Nodes
        BY DEF IInv, Shapes
      <4> QED
        BY <2>3, <2>7, <4>1
    <3>3. at' \in [Nodes -> Nat \ {0}]
      <4>1. at \in [Nodes -> Nat \ {0}] /\ at[n] + 1 \in Nat \ {0}
        BY DEF IInv, Shapes
      <4> QED
        BY <2>7, <4>1
    <3>4. pc' \in [Nodes -> {"off", "announce", "fetch", "rebuild", "menu", "search", "mined",
                            "asked", "test", "push", "snapshot", "copy", "send", "wait", "dead"}]
      BY <2>7 DEF IInv, Shapes
    <3> QED
      BY <2>2, <2>6, <3>1, <3>2, <3>3, <3>4 DEF IInv, Shapes
  <2>9. ASSUME NEW m \in Nodes
        PROVE  NodeInv(m)'
    <3>1. NodeInv(m) /\ nodes[m] \in Seq(Nodes) /\ at[m] \in Nat \ {0}
      BY DEF IInv, Shapes
    <3>2. \/ at'[m] = at[m] /\ pc'[m] = pc[m]
          \/ /\ at'[m] = at[m] /\ pc'[m] = "wait" /\ pc[m] = "send" /\ at[m] <= Len(nodes[m])
          \/ /\ at'[m] = at[m] + 1 /\ pc'[m] = "send" /\ pc[m] = "send"
             /\ at[m] <= Len(nodes[m])
      <4>1. DOMAIN pc = Nodes /\ DOMAIN at = Nodes
        BY DEF IInv, Shapes
      <4>2. CASE m # n
        BY <2>7, <4>1, <4>2
      <4>3. CASE m = n
        BY <2>2, <2>7, <3>1, <4>1, <4>3
      <4> QED
        BY <4>2, <4>3
    <3>3. ServerUp(m) \/ (before'[m] = before[m] /\ heard'[m] = heard[m])
      <4>1. DOMAIN before = Nodes /\ DOMAIN heard = Nodes
        BY DEF IInv, Shapes
      <4>2. CASE m # t
        BY <2>6, <2>7, <4>1, <4>2
      <4>3. CASE m = t
        <5>1. pc[t] \notin {"off", "announce", "fetch", "rebuild", "dead"}
          BY <2>2 DEF ServerUp
        <5> QED
          BY <4>3, <5>1 DEF ServerUp
      <4> QED
        BY <4>2, <4>3
    <3>4. MainType(m)' /\ (~overlap' => MainOK(m)')
      <4>1. \/ replace'[m] = replace[m]
            \/ /\ replace[m] = NoReplace /\ replace'[m] # NoReplace /\ replace'[m].next = 0
               /\ replace'[m].json.length \in Nat /\ replace'[m].json.length > Len(chain[m])
        <5>1. DOMAIN replace = Nodes
          BY DEF IInv, Shapes
        <5>2. CASE replace'[m] # replace[m]
          <6>1. /\ m = t /\ replace'[m] = [from |-> n, json |-> json[n], next |-> 0]
                /\ json[n].length > Len(chain[m])
            BY <2>7, <5>1, <5>2
          <6>2. /\ replace'[m].from = n /\ replace'[m].json = json[n] /\ replace'[m].next = 0
                /\ n \in Nodes /\ n # NoHash
            BY <6>1, BlockChainAssumption
          <6>3. replace'[m] # NoReplace
            BY <6>2 DEF NoReplace
          <6> QED
            BY <2>2, <6>1, <6>2, <6>3
        <5> QED
          BY <5>2
      <4> QED
        BY <2>2, <2>6, <3>1, <3>2, <3>3, <4>1, MainMoves
    <3>5. ServerUp(m)' <=> ServerUp(m)
      BY <3>2 DEF ServerUp
    <3>6. CASE m # t
      <4>1. SameServer(m)
        BY <2>2, <2>6, <2>7, <3>6 DEF SameServer, IInv, Shapes
      <4>2. ServerType(m)' /\ (~overlap' => ServerOK(m)')
        BY <2>2, <3>1, <3>5, <4>1, SameServerNode
      <4> QED
        BY <3>4, <4>2 DEF NodeInv
    <3>7. CASE m = t
      <4>1. /\ chain'[m] = chain[m] /\ heard'[m] = h /\ replace[m] = NoReplace /\ ServerUp(m) /\ ServerUp(m)'
            /\ h = IF json[n].length > heard[m] THEN json[n].length ELSE heard[m]
            /\ Len(chain[m]) \in Nat \ {0} /\ heard[m] \in Nat /\ IsChain(chain[m]) /\ json[n].length \in Nat
        BY <2>2, <2>3, <2>5, <2>6, <3>5, <3>7 DEF IInv, Shapes
      <4>2. CASE json[n].length <= Len(chain[m]) /\ replace'[m] = replace[m] /\ before'[m] = before[m]
        <5>1. ServerType(m)'
          BY <3>1, <4>1, <4>2 DEF NodeInv, ServerType
        <5>2. ~overlap' => ServerOK(m)'
          BY <2>2, <3>1, <4>1, <4>2 DEF NodeInv, ServerOK
        <5> QED
          BY <3>4, <5>1, <5>2 DEF NodeInv
      <4>3. CASE /\ json[n].length > Len(chain[m]) /\ before'[m] = Len(chain[m])
                 /\ replace'[m] = [from |-> n, json |-> json[n], next |-> 0]
        <5>1. replace'[m].from = n /\ replace'[m].json = json[n] /\ replace'[m].next = 0
          BY <4>3
        <5>2. ServerType(m)'
          BY <4>1, <4>3, <5>1 DEF ServerType
        <5>3. ASSUME ~overlap'
              PROVE  ServerOK(m)'
          <6>1. ~overlap /\ Whole(json[n]) /\ Linked(chain[m]) /\ Len(chain[m]) >= heard[m]
            BY <2>2, <3>1, <4>1, <4>3, <5>3 DEF NodeInv, MainOK, Reading, ServerOK
          <6>2. replace'[m] # NoReplace
            BY <4>1, <4>3, <5>1 DEF NoReplace, NoJSON
          <6> QED
            BY <4>1, <4>3, <5>1, <6>1, <6>2 DEF ServerOK
        <5> QED
          BY <3>4, <5>2, <5>3 DEF NodeInv
      <4> QED
        BY <2>7, <3>7, <4>2, <4>3 DEF IInv, Shapes
    <3> QED
      BY <3>6, <3>7
  <2> QED
    BY <2>8, <2>9 DEF IInv
<1> QED
  BY <1>1, <1>2, <1>3 DEF Post

LEMMA NoAnswerInv ==
    ASSUME IInv, NEW n \in Nodes, NoAnswer(n)
    PROVE  IInv'
<1>1. at[n] <= Len(nodes[n]) /\ at[n] \in Nat \ {0}
  BY DEF IInv, Shapes, NodeInv, MainType, NoAnswer
<1>2. Shapes'
  <2>1. at' \in [Nodes -> Nat \ {0}]
    BY <1>1 DEF IInv, Shapes, NoAnswer
  <2> QED
    BY <2>1 DEF IInv, Shapes, NoAnswer
<1>3. ASSUME NEW m \in Nodes
      PROVE  NodeInv(m)'
  <2>1. NodeInv(m) /\ nodes[m] \in Seq(Nodes) /\ at[m] \in Nat \ {0} /\ SameServer(m)
    BY DEF IInv, Shapes, SameServer, NoAnswer
  <2>2. \/ at'[m] = at[m] /\ pc'[m] = pc[m]
        \/ at'[m] = at[m] + 1 /\ pc'[m] = "send" /\ pc[m] = "wait" /\ at[m] <= Len(nodes[m])
    BY <1>1 DEF IInv, Shapes, NoAnswer
  <2>3. MainType(m)' /\ (~overlap' => MainOK(m)')
    BY <2>1, <2>2, MainMoves DEF NoAnswer, SameServer
  <2>4. ServerType(m)' /\ (~overlap' => ServerOK(m)')
    BY <2>1, <2>2, SameServerNode DEF NoAnswer, ServerUp
  <2> QED
    BY <2>3, <2>4 DEF NodeInv
<1> QED
  BY <1>2, <1>3 DEF IInv

LEMMA EndInv ==
    ASSUME IInv, NEW n \in Nodes, End(n)
    PROVE  IInv'
<1>1. Shapes'
  <2>1. nodes' \in [Nodes -> Seq(Nodes)]
    <3>1. <<>> \in Seq(Nodes)
      OBVIOUS
    <3> QED
      BY <3>1 DEF IInv, Shapes, End
  <2>2. pc' \in [Nodes -> {"off", "announce", "fetch", "rebuild", "menu", "search", "mined",
                          "asked", "test", "push", "snapshot", "copy", "send", "wait", "dead"}]
    BY DEF IInv, Shapes, End, Go
  <2>3. at' \in [Nodes -> Nat \ {0}] /\ left' \in [Nodes -> Nat]
    BY DEF IInv, Shapes, End
  <2>4. before' \in [Nodes -> Nat] /\ heard' \in [Nodes -> Nat]
    BY DEF IInv, Shapes, End
  <2> QED
    BY <2>1, <2>2, <2>3, <2>4 DEF IInv, Shapes, End
<1>2. ASSUME NEW m \in Nodes
      PROVE  NodeInv(m)'
  <2>1. CASE m # n
    <3>1. Same(m) /\ (overlap => overlap') /\ NodeInv(m)
      BY <2>1 DEF End, Go, Same, IInv, Shapes
    <3> QED
      BY <3>1, SameNode
  <2>2. CASE m = n
    <3>1. /\ pc'[m] = "dead" /\ nodes'[m] = <<>> /\ at'[m] = 1 /\ chain'[m] = <<Genesis>>
          /\ json'[m] = NoJSON /\ asked'[m] = Genesis /\ mined'[m] = Genesis /\ replace'[m] = NoReplace /\ left'[m] = 0
          /\ before'[m] = 0 /\ heard'[m] = 0
      BY <2>2 DEF End, Go, IInv, Shapes
    <3>2. NoJSON.length = 0 /\ Genesis.index = 0 /\ Len(<<>>) = 0
      BY DEF NoJSON, Genesis
    <3>3. MainType(m)'
      BY <3>1, <3>2, GenesisBlock, BlockChainAssumption DEF MainType, IsBlock
    <3>4. ServerType(m)'
      BY <3>1, GenesisChain DEF ServerType, NoReplace
    <3>5. MainOK(m)'
      BY <3>1, <3>2 DEF MainOK, Reading
    <3>6. ServerOK(m)'
      BY <3>1, GenesisChain DEF ServerOK, ServerUp
    <3> QED
      BY <3>3, <3>4, <3>5, <3>6 DEF NodeInv
  <2> QED
    BY <2>1, <2>2
<1> QED
  BY <1>1, <1>2 DEF IInv

-----------------------------------------------------------------------------
(* The server's steps.                                                     *)

\* Of main()'s part: the server changes the chain behind its back.
LEMMA MainStays ==
    ASSUME NEW m \in Nodes, NodeInv(m), UNCHANGED <<pc, nodes, at, json, asked, mined, left>>, ServerUp(m),
           ~overlap' => ~overlap /\ Reading(m)' /\ (pc[m] = "copy" => Copied(m)')
    PROVE  MainType(m)' /\ (~overlap' => MainOK(m)')
<1>1. MainType(m)'
  BY DEF NodeInv, MainType
<1>2. ~overlap' => MainOK(m)'
  BY DEF NodeInv, MainOK, ServerUp
<1> QED
  BY <1>1, <1>2

\* Blocks that are put at the end do not disturb toJSON().
LEMMA CopiedAppend ==
    ASSUME NEW m, IsChain(chain[m]), Copied(m), NEW block, block.index \in Nat,
           chain'[m] = Append(chain[m], block), UNCHANGED <<at, json>>, at[m] \in Nat, json[m].length \in Nat
    PROVE  Copied(m)'
<1>1. Len(chain[m]) \in Nat
  BY ChainProperties
<1>2. Len(chain'[m]) = Len(chain[m]) + 1 /\ \A k \in 1..Len(chain[m]) : chain'[m][k] = chain[m][k]
  BY ChainAppend
<1>3. ASSUME NEW k \in 1..Len(chain'[m]), k < at[m]
      PROVE  k - 1 \in DOMAIN json[m].data /\ json[m].data[k - 1] = chain'[m][k]
  <2>1. k \in 1..Len(chain[m])
    BY <1>1, <1>2, <1>3 DEF Copied
  <2> QED
    BY <1>2, <1>3, <2>1 DEF Copied
<1> QED
  BY <1>1, <1>2, <1>3 DEF Copied

LEMMA PopInv ==
    ASSUME IInv, NEW n \in Nodes, Pop(n)
    PROVE  IInv'
<1>1. Shapes'
  BY DEF IInv, Shapes, Pop, Overlaps
<1>2. ASSUME NEW m \in Nodes
      PROVE  NodeInv(m)'
  <2>1. CASE m # n
    <3>1. Same(m) /\ (overlap => overlap') /\ NodeInv(m)
      BY <2>1 DEF Pop, Overlaps, Same, IInv, Shapes
    <3> QED
      BY <3>1, SameNode
  <2>2. CASE m = n
    <3>1. /\ NodeInv(m) /\ replace[m] # NoReplace /\ ServerUp(m) /\ replace[m].next = 0
          /\ chain'[m] = Front(chain[m]) /\ Len(chain[m]) > 1
          /\ UNCHANGED <<pc, nodes, at, json, asked, mined, replace, left, before, heard>>
          /\ (overlap' <=> overlap \/ pc[m] \in {"push", "copy"})
      <4>1. overlap' <=> overlap \/ pc[m] \in {"push", "copy"}
        BY <2>2 DEF Pop, Overlaps, IInv, Shapes
      <4> QED
        BY <2>2, <4>1 DEF Pop, Busy, Pops, IInv, Shapes
    <3>2. IsChain(chain'[m])
      BY <3>1, ChainFront DEF NodeInv, ServerType
    <3>3. ServerType(m)'
      BY <3>1, <3>2 DEF NodeInv, ServerType, ServerUp
    <3>4. MainType(m)' /\ (~overlap' => MainOK(m)')
      <4>1. ASSUME ~overlap'
            PROVE  Reading(m)'
        <5>1. replace[m].json.length \in Nat \ {0}
          BY <3>1 DEF NodeInv, ServerType
        <5>2. Goal(m)' = Goal(m) /\ Goal(m) \in Nat /\ ~Settled(m)
          BY <3>1, <5>1 DEF Goal, Settled
        <5>3. ~Settled(m)'
          BY <3>1, <5>1 DEF Settled
        <5> QED
          BY <3>1, <4>1, <5>2, <5>3, ReadingStays
      <4> QED
        BY <3>1, <4>1, MainStays
    <3>5. ASSUME ~overlap'
          PROVE  ServerOK(m)'
      <4>1. /\ IsChain(chain[m]) /\ Linked(chain[m]) /\ Len(chain[m]) < replace[m].json.length
            /\ replace[m].json.length \in Nat /\ Len(chain[m]) \in Nat
        BY <3>1, <3>5, ChainProperties DEF NodeInv, ServerType, ServerOK
      <4>2. Linked(chain'[m]) /\ Len(chain'[m]) = Len(chain[m]) - 1
        BY <3>1, <4>1, LinkedFront, ChainFront
      <4>3. Len(chain'[m]) < replace[m].json.length
        BY <4>1, <4>2
      <4> QED
        BY <3>1, <3>5, <4>2, <4>3 DEF NodeInv, ServerOK
    <3> QED
      BY <3>3, <3>4, <3>5 DEF NodeInv
  <2> QED
    BY <2>1, <2>2
<1> QED
  BY <1>1, <1>2 DEF IInv

LEMMA PoppedInv ==
    ASSUME IInv, NEW n \in Nodes, Popped(n)
    PROVE  IInv'
<1>1. Shapes'
  BY DEF IInv, Shapes, Popped
<1>2. ASSUME NEW m \in Nodes
      PROVE  NodeInv(m)'
  <2>1. CASE m # n
    <3>1. Same(m) /\ (overlap => overlap') /\ NodeInv(m)
      BY <2>1 DEF Popped, Same, IInv, Shapes
    <3> QED
      BY <3>1, SameNode
  <2>2. CASE m = n
    <3>1. /\ NodeInv(m) /\ replace[m] # NoReplace /\ ServerUp(m) /\ ~(Len(chain[m]) > 1)
          /\ replace[m].next = 0
          /\ replace'[m] = [replace[m] EXCEPT !.next = 1] /\ overlap' = overlap /\ chain' = chain
          /\ UNCHANGED <<pc, nodes, at, json, asked, mined, left, before, heard>>
      BY <2>2 DEF Popped, Busy, Pops, IInv, Shapes
    <3>2. /\ replace[m] \in [from : Nodes \cup {NoHash}, json : {replace[m].json}, next : Nat]
          /\ replace[m].from \in Nodes /\ replace[m].json.length \in Nat \ {0} /\ IsChain(chain[m])
      BY <3>1 DEF NodeInv, ServerType
    <3>3. /\ replace'[m].from = replace[m].from /\ replace'[m].json = replace[m].json
          /\ replace'[m].next = 1
          /\ replace'[m] \in [from : Nodes \cup {NoHash}, json : {replace'[m].json}, next : Nat]
      BY <3>1, <3>2
    <3>4. Len(chain[m]) = 1
      <4>1. Len(chain[m]) \in Nat \ {0}
        BY <3>2, ChainProperties
      <4>2. ~(Len(chain[m]) > 1)
        BY <3>1
      <4>3. \A x \in Nat \ {0} : x > 1 \/ x = 1
        OBVIOUS
      <4> QED
        BY <4>1, <4>2, <4>3
    <3>5. ServerType(m)'
      BY <3>1, <3>2, <3>3 DEF ServerType, ServerUp
    <3>6. MainType(m)' /\ (~overlap' => MainOK(m)')
      <4>1. ASSUME ~overlap
            PROVE  Reading(m)' /\ (pc[m] = "copy" => Copied(m)')
        <5>1. replace[m].json.length > 1 /\ replace'[m] # NoReplace
          <6>1. replace[m].json.length > 1
            BY <3>1, <3>2, <3>4, <4>1 DEF NodeInv, ServerOK
          <6>2. replace'[m] # NoReplace
            BY <3>3 DEF NoReplace
          <6> QED
            BY <6>1, <6>2
        <5>2. Goal(m)' = Goal(m) /\ Goal(m) \in Nat
          BY <3>1, <3>2, <3>3, <5>1 DEF Goal
        <5>3. ~Settled(m) /\ ~Settled(m)'
          <6>1. replace[m].next # replace[m].json.length
            BY <3>1, <3>2
          <6>2. replace'[m].next # replace'[m].json.length
            BY <3>2, <3>3, <5>1
          <6> QED
            BY <3>1, <5>1, <6>1, <6>2 DEF Settled
        <5>4. Reading(m)'
          BY <3>1, <4>1, <5>2, <5>3, ReadingStays
        <5>5. pc[m] = "copy" => Copied(m)'
          BY <3>1, <4>1 DEF NodeInv, MainOK, Copied
        <5> QED
          BY <5>4, <5>5
      <4> QED
        BY <3>1, <4>1, MainStays
    <3>7. ASSUME ~overlap
          PROVE  ServerOK(m)'
      <4>1. Whole(replace[m].json)
        BY <3>1, <3>7 DEF NodeInv, ServerOK
      <4>2. Follows(chain[m], replace[m].json, 1)
        BY <3>2, <3>4, <4>1, FollowsFirst
      <4>3. replace'[m] # NoReplace
        BY <3>3 DEF NoReplace
      <4> QED
        BY <3>1, <3>3, <3>7, <4>1, <4>2, <4>3 DEF NodeInv, ServerOK
    <3> QED
      BY <3>1, <3>5, <3>6, <3>7 DEF NodeInv
  <2> QED
    BY <2>1, <2>2
<1> QED
  BY <1>1, <1>2 DEF IInv

LEMMA RestoreInv ==
    ASSUME IInv, NEW n \in Nodes, Restore(n)
    PROVE  IInv'
<1>1. Shapes'
  BY DEF IInv, Shapes, Restore, Overlaps
<1>2. ASSUME NEW m \in Nodes
      PROVE  NodeInv(m)'
  <2>1. CASE m # n
    <3>1. Same(m) /\ (overlap => overlap') /\ NodeInv(m)
      BY <2>1 DEF Restore, Overlaps, Same, IInv, Shapes
    <3> QED
      BY <3>1, SameNode
  <2>2. CASE m = n
    <3>1. PICK k : k = replace[m].next
      OBVIOUS
    <3>2. /\ NodeInv(m) /\ replace[m] # NoReplace /\ ServerUp(m)
          /\ k \in 1..(replace[m].json.length - 1)
          /\ chain'[m] = AddBlock(chain[m], replace[m].json.data[k])
          /\ replace'[m] = [replace[m] EXCEPT !.next = replace[m].next + 1]
          /\ UNCHANGED <<pc, nodes, at, json, asked, mined, left, before, heard>>
          /\ (overlap' <=> overlap \/ pc[m] = "push")
      <4>1. overlap' <=> overlap \/ pc[m] \in {"push"}
        BY <2>2 DEF Restore, Overlaps, IInv, Shapes
      <4> QED
        BY <2>2, <3>1, <4>1 DEF Restore, Busy, IInv, Shapes
    <3>3. /\ replace[m] \in [from : Nodes \cup {NoHash}, json : {replace[m].json}, next : Nat]
          /\ replace[m].from \in Nodes /\ replace[m].json.length \in Nat \ {0} /\ IsChain(chain[m])
      BY <3>2 DEF NodeInv, ServerType
    <3>4. /\ replace'[m].from = replace[m].from /\ replace'[m].json = replace[m].json
          /\ replace'[m].next = k + 1
          /\ replace'[m] \in [from : Nodes \cup {NoHash}, json : {replace'[m].json}, next : Nat]
      BY <3>1, <3>2, <3>3
    <3>5. IsChain(chain'[m])
      BY <3>2, <3>3, AddBlockIsChain
    <3>6. k + 1 \in 0..replace[m].json.length
      BY <3>2, <3>3
    <3>7. ServerType(m)'
      BY <3>2, <3>3, <3>4, <3>5, <3>6 DEF ServerType, ServerUp
    <3>8. ASSUME ~overlap'
          PROVE  /\ Whole(replace[m].json) /\ replace[m].json.length > before[m]
                 /\ replace[m].json.length >= heard[m]
                 /\ AddBlock(chain[m], replace[m].json.data[k]) = Append(chain[m], replace[m].json.data[k])
                 /\ replace[m].json.data[k].index \in Nat
                 /\ Linked(chain'[m]) /\ Follows(chain'[m], replace[m].json, k + 1)
      <4>1. /\ Whole(replace[m].json) /\ Linked(chain[m]) /\ Follows(chain[m], replace[m].json, k)
            /\ replace[m].json.length > before[m] /\ replace[m].json.length >= heard[m]
        BY <3>1, <3>2, <3>8 DEF NodeInv, ServerOK
      <4>2. /\ AddBlock(chain[m], replace[m].json.data[k]) = Append(chain[m], replace[m].json.data[k])
            /\ Linked(Append(chain[m], replace[m].json.data[k]))
            /\ Follows(Append(chain[m], replace[m].json.data[k]), replace[m].json, k + 1)
        BY <3>2, <3>3, <4>1, FollowsNext
      <4>3. replace[m].json.data[k].index \in Nat
        BY <3>2, <4>1 DEF Whole
      <4> QED
        BY <3>2, <4>1, <4>2, <4>3
    <3>9. replace'[m] # NoReplace
      BY <3>2, <3>4 DEF NoReplace
    <3>10. MainType(m)' /\ (~overlap' => MainOK(m)')
      <4>1. ASSUME ~overlap'
            PROVE  Reading(m)' /\ (pc[m] = "copy" => Copied(m)')
        <5>1. Goal(m)' = Goal(m) /\ Goal(m) \in Nat /\ ~Settled(m) /\ pc[m] # "push" /\ ~overlap
          BY <3>1, <3>2, <3>3, <3>4, <3>9, <4>1 DEF Goal, Settled
        <5>2. Reading(m)'
          BY <3>2, <5>1, ReadingStays
        <5>3. ASSUME pc[m] = "copy"
              PROVE  Copied(m)'
          <6>1. Copied(m) /\ at[m] \in Nat /\ json[m].length \in Nat
            BY <3>2, <5>1, <5>3 DEF NodeInv, MainOK, MainType, IInv, Shapes
          <6>2. chain'[m] = Append(chain[m], replace[m].json.data[k]) /\ replace[m].json.data[k].index \in Nat
            BY <3>2, <3>8, <4>1
          <6> QED
            BY <3>2, <3>3, <6>1, <6>2, CopiedAppend
        <5> QED
          BY <5>2, <5>3
      <4> QED
        BY <3>2, <4>1, MainStays
    <3>11. ~overlap' => ServerOK(m)'
      BY <3>2, <3>3, <3>4, <3>8, <3>9 DEF ServerOK
    <3> QED
      BY <3>7, <3>10, <3>11 DEF NodeInv
  <2> QED
    BY <2>1, <2>2
<1> QED
  BY <1>1, <1>2 DEF IInv

LEMMA AnswerInv ==
    ASSUME IInv, NEW n \in Nodes, Answer(n)
    PROVE  IInv'
<1>1. /\ NodeInv(n) /\ replace[n] # NoReplace /\ ServerUp(n) /\ replace[n].next # 0
      /\ replace[n].from \in Nodes
      /\ replace[n].next = replace[n].json.length \/ replace[n].next \notin DOMAIN replace[n].json.data
      /\ replace' = [replace EXCEPT ![n] = NoReplace]
      /\ UNCHANGED <<nodes, chain, json, asked, mined, left, overlap, before, heard>>
  BY DEF IInv, Answer, Busy, NodeInv, ServerType
<1>2. PICK from \in Nodes : from = replace[n].from
  BY <1>1
<1>3. \/ /\ pc[from] = "wait" /\ pc' = [pc EXCEPT ![from] = "send"]
         /\ at' = [at EXCEPT ![from] = at[from] + 1]
      \/ pc' = pc /\ at' = at
  BY <1>2 DEF Answer
<1>4. pc[from] = "wait" => at[from] <= Len(nodes[from])
  BY DEF IInv, NodeInv, MainType
<1>5. Shapes'
  <2>1. at' \in [Nodes -> Nat \ {0}]
    <3>1. at \in [Nodes -> Nat \ {0}] /\ at[from] + 1 \in Nat \ {0}
      BY DEF IInv, Shapes
    <3> QED
      BY <1>3, <3>1
  <2>2. pc' \in [Nodes -> {"off", "announce", "fetch", "rebuild", "menu", "search", "mined",
                          "asked", "test", "push", "snapshot", "copy", "send", "wait", "dead"}]
    BY <1>3 DEF IInv, Shapes
  <2> QED
    BY <1>1, <2>1, <2>2 DEF IInv, Shapes
<1>6. ASSUME ~overlap
      PROVE  replace[n].next = replace[n].json.length /\ Len(chain[n]) = replace[n].next
  <2>1. Whole(replace[n].json) /\ Follows(chain[n], replace[n].json, replace[n].next)
    BY <1>1, <1>6 DEF NodeInv, ServerOK
  <2>2. replace[n].next \in 0..replace[n].json.length /\ replace[n].json.length \in Nat
    BY <1>1 DEF NodeInv, ServerType
  <2>3. replace[n].next = replace[n].json.length
    BY <1>1, <2>1, <2>2 DEF Whole
  <2> QED
    BY <2>1, <2>3 DEF Follows
<1>7. ASSUME NEW m \in Nodes
      PROVE  NodeInv(m)'
  <2>1. NodeInv(m) /\ nodes[m] \in Seq(Nodes) /\ at[m] \in Nat \ {0}
    BY DEF IInv, Shapes
  <2>2. \/ at'[m] = at[m] /\ pc'[m] = pc[m]
        \/ at'[m] = at[m] + 1 /\ pc'[m] = "send" /\ pc[m] = "wait" /\ at[m] <= Len(nodes[m])
    <3>1. DOMAIN pc = Nodes /\ DOMAIN at = Nodes
      BY DEF IInv, Shapes
    <3>2. CASE m # from
      BY <1>3, <3>1, <3>2
    <3>3. CASE m = from
      BY <1>3, <1>4, <3>1, <3>3
    <3> QED
      BY <3>2, <3>3
  <2>3. MainType(m)' /\ (~overlap' => MainOK(m)')
    <3>1. \/ replace'[m] = replace[m]
          \/ /\ replace[m] # NoReplace /\ replace'[m] = NoReplace
             /\ ~overlap => replace[m].next = replace[m].json.length /\ Len(chain[m]) = replace[m].next
      <4>1. DOMAIN replace = Nodes
        BY DEF IInv, Shapes
      <4>2. CASE m = n
        BY <1>1, <1>6, <4>1, <4>2
      <4>3. CASE m # n
        BY <1>1, <4>1, <4>3
      <4> QED
        BY <4>2, <4>3
    <3> QED
      BY <1>1, <2>1, <2>2, <3>1, MainMoves
  <2>4. ServerUp(m)' <=> ServerUp(m)
    BY <2>2 DEF ServerUp
  <2>5. CASE m # n
    <3>1. SameServer(m)
      BY <1>1, <2>5 DEF SameServer, IInv, Shapes
    <3>2. ServerType(m)' /\ (~overlap' => ServerOK(m)')
      BY <1>1, <2>1, <2>4, <3>1, SameServerNode
    <3> QED
      BY <2>3, <3>2 DEF NodeInv
  <2>6. CASE m = n
    <3>1. /\ replace[m] # NoReplace /\ replace[m].next # 0 /\ replace'[m] = NoReplace /\ ServerUp(m)
          /\ replace[m].next = replace[m].json.length \/ replace[m].next \notin DOMAIN replace[m].json.data
          /\ chain'[m] = chain[m] /\ before'[m] = before[m] /\ heard'[m] = heard[m] /\ overlap' = overlap
      BY <1>1, <2>6 DEF IInv, Shapes
    <3>2. ServerType(m)'
      BY <2>1, <3>1 DEF NodeInv, ServerType, NoReplace
    <3>3. ASSUME ~overlap
          PROVE  ServerOK(m)'
      <4>1. Linked(chain[m]) /\ replace[m].json.length > before[m] /\ replace[m].json.length >= heard[m]
        BY <2>1, <3>1, <3>3 DEF NodeInv, ServerOK
      <4>2. Len(chain[m]) = replace[m].json.length
        BY <1>6, <2>6, <3>3
      <4> QED
        BY <3>1, <4>1, <4>2 DEF ServerOK
    <3> QED
      BY <2>3, <3>1, <3>2, <3>3 DEF NodeInv
  <2> QED
    BY <2>5, <2>6
<1> QED
  BY <1>5, <1>7 DEF IInv

-----------------------------------------------------------------------------
(* The theorems.                                                           *)

LEMMA NextInv == IInv /\ [Next]_vars => IInv'
<1> SUFFICES ASSUME IInv, [Next]_vars PROVE IInv'
  OBVIOUS
<1>1. ASSUME NEW n \in Nodes, Main(n)
      PROVE  IInv'
  BY <1>1, StartInv, AnnounceInv, FetchInv, RebuildInv, MineInv, FindInv, AskInv, AskedInv, CheckInv,
     PushInv, SnapshotInv, CopyInv, PostInv, NoAnswerInv, EndInv DEF Main
<1>2. ASSUME NEW n \in Nodes, Server(n)
      PROVE  IInv'
  BY <1>2, PopInv, PoppedInv, RestoreInv, AnswerInv DEF Server
<1>3. CASE UNCHANGED vars
  <2>1. Shapes'
    BY <1>3 DEF vars, IInv, Shapes
  <2>2. ASSUME NEW m \in Nodes
        PROVE  NodeInv(m)'
    <3>1. Same(m) /\ (overlap => overlap') /\ NodeInv(m)
      BY <1>3 DEF vars, Same, IInv
    <3> QED
      BY <3>1, SameNode
  <2> QED
    BY <2>1, <2>2 DEF IInv
<1> QED
  BY <1>1, <1>2, <1>3 DEF Next

LEMMA InductiveInv == Spec => []IInv
<1>1. Init => IInv
  BY InitInv
<1>2. IInv /\ [Next]_vars => IInv'
  BY NextInv
<1> QED
  BY <1>1, <1>2, PTL DEF Spec

\* What each node keeps has its shape at every time: the chain is never empty
\* and begins with the genesis block, and neither loop over the nodes or the
\* blocks that were fetched leaves its bounds.
THEOREM TypeCorrect == Spec => []TypeOK
<1>1. IInv => TypeOK
  BY DEF IInv, Shapes, NodeInv, MainType, ServerType, IsChain, IsBlock, TypeOK
<1> QED
  BY <1>1, InductiveInv, PTL

\* Whatever is mined, posted, replaced and lost in between: only a replacement
\* that runs into the push of an own block, or takes blocks away from under
\* toJSON(), makes a chain with a broken link, although nothing in addBlock()
\* looks at the previous hash and main() reads the chain without a lock.
THEOREM LinksCorrect == Spec => []LinkBreaksByOverlap
<1>1. IInv => LinkBreaksByOverlap
  BY DEF IInv, Shapes, NodeInv, ServerOK, LinkBreaksByOverlap
<1> QED
  BY <1>1, InductiveInv, PTL

\* A node that gave its chain up for another ends with a longer one, as long as
\* no chain was posted that toJSON() read while blocks were taken away.
THEOREM GivenUpCorrect == Spec => []GivenUpForLonger
<1>1. IInv => GivenUpForLonger
  BY DEF IInv, NodeInv, ServerOK, GivenUpForLonger, Free, Busy
<1> QED
  BY <1>1, InductiveInv, PTL

\* A node that answers is not behind what it has fetched or was posted, with
\* the same exception.
THEOREM HeardCorrect == Spec => []HeardIsReached
<1>1. IInv => HeardIsReached
  BY DEF IInv, NodeInv, ServerOK, HeardIsReached, Free, Busy
<1> QED
  BY <1>1, InductiveInv, PTL
=============================================================================
