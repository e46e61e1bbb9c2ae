--------------------------- MODULE P2PChatProofs ---------------------------
(***************************************************************************)
(* Proofs about P2PChat for any peers, overlays and bounds.                *)
(*                                                                         *)
(* The invariant of the flood: where nobody dials himself and there is no  *)
(* ring, every end cuts the peers in two, and a message on its way to an   *)
(* end is nowhere else on the side it goes to, nor was it shown there.     *)
(***************************************************************************)
EXTENDS P2PChat, SequenceTheorems, FiniteSetTheorems, TLAPS

Overlay == [Peers -> Peers \cup {Nobody}]

\* Who dials whom where nobody dials himself and there is no ring.
Tame(d) ==
    /\ \A q \in Peers : d[q] # q
    /\ ~\E s \in SUBSET Peers : Cardinality(s) > 1 /\ \A p \in s : d[p] \in s \ {p}

\* The peers that get to a peer by dialling, himself among them: the least
\* set with him that dialling leads into from no other peer.
ClosedBelow(d, S) == \A x \in Peers : d[x] \in S => x \in S
Below(d, a) == {x \in Peers : \A S \in SUBSET Peers : a \in S /\ ClosedBelow(d, S) => x \in S}

\* The peers on the side of an end: those below the peer who dialled, or the
\* others.
Side(d, e) == IF e[2] = "client" THEN Below(d, e[1]) ELSE Peers \ Below(d, e[1])

\* Owner and Other of an end, for a given overlay.
OwnerIn(d, e) == IF e[2] = "client" THEN e[1] ELSE d[e[1]]

-----------------------------------------------------------------------------
(* Peers below a peer.                                                     *)

LEMMA BelowItself ==
    ASSUME NEW d, NEW a \in Peers
    PROVE  a \in Below(d, a) /\ Below(d, a) \in SUBSET Peers /\ ClosedBelow(d, Below(d, a))
BY DEF Below, ClosedBelow

\* Whoever is below a peer dialled somebody below him, or is that peer.
LEMMA BelowDials ==
    ASSUME NEW d, NEW a \in Peers, NEW x \in Below(d, a), x # a
    PROVE  d[x] \in Below(d, a)
<1> SUFFICES ASSUME d[x] \notin Below(d, a)
             PROVE  FALSE
  OBVIOUS
<1> DEFINE S == Below(d, a) \ {x}
<1>1. S \in SUBSET Peers /\ a \in S
  BY BelowItself
<1>2. ClosedBelow(d, S)
  <2>1. ASSUME NEW y \in Peers, d[y] \in S
        PROVE  y \in S
    <3>1. y \in Below(d, a)
      BY <2>1, BelowItself DEF ClosedBelow
    <3> QED
      BY <2>1, <3>1
  <2> QED
    BY <2>1 DEF ClosedBelow
<1>3. x \in S
  BY <1>1, <1>2 DEF Below
<1> QED
  BY <1>3

LEMMA BelowBelow ==
    ASSUME NEW d, NEW a \in Peers, NEW b \in Below(d, a)
    PROVE  Below(d, b) \subseteq Below(d, a)
<1>1. Below(d, a) \in SUBSET Peers /\ ClosedBelow(d, Below(d, a))
  BY BelowItself
<1> QED
  BY <1>1 DEF Below

\* Where there is no ring, dialling leads out of every set of peers.
LEMMA NoWayRound ==
    ASSUME NEW d, Tame(d), NEW s \in SUBSET Peers, s # {}, \A p \in s : d[p] \in s
    PROVE  FALSE
<1>1. \A p \in s : d[p] \in s \ {p}
  BY DEF Tame
<1>2. Cardinality(s) > 1
  <2>1. IsFiniteSet(s)
    BY P2PAssumption, FS_Subset
  <2>2. PICK p \in s : TRUE
    OBVIOUS
  <2>3. d[p] \in s /\ d[p] # p
    BY <1>1
  <2>4. Cardinality({p, d[p]}) = 2
    <3>1. IsFiniteSet({p}) /\ Cardinality({p}) = 1
      BY FS_Singleton
    <3>2. Cardinality({p} \cup {d[p]}) = Cardinality({p}) + 1
      BY <2>3, <3>1, FS_AddElement
    <3>3. {p} \cup {d[p]} = {p, d[p]}
      OBVIOUS
    <3> QED
      BY <3>1, <3>2, <3>3
  <2>5. Cardinality({p, d[p]}) <= Cardinality(s) /\ Cardinality(s) \in Nat
    <3>1. {p, d[p]} \subseteq s
      BY <2>3
    <3> QED
      BY <2>1, <3>1, FS_Subset, FS_CardinalityType
  <2> QED
    BY <2>4, <2>5
<1> QED
  BY <1>1, <1>2 DEF Tame

\* Two peers are not below each other.
LEMMA BelowIsOrder ==
    ASSUME NEW d, Tame(d), NEW a \in Peers, NEW b \in Below(d, a), a \in Below(d, b)
    PROVE  a = b
<1> SUFFICES ASSUME a # b PROVE FALSE
  OBVIOUS
<1>1. b \in Peers /\ Below(d, a) \in SUBSET Peers
  BY BelowItself
<1>2. Below(d, a) = Below(d, b)
  BY <1>1, BelowBelow
<1>3. ASSUME NEW x \in Below(d, a)
      PROVE  d[x] \in Below(d, a)
  BY <1>1, <1>2, BelowDials
<1>4. Below(d, a) # {}
  BY BelowItself
<1> QED
  BY <1>1, <1>3, <1>4, NoWayRound

\* Nobody is below two peers of whom neither is below the other.
LEMMA BelowIsForest ==
    ASSUME NEW d, Tame(d), NEW a \in Peers, NEW b \in Peers,
           Below(d, a) \cap Below(d, b) # {}
    PROVE  a \in Below(d, b) \/ b \in Below(d, a)
<1> SUFFICES ASSUME a \notin Below(d, b), b \notin Below(d, a)
             PROVE  FALSE
  OBVIOUS
<1> DEFINE s == Below(d, a) \cap Below(d, b)
<1>1. s \in SUBSET Peers
  BY BelowItself
<1>2. ASSUME NEW x \in s
      PROVE  d[x] \in s
  BY BelowDials
<1> QED
  BY <1>1, <1>2, NoWayRound

-----------------------------------------------------------------------------
(* The sides of an end.                                                    *)

LEMMA OtherProperties ==
    ASSUME NEW e \in Ends
    PROVE  /\ Other(e) \in Ends /\ Other(Other(e)) = e /\ Other(e) # e
           /\ e[1] \in Peers /\ e[2] \in Sides /\ e = <<e[1], e[2]>>
           /\ Other(e)[1] = e[1] /\ (Other(e)[2] = "client" <=> e[2] # "client")
BY DEF Ends, Sides, Other

LEMMA SideProperties ==
    ASSUME NEW d, NEW e \in Ends
    PROVE  Side(d, e) \subseteq Peers /\ Side(d, Other(e)) = Peers \ Side(d, e)
<1>1. Below(d, e[1]) \subseteq Peers
  BY OtherProperties, BelowItself
<1> QED
  BY <1>1, OtherProperties DEF Side

\* A peer is on the side of each of his ends.
LEMMA OwnSide ==
    ASSUME NEW d, Tame(d), NEW e \in Ends, OwnerIn(d, e) \in Peers
    PROVE  OwnerIn(d, e) \in Side(d, e)
<1>1. e[1] \in Peers
  BY OtherProperties
<1>2. CASE e[2] = "client"
  BY <1>1, <1>2, BelowItself DEF OwnerIn, Side
<1>3. CASE e[2] # "client"
  <2> DEFINE a == e[1]
             p == d[a]
  <2>1. p \in Peers /\ p # a
    BY <1>1, <1>3 DEF OwnerIn, Tame
  <2>2. a \in Below(d, p)
    <3>1. p \in Below(d, p)
      BY <2>1, BelowItself
    <3> QED
      BY <1>1, <2>1, <3>1, BelowItself DEF ClosedBelow
  <2>3. p \notin Below(d, a)
    BY <1>1, <2>1, <2>2, BelowIsOrder
  <2> QED
    BY <1>3, <2>1, <2>3 DEF OwnerIn, Side
<1> QED
  BY <1>2, <1>3

\* What is behind one end of a peer is not behind another.
LEMMA OtherSides ==
    ASSUME NEW d, Tame(d), NEW e \in Ends, NEW f \in Ends, e # f,
           OwnerIn(d, e) = OwnerIn(d, f), OwnerIn(d, e) \in Peers
    PROVE  Side(d, Other(e)) \cap Side(d, Other(f)) = {}
<1> DEFINE a == e[1]
           b == f[1]
<1>1. a \in Peers /\ b \in Peers /\ e[2] \in Sides /\ f[2] \in Sides
      /\ e = <<a, e[2]>> /\ f = <<b, f[2]>>
  BY OtherProperties
<1>2. CASE e[2] = "client" /\ f[2] = "client"
  BY <1>1, <1>2 DEF OwnerIn
<1>3. CASE e[2] = "client" /\ f[2] # "client"
  <2>1. d[b] = a
    BY <1>3 DEF OwnerIn
  <2>2. b \in Below(d, a)
    BY <1>1, <2>1, BelowItself DEF ClosedBelow
  <2>3. Below(d, b) \subseteq Below(d, a)
    BY <1>1, <2>2, BelowBelow
  <2>4. Side(d, Other(e)) = Peers \ Below(d, a) /\ Side(d, Other(f)) = Below(d, b)
    BY <1>3, OtherProperties DEF Side
  <2> QED
    BY <2>3, <2>4
<1>4. CASE e[2] # "client" /\ f[2] = "client"
  <2>1. d[a] = b
    BY <1>4 DEF OwnerIn
  <2>2. a \in Below(d, b)
    BY <1>1, <2>1, BelowItself DEF ClosedBelow
  <2>3. Below(d, a) \subseteq Below(d, b)
    BY <1>1, <2>2, BelowBelow
  <2>4. Side(d, Other(e)) = Below(d, a) /\ Side(d, Other(f)) = Peers \ Below(d, b)
    BY <1>4, OtherProperties DEF Side
  <2> QED
    BY <2>3, <2>4
<1>5. CASE e[2] # "client" /\ f[2] # "client"
  <2>1. a # b /\ d[a] = d[b] /\ d[a] \in Peers /\ d[a] # a /\ d[b] # b
    BY <1>1, <1>5 DEF OwnerIn, Sides, Tame
  <2>2. a \in Below(d, d[a]) /\ b \in Below(d, d[a])
    BY <1>1, <2>1, BelowItself DEF ClosedBelow
  <2>3. a \notin Below(d, b)
    <3> SUFFICES ASSUME a \in Below(d, b) PROVE FALSE
      OBVIOUS
    <3>1. d[a] \in Below(d, b)
      BY <1>1, <2>1, BelowDials
    <3> QED
      BY <1>1, <2>1, <2>2, <3>1, BelowIsOrder
  <2>4. b \notin Below(d, a)
    <3> SUFFICES ASSUME b \in Below(d, a) PROVE FALSE
      OBVIOUS
    <3>1. d[b] \in Below(d, a)
      BY <1>1, <2>1, BelowDials
    <3> QED
      BY <1>1, <2>1, <2>2, <3>1, BelowIsOrder
  <2>5. Below(d, a) \cap Below(d, b) = {}
    BY <1>1, <2>3, <2>4, BelowIsForest
  <2>6. Side(d, Other(e)) = Below(d, a) /\ Side(d, Other(f)) = Below(d, b)
    BY <1>5, OtherProperties DEF Side
  <2> QED
    BY <2>5, <2>6
<1> QED
  BY <1>2, <1>3, <1>4, <1>5

-----------------------------------------------------------------------------
(* Messages on a wire.                                                     *)

In(s, i) == \E k \in 1..Len(s) : s[k] = i
Distinct(s) == \A k \in 1..Len(s) : \A l \in 1..Len(s) : s[k] = s[l] => k = l

LEMMA EmptyWire == Distinct(<<>>) /\ \A i : ~In(<<>>, i)
<1>1. 1..Len(<<>>) = {}
  OBVIOUS
<1> QED
  BY <1>1 DEF Distinct, In

LEMMA TailWire ==
    ASSUME NEW S, NEW s \in Seq(S), s # <<>>
    PROVE  /\ Tail(s) \in Seq(S) /\ Head(s) \in S /\ In(s, Head(s))
           /\ \A i : In(Tail(s), i) => In(s, i)
           /\ Distinct(s) => Distinct(Tail(s)) /\ ~In(Tail(s), Head(s))
<1>1. Len(s) \in Nat \ {0} /\ Head(s) = s[1] /\ Head(s) \in S
  BY LenProperties, HeadTailProperties, EmptySeq
<1>2. Tail(s) \in Seq(S) /\ Len(Tail(s)) = Len(s) - 1
      /\ \A k \in 1..Len(Tail(s)) : Tail(s)[k] = s[k + 1]
  BY HeadTailProperties
<1>3. \A k \in 1..Len(Tail(s)) : k \in Nat /\ k + 1 \in 1..Len(s) /\ k + 1 # 1
  BY <1>1, <1>2
<1>4. 1 \in 1..Len(s)
  BY <1>1
<1>5. In(s, Head(s))
  BY <1>1, <1>4 DEF In
<1>6. \A i : In(Tail(s), i) => In(s, i)
  BY <1>2, <1>3 DEF In
<1>7. ASSUME Distinct(s)
      PROVE  Distinct(Tail(s)) /\ ~In(Tail(s), Head(s))
  <2>1. ASSUME NEW k \in 1..Len(Tail(s)), NEW l \in 1..Len(Tail(s)), Tail(s)[k] = Tail(s)[l]
        PROVE  k = l
    <3>1. k + 1 = l + 1
      BY <1>2, <1>3, <1>7, <2>1 DEF Distinct
    <3> QED
      BY <1>3, <3>1
  <2>2. ASSUME NEW k \in 1..Len(Tail(s)), Tail(s)[k] = Head(s)
        PROVE  FALSE
    <3>1. k + 1 = 1
      BY <1>1, <1>2, <1>3, <1>4, <1>7, <2>2 DEF Distinct
    <3> QED
      BY <1>3, <3>1
  <2> QED
    BY <2>1, <2>2 DEF Distinct, In
<1> QED
  BY <1>1, <1>2, <1>5, <1>6, <1>7

LEMMA AppendWire ==
    ASSUME NEW S, NEW s \in Seq(S), NEW x \in S
    PROVE  /\ Append(s, x) \in Seq(S)
           /\ \A i : In(Append(s, x), i) <=> In(s, i) \/ i = x
           /\ Distinct(s) /\ ~In(s, x) => Distinct(Append(s, x))
<1>1. /\ Len(s) \in Nat /\ Append(s, x) \in Seq(S) /\ Len(Append(s, x)) = Len(s) + 1
      /\ \A k \in 1..Len(s) : Append(s, x)[k] = s[k]
      /\ Append(s, x)[Len(s) + 1] = x
  BY AppendProperties, LenProperties
<1>2. /\ \A k \in 1..Len(s) : k \in 1..(Len(s) + 1)
      /\ \A k \in 1..(Len(s) + 1) : k \in 1..Len(s) \/ k = Len(s) + 1
      /\ Len(s) + 1 \in 1..(Len(s) + 1)
  BY <1>1
<1>3. ASSUME NEW i
      PROVE  In(Append(s, x), i) <=> In(s, i) \/ i = x
  BY <1>1, <1>2 DEF In
<1>4. ASSUME Distinct(s), ~In(s, x)
      PROVE  Distinct(Append(s, x))
  BY <1>1, <1>2, <1>4 DEF In, Distinct
<1> QED
  BY <1>1, <1>3, <1>4

-----------------------------------------------------------------------------
(* The flood in a forest.                                                  *)

Flood(d, w, sh) ==
    /\ \A e \in Ends : Distinct(w[e])
    /\ \A e \in Ends : \A i \in 1..MaxSent :
          In(w[e], i) => \A q \in Side(d, e) : sh[q][i] = 0
    /\ \A e \in Ends : \A f \in Ends : \A i \in 1..MaxSent :
          e # f /\ In(w[e], i) /\ In(w[f], i) => Side(d, e) \cap Side(d, f) = {}

\* Messages are lost with a connection.
LEMMA FloodLoses ==
    ASSUME NEW d, NEW w, NEW sh, Flood(d, w, sh),
           NEW w2, \A e \in Ends : w2[e] = w[e] \/ w2[e] = <<>>
    PROVE  Flood(d, w2, sh)
<1>1. \A e \in Ends : Distinct(w2[e]) /\ \A i : In(w2[e], i) => In(w[e], i)
  BY EmptyWire DEF Flood
<1> QED
  BY <1>1 DEF Flood

\* A message is taken from its wire.
Taken(w, e, w2) == \A f \in Ends : w2[f] = IF f = e THEN Tail(w[e]) ELSE w[f]

LEMMA FloodTakes ==
    ASSUME NEW d, NEW S, NEW w \in [Ends -> Seq(S)], NEW sh, Flood(d, w, sh),
           NEW e \in Ends, w[e] # <<>>, Head(w[e]) \in 1..MaxSent,
           NEW w2, Taken(w, e, w2)
    PROVE  /\ Flood(d, w2, sh)
           /\ \A q \in Side(d, e) : sh[q][Head(w[e])] = 0
           /\ \A f \in Ends : In(w2[f], Head(w[e])) => Side(d, e) \cap Side(d, f) = {}
<1>1. /\ w[e] \in Seq(S) /\ Tail(w[e]) \in Seq(S) /\ Distinct(Tail(w[e]))
      /\ In(w[e], Head(w[e])) /\ ~In(Tail(w[e]), Head(w[e]))
      /\ \A i : In(Tail(w[e]), i) => In(w[e], i)
  <2>1. Distinct(w[e]) /\ w[e] \in Seq(S)
    BY DEF Flood
  <2> QED
    BY <2>1, TailWire
<1>2. w2[e] = Tail(w[e]) /\ \A f \in Ends : f # e => w2[f] = w[f]
  BY DEF Taken
<1>3. \A f \in Ends : Distinct(w2[f]) /\ \A i : In(w2[f], i) => In(w[f], i)
  BY <1>1, <1>2 DEF Flood
<1>4. Flood(d, w2, sh)
  BY <1>3 DEF Flood
<1>5. \A q \in Side(d, e) : sh[q][Head(w[e])] = 0
  BY <1>1 DEF Flood
<1>6. ASSUME NEW f \in Ends, In(w2[f], Head(w[e]))
      PROVE  Side(d, e) \cap Side(d, f) = {}
  <2>1. f # e
    BY <1>1, <1>2, <1>6
  <2> QED
    BY <1>1, <1>3, <1>6, <2>1 DEF Flood
<1> QED
  BY <1>2, <1>4, <1>5, <1>6

\* A message is written to ends on sides where it is not and was not shown.
Spread(d, w, sh, id, G, w2) ==
    /\ G \in SUBSET Ends /\ id \in 1..MaxSent
    /\ \A g \in G : \A q \in Side(d, g) : sh[q][id] = 0
    /\ \A g \in G : Side(d, g) # {}
    /\ \A g \in G : \A f \in Ends : In(w[f], id) => Side(d, g) \cap Side(d, f) = {}
    /\ \A g \in G : \A h \in G : g # h => Side(d, g) \cap Side(d, h) = {}
    /\ \A g \in Ends : w2[g] = IF g \in G THEN Append(w[g], id) ELSE w[g]

LEMMA FloodSpreads ==
    ASSUME NEW d, NEW S, NEW w \in [Ends -> Seq(S)], NEW sh, Flood(d, w, sh),
           NEW id \in S, NEW G, NEW w2, Spread(d, w, sh, id, G, w2)
    PROVE  Flood(d, w2, sh)
<1> USE DEF Spread
<1>1. ASSUME NEW e \in Ends
      PROVE  /\ Distinct(w2[e])
             /\ \A i : In(w2[e], i) <=> In(w[e], i) \/ (i = id /\ e \in G)
  <2>1. CASE e \in G
    <3>1. ~In(w[e], id)
      BY <2>1
    <3>2. w[e] \in Seq(S) /\ Distinct(w[e])
      BY DEF Flood
    <3>3. /\ \A i : In(Append(w[e], id), i) <=> In(w[e], i) \/ i = id
          /\ Distinct(Append(w[e], id))
      BY <3>1, <3>2, AppendWire
    <3> QED
      BY <2>1, <3>3
  <2>2. CASE e \notin G
    BY <2>2 DEF Flood
  <2> QED
    BY <2>1, <2>2
<1>2. ASSUME NEW e \in Ends, NEW i \in 1..MaxSent, In(w2[e], i), NEW q \in Side(d, e)
      PROVE  sh[q][i] = 0
  BY <1>1, <1>2 DEF Flood
<1>3. ASSUME NEW e \in Ends, NEW f \in Ends, NEW i \in 1..MaxSent, e # f, In(w2[e], i), In(w2[f], i)
      PROVE  Side(d, e) \cap Side(d, f) = {}
  <2>1. CASE In(w[e], i) /\ In(w[f], i)
    BY <1>3, <2>1 DEF Flood
  <2>2. CASE i = id /\ e \in G /\ f \in G
    BY <1>3, <2>2
  <2>3. CASE i = id /\ e \in G /\ In(w[f], i)
    BY <2>3
  <2>4. CASE i = id /\ f \in G /\ In(w[e], i)
    BY <2>4
  <2> QED
    BY <1>1, <1>3, <2>1, <2>2, <2>3, <2>4
<1> QED
  BY <1>1, <1>2, <1>3 DEF Flood

-----------------------------------------------------------------------------
(* The invariant.                                                          *)

FloodOK == Tame(dials) => Flood(dials, wire, shown)

\* A message is shown to whom it is for, and once where there is no ring.
ShownFor ==
    \A p \in Peers : \A i \in 1..MaxSent :
        shown[p][i] > 0 => /\ i \in Ids /\ sent[i].to = p
                           /\ Tame(dials) => shown[p][i] = 1

IInv == TypeOK /\ FloodOK /\ ShownFor

States == {"off", "server", "running", "stopping", "ended"}
Texts == [to : Peers \cup {Nobody}, reach : SUBSET Peers]

LEMMA OwnerIs == \A e \in Ends : Owner(e) = OwnerIn(dials, e)
BY DEF Owner, OwnerIn

LEMMA DialsType == TypeOK => dials \in [Peers -> Peers \cup {Nobody}]
BY P2PAssumption DEF TypeOK

\* The steps that end connections or lose what is on its way.
LEMMA LosingInv ==
    ASSUME IInv, UNCHANGED <<dials, sent, shown>>,
           state' \in [Peers -> States], broken' \in BOOLEAN,
           protos' \subseteq Ends,
           \A e \in protos' : Owner(e) \in Peers /\ state'[Owner(e)] \notin {"off", "ended"},
           wire' \in [Ends -> Seq(Ids)],
           \A e \in Ends : wire'[e] = wire[e] \/ wire'[e] = <<>>,
           \A e \in Ends : wire'[e] # <<>> => e \in protos'
    PROVE  IInv'
<1>1. TypeOK'
  <2>1. Ids' = Ids
    BY DEF Ids
  <2>2. \A e \in Ends : Owner(e)' = Owner(e)
    BY DEF Owner
  <2>3. \A e \in protos' : Owner(e)' \in Peers /\ state'[Owner(e)'] \notin {"off", "ended"}
    BY <2>2
  <2> QED
    BY <2>1, <2>3 DEF IInv, TypeOK, States
<1>2. FloodOK'
  <2> SUFFICES ASSUME Tame(dials)
               PROVE  Flood(dials, wire', shown)
    BY DEF FloodOK
  <2>1. Flood(dials, wire, shown)
    BY DEF IInv, FloodOK
  <2> QED
    BY <2>1, FloodLoses
<1>3. ShownFor'
  BY DEF IInv, ShownFor, Ids
<1> QED
  BY <1>1, <1>2, <1>3 DEF IInv

LEMMA InitInv == Init => IInv
<1> SUFFICES ASSUME Init PROVE IInv
  OBVIOUS
<1>1. Len(sent) = 0 /\ sent \in Seq(Texts) /\ wire \in [Ends -> Seq(Ids)]
  BY DEF Init
<1>2. TypeOK
  <2>1. Len(sent) <= MaxSent
    BY <1>1, P2PAssumption
  <2>2. shown \in [Peers -> [1..MaxSent -> 0..2]]
    BY DEF Init
  <2> QED
    BY <1>1, <2>1, <2>2 DEF Init, TypeOK, Texts
<1>3. Flood(dials, wire, shown)
  <2>1. \A e \in Ends : Distinct(wire[e]) /\ \A i : ~In(wire[e], i)
    BY EmptyWire DEF Init
  <2> QED
    BY <2>1 DEF Flood
<1>4. ShownFor
  BY DEF Init, ShownFor
<1> QED
  BY <1>2, <1>3, <1>4 DEF IInv, FloodOK

LEMMA ListenInv ==
    ASSUME IInv, NEW p \in Peers, Listen(p)
    PROVE  IInv'
<1>1. state' \in [Peers -> States] /\ \A q \in Peers : state'[q] \in {state[q], "server", "running"}
  BY DEF IInv, TypeOK, Listen, States
<1>2. \A e \in protos' : Owner(e) \in Peers /\ state'[Owner(e)] \notin {"off", "ended"}
  BY <1>1 DEF IInv, TypeOK, Listen
<1> QED
  BY <1>1, <1>2, LosingInv DEF IInv, TypeOK, Listen

\* Ends are closed, and no other end is of a peer who ended.
LEMMA CloseStep ==
    ASSUME TypeOK, NEW ends \in SUBSET Ends, Close(ends)
    PROVE  /\ protos' \subseteq Ends /\ protos' = protos \ ends
           /\ wire' \in [Ends -> Seq(Ids)]
           /\ \A e \in Ends : wire'[e] = wire[e] \/ wire'[e] = <<>>
           /\ \A e \in Ends : wire'[e] # <<>> => e \in protos'
<1>1. <<>> \in Seq(Ids)
  OBVIOUS
<1> QED
  BY <1>1 DEF TypeOK, Close

LEMMA DialInv ==
    ASSUME IInv, NEW p \in Peers, Dial(p)
    PROVE  IInv'
<1>1. TypeOK
  BY DEF IInv
<1>2. CASE state[dials[p]] \in {"server", "running"}
  <2>1. dials[p] \in Peers
    BY <1>1, DialsType DEF Dial
  <2>2. state' \in [Peers -> States] /\ \A q \in Peers : state'[q] = IF q = p THEN "running" ELSE state[q]
    BY <1>1, <1>2 DEF Dial, TypeOK, States
  <2>3. <<p, "client">> \in Ends /\ <<p, "server">> \in Ends
        /\ Owner(<<p, "client">>) = p /\ Owner(<<p, "server">>) = dials[p]
    BY DEF Ends, Sides, Owner
  <2>4. protos' = protos \cup {<<p, "client">>, <<p, "server">>}
    BY <1>2 DEF Dial
  <2>5. \A e \in protos' : Owner(e) \in Peers /\ state'[Owner(e)] \notin {"off", "ended"}
    BY <1>1, <1>2, <2>1, <2>2, <2>3, <2>4 DEF TypeOK
  <2> QED
    BY <1>1, <1>2, <2>2, <2>3, <2>4, <2>5, LosingInv DEF Dial, TypeOK
<1>3. CASE state[dials[p]] \notin {"server", "running"}
  <2>1. state' \in [Peers -> States] /\ \A q \in Peers : state'[q] = IF q = p THEN "ended" ELSE state[q]
    BY <1>1, <1>3 DEF Dial, TypeOK, States
  <2>2. EndsOf(p) \in SUBSET Ends /\ Close(EndsOf(p))
    BY <1>1, <1>3 DEF Dial, EndsOf, TypeOK
  <2>3. /\ protos' \subseteq Ends /\ protos' = protos \ EndsOf(p)
        /\ wire' \in [Ends -> Seq(Ids)]
        /\ \A e \in Ends : wire'[e] = wire[e] \/ wire'[e] = <<>>
        /\ \A e \in Ends : wire'[e] # <<>> => e \in protos'
    BY <1>1, <2>2, CloseStep
  <2>4. \A e \in protos' : Owner(e) \in Peers /\ state'[Owner(e)] \notin {"off", "ended"}
    BY <1>1, <2>1, <2>3 DEF TypeOK, EndsOf
  <2>5. broken' \in BOOLEAN
    BY <1>1, <1>3 DEF Dial, TypeOK
  <2> QED
    BY <1>1, <2>1, <2>3, <2>4, <2>5, LosingInv DEF Dial
<1> QED
  BY <1>2, <1>3

LEMMA QuitInv ==
    ASSUME IInv, NEW p \in Peers, Quit(p)
    PROVE  IInv'
<1>1. TypeOK
  BY DEF IInv
<1>2. state' \in [Peers -> States] /\ \A q \in Peers : state'[q] = IF q = p THEN "stopping" ELSE state[q]
  BY <1>1 DEF Quit, TypeOK, States
<1>3. /\ wire' \in [Ends -> Seq(Ids)]
      /\ \A e \in Ends : wire'[e] = wire[e] \/ wire'[e] = <<>>
  <2>1. <<>> \in Seq(Ids)
    OBVIOUS
  <2> QED
    BY <1>1, <2>1 DEF Quit, TypeOK
<1>4. protos' = protos /\ UNCHANGED <<dials, sent, shown>> /\ broken' \in BOOLEAN
  BY <1>1 DEF Quit, TypeOK
<1>5. \A e \in protos' : Owner(e) \in Peers /\ state'[Owner(e)] \notin {"off", "ended"}
  BY <1>1, <1>2, <1>4 DEF TypeOK
<1> QED
  BY <1>1, <1>2, <1>3, <1>4, <1>5, LosingInv DEF TypeOK

LEMMA StopInv ==
    ASSUME IInv, NEW p \in Peers, Stop(p)
    PROVE  IInv'
<1>1. TypeOK
  BY DEF IInv
<1>2. state' \in [Peers -> States] /\ \A q \in Peers : state'[q] = IF q = p THEN "ended" ELSE state[q]
  BY <1>1 DEF Stop, TypeOK, States
<1>3. EndsOf(p) \in SUBSET Ends
  BY <1>1 DEF EndsOf, TypeOK
<1>4. /\ protos' \subseteq Ends /\ protos' = protos \ EndsOf(p)
      /\ wire' \in [Ends -> Seq(Ids)]
      /\ \A e \in Ends : wire'[e] = wire[e] \/ wire'[e] = <<>>
      /\ \A e \in Ends : wire'[e] # <<>> => e \in protos'
  BY <1>1, <1>3, CloseStep DEF Stop
<1>5. \A e \in protos' : Owner(e) \in Peers /\ state'[Owner(e)] \notin {"off", "ended"}
  BY <1>1, <1>2, <1>4 DEF TypeOK, EndsOf
<1> QED
  BY <1>1, <1>2, <1>4, <1>5, LosingInv DEF Stop, TypeOK

LEMMA CloseOneInv ==
    ASSUME IInv, NEW e \in Ends, Disconnect(e) \/ Coalesced(e)
    PROVE  IInv'
<1>1. TypeOK
  BY DEF IInv
<1>2. /\ protos' \subseteq Ends /\ protos' = protos \ {e}
      /\ wire' \in [Ends -> Seq(Ids)]
      /\ \A f \in Ends : wire'[f] = wire[f] \/ wire'[f] = <<>>
      /\ \A f \in Ends : wire'[f] # <<>> => f \in protos'
  <2>1. Close({e}) /\ {e} \in SUBSET Ends
    BY DEF Disconnect, Coalesced
  <2> QED
    BY <1>1, <2>1, CloseStep
<1>3. UNCHANGED <<dials, state, sent, shown>> /\ broken' \in BOOLEAN
  BY <1>1 DEF Disconnect, Coalesced, TypeOK
<1>4. \A f \in protos' : Owner(f) \in Peers /\ state'[Owner(f)] \notin {"off", "ended"}
  BY <1>1, <1>2, <1>3 DEF TypeOK
<1> QED
  BY <1>1, <1>2, <1>3, <1>4, LosingInv DEF TypeOK, States

\* What a write adds to the wires.
LEMMA WrittenStep ==
    ASSUME TypeOK, NEW S, NEW w \in [Ends -> Seq(S)], NEW id \in S, NEW targets
    PROVE  /\ Written(w, id, targets) \in [Ends -> Seq(S)]
           /\ \A e \in Ends : (e \notin protos \/ Other(e) \notin targets \/ ~LoopRuns(e)) =>
                Written(w, id, targets)[e] = w[e]
           /\ \A e \in Ends : e \in protos /\ Other(e) \in targets /\ LoopRuns(e) =>
                Written(w, id, targets)[e] = Append(w[e], id)
<1>1. \A e \in Ends : Append(w[e], id) \in Seq(S)
  BY AppendProperties
<1> QED
  BY <1>1 DEF Written

\* The ends that a peer's write gets to.
Reached(p, exceptions) ==
    {g \in Ends : g \in protos /\ LoopRuns(g) /\ Other(g) \in Targets(p, exceptions)}

LEMMA ReachedProperties ==
    ASSUME TypeOK, Tame(dials), NEW p \in Peers, NEW exceptions
    PROVE  /\ \A g \in Reached(p, exceptions) : Side(dials, g) # {} /\ Side(dials, g) \subseteq Peers
           /\ \A g \in Reached(p, exceptions) : \A h \in Reached(p, exceptions) :
                g # h => Side(dials, g) \cap Side(dials, h) = {}
           /\ \A g \in Reached(p, exceptions) : \A e \in EndsOf(p) :
                Other(g) # e => Side(dials, g) \subseteq Side(dials, e)
<1>1. ASSUME NEW g \in Reached(p, exceptions)
      PROVE  /\ g \in Ends /\ Other(g) \in Ends /\ Other(Other(g)) = g
             /\ OwnerIn(dials, Other(g)) = p
             /\ Side(dials, g) # {} /\ Side(dials, g) \subseteq Peers
  <2>1. g \in Ends /\ g \in protos /\ Other(g) \in EndsOf(p)
    BY DEF Reached, Targets
  <2>2. Other(g) \in Ends /\ Other(Other(g)) = g
    BY <2>1, OtherProperties
  <2>3. OwnerIn(dials, Other(g)) = p
    BY <2>1, <2>2, OwnerIs DEF EndsOf
  <2>4. OwnerIn(dials, g) \in Side(dials, g)
    BY <2>1, OwnerIs, OwnSide DEF TypeOK
  <2> QED
    BY <2>1, <2>2, <2>3, <2>4, SideProperties
<1>2. ASSUME NEW g \in Reached(p, exceptions), NEW h \in Reached(p, exceptions), g # h
      PROVE  Side(dials, g) \cap Side(dials, h) = {}
  <2>1. Other(g) # Other(h)
    BY <1>1, <1>2
  <2>2. Side(dials, Other(Other(g))) \cap Side(dials, Other(Other(h))) = {}
    BY <1>1, <2>1, OtherSides
  <2> QED
    BY <1>1, <2>2
<1>3. ASSUME NEW g \in Reached(p, exceptions), NEW e \in EndsOf(p), Other(g) # e
      PROVE  Side(dials, g) \subseteq Side(dials, e)
  <2>1. e \in Ends /\ OwnerIn(dials, e) = p
    BY OwnerIs DEF EndsOf, TypeOK
  <2>2. Side(dials, Other(Other(g))) \cap Side(dials, Other(e)) = {}
    BY <1>1, <1>3, <2>1, OtherSides
  <2>3. Side(dials, Other(e)) = Peers \ Side(dials, e)
    BY <2>1, SideProperties
  <2> QED
    BY <1>1, <2>2, <2>3
<1> QED
  BY <1>1, <1>2, <1>3

LEMMA SayInv ==
    ASSUME IInv, NEW p \in Peers, NEW to \in Peers \cup {Nobody}, Say(p, to)
    PROVE  IInv'
<1> DEFINE id == Len(sent) + 1
           text == [to |-> to, reach |-> Reach(p)]
           targets == Targets(p, {})
<1>1. TypeOK /\ FloodOK /\ ShownFor
  BY DEF IInv
<1>2. /\ sent \in Seq(Texts) /\ Len(sent) \in Nat /\ id \in 1..MaxSent /\ id \notin Ids
      /\ text \in Texts
  <2>1. sent \in Seq(Texts)
    BY <1>1 DEF TypeOK, Texts
  <2>2. Len(sent) \in Nat
    BY <2>1, LenProperties
  <2>3. Reach(p) \in SUBSET Peers
    BY DEF Reach
  <2> QED
    BY <2>1, <2>2, <2>3, P2PAssumption DEF Say, Ids, Texts
<1>3. /\ sent' \in Seq(Texts) /\ Len(sent') = id /\ Ids' = Ids \cup {id}
      /\ \A i \in Ids : sent'[i] = sent[i]
  <2>1. sent' = Append(sent, text)
    BY DEF Say
  <2>2. /\ sent' \in Seq(Texts) /\ Len(sent') = id
        /\ \A i \in 1..Len(sent) : sent'[i] = sent[i]
    BY <1>2, <2>1, AppendProperties
  <2>3. 1..id = (1..Len(sent)) \cup {id}
    BY <1>2
  <2> QED
    BY <2>2, <2>3 DEF Ids
<1>4. wire' = Written(wire, id, targets) /\ UNCHANGED <<dials, state, protos, shown, broken>>
  BY DEF Say
<1>5. \A g \in Ends : Other(g) \in targets <=> Other(g) \in Targets(p, {})
  OBVIOUS
<1> HIDE DEF text, id, targets
<1>6. wire \in [Ends -> Seq(Ids')]
  <2>1. \A s \in Seq(Ids) : s \in Seq(Ids')
    BY <1>3
  <2> QED
    BY <1>1, <2>1 DEF TypeOK
<1>7. /\ wire' \in [Ends -> Seq(Ids')]
      /\ \A e \in Ends : (e \notin protos \/ Other(e) \notin targets \/ ~LoopRuns(e)) => wire'[e] = wire[e]
      /\ \A e \in Ends : e \in protos /\ Other(e) \in targets /\ LoopRuns(e) =>
            wire'[e] = Append(wire[e], id)
  <2>1. id \in Ids'
    BY <1>3
  <2> QED
    BY <1>1, <1>6, <1>4, <2>1, WrittenStep
<1>8. TypeOK'
  <2>1. \A e \in Ends : wire'[e] # <<>> => e \in protos'
    BY <1>1, <1>4, <1>7 DEF TypeOK
  <2>2. \A e \in protos' : Owner(e)' \in Peers /\ state'[Owner(e)'] \notin {"off", "ended"}
    BY <1>1, <1>4 DEF TypeOK, Owner
  <2>3. Len(sent') <= MaxSent
    BY <1>2, <1>3
  <2>4. wire' \in [Ends -> Seq(Ids)']
    BY <1>7
  <2> QED
    BY <1>1, <1>3, <1>4, <2>1, <2>2, <2>3, <2>4 DEF TypeOK, Texts
<1>9. ShownFor'
  <2> SUFFICES ASSUME NEW q \in Peers, NEW i \in 1..MaxSent, shown[q][i] > 0
               PROVE  i \in Ids' /\ sent'[i].to = q /\ (Tame(dials) => shown[q][i] = 1)
    BY <1>4 DEF ShownFor
  <2>1. i \in Ids /\ sent[i].to = q /\ (Tame(dials) => shown[q][i] = 1)
    BY <1>1 DEF ShownFor
  <2> QED
    BY <1>3, <2>1
<1>10. FloodOK'
  <2> SUFFICES ASSUME Tame(dials)
               PROVE  Flood(dials, wire', shown)
    BY <1>4 DEF FloodOK
  <2> DEFINE G == Reached(p, {})
  <2>1. Flood(dials, wire, shown)
    BY <1>1 DEF FloodOK
  <2>2. /\ \A g \in G : Side(dials, g) # {} /\ Side(dials, g) \subseteq Peers
        /\ \A g \in G : \A h \in G : g # h => Side(dials, g) \cap Side(dials, h) = {}
    BY <1>1, ReachedProperties
  <2>3. G \in SUBSET Ends
    BY DEF Reached
  <2>4. \A g \in Ends : wire'[g] = IF g \in G THEN Append(wire[g], id) ELSE wire[g]
    BY <1>7, <1>5 DEF Reached
  <2>5. \A q \in Peers : shown[q][id] = 0
    <3> SUFFICES ASSUME NEW q \in Peers, shown[q][id] # 0
                 PROVE  FALSE
      OBVIOUS
    <3>1. shown[q][id] > 0
      <4>1. shown[q] \in [1..MaxSent -> 0..2]
        BY <1>1 DEF TypeOK
      <4>2. shown[q][id] \in 0..2
        BY <1>2, <4>1
      <4> QED
        BY <4>2
    <3> QED
      BY <1>1, <1>2, <3>1 DEF ShownFor
  <2>6. ASSUME NEW f \in Ends, In(wire[f], id)
        PROVE  FALSE
    <3>1. wire[f] \in Seq(Ids)
      BY <1>1 DEF TypeOK
    <3>2. \A k \in 1..Len(wire[f]) : wire[f][k] \in Ids
      BY <3>1, ElementOfSeq
    <3> QED
      BY <1>2, <2>6, <3>2 DEF In
  <2> HIDE DEF G
  <2>7. \A g \in G : \A q \in Side(dials, g) : shown[q][id] = 0
    BY <2>2, <2>5
  <2>8. id \in Ids'
    BY <1>3
  <2>9. \A g \in G : \A f \in Ends : In(wire[f], id) => Side(dials, g) \cap Side(dials, f) = {}
    BY <2>6
  <2>10. Spread(dials, wire, shown, id, G, wire')
    BY <1>2, <2>2, <2>3, <2>4, <2>7, <2>9 DEF Spread
  <2> QED
    BY <1>6, <2>1, <2>8, <2>10, FloodSpreads
<1> QED
  BY <1>8, <1>9, <1>10 DEF IInv

LEMMA MinOfTwo ==
    ASSUME NEW n \in 0..2
    PROVE  Min({2, n + 1}) \in 1..2 /\ (n = 0 => Min({2, n + 1}) = 1)
<1>1. \E x \in {2, n + 1} : \A y \in {2, n + 1} : x <= y
  OBVIOUS
<1>2. Min({2, n + 1}) \in {2, n + 1} /\ \A y \in {2, n + 1} : Min({2, n + 1}) <= y
  BY <1>1 DEF Min
<1> QED
  BY <1>2

LEMMA ReceiveInv ==
    ASSUME IInv, NEW e \in Ends, Receive(e)
    PROVE  IInv'
<1> DEFINE p == Owner(e)
           id == Head(wire[e])
           rest == [wire EXCEPT ![e] = Tail(wire[e])]
           targets == Targets(p, Exceptions(e))
<1>1. TypeOK /\ FloodOK /\ ShownFor
  BY DEF IInv
<1>2. /\ e \in protos /\ p \in Peers /\ wire[e] \in Seq(Ids) /\ wire[e] # <<>>
      /\ Tail(wire[e]) \in Seq(Ids) /\ id \in Ids /\ id \in 1..MaxSent
  <2>1. e \in protos /\ p \in Peers /\ wire[e] \in Seq(Ids) /\ wire[e] # <<>>
    BY <1>1 DEF Receive, TypeOK
  <2>2. Tail(wire[e]) \in Seq(Ids) /\ id \in Ids
    BY <2>1, TailWire
  <2>3. Len(sent) \in Nat /\ Len(sent) <= MaxSent
    BY <1>1, LenProperties DEF TypeOK
  <2> QED
    BY <2>1, <2>2, <2>3, P2PAssumption DEF Ids
<1>3. UNCHANGED <<dials, state, protos, sent, broken>> /\ Ids' = Ids
  BY DEF Receive, Ids
<1>4. \/ /\ ForMe(p, id) /\ wire' = rest
         /\ shown' = [shown EXCEPT ![p][id] = Min({2, @ + 1})]
      \/ /\ wire' = Written(rest, id, targets) /\ UNCHANGED shown
  BY DEF Receive
<1>5. /\ rest \in [Ends -> Seq(Ids)]
      /\ \A f \in Ends : rest[f] = IF f = e THEN Tail(wire[e]) ELSE wire[f]
  BY <1>1, <1>2 DEF TypeOK
<1>6. \A f \in Ends : rest[f] # <<>> => f \in protos
  BY <1>1, <1>2, <1>5 DEF TypeOK
<1>7. ASSUME Tame(dials)
      PROVE  /\ Flood(dials, rest, shown)
             /\ \A q \in Side(dials, e) : shown[q][id] = 0
             /\ \A f \in Ends : In(rest[f], id) => Side(dials, e) \cap Side(dials, f) = {}
             /\ p \in Side(dials, e)
  <2>1. Flood(dials, wire, shown) /\ wire \in [Ends -> Seq(Ids)]
    BY <1>1, <1>7 DEF FloodOK, TypeOK
  <2>2. p \in Side(dials, e)
    BY <1>2, <1>7, OwnerIs, OwnSide
  <2>3. Taken(wire, e, rest)
    BY <1>5 DEF Taken
  <2> HIDE DEF rest
  <2> QED
    BY <1>2, <2>1, <2>2, <2>3, FloodTakes
<1>8. CASE /\ ForMe(p, id) /\ wire' = rest
           /\ shown' = [shown EXCEPT ![p][id] = Min({2, @ + 1})]
  <2> HIDE DEF p, id, rest
  <2>1. shown[p] \in [1..MaxSent -> 0..2] /\ shown[p][id] \in 0..2
    <3>1. shown[p] \in [1..MaxSent -> 0..2]
      BY <1>1, <1>2 DEF TypeOK
    <3> QED
      BY <1>2, <3>1
  <2> DEFINE n == Min({2, shown[p][id] + 1})
  <2>2. n \in 1..2 /\ (shown[p][id] = 0 => n = 1)
    BY <2>1, MinOfTwo
  <2>3. shown' = [shown EXCEPT ![p] = [shown[p] EXCEPT ![id] = n]]
    BY <1>8
  <2> HIDE DEF n
  <2>4. n \in 0..2
    BY <2>2
  <2>5. [shown[p] EXCEPT ![id] = n] \in [1..MaxSent -> 0..2]
    BY <1>2, <2>1, <2>4
  <2>6. /\ shown' \in [Peers -> [1..MaxSent -> 0..2]]
        /\ \A q \in Peers : \A i \in 1..MaxSent :
             shown'[q][i] = IF q = p /\ i = id THEN n ELSE shown[q][i]
    BY <1>1, <1>2, <2>1, <2>3, <2>5 DEF TypeOK
  <2>7. TypeOK'
    <3>1. \A f \in protos' : Owner(f)' \in Peers /\ state'[Owner(f)'] \notin {"off", "ended"}
      BY <1>1, <1>3 DEF TypeOK, Owner
    <3>2. wire' \in [Ends -> Seq(Ids)'] /\ \A f \in Ends : wire'[f] # <<>> => f \in protos'
      BY <1>3, <1>5, <1>6, <1>8
    <3> QED
      BY <1>1, <1>3, <2>6, <3>1, <3>2 DEF TypeOK
  <2>8. ShownFor'
    <3> SUFFICES ASSUME NEW q \in Peers, NEW i \in 1..MaxSent, shown'[q][i] > 0
                 PROVE  i \in Ids /\ sent[i].to = q /\ (Tame(dials) => shown'[q][i] = 1)
      BY <1>3 DEF ShownFor
    <3>1. CASE q = p /\ i = id
      <4>1. i \in Ids /\ sent[i].to = q
        BY <1>2, <1>8, <3>1 DEF ForMe
      <4>2. Tame(dials) => shown[p][id] = 0
        BY <1>7
      <4> QED
        BY <2>2, <2>6, <3>1, <4>1, <4>2
    <3>2. CASE ~(q = p /\ i = id)
      BY <1>1, <2>6, <3>2 DEF ShownFor
    <3> QED
      BY <3>1, <3>2
  <2>9. FloodOK'
    <3> SUFFICES ASSUME Tame(dials)
                 PROVE  Flood(dials, rest, shown')
      BY <1>3, <1>8 DEF FloodOK
    <3>1. \A f \in Ends : Side(dials, f) \subseteq Peers
      BY SideProperties
    <3>2. ASSUME NEW f \in Ends, NEW i \in 1..MaxSent, In(rest[f], i), NEW q \in Side(dials, f)
          PROVE  shown'[q][i] = 0
      <4>1. shown[q][i] = 0 /\ q \in Peers
        BY <1>7, <3>1, <3>2 DEF Flood
      <4>2. ~(q = p /\ i = id)
        BY <1>7, <3>2
      <4> QED
        BY <2>6, <4>1, <4>2
    <3>3. Flood(dials, rest, shown)
      BY <1>7
    <3> QED
      BY <3>2, <3>3 DEF Flood
  <2> QED
    BY <2>7, <2>8, <2>9 DEF IInv
<1>9. CASE wire' = Written(rest, id, targets) /\ UNCHANGED shown
  <2>1. \A g \in Ends : Other(g) \in targets <=> Other(g) \in Targets(p, Exceptions(e))
    OBVIOUS
  <2>2. e \notin targets /\ e \in EndsOf(p)
    BY <1>2 DEF Targets, Exceptions, EndsOf
  <2> DEFINE G == Reached(p, Exceptions(e))
  <2>3. \A g \in Ends : g \in G <=> g \in protos /\ LoopRuns(g) /\ Other(g) \in targets
    BY <2>1 DEF Reached
  <2>4. Tame(dials) =>
          /\ \A g \in G : Side(dials, g) # {} /\ Side(dials, g) \subseteq Peers
          /\ \A g \in G : \A h \in G : g # h => Side(dials, g) \cap Side(dials, h) = {}
          /\ \A g \in G : \A f \in EndsOf(p) : Other(g) # f => Side(dials, g) \subseteq Side(dials, f)
    BY <1>1, <1>2, ReachedProperties
  <2>5. G \in SUBSET Ends
    BY DEF Reached
  <2> HIDE DEF p, id, rest, targets, G
  <2>6. /\ wire' \in [Ends -> Seq(Ids)]
        /\ \A g \in Ends : (g \notin protos \/ Other(g) \notin targets \/ ~LoopRuns(g)) => wire'[g] = rest[g]
        /\ \A g \in Ends : g \in protos /\ Other(g) \in targets /\ LoopRuns(g) =>
              wire'[g] = Append(rest[g], id)
    BY <1>1, <1>2, <1>5, <1>9, WrittenStep
  <2>7. TypeOK'
    <3>1. \A f \in protos' : Owner(f)' \in Peers /\ state'[Owner(f)'] \notin {"off", "ended"}
      BY <1>1, <1>3 DEF TypeOK, Owner
    <3>2. wire' \in [Ends -> Seq(Ids)'] /\ \A f \in Ends : wire'[f] # <<>> => f \in protos'
      BY <1>3, <1>6, <2>6
    <3> QED
      BY <1>1, <1>3, <1>9, <3>1, <3>2 DEF TypeOK
  <2>8. ShownFor'
    BY <1>1, <1>3, <1>9 DEF ShownFor
  <2>9. FloodOK'
    <3> SUFFICES ASSUME Tame(dials)
                 PROVE  Flood(dials, wire', shown)
      BY <1>3, <1>9 DEF FloodOK
    <3>1. \A g \in Ends : wire'[g] = IF g \in G THEN Append(rest[g], id) ELSE rest[g]
      BY <2>3, <2>6
    <3>2. \A g \in G : Side(dials, g) \subseteq Side(dials, e)
      <4>1. \A g \in G : Other(g) # e
        BY <2>2, <2>3, <2>5
      <4> QED
        BY <2>2, <2>4, <4>1
    <3>3. \A g \in G : \A q \in Side(dials, g) : shown[q][id] = 0
      BY <1>7, <3>2
    <3>4. \A g \in G : \A f \in Ends : In(rest[f], id) => Side(dials, g) \cap Side(dials, f) = {}
      BY <1>7, <3>2
    <3>5. Spread(dials, rest, shown, id, G, wire')
      BY <1>2, <2>4, <2>5, <3>1, <3>3, <3>4 DEF Spread
    <3> QED
      BY <1>2, <1>5, <1>7, <3>5, FloodSpreads
  <2> QED
    BY <2>7, <2>8, <2>9 DEF IInv
<1> QED
  BY <1>4, <1>8, <1>9

-----------------------------------------------------------------------------
(* Messages that are still under way.                                      *)

\* Some peers, not the one it is for, have handled a message: they are who it
\* comes from, wherever it is on its way; from each of them it went on by every
\* end of a set, and who it is for can be got to from them by these ends.
Carried(d, w, i, to, H, L) ==
    /\ H \subseteq Peers \ {to}
    /\ \A e \in L : OwnerIn(d, e) \in H => OwnerIn(d, Other(e)) \in H \/ In(w[Other(e)], i)
    /\ \A e \in Ends : In(w[e], i) => OwnerIn(d, Other(e)) \in H
    /\ \A s \in SUBSET Peers :
          H \subseteq s /\ (\A e \in L : OwnerIn(d, e) \in s => OwnerIn(d, Other(e)) \in s)
            => to \in s

UnderWay(i) ==
    \E H \in SUBSET Peers, L \in SUBSET protos : Carried(dials, wire, i, sent[i].to, H, L)

\* While no connection was lost, all have both their ends, whose peers read,
\* and each message was shown or is under way.
CarriedOK ==
    ~broken =>
        /\ \A e \in protos : Other(e) \in protos /\ state[Owner(e)] # "stopping"
        /\ \A i \in Ids : sent[i].to \in sent[i].reach =>
              shown[sent[i].to][i] > 0 \/ UnderWay(i)

\* The wires may change, but for a message.
LEMMA CarriedSame ==
    ASSUME NEW d, NEW w, NEW w2, NEW i, NEW to, NEW H, NEW L \in SUBSET Ends,
           Carried(d, w, i, to, H, L), \A e \in Ends : In(w2[e], i) <=> In(w[e], i)
    PROVE  Carried(d, w2, i, to, H, L)
<1>1. \A e \in L : Other(e) \in Ends
  BY OtherProperties
<1> QED
  BY <1>1 DEF Carried

\* What loses nothing keeps every message under way.
LEMMA NothingLost ==
    ASSUME TypeOK, CarriedOK, UNCHANGED <<dials, sent, shown>>,
           ~broken' => /\ ~broken
                       /\ \A e \in Ends : wire'[e] = wire[e]
                       /\ protos \subseteq protos'
                       /\ \A e \in protos' : Other(e) \in protos' /\ state'[Owner(e)] # "stopping"
    PROVE  CarriedOK'
<1> SUFFICES ASSUME ~broken'
             PROVE  /\ \A e \in protos' : Other(e) \in protos' /\ state'[Owner(e)'] # "stopping"
                    /\ \A i \in Ids' : sent[i].to \in sent[i].reach =>
                          shown[sent[i].to][i] > 0 \/ UnderWay(i)'
  BY DEF CarriedOK
<1>1. \A e \in protos' : Other(e) \in protos' /\ state'[Owner(e)'] # "stopping"
  BY DEF Owner
<1>2. ASSUME NEW i \in Ids', sent[i].to \in sent[i].reach, ~(shown[sent[i].to][i] > 0)
      PROVE  UnderWay(i)'
  <2>1. i \in Ids
    BY DEF Ids
  <2>2. UnderWay(i)
    BY <1>2, <2>1 DEF CarriedOK
  <2>3. PICK H \in SUBSET Peers, L \in SUBSET protos : Carried(dials, wire, i, sent[i].to, H, L)
    BY <2>2 DEF UnderWay
  <2>4. L \in SUBSET Ends /\ L \in SUBSET protos'
    BY DEF TypeOK
  <2>5. Carried(dials, wire', i, sent[i].to, H, L)
    BY <2>3, <2>4, CarriedSame
  <2>6. Carried(dials', wire', i, sent'[i].to, H, L)
    BY <2>5
  <2> QED
    BY <2>4, <2>6 DEF UnderWay
<1> QED
  BY <1>1, <1>2

LEMMA CarriedInit == Init => CarriedOK
<1> SUFFICES ASSUME Init PROVE CarriedOK
  OBVIOUS
<1>1. Ids = {}
  BY DEF Init, Ids
<1> QED
  BY <1>1 DEF Init, CarriedOK

LEMMA ConnectionsCarried ==
    ASSUME TypeOK, CarriedOK, NEW p \in Peers, Listen(p) \/ Dial(p)
    PROVE  CarriedOK'
<1>1. UNCHANGED <<dials, sent, shown>>
  BY DEF Listen, Dial
<1>2. ASSUME ~broken'
      PROVE  ~broken
  BY <1>2 DEF Listen, Dial, TypeOK
<1>3. ASSUME ~broken'
      PROVE  /\ \A e \in Ends : wire'[e] = wire[e]
             /\ protos \subseteq protos'
             /\ \A e \in protos' : Other(e) \in protos' /\ state'[Owner(e)] # "stopping"
  <2>1. \A e \in protos : Other(e) \in protos /\ state[Owner(e)] # "stopping" /\ Owner(e) \in Peers /\ e \in Ends
    BY <1>2, <1>3 DEF CarriedOK, TypeOK
  <2>2. CASE Listen(p)
    <3>1. \A q \in Peers : state'[q] = state[q] \/ state'[q] # "stopping"
      BY <2>2 DEF Listen, TypeOK
    <3> QED
      BY <2>1, <2>2, <3>1 DEF Listen
  <2>3. CASE Dial(p) /\ state[dials[p]] \in {"server", "running"}
    <3>1. dials[p] \in Peers
      BY <2>3, DialsType DEF Dial
    <3>2. \A q \in Peers : state'[q] = IF q = p THEN "running" ELSE state[q]
      BY <2>3 DEF Dial, TypeOK
    <3>3. /\ Owner(<<p, "client">>) = p /\ Owner(<<p, "server">>) = dials[p]
          /\ Other(<<p, "client">>) = <<p, "server">> /\ Other(<<p, "server">>) = <<p, "client">>
      BY DEF Owner, Other
    <3>4. protos' = protos \cup {<<p, "client">>, <<p, "server">>} /\ wire' = wire
      BY <2>3 DEF Dial
    <3>5. state[dials[p]] # "stopping"
      BY <2>3
    <3> QED
      BY <2>1, <3>1, <3>2, <3>3, <3>4, <3>5
  <2>4. CASE Dial(p) /\ state[dials[p]] \notin {"server", "running"}
    <3>1. EndsOf(p) = {}
      BY <1>3, <2>4 DEF Dial, TypeOK
    <3>2. protos' = protos /\ \A e \in Ends : wire'[e] = wire[e]
      BY <2>4, <3>1 DEF Dial, Close
    <3>3. \A q \in Peers : state'[q] = IF q = p THEN "ended" ELSE state[q]
      BY <2>4 DEF Dial, TypeOK
    <3> QED
      BY <2>1, <3>2, <3>3
  <2> QED
    BY <2>2, <2>3, <2>4
<1> QED
  BY <1>1, <1>2, <1>3, NothingLost

LEMMA LeavingCarried ==
    ASSUME TypeOK, CarriedOK, NEW p \in Peers, Quit(p) \/ Stop(p)
    PROVE  CarriedOK'
<1>1. UNCHANGED <<dials, sent, shown>>
  BY DEF Quit, Stop
<1>2. ASSUME ~broken'
      PROVE  ~broken
  BY <1>2 DEF Quit, Stop, TypeOK
<1>3. ASSUME ~broken'
      PROVE  /\ \A e \in Ends : wire'[e] = wire[e]
             /\ protos \subseteq protos'
             /\ \A e \in protos' : Other(e) \in protos' /\ state'[Owner(e)] # "stopping"
  <2>1. \A e \in protos : Other(e) \in protos /\ state[Owner(e)] # "stopping" /\ Owner(e) \in Peers /\ e \in Ends
    BY <1>2, <1>3 DEF CarriedOK, TypeOK
  <2>2. EndsOf(p) = {}
    <3>1. CASE Quit(p)
      BY <1>3, <3>1 DEF Quit, TypeOK
    <3>2. CASE Stop(p)
      BY <2>1, <3>2 DEF Stop, EndsOf
    <3> QED
      BY <3>1, <3>2
  <2>3. protos' = protos /\ \A e \in Ends : wire'[e] = wire[e]
    <3>1. CASE Quit(p)
      BY <2>2, <3>1 DEF Quit
    <3>2. CASE Stop(p)
      BY <2>2, <3>2 DEF Stop, Close
    <3> QED
      BY <3>1, <3>2
  <2>4. \A q \in Peers : q = p \/ state'[q] = state[q]
    BY DEF Quit, Stop, TypeOK
  <2>5. \A e \in protos : Owner(e) # p
    BY <2>2 DEF EndsOf
  <2> QED
    BY <2>1, <2>3, <2>4, <2>5
<1> QED
  BY <1>1, <1>2, <1>3, NothingLost

LEMMA ClosingCarried ==
    ASSUME TypeOK, CarriedOK, NEW e \in Ends, Disconnect(e) \/ Coalesced(e)
    PROVE  CarriedOK'
<1>1. broken'
  BY DEF Disconnect, Coalesced, CarriedOK, TypeOK
<1> QED
  BY <1>1 DEF CarriedOK

LEMMA SayCarried ==
    ASSUME IInv, CarriedOK, NEW p \in Peers, NEW to \in Peers \cup {Nobody}, Say(p, to)
    PROVE  CarriedOK'
<1> DEFINE text == [to |-> to, reach |-> Reach(p)]
           targets == Targets(p, {})
<1>1. TypeOK
  BY DEF IInv
<1>2. PICK id : id = Len(sent) + 1
  OBVIOUS
<1>3. /\ sent \in Seq(Texts) /\ Len(sent) \in Nat /\ text \in Texts
      /\ text.to = to /\ text.reach = Reach(p) /\ id \notin Ids
  <2>1. sent \in Seq(Texts)
    BY <1>1 DEF TypeOK, Texts
  <2>2. Len(sent) \in Nat
    BY <2>1, LenProperties
  <2>3. Reach(p) \in SUBSET Peers
    BY DEF Reach
  <2> QED
    BY <1>2, <2>1, <2>2, <2>3 DEF Ids, Texts
<1>4. /\ Ids' = Ids \cup {id} /\ sent'[id] = text
      /\ \A i \in Ids : sent'[i] = sent[i]
  <2>1. sent' = Append(sent, text)
    BY DEF Say
  <2>2. /\ Len(sent') = id /\ sent'[id] = text
        /\ \A i \in 1..Len(sent) : sent'[i] = sent[i]
    BY <1>3, <1>2, <2>1, AppendProperties
  <2>3. 1..id = (1..Len(sent)) \cup {id}
    BY <1>3, <1>2
  <2> QED
    BY <2>2, <2>3 DEF Ids
<1>5. wire' = Written(wire, id, targets) /\ UNCHANGED <<dials, state, protos, shown, broken>>
      /\ to # p
  BY <1>2 DEF Say
<1>6. targets = EndsOf(p)
  BY DEF Targets
<1> HIDE DEF text, targets
<1>7. wire \in [Ends -> Seq(Ids)] /\ wire \in [Ends -> Seq(Ids')]
  <2>1. \A s \in Seq(Ids) : s \in Seq(Ids')
    BY <1>4
  <2> QED
    BY <1>1, <2>1 DEF TypeOK
<1>8. /\ \A e \in Ends : (e \notin protos \/ Other(e) \notin targets \/ ~LoopRuns(e)) => wire'[e] = wire[e]
      /\ \A e \in Ends : e \in protos /\ Other(e) \in targets /\ LoopRuns(e) =>
            wire'[e] = Append(wire[e], id)
  <2>1. id \in Ids'
    BY <1>4
  <2> QED
    BY <1>1, <1>7, <1>5, <2>1, WrittenStep
<1>9. ASSUME NEW e \in Ends
      PROVE  /\ ~In(wire[e], id)
             /\ \A i : i # id => (In(wire'[e], i) <=> In(wire[e], i))
             /\ In(wire'[e], id) <=> e \in protos /\ Other(e) \in targets /\ LoopRuns(e)
  <2>1. wire[e] \in Seq(Ids) /\ wire[e] \in Seq(Ids')
    BY <1>7
  <2>2. ~In(wire[e], id)
    <3>1. \A k \in 1..Len(wire[e]) : wire[e][k] \in Ids
      BY <2>1, ElementOfSeq
    <3> QED
      BY <1>3, <3>1 DEF In
  <2>3. id \in Ids'
    BY <1>4
  <2>4. \A i : In(Append(wire[e], id), i) <=> In(wire[e], i) \/ i = id
    BY <2>1, <2>3, AppendWire
  <2> QED
    BY <1>8, <2>2, <2>4
<1> SUFFICES ASSUME ~broken
             PROVE  /\ \A e \in protos' : Other(e) \in protos' /\ state'[Owner(e)'] # "stopping"
                    /\ \A i \in Ids' : sent'[i].to \in sent'[i].reach =>
                          shown[sent'[i].to][i] > 0 \/ UnderWay(i)'
  BY <1>5 DEF CarriedOK
<1>10. /\ \A e \in protos : Other(e) \in protos /\ state[Owner(e)] # "stopping"
      /\ protos \in SUBSET Ends
  BY <1>1 DEF CarriedOK, TypeOK
<1>11. \A e \in protos' : Other(e) \in protos' /\ state'[Owner(e)'] # "stopping"
  BY <1>5, <1>10 DEF Owner
<1>12. ASSUME NEW i \in Ids, sent'[i].to \in sent'[i].reach, ~(shown[sent'[i].to][i] > 0)
       PROVE  UnderWay(i)'
  <2>1. sent'[i] = sent[i] /\ i # id
    BY <1>3, <1>4
  <2>2. UnderWay(i)
    BY <1>12, <2>1 DEF CarriedOK
  <2>3. PICK H \in SUBSET Peers, L \in SUBSET protos : Carried(dials, wire, i, sent[i].to, H, L)
    BY <2>2 DEF UnderWay
  <2>4. L \in SUBSET Ends /\ L \in SUBSET protos'
    BY <1>5, <1>10
  <2>5. \A e \in Ends : In(wire'[e], i) <=> In(wire[e], i)
    BY <1>9, <2>1
  <2>6. Carried(dials, wire', i, sent[i].to, H, L)
    BY <2>3, <2>4, <2>5, CarriedSame
  <2>7. Carried(dials', wire', i, sent'[i].to, H, L)
    BY <1>5, <2>1, <2>6
  <2> QED
    BY <2>4, <2>7 DEF UnderWay
<1>13. ASSUME to \in Reach(p)
       PROVE  UnderWay(id)'
  <2>1. {p} \subseteq Peers \ {to}
    BY <1>5
  <2>2. ASSUME NEW e \in protos, OwnerIn(dials, e) \in {p}
        PROVE  In(wire'[Other(e)], id)
    <3>1. e \in targets /\ Other(e) \in protos /\ Other(e) \in Ends /\ Other(Other(e)) = e
      BY <1>6, <1>10, <2>2, OwnerIs, OtherProperties DEF EndsOf
    <3>2. LoopRuns(Other(e))
      BY <1>10, <3>1 DEF LoopRuns
    <3> QED
      BY <1>9, <3>1, <3>2
  <2>3. ASSUME NEW e \in Ends, In(wire'[e], id)
        PROVE  OwnerIn(dials, Other(e)) \in {p}
    <3>1. Other(e) \in targets /\ Other(e) \in Ends
      BY <1>9, <2>3, OtherProperties
    <3> QED
      BY <1>6, <3>1, OwnerIs DEF EndsOf
  <2>4. ASSUME NEW s \in SUBSET Peers, {p} \subseteq s,
               \A e \in protos : OwnerIn(dials, e) \in s => OwnerIn(dials, Other(e)) \in s
        PROVE  to \in s
    <3>1. ASSUME NEW r \in s, NEW x \in Peers, Linked(r, x)
          PROVE  x \in s
      <4>1. PICK e \in protos : Other(e) \in protos /\ {Owner(e), Owner(Other(e))} = {r, x}
        BY <3>1 DEF Linked
      <4>2. Other(Other(e)) = e /\ Owner(e) = OwnerIn(dials, e)
            /\ Owner(Other(e)) = OwnerIn(dials, Other(e))
        BY <1>10, <4>1, OtherProperties, OwnerIs
      <4> QED
        BY <2>4, <4>1, <4>2
    <3> QED
      BY <1>13, <2>4, <3>1 DEF Reach
  <2>5. Carried(dials, wire', id, to, {p}, protos)
    BY <2>1, <2>2, <2>3, <2>4 DEF Carried
  <2>6. Carried(dials', wire', id, sent'[id].to, {p}, protos)
    BY <1>3, <1>4, <1>5, <2>5
  <2>7. {p} \in SUBSET Peers /\ protos \in SUBSET protos'
    BY <1>5
  <2> QED
    BY <2>6, <2>7 DEF UnderWay
<1> QED
  BY <1>3, <1>4, <1>11, <1>12, <1>13

\* Taking a message from one wire changes nothing for the others.
LEMMA TakenOthers ==
    ASSUME NEW S, NEW s \in Seq(S), s # <<>>, NEW i, i # Head(s)
    PROVE  In(Tail(s), i) <=> In(s, i)
<1>1. Len(s) \in Nat \ {0} /\ Head(s) = s[1]
  BY LenProperties, HeadTailProperties, EmptySeq
<1>2. Len(Tail(s)) = Len(s) - 1 /\ \A k \in 1..Len(Tail(s)) : Tail(s)[k] = s[k + 1]
  BY HeadTailProperties
<1>3. ASSUME NEW k \in 1..Len(s), s[k] = i
      PROVE  In(Tail(s), i)
  <2>1. k # 1
    BY <1>1, <1>3
  <2>2. k - 1 \in 1..Len(Tail(s)) /\ (k - 1) + 1 = k
    BY <1>1, <1>2, <2>1
  <2>3. Tail(s)[k - 1] = i
    BY <1>2, <1>3, <2>2
  <2> QED
    BY <2>2, <2>3 DEF In
<1>4. In(s, i) => In(Tail(s), i)
  BY <1>3 DEF In
<1> QED
  BY <1>4, TailWire

LEMMA ReceiveCarried ==
    ASSUME IInv, CarriedOK, NEW e \in Ends, Receive(e)
    PROVE  CarriedOK'
<1>1. TypeOK
  BY DEF IInv
<1>2. PICK p, id, rest : p = Owner(e) /\ id = Head(wire[e]) /\ rest = [wire EXCEPT ![e] = Tail(wire[e])]
  OBVIOUS
<1> DEFINE targets == Targets(p, Exceptions(e))
<1>3. /\ e \in protos /\ p \in Peers /\ wire[e] \in Seq(Ids) /\ wire[e] # <<>>
      /\ Tail(wire[e]) \in Seq(Ids) /\ id \in Ids /\ id \in 1..MaxSent /\ In(wire[e], id)
  <2>1. e \in protos /\ p \in Peers /\ wire[e] \in Seq(Ids) /\ wire[e] # <<>>
    BY <1>1, <1>2 DEF Receive, TypeOK
  <2>2. Tail(wire[e]) \in Seq(Ids) /\ id \in Ids /\ In(wire[e], id)
    BY <1>2, <2>1, TailWire
  <2>3. Len(sent) \in Nat /\ Len(sent) <= MaxSent
    BY <1>1, LenProperties DEF TypeOK
  <2> QED
    BY <2>1, <2>2, <2>3, P2PAssumption DEF Ids
<1>4. UNCHANGED <<dials, state, protos, sent, broken>> /\ Ids' = Ids
  BY DEF Receive, Ids
<1>5. \/ /\ ForMe(p, id) /\ wire' = rest
         /\ shown' = [shown EXCEPT ![p][id] = Min({2, @ + 1})]
      \/ /\ ~ForMe(p, id)
         /\ wire' = Written(rest, id, targets) /\ UNCHANGED shown
  BY <1>2 DEF Receive
<1>6. /\ rest \in [Ends -> Seq(Ids)]
      /\ \A f \in Ends : rest[f] = IF f = e THEN Tail(wire[e]) ELSE wire[f]
  BY <1>1, <1>2, <1>3 DEF TypeOK
<1>7. \A f \in Ends : \A i : /\ In(rest[f], i) => In(wire[f], i)
                             /\ (f # e \/ i # id) => (In(rest[f], i) <=> In(wire[f], i))
  <2>1. \A i : In(Tail(wire[e]), i) => In(wire[e], i)
    BY <1>3, TailWire
  <2>2. \A i : i # id => (In(Tail(wire[e]), i) <=> In(wire[e], i))
    BY <1>2, <1>3, TakenOthers
  <2> QED
    BY <1>6, <2>1, <2>2
<1> SUFFICES ASSUME ~broken
             PROVE  /\ \A f \in protos' : Other(f) \in protos' /\ state'[Owner(f)'] # "stopping"
                    /\ \A i \in Ids : sent[i].to \in sent[i].reach =>
                          shown'[sent[i].to][i] > 0 \/ UnderWay(i)'
  BY <1>4 DEF CarriedOK
<1>8. /\ \A f \in protos : Other(f) \in protos /\ state[Owner(f)] # "stopping"
      /\ protos \in SUBSET Ends
  BY <1>1 DEF CarriedOK, TypeOK
<1>9. \A f \in protos' : Other(f) \in protos' /\ state'[Owner(f)'] # "stopping"
  BY <1>4, <1>8 DEF Owner
\* Where nothing changes for a message.
<1>10. ASSUME NEW i \in Ids, UnderWay(i), \A f \in Ends : In(wire'[f], i) <=> In(wire[f], i)
       PROVE  UnderWay(i)'
  <2>1. PICK H \in SUBSET Peers, L \in SUBSET protos : Carried(dials, wire, i, sent[i].to, H, L)
    BY <1>10 DEF UnderWay
  <2>2. L \in SUBSET Ends /\ L \in SUBSET protos'
    BY <1>4, <1>8
  <2>3. Carried(dials, wire', i, sent[i].to, H, L)
    BY <1>10, <2>1, <2>2, CarriedSame
  <2>4. Carried(dials', wire', i, sent'[i].to, H, L)
    BY <1>4, <2>3
  <2> QED
    BY <2>2, <2>4 DEF UnderWay
<1>11. \A i \in Ids : sent[i].to \in sent[i].reach =>
          sent[i].to \in Peers /\ (shown[sent[i].to][i] > 0 \/ UnderWay(i))
  <2>1. \A i \in Ids : sent[i] \in [to : Peers \cup {Nobody}, reach : SUBSET Peers]
    BY <1>1, ElementOfSeq DEF TypeOK, Ids
  <2>2. \A i \in Ids : sent[i].reach \subseteq Peers
    BY <2>1
  <2> QED
    BY <2>2 DEF CarriedOK
<1>12. CASE /\ ForMe(p, id) /\ wire' = rest
            /\ shown' = [shown EXCEPT ![p][id] = Min({2, @ + 1})]
  <2>1. shown[p] \in [1..MaxSent -> 0..2] /\ shown[p][id] \in 0..2
    <3>1. shown[p] \in [1..MaxSent -> 0..2]
      BY <1>1, <1>3 DEF TypeOK
    <3> QED
      BY <1>3, <3>1
  <2> DEFINE n == Min({2, shown[p][id] + 1})
  <2>2. n \in 1..2
    BY <2>1, MinOfTwo
  <2>3. shown' = [shown EXCEPT ![p] = [shown[p] EXCEPT ![id] = n]]
    BY <1>12
  <2> HIDE DEF n
  <2>4. \A q \in Peers : \A i \in 1..MaxSent :
          shown'[q][i] = IF q = p /\ i = id THEN n ELSE shown[q][i]
    BY <1>1, <1>3, <2>1, <2>3 DEF TypeOK
  <2>5. Ids \subseteq 1..MaxSent
    <3>1. Len(sent) \in Nat /\ Len(sent) <= MaxSent
      BY <1>1, LenProperties DEF TypeOK
    <3> QED
      BY <3>1, P2PAssumption DEF Ids
  <2>6. ASSUME NEW i \in Ids, sent[i].to \in sent[i].reach
        PROVE  shown'[sent[i].to][i] > 0 \/ UnderWay(i)'
    <3>1. CASE i = id
      <4>1. sent[i].to = p
        BY <1>12, <3>1 DEF ForMe
      <4>2. shown'[p][id] = n /\ n > 0
        BY <1>3, <2>2, <2>4
      <4> QED
        BY <3>1, <4>1, <4>2
    <3>2. CASE i # id
      <4>1. sent[i].to \in Peers /\ (shown[sent[i].to][i] > 0 \/ UnderWay(i))
        BY <1>11, <2>6
      <4>2. shown'[sent[i].to][i] = shown[sent[i].to][i]
        BY <2>4, <2>5, <3>2, <4>1
      <4>3. \A f \in Ends : In(wire'[f], i) <=> In(wire[f], i)
        BY <1>7, <1>12, <3>2
      <4> QED
        BY <1>10, <4>1, <4>2, <4>3
    <3> QED
      BY <3>1, <3>2
  <2> QED
    BY <1>9, <2>6
<1>13. CASE /\ ~ForMe(p, id)
            /\ wire' = Written(rest, id, targets) /\ UNCHANGED shown
  <2>1. \A f \in EndsOf(p) : f \in targets \/ PeerName(f) = PeerName(e) \/ PeerName(f) = SockName(e)
    BY DEF Targets, Exceptions
  <2>2. \A f \in targets : f \in EndsOf(p)
    BY DEF Targets
  <2> HIDE DEF targets
  <2>3. /\ \A g \in Ends : (g \notin protos \/ Other(g) \notin targets \/ ~LoopRuns(g)) => wire'[g] = rest[g]
        /\ \A g \in Ends : g \in protos /\ Other(g) \in targets /\ LoopRuns(g) =>
              wire'[g] = Append(rest[g], id)
    BY <1>1, <1>3, <1>6, <1>13, WrittenStep
  <2>4. ASSUME NEW g \in Ends
        PROVE  /\ \A i : i # id => (In(wire'[g], i) <=> In(wire[g], i))
               /\ In(wire'[g], id) <=>
                     In(rest[g], id) \/ (g \in protos /\ Other(g) \in targets /\ LoopRuns(g))
    <3>1. rest[g] \in Seq(Ids)
      BY <1>6
    <3>2. \A i : In(Append(rest[g], id), i) <=> In(rest[g], i) \/ i = id
      BY <1>3, <3>1, AppendWire
    <3> QED
      BY <1>7, <2>3, <3>2
  <2>5. ASSUME UnderWay(id)
        PROVE  UnderWay(id)'
    <3>1. PICK H \in SUBSET Peers, L \in SUBSET protos : Carried(dials, wire, id, sent[id].to, H, L)
      BY <2>5 DEF UnderWay
    <3> DEFINE H2 == H \cup {p}
    <3>2. H2 \subseteq Peers \ {sent[id].to}
      BY <1>3, <1>13, <3>1 DEF Carried, ForMe
    <3>3. OwnerIn(dials, Other(e)) \in H
      BY <1>3, <3>1 DEF Carried
    <3>4. ASSUME NEW f \in L, OwnerIn(dials, f) \in H2
          PROVE  OwnerIn(dials, Other(f)) \in H2 \/ In(wire'[Other(f)], id)
      <4>1. f \in Ends /\ f \in protos /\ Other(f) \in Ends /\ Other(f) \in protos /\ Other(Other(f)) = f
        BY <1>8, OtherProperties
      <4>2. CASE OwnerIn(dials, f) \in H
        <5>1. OwnerIn(dials, Other(f)) \in H \/ In(wire[Other(f)], id)
          BY <3>1, <4>2 DEF Carried
        <5>2. CASE Other(f) = e
          BY <1>2, <5>2, OwnerIs
        <5>3. CASE Other(f) # e
          BY <1>7, <2>4, <4>1, <5>1, <5>3
        <5> QED
          BY <5>2, <5>3
      <4>3. CASE OwnerIn(dials, f) = p
        <5>1. f \in EndsOf(p)
          BY <4>1, <4>3, OwnerIs DEF EndsOf
        <5>2. CASE f \in targets
          <6>1. LoopRuns(Other(f))
            BY <1>8, <4>1 DEF LoopRuns
          <6> QED
            BY <2>4, <4>1, <5>2, <6>1
        <5>3. CASE PeerName(f) = PeerName(e) \/ PeerName(f) = SockName(e)
          <6>1. Owner(Other(f)) = Owner(Other(e)) \/ Owner(Other(f)) = Owner(e)
            BY <5>3 DEF PeerName, SockName
          <6>2. /\ Owner(Other(f)) = OwnerIn(dials, Other(f))
                /\ Owner(Other(e)) = OwnerIn(dials, Other(e))
            BY <4>1, OtherProperties, OwnerIs
          <6> QED
            BY <1>2, <3>3, <6>1, <6>2
        <5> QED
          BY <2>1, <5>1, <5>2, <5>3
      <4> QED
        BY <3>4, <4>2, <4>3
    <3>5. ASSUME NEW g \in Ends, In(wire'[g], id)
          PROVE  OwnerIn(dials, Other(g)) \in H2
      <4>1. CASE In(rest[g], id)
        BY <1>7, <3>1, <4>1 DEF Carried
      <4>2. CASE Other(g) \in targets
        <5>1. Owner(Other(g)) = p /\ Other(g) \in Ends
          BY <2>2, <4>2, OtherProperties DEF EndsOf
        <5> QED
          BY <5>1, OwnerIs
      <4> QED
        BY <2>4, <3>5, <4>1, <4>2
    <3>6. ASSUME NEW s \in SUBSET Peers, H2 \subseteq s,
                 \A f \in L : OwnerIn(dials, f) \in s => OwnerIn(dials, Other(f)) \in s
          PROVE  sent[id].to \in s
      BY <3>1, <3>6 DEF Carried
    <3> HIDE DEF H2
    <3>7. Carried(dials, wire', id, sent[id].to, H2, L)
      BY <3>2, <3>4, <3>5, <3>6 DEF Carried
    <3>8. Carried(dials', wire', id, sent'[id].to, H2, L)
      BY <1>4, <3>7
    <3>9. H2 \in SUBSET Peers /\ L \in SUBSET protos'
      BY <1>4, <3>2
    <3> QED
      BY <3>8, <3>9 DEF UnderWay
  <2>6. ASSUME NEW i \in Ids, sent[i].to \in sent[i].reach
        PROVE  shown'[sent[i].to][i] > 0 \/ UnderWay(i)'
    <3>1. shown[sent[i].to][i] > 0 \/ UnderWay(i)
      BY <1>11, <2>6
    <3>2. CASE i = id
      BY <1>13, <2>5, <3>1, <3>2
    <3>3. CASE i # id
      <4>1. \A f \in Ends : In(wire'[f], i) <=> In(wire[f], i)
        BY <2>4, <3>3
      <4> QED
        BY <1>10, <1>13, <3>1, <4>1
    <3> QED
      BY <3>2, <3>3
  <2> QED
    BY <1>9, <2>6
<1> QED
  BY <1>5, <1>12, <1>13

LEMMA CarriedNext ==
    ASSUME IInv, CarriedOK, [Next]_vars
    PROVE  CarriedOK'
<1>1. TypeOK
  BY DEF IInv
<1>2. ASSUME NEW p \in Peers, Listen(p) \/ Dial(p) \/ Quit(p) \/ Stop(p)
      PROVE  CarriedOK'
  BY <1>1, <1>2, ConnectionsCarried, LeavingCarried
<1>3. ASSUME NEW p \in Peers, NEW to \in Peers \cup {Nobody}, Say(p, to)
      PROVE  CarriedOK'
  BY <1>3, SayCarried
<1>4. ASSUME NEW e \in Ends, Disconnect(e) \/ Receive(e) \/ Coalesced(e)
      PROVE  CarriedOK'
  BY <1>1, <1>4, ClosingCarried, ReceiveCarried
<1>5. CASE UNCHANGED vars
  BY <1>5 DEF vars, CarriedOK, UnderWay, Owner, Ids
<1> QED
  BY <1>2, <1>3, <1>4, <1>5 DEF Next

-----------------------------------------------------------------------------
LEMMA NextInv ==
    ASSUME IInv, [Next]_vars
    PROVE  IInv'
<1>1. ASSUME NEW p \in Peers, Listen(p) \/ Dial(p) \/ Quit(p) \/ Stop(p)
      PROVE  IInv'
  BY <1>1, ListenInv, DialInv, QuitInv, StopInv
<1>2. ASSUME NEW p \in Peers, NEW to \in Peers \cup {Nobody}, Say(p, to)
      PROVE  IInv'
  BY <1>2, SayInv
<1>3. ASSUME NEW e \in Ends, Disconnect(e) \/ Receive(e) \/ Coalesced(e)
      PROVE  IInv'
  BY <1>3, CloseOneInv, ReceiveInv
<1>4. CASE UNCHANGED vars
  BY <1>4 DEF vars, IInv, TypeOK, FloodOK, ShownFor, Owner, Ids
<1> QED
  BY <1>1, <1>2, <1>3, <1>4 DEF Next

LEMMA InductiveInv == Spec => []IInv
<1>1. Init => IInv
  BY InitInv
<1>2. IInv /\ [Next]_vars => IInv'
  BY NextInv
<1> QED
  BY <1>1, <1>2, PTL DEF Spec

\* Ends, wires and counts keep their types: the ends that a peer has are there
\* as long as its process, and nothing is on its way to an end that is closed.
THEOREM TypeCorrect == Spec => []TypeOK
<1>1. IInv => TypeOK
  BY DEF IInv
<1> QED
  BY <1>1, InductiveInv, PTL

\* The flood of _on_message(), which remembers nothing, shows a message to
\* nobody but whom it is for, and where no peers dial each other in a ring and
\* nobody himself, once at most: for any forest of peers, however connections
\* come and go and messages overtake each other.
THEOREM ShownOnceCorrect == Spec => []ShownOnce
<1>1. IInv => ShownOnce
  <2> SUFFICES ASSUME IInv, NEW p \in Peers, NEW i \in 1..MaxSent, shown[p][i] > 0
               PROVE  /\ i \in Ids /\ sent[i].to = p
                      /\ shown[p][i] > 1 => Ring \/ \E q \in Peers : dials[q] = q
    BY DEF ShownOnce
  <2>1. i \in Ids /\ sent[i].to = p /\ (Tame(dials) => shown[p][i] = 1)
    BY DEF IInv, ShownFor
  <2>2. ~Tame(dials) => Ring \/ \E q \in Peers : dials[q] = q
    BY DEF Tame, Ring
  <2> QED
    BY <2>1, <2>2
<1> QED
  BY <1>1, InductiveInv, PTL

\* As long as no connection was lost, no user has quit and no two messages
\* came in one read, the flood leaves nobody out: when nothing is on its way,
\* each message was shown to whom it was for, if he could be reached when it
\* was said, in any overlay and whoever dialled whom since.
THEOREM FloodCorrect == Spec => []ShownUnlessBroken
<1>1. Init => IInv /\ CarriedOK
  BY InitInv, CarriedInit
<1>2. IInv /\ CarriedOK /\ [Next]_vars => (IInv /\ CarriedOK)'
  BY NextInv, CarriedNext
<1>3. IInv /\ CarriedOK => ShownUnlessBroken
  <2> SUFFICES ASSUME IInv, CarriedOK, Quiet, ~broken, NEW i \in Ids, sent[i].to \in sent[i].reach,
                      UnderWay(i)
               PROVE  FALSE
    BY DEF CarriedOK, ShownUnlessBroken
  <2>1. PICK H \in SUBSET Peers, L \in SUBSET protos : Carried(dials, wire, i, sent[i].to, H, L)
    BY DEF UnderWay
  <2>2. \A e \in L : ~In(wire[Other(e)], i)
    BY OtherProperties, EmptyWire DEF Quiet, IInv, TypeOK
  <2>3. \A e \in L : OwnerIn(dials, e) \in H => OwnerIn(dials, Other(e)) \in H
    BY <2>1, <2>2 DEF Carried
  <2> QED
    BY <2>1, <2>3 DEF Carried
<1> QED
  BY <1>1, <1>2, <1>3, PTL DEF Spec
=============================================================================
