-------------------------- MODULE ArmServerProofs --------------------------
(***************************************************************************)
(* Proofs about ArmServer for any devices, runs of their drivers and       *)
(* number of commands, with or without operators.                          *)
(*                                                                         *)
(* The invariant says where a run's connection can be while its driver     *)
(* announces itself or listens, that neither a key nor a UID is of a run   *)
(* that was not begun, and that the loop of a broadcast is at a registered *)
(* device unless a map was written under it.                               *)
(***************************************************************************)
EXTENDS ArmServer, SequenceTheorems, WellFoundedInduction, TLAPS

Bots == [busy : BOOLEAN, command : Commands, at : Devices \cup {NoKey},
         torn : BOOLEAN, left : 0..MaxCommands]
Links == [alive : BOOLEAN, watched : BOOLEAN, welcome : BOOLEAN, uid : BOOLEAN]

\* A driver that was started is in one of its runs.
RunsOK == \A d \in Devices : At(d, "off") \/ drivers[d].run >= 1

\* A driver that announces itself or listens holds its end of a connection
\* whose handlers are set.
EndOK(d) ==
    At(d, "announce") \/ At(d, "listen") => links[Key(d)].alive /\ links[Key(d)].watched

\* Neither the key of a device nor a UID is of a run still to come.
KeyOK(d) == ws_key[d] <= drivers[d].run
UidOK(k) == links[k].uid => k[2] <= drivers[k[1]].run

\* In its first run, what a command needs is there or on its way.
FirstOK(d) ==
    drivers[d].run = 1 =>
        /\ At(d, "announce") \/ At(d, "listen") => links[<<d, 1>>].welcome \/ <<d, 1>> \in sockets
        /\ At(d, "listen") => links[<<d, 1>>].uid \/ ws_key[d] = 1

\* A broadcast is at a device, a registered one unless a map was written under
\* it.
BroadcastOK ==
    bot.busy =>
        /\ bot.at \in Devices
        /\ bot.torn \/ bot.at \in Registered

Connections ==
    /\ RunsOK
    /\ \A d \in Devices : EndOK(d) /\ KeyOK(d) /\ FirstOK(d)
    /\ \A k \in Keys : UidOK(k)

Broadcast == BroadcastOK /\ DiesInLoop

IInv == TypeOK /\ Connections /\ Broadcast

-----------------------------------------------------------------------------
\* The least of the numbers in a set is one of them and no other is less.
LEMMA MinProperties ==
    ASSUME NEW S, S \subseteq Nat, S # {}
    PROVE  Min(S) \in S /\ \A x \in S : Min(S) <= x
<1> DEFINE less == OpToRel(<, Nat)
<1>1. IsWellFoundedOn(less, Nat)
  BY NatLessThanWellFounded
<1>2. less = {ss \in Nat \X Nat : ss[1] < ss[2]}
  BY DEF OpToRel
<1> HIDE DEF less
<1>3. PICK x \in S : \A y \in S : <<y, x>> \notin less
  BY <1>1, WFMin
<1>4. ASSUME NEW y \in S
      PROVE  x <= y
  <2>1. x \in Nat /\ y \in Nat
    OBVIOUS
  <2>2. ~(y < x)
    <3> SUFFICES ASSUME y < x PROVE FALSE
      OBVIOUS
    <3>1. <<y, x>> \in {ss \in Nat \X Nat : ss[1] < ss[2]}
      BY <2>1
    <3> QED
      BY <1>2, <1>3, <3>1
  <2> QED
    BY <2>1, <2>2
<1> QED
  BY <1>3, <1>4 DEF Min

\* A key is a device and the number of one of its runs.
LEMMA KeyOf ==
    /\ \A k \in Keys : k[1] \in Devices /\ k[2] \in 1..MaxRuns[k[1]] /\ k = <<k[1], k[2]>>
    /\ \A d \in Devices, n \in Nat : n \in 1..MaxRuns[d] => <<d, n>> \in Keys
<1>1. ASSUME NEW k \in Keys
      PROVE  k[1] \in Devices /\ k[2] \in 1..MaxRuns[k[1]] /\ k = <<k[1], k[2]>>
  BY DEF Keys
<1>2. ASSUME NEW d \in Devices, NEW n \in Nat, n \in 1..MaxRuns[d]
      PROVE  <<d, n>> \in Keys
  BY <1>2 DEF Keys
<1> QED
  BY <1>1, <1>2

Numbers == Devices \subseteq Nat /\ MaxRuns \in [Devices -> Nat] /\ MaxCommands \in Nat

LEMMA NumbersOK == Numbers
BY ArmAssumption DEF Numbers

\* The key of a driver that is not off is one of the keys.
LEMMA OwnKey ==
    ASSUME TypeOK, RunsOK, NEW d \in Devices, ~At(d, "off")
    PROVE  Key(d) \in Keys /\ Key(d) = <<d, drivers[d].run>> /\ drivers[d].run \in 1..MaxRuns[d]
<1>1. drivers[d].run \in Nat /\ drivers[d].run <= MaxRuns[d] /\ drivers[d].run >= 1
  BY DEF TypeOK, RunsOK
<1>2. MaxRuns[d] \in Nat
  BY NumbersOK DEF Numbers
<1>3. drivers[d].run \in 1..MaxRuns[d]
  BY <1>1, <1>2
<1> QED
  BY <1>1, <1>3, KeyOf DEF Key

-----------------------------------------------------------------------------
(* What a step of the web thread may do to a broadcast.                    *)

\* A map is written: the process may end, and a broadcast is torn.
LEMMA WritesMapStep ==
    ASSUME TypeOK, Broadcast, WritesMap
    PROVE  up /\ up' \in BOOLEAN /\ bot' \in Bots /\ Broadcast'
<1>1. CASE bot.busy
  <2>1. up /\ up' \in BOOLEAN /\ bot' = [bot EXCEPT !.torn = TRUE]
    BY <1>1 DEF WritesMap
  <2>2. bot \in Bots
    BY DEF TypeOK, Bots
  <2>3. bot' \in Bots /\ bot'.torn /\ bot'.at = bot.at
    BY <2>1, <2>2 DEF Bots
  <2>4. BroadcastOK'
    BY <1>1, <2>3 DEF Broadcast, BroadcastOK
  <2> QED
    BY <2>1, <2>3, <2>4 DEF Broadcast, DiesInLoop
<1>2. CASE ~bot.busy
  <2>1. up /\ up' /\ up' \in BOOLEAN /\ bot' = bot
    BY <1>2 DEF WritesMap
  <2>2. bot' \in Bots
    BY <2>1 DEF TypeOK, Bots
  <2> QED
    BY <1>2, <2>1, <2>2 DEF Broadcast, BroadcastOK, DiesInLoop
<1> QED
  BY <1>1, <1>2

\* No map is written while the process runs.
LEMMA NoWriteStep ==
    ASSUME TypeOK, Broadcast, up, UNCHANGED <<up, bot>>, Registered' = Registered
    PROVE  up /\ up' \in BOOLEAN /\ bot' \in Bots /\ Broadcast'
<1>1. up' /\ up' \in BOOLEAN /\ bot' \in Bots
  BY DEF TypeOK, Bots
<1>2. BroadcastOK'
  BY DEF Broadcast, BroadcastOK
<1> QED
  BY <1>1, <1>2 DEF Broadcast, DiesInLoop

\* POST and DELETE of a device.
LEMMA PostStep ==
    ASSUME TypeOK, Broadcast, NEW d \in Devices, Post(d) \/ Delete(d)
    PROVE  /\ up /\ up' \in BOOLEAN /\ bot' \in Bots /\ Broadcast'
           /\ devices' \in [Devices -> {"absent", "unknown", "put"}]
<1>1. devices' \in [Devices -> {"absent", "unknown", "put"}]
  BY DEF Post, Delete, TypeOK
<1>2. CASE WritesMap
  BY <1>1, <1>2, WritesMapStep
<1>3. CASE up /\ UNCHANGED <<up, bot, devices>>
  <2>1. Registered' = Registered
    BY <1>3 DEF Registered
  <2> QED
    BY <1>1, <1>3, <2>1, NoWriteStep
<1> QED
  BY <1>2, <1>3 DEF Post, Delete

\* Where nothing that a broadcast reads changes.
LEMMA BroadcastKept ==
    ASSUME Broadcast, sockets \subseteq Keys, UNCHANGED <<up, devices, ws_key, sockets, bot>>,
           \/ up
           \/ /\ \A k \in Keys : links[k].watched /\ ~links[k].alive =>
                                  links'[k].watched /\ ~links'[k].alive
              /\ \A d \in Devices : Ready(d)' => Ready(d)
    PROVE  Broadcast'
<1>1. Registered' = Registered
  BY DEF Registered
<1>2. BroadcastOK'
  BY <1>1 DEF Broadcast, BroadcastOK
<1>3. DiesInLoop'
  <2>1. CASE up
    BY <2>1 DEF DiesInLoop
  <2>2. CASE ~up
    <3>1. ~up' /\ bot' = bot /\ sockets' = sockets /\ ws_key' = ws_key
      BY <2>2
    <3>2. CASE bot.torn
      BY <3>1, <3>2 DEF DiesInLoop
    <3>3. CASE \E k \in sockets : links[k].watched /\ ~links[k].alive
      <4>1. \E k \in sockets' : links'[k].watched /\ ~links'[k].alive
        BY <2>2, <3>1, <3>3
      <4> QED
        BY <4>1 DEF DiesInLoop
    <3>4. CASE /\ bot.busy /\ bot.command # "status"
               /\ <<bot.at, ws_key[bot.at]>> \notin sockets
               /\ ~Ready(bot.at)
      <4>1. bot.at \in Devices
        BY <3>4 DEF Broadcast, BroadcastOK
      <4>2. ~Ready(bot.at)'
        BY <2>2, <3>1, <3>4, <4>1 DEF Ready, At
      <4> QED
        BY <3>1, <3>4, <4>2 DEF DiesInLoop
    <3> QED
      BY <2>2, <3>2, <3>3, <3>4 DEF Broadcast, DiesInLoop
  <2> QED
    BY <2>1, <2>2
<1> QED
  BY <1>2, <1>3 DEF Broadcast

-----------------------------------------------------------------------------
(* Type correctness in parts.                                              *)

WebType ==
    /\ devices \in [Devices -> {"absent", "unknown", "put"}]
    /\ ws_key \in [Devices -> Nat]
    /\ \A d \in Devices : ws_key[d] = NoKey \/ <<d, ws_key[d]>> \in Keys
    /\ sockets \subseteq Keys
LinkType == links \in [Keys -> Links] /\ \A k \in Keys : links[k].uid => links[k].watched
DriverType ==
    /\ drivers \in [Devices -> [stage : Stages, run : Nat]]
    /\ \A d \in Devices : drivers[d].run <= MaxRuns[d]
MailType == mail \in [Keys -> Seq(Commands)]
BotType == up \in BOOLEAN /\ bot \in Bots

LEMMA TypeInParts == TypeOK <=> WebType /\ LinkType /\ DriverType /\ MailType /\ BotType
BY DEF TypeOK, WebType, LinkType, DriverType, MailType, BotType, Bots, Links

LEMMA TypeInPartsNext == TypeOK' <=> WebType' /\ LinkType' /\ DriverType' /\ MailType' /\ BotType'
BY DEF TypeOK, WebType, LinkType, DriverType, MailType, BotType, Bots, Links

\* A driver goes to another stage of the same run.
LEMMA GoStep ==
    ASSUME DriverType, NEW d \in Devices, NEW stage \in Stages, Go(d, stage)
    PROVE  /\ DriverType'
           /\ \A e \in Devices : drivers'[e].run = drivers[e].run
           /\ \A e \in Devices : drivers'[e].stage = IF e = d THEN stage ELSE drivers[e].stage
<1>1. drivers[d] \in [stage : Stages, run : Nat]
  BY DEF DriverType
<1>2. drivers' = [drivers EXCEPT ![d] = [drivers[d] EXCEPT !.stage = stage]]
  BY DEF Go
<1>3. [drivers[d] EXCEPT !.stage = stage] \in [stage : Stages, run : Nat]
      /\ [drivers[d] EXCEPT !.stage = stage].stage = stage
      /\ [drivers[d] EXCEPT !.stage = stage].run = drivers[d].run
  BY <1>1
<1>4. drivers' \in [Devices -> [stage : Stages, run : Nat]]
  BY <1>2, <1>3 DEF DriverType
<1>5. \A e \in Devices : drivers'[e].run = drivers[e].run
  BY <1>2, <1>3 DEF DriverType
<1>6. \A e \in Devices : drivers'[e].stage = IF e = d THEN stage ELSE drivers[e].stage
  BY <1>2, <1>3 DEF DriverType
<1> QED
  BY <1>4, <1>5, <1>6 DEF DriverType

LEMMA ConnectionsKept ==
    ASSUME Connections, UNCHANGED <<ws_key, sockets, links, drivers>>
    PROVE  Connections'
BY DEF Connections, RunsOK, EndOK, KeyOK, FirstOK, UidOK, At, Key

\* The connections of a device that a step does not touch.
LEMMA OthersKept ==
    ASSUME TypeOK, Connections, NEW e \in Devices,
           drivers'[e].run = drivers[e].run, drivers'[e].stage = drivers[e].stage,
           ws_key'[e] = ws_key[e],
           \A k \in Keys : k[1] = e => links'[k] = links[k] /\ (k \in sockets => k \in sockets')
    PROVE  EndOK(e)' /\ KeyOK(e)' /\ FirstOK(e)'
<1>1. EndOK(e) /\ KeyOK(e) /\ FirstOK(e)
  BY DEF Connections
<1>2. KeyOK(e)'
  BY <1>1 DEF KeyOK
<1>3. CASE At(e, "off")
  BY <1>2, <1>3 DEF EndOK, FirstOK, At
<1>4. CASE ~At(e, "off")
  <2>1. Key(e) \in Keys /\ Key(e)[1] = e /\ Key(e) = <<e, drivers[e].run>> /\ Key(e)' = Key(e)
    BY <1>4, OwnKey DEF Connections, Key
  <2>2. links'[Key(e)] = links[Key(e)] /\ (Key(e) \in sockets => Key(e) \in sockets')
    BY <2>1
  <2>3. EndOK(e)'
    BY <1>1, <2>1, <2>2 DEF EndOK, At
  <2>4. FirstOK(e)'
    BY <1>1, <2>1, <2>2 DEF FirstOK, At
  <2> QED
    BY <1>2, <2>3, <2>4
<1> QED
  BY <1>3, <1>4

-----------------------------------------------------------------------------
(* The steps of the web thread.                                            *)

LEMMA InitInv == Init => IInv
<1> SUFFICES ASSUME Init PROVE IInv
  OBVIOUS
<1>1. TypeOK
  <2>1. WebType
    BY DEF Init, WebType, NoKey
  <2>2. LinkType
    BY DEF Init, LinkType, Links
  <2>3. DriverType
    <3>1. \A d \in Devices : MaxRuns[d] \in Nat
      BY NumbersOK DEF Numbers
    <3> QED
      BY <3>1 DEF Init, DriverType, Stages
  <2>4. MailType
    BY DEF Init, MailType
  <2>5. BotType
    BY NumbersOK DEF Init, BotType, Bots, Idle, Commands, Numbers
  <2> QED
    BY <2>1, <2>2, <2>3, <2>4, <2>5, TypeInParts
<1>2. Connections
  BY DEF Init, Connections, RunsOK, EndOK, KeyOK, FirstOK, UidOK, At, Key, NoKey
<1>3. Broadcast
  BY DEF Init, Broadcast, BroadcastOK, DiesInLoop, Idle
<1> QED
  BY <1>1, <1>2, <1>3 DEF IInv

LEMMA RegisterInv ==
    ASSUME IInv, NEW d \in Devices, Register(d)
    PROVE  IInv'
<1>1. up' \in BOOLEAN /\ bot' \in Bots /\ Broadcast'
      /\ devices' \in [Devices -> {"absent", "unknown", "put"}]
  BY PostStep DEF IInv, Register
<1>2. /\ DriverType'
      /\ \A e \in Devices : drivers'[e].run = drivers[e].run
      /\ \A e \in Devices : drivers'[e].stage = IF e = d THEN "connect" ELSE drivers[e].stage
  BY GoStep, TypeInParts DEF IInv, Register, Stages
<1>3. TypeOK'
  <2>1. WebType'
    BY <1>1 DEF IInv, TypeOK, WebType, Register
  <2>2. LinkType' /\ MailType'
    BY TypeInParts DEF IInv, Register, LinkType, MailType
  <2> QED
    BY <1>1, <1>2, <2>1, <2>2, TypeInPartsNext DEF BotType
<1>4. Connections'
  <2> USE DEF IInv, Connections, At, Register
  <2>1. RunsOK'
    BY <1>2 DEF RunsOK
  <2>2. ASSUME NEW e \in Devices
        PROVE  EndOK(e)' /\ KeyOK(e)' /\ FirstOK(e)'
    BY <1>2 DEF EndOK, KeyOK, FirstOK, Key
  <2>3. ASSUME NEW k \in Keys
        PROVE  UidOK(k)'
    BY <1>2, KeyOf DEF UidOK
  <2> QED
    BY <2>1, <2>2, <2>3
<1> QED
  BY <1>1, <1>3, <1>4 DEF IInv

\* What people do by hand touches the registered devices only.
LEMMA OperatorInv ==
    ASSUME IInv, NEW d \in Devices, PutState(d) \/ OperatorPosts(d) \/ OperatorDeletes(d)
    PROVE  IInv'
<1>1. /\ up' \in BOOLEAN /\ bot' \in Bots /\ Broadcast'
      /\ devices' \in [Devices -> {"absent", "unknown", "put"}]
  <2>1. CASE PutState(d)
    <3>1. devices' \in [Devices -> {"absent", "unknown", "put"}]
      BY <2>1 DEF IInv, TypeOK, PutState
    <3>2. Registered' = Registered
      BY <2>1 DEF IInv, TypeOK, PutState, Registered
    <3> QED
      BY <2>1, <3>1, <3>2, NoWriteStep DEF IInv, PutState
  <2>2. CASE OperatorPosts(d) \/ OperatorDeletes(d)
    BY <2>2, PostStep DEF IInv, OperatorPosts, OperatorDeletes
  <2> QED
    BY <2>1, <2>2
<1>2. UNCHANGED <<ws_key, sockets, links, drivers, mail>>
  BY DEF PutState, OperatorPosts, OperatorDeletes
<1>3. TypeOK'
  <2>1. WebType'
    BY <1>1, <1>2 DEF IInv, TypeOK, WebType
  <2>2. LinkType' /\ MailType' /\ DriverType'
    BY <1>2, TypeInParts DEF IInv, LinkType, MailType, DriverType
  <2> QED
    BY <1>1, <2>1, <2>2, TypeInPartsNext DEF BotType
<1> QED
  BY <1>1, <1>2, <1>3, ConnectionsKept DEF IInv

LEMMA UpgradeInv ==
    ASSUME IInv, NEW d \in Devices, Upgrade(d)
    PROVE  IInv'
<1> DEFINE new == [alive |-> TRUE, watched |-> TRUE, welcome |-> TRUE, uid |-> FALSE]
<1>1. TypeOK /\ Connections /\ Broadcast
  BY DEF IInv
<1>2. Key(d) \in Keys /\ Key(d) = <<d, drivers[d].run>>
  BY <1>1, OwnKey DEF Upgrade, At, Connections
<1>3. new \in Links
  BY DEF Links
<1>4. links' \in [Keys -> Links] /\ links'[Key(d)] = new
      /\ \A k \in Keys : k # Key(d) => links'[k] = links[k]
  BY <1>1, <1>2, <1>3, TypeInParts DEF LinkType, Upgrade
<1>5. /\ DriverType'
      /\ \A e \in Devices : drivers'[e].run = drivers[e].run
      /\ \A e \in Devices : drivers'[e].stage = IF e = d THEN "announce" ELSE drivers[e].stage
  BY <1>1, GoStep, TypeInParts DEF Upgrade, Stages
<1>6. TypeOK'
  <2>1. LinkType'
    BY <1>1, <1>4, TypeInParts DEF LinkType
  <2>2. WebType' /\ MailType' /\ BotType'
    BY <1>1, TypeInParts DEF Upgrade, WebType, MailType, BotType
  <2> QED
    BY <1>5, <2>1, <2>2, TypeInPartsNext
<1>7. Connections'
  <2>1. RunsOK'
    BY <1>1, <1>5 DEF RunsOK, Connections, At, Upgrade
  <2>2. ASSUME NEW e \in Devices
        PROVE  EndOK(e)' /\ KeyOK(e)' /\ FirstOK(e)'
    <3>1. EndOK(e) /\ KeyOK(e) /\ FirstOK(e)
      BY <1>1 DEF Connections
    <3>2. KeyOK(e)'
      BY <1>5, <3>1 DEF KeyOK, Upgrade
    <3>3. Key(e)' = Key(e)
      BY <1>5 DEF Key
    <3>4. CASE e = d
      BY <1>2, <1>4, <1>5, <3>2, <3>3, <3>4 DEF EndOK, FirstOK, At
    <3>5. CASE e # d
      BY <1>1, <1>2, <1>4, <1>5, <3>5, OthersKept DEF Upgrade
    <3> QED
      BY <3>4, <3>5
  <2>3. ASSUME NEW k \in Keys
        PROVE  UidOK(k)'
    BY <1>1, <1>4, <1>5, KeyOf DEF UidOK, Connections
  <2> QED
    BY <2>1, <2>2, <2>3 DEF Connections
<1>8. Broadcast'
  BY <1>1, BroadcastKept DEF Upgrade, TypeOK
<1> QED
  BY <1>6, <1>7, <1>8 DEF IInv

\* The callback of the welcome message, the UID and the end of a connection:
\* handlers of one connection, which is another's link to no one.
LEMMA WelcomedInv ==
    ASSUME IInv, NEW k \in Keys, Welcomed(k)
    PROVE  IInv'
<1> DEFINE new == [links[k] EXCEPT !.welcome = FALSE]
<1>1. TypeOK /\ Connections /\ Broadcast
  BY DEF IInv
<1>2. links[k] \in Links /\ (links[k].uid => links[k].watched)
  BY <1>1, TypeInParts DEF LinkType
<1>3. new \in Links /\ new.alive = links[k].alive /\ new.watched = links[k].watched
      /\ new.uid = links[k].uid
  BY <1>2 DEF Links
<1>4. links' \in [Keys -> Links] /\ links'[k] = new
      /\ \A j \in Keys : j # k => links'[j] = links[j]
  BY <1>1, <1>3, TypeInParts DEF LinkType, Welcomed
<1> HIDE DEF new
<1>5. up /\ up' \in BOOLEAN /\ bot' \in Bots /\ Broadcast'
  BY <1>1, WritesMapStep DEF Welcomed
<1>6. TypeOK'
  <2>1. WebType'
    BY <1>1 DEF TypeOK, WebType, Welcomed
  <2>2. LinkType'
    BY <1>1, <1>2, <1>3, <1>4, TypeInParts DEF LinkType
  <2>3. DriverType' /\ MailType'
    BY <1>1, TypeInParts DEF Welcomed, DriverType, MailType
  <2> QED
    BY <1>5, <2>1, <2>2, <2>3, TypeInPartsNext DEF BotType
<1>7. Connections'
  <2>1. RunsOK'
    BY <1>1 DEF RunsOK, Connections, At, Welcomed
  <2>2. ASSUME NEW e \in Devices
        PROVE  EndOK(e)' /\ KeyOK(e)' /\ FirstOK(e)'
    <3>1. EndOK(e) /\ KeyOK(e) /\ FirstOK(e)
      BY <1>1 DEF Connections
    <3>2. CASE k[1] # e
      BY <1>1, <1>4, <3>2, OthersKept DEF Welcomed
    <3>3. CASE At(e, "off")
      BY <3>1, <3>3 DEF EndOK, KeyOK, FirstOK, At, Welcomed
    <3>4. CASE ~At(e, "off")
      <4>1. Key(e) \in Keys /\ Key(e) = <<e, drivers[e].run>> /\ Key(e)' = Key(e)
        BY <1>1, <3>4, OwnKey DEF Connections, Key, Welcomed
      <4>2. links'[Key(e)].alive = links[Key(e)].alive /\ links'[Key(e)].watched = links[Key(e)].watched
            /\ links'[Key(e)].uid = links[Key(e)].uid
        BY <1>3, <1>4, <4>1
      <4>3. links'[Key(e)].welcome = links[Key(e)].welcome \/ Key(e) = k
        BY <1>4, <4>1
      <4>4. EndOK(e)' /\ KeyOK(e)'
        BY <3>1, <4>1, <4>2 DEF EndOK, KeyOK, At, Welcomed
      <4>5. FirstOK(e)'
        BY <3>1, <4>1, <4>2, <4>3 DEF FirstOK, At, Welcomed
      <4> QED
        BY <4>4, <4>5
    <3> QED
      BY <3>2, <3>3, <3>4
  <2>3. ASSUME NEW j \in Keys
        PROVE  UidOK(j)'
    BY <1>1, <1>3, <1>4 DEF UidOK, Connections, Welcomed
  <2> QED
    BY <2>1, <2>2, <2>3 DEF Connections
<1> QED
  BY <1>5, <1>6, <1>7 DEF IInv

LEMMA ReadUidInv ==
    ASSUME IInv, NEW k \in Keys, ReadUid(k)
    PROVE  IInv'
<1> DEFINE new == [links[k] EXCEPT !.uid = FALSE]
<1>1. TypeOK /\ Connections /\ Broadcast
  BY DEF IInv
<1>2. links[k] \in Links
  BY <1>1, TypeInParts DEF LinkType
<1>3. new \in Links /\ new.alive = links[k].alive /\ new.watched = links[k].watched
      /\ new.welcome = links[k].welcome /\ ~new.uid
  BY <1>2 DEF Links
<1>4. links' \in [Keys -> Links] /\ links'[k] = new
      /\ \A j \in Keys : j # k => links'[j] = links[j]
  BY <1>1, <1>3, TypeInParts DEF LinkType, ReadUid
<1> HIDE DEF new
<1>5. k[1] \in Devices /\ k[2] \in Nat \ {0} /\ k = <<k[1], k[2]>>
  <2>1. MaxRuns[k[1]] \in Nat
    BY KeyOf, NumbersOK DEF Numbers
  <2> QED
    BY <2>1, KeyOf
<1>6. /\ ws_key' \in [Devices -> Nat]
      /\ \A e \in Devices : ws_key'[e] = IF e = k[1] /\ ws_key[e] = NoKey THEN k[2] ELSE ws_key[e]
  BY <1>1, <1>5 DEF TypeOK, ReadUid, Emplaced
<1>7. up /\ up' \in BOOLEAN /\ bot' \in Bots /\ Broadcast'
  <2>1. CASE WritesMap
    BY <1>1, <2>1, WritesMapStep
  <2>2. CASE ws_key[k[1]] # NoKey /\ up /\ UNCHANGED <<up, bot>>
    <3>1. Registered' = Registered
      BY DEF ReadUid, Registered
    <3> QED
      BY <1>1, <2>2, <3>1, NoWriteStep
  <2>3. WritesMap \/ (ws_key[k[1]] # NoKey /\ up /\ UNCHANGED <<up, bot>>)
    BY DEF ReadUid
  <2> QED
    BY <2>1, <2>2, <2>3, SMTT(30)
<1>8. TypeOK'
  <2>1. WebType'
    <3>1. devices' = devices /\ sockets' = sockets
      BY DEF ReadUid
    <3>2. ASSUME NEW e \in Devices
          PROVE  ws_key'[e] = NoKey \/ <<e, ws_key'[e]>> \in Keys
      <4>1. CASE e = k[1] /\ ws_key[e] = NoKey
        BY <1>5, <1>6, <4>1
      <4>2. CASE ~(e = k[1] /\ ws_key[e] = NoKey)
        <5>1. ws_key'[e] = ws_key[e]
          BY <1>6, <4>2
        <5> QED
          BY <1>1, <5>1 DEF TypeOK
      <4> QED
        BY <4>1, <4>2
    <3> QED
      BY <1>1, <1>6, <3>1, <3>2 DEF TypeOK, WebType
  <2>2. LinkType'
    BY <1>1, <1>3, <1>4, TypeInParts DEF LinkType
  <2>3. DriverType' /\ MailType'
    BY <1>1, TypeInParts DEF ReadUid, DriverType, MailType
  <2> QED
    BY <1>7, <2>1, <2>2, <2>3, TypeInPartsNext DEF BotType
<1>9. Connections'
  <2>1. RunsOK'
    BY <1>1 DEF RunsOK, Connections, At, ReadUid
  <2>2. ASSUME NEW e \in Devices
        PROVE  EndOK(e)' /\ KeyOK(e)' /\ FirstOK(e)'
    <3>1. EndOK(e) /\ KeyOK(e) /\ FirstOK(e)
      BY <1>1 DEF Connections
    <3>2. CASE k[1] # e
      BY <1>1, <1>4, <1>6, <3>2, OthersKept DEF ReadUid
    <3>3. CASE k[1] = e
      <4>1. k[2] <= drivers[e].run /\ links[k].uid
        BY <1>1, <3>3 DEF ReadUid, Connections, UidOK
      <4>2. KeyOK(e)'
        BY <1>6, <3>1, <4>1 DEF KeyOK, ReadUid
      <4>3. CASE At(e, "off")
        BY <4>2, <4>3 DEF EndOK, FirstOK, At, ReadUid
      <4>4. CASE ~At(e, "off")
        <5>1. Key(e) \in Keys /\ Key(e) = <<e, drivers[e].run>> /\ Key(e)' = Key(e)
              /\ drivers[e].run \in Nat
          BY <1>1, <4>4, OwnKey DEF Connections, Key, ReadUid, TypeOK
        <5>2. links'[Key(e)].alive = links[Key(e)].alive /\ links'[Key(e)].watched = links[Key(e)].watched
              /\ links'[Key(e)].welcome = links[Key(e)].welcome
          BY <1>3, <1>4, <5>1
        <5>3. EndOK(e)'
          BY <3>1, <5>1, <5>2 DEF EndOK, At, ReadUid
        <5>4. drivers[e].run = 1 => ws_key'[e] = 1
          <6> SUFFICES ASSUME drivers[e].run = 1
                       PROVE  ws_key'[e] = 1
            OBVIOUS
          <6>1. k[2] = 1 /\ ws_key[e] \in 0..1
            BY <1>1, <1>5, <3>1, <4>1 DEF KeyOK, TypeOK
          <6> QED
            BY <1>6, <3>3, <6>1 DEF NoKey
        <5>5. FirstOK(e)'
          BY <3>1, <5>1, <5>2, <5>4 DEF FirstOK, At, ReadUid
        <5> QED
          BY <4>2, <5>3, <5>5
      <4> QED
        BY <4>3, <4>4
    <3> QED
      BY <3>2, <3>3
  <2>3. ASSUME NEW j \in Keys
        PROVE  UidOK(j)'
    BY <1>1, <1>3, <1>4 DEF UidOK, Connections, ReadUid
  <2> QED
    BY <2>1, <2>2, <2>3 DEF Connections
<1> QED
  BY <1>7, <1>8, <1>9 DEF IInv

\* Its close handler, its error handler or the ping handler erases a lost
\* connection.
Erases(k) ==
    /\ links[k].watched /\ ~links[k].alive
    /\ WritesMap \/ (up /\ UNCHANGED <<up, bot>>)
    /\ sockets' = sockets \ {k}
    /\ links' = Unwatched(k)
    /\ UNCHANGED <<devices, ws_key, drivers, mail>>

LEMMA ErasesInv ==
    ASSUME IInv, NEW k \in Keys, Erases(k)
    PROVE  IInv'
<1> DEFINE new == [links[k] EXCEPT !.watched = FALSE, !.uid = FALSE]
<1>1. TypeOK /\ Connections /\ Broadcast
  BY DEF IInv
<1>2. links[k] \in Links
  BY <1>1, TypeInParts DEF LinkType
<1>3. new \in Links /\ ~new.uid
  BY <1>2 DEF Links
<1>4. links' \in [Keys -> Links] /\ links'[k] = new
      /\ \A j \in Keys : j # k => links'[j] = links[j]
  <2>1. links' = [links EXCEPT ![k] = new]
    BY DEF Erases, Unwatched
  <2> QED
    BY <1>1, <1>3, <2>1, TypeInParts DEF LinkType
<1> HIDE DEF new
<1>5. up /\ up' \in BOOLEAN /\ bot' \in Bots /\ Broadcast'
  <2>1. CASE WritesMap
    BY <1>1, <2>1, WritesMapStep
  <2>2. CASE up /\ UNCHANGED <<up, bot>>
    <3>1. Registered' = Registered
      BY DEF Erases, Registered
    <3> QED
      BY <1>1, <2>2, <3>1, NoWriteStep
  <2> QED
    BY <2>1, <2>2 DEF Erases
<1>6. TypeOK'
  <2>1. WebType'
    BY <1>1 DEF TypeOK, WebType, Erases
  <2>2. LinkType'
    BY <1>1, <1>3, <1>4, TypeInParts DEF LinkType
  <2>3. DriverType' /\ MailType'
    BY <1>1, TypeInParts DEF Erases, DriverType, MailType
  <2> QED
    BY <1>5, <2>1, <2>2, <2>3, TypeInPartsNext DEF BotType
<1>7. Connections'
  <2>1. RunsOK'
    BY <1>1 DEF RunsOK, Connections, At, Erases
  <2>2. ASSUME NEW e \in Devices
        PROVE  EndOK(e)' /\ KeyOK(e)' /\ FirstOK(e)'
    <3>1. EndOK(e) /\ KeyOK(e) /\ FirstOK(e)
      BY <1>1 DEF Connections
    <3>2. KeyOK(e)'
      BY <3>1 DEF KeyOK, Erases
    <3>3. CASE ~(At(e, "announce") \/ At(e, "listen"))
      BY <3>2, <3>3 DEF EndOK, FirstOK, At, Erases
    <3>4. CASE At(e, "announce") \/ At(e, "listen")
      <4>1. Key(e) \in Keys /\ Key(e) = <<e, drivers[e].run>> /\ Key(e)' = Key(e)
        BY <1>1, <3>4, OwnKey DEF Connections, Key, At, Erases
      <4>2. Key(e) # k
        BY <3>1, <3>4 DEF EndOK, Erases
      <4>3. links'[Key(e)] = links[Key(e)] /\ (Key(e) \in sockets => Key(e) \in sockets')
        BY <1>4, <4>1, <4>2 DEF Erases
      <4>4. EndOK(e)'
        BY <3>1, <4>1, <4>3 DEF EndOK, At, Erases
      <4>5. FirstOK(e)'
        BY <3>1, <4>1, <4>3 DEF FirstOK, At, Erases
      <4> QED
        BY <3>2, <4>4, <4>5
    <3> QED
      BY <3>3, <3>4
  <2>3. ASSUME NEW j \in Keys
        PROVE  UidOK(j)'
    BY <1>1, <1>3, <1>4 DEF UidOK, Connections, Erases
  <2> QED
    BY <2>1, <2>2, <2>3 DEF Connections
<1> QED
  BY <1>5, <1>6, <1>7 DEF IInv

\* A lost connection is erased, or the process ends under the ping handler.
LEMMA LostInv ==
    ASSUME IInv, NEW k \in Keys, Lost(k) \/ PingCloses(k)
    PROVE  IInv'
<1>1. CASE Lost(k)
  <2>1. Erases(k)
    BY <1>1 DEF Lost, Erases
  <2> QED
    BY <2>1, ErasesInv
<1>2. CASE PingCloses(k) /\ WritesMap /\ sockets' = sockets \ {k} /\ links' = Unwatched(k)
  <2>1. Erases(k)
    BY <1>2 DEF PingCloses, Erases
  <2> QED
    BY <2>1, ErasesInv
<1>3. CASE PingCloses(k) /\ up' = FALSE /\ UNCHANGED <<bot, sockets, links>>
  <2>1. k \in sockets /\ links[k].watched /\ ~links[k].alive
        /\ UNCHANGED <<devices, ws_key, sockets, links, bot, drivers, mail>>
    BY <1>3 DEF PingCloses
  <2>2. BotType'
    BY <1>3, TypeInParts DEF IInv, BotType
  <2>3. WebType' /\ LinkType' /\ DriverType' /\ MailType'
    BY <2>1, TypeInParts DEF IInv, WebType, LinkType, DriverType, MailType
  <2>4. TypeOK'
    BY <2>2, <2>3, TypeInPartsNext
  <2>5. BroadcastOK'
    BY <2>1 DEF IInv, Broadcast, BroadcastOK, Registered
  <2>6. DiesInLoop'
    BY <2>1 DEF DiesInLoop
  <2> QED
    BY <2>1, <2>4, <2>5, <2>6, ConnectionsKept DEF IInv, Broadcast
<1> QED
  BY <1>1, <1>2, <1>3 DEF PingCloses

-----------------------------------------------------------------------------
(* The steps of the drivers.                                               *)

LEMMA StartDriverInv ==
    ASSUME IInv, NEW d \in Devices, StartDriver(d)
    PROVE  IInv'
<1> DEFINE new == [stage |-> "register", run |-> drivers[d].run + 1]
<1>1. TypeOK /\ Connections /\ Broadcast
  BY DEF IInv
<1>2. drivers[d].run \in Nat /\ drivers[d].run + 1 <= MaxRuns[d]
  BY <1>1, NumbersOK DEF StartDriver, TypeOK, Numbers
<1>3. new \in [stage : Stages, run : Nat] /\ new.stage = "register" /\ new.run = drivers[d].run + 1
  BY <1>2 DEF Stages
<1>4. /\ drivers' \in [Devices -> [stage : Stages, run : Nat]] /\ drivers'[d] = new
      /\ \A e \in Devices : e # d => drivers'[e] = drivers[e]
  BY <1>1, <1>3 DEF StartDriver, TypeOK
<1> HIDE DEF new
<1>5. TypeOK'
  <2>1. DriverType'
    BY <1>1, <1>2, <1>3, <1>4, TypeInParts DEF DriverType
  <2>2. WebType' /\ LinkType' /\ MailType' /\ BotType'
    BY <1>1, TypeInParts DEF StartDriver, web, WebType, LinkType, MailType, BotType
  <2> QED
    BY <2>1, <2>2, TypeInPartsNext
<1>6. ASSUME NEW e \in Devices
      PROVE  drivers'[e].run \in Nat /\ drivers[e].run \in Nat /\ drivers[e].run <= drivers'[e].run
  <2>1. drivers[e].run \in Nat
    BY <1>1 DEF TypeOK
  <2>2. CASE e = d
    BY <1>2, <1>3, <1>4, <2>1, <2>2
  <2>3. CASE e # d
    BY <1>4, <2>1, <2>3
  <2> QED
    BY <2>2, <2>3
<1>7. Connections'
  <2>1. RunsOK'
    BY <1>1, <1>2, <1>3, <1>4 DEF RunsOK, Connections, At
  <2>2. ASSUME NEW e \in Devices
        PROVE  EndOK(e)' /\ KeyOK(e)' /\ FirstOK(e)'
    <3>1. CASE e # d
      BY <1>1, <1>4, <3>1, OthersKept DEF StartDriver, web
    <3>2. CASE e = d
      <4>1. KeyOK(e)'
        BY <1>1, <1>6 DEF KeyOK, Connections, TypeOK, StartDriver, web
      <4> QED
        BY <1>3, <1>4, <3>2, <4>1 DEF EndOK, FirstOK, At
    <3> QED
      BY <3>1, <3>2
  <2>3. ASSUME NEW k \in Keys
        PROVE  UidOK(k)'
    <3>1. k[1] \in Devices /\ k[2] \in Nat
      BY KeyOf, NumbersOK DEF Numbers
    <3> QED
      BY <1>1, <1>6, <3>1 DEF UidOK, Connections, StartDriver, web
  <2> QED
    BY <2>1, <2>2, <2>3 DEF Connections
<1>8. Broadcast'
  <2>1. \A e \in Devices : Ready(e)' => Ready(e)
    BY <1>3, <1>4 DEF Ready, At, StartDriver, web
  <2> QED
    BY <1>1, <2>1, BroadcastKept DEF StartDriver, web, TypeOK
<1> QED
  BY <1>5, <1>7, <1>8 DEF IInv

LEMMA AnnounceInv ==
    ASSUME IInv, NEW d \in Devices, Announce(d)
    PROVE  IInv'
<1> DEFINE new == [links[Key(d)] EXCEPT !.uid = TRUE]
<1>1. TypeOK /\ Connections /\ Broadcast
  BY DEF IInv
<1>2. Key(d) \in Keys /\ Key(d) = <<d, drivers[d].run>> /\ drivers[d].run \in Nat
  BY <1>1, OwnKey DEF Announce, At, Connections, TypeOK
<1>3. links[Key(d)] \in Links /\ links[Key(d)].alive /\ links[Key(d)].watched
  BY <1>1, <1>2, TypeInParts DEF LinkType, Connections, EndOK, Announce
<1>4. new \in Links /\ new.alive /\ new.watched /\ new.uid /\ new.welcome = links[Key(d)].welcome
  BY <1>3 DEF Links
<1>5. links' \in [Keys -> Links] /\ links'[Key(d)] = new
      /\ \A k \in Keys : k # Key(d) => links'[k] = links[k]
  BY <1>1, <1>2, <1>4, TypeInParts DEF LinkType, Announce
<1> HIDE DEF new
<1>6. /\ DriverType'
      /\ \A e \in Devices : drivers'[e].run = drivers[e].run
      /\ \A e \in Devices : drivers'[e].stage = IF e = d THEN "listen" ELSE drivers[e].stage
  BY <1>1, GoStep, TypeInParts DEF Announce, Stages
<1>7. TypeOK'
  <2>1. LinkType'
    BY <1>1, <1>4, <1>5, TypeInParts DEF LinkType
  <2>2. WebType' /\ MailType' /\ BotType'
    BY <1>1, TypeInParts DEF Announce, WebType, MailType, BotType
  <2> QED
    BY <1>6, <2>1, <2>2, TypeInPartsNext
<1>8. Connections'
  <2>1. RunsOK'
    BY <1>1, <1>6 DEF RunsOK, Connections, At, Announce
  <2>2. ASSUME NEW e \in Devices
        PROVE  EndOK(e)' /\ KeyOK(e)' /\ FirstOK(e)'
    <3>1. CASE e = d
      <4>1. EndOK(e) /\ KeyOK(e) /\ FirstOK(e)
        BY <1>1 DEF Connections
      <4>2. KeyOK(e)'
        BY <1>6, <4>1 DEF KeyOK, Announce
      <4>3. Key(e)' = Key(d)
        BY <1>6, <3>1 DEF Key
      <4>4. EndOK(e)'
        BY <1>4, <1>5, <4>3 DEF EndOK
      <4>5. FirstOK(e)'
        BY <1>2, <1>4, <1>5, <1>6, <3>1, <4>1 DEF FirstOK, At, Announce
      <4> QED
        BY <4>2, <4>4, <4>5
    <3>2. CASE e # d
      BY <1>1, <1>2, <1>5, <1>6, <3>2, OthersKept DEF Announce
    <3> QED
      BY <3>1, <3>2
  <2>3. ASSUME NEW k \in Keys
        PROVE  UidOK(k)'
    <3>1. CASE k = Key(d)
      BY <1>2, <1>6, <3>1 DEF UidOK
    <3>2. CASE k # Key(d)
      BY <1>1, <1>5, <1>6, <3>2, KeyOf DEF UidOK, Connections
    <3> QED
      BY <3>1, <3>2
  <2> QED
    BY <2>1, <2>2, <2>3 DEF Connections
<1>9. Broadcast'
  <2>1. \A e \in Devices : Ready(e)' => Ready(e)
    <3> SUFFICES ASSUME NEW e \in Devices, Ready(e)' PROVE Ready(e)
      OBVIOUS
    <3>1. drivers[e].run = 1 /\ drivers'[e].stage = "listen" /\ ~links'[<<e, 1>>].uid
          /\ ~links'[<<e, 1>>].welcome
      BY <1>6 DEF Ready, At
    <3>2. CASE e = d
      BY <1>2, <1>4, <1>5, <3>1, <3>2
    <3>3. CASE e # d
      <4>1. At(e, "listen")
        BY <1>6, <3>1, <3>3 DEF At
      <4>2. <<e, 1>> \in Keys
        BY <1>1, <3>1, <4>1, OwnKey DEF Connections, At
      <4>3. <<e, 1>> # Key(d)
        BY <1>2, <3>3
      <4> QED
        BY <1>5, <3>1, <4>1, <4>2, <4>3 DEF Ready
    <3> QED
      BY <3>2, <3>3
  <2>2. \A k \in Keys : links[k].watched /\ ~links[k].alive => links'[k].watched /\ ~links'[k].alive
    BY <1>3, <1>5
  <2> QED
    BY <1>1, <2>1, <2>2, BroadcastKept DEF Announce, TypeOK
<1> QED
  BY <1>7, <1>8, <1>9 DEF IInv

\* Mail is taken from the head.
LEMMA ExecuteInv ==
    ASSUME IInv, NEW d \in Devices, Execute(d)
    PROVE  IInv' /\ Key(d) \in Keys /\ Len(mail'[Key(d)]) < Len(mail[Key(d)])
           /\ \A k \in Keys : k # Key(d) => mail'[k] = mail[k]
<1>1. TypeOK /\ Connections /\ Broadcast
  BY DEF IInv
<1>2. Key(d) \in Keys
  BY <1>1, OwnKey DEF Execute, At, Connections
<1>3. mail[Key(d)] \in Seq(Commands) /\ mail[Key(d)] # <<>>
  BY <1>1, <1>2 DEF TypeOK, Execute
<1>4. Tail(mail[Key(d)]) \in Seq(Commands) /\ Len(Tail(mail[Key(d)])) < Len(mail[Key(d)])
  <2>1. Len(mail[Key(d)]) \in Nat
    BY <1>3, LenProperties
  <2> QED
    BY <1>3, <2>1, HeadTailProperties
<1>5. MailType' /\ mail'[Key(d)] = Tail(mail[Key(d)]) /\ \A k \in Keys : k # Key(d) => mail'[k] = mail[k]
  BY <1>1, <1>2, <1>4 DEF TypeOK, MailType, Execute
<1>6. TypeOK'
  <2>1. WebType' /\ LinkType' /\ DriverType' /\ BotType'
    BY <1>1, TypeInParts DEF Execute, web, WebType, LinkType, DriverType, BotType
  <2> QED
    BY <1>5, <2>1, TypeInPartsNext
<1>7. Connections' /\ Broadcast'
  <2>1. \A e \in Devices : Ready(e)' => Ready(e)
    BY DEF Execute, web, Ready, At
  <2> QED
    BY <1>1, <2>1, ConnectionsKept, BroadcastKept DEF Execute, web, TypeOK
<1> QED
  BY <1>2, <1>4, <1>5, <1>6, <1>7 DEF IInv

LEMMA InterruptInv ==
    ASSUME IInv, NEW d \in Devices, Interrupt(d)
    PROVE  IInv'
<1>1. TypeOK /\ Connections /\ Broadcast
  BY DEF IInv
<1>2. /\ DriverType'
      /\ \A e \in Devices : drivers'[e].run = drivers[e].run
      /\ \A e \in Devices : drivers'[e].stage = IF e = d THEN "unregister" ELSE drivers[e].stage
  BY <1>1, GoStep, TypeInParts DEF Interrupt, Stages
<1>3. TypeOK'
  <2>1. WebType' /\ LinkType' /\ MailType' /\ BotType'
    BY <1>1, TypeInParts DEF Interrupt, web, WebType, LinkType, MailType, BotType
  <2> QED
    BY <1>2, <2>1, TypeInPartsNext
<1>4. Connections'
  <2>1. RunsOK'
    BY <1>1, <1>2 DEF RunsOK, Connections, At, Interrupt
  <2>2. ASSUME NEW e \in Devices
        PROVE  EndOK(e)' /\ KeyOK(e)' /\ FirstOK(e)'
    <3>1. CASE e = d
      BY <1>1, <1>2, <3>1 DEF Connections, EndOK, KeyOK, FirstOK, At, Interrupt, web
    <3>2. CASE e # d
      BY <1>1, <1>2, <3>2, OthersKept DEF Interrupt, web
    <3> QED
      BY <3>1, <3>2
  <2>3. ASSUME NEW k \in Keys
        PROVE  UidOK(k)'
    BY <1>1, <1>2, KeyOf DEF UidOK, Connections, Interrupt, web
  <2> QED
    BY <2>1, <2>2, <2>3 DEF Connections
<1>5. Broadcast'
  <2>1. \A e \in Devices : Ready(e)' => Ready(e)
    BY <1>2 DEF Ready, At, Interrupt, web
  <2> QED
    BY <1>1, <2>1, BroadcastKept DEF Interrupt, web, TypeOK
<1> QED
  BY <1>3, <1>4, <1>5 DEF IInv

\* The end of a run, with or without DELETE: its connection is lost and with
\* it what was on the way.
LEMMA HangUpStep ==
    ASSUME TypeOK, Connections, NEW d \in Devices, ~At(d, "off"),
           HangUp(d), UNCHANGED <<ws_key, sockets>>
    PROVE  /\ LinkType' /\ DriverType' /\ MailType' /\ Connections'
           /\ \A k \in Keys : Len(mail'[k]) <= Len(mail[k])
           /\ \A k \in Keys : links[k].watched /\ ~links[k].alive =>
                                 links'[k].watched /\ ~links'[k].alive
           /\ \A e \in Devices : Ready(e)' => Ready(e)
<1> DEFINE new == [links[Key(d)] EXCEPT !.alive = FALSE]
<1>1. Key(d) \in Keys /\ Key(d) = <<d, drivers[d].run>> /\ drivers[d].run # 0
  <2>1. drivers[d].run \in Nat /\ drivers[d].run >= 1
    BY DEF Connections, RunsOK, TypeOK
  <2> QED
    BY <2>1, OwnKey DEF Connections
<1>2. links[Key(d)] \in Links /\ (links[Key(d)].uid => links[Key(d)].watched)
  BY <1>1, TypeInParts DEF LinkType
<1>3. new \in Links /\ new.watched = links[Key(d)].watched /\ new.uid = links[Key(d)].uid
      /\ ~new.alive
  BY <1>2 DEF Links
<1>4. links' \in [Keys -> Links] /\ links'[Key(d)] = new
      /\ \A k \in Keys : k # Key(d) => links'[k] = links[k]
  BY <1>1, <1>3, TypeInParts DEF LinkType, HangUp
<1> HIDE DEF new
<1>5. LinkType'
  BY <1>2, <1>3, <1>4, TypeInParts DEF LinkType
<1>6. MailType' /\ \A k \in Keys : mail'[k] = IF k = Key(d) THEN <<>> ELSE mail[k]
  BY <1>1, TypeInParts DEF MailType, HangUp
<1>7. \A k \in Keys : Len(mail'[k]) <= Len(mail[k])
  <2>1. \A k \in Keys : Len(mail[k]) \in Nat
    BY TypeInParts, LenProperties DEF MailType
  <2>2. Len(<<>>) = 0
    OBVIOUS
  <2> QED
    BY <1>6, <2>1, <2>2
<1>8. /\ DriverType'
      /\ \A e \in Devices : drivers'[e].run = drivers[e].run
      /\ \A e \in Devices : drivers'[e].stage = IF e = d THEN "off" ELSE drivers[e].stage
  BY GoStep, TypeInParts DEF HangUp, Stages
<1>9. Connections'
  <2>1. RunsOK'
    BY <1>8 DEF RunsOK, Connections, At
  <2>2. ASSUME NEW e \in Devices
        PROVE  EndOK(e)' /\ KeyOK(e)' /\ FirstOK(e)'
    <3>1. CASE e = d
      BY <1>8, <3>1 DEF Connections, EndOK, KeyOK, FirstOK, At
    <3>2. CASE e # d
      BY <1>1, <1>4, <1>8, <3>2, OthersKept
    <3> QED
      BY <3>1, <3>2
  <2>3. ASSUME NEW k \in Keys
        PROVE  UidOK(k)'
    BY <1>3, <1>4, <1>8, KeyOf DEF UidOK, Connections
  <2> QED
    BY <2>1, <2>2, <2>3 DEF Connections
<1>10. \A k \in Keys : links[k].watched /\ ~links[k].alive => links'[k].watched /\ ~links'[k].alive
  BY <1>3, <1>4
<1>11. ASSUME NEW e \in Devices, Ready(e)'
       PROVE  Ready(e)
  <2>1. e # d /\ At(e, "listen") /\ drivers[e].run = 1
    BY <1>8, <1>11 DEF Ready, At
  <2>2. <<e, 1>> \in Keys /\ <<e, 1>> # Key(d)
    BY <1>1, <2>1, OwnKey DEF Connections, At
  <2> QED
    BY <1>4, <1>11, <2>1, <2>2 DEF Ready
<1> QED
  BY <1>5, <1>6, <1>7, <1>8, <1>9, <1>10, <1>11

LEMMA EndOfRunInv ==
    ASSUME IInv, NEW d \in Devices, Unregister(d) \/ Fail(d)
    PROVE  IInv' /\ \A k \in Keys : Len(mail'[k]) <= Len(mail[k])
<1>1. TypeOK /\ Connections /\ Broadcast
  BY DEF IInv
<1>2. /\ LinkType' /\ DriverType' /\ MailType' /\ Connections'
      /\ \A k \in Keys : Len(mail'[k]) <= Len(mail[k])
  BY <1>1, HangUpStep DEF Unregister, Fail, At
<1>3. BotType' /\ Broadcast' /\ devices' \in [Devices -> {"absent", "unknown", "put"}]
  <2>1. CASE Unregister(d)
    BY <1>1, <2>1, PostStep DEF Unregister, BotType
  <2>2. CASE Fail(d)
    <3>1. /\ \A k \in Keys : links[k].watched /\ ~links[k].alive => links'[k].watched /\ ~links'[k].alive
          /\ \A e \in Devices : Ready(e)' => Ready(e)
      BY <1>1, <2>2, HangUpStep DEF Fail
    <3> QED
      BY <1>1, <2>2, <3>1, BroadcastKept, TypeInParts DEF Fail, BotType, WebType
  <2> QED
    BY <2>1, <2>2
<1>4. WebType'
  BY <1>1, <1>3, TypeInParts DEF WebType, Unregister, Fail
<1> QED
  BY <1>2, <1>3, <1>4, TypeInPartsNext DEF IInv

-----------------------------------------------------------------------------
(* The steps of the bot thread.                                            *)

\* The loop goes to a registered device.
LEMMA AfterProperties ==
    ASSUME TypeOK, bot.at \in Devices, After(bot.at) # {}
    PROVE  NextAt \in Registered /\ NextAt # NoKey /\ NextAt \in Devices
<1>1. Devices \subseteq Nat
  BY NumbersOK DEF Numbers
<1>2. After(bot.at) \subseteq Nat
  BY <1>1 DEF After, Registered
<1>3. NextAt = Min(After(bot.at))
  BY DEF NextAt
<1>4. NextAt \in After(bot.at) /\ \A x \in After(bot.at) : NextAt <= x
  BY <1>2, <1>3, MinProperties
<1>5. NextAt \in Registered /\ NextAt \in Devices /\ NextAt > bot.at
  BY <1>4 DEF After, Registered
<1>6. NextAt # NoKey
  <2>1. NextAt \in Nat /\ bot.at \in Nat
    BY <1>1, <1>5
  <2> QED
    BY <1>5, <2>1 DEF NoKey
<1> QED
  BY <1>5, <1>6

LEMMA IdleType == \A n \in 0..MaxCommands : Idle(n) \in Bots /\ ~Idle(n).busy
BY DEF Idle, Bots, Commands

\* The step to the next device, from one of them.
LEMMA AdvanceStep ==
    ASSUME TypeOK, Broadcast, up, bot.busy, Advance, UNCHANGED web
    PROVE  up' \in BOOLEAN /\ bot' \in Bots /\ Broadcast'
<1>1. bot \in Bots /\ bot.at \in Devices
  BY DEF TypeOK, Bots, Broadcast, BroadcastOK
<1>2. Registered' = Registered /\ Registered \subseteq Devices
  BY DEF web, Registered
<1>3. CASE bot.torn /\ up' = FALSE /\ UNCHANGED bot
  BY <1>1, <1>3 DEF Broadcast, BroadcastOK, DiesInLoop
<1>4. CASE UNCHANGED up /\ bot' = Idle(bot.left)
  <2>1. bot' \in Bots /\ ~bot'.busy
    BY <1>1, <1>4, IdleType DEF Bots
  <2> QED
    BY <1>4, <2>1 DEF Broadcast, BroadcastOK, DiesInLoop
<1>5. ASSUME NEW next \in Devices, bot.torn \/ next \in Registered,
             UNCHANGED up, bot' = [bot EXCEPT !.at = next]
      PROVE  up' \in BOOLEAN /\ bot' \in Bots /\ Broadcast'
  <2>1. bot' \in Bots /\ bot'.at = next /\ bot'.torn = bot.torn
    BY <1>1, <1>5 DEF Bots
  <2>2. BroadcastOK'
    BY <1>2, <1>5, <2>1 DEF BroadcastOK
  <2> QED
    BY <1>5, <2>1, <2>2 DEF Broadcast, DiesInLoop
<1>6. ASSUME UNCHANGED up,
             NEW next \in IF bot.torn THEN TornNextAts ELSE {NextAt},
             bot' = IF next = NoKey THEN Idle(bot.left) ELSE [bot EXCEPT !.at = next]
      PROVE  up' \in BOOLEAN /\ bot' \in Bots /\ Broadcast'
  <2>1. CASE next = NoKey
    BY <1>4, <1>6, <2>1
  <2>2. CASE next # NoKey
    <3>1. next \in Devices /\ (bot.torn \/ next \in Registered)
      <4>1. CASE bot.torn
        BY <1>6, <2>2, <4>1 DEF TornNextAts
      <4>2. CASE ~bot.torn
        <5>1. next = NextAt
          BY <1>6, <4>2
        <5>2. After(bot.at) # {}
          BY <2>2, <5>1 DEF NextAt
        <5> QED
          BY <1>1, <5>1, <5>2, AfterProperties
      <4> QED
        BY <4>1, <4>2
    <3> QED
      BY <1>5, <1>6, <2>2, <3>1
  <2> QED
    BY <2>1, <2>2
<1> QED
  BY <1>3, <1>6 DEF Advance

LEMMA StartCommandInv ==
    ASSUME IInv, StartCommand
    PROVE  IInv'
<1>1. TypeOK /\ Connections /\ Broadcast
  BY DEF IInv
<1>2. bot \in Bots /\ bot.left - 1 \in 0..MaxCommands
  BY <1>1, NumbersOK DEF TypeOK, Bots, StartCommand, Numbers
<1>3. Registered \subseteq Devices /\ Devices \subseteq Nat /\ Registered # {} /\ Registered' = Registered
  BY NumbersOK DEF Registered, StartCommand, web, Numbers
<1>4. Min(Registered) \in Registered /\ \A e \in Registered : Min(Registered) <= e
  BY <1>3, MinProperties
<1>5. PICK c \in Commands :
        bot' = [Idle(bot.left - 1) EXCEPT !.busy = TRUE, !.command = c, !.at = Min(Registered)]
  BY DEF StartCommand
<1>6. /\ Idle(bot.left - 1) \in Bots
      /\ Min(Registered) \in Devices
  BY <1>2, <1>3, <1>4, IdleType DEF Idle
<1>7. bot' \in Bots /\ bot'.at = Min(Registered)
  BY <1>5, <1>6 DEF Bots
<1>9. BroadcastOK'
  BY <1>3, <1>4, <1>6, <1>7 DEF BroadcastOK
<1>10. Broadcast'
  BY <1>9 DEF Broadcast, DiesInLoop, StartCommand
<1>11. TypeOK'
  <2>1. WebType' /\ LinkType' /\ DriverType' /\ MailType'
    BY <1>1, TypeInParts DEF StartCommand, web, WebType, LinkType, DriverType, MailType
  <2> QED
    BY <1>1, <1>7, <2>1, TypeInParts, TypeInPartsNext DEF BotType, StartCommand
<1>12. Connections'
  BY <1>1, ConnectionsKept DEF StartCommand, web
<1> QED
  BY <1>10, <1>11, <1>12 DEF IInv

\* A driver that is ready has its key and its socket.
LEMMA ReadyHasChannel == Connections => FirstRunHasChannel
<1> SUFFICES ASSUME Connections, NEW d \in Devices, Ready(d)
             PROVE  HasChannel(d)
  BY DEF FirstRunHasChannel
<1>1. ws_key[d] = 1 /\ <<d, 1>> \in sockets
  BY DEF Connections, FirstOK, Ready
<1> QED
  BY <1>1 DEF HasChannel, NoKey

\* The process ends for want of a channel to the device of the loop.
LEMMA SendToNobodyInv ==
    ASSUME IInv, SendToNobody
    PROVE  IInv'
<1>1. TypeOK /\ Connections /\ Broadcast
  BY DEF IInv
<1>2. <<bot.at, ws_key[bot.at]>> \notin sockets
  <2>1. CASE ws_key[bot.at] = NoKey
    <3>1. ASSUME <<bot.at, NoKey>> \in Keys PROVE FALSE
      <4>1. <<bot.at, NoKey>>[2] \in 1..MaxRuns[<<bot.at, NoKey>>[1]]
        BY <3>1, KeyOf
      <4>2. NoKey \in 1..MaxRuns[bot.at]
        BY <4>1
      <4> QED
        BY <4>2 DEF NoKey
    <3> QED
      BY <1>1, <2>1, <3>1 DEF TypeOK
  <2>2. CASE ws_key[bot.at] # NoKey
    BY <2>2 DEF SendToNobody, HasChannel
  <2> QED
    BY <2>1, <2>2
<1>3. Broadcast'
  <2>1. Registered' = Registered
    BY DEF Registered, SendToNobody, web
  <2>2. bot.at \in Devices
    BY <1>1 DEF Broadcast, BroadcastOK, SendToNobody, Tells
  <2>3. ~Ready(bot.at)
    BY <1>1, <2>2, ReadyHasChannel DEF SendToNobody, FirstRunHasChannel
  <2>4. ~Ready(bot.at)'
    BY <2>3 DEF Ready, At, SendToNobody, web
  <2> QED
    BY <1>1, <1>2, <2>1, <2>4 DEF Broadcast, BroadcastOK, DiesInLoop, SendToNobody, Tells, web
<1>4. TypeOK'
  <2>1. WebType' /\ LinkType' /\ DriverType' /\ MailType'
    BY <1>1, TypeInParts DEF SendToNobody, web, WebType, LinkType, DriverType, MailType
  <2> QED
    BY <1>1, <2>1, TypeInParts, TypeInPartsNext DEF BotType, SendToNobody
<1>5. Connections'
  BY <1>1, ConnectionsKept DEF SendToNobody, web
<1> QED
  BY <1>3, <1>4, <1>5 DEF IInv

\* A command goes to the connection of the device of the loop.
LEMMA SendCommandInv ==
    ASSUME IInv, SendCommand
    PROVE  /\ IInv' /\ bot.at \in Devices
           /\ \A k \in Keys : k[1] # bot.at => mail'[k] = mail[k]
<1> DEFINE k == <<bot.at, ws_key[bot.at]>>
<1>1. TypeOK /\ Connections /\ Broadcast /\ up /\ bot.busy
  BY DEF IInv, SendCommand, Tells
<1>2. k \in Keys /\ bot.at \in Devices /\ bot.command \in Commands
  BY <1>1 DEF TypeOK, SendCommand, HasChannel, Broadcast, BroadcastOK
<1>3. mail[k] \in Seq(Commands) /\ Append(mail[k], bot.command) \in Seq(Commands)
  BY <1>1, <1>2, AppendProperties DEF TypeOK
<1>4. mail' = mail \/ mail' = [mail EXCEPT ![k] = Append(mail[k], bot.command)]
  BY DEF SendCommand
<1>5. MailType' /\ \A j \in Keys : j # k => mail'[j] = mail[j]
  BY <1>1, <1>2, <1>3, <1>4 DEF MailType, TypeOK
<1>6. \A j \in Keys : j[1] # bot.at => mail'[j] = mail[j]
  BY <1>5
<1>7. up' \in BOOLEAN /\ bot' \in Bots /\ Broadcast'
  BY <1>1, AdvanceStep DEF SendCommand
<1>8. TypeOK'
  <2>1. WebType' /\ LinkType' /\ DriverType'
    BY <1>1, TypeInParts DEF SendCommand, web, WebType, LinkType, DriverType
  <2> QED
    BY <1>5, <1>7, <2>1, TypeInPartsNext DEF BotType
<1>9. Connections'
  BY <1>1, ConnectionsKept DEF SendCommand, web
<1> QED
  BY <1>2, <1>6, <1>7, <1>8, <1>9 DEF IInv

LEMMA ReportInv ==
    ASSUME IInv, Report
    PROVE  IInv'
<1>1. TypeOK /\ Connections /\ Broadcast /\ up /\ bot.busy
  BY DEF IInv, Report
<1>2. up' \in BOOLEAN /\ bot' \in Bots /\ Broadcast'
  BY <1>1, AdvanceStep DEF Report
<1>3. TypeOK'
  <2>1. WebType' /\ LinkType' /\ DriverType' /\ MailType'
    BY <1>1, TypeInParts DEF Report, web, WebType, LinkType, DriverType, MailType
  <2> QED
    BY <1>2, <2>1, TypeInPartsNext DEF BotType
<1>4. Connections'
  BY <1>1, ConnectionsKept DEF Report, web
<1> QED
  BY <1>2, <1>3, <1>4 DEF IInv

-----------------------------------------------------------------------------
LEMMA NextInv ==
    ASSUME IInv, [Next]_vars
    PROVE  IInv'
<1>1. CASE WebStep
  BY <1>1, RegisterInv, UpgradeInv, OperatorInv, WelcomedInv, ReadUidInv, LostInv DEF WebStep
<1>2. CASE BotStep
  BY <1>2, StartCommandInv, SendToNobodyInv, SendCommandInv, ReportInv DEF BotStep
<1>3. ASSUME NEW d \in Devices, DriverStep(d)
      PROVE  IInv'
  BY <1>3, StartDriverInv, AnnounceInv, ExecuteInv, InterruptInv, EndOfRunInv DEF DriverStep
<1>4. CASE UNCHANGED vars
  <2>1. WebType' /\ LinkType' /\ DriverType' /\ MailType' /\ BotType'
    BY <1>4, TypeInParts DEF IInv, vars, web, WebType, LinkType, DriverType, MailType, BotType
  <2>2. TypeOK'
    BY <2>1, TypeInPartsNext
  <2> QED
    <3>1. \A e \in Devices : Ready(e)' => Ready(e)
      BY <1>4 DEF vars, web, Ready, At
    <3> QED
      BY <1>4, <2>2, <3>1, ConnectionsKept, BroadcastKept DEF IInv, vars, web, TypeOK
<1> QED
  BY <1>1, <1>2, <1>3, <1>4 DEF Next

LEMMA InductiveInv == Spec => []IInv
<1>1. Init => IInv
  BY InitInv
<1>2. IInv /\ [Next]_vars => IInv'
  BY NextInv
<1> QED
  BY <1>1, <1>2, PTL DEF Spec

\* The maps, links, stages and queues keep their types; the key of a device is
\* that of one of its runs, and a UID waits only where handlers are set.
THEOREM TypeCorrect == Spec => []TypeOK
<1>1. IInv => TypeOK
  BY DEF IInv
<1> QED
  BY <1>1, InductiveInv, PTL

\* The server ends in a loop over one of its maps only: a broadcast torn by a
\* write, the ping handler at a lost socket (ws_ping_handler()), or a command
\* to a device whose key, if it has one, leads to no socket (ws_send_command())
\* and whose driver is not ready in its first run.
THEOREM DeathCorrect == Spec => []DiesInLoop
<1>1. IInv => DiesInLoop
  BY DEF IInv, Broadcast
<1> QED
  BY <1>1, InductiveInv, PTL

\* In its first run a driver is found by commands once its welcome went out
\* and its UID was read, in whichever order the web thread handles them and
\* whatever other drivers, people and the bot do meanwhile.
THEOREM FirstRunCorrect == Spec => []FirstRunHasChannel
<1>1. IInv => FirstRunHasChannel
  BY ReadyHasChannel DEF IInv
<1> QED
  BY <1>1, InductiveInv, PTL

\* What a device gets while no map was written under the broadcast is for a
\* device that is registered: a key and a socket that outlive DELETE are of no
\* use to later commands.
THEOREM OnlyRegisteredCorrect == Spec => OnlyRegisteredCommanded
<1>1. ASSUME IInv, [Next]_vars
      PROVE  [\A k \in Keys : Len(mail'[k]) > Len(mail[k]) => k[1] \in Registered \/ bot.torn]_vars
  <2> SUFFICES ASSUME Next, NEW k \in Keys, Len(mail'[k]) > Len(mail[k])
               PROVE  k[1] \in Registered \/ bot.torn
    BY <1>1
  <2>1. Len(mail[k]) \in Nat /\ Len(mail'[k]) \in Nat
    <3>1. TypeOK'
      BY <1>1, NextInv DEF IInv
    <3>2. mail[k] \in Seq(Commands) /\ mail'[k] \in Seq(Commands)
      BY <1>1, <3>1, TypeInParts, TypeInPartsNext DEF IInv, MailType
    <3> QED
      BY <3>2, LenProperties
  <2>2. mail' # mail
    BY <2>1
  <2>3. CASE WebStep
    BY <2>2, <2>3 DEF WebStep, Register, Upgrade, PutState, OperatorPosts, OperatorDeletes,
       Welcomed, ReadUid, Lost, PingCloses
  <2>4. CASE BotStep
    <3>1. SendCommand
      BY <2>2, <2>4 DEF BotStep, StartCommand, SendToNobody, Report
    <3>2. k[1] = bot.at
      <4>1. k[1] # bot.at => mail'[k] = mail[k]
        BY <1>1, <3>1, SendCommandInv
      <4> QED
        BY <2>1, <4>1
    <3>3. bot.busy /\ BroadcastOK
      BY <1>1, <3>1 DEF SendCommand, Tells, IInv, Broadcast
    <3> QED
      BY <3>2, <3>3 DEF BroadcastOK
  <2>5. ASSUME NEW d \in Devices, DriverStep(d)
        PROVE  FALSE
    <3>1. CASE StartDriver(d) \/ Announce(d) \/ Interrupt(d)
      BY <2>2, <3>1 DEF StartDriver, Announce, Interrupt
    <3>2. CASE Execute(d)
      <4>1. k = Key(d) \/ mail'[k] = mail[k]
        BY <1>1, <3>2, ExecuteInv
      <4>2. k = Key(d) => Len(mail'[k]) < Len(mail[k])
        BY <1>1, <3>2, ExecuteInv
      <4> QED
        BY <2>1, <4>1, <4>2
    <3>3. CASE Unregister(d) \/ Fail(d)
      <4>1. Len(mail'[k]) <= Len(mail[k])
        BY <1>1, <3>3, EndOfRunInv
      <4> QED
        BY <2>1, <4>1
    <3> QED
      BY <2>5, <3>1, <3>2, <3>3 DEF DriverStep
  <2> QED
    BY <2>3, <2>4, <2>5 DEF Next
<1> QED
  BY <1>1, InductiveInv, PTL DEF Spec, OnlyRegisteredCommanded
=============================================================================
