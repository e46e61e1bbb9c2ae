----------------------------- MODULE ArmServer -----------------------------
(***************************************************************************)
(* The robotic arm server between its two threads and its drivers.  The    *)
(* web thread serves the REST API (devices_map_) and the WebSocket channel *)
(* (sockets_, devices_to_ws_keys); the bot thread broadcasts a user's      *)
(* command over the same three maps, and nothing locks them.  A driver     *)
(* registers its device, connects, announces its UID and then executes     *)
(* what arrives; SIGINT unregisters it, a failure does not.                *)
(*                                                                         *)
(* Every run of a driver makes one connection, so a WebSocket key is a     *)
(* device and the number of the run.                                       *)
(***************************************************************************)
EXTENDS Integers, Sequences, FiniteSets, FiniteSetsExt

CONSTANTS
    Devices,      \* device ids, numbered in the order of std::map
    MaxRuns,      \* bound on the runs of each driver: a number of each device;
                  \* a console driver has a new device id, thus one run, each time
    MaxCommands,  \* bound on the commands of the bot's users
    Operators     \* TRUE if people also use the REST API by hand

ASSUME ArmAssumption ==
    /\ Devices \subseteq Nat /\ IsFiniteSet(Devices)
    /\ MaxRuns \in [Devices -> Nat] /\ MaxCommands \in Nat
    /\ Operators \in BOOLEAN

Keys == UNION {{d} \X (1..MaxRuns[d]) : d \in Devices}
NoKey == 0

\* A move, the states that "Reboot" and "Shutdown" put, and "Status", which
\* goes over the devices as well but only to tell the user.
Commands == {"move", "rebooting", "disabled", "status"}

VARIABLES
    up,         \* the server process runs
    devices,    \* devices_map_: id -> state, "absent" if not there
    ws_key,     \* devices_to_ws_keys: id -> run whose key it holds, or NoKey
    sockets,    \* keys in sockets_
    links,      \* the connections as the web thread has yet to see them
    bot,        \* the bot thread and the broadcast it is in
    drivers,    \* where each driver is, and which run of it this is
    mail        \* commands on their way to each run of a driver

web == <<devices, ws_key, sockets, links>>
vars == <<up, web, bot, drivers, mail>>

Stages == {"off", "register", "connect", "announce", "listen", "unregister"}

TypeOK ==
    /\ up \in BOOLEAN
    /\ devices \in [Devices -> {"absent", "unknown", "put"}]
    /\ ws_key \in [Devices -> Nat]
    /\ \A d \in Devices : ws_key[d] = NoKey \/ <<d, ws_key[d]>> \in Keys
    /\ sockets \subseteq Keys
    /\ links \in [Keys -> [alive : BOOLEAN,     \* the driver's end is open
                           watched : BOOLEAN,   \* the handlers are set
                           welcome : BOOLEAN,   \* its callback has yet to run
                           uid : BOOLEAN]]      \* "UID ..." waits to be read
    /\ \A k \in Keys : links[k].uid => links[k].watched
    /\ bot \in [busy : BOOLEAN, command : Commands, at : Devices \cup {NoKey},
                torn : BOOLEAN, left : 0..MaxCommands]
    /\ drivers \in [Devices -> [stage : Stages, run : Nat]]
    /\ \A d \in Devices : drivers[d].run <= MaxRuns[d]
    /\ mail \in [Keys -> Seq(Commands)]

Idle(left) ==
    [busy |-> FALSE, command |-> "move", at |-> NoKey, torn |-> FALSE, left |-> left]

Init ==
    /\ up = TRUE
    /\ devices = [d \in Devices |-> "absent"]
    /\ ws_key = [d \in Devices |-> NoKey]
    /\ sockets = {}
    /\ links = [k \in Keys |-> [alive |-> FALSE, watched |-> FALSE, welcome |-> FALSE, uid |-> FALSE]]
    /\ bot = Idle(MaxCommands)
    /\ drivers = [d \in Devices |-> [stage |-> "off", run |-> 0]]
    /\ mail = [k \in Keys |-> <<>>]

Key(d) == <<d, drivers[d].run>>
At(d, stage) == drivers[d].stage = stage
Go(d, stage) == drivers' = [drivers EXCEPT ![d].stage = stage]

-----------------------------------------------------------------------------
(* The web thread.                                                         *)

\* A map of the server is written.  Under a broadcast, which reads it at the
\* same time, that is a data race: the process may end.
WritesMap ==
    /\ up
    /\ up' \in IF bot.busy THEN BOOLEAN ELSE {TRUE}
    /\ bot' = IF bot.busy THEN [bot EXCEPT !.torn = TRUE] ELSE bot

\* devices_post_handler() for a device that is not there (else 403).
Post(d) ==
    IF devices[d] = "absent"
    THEN WritesMap /\ devices' = [devices EXCEPT ![d] = "unknown"]
    ELSE up /\ UNCHANGED <<up, bot, devices>>

\* device_delete_handler(): 404 if it is not there.
Delete(d) ==
    IF devices[d] # "absent"
    THEN WritesMap /\ devices' = [devices EXCEPT ![d] = "absent"]
    ELSE up /\ UNCHANGED <<up, bot, devices>>

\* device_state_put_handler(): assigns within a node of the map.  Only
\* "Status" reads the state, so one value stands for those that may be put.
PutState(d) ==
    /\ up /\ Operators /\ devices[d] # "absent"
    /\ devices' = [devices EXCEPT ![d] = "put"]
    /\ UNCHANGED <<up, ws_key, sockets, links, bot, drivers, mail>>

OperatorPosts(d) ==
    /\ Operators /\ Post(d)
    /\ UNCHANGED <<ws_key, sockets, links, drivers, mail>>

OperatorDeletes(d) ==
    /\ Operators /\ Delete(d)
    /\ UNCHANGED <<ws_key, sockets, links, drivers, mail>>

\* The driver's POST; it does not look at the answer.
Register(d) ==
    /\ At(d, "register") /\ Post(d)
    /\ Go(d, "connect")
    /\ UNCHANGED <<ws_key, sockets, links, mail>>

\* ws_get_method_handler(): handlers are set and the welcome is being sent.
Upgrade(d) ==
    /\ up /\ At(d, "connect")
    /\ links' = [links EXCEPT ![Key(d)] =
                    [alive |-> TRUE, watched |-> TRUE, welcome |-> TRUE, uid |-> FALSE]]
    /\ Go(d, "announce")
    /\ UNCHANGED <<up, devices, ws_key, sockets, bot, mail>>

\* The callback of the welcome message puts the socket into sockets_.
Welcomed(k) ==
    /\ links[k].welcome
    /\ WritesMap
    /\ sockets' = sockets \cup {k}
    /\ links' = [links EXCEPT ![k].welcome = FALSE]
    /\ UNCHANGED <<devices, ws_key, drivers, mail>>

\* Slip: the key is kept only if its socket is in sockets_ already.
EmplacedIfWelcomed(d, run) ==
    IF ws_key[d] = NoKey /\ <<d, run>> \in sockets THEN [ws_key EXCEPT ![d] = run] ELSE ws_key
\* emplace() leaves a key that is already there.
Emplaced(d, run) == IF ws_key[d] = NoKey THEN [ws_key EXCEPT ![d] = run] ELSE ws_key

\* ws_message_handler() reads "UID ...".
ReadUid(k) ==
    /\ links[k].uid /\ links[k].watched
    /\ IF ws_key[k[1]] = NoKey THEN WritesMap ELSE up /\ UNCHANGED <<up, bot>>
    /\ ws_key' = Emplaced(k[1], k[2])
    /\ links' = [links EXCEPT ![k].uid = FALSE]
    /\ UNCHANGED <<devices, sockets, drivers, mail>>

\* Slip: what the connection still had to say is handled after its end.
UnwatchedLater(k) == [links EXCEPT ![k].watched = FALSE]
Unwatched(k) == [links EXCEPT ![k].watched = FALSE, ![k].uid = FALSE]

\* ws_close_handler(), ws_error_handler(): the end of a lost connection is
\* seen.  It may overtake the callback of the welcome message.
Lost(k) ==
    /\ links[k].watched /\ ~links[k].alive
    /\ IF k \in sockets THEN WritesMap ELSE up /\ UNCHANGED <<up, bot>>
    /\ sockets' = sockets \ {k}
    /\ links' = Unwatched(k)
    /\ UNCHANGED <<devices, ws_key, drivers, mail>>

\* ws_ping_handler() meets a socket that is closed already: close() runs
\* ws_close_handler(), which erases the element that the range-for is at, so
\* the process may end at the ++.  An open socket gets a ping, no more.
PingCloses(k) ==
    /\ k \in sockets /\ links[k].watched /\ ~links[k].alive
    /\ \/ up /\ up' = FALSE /\ UNCHANGED <<bot, sockets, links>>
       \/ WritesMap /\ sockets' = sockets \ {k} /\ links' = Unwatched(k)
    /\ UNCHANGED <<devices, ws_key, drivers, mail>>

-----------------------------------------------------------------------------
(* The bot thread.                                                         *)

Registered == {d \in Devices : devices[d] # "absent"}
After(d) == {e \in Registered : e > d}

\* The user's command starts a loop over devices_map_.
StartCommand ==
    /\ up /\ ~bot.busy /\ bot.left > 0
    /\ Registered # {}
    /\ \E c \in Commands :
        bot' = [Idle(bot.left - 1) EXCEPT !.busy = TRUE, !.command = c, !.at = Min(Registered)]
    /\ UNCHANGED <<up, web, drivers, mail>>

Tells == bot.busy /\ bot.command # "status"

\* Slip: a socket that was lost but not yet closed counts as none.
HasChannelAlive(d) ==
    ws_key[d] # NoKey /\ <<d, ws_key[d]>> \in sockets /\ links[<<d, ws_key[d]>>].alive
\* sockets_[devices_to_ws_keys[device_id]] is a socket, not a null pointer.
HasChannel(d) == ws_key[d] # NoKey /\ <<d, ws_key[d]>> \in sockets

\* ws_send_command() through a null pointer ends the process.
SendToNobody ==
    /\ up /\ Tells /\ ~HasChannel(bot.at)
    /\ up' = FALSE
    /\ UNCHANGED <<web, bot, drivers, mail>>

\* Slip: the loop goes over the devices that have a key.
NextAtOfKeys ==
    LET rest == {e \in Devices : e > bot.at /\ ws_key[e] # NoKey} IN
    IF rest = {} THEN NoKey ELSE Min(rest)
NextAt == IF After(bot.at) = {} THEN NoKey ELSE Min(After(bot.at))

\* Where the ++ may lead after a map was written under the loop: it may miss
\* devices, or come to one that was erased.
TornNextAts == {e \in Devices : e > bot.at} \cup {NoKey}

\* ++ of the iterator, which may end the process after such a write.
Advance ==
    \/ /\ \E next \in IF bot.torn THEN TornNextAts ELSE {NextAt} :
            bot' = IF next = NoKey THEN Idle(bot.left) ELSE [bot EXCEPT !.at = next]
       /\ UNCHANGED up
    \/ /\ bot.torn
       /\ up' = FALSE
       /\ UNCHANGED bot

\* ws_send_command() to a socket; what is sent to a lost one is lost.
SendCommand ==
    /\ up /\ Tells /\ HasChannel(bot.at)
    /\ LET k == <<bot.at, ws_key[bot.at]>> IN
       mail' = IF links[k].alive THEN [mail EXCEPT ![k] = Append(@, bot.command)] ELSE mail
    /\ Advance
    /\ UNCHANGED <<web, drivers>>

\* cmd_status_process() tells the user about one device.
Report ==
    /\ up /\ bot.busy /\ ~Tells
    /\ Advance
    /\ UNCHANGED <<web, drivers, mail>>

-----------------------------------------------------------------------------
(* The drivers.                                                            *)

StartDriver(d) ==
    /\ At(d, "off") /\ drivers[d].run < MaxRuns[d]
    /\ drivers' = [drivers EXCEPT ![d] = [stage |-> "register", run |-> @.run + 1]]
    /\ UNCHANGED <<up, web, bot, mail>>

Announce(d) ==
    /\ At(d, "announce")
    /\ links' = [links EXCEPT ![Key(d)].uid = TRUE]
    /\ Go(d, "listen")
    /\ UNCHANGED <<up, devices, ws_key, sockets, bot, mail>>

\* readMessage(): the command goes to the serial port or the console; what
\* the driver has no command for, "disabled" of "Shutdown" among them, is
\* answered with 501, a text that the server logs and drops.
Execute(d) ==
    /\ At(d, "listen") /\ mail[Key(d)] # <<>>
    /\ mail' = [mail EXCEPT ![Key(d)] = Tail(@)]
    /\ UNCHANGED <<up, web, bot, drivers>>

\* SIGINT: the handler sends DELETE and then leaves.
Interrupt(d) ==
    /\ drivers[d].stage \in {"register", "connect", "announce", "listen"}
    /\ Go(d, "unregister")
    /\ UNCHANGED <<up, web, bot, mail>>

HangUp(d) ==
    /\ links' = IF drivers[d].run = 0 THEN links ELSE [links EXCEPT ![Key(d)].alive = FALSE]
    /\ mail' = IF drivers[d].run = 0 THEN mail ELSE [mail EXCEPT ![Key(d)] = <<>>]
    /\ Go(d, "off")

Unregister(d) ==
    /\ At(d, "unregister") /\ Delete(d)
    /\ HangUp(d)
    /\ UNCHANGED <<ws_key, sockets>>

\* The driver fails: the serial port throws, the machine stops, the server
\* does not answer.
Fail(d) ==
    /\ ~At(d, "off")
    /\ HangUp(d)
    /\ UNCHANGED <<up, devices, ws_key, sockets, bot>>

WebStep ==
    \/ \E d \in Devices : Register(d) \/ Upgrade(d) \/ PutState(d) \/ OperatorPosts(d) \/ OperatorDeletes(d)
    \/ \E k \in Keys : Welcomed(k) \/ ReadUid(k) \/ Lost(k) \/ PingCloses(k)

BotStep == StartCommand \/ SendToNobody \/ SendCommand \/ Report

DriverStep(d) ==
    StartDriver(d) \/ Announce(d) \/ Execute(d) \/ Interrupt(d) \/ Unregister(d) \/ Fail(d)

Next == WebStep \/ BotStep \/ \E d \in Devices : DriverStep(d)

Spec == Init /\ [][Next]_vars

\* The web thread serves what arrives and a driver goes on until it listens.
Fairness ==
    /\ \A k \in Keys : WF_vars(Welcomed(k)) /\ WF_vars(ReadUid(k))
    /\ \A d \in Devices : WF_vars(Register(d)) /\ WF_vars(Upgrade(d)) /\ WF_vars(Announce(d))

FairSpec == Spec /\ Fairness

-----------------------------------------------------------------------------
(* Properties.                                                             *)

\* In its first run a driver is ready for commands once it listens, the welcome
\* went out and the UID was read.
Ready(d) ==
    LET k == <<d, 1>> IN
    drivers[d].run = 1 /\ At(d, "listen") /\ ~links[k].uid /\ ~links[k].welcome

\* The server ends in a loop over one of its maps only: after a map was written
\* under the bot's loop; in the ping handler, at a socket whose end is yet to be
\* seen; or at a device that no socket of sockets_ belongs to, which is never
\* one whose driver is ready in its first run.  To send to a socket that was
\* lost but not yet erased costs the command, not the server.
DiesInLoop ==
    ~up => \/ bot.torn
           \/ \E k \in sockets : links[k].watched /\ ~links[k].alive
           \/ /\ bot.busy /\ bot.command # "status"
              /\ <<bot.at, ws_key[bot.at]>> \notin sockets
              /\ ~Ready(bot.at)

\* A device that was unregistered keeps its key and its socket, but gets no
\* command of a later broadcast.
OnlyRegisteredCommanded ==
    [][\A k \in Keys : Len(mail'[k]) > Len(mail[k]) => k[1] \in Registered \/ bot.torn]_vars

\* In the first run of a driver commands find its connection once the welcome
\* went out and the UID was read, in whichever order.
FirstRunHasChannel == \A d \in Devices : Ready(d) => HasChannel(d)

\* The same of every run: the UID of the serial driver's device names the
\* machine and the port, whichever run of the driver sends it.
AnnouncedHasChannel ==
    \A d \in Devices :
        up /\ At(d, "listen") /\ ~links[Key(d)].uid /\ ~links[Key(d)].welcome
            => HasChannel(d)

\* A driver that listens is found by commands at last, unless it or the
\* server ends.
ListenerGetsChannel ==
    \A d \in Devices : At(d, "listen") ~> (HasChannel(d) \/ ~At(d, "listen") \/ ~up)
=============================================================================
