-------------------------- MODULE BotConversation --------------------------
(***************************************************************************)
(* The Telegram side of the robotic arm server: one thread takes updates   *)
(* by long polling and gives each to the onAnyMessage() callback, whose    *)
(* `command` and `waiting_command_param` live from message to message.  A  *)
(* sendMessage() that fails throws through the polling loop and ends the   *)
(* process; Telegram then delivers again what was not confirmed.           *)
(*                                                                         *)
(* A text is reduced to what the callback tells apart.  The callback never *)
(* looks at who wrote it: all chats share one conversation.                *)
(***************************************************************************)
EXTENDS Integers, Sequences, FiniteSets

CONSTANTS
    Buttons,      \* buttons of arm parts that are pressed: <<part, action>>
    MaxMessages,  \* bound on the messages written
    MaxCrashes    \* bound on the ends of the process

ASSUME BotAssumption == MaxMessages \in Nat /\ MaxCrashes \in Nat

\* The buttons that start a move; any other that ends in a part's name, like
\* "Rotate Manipulator", is answered with "Unknown ... command".
Moves ==
    ({"shoulder", "forearm"} \X {"up", "down", "rotate"})
        \cup ({"manipulator"} \X {"up", "down", "open", "close"})

SystemNames == {"reboot", "shutdown", "status"}

\* The words that on_command() is called with.
Words ==
    {"shoulder", "forearm", "manipulator", "up", "down", "rotate", "open", "close"}
        \cup SystemNames

Texts ==
    [kind : {"part"}, button : Buttons]
        \cup [kind : {"system"}, name : SystemNames]
        \cup [kind : {"start", "number", "other"}]

VARIABLES
    running,    \* the process runs
    written,    \* the messages so far; an update's id is its position
    confirmed,  \* updates up to this one are not delivered again
    handled,    \* updates up to this one were given to the callback
    answered,   \* updates whose callback returned
    command,    \* command
    waiting,    \* waiting_command_param
    called,     \* the last call of on_command(): its words and its message
    crashes     \* ends of the process so far

telegram == <<written, confirmed>>
vars == <<running, telegram, handled, answered, command, waiting, called, crashes>>

NoCall == [words |-> <<>>, message |-> 0]

TypeOK ==
    /\ running \in BOOLEAN
    /\ written \in Seq(Texts) /\ Len(written) <= MaxMessages
    /\ confirmed \in 0..handled /\ handled \in 0..Len(written)
    /\ answered \subseteq 1..Len(written)
    /\ command \in Seq(Words)
    /\ waiting \in BOOLEAN
    /\ called \in [words : Seq(Words), message : 0..MaxMessages]
    /\ crashes \in 0..MaxCrashes

Init ==
    /\ running = TRUE
    /\ written = <<>> /\ confirmed = 0
    /\ handled = 0 /\ answered = {}
    /\ command = <<>> /\ waiting = FALSE
    /\ called = NoCall
    /\ crashes = 0

-----------------------------------------------------------------------------
(* The users, Telegram, and whoever restarts the process.                  *)

UserWrites ==
    /\ Len(written) < MaxMessages
    /\ \E t \in Texts : written' = Append(written, t)
    /\ UNCHANGED <<running, confirmed, handled, answered, command, waiting, called, crashes>>

\* Slip: an update is confirmed as soon as it is received.
ConfirmReceived == Len(written)
\* getUpdates() confirms what lies before the offset it asks from.
Confirm == handled

Poll ==
    /\ running
    /\ confirmed' = Confirm
    /\ UNCHANGED <<running, written, handled, answered, command, waiting, called, crashes>>

Restart ==
    /\ ~running
    /\ running' = TRUE
    /\ handled' = confirmed
    /\ command' = <<>> /\ waiting' = FALSE
    /\ UNCHANGED <<telegram, answered, called, crashes>>

-----------------------------------------------------------------------------
(* onAnyMessage().                                                         *)

Text == written[handled + 1]
Receives(kind) == running /\ handled < Len(written) /\ Text.kind = kind

Return ==
    /\ handled' = handled + 1
    /\ answered' = answered \cup {handled + 1}
    /\ UNCHANGED <<running, crashes, telegram>>

\* A sendMessage() throws: the polling loop is left and main() returns.
End ==
    /\ crashes < MaxCrashes
    /\ crashes' = crashes + 1
    /\ running' = FALSE
    /\ UNCHANGED <<telegram, handled, answered>>

\* The first reply to a message fails, whatever the message is.
FirstReplyFails ==
    /\ running /\ handled < Len(written)
    /\ End
    /\ UNCHANGED <<command, waiting, called>>

Start ==
    /\ Receives("start")
    /\ Return
    /\ UNCHANGED <<command, waiting, called>>

\* A button that starts a move: its words go behind what is there.
PartChosen ==
    /\ Receives("part") /\ Text.button \in Moves
    /\ command' = command \o Text.button
    /\ waiting' = TRUE
    /\ Return
    /\ UNCHANGED called

\* Slip: the name of the part stays behind.
AfterUnknownPartKept == Append(command, Text.button[1])
AfterUnknownPart == <<>>

PartUnknown ==
    /\ Receives("part") /\ Text.button \notin Moves
    /\ command' = AfterUnknownPart
    /\ Return
    /\ UNCHANGED <<waiting, called>>

\* Slip: the words outlive the call.
AfterCallKept(words) == words
AfterCall(words) == <<>>

\* on_command() gets the words; the answer to the user may still fail.
Call(words) ==
    /\ called' = [words |-> words, message |-> handled + 1]
    /\ command' = AfterCall(words)
    /\ Return \/ End

\* A system button executes at once, behind the words that wait for a number.
SystemButton ==
    /\ Receives("system")
    /\ Call(Append(command, Text.name))
    /\ UNCHANGED waiting

Angle ==
    /\ Receives("number") /\ waiting
    /\ Call(command)
    /\ waiting' = FALSE

\* std::stoi() throws; the callback catches that.
NoAngle ==
    /\ Receives("other") /\ waiting
    /\ command' = <<>>
    /\ waiting' = FALSE
    /\ Return
    /\ UNCHANGED called

\* No button, and no number is awaited.
Unknown ==
    /\ Receives("number") \/ Receives("other")
    /\ ~waiting
    /\ command' = <<>>
    /\ Return
    /\ UNCHANGED <<waiting, called>>

OnAnyMessage ==
    \/ FirstReplyFails \/ Start \/ PartChosen \/ PartUnknown
    \/ SystemButton \/ Angle \/ NoAngle \/ Unknown

Next == UserWrites \/ Poll \/ Restart \/ OnAnyMessage

Spec == Init /\ [][Next]_vars

-----------------------------------------------------------------------------
(* What on_command() does with the words.                                  *)

\* cmd_*_process() looks at command[0] and command[1] only.
FirstChoice(words) == SubSeq(words, 1, 2)

-----------------------------------------------------------------------------
(* Properties.                                                             *)

\* Between messages the words are whole choices, so command[1], which the
\* handlers of a move read unchecked, exists and fits the part; and words
\* without a number awaited never wait for the next message.
WordsAreChoices ==
    /\ Len(command) % 2 = 0
    /\ \A i \in 1..(Len(command) \div 2) : <<command[2 * i - 1], command[2 * i]>> \in Moves
    /\ running /\ command # <<>> => waiting

\* A number right behind a button moves what that button names, whatever was
\* executed, refused or interrupted before, unless the message before them
\* was a button or /start, which let older words be executed instead.
AnswerMovesChoice ==
    LET i == called.message IN
    /\ i > 1 /\ written[i].kind = "number"
    /\ written[i - 1].kind = "part" /\ written[i - 1].button \in Moves
    /\ i > 2 => written[i - 2].kind \notin {"part", "start"}
    => called.words # <<>> /\ FirstChoice(called.words) = written[i - 1].button

\* Telegram forgets a message only after the callback returned from it: an
\* end of the process loses none.
NothingForgotten == 1..confirmed \subseteq answered
=============================================================================
