----------------------- MODULE BotConversationProofs -----------------------
(***************************************************************************)
(* Proofs about BotConversation for any buttons, any number of messages    *)
(* and any number of ends of the process.                                  *)
(***************************************************************************)
EXTENDS BotConversation, SequenceTheorems, TLAPS

\* What is before the message to come is answered, as far as the process knows.
HandledIsAnswered == 1..handled \subseteq answered

IsMove(text) == text.kind = "part" /\ text.button \in Moves
LeavesWords(text) == text.kind \in {"part", "start"}

\* No words are left behind any other message than a button or /start.
WordsOfButtons ==
    running /\ command # <<>> => handled > 0 /\ LeavesWords(written[handled])

\* Behind the button of a move that found no words these are its words, unless
\* the process was started again and awaits no number.
WordsOfLastButton ==
    /\ running /\ waiting /\ handled > 0 /\ IsMove(written[handled])
    /\ handled > 1 => ~LeavesWords(written[handled - 1])
    => command = written[handled].button

\* The inductive invariant.
IInv ==
    /\ TypeOK
    /\ WordsAreChoices
    /\ HandledIsAnswered
    /\ WordsOfButtons /\ WordsOfLastButton
    /\ called.message <= Len(written)
    /\ AnswerMovesChoice

-----------------------------------------------------------------------------
(* Words and choices.                                                      *)

LEMMA PairIsSequence ==
    ASSUME NEW S, NEW x \in S, NEW y \in S
    PROVE  <<x, y>> \in Seq(S) /\ Len(<<x, y>>) = 2
OBVIOUS

\* The button of a move is two words.
LEMMA MoveIsTwoWords ==
    ASSUME NEW b \in Moves
    PROVE  b \in Seq(Words) /\ Len(b) = 2 /\ b = <<b[1], b[2]>>
<1> DEFINE Arm == {"shoulder", "forearm"} \X {"up", "down", "rotate"}
           Hand == {"manipulator"} \X {"up", "down", "open", "close"}
<1>1. \E x \in Words, y \in Words : b = <<x, y>>
  <2>1. ASSUME b \in Arm PROVE \E x \in Words, y \in Words : b = <<x, y>>
    <3>1. \E x \in {"shoulder", "forearm"}, y \in {"up", "down", "rotate"} : b = <<x, y>>
      BY <2>1
    <3>2. {"shoulder", "forearm"} \subseteq Words /\ {"up", "down", "rotate"} \subseteq Words
      BY DEF Words
    <3> QED
      BY <3>1, <3>2
  <2>2. ASSUME b \in Hand PROVE \E x \in Words, y \in Words : b = <<x, y>>
    <3>1. \E x \in {"manipulator"}, y \in {"up", "down", "open", "close"} : b = <<x, y>>
      BY <2>2
    <3>2. {"manipulator"} \subseteq Words /\ {"up", "down", "open", "close"} \subseteq Words
      BY DEF Words
    <3> QED
      BY <3>1, <3>2
  <2>3. b \in Arm \/ b \in Hand
    BY DEF Moves
  <2> QED
    BY <2>1, <2>2, <2>3, Zenon
<1>2. \A x \in Words, y \in Words : <<x, y>> \in Seq(Words) /\ Len(<<x, y>>) = 2
  BY PairIsSequence
<1>3. PICK x \in Words, y \in Words : b = <<x, y>>
  BY <1>1
<1>4. b[1] = x /\ b[2] = y
  BY <1>3
<1> QED
  BY <1>2, <1>3, <1>4

\* Looking at the first two words of a choice gives the choice.
LEMMA FirstOfMove ==
    ASSUME NEW b \in Moves
    PROVE  b # <<>> /\ FirstChoice(b) = b
<1>1. b \in Seq(Words) /\ Len(b) = 2
  BY MoveIsTwoWords
<1>2. b # <<>>
  BY <1>1, EmptySeq
<1>3. SubSeq(b, 1, Len(b)) = b
  BY <1>1, SubSeqFull
<1> QED
  BY <1>1, <1>2, <1>3 DEF FirstChoice

\* Words that are whole choices, positions and all.
Choices(words) ==
    /\ Len(words) % 2 = 0
    /\ \A i \in 1..(Len(words) \div 2) : <<words[2 * i - 1], words[2 * i]>> \in Moves

LEMMA NoWordsAreChoices == Choices(<<>>)
BY EmptySeq DEF Choices

\* One more choice behind whole choices.
LEMMA ChoiceBehindChoices ==
    ASSUME NEW words \in Seq(Words), Choices(words), NEW b \in Moves
    PROVE  words \o b \in Seq(Words) /\ words \o b # <<>> /\ Choices(words \o b)
<1>1. b \in Seq(Words) /\ Len(b) = 2 /\ b = <<b[1], b[2]>>
  BY MoveIsTwoWords
<1>2. /\ words \o b \in Seq(Words) /\ Len(words \o b) = Len(words) + 2
      /\ \A i \in 1..(Len(words) + 2) :
            (words \o b)[i] = IF i <= Len(words) THEN words[i] ELSE b[i - Len(words)]
  <2>1. /\ words \o b \in Seq(Words) /\ Len(words \o b) = Len(words) + Len(b)
        /\ \A i \in 1..(Len(words) + Len(b)) :
              (words \o b)[i] = IF i <= Len(words) THEN words[i] ELSE b[i - Len(words)]
    BY <1>1, ConcatProperties, Zenon
  <2> QED
    BY <1>1, <2>1
<1>3. Len(words) \in Nat /\ Len(words) % 2 = 0
  BY LenProperties DEF Choices
<1>4. PICK m \in Nat : Len(words) = 2 * m
  <2>1. Len(words) \div 2 \in Nat /\ Len(words) = 2 * (Len(words) \div 2)
    BY <1>3
  <2> QED
    BY <2>1
<1>5. Len(words) \div 2 = m /\ (Len(words) + 2) \div 2 = m + 1 /\ (Len(words) + 2) % 2 = 0
  BY <1>4
<1>6. ASSUME NEW i \in 1..(m + 1)
      PROVE  <<(words \o b)[2 * i - 1], (words \o b)[2 * i]>> \in Moves
  <2>1. CASE i \in 1..m
    <3>1. 2 * i - 1 \in 1..Len(words) /\ 2 * i \in 1..Len(words)
      BY <1>4, <2>1
    <3>2. (words \o b)[2 * i - 1] = words[2 * i - 1] /\ (words \o b)[2 * i] = words[2 * i]
      BY <1>2, <1>3, <3>1
    <3> QED
      BY <1>5, <2>1, <3>2 DEF Choices
  <2>2. CASE i = m + 1
    <3>1. (words \o b)[2 * i - 1] = b[1] /\ (words \o b)[2 * i] = b[2]
      <4>1. 2 * i - 1 = Len(words) + 1 /\ 2 * i = Len(words) + 2
        BY <1>4, <2>2
      <4> QED
        BY <1>2, <1>3, <4>1
    <3> QED
      BY <1>1, <3>1
  <2>3. i \in 1..m \/ i = m + 1
    OBVIOUS
  <2> QED
    BY <2>1, <2>2, <2>3, Zenon
<1>7. words \o b # <<>>
  BY <1>2, <1>3, EmptySeq
<1> QED
  BY <1>2, <1>5, <1>6, <1>7 DEF Choices

-----------------------------------------------------------------------------
(* The types.                                                              *)

LEMMA InitTyped == Init => TypeOK
<1> SUFFICES ASSUME Init PROVE TypeOK
  OBVIOUS
<1>1. written \in Seq(Texts) /\ Len(written) = 0
  BY EmptySeq DEF Init
<1>2. command \in Seq(Words) /\ called \in [words : Seq(Words), message : 0..MaxMessages]
  BY EmptySeq, BotAssumption DEF Init, NoCall
<1>3. confirmed \in 0..handled /\ handled \in 0..Len(written) /\ crashes \in 0..MaxCrashes
  BY <1>1, BotAssumption DEF Init
<1>4. running \in BOOLEAN /\ waiting \in BOOLEAN /\ answered = {}
  BY DEF Init
<1>5. Len(written) <= MaxMessages
  BY <1>1, BotAssumption
<1> QED
  BY <1>1, <1>2, <1>3, <1>4, <1>5 DEF TypeOK

\* The message that the callback is given.
LEMMA TextIsWritten ==
    ASSUME TypeOK, handled < Len(written)
    PROVE  /\ Text \in Texts
           /\ handled \in Nat /\ confirmed \in Nat
           /\ handled + 1 \in 1..Len(written) /\ handled + 1 \in 1..MaxMessages
<1>1. written \in Seq(Texts) /\ Len(written) \in Nat /\ Len(written) <= MaxMessages
      /\ confirmed \in Nat /\ handled \in Nat
  <2>1. written \in Seq(Texts)
    BY DEF TypeOK
  <2>2. Len(written) \in Nat
    BY <2>1, LenProperties
  <2> QED
    BY <2>1, <2>2 DEF TypeOK
<1>2. handled + 1 \in 1..Len(written)
  BY <1>1
<1> QED
  BY <1>1, <1>2, BotAssumption, ElementOfSeq DEF Text

\* A button of a move and the name of a system button are words.
LEMMA TextWords ==
    ASSUME TypeOK, handled < Len(written)
    PROVE  Text.kind = "system" => Text.name \in Words
<1>1. Text \in Texts
  BY TextIsWritten
<1> QED
  BY <1>1 DEF Texts, Words

\* Returning from the callback, or leaving it, keeps the types of the updates.
LEMMA ReturnTyped ==
    ASSUME TypeOK, handled < Len(written), Return \/ End,
           command' \in Seq(Words), waiting' \in BOOLEAN,
           called' \in [words : Seq(Words), message : 0..MaxMessages]
    PROVE  TypeOK'
<1>1. /\ handled \in Nat /\ confirmed \in Nat
      /\ handled + 1 \in 1..Len(written) /\ written \in Seq(Texts) /\ Len(written) \in Nat
  BY TextIsWritten, LenProperties DEF TypeOK
<1>2. CASE Return
  <2>1. UNCHANGED <<running, crashes, written, confirmed>>
    BY <1>2 DEF Return, telegram
  <2>2. handled' = handled + 1 /\ answered' = answered \cup {handled + 1}
    BY <1>2 DEF Return
  <2>3. confirmed' \in 0..handled' /\ handled' \in 0..Len(written')
    BY <1>1, <2>1, <2>2 DEF TypeOK
  <2>4. answered' \subseteq 1..Len(written')
    BY <1>1, <2>1, <2>2 DEF TypeOK
  <2> QED
    BY <2>1, <2>3, <2>4 DEF TypeOK
<1>3. CASE End
  <2>1. UNCHANGED <<written, confirmed, handled, answered>> /\ running' = FALSE
    BY <1>3 DEF End, telegram
  <2>2. crashes' \in 0..MaxCrashes
    BY <1>3, BotAssumption DEF End, TypeOK
  <2> QED
    BY <2>1, <2>2 DEF TypeOK
<1> QED
  BY <1>2, <1>3

LEMMA NextTyped == TypeOK /\ [Next]_vars => TypeOK'
<1> SUFFICES ASSUME TypeOK, [Next]_vars PROVE TypeOK'
  OBVIOUS
<1>a. /\ command \in Seq(Words) /\ waiting \in BOOLEAN /\ <<>> \in Seq(Words)
      /\ called \in [words : Seq(Words), message : 0..MaxMessages]
  BY EmptySeq DEF TypeOK
<1>1. CASE UserWrites
  <2>1. PICK t \in Texts : written' = Append(written, t)
    BY <1>1 DEF UserWrites
  <2>2. /\ written \in Seq(Texts) /\ Len(written) \in Nat
        /\ written' \in Seq(Texts) /\ Len(written') = Len(written) + 1
    BY <2>1, AppendProperties, LenProperties DEF TypeOK
  <2>3. Len(written') <= MaxMessages
    BY <1>1, <2>2, BotAssumption DEF UserWrites
  <2>4. UNCHANGED <<running, confirmed, handled, answered, command, waiting, called, crashes>>
    BY <1>1 DEF UserWrites
  <2>5. handled' \in 0..Len(written') /\ confirmed' \in 0..handled'
        /\ answered' \subseteq 1..Len(written')
    BY <2>2, <2>4 DEF TypeOK
  <2> QED
    BY <2>2, <2>3, <2>4, <2>5 DEF TypeOK
<1>2. CASE Poll
  <2>1. confirmed' = handled
        /\ UNCHANGED <<running, written, handled, answered, command, waiting, called, crashes>>
    BY <1>2 DEF Poll, Confirm
  <2>2. handled \in Nat
    BY LenProperties DEF TypeOK
  <2>3. confirmed' \in 0..handled'
    BY <2>1, <2>2
  <2> QED
    BY <2>1, <2>3 DEF TypeOK
<1>3. CASE Restart
  <2>1. running' = TRUE /\ handled' = confirmed /\ command' = <<>> /\ waiting' = FALSE
        /\ UNCHANGED <<written, confirmed, answered, called, crashes>>
    BY <1>3 DEF Restart, telegram
  <2>2. confirmed \in Nat /\ Len(written) \in Nat /\ confirmed <= Len(written)
    BY LenProperties DEF TypeOK
  <2>3. confirmed' \in 0..handled' /\ handled' \in 0..Len(written')
    BY <2>1, <2>2
  <2> QED
    BY <1>a, <2>1, <2>3 DEF TypeOK
<1>4. CASE FirstReplyFails
  BY <1>4, <1>a, ReturnTyped DEF FirstReplyFails
<1>5. CASE Start
  BY <1>5, <1>a, ReturnTyped DEF Start, Receives
<1>6. CASE PartChosen
  <2>1. command \o Text.button \in Seq(Words)
    <3>1. Text.button \in Seq(Words)
      BY <1>6, MoveIsTwoWords DEF PartChosen
    <3> QED
      BY <3>1, <1>a, ConcatProperties
  <2> QED
    BY <1>6, <1>a, <2>1, ReturnTyped DEF PartChosen, Receives
<1>7. CASE PartUnknown
  BY <1>7, <1>a, ReturnTyped DEF PartUnknown, Receives, AfterUnknownPart
<1>8. ASSUME NEW words \in Seq(Words), handled < Len(written), Call(words),
             waiting' \in BOOLEAN
      PROVE  TypeOK'
  <2>1. handled + 1 \in 0..MaxMessages
    BY <1>8, TextIsWritten, BotAssumption
  <2>2. called' \in [words : Seq(Words), message : 0..MaxMessages]
    BY <1>8, <2>1 DEF Call
  <2> QED
    BY <1>8, <1>a, <2>2, ReturnTyped DEF Call, AfterCall
<1>9. CASE SystemButton
  <2>1. handled < Len(written) /\ Text.kind = "system"
    BY <1>9 DEF SystemButton, Receives
  <2>2. PICK words \in Seq(Words) : words = Append(command, Text.name)
    BY <1>a, <2>1, TextWords, AppendProperties
  <2> QED
    BY <1>8, <1>9, <1>a, <2>1, <2>2 DEF SystemButton
<1>10. CASE Angle
  <2>1. PICK words \in Seq(Words) : words = command
    BY <1>a
  <2> QED
    BY <1>8, <1>10, <2>1 DEF Angle, Receives
<1>11. CASE NoAngle
  BY <1>11, <1>a, ReturnTyped DEF NoAngle, Receives
<1>12. CASE Unknown
  BY <1>12, <1>a, ReturnTyped DEF Unknown, Receives
<1>13. CASE UNCHANGED vars
  BY <1>13 DEF vars, telegram, TypeOK
<1> QED
  BY <1>1, <1>2, <1>3, <1>4, <1>5, <1>6, <1>7, <1>9, <1>10, <1>11, <1>12, <1>13
     DEF Next, OnAnyMessage

\* The updates, the words and what on_command() was called with keep their
\* types; no update is confirmed that was not given to the callback.
THEOREM TypeCorrect == Spec => []TypeOK
BY InitTyped, NextTyped, PTL DEF Spec

-----------------------------------------------------------------------------
(* The invariant.                                                          *)

LEMMA InitInvariant == Init => IInv
<1> SUFFICES ASSUME Init PROVE IInv
  OBVIOUS
<1>1. TypeOK /\ Choices(command) /\ command = <<>> /\ called.message = 0 /\ handled = 0
  BY InitTyped, NoWordsAreChoices DEF Init, NoCall
<1>2. Len(written) \in Nat
  BY <1>1, LenProperties DEF TypeOK
<1>3. WordsAreChoices
  BY <1>1 DEF WordsAreChoices, Choices
<1>4. HandledIsAnswered
  BY <1>1 DEF HandledIsAnswered
<1> QED
  BY <1>1, <1>2, <1>3, <1>4 DEF IInv, WordsOfButtons, WordsOfLastButton, AnswerMovesChoice

\* A number that is answered moves what its button named.
LEMMA CalledStep ==
    ASSUME IInv, TypeOK', running, handled < Len(written), written' = written,
           \/ called' = called
           \/ /\ called'.message = handled + 1
              /\ Text.kind = "number" => waiting /\ called'.words = command
    PROVE  AnswerMovesChoice' /\ called'.message <= Len(written')
<1>1. TypeOK /\ handled \in Nat /\ handled + 1 \in 1..Len(written)
  BY TextIsWritten DEF IInv
<1>2. CASE called' = called
  BY <1>2 DEF IInv, AnswerMovesChoice
<1>3. CASE /\ called'.message = handled + 1
           /\ Text.kind = "number" => waiting /\ called'.words = command
  <2>1. called'.message <= Len(written')
    BY <1>1, <1>3
  <2>2. SUFFICES ASSUME /\ handled + 1 > 1 /\ written[handled + 1].kind = "number"
                        /\ written[handled].kind = "part"
                        /\ written[handled].button \in Moves
                        /\ handled + 1 > 2 => written[handled - 1].kind \notin {"part", "start"}
                 PROVE  /\ called'.words # <<>>
                        /\ FirstChoice(called'.words) = written[handled].button
    <3>1. handled + 1 - 1 = handled /\ handled + 1 - 2 = handled - 1
      BY <1>1
    <3> QED
      BY <1>1, <1>3, <2>1, <3>1 DEF AnswerMovesChoice
  <2>3. waiting /\ called'.words = command
    BY <1>3, <2>2 DEF Text
  <2>4. handled > 0 /\ (handled > 1 => ~LeavesWords(written[handled - 1]))
    BY <1>1, <2>2 DEF LeavesWords
  <2>5. command = written[handled].button
    BY <2>2, <2>3, <2>4 DEF IInv, WordsOfLastButton, IsMove
  <2> QED
    BY <2>2, <2>3, <2>5, FirstOfMove
<1> QED
  BY <1>2, <1>3

\* The callback returns: what it has to leave behind for the next message.
LEMMA ReturnStep ==
    ASSUME IInv, TypeOK', running, handled < Len(written), Return,
           Choices(command'),
           command' # <<>> => waiting' /\ LeavesWords(Text),
           /\ IsMove(Text) /\ waiting'
           /\ handled > 0 => ~LeavesWords(written[handled])
           => command' = Text.button,
           \/ called' = called
           \/ /\ called'.message = handled + 1
              /\ Text.kind = "number" => waiting /\ called'.words = command
    PROVE  IInv'
<1>1. /\ handled \in Nat /\ handled' = handled + 1 /\ answered' = answered \cup {handled + 1}
      /\ UNCHANGED <<running, written, confirmed>>
  BY TextIsWritten DEF IInv, Return, telegram
<1>2. WordsAreChoices'
  BY DEF WordsAreChoices, Choices
<1>3. HandledIsAnswered'
  <2>1. 1..(handled + 1) = 1..handled \cup {handled + 1}
    BY <1>1
  <2> QED
    BY <1>1, <2>1 DEF IInv, HandledIsAnswered
<1>4. written'[handled'] = Text /\ handled' > 0 /\ handled' - 1 = handled
      /\ (handled' > 1 <=> handled > 0)
  BY <1>1 DEF Text
<1>5. WordsOfButtons'
  BY <1>4 DEF WordsOfButtons, LeavesWords
<1>6. WordsOfLastButton'
  BY <1>1, <1>4 DEF WordsOfLastButton, LeavesWords, IsMove
<1>7. AnswerMovesChoice' /\ called'.message <= Len(written')
  BY <1>1, CalledStep
<1> QED
  BY <1>2, <1>3, <1>5, <1>6, <1>7 DEF IInv

\* A sendMessage() throws out of the callback.
LEMMA EndStep ==
    ASSUME IInv, TypeOK', running, handled < Len(written), End,
           Choices(command'),
           \/ called' = called
           \/ /\ called'.message = handled + 1
              /\ Text.kind = "number" => waiting /\ called'.words = command
    PROVE  IInv'
<1>1. running' = FALSE /\ UNCHANGED <<written, handled, answered>>
  BY DEF End, telegram
<1>2. AnswerMovesChoice' /\ called'.message <= Len(written')
  BY <1>1, CalledStep
<1>3. WordsAreChoices' /\ HandledIsAnswered' /\ WordsOfButtons' /\ WordsOfLastButton'
  BY <1>1 DEF IInv, WordsAreChoices, Choices, HandledIsAnswered, WordsOfButtons,
              WordsOfLastButton
<1> QED
  BY <1>2, <1>3 DEF IInv

LEMMA NextInvariant == IInv /\ [Next]_vars => IInv'
<1> SUFFICES ASSUME IInv, [Next]_vars PROVE IInv'
  OBVIOUS
<1>a. TypeOK /\ TypeOK' /\ Choices(command) /\ command \in Seq(Words)
      /\ (running /\ command # <<>> => waiting)
  BY NextTyped DEF IInv, WordsAreChoices, Choices, TypeOK
<1>b. handled \in Nat /\ Len(written) \in Nat /\ handled <= Len(written)
  BY <1>a, LenProperties DEF TypeOK
<1>1. CASE UserWrites
  <2>1. PICK t \in Texts : written' = Append(written, t)
    BY <1>1 DEF UserWrites
  <2>2. UNCHANGED <<running, confirmed, handled, answered, command, waiting, called, crashes>>
    BY <1>1 DEF UserWrites
  <2>3. Len(written') = Len(written) + 1 /\ \A k \in 1..Len(written) : written'[k] = written[k]
    BY <1>a, <2>1, AppendProperties DEF TypeOK
  <2>4. WordsAreChoices' /\ HandledIsAnswered'
    BY <2>2 DEF IInv, WordsAreChoices, HandledIsAnswered
  <2>5. /\ handled > 0 => written'[handled] = written[handled]
        /\ handled > 1 => written'[handled - 1] = written[handled - 1]
    BY <1>b, <2>3
  <2>6. WordsOfButtons' /\ WordsOfLastButton'
    BY <2>2, <2>5 DEF IInv, WordsOfButtons, WordsOfLastButton, LeavesWords, IsMove
  <2>7. called.message \in Nat /\ called.message <= Len(written)
    BY <1>a, BotAssumption DEF IInv, TypeOK
  <2>8. called'.message <= Len(written')
    BY <1>b, <2>2, <2>3, <2>7
  <2>9. AnswerMovesChoice'
    <3> DEFINE i == called.message
    <3>1. i > 1 => written'[i] = written[i] /\ written'[i - 1] = written[i - 1]
      BY <1>b, <2>3, <2>7
    <3>2. i > 2 => written'[i - 2] = written[i - 2]
      BY <1>b, <2>3, <2>7
    <3>3. AnswerMovesChoice /\ called' = called
      BY <2>2 DEF IInv
    <3> QED
      BY <3>1, <3>2, <3>3, Zenon DEF AnswerMovesChoice
  <2> QED
    BY <1>a, <2>4, <2>6, <2>8, <2>9 DEF IInv
<1>2. CASE Poll
  BY <1>a, <1>2 DEF Poll, IInv, WordsAreChoices, HandledIsAnswered, WordsOfButtons,
     WordsOfLastButton, AnswerMovesChoice
<1>3. CASE Restart
  <2>1. running' = TRUE /\ handled' = confirmed /\ command' = <<>> /\ waiting' = FALSE
        /\ UNCHANGED <<written, confirmed, answered, called, crashes>>
    BY <1>3 DEF Restart, telegram
  <2>2. 1..confirmed \subseteq 1..handled
    BY <1>a, <1>b DEF TypeOK
  <2>3. HandledIsAnswered'
    BY <2>1, <2>2 DEF IInv, HandledIsAnswered
  <2>4. WordsAreChoices'
    BY <2>1, NoWordsAreChoices DEF WordsAreChoices, Choices
  <2>5. WordsOfButtons' /\ WordsOfLastButton'
    BY <2>1 DEF WordsOfButtons, WordsOfLastButton
  <2>6. AnswerMovesChoice' /\ called'.message <= Len(written')
    BY <2>1 DEF IInv, AnswerMovesChoice
  <2> QED
    BY <1>a, <2>3, <2>4, <2>5, <2>6 DEF IInv
<1>4. CASE FirstReplyFails
  BY <1>4, <1>a, EndStep DEF FirstReplyFails
<1>5. CASE Start
  <2>1. LeavesWords(Text) /\ ~IsMove(Text)
    BY <1>5 DEF Start, Receives, LeavesWords, IsMove
  <2> QED
    BY <1>5, <1>a, <2>1, ReturnStep DEF Start, Receives
<1>6. CASE PartChosen
  <2>1. /\ running /\ handled < Len(written) /\ Text.button \in Moves /\ LeavesWords(Text)
        /\ command' = command \o Text.button /\ waiting' = TRUE /\ Return /\ called' = called
    BY <1>6 DEF PartChosen, Receives, LeavesWords
  <2>2. Choices(command')
    BY <1>a, <2>1, ChoiceBehindChoices
  <2>3. ASSUME handled > 0 => ~LeavesWords(written[handled])
        PROVE  command' = Text.button
    <3>1. command = <<>>
      BY <2>1, <2>3 DEF IInv, WordsOfButtons
    <3> QED
      BY <2>1, <3>1, MoveIsTwoWords, ConcatEmptySeq
  <2> QED
    BY <1>a, <2>1, <2>2, <2>3, ReturnStep
<1>7. CASE PartUnknown
  <2>1. ~IsMove(Text)
    BY <1>7 DEF PartUnknown, IsMove
  <2> QED
    BY <1>7, <1>a, <2>1, NoWordsAreChoices, ReturnStep
       DEF PartUnknown, Receives, AfterUnknownPart
<1>8. CASE SystemButton
  <2>1. /\ running /\ handled < Len(written) /\ Text.kind = "system"
        /\ command' = <<>> /\ (Return \/ End) /\ called'.message = handled + 1
    BY <1>8 DEF SystemButton, Receives, Call, AfterCall
  <2>2. Text.kind # "number" /\ ~IsMove(Text)
    BY <2>1 DEF IsMove
  <2> QED
    BY <1>a, <2>1, <2>2, NoWordsAreChoices, ReturnStep, EndStep
<1>9. CASE Angle
  <2>1. /\ running /\ handled < Len(written) /\ Text.kind = "number" /\ waiting
        /\ command' = <<>> /\ (Return \/ End)
        /\ called'.message = handled + 1 /\ called'.words = command
    BY <1>9 DEF Angle, Receives, Call, AfterCall
  <2>2. ~IsMove(Text)
    BY <2>1 DEF IsMove
  <2> QED
    BY <1>a, <2>1, <2>2, NoWordsAreChoices, ReturnStep, EndStep
<1>10. CASE NoAngle \/ Unknown
  <2>1. /\ running /\ handled < Len(written) /\ Text.kind \in {"number", "other"}
        /\ command' = <<>> /\ Return /\ called' = called
    BY <1>10 DEF NoAngle, Unknown, Receives
  <2>2. ~IsMove(Text)
    BY <2>1 DEF IsMove
  <2> QED
    BY <1>a, <2>1, <2>2, NoWordsAreChoices, ReturnStep
<1>11. CASE UNCHANGED vars
  BY <1>a, <1>11 DEF vars, telegram, IInv, WordsAreChoices, HandledIsAnswered,
     WordsOfButtons, WordsOfLastButton, AnswerMovesChoice
<1> QED
  BY <1>1, <1>2, <1>3, <1>4, <1>5, <1>6, <1>7, <1>8, <1>9, <1>10, <1>11
     DEF Next, OnAnyMessage

LEMMA Invariant == Spec => []IInv
BY InitInvariant, NextInvariant, PTL DEF Spec

-----------------------------------------------------------------------------
(* The theorems.                                                           *)

\* Between messages the words are whole choices: command[1] exists where
\* command[0] does, and no words wait without a number awaited.
THEOREM WordsCorrect == Spec => []WordsAreChoices
<1>1. IInv => WordsAreChoices
  BY DEF IInv
<1> QED
  BY <1>1, Invariant, PTL

\* A number behind a button moves what that button names, whatever came
\* before them, was refused or was interrupted.
THEOREM AnswerCorrect == Spec => []AnswerMovesChoice
<1>1. IInv => AnswerMovesChoice
  BY DEF IInv
<1> QED
  BY <1>1, Invariant, PTL

\* Telegram forgets no message whose callback did not return, however often
\* the process ends.
THEOREM NothingLost == Spec => []NothingForgotten
<1>1. IInv => NothingForgotten
  <2> SUFFICES ASSUME IInv PROVE NothingForgotten
    OBVIOUS
  <2>1. handled \in Nat /\ confirmed \in 0..handled
    BY LenProperties DEF IInv, TypeOK
  <2>2. 1..confirmed \subseteq 1..handled
    BY <2>1
  <2> QED
    BY <2>2 DEF IInv, HandledIsAnswered, NothingForgotten
<1> QED
  BY <1>1, Invariant, PTL
=============================================================================
