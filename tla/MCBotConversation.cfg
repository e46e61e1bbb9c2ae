CONSTANTS
    Buttons <- MCButtons
    MaxMessages = 4
    MaxCrashes = 1
SPECIFICATION Spec
INVARIANTS
    TypeOK
    WordsAreChoices
    AnswerMovesChoice
    NothingForgotten
CHECK_DEADLOCK FALSE
