SPECIFICATION FairSpec
CONSTANTS
    MaxId = 3
    MaxGen = 2
    MaxClosed = 1
    Questions <- MCQuestions
INVARIANTS
    TypeOK
    AnsweredAtMostOnce
    AnswerGoesToTheAsker
    ResolvedIsAnswered
PROPERTIES
    ClosedIsFinal
    DeferredCloseApplies
