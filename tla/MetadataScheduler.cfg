SPECIFICATION FairSpec
CONSTANT MaxRequests = 4
INVARIANTS RefreshNotForgotten
PROPERTIES RequestsAnswered ImplementsPromise
