SPECIFICATION FairSpec
CONSTANTS
  Sub = Sub
  Pub = Pub
  Clients = {Sub, Pub}
  Subscribers = {Sub}
  Requests <- MCRequests
  None = None
  MaxAsked = 3
  MaxFaults = 2
\* The service waits when no user asks and nothing fails any more.
CHECK_DEADLOCK FALSE
INVARIANTS RepliesMatch AnswersExact
PROPERTIES SubscribedAgain InHandIsAnswered
