SPECIFICATION FairSpec
CONSTANTS
  producer = producer
  consumer = consumer
  other = other
  Worker = {producer, consumer}
  MaxStep = 2
  Needs <- MCNeeds
  PromptStart = FALSE
PROPERTY DoStepReturns
CHECK_DEADLOCK FALSE
