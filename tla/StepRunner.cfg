SPECIFICATION FairSpec
CONSTANTS
  producer = producer
  consumer = consumer
  other = other
  Worker = {producer, consumer, other}
  MaxStep = 3
  Needs <- MCNeeds
  PromptStart = TRUE
INVARIANTS
  EveryWorkerRanEveryStep
  NobodyLeavesEarly
PROPERTIES
  ProposalIsFinal
  ImplementsStepBarrier
  TestEnds
