SPECIFICATION Spec
CONSTANTS
  BUFFER_SIZE = 2
  NUM_PRODUCERS = 2
  NUM_CONSUMERS = 2
  ITEMS_TO_PRODUCE = 2
  NUM_PHILOSOPHERS = 3
  TIMES_TO_EAT = 2
  NUM_LOOPS = 2
  NADDERS = 2
  NADDS = 3
INVARIANTS SectionsExclusive DriversWait
PROPERTIES ImplementsBoundedBuffer AllFinish
