\* Three messages for a component that may be unregistered at any time.
SPECIFICATION RunnerSpec
CONSTANTS
  Messages = {m1, m2, m3}
INVARIANTS RunnerTypeOK QueueGuarded
PROPERTIES ImplementsQueue QueuedIsTaken
CHECK_DEADLOCK FALSE
