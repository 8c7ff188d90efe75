\* Two calls of init and a sentence, so that the second can meet the server of
\* the first, or one and two sentences;
\* descriptors for the HAL's connection, a host's and two requests.
CONSTANTS
  MaxInits = 2
  MaxSentences = 2
  MaxEvents = 3
  MaxCommands = 2
  MaxFds = 3
SPECIFICATION Spec
INVARIANTS
  FixFromOneSentence
  FrameworkAgrees
PROPERTIES
  NeverBackwards
  SentencesArrive
  CommandsObeyed
CHECK_DEADLOCK FALSE
