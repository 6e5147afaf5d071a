SPECIFICATION SourcesSpec

CONSTANTS
  Remote = remote
  Iterators <- MCIterators
  MaxStreams = 3
  MaxSkip = 3

INVARIANTS
  AnswersAsTrait
  HandedOutOnce
