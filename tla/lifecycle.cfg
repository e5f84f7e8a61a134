SPECIFICATION Spec
CONSTANTS
  HttpThreads = {h1, h2, h3}
INVARIANTS TypeOK RequestsFindTheService
PROPERTIES NothingIsCreatedAfterwards TerminationIsHeard
