SPECIFICATION FairServerSpec
CONSTANTS
  Handlers = {h1, h2, h3}
  Dispatcher = dispatcher
  NoOne = no_one
  MaxOpenConns = 2
  MaxCommits = 8
  Builds = {{1, 2}, {1, 2, 3}}
INVARIANTS
  ServesItsSchema
PROPERTIES
  ImplementsSerialStore
  ShutdownEnds
