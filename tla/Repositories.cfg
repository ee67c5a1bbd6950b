SPECIFICATION Spec
CONSTANTS
  Users = {u1, u2}
  Remotes = {g1}
  RepoIds <- MCRepoIds
  computeStableRepoId <- MCHash
  Content = content
  Custom = custom
  None = None
  NotBuilt = NotBuilt
  Files = {f1}
  Hashes = {hash}
  Handlers = {h1, h2}
  activation = activation
  Callers = {h1, h2, activation}
  MaxRepos = 2
  MaxEnvs = 1
  MaxDisturbances = 1
SYMMETRY Interchangeable
INVARIANTS
  TypeOK
  IndexFindsTracked
  StateIsScoped
  NoCrossUserMigration
PROPERTIES
  ImplementsMap
  AskedOncePerChange
CHECK_DEADLOCK FALSE
