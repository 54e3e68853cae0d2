SPECIFICATION FairSpec
CONSTANTS
  None = None
  Replicas = {r1, r2}
  Stores = {"secret", "fs"}
  MaxCAs = 8
  Names = {"svc", "host"}
  Paths <- MCPaths
  Manifest <- MCManifest
  Handlers <- MCHandlers
  MaxEvents = 2
INVARIANTS TypeOK OnlyStoredCerts TemplateWhole
PROPERTIES KeepCA AgreedStays Agree
