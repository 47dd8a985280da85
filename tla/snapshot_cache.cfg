CONSTANTS
  MaxVersions = 3
  MaxRegistry = 3
  Gone = Gone
  Nothing = Nothing
  Refused = Refused
SPECIFICATION BackendSpec
INVARIANTS CachesAgree CallsSeeTheRegistry
PROPERTIES ImplementsService
