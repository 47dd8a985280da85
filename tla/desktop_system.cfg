CONSTANTS
  Repos = {r1}
  MaxCommands = 3
  MaxVersion = 2
  Menu = {"list_repos", "open_repo", "analyze_repo", "unregister_repo", "chat_ask", "chat_cancel", "snapshot_create", "snapshot_delete"}
  MaxIterations = 2
  MaxChunks = 2
  MaxSnapshots = 1
  MaxDeaths = 1
  None = None
SPECIFICATION Spec
INVARIANTS ShownIsReloaded CancelStopsSoon HistoryIsNewest
PROPERTIES LoadedOnce EveryCommandEnds
CHECK_DEADLOCK FALSE
