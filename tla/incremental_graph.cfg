CONSTANTS
  Ids <- AllIds
  RelIds <- AllRels
  Paths <- MCPaths
  Labels = {"File", "Folder", "Part", "Mark", "Community"}
  Code = {"main", "lib"}
  Docs = {"guide"}
  Dirs = {"src", "deep"}
  Root = Root
  Parent <- MCParent
  PartNames = {"p"}
  RefNames = {"either", "lib", "guide"}
  MarkNames = {"todo"}
  Candidates <- MCCandidates
  PathOrder <- MCPathOrder
  Contents <- MCContents
  NoPart = NoPart
  NoFile = NoFile
  NoNode = NoNode
  NoRel = NoRel
SPECIFICATION IncSpec
INVARIANTS IndexStaysExact OnlyCallersMissing NodesAsAnalyzed RelationshipsSound ParsedTogetherKept ReadTogetherExact
