\* Every graph of up to three matches and Q-values, two edges, two Q-values and
\* one of noise, a second edge being cut and a second card folded; the requests
\* page on two runs of up to three requests, with two choices, and the figures of
\* every run of three, or of two where engine and proxy differ; one run asked for
\* with up to three edits, over up to three endpoint rows; every two schemas.
SPECIFICATION MCSpec
CONSTANTS
  Nodes <- MCNodes
  StaticPairs <- MCStaticPairs
  LearnedPairs <- MCLearnedPairs
  Matches <- MCMatches
  Entries <- MCEntries
  MaxShown = 1
  QEpsilon = 2
  Null = Null
  MaxEdges = 2
  MaxItems = 3
  MaxLearned = 2
  MaxSide = 1
  Endpoints = {"a", "b"}
  Requests <- MCRequests
  PageSize = 2
  MaxRequests = 3
  MaxRuns = 2
  Scopes <- MCScopes
  MaxApart = 1
  Browsed <- MCBrowsed
  Filters <- MCFilters
  MaxChoices = 2
  None = None
  Operations <- MCOperations
  Documents <- MCDocuments
  Presets <- MCPresets
  Tokens = {"k1", "k2", "k3"}
  Typed = {"k1", "not a token"}
  Values = {"v1", Blank}
  MAX_HEADERS = 2
  MAX_EXCLUDED = 2
  Urls = {"u"}
  Budgets = {300, 3601}
  Blank = Blank
  Nothing = Nothing
  MaxIds = 3
  MaxEdits = 3
  Names = {"A", "B"}
  Properties = {"x", "y"}
  Schemas <- MCSchemas
  Bodies <- MCBodies
  ParamLists <- MCParamLists
  Securities <- MCSecurities
  Absent = Absent
  MAX_SCHEMA_DEPTH = 3
INVARIANTS MergeFollowsEvidence GraphAndViewAreSoundHere RequestsPageIsSound RunFiguresAgree RunsAreAsAsked DetailsAreTheDocuments
CHECK_DEADLOCK FALSE
