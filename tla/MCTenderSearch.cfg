SPECIFICATION Spec
CONSTANTS
  Statuses = {"open", "closed"}
  Sources = {"ted", "placsp"}
  Countries = {"ES"}
  Open = "open"
  Texts <- MCTexts
  Lower <- MCLower
  Fold <- MCLower
  Blank = ""
  Like <- MCLike
  Part <- MCPart
  Wild = {}
  Alnum = {0, 1, 2, 3, 4, 5, 6, 7, 8, 9}
  Chars = {0, 1, 2, 3, 4, 5, 6, 7, 8, 9, 36}
  MaxLimit = 2
  MaxOffset = 2
  DayLength = 10
  Ahead = 0
  None = None
  Unreadable = Unreadable
  HomeCountry = "ES"
  TedCountries = {"ES"}
  TedMaxPage = 1
  Ids = {1, 2, 3}
  Rows <- MCRows
  Stores <- MCStores
  Snapshots <- MCSnapshots
  Feeds <- MCFeeds
  Indexes <- MCIndexes
  Configs <- MCConfigs
  Calls <- MCCalls
  Finds <- MCFinds
  Naming = {"norte"}
  Relevance <- MCRelevance
  Distance <- MCDistance
  CandidateMin = 1
  CandidateMultiplier = 1
  CandidateMax = 4
  FacetWindow = 2
  RecentMax = 2
  RrfK = 60
  Now = 5
  MaxWrites = 1
INVARIANTS
  PagesAreSlices
  ResultsFit
  HybridIsFused
  FacetsLeadSomewhere
  FetchIsWhole
PROPERTY SearchesEnd
