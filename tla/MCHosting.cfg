SPECIFICATION HostingSpec
CONSTANTS
  Slugs = {s1}
  Repos = {1, 2}
  Branches = {main, dev}
  Commits = {1, 2, 3, 4}
  Processes = {p1, p2}
  MaxCalls = 5
  None = None
  Ids = {1, 2}
  w1 = w1
  w2 = w2
  m1 = m1
  m2 = m2
  Workspaces = {w1, w2}
  a1 = a1
  a2 = a2
  WorkspaceSlugs = {a1, a2, a3}
  FirstSlug <- FirstSlugs
  Members = {m1, m2}
  ProjectSlugs = {sa, sb}
  Heads = {main, dev}
  Revisions = {1, 2}
  Rank <- RankOf
  Threads = {t1, t2}
  MaxRequests = 4
  NoRole = NoRole
  Absent = Absent
SYMMETRY Symmetry
CHECK_DEADLOCK FALSE
INVARIANTS
  RefsResolve RepositoriesAccounted ProposalsInOrder RecordsHold
  GitServesWhatWasAuthorised
PROPERTIES
  BranchesKeepWhatTheyAccept ErasedFromTombstone
