SPECIFICATION SubjectSpec
CONSTANTS
  Peers = {u1, u2, u3}
  Invites = {i1}
  Credentials = {c1}
  Workspaces = {w1}
  Handlers = {h1, h2}
  Roles <- MCRoles
  None = None
  Starters = {p1, p2}
  MaxStarts = 4
  Occurrences <- MCOccurrences
  NoOccurrence = NoOccurrence
  Horizon = 4
  MaxOutages = 2
SYMMETRY Symmetry
INVARIANTS EnrolledByAdministrator RoleProvenance NextRequestDenied TokenOpens
           AtMostOnce NoOverlap BoundedCatchUp
PROPERTY RevocationSticks
CHECK_DEADLOCK FALSE
