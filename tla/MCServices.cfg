SPECIFICATION MCSpec
CONSTANTS
  Identifiers <- MCIdentifiers
  Window = 2
  MaxRequests = 2
  FallbackLimit = 2
  MaxEntries = 1
  Horizon = 3
  MaxAttempts = 4
  MaxFailures = 1
  Calls <- MCCalls
  Requests <- MCRequests
  OpeningPoints = 200
  OpeningRows = {"home"}
  MinRedeem = 100
  MaxFaults = 1
  Nodes = {"a", "b", "c", "d"}
  Root = "top"
  Editors = {"x", "y", "z"}
  Plans <- MCPlans
  Trees <- MCTrees
  Jobs = {"i", "j", "k"}
  Orders <- MCOrders
  Names = {"oats", "nuts"}
  Labels = {"bulk"}
  Nobody = "nobody"
  MaxProducts = 4
  Stocked <- MCStocked
  MaxErrors = 1
  Abandoned = {"k1", "k2"}
  Mailable = {"k1"}
  Passes = {1, 2, 3}
  MaxSlips = 1
  Clerks = {"p", "q", "r"}
  Codes = {"OLD", "NEW"}
  Absent = Absent
  Proposals <- MCProposals
  Printed <- MCPrinted
INVARIANTS
  TypeOK
  RateBounded
  PointsAddUp
  OneDefaultAddress
  RemindedOnce
  CouponsSound
PROPERTIES
  MovesDecided
  BulkAsOne
CHECK_DEADLOCK FALSE
