SPECIFICATION MCSpec
CONSTRAINT Bounds
CONSTANTS
  issueAssigned = issueAssigned
  issueStatusChanged = issueStatusChanged
  emailOnAssigned = emailOnAssigned
  emailOnMentioned = emailOnMentioned
  Job = {j1}
  Type = {issueAssigned, issueStatusChanged}
  Pref = {emailOnAssigned, emailOnMentioned}
  Always = Always
  PrefOf <- MCPrefOf
  Toggle = {x1, x2}
  MaxAttempts = 3
  MaxStalls = 1
  MaxMisses = 2
  customer1 = customer1
  subscription1 = subscription1
  Customer = {customer1, customer2}
  Subscription = {subscription1, subscription2}
  Plan = {PRO, BUSINESS}
  Checkout = {k1, k2}
  Delivery = {d1}
  Nothing = Nothing
  MaxEvents = 3
  key1 = key1
  key2 = key2
  key3 = key3
  issue1 = issue1
  issue2 = issue2
  Key = {key1, key2, key3}
  IssueOf <- MCIssueOf
  File = {issue1, issue2}
  Remover = {m1, m2}
  NoKey = NoKey
  SeedCount = 3
  MaxNumber = 6
  Card = {c1, c2, c3}
  Column = {todo, done}
  MaxDigits = 2
  BASE = 4
  MaxLen = 3
  Rank <- MCRank
INVARIANTS
  ServicesTypeOK
  RowsPerRun OneMailUnlessStalled PanelInSync
  RowIsOneEvent ReconciledWithoutRaces OneCustomerInTurn
  RowsHaveObjects OrphansAreExplained
  NextNumberIsFree
  DropsLandWhereReleased
  StrictlyBetween ClosedUnderUse ComputesRankBetween
PROPERTIES MutedMeansSilent JobsEnd Terminates
CHECK_DEADLOCK FALSE
