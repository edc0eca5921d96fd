SPECIFICATION MCSpec
CONSTANTS
  t1 = t1
  t2 = t2
  e1 = e1
  clawback = clawback
  bonus = bonus
  h1 = h1
  h2 = h2
  c1 = c1
  c2 = c2
  a1 = a1
  a2 = a2
  code = code
  capture = capture
  chargeback = chargeback
  refund = refund
  gateway = gateway
  income = income
  loss = loss
  None = None
  InDashboard = InDashboard
  OnRequest = OnRequest
  Nobody = Nobody
  Absent = Absent
  Settlements <- TwoSettlements
  Earnings <- OneEarning
  Corrections <- TwoCorrections
  Clawbacks <- OneClawback
  EarningOf <- OfTheEarning
  ItemAmount <- Amounts
  Captures <- TwoCaptures
  PaymentAmount = 3
  MaxRequests = 1
  BilledAccounts <- TwoAccounts
  Suffix <- SameSuffix
  Cycles <- OneAndTwo
  Start = 0
  MaxTime = 1
  InvoiceAmount = 2
  MaxChanges = 2
  Entries <- ThreeEntries
  Lines <- TwoLines
  Change <- Changes
  LedgerAccounts <- ThreeAccounts
  MaxRebuilds = 2
  Stages <- FourStages
  Handlers <- TwoHandlers
SYMMETRY Symmetry
INVARIANTS
  MoneyTypeOK
  LinesAddUp
  PaidAsApproved
  EffectsOnce
  StagesRunOnce
  InvoicesAddUp
  ProjectionIsSum
\* Everything may be settled, answered and resolved.
CHECK_DEADLOCK FALSE
