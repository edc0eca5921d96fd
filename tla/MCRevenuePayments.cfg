SPECIFICATION Spec
CONSTANTS
  i1 = i1  c1 = c1  m1 = m1  r1 = r1  r2 = r2  s1 = s1  s2 = s2
  None = None
  NumInvoices = 2
  Total <- MCTotal
  Intents <- OneIntent
  IntentAmount <- MCIntentAmount
  Prepaid <- OneIntent
  Captures <- OneCapture
  Manuals <- OneManual
  Amount <- MCAmount
  KeyOf <- MCKeyOf
  IntentOf <- MCIntentOf
  Reviewed <- OneManual
  RefundRefs <- TwoRefunds
  RefundOf <- MCRefundOf
  RefundAmount <- MCRefundAmount
  Sessions <- TwoSessions
  ForeignKeys = FALSE
INVARIANTS TypeOK BooksBalance RefundsAddUp PostedHasTransaction
 
SYMMETRY Interchangeable
CHECK_DEADLOCK FALSE
