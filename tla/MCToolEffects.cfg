SPECIFICATION FairSpec
CONSTANTS
  Workers = {w1}
  Effects = {e1, e2}
  Contents = {read, write}
  Idempotent = {read}
  Results = {succeeded, failed}
  None = None
  MaxCrashes = 3
INVARIANTS TypeOK InvokedAtMostOnce
PROPERTIES ImplementsJournal RetryableSettles
