SPECIFICATION Spec
CONSTANTS
  Workers = {w1, w2}
  Effects = {e1}
  Contents = {read, write}
  Idempotent = {read}
  Results = {succeeded, failed}
  None = None
  MaxCrashes = 0
INVARIANT InvokedAtMostOnce
