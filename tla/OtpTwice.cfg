SPECIFICATION OtpSpec
CONSTANTS
  OtpTasks = {t1, t2}
  MaxCodes = 1
  MaxTokens = 2
  MaxOtpErrors = 0
INVARIANT OneTimeUse
CHECK_DEADLOCK FALSE
