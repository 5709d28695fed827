SPECIFICATION AccountSpec
CONSTANTS
  Accounts = {a1, a2}
  Phones = {p1, p2}
  Names = {ada}
  NoName = NoName
  AccountTasks = {t1, t2}
  TokenLife = 2
  MaxAccountErrors = 0
INVARIANT UsernameOptional
CHECK_DEADLOCK FALSE
