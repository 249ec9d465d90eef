SPECIFICATION PlatformSpec
CONSTANTS
  Application = {a1}
  Loan = {l1}
  Request = {r1, r2}
  Principal = 2
  Months = 2
  Cuts = {1}
  Phone = {p1}
  Challenge = {c1, c2}
  Token = {t1, t2}
  Call = {k1, k2}
  MaxRecent = 1
  MaxTries = 1
  Person = {u1, u2}
  Business = {b1}
  Invitation = {i1, i2}
  TeamCall = {k1, k2}
  Session = {s1, s2}
  Link = {m1}
  SessionCall = {k1, k2}
  Device = {d1, d2}
  MaxToken = 2
  MaxRow = 2
  Kind = {"new_job", "auth_otp"}
  Push = {m1}
  Shift = {s1, s2}
  Rater = {k1, k2}
  Posting = {j1, j2}
  Viewer = {w1}
  HourlyPushes = 1
  Reviewer = {u1, u2}
  Crew = {w1, w2}
  LateUntil = 6
  Account = {n1, n2}
  BankCall = {k1, k2}
  Nuban = {v1, v2}
  NONE = NONE
  LastRow = 3
  PageLimit = 1
  Absent = Absent
  Employer = {e1, e2}
  CreditScores = {1, 2}
  LastDay = 2
  Member = {w1, w2}
  Number = {x1, x2}
  Change = {h1}
  File = {f1}
  ProfileCall = {k1, k2}
  MaxLiveness = 1
  NoFile = NoFile
  NoNumber = NoNumber
  Asker = {w1}
  Gig = {j1}
  Place = {o1, o2}
  AssistCall = {k1, k2}
  MaxExtracts = 1
  MaxTickets = 1
  LastEdit = 1
  Tenant = {b1, b2}
  Tab = {x1}
  Publisher = {k1, k2}
  SettingsCall = {k1, k2}
  Invoice = {i1}
  MonthLength = 2
  DayLength = 2
CONSTRAINT Bound
VIEW View
CHECK_DEADLOCK FALSE
INVARIANTS
  PlatformTypeOK
  DisbursedOnce
  OwedCoversRest
  
  BusinessKept
  ResetEndsSessions
  BlindUntilBoth
  
  OneDefaultAccount
  FiguresAgree
  
PROPERTIES
  OverdueDefaults
  TeamFirstOpens
  
