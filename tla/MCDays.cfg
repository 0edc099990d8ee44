CONSTANTS
  odd = odd
  even = even
  CorrectedDays = {d1}
  Staff = {ann}
  Night <- MCNight
  MaxPunches = 2
  MaxRestarts = 1
  MaxTime = 3
  DayLength = 2
  Before = 1
  Ahead = 1
  MaxBatch = 1
  OfficeIds = {o1, o2}
  MaxChanges = 4
  Person <- MCPerson
  Wages <- MCWages
  Crew <- MCCrew
  Users = {odd, even}
  LastDay = 2
  Saturdays = {1, 2}
  OffByRule <- MCOffByRule
  Asks = {a1, a2}
  Handlers = {h1, h2}
SPECIFICATION DaysSpec
SYMMETRY MCSymmetry
INVARIANTS
  TypeOK
  OneAskPerDayUnlessRace
  OneAgreementPerSaturday
  CorrectionsHold
  DayHolds
  PlacesHold
  TeamHolds
  MonthAndPayHold
PROPERTIES
  DecisionsStand
  PastKeepsItsLabels
CHECK_DEADLOCK FALSE
