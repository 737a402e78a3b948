CONSTANTS
  Half = 3
  MaxGap = 3
  Requests <- SomeRequests
  Word = 52
  InitValue = 26
  Divisor = 4
  Speeds <- SomeSpeeds
  Periods <- SomePeriods
  MaxLag = 1

SPECIFICATION LapicSpec
INVARIANTS
  TypeOK
  WaitsExactly
  HalfPeriods
  CallbackBeforeTick
  MeasuresSpeed
  RefusesOnlyUnmeasurable
  PeriodAsAsked
PROPERTIES
  Returns
  KeepsTicking
