SPECIFICATION HistorySpec
CONSTANTS
  VideoCount = 2
  Request = {r1, r2, r3, r4}
  Page = {p1, p2}
  NoUrl = NoUrl
SYMMETRY Symmetry
INVARIANTS
  RowsTellTheDeal
  EvidenceTellsTheHistory
  FreshPagesWork
  ScreensAgree
  TheReportAddsUp
PROPERTIES
  DecisionsAreAboutWhatWasSeen
  RetryAnswersTheSame
