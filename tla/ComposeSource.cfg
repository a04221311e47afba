SPECIFICATION Spec
CONSTANTS
  Line <- MCLine
  Task <- MCTask
  NoTask = NoTask
  MaxLines = 5
INVARIANTS
  PrivateStaysPrivate
  PublicSurvives
  ReportRight
