CONSTANTS
  base = base
  c1 = c1
  c2 = c2
  Names <- ThreeNames
  Rounds = 1
  Confirmations = 1
  MaxKills = 1
  MaxFailures = 1
  MaxCommits = 2
  NoDir = NoDir
  NoReport = NoReport
  TornReport = TornReport
SPECIFICATION Spec
INVARIANTS AttemptsAreKept ReportIsReplayable PublishedIsUniform ConfirmationFollowsSelection
PROPERTIES SettledRunsStay SearchResumes
