CONSTANTS
  Criteria = {ac1}
  Waive = TRUE
  None = None
  Patches = {p1, p2}
  TestRuns = {"old_failures", "unusable"}
  Policies = {"clean", "violated"}
  FailedStatuses = {"timeout"}
  MaxRetries = 3
  AgentTime = 3
  Spends = {1, 3}
  Modes = {"approved", "dry-run"}
  RecalledHints = {ac1}
  Rules = {1, 2}
  Measured = {2}
  Defaults = {d1, d2}
  MaxRounds = 3
SPECIFICATION QbSpec
INVARIANTS VerifiedIsEarned RetriesAreJustified RecordReplays MemoryMatchesTheRecord ProvenRepairsWorked
PROPERTIES AttemptsAreWithinBudget TermsAreSettledByTheirAnswers OnlyReviewedContractsRun
SYMMETRY Symmetry
CHECK_DEADLOCK FALSE
