CONSTANTS
  MaxLen = 4
  CallAnswers <- MCCallAnswers
  MetricKeys <- MCMetricKeys
  AnswerRuns <- MCAnswerRuns
  BaseConfigs <- MCBaseConfigs
  ScopePath <- MCScopePath
  NewName = "x"
SPECIFICATION HelperSpec
INVARIANT SlugifyMatchesDocstring
INVARIANT RetryAsSpecified
INVARIANT MetricsSnapshotAsSpecified
INVARIANT ScopedConfigTargetsScope
