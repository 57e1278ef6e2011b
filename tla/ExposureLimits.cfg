\* Four drafts of one market's estimate, approved under the tight profile.
SPECIFICATION PolicySpec
CONSTANTS
  Unit = 100
  Grain = 2
  Base <- BaseDoc
  Profiles <- TightProfiles
  ModeOverrides = {""}
  Snapshots <- OneSnapshot
  SeedEstimates <- Seed
  MaxDrafts = 4
INVARIANTS UnresolvedExposureCapped
CHECK_DEADLOCK FALSE
