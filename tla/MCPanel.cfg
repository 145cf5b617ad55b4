SPECIFICATION PanelSpec
CONSTANTS
  Bits = 4
  Stable = 5
  Patience = 1
  Templates = {"t"}
  Answering <- MCAnswering
  Forms <- MCForms
  Rendered <- MCRendered
  Corefiles <- MCCorefiles
  Nothing <- MCNothing
  Memories <- MCMemories
  Builds = {1, 2}
  Checks = {c1}
  VMIDs = {1, 2}
  Nobody = nobody
  MaxMishaps = 1
INVARIANTS
  ProvisionTypeOK
  NodesBootTrusting
  AcceptedPlanFits
  ApplyMatchesPreview
  PrefilledIsAccepted
  FetchesThroughPrivateDNS
  NoCredentialsLeft
  OneBuildAtWork
  RowsNameTheirImages
PROPERTIES
  CorefileKept
  ApplyEnds
  UsedImagesKept
  BuildWaitsForReboot
  BuildsEnd
CHECK_DEADLOCK FALSE
