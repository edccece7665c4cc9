SPECIFICATION LiveSpec
CONSTANTS
  Tools = {"key"}
  ExpectedSize = 4
  Source = {base, donor}
  N = 2
  Assembler = {a1}
  Runs = {r1, r2, r3}
  None = None
  Extractors = {x1, x2}
  Capacity = 13
  base_system = base_system
  base_vendor = base_vendor
  donor_system = donor_system
  donor_product = donor_product
  donor_system_ext = donor_system_ext
  NoImage = NoImage
  Selection = {s1, s2, s3}
  init = init
  jar = jar
  matrix = matrix
  policy = policy
  grants = grants
  phone = phone
  settings = settings
  oat = oat
  overlay = overlay
  launcher = launcher
  app = app
  NoPath = NoPath
  BaseImages <- MCBaseImages
  DonorImages <- MCDonorImages
  Roots <- MCRoots
  EntrySize <- MCEntrySize
  Margin <- MCMargin
  Path <- MCPath
  System <- MCSystem
  Base <- MCBase
  Donor <- MCDonor
  Protected <- MCProtected
  Retained <- MCRetained
  Replaced <- MCReplaced
  Chosen <- MCChosen
  Selected <- MCSelected
  Duplicate <- MCDuplicate
  Preopt <- MCPreopt
  Patched <- MCPatched
  Apk <- MCApk
  Platform <- MCPlatform
  LockedFrom <- MCLockedFrom
  MaxFaults = 1
CHECK_DEADLOCK FALSE
INVARIANTS
  KeyIsPersistent
