SPECIFICATION ReleasesFairSpec
CONSTANTS
  MaxReleases = 3
  Previews = {2}
  Workers = {w1}
  MaxRetries = 2
  MaxFaults = 1
CHECK_DEADLOCK FALSE
INVARIANT DeletedIsGone
PROPERTIES ServingImageKept ReleaseSettles DeletedStaysGone
