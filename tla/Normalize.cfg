\* Two jobs at once, three pages of at most two keys; the jobs and the uploads end.
CONSTANTS
  Jobs = {j1, j2}
  RawKeys <- MCRawKeys
  Stem <- MCStem
  Folders <- MCFolders
  Unreadable <- MCUnreadable
  Limits = {0, 1, 2}
  NoLimit = 99
  PageSize = 2
SPECIFICATION Spec
CHECK_DEADLOCK FALSE
INVARIANTS TypeOK ListingComplete DoneCovers OutputsFromFiles LimitKept
SYMMETRY JobSymmetry
