\* Saves, mirrors and power losses.
SPECIFICATION FairSpec
CONSTANTS
  MaxSaves = 2
  Looks = 2
INVARIANT MirrorWhole
PROPERTIES BootsSaved MirrorFollows
