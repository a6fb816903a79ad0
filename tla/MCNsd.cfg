\* One WAN port; nsd may be killed anywhere and started with other settings.
SPECIFICATION FairSpec
CONSTANTS
  Conf <- MCConf
  MaxInbox = 2
  MaxShells = 1
INVARIANTS HeardMatchesDb IpsecdMatchesDb
PROPERTIES FailNeedsAllTests DownDetected UpDetected
