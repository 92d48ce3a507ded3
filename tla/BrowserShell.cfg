\* Three navigations and one history intent over three addresses.
SPECIFICATION ShellFairSpec
CONSTANTS
  Urls <- MCUrls
  Named = {"home", "moved"}
  HomeUrl = "home"
  FirstUrl = "home"
  Land <- MCLand
  MaxNavigations = 3
  MaxIntents = 1
INVARIANTS
  ShellInv
PROPERTIES
  SupersededNeverLands
  NavigationSettles
CHECK_DEADLOCK FALSE
