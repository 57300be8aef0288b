SPECIFICATION FairSpec
CONSTANTS
  NumSlots = 2
  None = None
  Bad = Bad
  Servers <- TheServers
  Seeds <- TheSeeds
  Slaves <- TheSlaves
  Commands <- TheCommands
  SubSlots <- TheSubSlots
  FlagSets <- TheFlagSets
  FirstOwner <- TheFirstOwner
  MaxRedirect = 2
  MaxCalls = 4
  MaxChanges = 2
INVARIANTS AnswersItsCommand RedirectionsFollowed 
PROPERTY CallReturns
CHECK_DEADLOCK FALSE
