SPECIFICATION Spec
CONSTANTS
  Garbage = "garbage"
  MaxLoginQuery = 2
  OrdinaryFiles <- MCOrdinaryFiles
  OrdinaryJourney <- MCOrdinaryJourney
  Mount <- MCMount
  Addresses <- MCAddresses
  Words <- MCWords
  AddressesIn <- MCAddressesIn
  Texts <- MCTexts
  RangeLists <- MCRangeLists
  OriginLists <- MCOriginLists
  PrelinkKeys <- MCPrelinkKeys
  Segments <- MCSegments
  Queries <- MCQueries
  Forgeries <- MCForgeries
  Hops <- MCHops
  ConfigurationEffort = 3
  TrafficEffort = 2
  MaxEffort = 6
INVARIANTS
  SettingsInForce
  ClientIsOnItsWay
  SecureIfNearestSaysSo
  LoginReachesZitadel
  RedirectsStayInside
CHECK_DEADLOCK FALSE
