SPECIFICATION LifetimeSpec
CONSTANTS
  Backend = {"simple", "qsym", "rust"}
  NumAddresses = 3
  Offset = {0, 1}
  Page = {p}
  Region = {r}
  Threshold = 2
  MaxHeld = 2
  MaxHeight = 2
INVARIANTS
  ExpressionsStayUsable
  RootsKeepMeaning
  WidthsAreMaintained
PROPERTY
  CollectionFrees
