SPECIFICATION ControlsSpec
CONSTANTS
  ControlSubjects = {"tree", "router", "monitor"}
  Families = {"saffirepro", "saffire", "saffirele", "fireworks", "ff800", "ff400", "motu", "motu3", "bebob", "inspire", "special", "uncached", "dice"}
  MotuCtrls <- MCMotuCtrls
  MaxUpdates = 3
  MaxObjects = 40
  EapDevices = {"jr", "mini", "pro14", "pro24", "pro26", "pro40", "56", "profire", "mobile", "project", "tube"}
  RouteSources <- MCSources
  RouteDestinations <- MCDestinations
  MaxEapOps = 2
INVARIANTS TreeIsLive MirrorIsTree ServerWakes RoutingIsCache ControlsApart
CHECK_DEADLOCK FALSE
