SPECIFICATION Spec
CONSTANTS
  r1 = r1
  r2 = r2
  l1 = l1
  l2 = l2
  None = None
  Req <- OneReq
  Login <- TwoLogins
  Routes <- AllRoutes
  KcFaults = TRUE
SYMMETRY SymSerial
PROPERTIES
  ServerSideSpec
