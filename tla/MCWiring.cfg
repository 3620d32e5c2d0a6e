CONSTANTS
  gateway = gateway
  engine = engine
  eth = eth
  obd = obd
  r1 = r1
  r2 = r2
  s1 = s1
  s2 = s2
  f = f
  l1 = l1
  l2 = l2
  front = front
  back = back
  inner = inner
  t1 = t1
  t2 = t2
  none = none
  NoId = NoId
  NoNetwork = NoNetwork
  Ecus = {gateway, engine}
  CanIds = {r1, r2, s1, s2, f}
  LogicalAddresses = {l1}
  RequestId <- MCRequestId
  ResponseId <- MCResponseId
  FunctionalId <- MCFunctionalId
  LogicalAddress <- MCLogicalAddress
  NetworkIds = {front, back, inner}
  GatewayLinkId = front
  BehindGatewayLinkId = back
  Timings = {t1}
  Overrides = {none}
  DefaultTiming = t1
  NoOverrides = none
  DefaultState = "default"
  UsedState = "used"
  Loadable <- WiringLoadable
  Addable <- WiringAddable
  Placements <- WiringPlacements
  Declarable <- WiringDeclarable
  GatewayKeys = {r2}
  PowerStates = {TRUE, FALSE}
  BusStates = {FALSE}
  PermissiveModes = {}
  RequestLengths = {TRUE, FALSE}
SPECIFICATION Spec
INVARIANT PathsAgreeWithDepths
PROPERTIES WiringStaysSound 
