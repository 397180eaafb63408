SPECIFICATION FairSpec
CONSTANTS
  p = p q = q s1 = s1 s2 = s2 s3 = s3 r1 = r1 r2 = r2
  Keys = {p, q}
  Sockets = {s1, s2, s3}
  KeyOf <- ThreeTunnels
  Requests = {r1, r2}
  Addressee <- OneCallEach
  Nobody = Nobody
INVARIANTS TypeOK PendingIsInFlight AnsweredByAddressee NewestTunnelServes
PROPERTIES EveryForwardEnds DisplacedEnds
CHECK_DEADLOCK FALSE
