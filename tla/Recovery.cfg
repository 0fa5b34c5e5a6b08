SPECIFICATION RecoverySpec
CONSTANTS
  u1 = u1
  u2 = u2
  k1 = k1
  p1 = p1
  None = None
  Ufrag = {u1, u2}
  Conn = {k1}
  Path = {p1}
  ConnOf <- OneSocket
  Claims <- Reused
  Sent <- Numbers
  Parity <- Parities
  SeqMod = 16
  recoveryHistorySize = 3
  recoveryGroupLimit = 1
  recoveryStreamLimit = 1
  recoveryRequestSize = 2
  MaxDatagrams = 5
INVARIANTS
  OrdersExact
  NeverRequestsHeld
  NoResidue
  PendingShort
