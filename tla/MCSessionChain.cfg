SPECIFICATION ChainSpec
CONSTANTS
  Empty = Empty
  Logins = {Empty, bob}
  Passwords = {Empty, a, b, short, long}
  Weak = {short}
  Unhashable = {long}
  Sessions = {s1}
  Slots = {k1, k2}
  None = None
  TTL = 1
  MaxTime = 2
  MaxFaults = 1
  Orders = {o1}
  Handlers = {h1}
SYMMETRY SlotSymmetry
INVARIANTS TypeOK OneRegistrant IssuedExpire VouchedInTime RevokedAtOnce
  CommittedByPayer RefusedOnlyEnded
