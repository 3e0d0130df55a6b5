CONSTANTS
  s1 = s1
  s2 = s2
  u1 = u1
  u2 = u2
  Tickets = {t1}
  Emails = {e1, e2}
  Users = {u1, u2}
  Staff = {s1, s2}
  Agent <- MCAgent
  Mails = {m1}
  None = None
  MaxMessages = 2
  MaxFaults = 1
  MaxCrashes = 1
SPECIFICATION Spec
SYMMETRY Symmetry
INVARIANTS TypeOK OwnerMatchesState ToldIsTrue SettledOncePerDelivery ReplyLostTwoWays
PROPERTIES OnlyOwnerActs ClosedIsFinal WithdrawnGainNothing
