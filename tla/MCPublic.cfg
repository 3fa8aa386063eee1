SPECIFICATION Spec
CONSTANTS
  r1 = r1
  r2 = r2
  r3 = r3
  p1 = p1
  p2 = p2
  s1 = s1
  s2 = s2
  c1 = c1
  c2 = c2
  e1 = e1
  a1 = a1
  a2 = a2
  k1 = k1
  k2 = k2
  g1 = g1
  g2 = g2
  m1 = m1
  m2 = m2
  m3 = m3
  Parts = {"leads", "outreach", "signup"}
  None = None
  NoContact = NoContact
  Requests = {r1, r2, r3}
  Phones = {p1, p2}
  Senders = {s1, s2}
  PER_SENDER_PER_HOUR = 2
  GLOBAL_PER_DAY = 2
  MaxClock = 1
  Contacts <- MCContacts
  EmailOf <- MCEmailOf
  IdsNamed <- MCIdsNamed
  MaxEdits = 2
  MaxClicks = 2
  PageSize = 1
  Attempts = {a1, a2}
  Callbacks = {k1, k2}
  Identities <- MCIdentities
  canonicalEmail <- MCCanonical
  Reserved = {}
  Provisioned = {m3}
  Platform = Platform
  Nobody = Nobody
  LIMIT = 1
  MaxVersion = 2
INVARIANTS RepeatsAreOneLead ToldMeansOut NoRowIsSkipped
  OneOrganizationEach SignedInAsWhoStarted BlockedStayOut
PROPERTY OptOutStays
CHECK_DEADLOCK FALSE
