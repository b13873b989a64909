CONSTANTS
  c1 = c1
  c2 = c2
  s1 = s1
  s2 = s2
  k1 = k1
  k2 = k2
  None = None
  Shipped = Shipped
  Requests <- MCRequests
  Clerks <- MCClerks
  Switchers = {}
  KeyMakers = {}
  Uuids = {"u1", "u2", "u3"}
  Apns = {"internet", "ims", "web"}
  Terms = {"slow", "fast"}
  Imsis = {"i1", "i2"}
  Keys = {"x1", "x2"}
  Jobs <- ProfileJobs
  Orders <- MCOrders
  Daemons <- MCDaemons
  MaxId = 4
  MaxFaulty = 0
  MaxRequests = 1
  InitialFlags <- MCFlags
  InitialProfiles <- MCProfiles
  InitialSubscribers <- MCSubscribers
  InitialHnet <- MCHnet
SPECIFICATION Spec
INVARIANT ProfileCascades
