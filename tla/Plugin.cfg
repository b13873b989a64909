CONSTANTS
  c1 = c1
  c2 = c2
  s1 = s1
  s2 = s2
  k1 = k1
  k2 = k2
  None = None
  Shipped = Shipped
  Requests <- MCRequests
  Clerks <- MCClerks
  Switchers <- MCSwitchers
  KeyMakers <- MCKeyMakers
  Uuids = {"u1", "u2", "u3"}
  Apns = {"internet", "ims", "web"}
  Terms = {"slow", "fast"}
  Imsis = {"i1", "i2"}
  Keys = {"x1", "x2"}
  Jobs <- MCJobs
  Orders <- MCOrders
  Daemons <- MCDaemons
  MaxId = 4
  MaxFaulty = 2
  MaxRequests = 2
  InitialFlags <- MCFlags
  InitialProfiles <- MCProfiles
  InitialSubscribers <- MCSubscribers
  InitialHnet <- MCHnet
SYMMETRY Symmetry
SPECIFICATION Spec
INVARIANT TypeOK
INVARIANT LossIsReported
INVARIANT ApnsUnique
INVARIANT QuietDaemonsEnabled
INVARIANT EntriesHaveKeys
INVARIANT SerialKeysKept
INVARIANT ToldKeysAreNew
 
PROPERTY LoneAnswersHold
PROPERTY LoneSwitchConverges
