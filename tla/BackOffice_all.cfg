SPECIFICATION Spec
CONSTANTS
  Root = a
  Staff = {b, c}
  NoOne = NoOne
  MaxConns = 3
  MaxGrants = 3
  MaxPolicy = 3
  MaxWork = 2
  MaxRuleVer = 3
  MaxGrantId = 2
  Clerks = {b, c}
  NoClerk = NoClerk
  Quotes = {q1, q2}
  MaxBiz = 2
  MaxVer = 2
  Chiefs = {m1, m2}
  Senior = m1
  MaxDesk = 3
  Bills = {b1, b2}
  Hosts = {h1, h2}
  Idle = Idle
  MaxLog = 3
  MaxClaims = 2
  MaxFacts = 2
  Workers = {w1, w2}
  Nobody = Nobody
  MaxTick = 4
  MaxRows = 2
  Extractors = {e1}
  Mutations = {x}
  MaxSignal = 2
  Asked = {c1, c2}
  Today = 4
  Recs = {r1}
  ChatKeys <- ChatRows
  NickNames = {"A", "B"}
  GivenNames = {"B"}
  MaxPeople = 2
  MaxMails = 1
  Briefs = {1, 2}
  Bundles = {m, n}
  NoBundle = NoBundle
  People_ = {"p", "q"}
  Asker = "p"
  MaxInvalidExt = 1
  Folk = {"x", "y"}
  First = "x"
  Accounts_ = {"k", "l"}
  Seats = {1, 2}
  LoginLimit = 1
  MaxAnchor = 3
  MaxSecret = 2
  Notes = {1, 2}
  MaxItems = 1
  MaxTries = 2
  MaxWording = 1
  MaxCopies = 3
  Msgs = {1, 2}
  Limit = 1
  GraphLimit = 1
  Sayings <- Said
  Members = {"p", "q"}
  Nobody_ = "nobody"
  Jobs_ = {1, 2}
  Days = {1, 2}
  Lines = {"a"}
  Wordings = {"w"}
  MaxEmpty = 1
  MaxStarts = 2
  Chatter <- Gossip
  Terms = {"garden", "rose garden", "song", "relay", "haha"}
  Inside <- TermParts
  Dirty = {"haha"}
  Size <- TermSize
  Alpha <- TermOrder
  Recalled <- Remembered_
  Reviewed_ <- Profiled
  MaxSaid = 4
  MinCase = 2
  CaseLimits = {1, 2}
  TopicLimit = 2
  SuspectLimit = 2
  CharacterLimit = 2
  MaxKeywords = 1
VIEW Seen
CONSTRAINT Unmirrored
CONSTRAINT OwnWords
CONSTRAINT OneReassigned
INVARIANT AuthorityHolds
INVARIANT OutsideOnce
 
PROPERTY NothingComesBack
CHECK_DEADLOCK FALSE
