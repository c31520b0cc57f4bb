SPECIFICATION ClientSpec
CONSTANTS
  ClientParts = {"session", "pages", "version", "dreams", "worklog", "calendar", "navigation",
                 "conversions", "communication"}
  NoData = NoData
  Users = {u1, u2}
  Admins = {}
  Supers = {}
  Nobody = Nobody
  SignedOut = SignedOut
  MaxLogins = 1
  MaxPending = 2
  MaxLoads = 1
  MaxEdits = 2
  MaxChanges = 2
  MaxTasks = 2
  Pictures = {a, b, c}
  OldPictures = {a}
  MaxPictures = 2
  RecentDays = {r}
  OldDays = {o}
  NoDay = NoDay
  MaxRecords = 1
  Singles = {e1}
  Repeated = {s1}
  Unborn = {}
  Links = {e1}
  NoEvent = NoEvent
  MaxSequence = 2
  MaxCalls = 1
  FirstDay = 19716
  LastDay = 19982
  Zones <- MCZones
  Scripts = {x, y}
  Matching = {x}
  TypeNames = {t1, t2}
  AnyType = AnyType
  Alike <- MCAlike
  NoScript = NoScript
  LibraryPageSize = 1
  MaxServed = 1
  Friends = {f, g}
  Wanted = {f}
  NoFriend = NoFriend
  FriendPageSize = 1
  MaxWritten = 2
INVARIANTS
  MeIsCurrent
  TabHoldsItsOwn
  ShownIsCurrent
  AcceptedIsFollowed
  PicturesAreAccounted
  NoEntryIsTakenBack
  CalendarWritesAreCurrent
  ReaderIsLed
  ConversionsAgree
  ListsAreHonest
VIEW Followed
