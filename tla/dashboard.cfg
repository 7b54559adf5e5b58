\* Two tabs that edit the hours, two event types with two answers on their way,
\* one consent page and two calls to Google, two loads of the integrations page
\* and one save in another tab, two meetings, and two people who register, one
\* of whom saves two forms.
SPECIFICATION DashboardSpec
CONSTANTS
  Editors = {a, b}
  Hours = {u, z}
  DefaultWeek = {u, z}
  MaxEdits = 2
  ScheduleIds = {p, q}
  NoEditor = NoEditor
  NoSchedule = NoSchedule
  TypeIds = {a, b}
  NewType = NewType
  NoType = NoType
  Loads = {p, q}
  MaxElsewhere = 1
  MaxRequests = 2
  HostCalendars = {p, q}
  NoCalendar = NoCalendar
  Callers = {a, b}
  ConsentTabs = {t1}
  MaxTokens = 2
  Preferences = {u, z}
  Primary = u
  PrimaryAlias = PrimaryAlias
  PageLoads = {a, b}
  MaxOtherTabs = 1
  MeetingIds = {a, b}
  Starts = {u, z}
  someStart = u
  NoMeeting = NoMeeting
  NoStart = NoStart
  MaxActs = 2
  MaxSent = 1
  People = {a, b}
  Names = {ada, underscored}
  PublicNames = {ada}
  Zones = {u, z}
  InitialZone = u
  NoName = NoName
  NoOwner = NoOwner
  MaxSaves = 2
SYMMETRY Alike
CHECK_DEADLOCK FALSE
INVARIANTS
  DashboardTypeOK
  SavedWhole
  
  OwnFormSaved
  DeletionSound
  SecretsStayErased
  ConnectedCanRefresh
  UnchangedIsStored
  ActsOnShownMeeting
  ReasonOfItsMeeting
  LinkLeadsHome
  SettingsChosen
