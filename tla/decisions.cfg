SPECIFICATION FairSpec
CONSTANTS
  editor = editor
  viewer = viewer
  copy = copy
  edit = edit
  edit2 = edit2
  view = view
  work = work
  home = home
  read = read
  save = save
  MaxPid = 1
  Names = {edit, edit2}
  Exes = {editor, copy}
  Comm <- MCComm
  FullPath <- MCFullPath
  NoKill = {}
  Domains = {home, work}
  Default = home
  Contexts = {read, save}
  FirstMatch <- MCFirstMatch
  Threads = {"kernel", "dbus"}
  XRestarts = TRUE
  NoClient = NoClient
  Blank = Blank
  NoProcess = NoProcess
  NoTransition = NoTransition
  NoRequest = NoRequest
  NoContext = NoContext
  NoState = NoState
INVARIANTS TypeOK ClientIsTheProgram NoStrayUnlessOvertaken HoldersGoOn
PROPERTIES NotReregistered RequestAnswered
