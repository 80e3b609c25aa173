SPECIFICATION FairSpec
CONSTANTS
  editor = editor
  viewer = viewer
  copy = copy
  edit = edit
  edit2 = edit2
  view = view
  work = work
  home = home
  read = read
  save = save
  MaxPid = 2
  Names = {edit}
  Exes = {editor, copy}
  Comm <- MCComm
  FullPath <- MCFullPath
  NoKill = {}
  Domains = {home, work}
  Default = home
  Contexts = {save}
  FirstMatch <- MCFirstMatch
  Threads = {"kernel"}
  XRestarts = FALSE
  NoClient = NoClient
  Blank = Blank
  NoProcess = NoProcess
  NoTransition = NoTransition
  NoRequest = NoRequest
  NoContext = NoContext
  NoState = NoState
PROPERTY StaleClientRemoved
