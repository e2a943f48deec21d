SPECIFICATION Spec
CONSTANTS
  Cmd = cmd
  Server = server
  Wm = wm
  NConns = 2
  MaxPending = 1
  Grace = 2
  RequestTimeout = 1
  HasX11 = FALSE
  HasWm = FALSE
INVARIANTS
  TermFirst
  NobodyForgotten
