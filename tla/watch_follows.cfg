\* Four starts, by hand or at login, three saves or removals once the watcher has
\* its baseline or while the program is down, an end at any step.
SPECIFICATION LaunchSpec
CONSTANTS
  on = on
  off = off
  bad = bad
  absent = absent
  work = work
  home = home
  root = root
  here = here
  blank = blank
  torn = torn
  none = none
  Good = {on, off}
  Bad = {bad}
  Absent = absent
  Default = off
  Autostart = {on}
  MaxChanges = 3
  QuietStart = TRUE
  Dirs <- Directories
  Root = root
  Home = home
  Here = here
  Blank = blank
  Dotenv <- Settings
  Terminals <- Shells
  Torn = torn
  NoItem = none
  FirstFiles <- Beginnings
  MaxStarts = 4
INVARIANTS TypeOK UnchangedMeansApplied
PROPERTIES EditsAreApplied LoginUsesLastSync
\* Once no more starts come nothing is left.
CHECK_DEADLOCK FALSE
