SPECIFICATION BootstrapSpec
CONSTANTS
  Plugin = {p1, p2}
  Hook = {h1, h2}
  MaxVersion = 2
  Nothing = Nothing
SYMMETRY Symmetry
INVARIANT
  LinksEnd
\* Where no start finds anything to do, nothing happens any more.
CHECK_DEADLOCK FALSE
