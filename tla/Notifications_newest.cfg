SPECIFICATION Spec
CONSTANTS
  on = on
  temp = temp
  off = off
  lit = lit
  warm = warm
  Char <- Both
  Values <- Readings
  Event <- Events2
  Permissions <- Notifying
  Conn = {c1, c2}
  Null = null
  NoEvent = noevent
  Size = 2
SYMMETRY Symmetry
PROPERTY ReportsNewest
