SPECIFICATION ExSpec
CONSTANTS
  Main = Main
  Proc = {Main, m1, m2, m3, t1}
  Makers = {m1, m2, m3}
  Takers = {t1}
  room = room
  item = item
  Places = 1
  Urgency <- Uniform
  Source = {}
  NULL = NULL
  Sem = {room, item}
  MaxUnits = 3
PROPERTIES
  EveryoneIsServed
