SPECIFICATION FairSpec
CONSTANTS
  o1 = o1  o2 = o2
  p1 = p1  p2 = p2
  Orders = {o1, o2}
  Parts = {p1, p2}
  Items <- SharedItems
  Clients = {c1, c2}
  Builders = {b1}
  Shippers = {s1}
  NoTask = NoTask
  MaxStock = 2
  MaxFaults = 1
  MaxRedeliveries = 1
PROPERTY OnlyPaidAreAssembled
