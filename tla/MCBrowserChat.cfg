SPECIFICATION ChatSpec
CONSTANTS
  Topic = {chat}
  Chat = chat
  Id = {c1, c2}
  Page = {p1, p2}
  MaxNotify = 2
  MaxPosts = 1
INVARIANTS
  PageTypeOK
  GoneIsLeaving
  ShownInOrder
PROPERTIES
  BrokenIsForgotten
  ShownEventually
CHECK_DEADLOCK FALSE
