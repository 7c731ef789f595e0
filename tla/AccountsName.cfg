\* Two ids with one display name.
SPECIFICATION Spec
CONSTANTS
  UserIds = {a, b}
  OpenIds = {o1, o2}
  UnionIds = {x}
  Names = {n1}
  Emails = {m1}
  DisplayName <- SameName
  WechatMail <- MailOf
  Logins = {w1}
  Registers = {}
  Empty = Empty
  Null = Null
INVARIANTS RaceHasWinner
