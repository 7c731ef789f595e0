\* Two WeChat logins, of one person or of two, a registration and an operator
\* who disables accounts interleave; display names tell the ids apart.
SPECIFICATION Spec
CONSTANTS
  UserIds = {a, b}
  OpenIds = {o1, o2}
  UnionIds = {x, y}
  Names = {n1}
  Emails = {m1}
  DisplayName <- DistinctNames
  WechatMail <- MailOf
  Logins = {w1, w2}
  Registers = {r1}
  Empty = Empty
  Null = Null
SYMMETRY AccountSymmetry
INVARIANTS SameAccount DisabledStayOut RaceHasWinner AccountInv
PROPERTIES IdentityKept
