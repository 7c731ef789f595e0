\* Two requests, of an account of either kind, share one connection while roles
\* come and go, the account is disabled and the clock passes both lifetimes.
SPECIFICATION FairSpec
CONSTANTS
  Requests = {r1, r2}
  WechatUsers = {w}
  PasswordUsers = {p}
  Routes = {"wechat-login", "login", "edit", "order"}
  MaxOpen = 1
  MaxStatements = 2
  PasswordTTL = 1
  WechatTTL = 1
  MaxTime = 1
  None = None
INVARIANTS NoHoldAndWait ConnectionsReturned NoStaleRole ServiceInv
PROPERTIES ShutOut Answered
