SPECIFICATION SetUpSpec
CONSTANTS
  Name = Name  Uuid = Uuid
  mailHost = mailHost  icloudHost = icloudHost
  p143 = p143  p993 = p993
  user = user  alias = alias
  Passwords = {w1, w2}
  Hosts = {mailHost, icloudHost}
  Ports = {p143, p993}
  Emails = {user, alias}
  ICloudHosts = {icloudHost}
  AppleAddresses = {alias}
  MailHost = mailHost  MailPort = p143
  UserName = user  Alias = alias
  Serves <- BothHostsOn993
  MaxAttempts = 2
  MaxRuns = 3
  None = None
CHECK_DEADLOCK FALSE
INVARIANTS VerifiedIsUsed RefusedIsForgotten
