SPECIFICATION Spec
CONSTANTS
  c1 = c1
  c2 = c2
  r1 = r1
  r2 = r2
  r3 = r3
  ip = ip
  logs = logs
  heads = heads
  Conns = {c1, c2}
  Reqs = {r1, r2, r3}
  Ips = {ip}
  LogTags = {logs}
  HeadTags = {heads}
  Ip <- MCIp
  Configs <- MCConfigs
INVARIANTS ConnectionsWithinLimits PollsServeSubscriptions
  SubscriptionsAreCounted ClosedIsUnsubscribed LogsReachSubscribers
CHECK_DEADLOCK FALSE
