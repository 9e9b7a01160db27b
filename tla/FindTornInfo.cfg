SPECIFICATION Spec
CONSTANTS
  m1 = m1
  m2 = m2
  MCVmMetas = {m1}
  ip1 = ip1
  ip2 = ip2
  vm = vm
  dv = dv
  svc = svc
  port = port
  plain = plain
  MCKeys = {vm}
  Keys <- MCKeys
  ResourceOf <- MCResourceOf
  NameOf <- MCNameOf
  ServiceTypeOf <- MCServiceTypeOf
  ObjectsOf <- MCObjectsOf
  Metas = {m1, m2}
  Owners <- MCOwners
  Anonymous = Anonymous
  Addresses = {ip1, ip2}
  Unlabelled = Unlabelled
  NoType = NoType
  NoCall = NoCall
  Torn = Torn
  Absent = Absent
  Unread = Unread
  Nothing = Nothing
  MaxRequeue = 1
  MaxChanges = 2
CHECK_DEADLOCK FALSE
INVARIANT
  CallsAreAnswered
