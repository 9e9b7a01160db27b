SPECIFICATION CloudSpec
CONSTANTS
  Requests = {r1}
  Metas = {r1}
  Keys <- MCKeys
  ResourceOf <- MCResourceOf
  NameOf <- MCNameOf
  ServiceTypeOf <- MCServiceTypeOf
  ObjectsOf <- MCObjectsOf
  Owners <- MCOwners
  GpuOf <- MCGpuOf
  HasImage <- MCHasImage
  Anonymous = Anonymous
  Gpus = {}
  NoGpu = NoGpu
  NoRequest = NoRequest
  Address = ip1
  Namespace = "kauloud"
  TargetNamespace = "default"
  Addresses = {ip1}
  Unlabelled = Unlabelled
  NoType = NoType
  NoCall = NoCall
  Torn = Torn
  Absent = Absent
  Unread = Unread
  Nothing = Nothing
  MaxRequeue = 1
  MaxChanges = 6
  MaxRestarts = 0
CHECK_DEADLOCK FALSE
INVARIANT
  NotFoundIsGone
