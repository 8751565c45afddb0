SPECIFICATION Spec
CONSTANTS
  f1 = f1
  f2 = f2
  b = b
  echo = echo
  hello = hello
  post = post
  Fronts = {f1, f2}
  Back = b
  Calls = {echo, hello, post}
  From <- MCFrom
  Method <- MCMethod
  ServiceOptions <- MCServiceOptions
  MethodOptions <- MCMethodOptions
  Unknown = {}
  NotInserted = {}
  NotOverridden = {}
  OneShot = {}
  Permanent = {echo}
  OutOfMemoryAt = {}
  MaxCuts = 0
  MaxRedirects = 1
  LeavesForwarded = FALSE
INVARIANT RedirectKeepsCalls
CHECK_DEADLOCK FALSE
