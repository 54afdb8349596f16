\* A file of two bytes with an error page of one; a file of three, more than
\* an int counts, without a page.  One header fills the request's array, two
\* fill the response's.
SPECIFICATION FairSpec
CONSTANTS
  Word = {"GET", "POST", "/file", "/", "/missing", "V", "K", "W"}
  HeaderSize = 1
  ResHeaderSize = 2
  File = {"file", "404.html", "./"}
  Builds = {"default", "header", "flag"}
  Scripts <- MCScripts
  Disks <- MCDisks
  Absent = absent
  DirEntries = 2
  IntMax = 2
  SendCap = 1
  MaxRefused = 1
INVARIANTS ParsedAsSent ReplyInOrder ReleasedWhole StrandedOnlyWhen UndefinedOnlyWhen
PROPERTIES HandlerReturns AnsweredIsEnded
CHECK_DEADLOCK FALSE
