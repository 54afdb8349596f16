\* One worker at first; a full ring of two makes the manager start another,
\* and later tell two to exit.  More calls than places.
SPECIFICATION FairSpec
CONSTANTS
  Task = {1, 2, 3}
  minNum = 1
  maxNum = 2
  Capacity = 2
  NUMBER = 2
  NULL = null
INVARIANTS TypeOK LiveNumCovers WorkIsShared 
PROPERTIES ImplementsTaskQueue TasksRun CallsReturn 
\* The pool is freed, or destroyed in use, and its threads do nothing more.
CHECK_DEADLOCK FALSE
