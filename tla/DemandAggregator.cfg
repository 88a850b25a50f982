CONSTANTS
  Task = {t1, t2}
  Unit = {saw, planer}
  Free = Free
SPECIFICATION FairSpec
PROPERTIES ImplementsDemandSet MutexReleased
