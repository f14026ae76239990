SPECIFICATION FairSpec
CONSTANTS
  Workers = {w1}
  Clients = {c1}
  Tasks = {t1}
  max_task_num = 1
  NoTask = NoTask
PROPERTIES DestructorReturns
CHECK_DEADLOCK FALSE
