SPECIFICATION GateFairSpec
CONSTANTS
  r1 = r1
  r2 = r2
  r3 = r3
  Requests = {r1}
  Kinds = {"delete_target"}
  Droppable = {}
  Scheduler = Scheduler
  Onboarding = Onboarding
  Nobody = Nobody
  MaxChanges = 1
  MaxBackups = 1
  MaxDrops = 0
CHECK_DEADLOCK FALSE
PROPERTY
  TasksFinish
