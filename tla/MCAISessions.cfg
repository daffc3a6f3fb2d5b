SPECIFICATION AiSpec
CONSTANTS
  AiCallers = {u1, u2}
  AiInstances = {n1}
  AiHomeOf <- MCAiHome
  Created = created
  NoState = none
  AiModels = 1
  AiBudget = 2
INVARIANTS
  AnswersAreStored
CHECK_DEADLOCK FALSE
