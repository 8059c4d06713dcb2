CONSTANT MaxBinds = 1
SPECIFICATION Spec
INVARIANTS ServiceLivesWithListener
CHECK_DEADLOCK FALSE
