\* The program as it is: the first bt_le_adv_start() fails.
CONSTANTS
  CallsSleep = {FALSE}
  MaxFaults = 1
SPECIFICATION Spec
INVARIANTS
  ConnectedIsNotified
