\* ble_sleep() called and not called, two samples, one failure.
CONSTANTS
  CallsSleep = {TRUE, FALSE}
  MaxFaults = 1
  Readings <- MCReadings
SPECIFICATION TeleFairSpec
INVARIANTS
  TeleTypeOK
  NoLostAdvertising
PROPERTIES
  ReadIsOneSample
  SilentInSleep
  VisibleAgain
  NeverOlder
  ReadAnswered
