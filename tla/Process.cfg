SPECIFICATION FairSpec
CONSTANTS
  U32 = 1073741824
  Number = {0, 1, 255, 256, 65536, 3600000, 3600001, 1073741823, 1073741824, 1073741825}
  CONFIG_MAX_BACKENDS = 2
  MaxNumbers = 1
INVARIANTS LateUseIsOfStatsOnly ExitIsClean
PROPERTIES SigtermExits QuitEndsRunning
