\* Every command line of up to three words, two block devices, two sleeps.
CONSTANTS
  Cmdlines <- MCCmdlines
  Devices <- MCDevices
  WaitTimes = 2
SPECIFICATION Spec
INVARIANT MountsNamedConfig
CHECK_DEADLOCK FALSE
