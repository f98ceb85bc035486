SPECIFICATION FairCaptureSpec
CONSTANT MaxQueue = 2
CHECK_DEADLOCK FALSE
INVARIANTS MicFollows SilenceIsTold
PROPERTY DevicesRecover
