SPECIFICATION lvFairSpec
CONSTANTS
  Thread = {t1, t2, t3}
  MAX_STREAMS = 2
  AUTO_PAUSE_AFTER_S = 1
  MaxSeq = 1
PROPERTIES PausedMeansUnwatched NewestArrives CloseEndsStreams
