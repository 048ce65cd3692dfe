\* Two turns and two presses: the second play meets what the first left behind.
SPECIFICATION FairSpec
CONSTANTS
  MaxSpeaks = 2
  MaxPresses = 2
  MaxChunks = 2
  MaxPending = 1
INVARIANT OneVoice
INVARIANT NeverTwice
INVARIANT EndedMeansHeard
INVARIANT MicFollowsWish
PROPERTY AbortedUnwinds
CHECK_DEADLOCK FALSE
