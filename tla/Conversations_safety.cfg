\* Two workers, one message per window and side, three messages, one reader.  The
\* rate window is as short as the time steps, the notices' is one longer.
CONSTANTS
  w1 = w1
  w2 = w2
  Workers = {w1, w2}
  Readers = {"volunteer"}
  WithPhone = {"recipient"}
  RateLimit = 1
  RateWindow = 0
  NotifyEvery = 1
  MaxMessages = 3
SPECIFICATION Spec
SYMMETRY Symmetry
INVARIANTS
  OverrunsAreOverlaps
  EveryMessageNoticed
  NothingSkipped
  UnshownIsUnread
PROPERTIES
  NoticesThrottled
