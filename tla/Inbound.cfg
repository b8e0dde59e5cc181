CONSTANTS
  None = None
  s1 = s1
  s2 = s2
  SnapIds <- MCSnapIds
  MaxFrames <- MCFrames
SPECIFICATION Spec
INVARIANT TypeOK
PROPERTIES
  StateUpdateUnwrapped
  ErrorNoticeForPresentPayload
  OnlyLatestTimerHides
  ToastEventuallyHides
\* The page idles once the frames are delivered and the timers have run.
CHECK_DEADLOCK FALSE
