CONSTANTS
  None = None
  s1 = s1
  s2 = s2
  SnapIds <- MCSnapIds
  MaxFrames <- MCFrames
SPECIFICATION Spec
PROPERTY MalformedNotified
CHECK_DEADLOCK FALSE
