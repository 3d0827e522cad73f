SPECIFICATION Spec
CONSTANTS
  fd1 = fd1
  fd2 = fd2
  h1 = h1
  h2 = h2
  t1 = t1
  t2 = t2
  Fd <- MCFd
  Handler <- MCHandler
  Timer <- MCTimer
  Size <- MCSize
  None = None
  MaxNotices = 2
SYMMETRY Symmetry
INVARIANTS TypeOK Bracketed NothingLeft CallsFindPlugin SizesAgree KnobNeverStranded
PROPERTY CallsCurrent
