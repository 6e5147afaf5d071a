SPECIFICATION Spec
CONSTANTS
  Bits = 3
  Pow <- PowersOfTwo
  Threads = {t1, t2}
  OsErrors = {"EINTR", "EBADF"}
  NoError = "none"
  Systems = {0, 4, 6}
  InvalidData = "InvalidData"
  Files = {3, 4}
  NoFile = 99
  EBADF = "EBADF"
INVARIANTS
  Inv AnswersAreOwn PageSizeAgreed FilesOwnedOnce FlagsAsWanted
