\* Command lines of up to six words after the input, files opened by one or two
\* words or handed over, with and without a running instance.
CONSTANTS
  Lines <- SomeLines
  FileNames = {"/doc", "/doc.wraith"}
  LocalNames = {"doc"}
  Containers = {"/doc.wraith"}
  Dashed <- DashedWords
  Numbers <- NumbersOf
  Nothing = Nothing
SPECIFICATION Spec
INVARIANTS
  CalledAsMeant
  OpenedArrives
CHECK_DEADLOCK FALSE
