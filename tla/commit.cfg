\* Three versions, committed here or fetched, and every way through the
\* dialog.
SPECIFICATION Spec
CONSTANTS
  h1 = h1  h2 = h2  h3 = h3
  Hash = {h1, h2, h3}
  CommitCmd <- SomeCommands
INVARIANT TypeOK
PROPERTIES AskedFirst LineContinues
SYMMETRY HashSymmetry
