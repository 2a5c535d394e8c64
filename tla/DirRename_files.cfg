\* A directory with up to two entries per level, two levels deep, renamed
\* to a name secondary does not have.
CONSTANTS
    Names = {a, b}
    MaxDepth = 2
    NewExists = FALSE
SPECIFICATION Spec
INVARIANT RenameKeepsFiles
