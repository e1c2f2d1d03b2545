\* The spec's "reverse back to preserve original-relative ordering".
CONSTANTS
    Inputs <- MCInputs
    Nil = Nil

SPECIFICATION Spec
INVARIANT FilesKeepInputOrder
