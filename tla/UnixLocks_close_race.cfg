SPECIFICATION Spec
CONSTANTS
    a1 = a1  a2 = a2  a3 = a3  b1 = b1  A = A  B = B
    Files = {a1, a2, b1}
    Procs = {A, B}
    ProcOf <- MCProcOf
    NoFile = NoFile
    CloseAlone = FALSE
INVARIANT
    NoConflict
