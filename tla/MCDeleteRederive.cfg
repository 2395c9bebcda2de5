SPECIFICATION DRedSpec
CONSTANTS
    Statable <- MCStatable
    Derivable <- MCDerivable
    OwnRows <- MCOwnRows
    Unincremental = {"rest"}
    Nothing = Nothing
    MaxBatch = 2
INVARIANTS Exact CreditsGrounded Explained
