\* keygen() when a batch holds peer-to-peer messages followed by a broadcast.
CONSTANTS
    N = 3
    MaxRounds = 2
    Bcast = Bcast
    CreatesArtifacts = {TRUE}
    EngineFails = FALSE
    None = None
    Ident <- MCIdent
    Batches <- MixedBatches
SPECIFICATION Spec
INVARIANT ExactDelivery
