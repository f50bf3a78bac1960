\* keyRefreshDistributed(): items in party order, a silent joiner, engine errors.
CONSTANTS
    N = 3
    MaxRounds = 3
    Bcast = Bcast
    None = None
    CreatesArtifacts = {TRUE}
    EngineFails = TRUE
    Ident <- RefreshIdentSorted
    Batches <- RefreshBatches
SPECIFICATION Spec
INVARIANT ConvergedMeansComplete
INVARIANT ExactDelivery
PROPERTY ImplementsCeremony
