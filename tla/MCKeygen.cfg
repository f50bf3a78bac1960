\* keygen() and create_signers_and_pre_sign(): 3 parties, 3 rounds of broadcasts
\* or peer-to-peer messages.
CONSTANTS
    N = 3
    MaxRounds = 3
    Bcast = Bcast
    CreatesArtifacts = {TRUE, FALSE}
    EngineFails = FALSE
    None = None
    Ident <- MCIdent
    Batches <- KeygenBatches
SPECIFICATION Spec
INVARIANT TypeOK
INVARIANT ExactDelivery
PROPERTY Completes
PROPERTY ImplementsCeremony
