SPECIFICATION FairSpec
CONSTANTS
    t1 = t1  i1 = i1  i2 = i2
    Tokens = {t1, t2}
    BootToken = b
    Ids = {i1, i2}
    IdOf <- MCIdOf
    None = None
    MaxCrashes = 2
    Bootstrap = TRUE
PROPERTIES LiveCredentialKept DeadCredentialDropped TokenRedeemed
