SPECIFICATION Spec
CONSTANTS
    r1 = r1  r2 = r2  s1 = s1  s2 = s2  a1 = a1  a2 = a2  d1 = d1  i1 = i1  g1 = g1
    Runtimes = {r1}
    Specs = {s1, s2}
    Activations = {a1, a2}
    Artifacts = {d1}
    Images = {i1}
    Generations = {g1}
    Calls = {p1, p2}
    Nobody = Nobody
    AuthorizedSpec <- MCAuthorizedSpec
    ArtifactOf <- MCArtifactOf
    ImageOf <- MCImageOf
    GenerationOf <- MCGenerationOf
    MaxClaims = 2
    MaxCrashes = 1
    MaxPairings = 1
SYMMETRY CallSymmetry
INVARIANTS LedgerAccounts AbsentIsAbsent IdentityBound SupersededGone ActivationAuthorized
PROPERTIES ImplementsContract
