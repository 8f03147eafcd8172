SPECIFICATION Spec
CONSTANTS
    MaxPrincipals = 2
    MaxGrants = 9
    MaxVerifiers = 3
    MaxCertificates = 2
    Tasks = {t1, t2}
    Offered = {"Health", "Fetch", "CommitPublish", "ResolveByName", "BeginExport", "GetSecurityPolicy", "ApplySecurityMutation"}
    Mutations <- MCMutations
    Bootstrap <- MCBootstrap
    Credentials <- MCCredentials
    Principals = {"root", "app"}
    Stream = "s"
    Own <- MCOwn
    Peer <- MCPeer
    None = None
INVARIANTS
    NotReadyOnceDraining
    
PROPERTIES
    RevokedMeansRefused
    LeaseNeverGoesBack
SYMMETRY Symmetry
