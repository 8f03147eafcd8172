\* Two exports of two sessions over the control group and a data group, one receipt
\* kept, two mutations per group, under fairness; no symmetry.
CONSTANTS
    Control = control
    None = None
    Groups = {g1}
    Sessions = {s1, s2}
    MaxSequence = 1
    Payloads = {p1}
    ReceiptWindow = 1
    MaxContent = 2
SPECIFICATION LiveSpec
INVARIANTS
    NoOrphanFence
    ArtifactIsTheCut
    OneOutcomePerRequest
PROPERTIES
    DecidedOnce
    ExportsEnd
