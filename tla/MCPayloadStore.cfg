CONSTANTS
    Terms = {1, 2}
    MaxIndex = 3
    Slots = {1}
    PublishIds <- MCPublishIds
    NoArtifact = NoArtifact
SPECIFICATION Spec
INVARIANTS
    NoStorageFault
    ActiveBankIsCommittedPrefix
    CurrentSnapshotIsComplete
    PayloadsAccountedFor
