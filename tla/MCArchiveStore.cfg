CONSTANTS
    MaxAdds = 3
    MaxChunks = 1
    MaxRows = 2
    Quota = 3
SPECIFICATION FairSpec
INVARIANTS
    DirectorySound
PROPERTIES
    EvidencePreserved
    ImplementsLog
    Recovers
