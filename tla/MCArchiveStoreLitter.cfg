CONSTANTS
    MaxAdds = 1
    MaxChunks = 1
    MaxRows = 1
    Quota = 3
SPECIFICATION FairSpec
PROPERTIES
    RecoversFromAnyTemporary
