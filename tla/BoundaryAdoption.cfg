\* Another device saves between the adoption of a restore and its completion.
SPECIFICATION FairSpec
CONSTANTS
    Imports = {}
    Groups = {g}
    Edits = {}
    Remotes = {r}
    NoId = NoId
    MaxFaults = 2
CHECK_DEADLOCK FALSE
PROPERTIES AdoptionEnds
