SPECIFICATION Spec
CONSTANTS
    Admins = {a1, a2}
    Clients = {p1}
    Configs <- MCConfigs
    Keys <- MCKeys
    BadKeys <- MCBadKeys
    None = None
    MaxInits = 3
    MaxCloses = 1
    MaxLookups = 1
PROPERTIES
    CloseClosesAll
