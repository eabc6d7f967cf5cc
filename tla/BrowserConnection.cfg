CONSTANTS
    MaxFaults = 2
    MaxRetries = 1
    MaxQueue = 1
    Escapes = TRUE
SPECIFICATION ConnSpec
INVARIANT ConnTypeOK
INVARIANT PartnersAgree
INVARIANT ConnectionIsShown
PROPERTY ConnectionRecovers
