SPECIFICATION Spec
CONSTANTS
    Address = address
    Light <- TheLight
    Switch <- TheSwitch
    Layouts <- TheLayouts
    Lists <- TheLists
    Registrations <- TheRegistrations
    Peers <- ThePeers
    Vaddrs <- TheVaddrs
    Answers <- TheAnswers
    Contents <- TheContents
    CutContents <- TheCutContents
    Padded <- ThePadded
    Trials <- TheTrials
INVARIANTS
    AdvertisementParsedAsLaidOut
    SwitchUnderstood
    StrangersIgnored
    UnpadAcceptsOnlyPadded
    CipherIsAes
