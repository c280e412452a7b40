CONSTANTS
    anna = anna
    anna_ = anna_
    zoe = zoe
    code = code
    Users <- MCUsers
    NoUser = NoUser
    Suffixed <- MCSuffixed
    Trimmed <- MCTrimmed
    Encoded <- MCEncoded
    Places <- MCPlaces
    Stamps = {"t1"}
    NoStamp = "none"
    Printed <- MCPrinted
    Uploads <- MCUploads
    MaxPlayers = 2
    MaxPaths = 1
    MaxFile = 1
    MaxRuns = 2
    MaxEvents = 4
    CanFail = TRUE
    CanLag = TRUE
SPECIFICATION PlayersSpec
INVARIANT PlayersTypeOK
INVARIANT LinksWitnessed
INVARIANT NeverGuessed
PROPERTY StaleCandidatesGo
PROPERTY EvidenceStays
CHECK_DEADLOCK FALSE
