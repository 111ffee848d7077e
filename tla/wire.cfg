SPECIFICATION FairSpec
CONSTANTS
    alice = alice
    bob = bob
    keyed = keyed
    keyless = keyless
    same = same
    stray = stray
    garbled = garbled
    k = k
    Key = {k}
    NoKey = none
    Attempt = {1, 2, 3}
    Intent = {keyed, keyless, same, stray, garbled}
    Peer = {alice, bob}
    PeerOf <- IntentPeer
    KeyOf <- IntentKey
    Misaddressed = {stray}
    Unreadable = {garbled}
    MaxReplayWindow = 1
    MaxTrackedPeers = 1
    MaxConns = 3
    MaxFailures = 1
INVARIANT IntentAppliesOnce
INVARIANT ReceiptsAreTrue
PROPERTY EveryRequestIsAnswered
CHECK_DEADLOCK FALSE
