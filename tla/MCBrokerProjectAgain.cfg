SPECIFICATION FairSpec
CONSTANTS
    alice = alice
    bob = bob
    Parties = {alice, bob}
    Creator = alice
    MaxCreates = 2
    MaxInvites = 2
    MaxReplies = 2
    MaxArchives = 2
    MaxDeletes = 2
    MaxChecks = 1
    MaxCrashes = 0
INVARIANTS
    JoinedIsMember
PROPERTIES
    HandlersEnd
CHECK_DEADLOCK FALSE
