SPECIFICATION Spec
CONSTANTS
    alice = alice
    bob = bob
    carol = carol
    Parties = {alice, bob, carol}
    Creator = alice
    MaxCreates = 1
    MaxInvites = 2
    MaxReplies = 2
    MaxArchives = 1
    MaxDeletes = 1
    MaxChecks = 1
    MaxCrashes = 1
SYMMETRY Symmetry
INVARIANTS
    TypeOK
    JoinedIsMember
    ArchivedByCreator
    MembersSound
PROPERTIES
    MembershipFrozen
    NeverUnarchived
CHECK_DEADLOCK FALSE
