SPECIFICATION Spec
CONSTANTS
    ArenaSize = 6
    Needed = 2
    MaxPayload = 2
    MaxDatagrams = 4
    MaxCrashes = 2
INVARIANTS TypeOK TornOnlyByCrashes NewestKept
