SPECIFICATION Spec
CONSTANTS
    Keys = {"old", "new"}
    Builtin = {"old"}
    Inodes = {i1, i2, i3, i4}
    Scenes <- SomeScenes
    None = None
    Hold = 2
    Remove = 1
    Retention = 1
    MaxDay = 6
    Depth = 2
    Episodes <- SomeEpisodes
    Responses <- SomeResponses
    Deadlines <- SomeDeadlines
    Names <- SomeNames
    SignedZones <- SomeZones
    Orders <- SomeOrders
    Questions <- SomeQuestions
INVARIANTS
    AnchorsWereHeld
    RolloverFollowed
    BogusIsContradicted
    DenialsAreExact
PROPERTIES
    SecureIsSigned
    OutagesPass
CHECK_DEADLOCK FALSE
