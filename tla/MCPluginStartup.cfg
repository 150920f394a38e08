CONSTANT
    Publishers <- MCPublishers
SPECIFICATION Spec
INVARIANT TypeOK
INVARIANT AdvertisedIsTrue
INVARIANT NothingIsLeft
CHECK_DEADLOCK FALSE
