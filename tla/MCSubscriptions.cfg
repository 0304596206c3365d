SPECIFICATION LoggedSpec
CONSTANTS
    Updates = {1, 2, 3, 4, 5}
    SubBufferSize = 2
    MaxSubs = 2
INVARIANTS SubsTypeOK SubscribedIsOpen InOrderNoDuplicates MissedOnlyWhenFull
PROPERTIES DeliveredOnlyGrows DrainsAfterCancel
CHECK_DEADLOCK FALSE
