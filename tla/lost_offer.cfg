SPECIFICATION Spec
PROPERTIES
    OfferReachesServer
