CONSTANTS
    Characters <- MCCharacters
    MethodNames <- MCMethodNames
    Requests <- MCRequests
    Client = {c1, c2}
    Descriptor = {d1, d2}
    Listener = listener
    NoClient = NoClient
    NoAnswer = NoAnswer
    Routes <- MCRoutes
    Cuts = {1, 9}
    Size = 16
    Leftovers <- MCLeftovers
SPECIFICATION FairSpec
INVARIANTS TypeOK OneDescriptorEach DataIsOfItsConnection RequestLineDecides StopsForAReason
PROPERTIES DropsAreDeserved ImplementsExchange Served
CHECK_DEADLOCK FALSE
