SPECIFICATION Spec
CONSTANTS
    a = a
    b = b
    a1 = a1
    a2 = a2
    b1 = b1
    b2 = b2
    Clients = {a, b}
    Fences <- MCFences
    Keys <- MCFences
    Zero = zero
    Entries = 3
    Key <- MCKey
    Home <- MCHome
    Owner <- MCOwner
    Nobody = nobody
    NoFence = nofence
INVARIANTS
    HandleNamesFence
PROPERTIES
    ImplementsRegistry
    NoFenceLost
