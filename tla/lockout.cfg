\* Three users, one connection each, on a client_list of two slots: a
\* logout shifts the list and a login refills the freed slot before
\* another logout reads its name back.
CONSTANTS
    User = {"u1", "u2", "u3"}
    Conn <- MCConnThree
    Owner <- MCOwnerThree
    MaxClients = 2
    MaxUsers = 3
    None = None
SPECIFICATION Spec
INVARIANT ActiveHasThread
