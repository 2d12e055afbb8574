\* Four users and five connections (two of u1) on a client_list of two
\* slots and a registry with room for three users: duplicate logins, a
\* full client list, a full registry, logouts in any order and re-logins.
CONSTANTS
    User = {"u1", "u2", "u3", "u4"}
    Conn <- MCConnFive
    Owner <- MCOwnerFive
    MaxClients = 2
    MaxUsers = 3
    None = None
SPECIFICATION Spec
INVARIANT OneSessionPerUser
INVARIANT ListMatchesThreads
