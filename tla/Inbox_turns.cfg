\* Three messages, two at a time, three cases, one request of a person.
CONSTANTS
    None = None
    p1 = p1
    p2 = p2
    Messages = {m1, m2, m3}
    Cases = {1, 2, 3}
    People <- MCPeople
    Roles <- MCRoles
    RoleOf <- MCRoleOf
    Senders = {"cliente", "desconocido", "comercial"}
    Updates <- MCUpdates
    MaxInFlight = 2
    MaxFailures = 1
    MaxRequests = 1
SPECIFICATION Spec
SYMMETRY Symmetry
INVARIANTS TypeOK OneResultPerCase OneReplyPerMessage HumanIsNotTalkedOver PromiseIsKept OneCustomerCollecting
