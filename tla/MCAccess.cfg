SPECIFICATION Spec
CONSTANTS
    Members = {alice, bob}
    Groups = {g1, g2}
    Everyone = Everyone
    Roles = {"VIEWER", "MANAGER"}
    Handlers = {h1, h2}
    Founder = alice
    None = None
SYMMETRY Interchangeable
INVARIANTS TypeOK AdminRemains GroupForest ManagersAgree
PROPERTIES ManagerKept AuthorityHolds
CHECK_DEADLOCK FALSE
