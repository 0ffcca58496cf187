\* Two clients, one authorization, three token requests, two requests of administrators.
SPECIFICATION Spec
CONSTANTS
    Clients = {"crm", "erp"}
    Registrations <- SomeRegistrations
    FirstClient <- CrmOnly
    Patches <- SomePatches
    e1 = e1
    e2 = e2
    Editors = {e1, e2}
    MaxCodes = 1
    MaxTokens = 3
    MaxEdits = 2
    MaxFaults = 1
INVARIANTS GrantFollowsCode CodeUsedOnce RevokedIsFinal EditsKept
SYMMETRY EditorSymmetry
CHECK_DEADLOCK FALSE
