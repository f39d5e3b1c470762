CONSTANTS
    Runs = {r1, r2}
    MaxSecrets = 3
    MaxRequests = 2
    MaxFaults = 2
SPECIFICATION Spec
INVARIANTS TypeOK StoredSecretIsFinal NotLockedOut SavedKeyIsIssued
