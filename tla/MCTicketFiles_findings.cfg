CONSTANTS
    Attachments = {a1}
    Uploads = {u1}
    Blobs = {"blob"}
    BlobOf <- SameContent
    MaxEdits = 2
    Keepers = {k1}
    Timer = k1
    MaxCrashes = 1
    NoArtifact = none
SPECIFICATION Spec
CHECK_DEADLOCK FALSE
PROPERTIES
    EvidenceNeverDeleted
    ScanKeepsEdits
    MaintenanceGoesOn
