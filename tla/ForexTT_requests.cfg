\* One request, its submitter, two reviewers and an admin, two handlers in progress: claims,
\* overrides, takeovers and reopened approvals without attachments, and with one reviewer,
\* two categories of attachments and uploads of none to two files.
SPECIFICATION Spec
ACTION_CONSTRAINT OneScenario
CONSTANTS
    Submitter = sub
    FileForm = f1
    FileVersions = 3
    Users = {sub, rev1, rev2, adm}
    Reviewers = {rev1, rev2}
    Admins = {adm}
    Requests = {r1}
    Handlers = {h1, h2}
    Forms = {f1, f2}
    Categories = {c1, c2}
    None = None
    MaxVersion = 7
    MaxUploads = 2
    MaxFiles = 2
SYMMETRY Symmetry
INVARIANTS TypeOK DecidesOnCurrentRow ReviewedByAnother ClaimConsistent CurrentIsLatestUpload
PROPERTIES ClaimNotStolen ImplementsGate NoUploadUnderReview
CHECK_DEADLOCK FALSE
