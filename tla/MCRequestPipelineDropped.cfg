\* One request.
CONSTANTS
    Calls = {c1}
SPECIFICATION Spec
INVARIANTS
    AbnormalCloseRecorded
