SPECIFICATION Spec
CONSTANTS
    Codes = {c1}
    NoCode = NoCode
    NoAuth = NoAuth
    NoFile = NoFile
    MaxInstalls = 1
    MaxEvents = 3
CONSTRAINT NoOverlap
CHECK_DEADLOCK FALSE
PROPERTY EditsStayLocal
