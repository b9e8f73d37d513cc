SPECIFICATION Spec
CONSTANTS
    Scripts = {"poll"}
    MaxBody = 3
    Page = 1
    Nuls = {{}}
    Capacity = 2
    Block = 3
PROPERTIES
    BodyGetsWritten
CHECK_DEADLOCK FALSE
