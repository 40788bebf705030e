SPECIFICATION Spec
CONSTANTS
    append = append
    replace = replace
    l1 = l1
    Panels <- MCPanels
    Listeners = {l1}
    Replaces = {replace}
    Framed = {append}
    MaxLength <- MCMaxLength
    DefaultLength = 1
    Schemas = {1, 2}
    Channels = {1, 2}
    MaxRows = 2
    MaxPacket = 2
    MaxBuffer = 2
    MaxTimers = 1
    None = None
INVARIANTS
    TypeOK
    InSync
    HeardIsOpen
PROPERTIES
    Released
CHECK_DEADLOCK FALSE
