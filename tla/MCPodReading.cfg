SPECIFICATION Spec
CONSTANTS
    Words <- MCWords
    Chars <- MCChars
    Class <- MCClass
    NoValue = "<no value>"
    Keys = {"app", "cat", "version", "environment", "url"}
    Paths = {"url"}
    Attributes = {"team", "owner"}
    MaxAttributeValueSize = 5
    Error = Error
    NoTemplate = NoTemplate
    NoAttribute = NoAttribute
    NoDeployment = NoDeployment
    NoStatus = NoStatus
    NoDefault = NoDefault
    NoContainer = NoContainer
    PodSlot <- MCPod
    NamespaceSlot <- MCNamespace
    Slots <- MCSlots
    Variants <- MCVariants
    InitialObjects <- MCInitialObjects
    Listeners <- MCListeners
    MultiListener = TRUE
    StatusMapping <- MCStatusMapping
    MaxChanges = 2
    NoObject = NoObject
    NoController = NoController
    NoRef = NoRef
INVARIANTS
    TypeOK
    PayloadIsOfItsTime
    WellFormedPayload
    NewVersionSameEnvironment
    DefaultsNeedOnlyTheImage
CHECK_DEADLOCK FALSE
