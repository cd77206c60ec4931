CONSTANTS
    Thread = {t1, t2}
    Base = Base
    Sub = Sub
    Face = Face
    Class <- FlagClass
    Super <- FlagSuper
    Interfaces <- FlagInterfaces
    IfTable <- FlagInterfaces
    IsInterface = {Face}
    HasDefault = {Face}
    Programs <- FlagPrograms
    Calls <- FlagClass
    MaxCalls = 1
    None = None
SPECIFICATION Spec
CHECK_DEADLOCK FALSE
INVARIANT InterfacesInitializedFirst
