CONSTANTS
    ONE = 100
    Mantissa = 1000
    LED_COUNT = 2
    STRING_COUNT = 2
    Capacity = 2
    FrameModulus = 2
    Clients = {c1}
    Alphas = {50}
    InitialConfig <- Scroll
    Workloads <- MCWorkloads
    Misfits <- MCMisfits
SPECIFICATION Spec
\* The programs end.
CHECK_DEADLOCK FALSE
INVARIANT TypeOK
INVARIANT TasksEndForACause
INVARIANT CommandsTakeEffectInOrder
INVARIANT PictureFollowsCommands
INVARIANT WhiteFollowsCommands
PROPERTY ImageLiesAsItHangs
PROPERTY WhiteSettles
PROPERTY CommandsAppliedWithoutBursts
