SPECIFICATION FairSpec
CONSTANTS
    vm1 = vm1
    vm2 = vm2
    NoVM = NoVM
    VM <- MCVM
INVARIANTS
    TypeOK
    QueueIsSound
    RevertIsExclusive
PROPERTIES
    HowStranded
    TroubleIsReverted
