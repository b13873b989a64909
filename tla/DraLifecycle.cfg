CONSTANT Peers = 2
SPECIFICATION FairSpec
INVARIANT TypeOK
INVARIANT HookMeetsContext
INVARIANT CoreStartsComplete
INVARIANT NeverRefusedUnfilled
INVARIANT NoAbandonedCore
PROPERTY NativeOnlyAtTheEdges
PROPERTY TerminationEnds
