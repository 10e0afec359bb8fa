SPECIFICATION Spec
CONSTANTS
    r1 = r1
    r2 = r2
    NoScope = NoScope
    Root = Root
    Child = Child
    Scopes <- TwoScopes
    Asking <- OneScope
    Suspending <- OneScope
    MaxCrashes = 0
    MaxFailures = 0
CONSTRAINT OnlySuspending
INVARIANTS SettledIsQuiet
CHECK_DEADLOCK FALSE
