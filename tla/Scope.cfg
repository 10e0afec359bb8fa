SPECIFICATION Spec
CONSTANTS
    r1 = r1
    r2 = r2
    NoScope = NoScope
    Root = Root
    Child = Child
    Scopes <- TwoScopes
    Asking <- OneScope
    Suspending <- OneScope
    MaxCrashes = 1
    MaxFailures = 1
CONSTRAINT FewRequests
INVARIANTS TypeOK  FactIsOwn CancelledIsQuiet 
 
CHECK_DEADLOCK FALSE
