\* Two groups of one project, requested by two threads.
SPECIFICATION Spec
CONSTANTS
    Project = {1}
    Deps <- MCChain
    Root = {1}
    Connected = {1}
    Handler = {h1, h2}
    MaxGroup = 2
    MaxJob = 2
    Fault = {"abort", "restart"}
    MaxFault = 2
INVARIANT OneActiveGroup
