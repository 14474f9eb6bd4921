\* One group of one project, nothing fails.
SPECIFICATION Spec
CONSTANTS
    Project = {1}
    Deps <- MCChain
    Root = {1}
    Connected = {1}
    Handler = {h1}
    MaxGroup = 1
    MaxJob = 1
    Fault = {}
    MaxFault = 0
INVARIANT StatusSynced
