\* One group of three projects, the last without a plan; any one fault.
SPECIFICATION Spec
CONSTANTS
    Project = {1, 2, 3}
    Deps <- MCChain
    Root = {1}
    Connected = {1, 2}
    Handler = {h1}
    MaxGroup = 1
    MaxJob = 3
    Fault = {"cancel", "abort", "reject", "requeue", "timeout", "refuse", "restart"}
    MaxFault = 1
INVARIANTS TypeOK BuildsAfterDeps  CompleteMeansDone
 
