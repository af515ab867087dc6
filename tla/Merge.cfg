SPECIFICATION MCMergeSpec
CONSTANTS
    Calls <- MCCalls
    Types <- MCDumpTypes
    Data <- MCDumpData
    DumpOptions <- MCDumpOptions
    InitialOutputs <- MCInitialOutputs
    Version <- MCVersion
    MaxCalls = 2
    MaxDumpFaults = 1
INVARIANTS
    MergedRight
    FreedOnce
    
 
\* mergerepo_c ends, and nothing happens after the last call.
CHECK_DEADLOCK FALSE
