--------------------------------- MODULE MCMerge ---------------------------------
(* mergerepo_c: what is merged (MergeRepo), and how it is written and          *)
(* published (MergeDump).  One run checks both, the other rests.               *)
EXTENDS MCMergeRepo, MCMergeDump

VARIABLE merging        \* else the merged repository is written

FirstCall == CHOOSE c \in Calls : TRUE

MCMergeInit ==
    /\ merging \in BOOLEAN
    /\ MergeInit /\ MergeDumpInit
    /\ merging => DOMAIN files = {}
    /\ ~merging => call = FirstCall
MCMergeNext ==
    /\ UNCHANGED merging
    /\ \/ merging /\ MergeNext /\ UNCHANGED dumpVars
       \/ ~merging /\ MergeDumpNext /\ UNCHANGED mergeVars
MCMergeSpec == MCMergeInit /\ [][MCMergeNext]_<<merging, mergeVars, dumpVars>>
=============================================================================
