--------------------------- MODULE MCVolumeModify ---------------------------
(* Instances of VolumeModify for TLC.                                      *)
EXTENDS VolumeModify, TLC

CONSTANTS v1, v2

Symmetry == Permutations(Vols)

\* History: the contents waitClaimCompleted found in the cache when it went on
\* to replaceStorageClass.
VARIABLE counted

HistoryInit == Init /\ counted = {}

HistoryNext ==
  /\ Next
  /\ counted' = CASE claimPc' # "replace" -> {}
                  [] claimPc = "wait" /\ claimPc' = "replace" ->
                       {v \in claimCopy.contents : lister[v].live}
                  [] OTHER -> counted

HistorySpec == HistoryInit /\ [][HistoryNext]_<<vars, counted>>

FairHistorySpec == HistorySpec /\ Fairness

\* The class is replaced only when every volume whose content was in the cache
\* has been modified, unless the claim is being deleted: a content that
\* waitClaimCompleted did not find there is counted as completed unseen.
ReplacedWhenCountedAreModified ==
  [][~ Replaced(classes) /\ Replaced(classes')
       => claim.del \/ \A v \in counted : content[v].live /\ metro[v]]_<<vars, counted>>
=============================================================================
