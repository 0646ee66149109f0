----------------------- MODULE MCStorageClassReplace -----------------------
EXTENDS StorageClassReplace
CONSTANTS c1, c2, metro, speed, on, off

MCKeys == {metro, speed}
MCBase == [k \in MCKeys |-> Unset]
\* One claim turns HyperMetro on, the other also sets the pair's speed.
MCChanges == [c \in Claims |->
                IF c = c1 THEN [k \in MCKeys |-> IF k = metro THEN on ELSE Unset]
                ELSE [k \in MCKeys |-> on]]
=============================================================================
