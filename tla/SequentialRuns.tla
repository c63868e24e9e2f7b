--------------------------- MODULE SequentialRuns ---------------------------
(***************************************************************************)
(* The sequential run of a Processor, computed from its hooks: values for  *)
(* SeqState, SeqOut and Agreeing.                                          *)
(***************************************************************************)
EXTENDS Processor

RunState ==
    [p \in Partitions |->
        LET run[k \in 0..Len(Log[p])] ==
                IF k = 0 THEN Fresh ELSE Absorb(run[k - 1], Log[p][k])
        IN run]
RunOut ==
    [p \in Partitions |->
        LET run[k \in 0..Len(Log[p])] ==
                IF k = 0 THEN <<>>
                ELSE run[k - 1] \o Emits(RunState[p][k - 1], Log[p][k])
        IN run]
RunAgreeing ==
    [p \in Partitions |->
        LET run[k \in 0..Len(Log[p])] ==
                {Restore(Fresh, p, k, RunOut[p][k])} \union
                (IF k = 0 THEN {} ELSE {Absorb(s, Log[p][k]) : s \in run[k - 1]})
        IN run]
=============================================================================
