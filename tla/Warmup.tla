------------------------------- MODULE Warmup -------------------------------
(***************************************************************************)
(* What a warm-up is for: the state a new owner rebuilds at a committed    *)
(* offset has the same output from then on as that of a process that read  *)
(* everything. The page state and the cleaner (within its window) meet     *)
(* this; edit war detection does not, see DetectorFeed.                    *)
(***************************************************************************)
EXTENDS Processor

\* Agreeing[p][k]: states after k messages of p whose output agrees with the
\* sequential run from then on.
CONSTANT Agreeing

ASSUME WarmupSuffices ==
    \A p \in Partitions :
        /\ \A k \in 0..Len(Log[p]) :
               /\ Restore(Fresh, p, k, SeqOut[p][k]) \in Agreeing[p][k]
               /\ NoState \notin Agreeing[p][k]
        /\ \A k \in 0..(Len(Log[p]) - 1) : \A s \in Agreeing[p][k] :
               /\ Emits(s, Log[p][k + 1]) = SeqEmits(p, k)
               /\ Absorb(s, Log[p][k + 1]) \in Agreeing[p][k + 1]
=============================================================================
