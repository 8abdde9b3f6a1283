---------------------------- MODULE MCStatistic ----------------------------
EXTENDS StatisticProofs, TLC

CONSTANTS t1, t2, s1, s2, c

(* The creator of c uses StatLock.  The deleter of StatInfo uses c, which  *)
(* has been destroyed before or was never created, and, as the destructor  *)
(* of StatisticInfo does, its own static.                                  *)
MCCreatorUses == [s \in Statics |-> IF s = c THEN <<StatLock>> ELSE <<>>]
MCDeleterUses == [s \in Statics |-> IF s = StatInfo THEN <<c, StatInfo>> ELSE <<>>]

ASSUME OrderHypothesis == DeletersApart
=============================================================================
