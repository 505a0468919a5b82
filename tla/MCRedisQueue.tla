--------------------------- MODULE MCRedisQueue ---------------------------
(* Small instances of RedisQueue for TLC.                                  *)
EXTENDS RedisQueue

Limit(ticks, creates, touches, destroys, adds, removes, losses, deaths, stalls, starts, restarts) ==
  [ ticks |-> ticks, creates |-> creates, touches |-> touches, destroys |-> destroys,
    adds |-> adds, removes |-> removes,
    losses |-> losses, deaths |-> deaths, stalls |-> stalls,
    starts |-> starts, restarts |-> restarts ]

(* Sessions and a restart of Redis; sessions and repeated commands; a job, *)
(* a stall and a restart; two adds, repeated, with a removal; two stalls,  *)
(* with the program started again.                                         *)
MCBudgets ==
  { Limit(5, 1, 2, 1, 0, 0, 0, 0, 0, 0, 1), Limit(4, 1, 2, 1, 0, 0, 1, 1, 0, 0, 0),
    Limit(2, 0, 0, 0, 1, 0, 0, 0, 1, 0, 1), Limit(2, 0, 0, 0, 2, 1, 1, 0, 0, 0, 0),
    Limit(0, 0, 0, 0, 2, 0, 0, 0, 2, 1, 0) }

(* One job is done at the third attempt, the other never.                  *)
MCFailTimes == [j \in Jobs |-> IF j = CHOOSE i \in Jobs : TRUE THEN 2 ELSE 3]
=============================================================================
