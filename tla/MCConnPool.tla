---------------------------- MODULE MCConnPool ----------------------------
(***************************************************************************)
(* Three threads over two connections, for every kind of pool.             *)
(***************************************************************************)
EXTENDS ConnPool, TLC
CONSTANTS t1, t2, t3, k1, k2, k3

\* Two connections each, for three threads; one in the Redis pool of ChatServer,
\* where a waiter for the lock and its holder then compete for it.
Made2 == [k \in Kinds |-> IF k = "chat_redis" THEN <<k1>> ELSE <<k1, k2>>]
Users2 == [k \in Kinds |-> IF k \in {"chat_redis", "gate_mysql"} THEN {t1, t2} ELSE {t1, t2, t3}]
=============================================================================
