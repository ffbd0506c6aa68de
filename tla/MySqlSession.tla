---------------------------- MODULE MySqlSession ----------------------------
(***************************************************************************)
(* What a pooled MySQL connection remembers between two users, as InnoDB   *)
(* does at its default isolation level (REPEATABLE READ).  The database is *)
(* external; how its sessions are used is MysqlDao's doing: a transaction  *)
(* switches autocommit off and no code switches it on again, so from then  *)
(* on a SELECT opens a snapshot that stays until the next commit or        *)
(* rollback on that connection.                                            *)
(***************************************************************************)
CONSTANTS Conns,   \* the connections of one server's pool
          NoView   \* no snapshot is open

VARIABLES auto,    \* is autocommit on?
          view     \* the snapshot SELECT reads

SessionInit == auto = [c \in Conns |-> TRUE] /\ view = [c \in Conns |-> NoView]

\* What a SELECT on c answers while the committed tables are db.
Seen(c, db) == IF view[c] = NoView THEN db ELSE view[c]

\* The session after setAutoCommit(false), a SELECT, and commit() or rollback().
AutoOff(c)    == [auto EXCEPT ![c] = FALSE]
Opened(c, db) == [view EXCEPT ![c] = Seen(c, db)]
Read(c, db)   == IF auto[c] THEN view ELSE Opened(c, db)
Ended(c)      == [view EXCEPT ![c] = NoView]
=============================================================================
