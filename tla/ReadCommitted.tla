--------------------------- MODULE ReadCommitted ---------------------------
(***************************************************************************)
(* The database as several requests see it at once (src/app/db.py on       *)
(* PostgreSQL, READ COMMITTED).  Each statement reads what is committed    *)
(* when it runs, plus the session's own writes; an UPDATE locks its row    *)
(* until the transaction ends; a session that waits for a lock longer than *)
(* lock_timeout gets an error, which ends its request.                     *)
(*                                                                         *)
(* The modules of interleaved requests extend this one and give each       *)
(* statement of a service function an action of its own.                   *)
(***************************************************************************)
EXTENDS Naturals, TLC

CONSTANTS
    Sessions        \* requests in progress, one per thread

VARIABLES
    db,             \* the committed rows
    mine            \* mine[s]: the rows s has written and not yet committed

\* Rows, with some of them replaced by others.
Over(new, old) ==
    [r \in DOMAIN new \cup DOMAIN old |-> IF r \in DOMAIN new THEN new[r] ELSE old[r]]

\* What a SELECT of session s returns.
Seen(s, r) == IF r \in DOMAIN mine[s] THEN mine[s][r] ELSE db[r]

\* The row is not locked by another session.
Free(s, r) == \A t \in Sessions \ {s} : r \notin DOMAIN mine[t]

\* An UPDATE or an INSERT: waits for the row, then works on its latest value.
Write(s, r, v) ==
    /\ Free(s, r)
    /\ mine' = [mine EXCEPT ![s] = Over([x \in {r} |-> v], @)]
    /\ UNCHANGED db

\* A statement that changes several rows at once.
WriteAll(s, rows) ==
    /\ \A r \in DOMAIN rows : Free(s, r)
    /\ mine' = [mine EXCEPT ![s] = Over(rows, @)]
    /\ UNCHANGED db

Read == UNCHANGED <<db, mine>>

NoRows == [r \in {} |-> 0]

Commit(s) ==
    /\ db' = Over(mine[s], db)
    /\ mine' = [mine EXCEPT ![s] = NoRows]

Rollback(s) ==
    /\ mine' = [mine EXCEPT ![s] = NoRows]
    /\ UNCHANGED db

=============================================================================
