------------------------------- MODULE DbPool -------------------------------
(***************************************************************************)
(* How a request gets its PostgreSQL connection and gives it back          *)
(* (src/app/db.py): get_db hands every caller in a request one shared      *)
(* connection, drawn from a pool of psycopg2; the teardown of the request  *)
(* returns it.  One worker process, its threads serve one request each.    *)
(*                                                                         *)
(* A raw connection is known by its address, id(raw), which the next       *)
(* connection may get again once nothing refers to the object any more.    *)
(***************************************************************************)
EXTENDS Naturals, Sequences, FiniteSets, SequencesExt

CONSTANTS
    Threads,        \* threads of the worker
    Addresses,      \* addresses of raw connections
    MaxConn,        \* TC_PG_POOL_MAX
    MaxResets,      \* bound on how often the pool is thrown away
    NoRaw           \* no connection

Fits ==
    /\ Addresses \subseteq Nat /\ NoRaw \notin Addresses
    /\ MaxConn \in Nat \ {0} /\ MaxResets \in Nat

ASSUME PoolAssumption == Fits

VARIABLES
    accepts,        \* the server accepts new sessions
    raw,            \* raw[a]: the connection at address a
    pool,           \* _PG_POOL
    resolved,       \* _RESOLVED_PG_URL is set
    lastOk,         \* addresses with a _PG_LAST_OK entry younger than 30 s
    req             \* req[t]: the request thread t serves

poolVars == <<accepts, raw, pool, resolved, lastOk, req>>

Nothing == [state |-> "none", guarded |-> FALSE, tx |-> FALSE]
Opened == [Nothing EXCEPT !.state = "open"]
NoRequest == [pc |-> "idle", raw |-> NoRaw, pooled |-> FALSE, tries |-> 0, gen |-> 0, unit |-> FALSE]

PoolInit ==
    /\ accepts = TRUE
    /\ raw = [a \in Addresses |-> Nothing]
    /\ pool = [made |-> FALSE, gen |-> 0, idle |-> <<>>, used |-> {}]
    /\ resolved = FALSE
    /\ lastOk = {}
    /\ req = [t \in Threads |-> NoRequest]

(***************************************************************************)
(* psycopg2: raw connections and its ThreadedConnectionPool, whose getconn *)
(* and putconn run under a lock.                                           *)
(***************************************************************************)
\* The sessions the server still has.
Alive(a) == raw[a].state = "open"

\* A connection the process itself closed refuses everything.
Closed(a) == raw[a].state = "closed"

\* The new object gets an address nothing refers to, one with a stamp or one
\* without; of several alike the lowest.
NewAt(a) ==
    LET alike == {b \in Addresses : raw[b] = Nothing /\ (b \in lastOk <=> a \in lastOk)}
    IN  a \in alike /\ \A b \in alike : a <= b

Connect(a) ==
    /\ accepts /\ NewAt(a)
    /\ raw' = [raw EXCEPT ![a] = Opened]

\* The pool keeps one spare connection (minconn = 1) and closes the others.
Kept(p, a) == Len(p.idle) < 1 /\ ~Closed(a)

Put(a, broken) ==
    /\ a \in pool.used
    /\ IF ~broken /\ Kept(pool, a)
       THEN /\ pool' = [pool EXCEPT !.used = @ \ {a}, !.idle = Append(@, a)]
            /\ raw' = [raw EXCEPT ![a].tx = FALSE]
       ELSE /\ pool' = [pool EXCEPT !.used = @ \ {a}]
            /\ raw' = [raw EXCEPT ![a] = Nothing]

(***************************************************************************)
(* _open_db, called by the first get_db of a request.                      *)
(***************************************************************************)
\* The request goes on at pc, with the connection it holds.
Goto(t, pc) == req' = [req EXCEPT ![t].pc = pc]

Use(t, a, pooled) == req' = [req EXCEPT ![t] = [NoRequest EXCEPT !.pc = "use", !.raw = a, !.pooled = pooled]]

At(t, pc) == req[t].pc = pc
Mine(t) == req[t].raw

\* _pg_pool: made once, with one connection; every stamp is forgotten.
MakePool(t) ==
    /\ At(t, "idle") /\ resolved
    /\ IF pool.made \/ ~accepts
       THEN UNCHANGED <<raw, pool, lastOk>>
       ELSE \E a \in Addresses :
                /\ Connect(a)
                /\ pool' = [pool EXCEPT !.made = TRUE, !.idle = <<a>>, !.used = {}]
                /\ lastOk' = {}
    /\ req' = [req EXCEPT ![t].pc = IF pool.made \/ accepts THEN "get" ELSE "direct",
                          ![t].gen = IF pool.made \/ accepts THEN pool.gen ELSE 0]
    /\ UNCHANGED <<accepts, resolved>>

\* The pool this request looked up has been thrown away.
Stale(t) == ~pool.made \/ pool.gen # req[t].gen

Exhausted == pool.idle = <<>> /\ Cardinality(pool.used) = MaxConn

GetConn(t) ==
    /\ At(t, "get")
    /\ \/ /\ Stale(t) \/ Exhausted \/ (pool.idle = <<>> /\ ~accepts)
          /\ req' = [req EXCEPT ![t] = [NoRequest EXCEPT !.pc = "direct"]]
          /\ UNCHANGED <<raw, pool>>
       \/ /\ ~Stale(t) /\ pool.idle # <<>>
          /\ LET a == Last(pool.idle) IN
               /\ pool' = [pool EXCEPT !.idle = Front(@), !.used = @ \cup {a}]
               /\ req' = [req EXCEPT ![t].pc = "check", ![t].raw = a, ![t].pooled = TRUE]
          /\ UNCHANGED raw
       \/ /\ ~Stale(t) /\ pool.idle = <<>> /\ ~Exhausted
          /\ \E a \in Addresses :
               /\ Connect(a)
               /\ pool' = [pool EXCEPT !.used = @ \cup {a}]
               /\ req' = [req EXCEPT ![t].pc = "check", ![t].raw = a, ![t].pooled = TRUE]
    /\ UNCHANGED <<accepts, resolved, lastOk>>

\* Mutant: the tries are not counted.
CorpseAgain(t) ==
    LET a == Mine(t) IN
    /\ IF a \in pool.used
       THEN Put(a, TRUE)
       ELSE raw' = [raw EXCEPT ![a] = Nothing] /\ UNCHANGED pool
    /\ lastOk' = IF a \in pool.used THEN lastOk \ {a} ELSE lastOk
    /\ req' = [req EXCEPT ![t] =
                 IF a \notin pool.used THEN [NoRequest EXCEPT !.pc = "direct"]
                 ELSE [NoRequest EXCEPT !.pc = "get", !.gen = req[t].gen]]
    /\ UNCHANGED <<accepts, resolved>>

\* A corpse goes back to be closed and another one is tried, three times; a pool
\* that was closed meanwhile raises and the request connects directly.
Corpse(t) ==
    LET a == Mine(t) IN
    /\ IF a \in pool.used
       THEN Put(a, TRUE)
       ELSE raw' = [raw EXCEPT ![a] = Nothing] /\ UNCHANGED pool
    /\ lastOk' = IF a \in pool.used THEN lastOk \ {a} ELSE lastOk
    /\ req' = [req EXCEPT ![t] =
                 IF a \notin pool.used \/ req[t].tries = 2 THEN [NoRequest EXCEPT !.pc = "direct"]
                 ELSE [NoRequest EXCEPT !.pc = "get", !.gen = req[t].gen, !.tries = req[t].tries + 1]]
    /\ UNCHANGED <<accepts, resolved>>

\* Recently healthy: no probe, and the session guards are taken for granted.
Trusted(t) ==
    /\ At(t, "check")
    /\ ~Closed(Mine(t)) /\ Mine(t) \in lastOk
    /\ Use(t, Mine(t), TRUE)
    /\ UNCHANGED <<accepts, raw, pool, resolved, lastOk>>

\* A connection that answers gets its session guards (_pg_session_guards).
Probe(t) ==
    /\ At(t, "check")
    /\ Closed(Mine(t)) \/ Mine(t) \notin lastOk
    /\ IF Alive(Mine(t))
       THEN /\ lastOk' = lastOk \cup {Mine(t)}
            /\ raw' = [raw EXCEPT ![Mine(t)].guarded = TRUE]
            /\ Use(t, Mine(t), TRUE)
            /\ UNCHANGED <<accepts, pool, resolved>>
       ELSE Corpse(t)

\* A connection outside the pool, with its guards.
ConnectAlone(t, a) ==
    /\ accepts /\ NewAt(a)
    /\ raw' = [raw EXCEPT ![a] = [Opened EXCEPT !.guarded = TRUE]]
    /\ Use(t, a, FALSE)

\* Mutant: the pool is dropped without closing what it holds.
DirectForgets(t) ==
    /\ At(t, "direct")
    /\ \/ /\ \E a \in Addresses : ConnectAlone(t, a)
          /\ UNCHANGED <<pool, resolved>>
       \/ /\ ~accepts
          /\ resolved' = FALSE
          /\ Goto(t, "resolve")
          /\ IF pool.made
             THEN /\ pool' = [made |-> FALSE, gen |-> pool.gen + 1, idle |-> <<>>, used |-> {}]
                  /\ UNCHANGED raw
             ELSE UNCHANGED <<raw, pool>>
    /\ UNCHANGED <<accepts, lastOk>>

\* Outside the pool; a refusal throws the pool away, connections in use included.
Direct(t) ==
    /\ At(t, "direct")
    /\ \/ /\ \E a \in Addresses : ConnectAlone(t, a)
          /\ UNCHANGED <<pool, resolved>>
       \/ /\ ~accepts
          /\ resolved' = FALSE
          /\ Goto(t, "resolve")
          /\ IF pool.made
             THEN /\ raw' = [a \in Addresses |-> IF a \in ToSet(pool.idle) THEN Nothing
                                                 ELSE IF a \in pool.used THEN [raw[a] EXCEPT !.state = "closed", !.tx = FALSE]
                                                 ELSE raw[a]]
                  /\ pool' = [made |-> FALSE, gen |-> pool.gen + 1, idle |-> <<>>, used |-> {}]
             ELSE UNCHANGED <<raw, pool>>
    /\ UNCHANGED <<accepts, lastOk>>

\* Every candidate host is tried; the error of the last ends the request.
Resolve(t) ==
    /\ At(t, "resolve") \/ (At(t, "idle") /\ ~resolved)
    /\ \/ /\ \E a \in Addresses : ConnectAlone(t, a)
          /\ resolved' = TRUE
       \/ /\ ~accepts
          /\ req' = [req EXCEPT ![t] = NoRequest]
          /\ UNCHANGED <<raw, resolved>>
    /\ UNCHANGED <<accepts, pool, lastOk>>

(***************************************************************************)
(* The service functions of the request.  tx: the connection has a         *)
(* transaction open; unit: the function in progress executed statements it *)
(* has not committed.                                                      *)
(***************************************************************************)
Execute(t) ==
    /\ At(t, "use") /\ Alive(Mine(t))
    /\ raw' = [raw EXCEPT ![Mine(t)].tx = TRUE]
    /\ req' = [req EXCEPT ![t].unit = TRUE]
    /\ UNCHANGED <<accepts, pool, resolved, lastOk>>

\* A statement, or a commit, fails.  The shared connection is rolled back; the
\* caller lets the error pass, which ends its function, or carries on.
ExecuteFails(t, swallowed) ==
    /\ At(t, "use")
    /\ raw' = IF Closed(Mine(t)) THEN raw
              ELSE [raw EXCEPT ![Mine(t)].tx = FALSE,
                               ![Mine(t)].state = IF Alive(Mine(t)) THEN "open" ELSE "closed"]
    /\ req' = IF swallowed THEN req ELSE [req EXCEPT ![t].unit = FALSE]
    /\ UNCHANGED <<accepts, pool, resolved, lastOk>>

CommitUnit(t) ==
    /\ At(t, "use") /\ Alive(Mine(t))
    /\ raw' = [raw EXCEPT ![Mine(t)].tx = FALSE]
    /\ req' = [req EXCEPT ![t].unit = FALSE]
    /\ UNCHANGED <<accepts, pool, resolved, lastOk>>

\* A function that refuses closes the connection without a commit: with a shared
\* connection that does nothing.
Refuse(t) ==
    /\ At(t, "use") /\ req[t].unit
    /\ req' = [req EXCEPT ![t].unit = FALSE]
    /\ UNCHANGED <<accepts, raw, pool, resolved, lastOk>>

(***************************************************************************)
(* release_request_db.                                                     *)
(***************************************************************************)
\* _PGConn.close rolls back before it gives the connection back.
Teardown(t) ==
    LET a == Mine(t)
        clean == Alive(a) \/ ~raw[a].tx
    IN  /\ At(t, "use")
        /\ IF ~req[t].pooled
           THEN /\ raw' = [raw EXCEPT ![a] = Nothing]
                /\ req' = [req EXCEPT ![t] = NoRequest]
           ELSE /\ raw' = IF Closed(a) THEN raw
                          ELSE [raw EXCEPT ![a].tx = FALSE, ![a].state = IF clean THEN @ ELSE "closed"]
                /\ Goto(t, IF clean /\ ~Closed(a) THEN "put" ELSE "putbroken")
        /\ UNCHANGED <<accepts, pool, resolved, lastOk>>

\* A pool that does not know the connection, or none, leaves it to be closed.
PutBack(t) ==
    LET a == Mine(t)
        broken == At(t, "putbroken")
    IN  /\ At(t, "put") \/ broken
        /\ IF a \in pool.used
           THEN Put(a, broken)
           ELSE raw' = [raw EXCEPT ![a] = Nothing] /\ UNCHANGED pool
        /\ lastOk' = IF ~pool.made THEN lastOk
                     ELSE IF a \in pool.used /\ ~broken THEN lastOk \cup {a} ELSE lastOk \ {a}
        /\ req' = [req EXCEPT ![t] = NoRequest]
        /\ UNCHANGED <<accepts, resolved>>

(***************************************************************************)
(* The server and the clock.                                               *)
(***************************************************************************)
\* It drops sessions, refuses new ones and accepts them again; an outage is both.
Reap(a) ==
    /\ Alive(a)
    /\ raw' = [raw EXCEPT ![a].state = "dead", ![a].guarded = FALSE]
    /\ UNCHANGED <<accepts, pool, resolved, lastOk, req>>

ServerTurns ==
    /\ pool.gen < MaxResets \/ ~accepts
    /\ accepts' = ~accepts
    /\ UNCHANGED <<raw, pool, resolved, lastOk, req>>

\* Thirty seconds without use.
Ages(a) ==
    /\ a \in lastOk
    /\ lastOk' = lastOk \ {a}
    /\ UNCHANGED <<accepts, raw, pool, resolved, req>>

GetDb(t) == MakePool(t) \/ GetConn(t) \/ Trusted(t) \/ Probe(t) \/ Direct(t) \/ Resolve(t)
Serve(t) == Execute(t) \/ (\E b \in BOOLEAN : ExecuteFails(t, b)) \/ CommitUnit(t) \/ Refuse(t)
Close(t) == Teardown(t) \/ PutBack(t)

PoolNext ==
    \/ \E t \in Threads : GetDb(t) \/ Serve(t) \/ Close(t)
    \/ \E a \in Addresses : Reap(a) \/ Ages(a)
    \/ ServerTurns

\* A thread goes on until its request is answered; no handler loops for ever.
PoolSpec == PoolInit /\ [][PoolNext]_poolVars /\ \A t \in Threads : WF_poolVars(GetDb(t)) /\ WF_poolVars(Close(t))

(***************************************************************************)
(* Properties.                                                             *)
(***************************************************************************)
\* Rows, slots and requests hold what they may hold.
PoolTypeOK ==
    /\ accepts \in BOOLEAN /\ resolved \in BOOLEAN /\ lastOk \subseteq Addresses
    /\ raw \in [Addresses -> [state : {"none", "open", "dead", "closed"}, guarded : BOOLEAN, tx : BOOLEAN]]
    /\ pool.made \in BOOLEAN /\ pool.idle \in BoundedSeq(Addresses, 1) /\ pool.used \subseteq Addresses
    /\ Cardinality(pool.used) <= MaxConn
    /\ \A t \in Threads : req[t].raw \in Addresses \cup {NoRaw} /\ req[t].tries \in 0..2

Holders(a) == {t \in Threads : req[t].raw = a}

\* Every connection is either the idle one of the pool or in the hands of one
\* request, none is lost on any path of a failure, every slot of the pool belongs
\* to a request that will give it back, and a connection known to be closed is
\* never handed out again (_open_db, release_request_db).
OneHolder ==
    /\ PoolTypeOK
    /\ \A a \in Addresses :
        LET spare == a \in ToSet(pool.idle) IN
        /\ raw[a].state = "none" => Holders(a) = {} /\ ~spare
        /\ raw[a].state # "none" => Cardinality(Holders(a)) = (IF spare THEN 0 ELSE 1)
        /\ spare => raw[a].state # "closed"
    /\ \A a \in pool.used : \E t \in Holders(a) : req[t].pooled

\* Whatever the server does, a request that asked for a connection ends, and with
\* it its hold on the connection.
Answered == \A t \in Threads : ~At(t, "idle") ~> At(t, "idle")

=============================================================================
