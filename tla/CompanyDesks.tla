---------------------------- MODULE CompanyDesks ----------------------------
(***************************************************************************)
(* The desks that share nothing but the database, next to each other: the  *)
(* five of DeskSessions and the spare-parts desk of SpareSessions.  A      *)
(* behaviour is about one of them; the sessions, their transactions and    *)
(* the fairness of the threads are those of the one database.              *)
(***************************************************************************)
EXTENDS DeskSessions

CONSTANTS
    Part, Ticket, Machine, Asked, Given, Rungs, Need, InStock, MaxStock,    \* of SpareSessions
    SparesTogether              \* functions of the spare-parts desk that may overlap

VARIABLES
    posted          \* what the spare-parts desk has posted

Spares == INSTANCE SpareSessions WITH Together <- SparesTogether

ASSUME SparesAssumption == Spares!StoreAssumption

all == <<vars, posted>>

AtSpares == desk = "spares"

DesksInit ==
    \/ Init /\ posted = Spares!NoPosting
    \/ AtSpares /\ Spares!Init

DesksNext ==
    \/ ~AtSpares /\ Next /\ UNCHANGED posted
    \/ AtSpares /\ Spares!Next /\ UNCHANGED desk

\* The thread of session s executes a statement.
Executes(s) ==
    \/ ~AtSpares /\ Work(s) /\ UNCHANGED posted
    \/ AtSpares /\ Spares!Work(s) /\ UNCHANGED desk

DesksSpec == DesksInit /\ [][DesksNext]_all /\ \A s \in Sessions : WF_all(Executes(s))

(***************************************************************************)
(* Properties.                                                             *)
(***************************************************************************)
\* At the five desks: what is granted is backed (see DeskSessions).
DesksBacked == ~AtSpares => GrantsBacked

\* At the spare-parts desk: requests, stock and vouchers agree (see SpareSessions).
SparesTrue == AtSpares => Spares!SparesTrue

=============================================================================
