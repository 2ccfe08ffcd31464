--------------------------- MODULE ProcAuthority ---------------------------
(***************************************************************************)
(* Who may sign a rung, and who signs it instead when its only signer is   *)
(* the person who raised the request (app/approvals/services.py, the       *)
(* "authority" and "segregation-of-duties escalation" sections).           *)
(*                                                                         *)
(* An organisation `org` is what the users and proc_delegations tables say *)
(* at a moment:                                                            *)
(*     org.role  [Users -> Roles]          users.role                      *)
(*     org.staff SUBSET Users              users.is_active                 *)
(*     org.deleg SUBSET (Users \X Users)   open delegations <<from, to>>   *)
(* Dates of a delegation are abstracted to "open" or not.                  *)
(***************************************************************************)
EXTENDS ProcLadder

CONSTANTS Users,        \* accounts
          Roles,        \* platform role keys
          StageRoles,   \* [Stages -> SUBSET Roles], STAGE_ROLES + proc_stage_meta
          Superior,     \* [Roles -> Roles \cup {NoRole}], proc_escalations
          RoleLevel,    \* [Roles -> 0..BOD], ROLE_LEVEL; 0 is "no authority recorded"
          AdminRoles,   \* super_admin and the roles holding proc_admin
          ApproveRoles, \* the roles holding proc_approve
          NoRole

ASSUME AuthorityAssumption ==
  /\ StageRoles \in [Stages -> SUBSET Roles]
  /\ NoRole \notin Roles
  /\ Superior \in [Roles -> Roles \cup {NoRole}]
  /\ AdminRoles \subseteq Roles /\ ApproveRoles \subseteq Roles

Orgs == [role : [Users -> Roles], staff : SUBSET Users, deleg : SUBSET (Users \X Users)]

ESCALATION_MAX_DEPTH == 8

HoldsAuthority(role, stage) == RoleLevel[role] >= DOAM_LEVEL[stage]

Admin(org, u) == org.role[u] \in AdminRoles

\* active_delegator_roles: the roles other people have lent to u.
LentRoles(org, u) == {org.role[d[1]] : d \in {x \in org.deleg : x[2] = u}}

\* role_holders: active holders, and whoever such a role has been lent to.
RoleHolders(org, roles) ==
  {u \in Users : \/ u \in org.staff /\ org.role[u] \in roles
                 \/ LentRoles(org, u) \cap roles # {}}

\* stage_signers: holders of the roles that carry the rung's authority level.
StageSigners(org, stage, roles) ==
  RoleHolders(org, {r \in roles : HoldsAuthority(r, stage)})

\* can_act / can_act_step: `roles` is the rung's escalated role set, or the
\* stage's own when it was not escalated.
CanActAs(org, u, stage, roles) ==
  \/ Admin(org, u)
  \/ /\ org.role[u] \in ApproveRoles
     /\ LET allowed == {r \in roles : HoldsAuthority(r, stage)}
        IN  org.role[u] \in allowed \/ LentRoles(org, u) \cap allowed # {}

RungRoles(stage, esc) == IF esc # {} THEN esc ELSE StageRoles[stage]

CanActStep(org, u, stage, esc) == CanActAs(org, u, stage, RungRoles(stage, esc))

-----------------------------------------------------------------------------
(* The climb of resolve_escalation.                                        *)

\* can_sign_role(role, stage)
CanSignRole(role, stage) ==
  role \in AdminRoles \/ (role \in ApproveRoles /\ HoldsAuthority(role, stage))

\* People who are the only one able to sign some OTHER rung.
SoleSigners(holders, requester, skip) ==
  {u \in Users : \E s \in DOMAIN holders \ {skip} : holders[s] \ {requester} = {u}}

\* The role sets the climb visits: level 0 is the stage's own roles, and each
\* next one the superiors not seen before (which is what ends a cycle).
ClimbLevels(roles) ==
  LET lvl[d \in 0..ESCALATION_MAX_DEPTH] ==
        IF d = 0 THEN [now |-> roles, seen |-> roles]
        ELSE LET below == lvl[d-1]
                 up    == {Superior[r] : r \in below.now} \ (below.seen \cup {NoRole})
             IN  [now |-> up, seen |-> below.seen \cup up]
  IN  lvl

\* resolve_escalation's verdict: "" (unchanged), "escalated" with the roles that
\* sign instead, or "no_superior".  `holders` maps the ladder's stages to their
\* signers where the caller resolved them; `busy` already signed a rung.
ResolveEscalation(org, stage, requester, holders, busy) ==
  LET people == IF stage \in DOMAIN holders THEN holders[stage]
                ELSE StageSigners(org, stage, StageRoles[stage])
      barred == {requester} \cup busy \cup SoleSigners(holders, requester, stage)
      climb  == ClimbLevels(StageRoles[stage])
      Found(d) == {r \in Roles : /\ r \in climb[d].now
                                 /\ CanSignRole(r, stage)
                                 /\ RoleHolders(org, {r}) \ barred # {}}
      depths == {d \in 1..ESCALATION_MAX_DEPTH : Found(d) # {}}
  IN  IF people = {} \/ people \ ({requester} \cup busy) # {}
      THEN [why |-> "", roles |-> {}]
      ELSE IF depths = {} THEN [why |-> "no_superior", roles |-> {}]
      ELSE [why |-> "escalated",
            roles |-> Found(CHOOSE d \in depths : \A e \in depths : d <= e)]

\* The esc_role column: empty when the rung keeps its own signers or is parked.
EscRole(org, stage, requester, holders, busy) ==
  ResolveEscalation(org, stage, requester, holders, busy).roles
=============================================================================
