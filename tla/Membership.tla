----------------------------- MODULE Membership -----------------------------
(***************************************************************************)
(* The members of one workspace, its invites and the people its tasks are  *)
(* assigned to (product/store.py, product/control.py, auth_register of     *)
(* api/app.py).                                                            *)
(*                                                                         *)
(* A handler reads the membership of its caller (with the role of a target *)
(* in the same step), then what the store checks, then writes, each in a   *)
(* transaction of its own at READ COMMITTED and without a row lock: each   *)
(* is a step, and req[u] keeps where the request of user u is.  A user has *)
(* at most one request in flight.  The transaction that accepts an invite  *)
(* looks for the membership in one step; its INSERT and its conditional    *)
(* UPDATE take effect together, or not at all.                             *)
(***************************************************************************)
EXTENDS Integers, FiniteSets

CONSTANTS
  User,        \* users, one for each email
  Founder,     \* the user who created the workspace
  Acting,      \* users who send member, invite and assignment requests
  MaxTasks,    \* bound: conversations created in a behaviour
  MaxInvites,  \* bound: invites created in a behaviour
  Anyone,      \* stands for no user: an invite without email, nobody assigned
  AskedRole    \* the roles that clients ask for in a new invite

ASSUME UserAssumption ==
  /\ IsFiniteSet(User) /\ Founder \in User /\ Acting \subseteq User
  /\ Anyone \notin User

ASSUME InviteAssumption ==
  /\ MaxInvites \in Nat /\ MaxTasks \in Nat
  /\ AskedRole \subseteq {"owner", "admin", "member", "viewer"}

VARIABLES
  registered,  \* users with a row in users
  role,        \* memberships.role, "none" without a row
  invite,      \* workspace_invites rows
  expired,     \* invites whose expires_at has passed
  created,     \* conversations of the workspace
  assigned,    \* conversations.assigned_to
  req          \* the request each user has in flight

rows == <<registered, role, invite, expired, created, assigned>>
vars == <<registered, role, invite, expired, created, assigned, req>>

InviteId == 1..MaxInvites
Task == 1..MaxTasks
MemberRole == {"owner", "admin", "member", "viewer"}
Role == MemberRole \cup {"none"}
Owners == {u \in User : role[u] = "owner"}

Idle == [op |-> "idle", on |-> Anyone, id |-> 0, arg |-> "none"]
Step(op, on, id, arg) == [op |-> op, on |-> on, id |-> id, arg |-> arg]
Respond(u) == req' = [req EXCEPT ![u] = Idle]
Go(u, op, on, id, arg) == req' = [req EXCEPT ![u] = Step(op, on, id, arg)]

InviteRow ==
  [status : {"none", "pending", "accepted", "revoked"},
   for : User \cup {Anyone}, role : {"none", "admin", "member", "viewer"},
   by : User \cup {Anyone}]

RequestOp ==
  {"idle", "roleRead", "roleCount", "roleWrite", "removeRead", "removeCount",
   "removeWrite", "create", "handoff", "assign", "invite", "revoke",
   "lookUp", "join", "enter", "signUp"}

TypeOK ==
  /\ registered \subseteq User
  /\ role \in [User -> Role]
  /\ invite \in [InviteId -> InviteRow]
  /\ expired \subseteq InviteId
  /\ created \subseteq Task
  /\ assigned \in [Task -> User \cup {Anyone}]
  /\ req \in [User -> [op : RequestOp, on : User \cup {Anyone},
                       id : Nat, arg : Role]]

(* create_user_workspace has made the founder the owner.                   *)
Init ==
  /\ registered = {Founder}
  /\ role = [u \in User |-> IF u = Founder THEN "owner" ELSE "none"]
  /\ invite = [i \in InviteId |-> [status |-> "none", for |-> Anyone,
                                   role |-> "none", by |-> Anyone]]
  /\ expired = {}
  /\ created = {}
  /\ assigned = [t \in Task |-> Anyone]
  /\ req = [u \in User |-> Idle]

----------------------------------------------------------------------------
(* Changing a role.                                                        *)

Manages(u) == u \in Acting /\ role[u] \in {"owner", "admin"}

(* require_manager, on the membership read for this request; an admin may  *)
(* neither touch an owner nor make one, by the role the target has now.    *)
OwnersOnly(u, t, r) ==
  role[u] # "owner" /\ role[t] # "none" => role[t] # "owner" /\ r # "owner"

StartSetRole(u, t, r) ==
  /\ req[u] = Idle
  /\ Manages(u)
  /\ OwnersOnly(u, t, r)
  /\ Go(u, "roleRead", t, 0, r)
  /\ UNCHANGED rows

(* set_member_role reads the membership again; the number of owners only   *)
(* matters when an owner is to lose the role.                              *)
ReadRole(u) ==
  LET t == req[u].on
      r == req[u].arg
  IN /\ req[u].op = "roleRead"
     /\ \/ /\ role[t] = "none"
           /\ Respond(u)
        \/ /\ role[t] = "owner" /\ r # "owner"
           /\ Go(u, "roleCount", t, 0, r)
        \/ /\ role[t] # "none"
           /\ role[t] = "owner" => r = "owner"
           /\ Go(u, "roleWrite", t, 0, r)
     /\ UNCHANGED rows

\* variant: off by one in the comparison with the number of owners
NoOtherOwnerLate == Cardinality(Owners) <= 0
NoOtherOwner == Cardinality(Owners) <= 1

CountForRole(u) ==
  /\ req[u].op = "roleCount"
  /\ IF NoOtherOwner THEN Respond(u)
                     ELSE Go(u, "roleWrite", req[u].on, 0, req[u].arg)
  /\ UNCHANGED rows

(* The UPDATE changes nothing when the membership is gone.                 *)
\* variant: an upsert instead of an UPDATE
WriteRoleUpsert(u) ==
  /\ req[u].op = "roleWrite"
  /\ role' = [role EXCEPT ![req[u].on] = req[u].arg]
  /\ Respond(u)
  /\ UNCHANGED <<registered, invite, expired, created, assigned>>
WriteRole(u) ==
  /\ req[u].op = "roleWrite"
  /\ role' = IF role[req[u].on] = "none" THEN role
             ELSE [role EXCEPT ![req[u].on] = req[u].arg]
  /\ Respond(u)
  /\ UNCHANGED <<registered, invite, expired, created, assigned>>

----------------------------------------------------------------------------
(* Removing a member, with the tasks assigned to them.                     *)

StartRemove(u, t) ==
  /\ req[u] = Idle
  /\ Manages(u)
  /\ role[u] = "owner" \/ role[t] # "owner"
  /\ Go(u, "removeRead", t, 0, "none")
  /\ UNCHANGED rows

ReadRemoved(u) ==
  LET t == req[u].on
  IN /\ req[u].op = "removeRead"
     /\ \/ /\ role[t] = "none"
           /\ Respond(u)
        \/ /\ role[t] = "owner"
           /\ Go(u, "removeCount", t, 0, "none")
        \/ /\ role[t] \notin {"none", "owner"}
           /\ Go(u, "removeWrite", t, 0, "none")
     /\ UNCHANGED rows

CountForRemove(u) ==
  /\ req[u].op = "removeCount"
  /\ IF NoOtherOwner THEN Respond(u)
                     ELSE Go(u, "removeWrite", req[u].on, 0, "none")
  /\ UNCHANGED rows

\* variant: the tasks of a removed member stay assigned
UnassignNothing(t) == assigned
Unassign(t) ==
  [c \in Task |-> IF assigned[c] = t THEN Anyone ELSE assigned[c]]

WriteRemoved(u) ==
  /\ req[u].op = "removeWrite"
  /\ role' = [role EXCEPT ![req[u].on] = "none"]
  /\ assigned' = Unassign(req[u].on)
  /\ Respond(u)
  /\ UNCHANGED <<registered, invite, expired, created>>

----------------------------------------------------------------------------
(* Tasks and the people they are assigned to.                              *)

Edits(u) == u \in Acting /\ role[u] \notin {"none", "viewer"}

StartCreate(u) ==
  /\ req[u] = Idle
  /\ Edits(u)
  /\ Go(u, "create", Anyone, 0, "none")
  /\ UNCHANGED rows

CreateTask(u) ==
  /\ req[u].op = "create"
  /\ \E c \in Task \ created :
       /\ created' = created \cup {c}
       /\ assigned' = [assigned EXCEPT ![c] = u]
  /\ Respond(u)
  /\ UNCHANGED <<registered, role, invite, expired>>

(* update_conversation checks the new assignee first and writes later.     *)
CanWork(t) == role[t] \in {"owner", "admin", "member"}

StartHandoff(u, c, t) ==
  /\ req[u] = Idle
  /\ Edits(u)
  /\ c \in created
  /\ Go(u, "handoff", t, c, "none")
  /\ UNCHANGED rows

Assignable(t) == t = Anyone \/ CanWork(t)

CheckAssignee(u) ==
  /\ req[u].op = "handoff"
  /\ IF Assignable(req[u].on) THEN Go(u, "assign", req[u].on, req[u].id, "none")
                              ELSE Respond(u)
  /\ UNCHANGED rows

WriteAssignee(u) ==
  /\ req[u].op = "assign"
  /\ assigned' = [assigned EXCEPT ![req[u].id] = req[u].on]
  /\ Respond(u)
  /\ UNCHANGED <<registered, role, invite, expired, created>>

----------------------------------------------------------------------------
(* Invites: created and revoked by managers.                               *)

NextInvite(i) == /\ invite[i].status = "none"
                 /\ \A k \in 1..(i - 1) : invite[k].status # "none"

\* variant: an invite may make an owner, as a role change may
ConferrableAll(r) == r \in MemberRole
Conferrable(r) == r \in {"admin", "member", "viewer"}

StartInvite(u, for, r) ==
  /\ req[u] = Idle
  /\ Manages(u)
  /\ Conferrable(r)
  /\ Go(u, "invite", for, 0, r)
  /\ UNCHANGED rows

CreateInvite(u) ==
  /\ req[u].op = "invite"
  /\ \E i \in InviteId :
       /\ NextInvite(i)
       /\ invite' = [invite EXCEPT ![i] =
            [status |-> "pending", for |-> req[u].on, role |-> req[u].arg,
             by |-> Anyone]]
  /\ Respond(u)
  /\ UNCHANGED <<registered, role, expired, created, assigned>>

StartRevoke(u, i) ==
  /\ req[u] = Idle
  /\ Manages(u)
  /\ invite[i].status # "none"
  /\ Go(u, "revoke", Anyone, i, "none")
  /\ UNCHANGED rows

\* variant: the UPDATE of revoke_invite does not look at the status
RevocableAny(i) == invite[i].status # "none"
Revocable(i) == invite[i].status = "pending"

RevokeInvite(u) ==
  /\ req[u].op = "revoke"
  /\ invite' = IF Revocable(req[u].id)
               THEN [invite EXCEPT ![req[u].id].status = "revoked"] ELSE invite
  /\ Respond(u)
  /\ UNCHANGED <<registered, role, expired, created, assigned>>

InviteExpires(i) ==
  /\ invite[i].status # "none" /\ i \notin expired
  /\ expired' = expired \cup {i}
  /\ UNCHANGED <<registered, role, invite, created, assigned, req>>

----------------------------------------------------------------------------
(* Invites: accepted by a registered user, or by somebody who registers.   *)

Acceptable(i, u) ==
  /\ invite[i].status = "pending" /\ i \notin expired
  /\ invite[i].for \in {Anyone, u}

StartAccept(u, i) ==
  /\ req[u] = Idle
  /\ Acceptable(i, u)
  /\ Go(u, IF u \in registered THEN "lookUp" ELSE "signUp", Anyone, i, "none")
  /\ UNCHANGED rows

(* accept_invite: is the user a member already?                            *)
LookUpMembership(u) ==
  /\ req[u].op = "lookUp"
  /\ Go(u, IF role[u] = "none" THEN "join" ELSE "enter", Anyone, req[u].id,
        "none")
  /\ UNCHANGED rows

\* variant: the status is not checked when the invite is marked as accepted
StillOpenForAll(i) == TRUE
StillOpen(i) == invite[i].status = "pending"

Accepted(i, u) ==
  invite' = [invite EXCEPT ![i].status = "accepted", ![i].by = u]

(* The user was no member: the INSERT fails if they have become one, and   *)
(* all is rolled back if the invite is no longer pending.                  *)
Join(u) ==
  LET i == req[u].id
  IN /\ req[u].op = "join"
     /\ IF role[u] = "none" /\ StillOpen(i)
        THEN /\ role' = [role EXCEPT ![u] = invite[i].role]
             /\ Accepted(i, u)
        ELSE UNCHANGED <<role, invite>>
     /\ Respond(u)
     /\ UNCHANGED <<registered, expired, created, assigned>>

(* The user was a member: the invite is used up all the same.              *)
Enter(u) ==
  LET i == req[u].id
  IN /\ req[u].op = "enter"
     /\ IF StillOpen(i) THEN Accepted(i, u) ELSE UNCHANGED invite
     /\ Respond(u)
     /\ UNCHANGED <<registered, role, expired, created, assigned>>

(* create_user_from_invite: user, membership and invite, or nothing.       *)
SignUp(u) ==
  LET i == req[u].id
  IN /\ req[u].op = "signUp"
     /\ IF u \notin registered /\ StillOpen(i)
        THEN /\ registered' = registered \cup {u}
             /\ role' = [role EXCEPT ![u] = invite[i].role]
             /\ Accepted(i, u)
        ELSE UNCHANGED <<registered, role, invite>>
     /\ Respond(u)
     /\ UNCHANGED <<expired, created, assigned>>

(* create_user_workspace for another workspace.                            *)
Register(u) ==
  /\ u \notin registered
  /\ registered' = registered \cup {u}
  /\ UNCHANGED <<role, invite, expired, created, assigned, req>>

----------------------------------------------------------------------------
Starts(u) ==
  \/ \E t \in User, r \in MemberRole : StartSetRole(u, t, r)
  \/ \E t \in User : StartRemove(u, t)
  \/ StartCreate(u)
  \/ \E c \in Task, t \in User \cup {Anyone} : StartHandoff(u, c, t)
  \/ \E for \in User \cup {Anyone}, r \in AskedRole : StartInvite(u, for, r)
  \/ \E i \in InviteId : StartRevoke(u, i)
  \/ \E i \in InviteId : StartAccept(u, i)

Proceed(u) ==
  \/ ReadRole(u)
  \/ CountForRole(u)
  \/ WriteRole(u)
  \/ ReadRemoved(u)
  \/ CountForRemove(u)
  \/ WriteRemoved(u)
  \/ CreateTask(u)
  \/ CheckAssignee(u)
  \/ WriteAssignee(u)
  \/ CreateInvite(u)
  \/ RevokeInvite(u)
  \/ LookUpMembership(u)
  \/ Join(u)
  \/ Enter(u)
  \/ SignUp(u)

Next ==
  \/ \E u \in User : Starts(u)
  \/ \E u \in User : Proceed(u)
  \/ \E u \in User : Register(u)
  \/ \E i \in InviteId : InviteExpires(i)

Spec == Init /\ [][Next]_vars

----------------------------------------------------------------------------
(* What holds whatever the interleaving.                                   *)

(* An invite admits one user, and a revoked one nobody (accept_invite,     *)
(* create_user_from_invite): every member but the founder is the one who   *)
(* used up some invite, however many accepted it at the same time.         *)
MembersWereInvited ==
  \A u \in User : role[u] # "none" =>
    \/ u = Founder
    \/ \E i \in InviteId : invite[i].status = "accepted" /\ invite[i].by = u

(* A used or revoked invite stays what it is (revoke_invite).              *)
InviteOutcomeStands ==
  [][\A i \in InviteId :
       invite[i].status \in {"accepted", "revoked"} => invite'[i] = invite[i]]_vars

(* Who was removed returns by a new invite only: a role change in flight   *)
(* does not bring the membership back (set_member_role).                   *)
NobodyReturnsUninvited ==
  [][\A u \in User : role[u] = "none" /\ role'[u] # "none" =>
       \E i \in InviteId : /\ invite[i].status = "pending"
                           /\ invite'[i].status = "accepted"
                           /\ invite'[i].by = u]_vars

----------------------------------------------------------------------------
(* What holds when one user at a time manages the workspace.               *)

(* "a workspace must keep at least one owner" (product/store.py:354).      *)
WorkspaceHasOwner == Owners # {}

(* remove_member clears the tasks of whom it removes: no task is left to   *)
(* somebody outside the workspace.                                         *)
AssigneeIsMember ==
  \A c \in Task : assigned[c] # Anyone => role[assigned[c]] # "none"
=============================================================================
