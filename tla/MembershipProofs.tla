-------------------------- MODULE MembershipProofs --------------------------
(***************************************************************************)
(* Theorems of Membership for every set of users and every bound.          *)
(***************************************************************************)
EXTENDS Membership, FiniteSetTheorems, TLAPS

RoleOps   == {"roleRead", "roleCount", "roleWrite"}
RemoveOps == {"removeRead", "removeCount", "removeWrite"}
InviteOps == {"revoke", "lookUp", "join", "enter", "signUp"}

(* What a request in flight carries.                                       *)
Carries(r) ==
  /\ r.op \in RoleOps => r.on \in User /\ r.arg \in MemberRole
  /\ r.op \in RemoveOps => r.on \in User
  /\ r.op = "invite" => Conferrable(r.arg)
  /\ r.op \in InviteOps => r.id \in InviteId
Requests == \A u \in User : Carries(req[u])

(* An invite that exists confers one of the roles invites may have.        *)
InviteRoles ==
  \A i \in InviteId : invite[i].status # "none" => Conferrable(invite[i].role)

IInv == TypeOK /\ Requests /\ InviteRoles /\ MembersWereInvited

(* Somebody is an owner even when t is not.                                *)
OwnerBesides(t) == \E o \in User \ {t} : role[o] = "owner"
OwnerBesidesAfter(t) == \E o \in User \ {t} : role'[o] = "owner"

(* Who is a member, or accepts an invite as a user, is registered.         *)
MembersRegistered ==
  \A u \in User :
    role[u] # "none" \/ req[u].op \in {"lookUp", "join", "enter"} => u \in registered

(* A change in flight leaves an owner, and only users who act manage.      *)
OwnerInv ==
  /\ WorkspaceHasOwner
  /\ MembersRegistered
  /\ \A u \in User :
       /\ req[u].op \in RoleOps \cup RemoveOps => u \in Acting
       /\ req[u].op = "roleWrite" /\ req[u].arg # "owner" => OwnerBesides(req[u].on)
       /\ req[u].op = "removeWrite" => OwnerBesides(req[u].on)

----------------------------------------------------------------------------
(* An action that touches req[u] only by answering, or by moving on with   *)
(* what it carries, keeps the types and the contents of the requests.      *)
LEMMA Answered ==
  ASSUME IInv, NEW u \in User, Respond(u)
  PROVE  /\ req' \in [User -> [op : RequestOp, on : User \cup {Anyone},
                               id : Nat, arg : Role]]
         /\ Requests'
<1>1. Idle \in [op : RequestOp, on : User \cup {Anyone}, id : Nat, arg : Role]
  BY DEF Idle, RequestOp, Role
<1>2. Idle.op = "idle"
  BY DEF Idle
<1>3. Carries(Idle)
  BY <1>2 DEF Carries, RoleOps, RemoveOps, InviteOps
<1>. QED
  BY <1>1, <1>3 DEF IInv, TypeOK, Requests, Carries, Respond

LEMMA MovedOn ==
  ASSUME IInv, NEW u \in User, NEW op \in RequestOp,
         NEW on \in User \cup {Anyone}, NEW id \in Nat, NEW arg \in Role,
         Carries(Step(op, on, id, arg)), Go(u, op, on, id, arg)
  PROVE  /\ req' \in [User -> [op : RequestOp, on : User \cup {Anyone},
                               id : Nat, arg : Role]]
         /\ Requests'
<1>1. Step(op, on, id, arg)
        \in [op : RequestOp, on : User \cup {Anyone}, id : Nat, arg : Role]
  BY DEF Step
<1>. QED
  BY <1>1 DEF IInv, TypeOK, Requests, Carries, Go

(* A request that starts, or reads on its way, changes no row and keeps    *)
(* what it carries.                                                        *)
ReqOK == req \in [User -> [op : RequestOp, on : User \cup {Anyone},
                           id : Nat, arg : Role]]

LEMMA OnlyRequests ==
  ASSUME IInv, UNCHANGED rows, ReqOK', Requests' PROVE IInv'
BY DEF IInv, ReqOK, TypeOK, InviteRoles, MembersWereInvited, rows

LEMMA StartsKeep ==
  ASSUME IInv, NEW u \in User, Starts(u)
  PROVE  UNCHANGED rows /\ ReqOK' /\ Requests'
<1>. USE DEF Carries, Step, RoleOps, RemoveOps, InviteOps, RequestOp, Role,
             MemberRole, ReqOK
<1>1. ASSUME NEW t \in User, NEW r \in MemberRole, StartSetRole(u, t, r)
      PROVE  UNCHANGED rows /\ ReqOK' /\ Requests'
  BY <1>1, MovedOn DEF StartSetRole
<1>2. ASSUME NEW t \in User, StartRemove(u, t)
      PROVE  UNCHANGED rows /\ ReqOK' /\ Requests'
  BY <1>2, MovedOn DEF StartRemove
<1>3. ASSUME StartCreate(u) PROVE UNCHANGED rows /\ ReqOK' /\ Requests'
  BY <1>3, MovedOn DEF StartCreate
<1>4. ASSUME NEW c \in Task, NEW t \in User \cup {Anyone}, StartHandoff(u, c, t)
      PROVE  UNCHANGED rows /\ ReqOK' /\ Requests'
  <2>1. c \in Nat
    BY DEF Task
  <2>. QED BY <1>4, <2>1, MovedOn DEF StartHandoff
<1>5. ASSUME NEW for \in User \cup {Anyone}, NEW r \in AskedRole,
             StartInvite(u, for, r)
      PROVE  UNCHANGED rows /\ ReqOK' /\ Requests'
  BY <1>5, MovedOn, InviteAssumption DEF StartInvite, Conferrable
<1>6. ASSUME NEW i \in InviteId, StartRevoke(u, i)
      PROVE  UNCHANGED rows /\ ReqOK' /\ Requests'
  <2>1. i \in Nat /\ i \in InviteId
    BY DEF InviteId
  <2>. QED BY <1>6, <2>1, MovedOn DEF StartRevoke
<1>7. ASSUME NEW i \in InviteId, StartAccept(u, i)
      PROVE  UNCHANGED rows /\ ReqOK' /\ Requests'
  <2>1. i \in Nat /\ i \in InviteId
    BY DEF InviteId
  <2>2. UNCHANGED rows /\ (\/ Go(u, "lookUp", Anyone, i, "none")
                           \/ Go(u, "signUp", Anyone, i, "none"))
    BY <1>7 DEF StartAccept
  <2>3. CASE Go(u, "lookUp", Anyone, i, "none")
    BY <2>1, <2>2, <2>3, MovedOn
  <2>4. CASE Go(u, "signUp", Anyone, i, "none")
    BY <2>1, <2>2, <2>4, MovedOn
  <2>. QED BY <2>2, <2>3, <2>4
<1>. QED
  BY <1>1, <1>2, <1>3, <1>4, <1>5, <1>6, <1>7 DEF Starts

(* What a request carries, by its type and by Requests.                    *)
LEMMA InFlight ==
  ASSUME IInv, NEW u \in User
  PROVE  /\ req[u].op \in RequestOp /\ req[u].on \in User \cup {Anyone}
         /\ req[u].id \in Nat /\ req[u].arg \in Role
         /\ Carries(req[u])
BY DEF IInv, TypeOK, Requests

Reads(u) == ReadRole(u) \/ CountForRole(u) \/ ReadRemoved(u)
            \/ CountForRemove(u) \/ CheckAssignee(u) \/ LookUpMembership(u)

LEMMA ReadsKeep ==
  ASSUME IInv, NEW u \in User, Reads(u)
  PROVE  UNCHANGED rows /\ ReqOK' /\ Requests'
<1>. USE DEF Carries, Step, RoleOps, RemoveOps, InviteOps, RequestOp, Role,
             MemberRole, ReqOK
<1>0. ASSUME Respond(u) PROVE ReqOK' /\ Requests'
  BY <1>0, Answered
<1>1. ASSUME ReadRole(u) PROVE UNCHANGED rows /\ ReqOK' /\ Requests'
  <2>0. req[u].on \in User /\ req[u].arg \in MemberRole
    BY <1>1, InFlight DEF ReadRole
  <2>1. CASE Go(u, "roleCount", req[u].on, 0, req[u].arg)
    BY <1>1, <2>0, <2>1, MovedOn DEF ReadRole
  <2>2. CASE Go(u, "roleWrite", req[u].on, 0, req[u].arg)
    BY <1>1, <2>0, <2>2, MovedOn DEF ReadRole
  <2>. QED BY <1>0, <1>1, <2>1, <2>2 DEF ReadRole
<1>2. ASSUME CountForRole(u) PROVE UNCHANGED rows /\ ReqOK' /\ Requests'
  <2>1. req[u].on \in User \cup {Anyone} /\ req[u].id \in Nat /\ req[u].arg \in Role
        /\ Carries(req[u])
    BY InFlight
  <2>2. CASE Go(u, "roleWrite", req[u].on, 0, req[u].arg)
    BY <1>2, <2>1, <2>2, MovedOn DEF CountForRole
  <2>. QED BY <1>0, <1>2, <2>2 DEF CountForRole
<1>3. ASSUME ReadRemoved(u) PROVE UNCHANGED rows /\ ReqOK' /\ Requests'
  <2>1. req[u].on \in User \cup {Anyone} /\ Carries(req[u])
    BY InFlight
  <2>2. CASE Go(u, "removeCount", req[u].on, 0, "none")
    BY <1>3, <2>1, <2>2, MovedOn DEF ReadRemoved
  <2>3. CASE Go(u, "removeWrite", req[u].on, 0, "none")
    BY <1>3, <2>1, <2>3, MovedOn DEF ReadRemoved
  <2>. QED BY <1>0, <1>3, <2>2, <2>3 DEF ReadRemoved
<1>4. ASSUME CountForRemove(u) PROVE UNCHANGED rows /\ ReqOK' /\ Requests'
  <2>1. req[u].on \in User \cup {Anyone} /\ req[u].id \in Nat /\ req[u].arg \in Role
        /\ Carries(req[u])
    BY InFlight
  <2>2. CASE Go(u, "removeWrite", req[u].on, 0, "none")
    BY <1>4, <2>1, <2>2, MovedOn DEF CountForRemove
  <2>. QED BY <1>0, <1>4, <2>2 DEF CountForRemove
<1>5. ASSUME CheckAssignee(u) PROVE UNCHANGED rows /\ ReqOK' /\ Requests'
  <2>1. req[u].on \in User \cup {Anyone} /\ req[u].id \in Nat /\ req[u].arg \in Role
        /\ Carries(req[u])
    BY InFlight
  <2>2. CASE Go(u, "assign", req[u].on, req[u].id, "none")
    <3>1. UNCHANGED rows
      BY <1>5 DEF CheckAssignee
    <3>. QED BY ZenonT(40), <2>1, <2>2, <3>1, MovedOn
  <2>. QED BY <1>0, <1>5, <2>2 DEF CheckAssignee
<1>6. ASSUME LookUpMembership(u) PROVE UNCHANGED rows /\ ReqOK' /\ Requests'
  <2>1. req[u].id \in Nat /\ req[u].id \in InviteId
    BY <1>6, InFlight DEF LookUpMembership
  <2>2. UNCHANGED rows /\ (\/ Go(u, "join", Anyone, req[u].id, "none")
                           \/ Go(u, "enter", Anyone, req[u].id, "none"))
    BY <1>6 DEF LookUpMembership
  <2>3. CASE Go(u, "join", Anyone, req[u].id, "none")
    BY <2>1, <2>2, <2>3, MovedOn
  <2>4. CASE Go(u, "enter", Anyone, req[u].id, "none")
    BY <2>1, <2>2, <2>4, MovedOn
  <2>. QED BY <2>2, <2>3, <2>4
<1>. QED
  BY <1>1, <1>2, <1>3, <1>4, <1>5, <1>6 DEF Reads

----------------------------------------------------------------------------
(* The writes.  Each answers its request; what is left to show is that the *)
(* rows keep their types and that nobody becomes a member for free.        *)
Rows == /\ registered \subseteq User
        /\ role \in [User -> Role]
        /\ invite \in [InviteId -> InviteRow]
        /\ expired \subseteq InviteId
        /\ created \subseteq Task
        /\ assigned \in [Task -> User \cup {Anyone}]
        /\ InviteRoles
        /\ MembersWereInvited

(* An invite is used up by u, who thereby becomes a member or stays one.   *)
LEMMA InviteUsed ==
  ASSUME IInv, NEW u \in User, NEW i \in InviteId, StillOpen(i), Accepted(i, u),
         \A v \in User : role'[v] # "none" => v = u \/ role[v] # "none"
  PROVE  /\ invite' \in [InviteId -> InviteRow] /\ InviteRoles'
         /\ MembersWereInvited'
<1>1. /\ invite'[i].status = "accepted" /\ invite'[i].by = u
      /\ invite'[i].role = invite[i].role
      /\ \A k \in InviteId : k # i => invite'[k] = invite[k]
  BY DEF Accepted, IInv, TypeOK, InviteRow
<1>2. invite' \in [InviteId -> InviteRow]
  <2>1. [invite[i] EXCEPT !.status = "accepted", !.by = u] \in InviteRow
    BY DEF IInv, TypeOK, InviteRow
  <2>2. invite' = [invite EXCEPT ![i] =
                     [invite[i] EXCEPT !.status = "accepted", !.by = u]]
    BY DEF Accepted, IInv, TypeOK
  <2>. QED BY <2>1, <2>2 DEF IInv, TypeOK
<1>3. InviteRoles'
  BY <1>1 DEF IInv, InviteRoles, StillOpen
<1>4. MembersWereInvited'
  <2>. SUFFICES ASSUME NEW v \in User, role'[v] # "none", v # Founder
                PROVE \E k \in InviteId : invite'[k].status = "accepted"
                                          /\ invite'[k].by = v
    BY DEF MembersWereInvited
  <2>1. CASE v = u
    BY <1>1, <2>1
  <2>2. CASE v # u
    BY <1>1, <2>2 DEF IInv, MembersWereInvited, StillOpen
  <2>. QED BY <2>1, <2>2
<1>. QED BY <1>2, <1>3, <1>4

LEMMA ProceedKeeps ==
  ASSUME IInv, NEW u \in User, Proceed(u), ~Reads(u)
  PROVE  Respond(u) /\ Rows'
<1>. USE DEF IInv, TypeOK, Rows
<1>1. ASSUME WriteRole(u) PROVE Respond(u) /\ Rows'
  <2>1. req[u].arg \in Role /\ req[u].on \in User
    BY <1>1, InFlight DEF WriteRole, Carries, RoleOps, Role
  <2>2. \A v \in User : role'[v] # "none" => role[v] # "none"
    BY <1>1 DEF WriteRole
  <2>. QED BY <1>1, <2>1, <2>2 DEF WriteRole, InviteRoles, MembersWereInvited
<1>2. ASSUME WriteRemoved(u) PROVE Respond(u) /\ Rows'
  BY <1>2 DEF WriteRemoved, Unassign, InviteRoles, MembersWereInvited, Role
<1>3. ASSUME CreateTask(u) PROVE Respond(u) /\ Rows'
  BY <1>3 DEF CreateTask, InviteRoles, MembersWereInvited
<1>4. ASSUME WriteAssignee(u) PROVE Respond(u) /\ Rows'
  BY <1>4, InFlight DEF WriteAssignee, InviteRoles, MembersWereInvited
<1>5. ASSUME CreateInvite(u) PROVE Respond(u) /\ Rows'
  <2>1. PICK i \in InviteId : /\ NextInvite(i)
                              /\ invite' = [invite EXCEPT ![i] =
                                   [status |-> "pending", for |-> req[u].on,
                                    role |-> req[u].arg, by |-> Anyone]]
    BY <1>5 DEF CreateInvite
  <2>2. Conferrable(req[u].arg) /\ req[u].on \in User \cup {Anyone}
    BY <1>5, InFlight DEF CreateInvite, Carries
  <2>3. invite' \in [InviteId -> InviteRow] /\ InviteRoles'
    BY <2>1, <2>2 DEF InviteRow, InviteRoles, Conferrable
  <2>4. \A k \in InviteId : invite[k].status = "accepted" => invite'[k] = invite[k]
    BY <2>1 DEF NextInvite
  <2>. QED BY <1>5, <2>3, <2>4 DEF CreateInvite, MembersWereInvited
<1>6. ASSUME RevokeInvite(u) PROVE Respond(u) /\ Rows'
  <2>1. invite' \in [InviteId -> InviteRow] /\ InviteRoles'
    <3>0. req[u].id \in InviteId
      BY <1>6, InFlight DEF RevokeInvite, Carries, InviteOps
    <3>1. [invite[req[u].id] EXCEPT !.status = "revoked"] \in InviteRow
      BY <3>0 DEF InviteRow
    <3>2. CASE invite' = [invite EXCEPT ![req[u].id] =
                            [invite[req[u].id] EXCEPT !.status = "revoked"]]
               /\ Revocable(req[u].id)
      <4>1. invite' \in [InviteId -> InviteRow]
        BY <3>1, <3>2
      <4>2. \A k \in InviteId :
              invite'[k].role = invite[k].role
              /\ (invite'[k].status # "none" => invite[k].status # "none")
        BY <3>0, <3>2 DEF InviteRow, Revocable
      <4>. QED BY <4>1, <4>2 DEF InviteRoles
    <3>3. CASE UNCHANGED invite
      BY <3>3 DEF InviteRoles
    <3>. QED BY <1>6, <3>2, <3>3 DEF RevokeInvite
  <2>2. \A k \in InviteId : invite[k].status = "accepted" => invite'[k] = invite[k]
    BY <1>6 DEF RevokeInvite, Revocable
  <2>. QED BY <1>6, <2>1, <2>2 DEF RevokeInvite, MembersWereInvited
<1>7. ASSUME Join(u) PROVE Respond(u) /\ Rows'
  <2>1. req[u].id \in InviteId
    BY <1>7, InFlight DEF Join, Carries, InviteOps
  <2>2. CASE role[u] = "none" /\ StillOpen(req[u].id)
    <3>1. Conferrable(invite[req[u].id].role)
      BY <2>1, <2>2 DEF InviteRoles, StillOpen
    <3>. QED BY <1>7, <2>1, <2>2, <3>1, InviteUsed
                DEF Join, Role, MemberRole, Conferrable
  <2>. QED BY <1>7, <2>2 DEF Join, InviteRoles, MembersWereInvited
<1>8. ASSUME Enter(u) PROVE Respond(u) /\ Rows'
  <2>1. req[u].id \in InviteId
    BY <1>8, InFlight DEF Enter, Carries, InviteOps
  <2>2. CASE StillOpen(req[u].id)
    BY <1>8, <2>1, <2>2, InviteUsed DEF Enter
  <2>. QED BY <1>8, <2>2 DEF Enter, InviteRoles, MembersWereInvited
<1>9. ASSUME SignUp(u) PROVE Respond(u) /\ Rows'
  <2>1. req[u].id \in InviteId
    BY <1>9, InFlight DEF SignUp, Carries, InviteOps
  <2>2. CASE u \notin registered /\ StillOpen(req[u].id)
    <3>1. Conferrable(invite[req[u].id].role)
      BY <2>1, <2>2 DEF InviteRoles, StillOpen
    <3>. QED BY <1>9, <2>1, <2>2, <3>1, InviteUsed
                DEF SignUp, Role, MemberRole, Conferrable
  <2>. QED BY <1>9, <2>2 DEF SignUp, InviteRoles, MembersWereInvited
<1>. QED
  BY <1>1, <1>2, <1>3, <1>4, <1>5, <1>6, <1>7, <1>8, <1>9 DEF Proceed, Reads

----------------------------------------------------------------------------
LEMMA InvInit == Init => IInv
<1>. SUFFICES ASSUME Init PROVE IInv
  OBVIOUS
<1>1. TypeOK
  BY UserAssumption DEF Init, TypeOK, InviteRow, Idle, RequestOp, Role, MemberRole
<1>2. Requests
  BY DEF Init, Requests, Carries, Idle, RoleOps, RemoveOps, InviteOps
<1>. QED
  BY <1>1, <1>2 DEF Init, IInv, InviteRoles, MembersWereInvited

LEMMA InvNext == IInv /\ [Next]_vars => IInv'
<1>. SUFFICES ASSUME IInv, [Next]_vars PROVE IInv'
  OBVIOUS
<1>1. ASSUME NEW u \in User, Starts(u) PROVE IInv'
  BY <1>1, StartsKeep, OnlyRequests
<1>2. ASSUME NEW u \in User, Reads(u) PROVE IInv'
  BY <1>2, ReadsKeep, OnlyRequests
<1>3. ASSUME NEW u \in User, Proceed(u), ~Reads(u) PROVE IInv'
  BY <1>3, ProceedKeeps, Answered DEF IInv, TypeOK, Rows
<1>4. ASSUME NEW u \in User, Register(u) PROVE IInv'
  BY <1>4 DEF Register, IInv, TypeOK, Requests, Carries, InviteRoles,
              MembersWereInvited
<1>5. ASSUME NEW i \in InviteId, InviteExpires(i) PROVE IInv'
  BY <1>5 DEF InviteExpires, IInv, TypeOK, Requests, Carries, InviteRoles,
              MembersWereInvited
<1>6. CASE UNCHANGED vars
  BY <1>6 DEF vars, IInv, TypeOK, Requests, Carries, InviteRoles,
              MembersWereInvited
<1>. QED
  BY <1>1, <1>2, <1>3, <1>4, <1>5, <1>6 DEF Next

(* In every reachable state the rows and the requests have their types.    *)
THEOREM Inductive == Spec => []IInv
<1>. QED BY InvInit, InvNext, PTL DEF Spec

THEOREM TypeCorrect == Spec => []TypeOK
<1>1. IInv => TypeOK
  BY DEF IInv
<1>. QED BY <1>1, Inductive, PTL

(* An invite admits one user and a revoked one nobody, however the requests *)
(* that accept, revoke and remove interleave (accept_invite,                *)
(* create_user_from_invite): every member but the founder used one up.      *)
THEOREM OneMemberPerInvite == Spec => []MembersWereInvited
<1>1. IInv => MembersWereInvited
  BY DEF IInv
<1>. QED BY <1>1, Inductive, PTL

----------------------------------------------------------------------------
(* What a step does to one invite and to one membership.                   *)
InviteKept(i) ==
  /\ invite[i].status \in {"accepted", "revoked"} => invite'[i] = invite[i]
Entered(u) ==
  role[u] = "none" /\ role'[u] # "none" =>
    \E i \in InviteId : /\ invite[i].status = "pending"
                        /\ invite'[i].status = "accepted"
                        /\ invite'[i].by = u

LEMMA UsedByOne ==
  ASSUME IInv, NEW u \in User, NEW i \in InviteId, StillOpen(i), Accepted(i, u)
  PROVE  /\ invite[i].status = "pending"
         /\ invite'[i].status = "accepted" /\ invite'[i].by = u
         /\ \A k \in InviteId : InviteKept(k)
BY DEF Accepted, StillOpen, InviteKept, IInv, TypeOK, InviteRow

LEMMA StepOnce ==
  ASSUME IInv, [Next]_vars
  PROVE  /\ \A i \in InviteId : InviteKept(i)
         /\ \A u \in User : Entered(u)
<1>. DEFINE Goal == /\ \A i \in InviteId : InviteKept(i)
                    /\ \A u \in User : Entered(u)
<1>0. ASSUME UNCHANGED <<role, invite>> PROVE Goal
  BY <1>0 DEF InviteKept, Entered
<1>1. ASSUME NEW u \in User, Starts(u) \/ Reads(u) PROVE Goal
  BY <1>0, <1>1, StartsKeep, ReadsKeep DEF rows
<1>2. ASSUME NEW u \in User, WriteRole(u) PROVE Goal
  BY <1>2 DEF WriteRole, InviteKept, Entered, IInv, TypeOK
<1>3. ASSUME NEW u \in User, WriteRemoved(u) PROVE Goal
  BY <1>3 DEF WriteRemoved, InviteKept, Entered, IInv, TypeOK
<1>4. ASSUME NEW u \in User, CreateTask(u) \/ WriteAssignee(u) PROVE Goal
  BY <1>0, <1>4 DEF CreateTask, WriteAssignee
<1>5. ASSUME NEW u \in User, CreateInvite(u) PROVE Goal
  BY <1>5 DEF CreateInvite, NextInvite, InviteKept, Entered, IInv, TypeOK
<1>6. ASSUME NEW u \in User, RevokeInvite(u) PROVE Goal
  BY <1>6 DEF RevokeInvite, Revocable, InviteKept, Entered, IInv, TypeOK
<1>7. ASSUME NEW u \in User, Join(u) PROVE Goal
  <2>1. req[u].id \in InviteId
    BY <1>7, InFlight DEF Join, Carries, InviteOps
  <2>2. CASE role[u] = "none" /\ StillOpen(req[u].id)
    BY <1>7, <2>1, <2>2, UsedByOne DEF Join, Entered, IInv, TypeOK
  <2>. QED BY <1>0, <1>7, <2>2 DEF Join
<1>8. ASSUME NEW u \in User, Enter(u) PROVE Goal
  <2>1. req[u].id \in InviteId
    BY <1>8, InFlight DEF Enter, Carries, InviteOps
  <2>2. CASE StillOpen(req[u].id)
    BY <1>8, <2>1, <2>2, UsedByOne DEF Enter, Entered
  <2>. QED BY <1>0, <1>8, <2>2 DEF Enter
<1>9. ASSUME NEW u \in User, SignUp(u) PROVE Goal
  <2>1. req[u].id \in InviteId
    BY <1>9, InFlight DEF SignUp, Carries, InviteOps
  <2>2. CASE u \notin registered /\ StillOpen(req[u].id)
    BY <1>9, <2>1, <2>2, UsedByOne DEF SignUp, Entered, IInv, TypeOK
  <2>. QED BY <1>0, <1>9, <2>2 DEF SignUp
<1>10. ASSUME NEW u \in User, Register(u) PROVE Goal
  BY <1>0, <1>10 DEF Register
<1>11. ASSUME NEW i \in InviteId, InviteExpires(i) PROVE Goal
  BY <1>0, <1>11 DEF InviteExpires
<1>. HIDE DEF Goal
<1>12. Goal
  BY <1>0, <1>1, <1>2, <1>3, <1>4, <1>5, <1>6, <1>7, <1>8, <1>9, <1>10, <1>11
     DEF Next, Proceed, Reads, vars
<1>. QED BY <1>12 DEF Goal

(* A used or revoked invite never changes again.                           *)
THEOREM InvitesStand == Spec => InviteOutcomeStands
<1>1. IInv /\ [Next]_vars =>
        [\A i \in InviteId :
           invite[i].status \in {"accepted", "revoked"} => invite'[i] = invite[i]]_vars
  BY StepOnce DEF InviteKept
<1>. QED BY <1>1, Inductive, PTL DEF Spec, InviteOutcomeStands

(* Whoever is no member becomes one only by using up an invite, even while *)
(* role changes of the removed membership are in flight.                   *)
THEOREM NoUninvitedReturn == Spec => NobodyReturnsUninvited
<1>1. IInv /\ [Next]_vars =>
        [\A u \in User : role[u] = "none" /\ role'[u] # "none" =>
           \E i \in InviteId : /\ invite[i].status = "pending"
                               /\ invite'[i].status = "accepted"
                               /\ invite'[i].by = u]_vars
  BY StepOnce DEF Entered
<1>. QED BY <1>1, Inductive, PTL DEF Spec, NobodyReturnsUninvited

----------------------------------------------------------------------------
(* The count of owners, when it is more than one, leaves one besides t.    *)
LEMMA SecondOwner ==
  ASSUME NEW t, ~NoOtherOwner PROVE OwnerBesides(t)
<1>1. IsFiniteSet(Owners)
  BY UserAssumption, FS_Subset DEF Owners
<1>2. SUFFICES ASSUME Owners \subseteq {t} PROVE FALSE
  BY DEF OwnerBesides, Owners
<1>3. Owners = {} \/ Owners = {t}
  BY <1>2
<1>4. Cardinality({}) = 0 /\ Cardinality({t}) = 1
  BY FS_EmptySet, FS_Singleton
<1>5. CASE Owners = {}
  BY <1>4, <1>5 DEF NoOtherOwner
<1>6. CASE Owners = {t}
  BY <1>4, <1>6 DEF NoOtherOwner
<1>. QED BY <1>3, <1>5, <1>6

(* Only a role change or a removal takes the role of an owner away.        *)
LEMMA OwnersKept ==
  ASSUME IInv, OwnerInv, [Next]_vars, NEW o \in User, role[o] = "owner", role'[o] # "owner"
  PROVE  \E u \in User : /\ req[u].on = o /\ Respond(u)
                         /\ \/ WriteRole(u) /\ req[u].arg # "owner"
                            \/ WriteRemoved(u)
<1>. SUFFICES ASSUME NEW u \in User, Proceed(u), ~Reads(u)
              PROVE  /\ req[u].on = o /\ Respond(u)
                     /\ \/ WriteRole(u) /\ req[u].arg # "owner"
                        \/ WriteRemoved(u)
  <2>1. \A u \in User : Starts(u) \/ Reads(u) => UNCHANGED role
    BY StartsKeep, ReadsKeep DEF rows
  <2>. QED BY <2>1 DEF Next, vars, Register, InviteExpires
<1>. USE DEF IInv, TypeOK
<1>1. CASE WriteRole(u)
  BY <1>1 DEF WriteRole
<1>2. CASE WriteRemoved(u)
  BY <1>2 DEF WriteRemoved
<1>3. ~Join(u)
  BY DEF Join
<1>4. ~SignUp(u)
  BY DEF SignUp, OwnerInv, MembersRegistered
<1>. QED
  BY <1>1, <1>2, <1>3, <1>4 DEF Proceed, Reads, CreateTask, WriteAssignee,
     CreateInvite, RevokeInvite, Enter

(* A request changes by a step of its own user only.                       *)
LEMMA OwnStep ==
  ASSUME IInv, [Next]_vars, NEW u \in User, req'[u] # req[u]
  PROVE  Starts(u) \/ Reads(u) \/ (Proceed(u) /\ Respond(u))
<1>. USE DEF IInv, TypeOK
<1>1. ASSUME NEW v \in User, Starts(v), v # u PROVE FALSE
  BY <1>1 DEF Starts, StartSetRole, StartRemove, StartCreate, StartHandoff,
     StartInvite, StartRevoke, StartAccept, Go
<1>2. ASSUME NEW v \in User, Reads(v), v # u PROVE FALSE
  BY <1>2 DEF Reads, ReadRole, CountForRole, ReadRemoved, CountForRemove,
     CheckAssignee, LookUpMembership, Go, Respond
<1>3. ASSUME NEW v \in User, Proceed(v), ~Reads(v), v # u PROVE FALSE
  BY <1>3, ProceedKeeps DEF Respond
<1>. QED
  BY <1>1, <1>2, <1>3, ProceedKeeps DEF Next, vars, Register, InviteExpires

LEMMA RegisteredNext == IInv /\ OwnerInv /\ [Next]_vars => MembersRegistered'
<1>. SUFFICES ASSUME IInv, OwnerInv, [Next]_vars, NEW u \in User,
                     (role[u] # "none" \/ req[u].op \in {"lookUp", "join", "enter"})'
              PROVE  u \in registered'
  BY DEF MembersRegistered
<1>. USE DEF IInv, TypeOK
<1>1. registered \subseteq registered'
  <2>1. \A v \in User : Starts(v) \/ Reads(v) => UNCHANGED registered
    BY StartsKeep, ReadsKeep DEF rows
  <2>. QED
    BY <2>1 DEF Next, Proceed, Reads, vars, Register, InviteExpires, WriteRole,
       WriteRemoved, CreateTask, WriteAssignee, CreateInvite, RevokeInvite, Join,
       Enter, SignUp
<1>2. CASE role[u] # "none"
  BY <1>1, <1>2 DEF OwnerInv, MembersRegistered
<1>3. CASE role[u] = "none" /\ role'[u] # "none"
  <2>1. PICK v \in User : Proceed(v) /\ ~Reads(v)
    <3>1. \A v \in User : Starts(v) \/ Reads(v) => UNCHANGED role
      BY StartsKeep, ReadsKeep DEF rows
    <3>. QED BY <1>3, <3>1 DEF Next, vars, Register, InviteExpires
  <2>2. CASE Join(v)
    BY <1>1, <1>3, <2>2 DEF Join, OwnerInv, MembersRegistered
  <2>3. CASE SignUp(v)
    BY <1>3, <2>3 DEF SignUp
  <2>. QED
    BY <1>3, <2>1, <2>2, <2>3 DEF Proceed, Reads, WriteRole, WriteRemoved,
       CreateTask, WriteAssignee, CreateInvite, RevokeInvite, Enter
<1>4. CASE role'[u] = "none" /\ u \notin registered
  <2>1. req[u].op \notin {"lookUp", "join", "enter"}
    BY <1>4 DEF OwnerInv, MembersRegistered
  <2>2. req'[u] # req[u]
    BY <1>4, <2>1
  <2>3. CASE Starts(u)
    BY <1>4, <2>3 DEF Starts, StartSetRole, StartRemove, StartCreate,
       StartHandoff, StartInvite, StartRevoke, StartAccept, Go, Step
  <2>4. CASE Reads(u)
    BY <1>4, <2>1, <2>4 DEF Reads, ReadRole, CountForRole, ReadRemoved,
       CountForRemove, CheckAssignee, LookUpMembership, Go, Respond, Step, Idle
  <2>5. CASE Respond(u)
    BY <1>4, <2>5 DEF Respond, Idle
  <2>. QED BY <2>2, <2>3, <2>4, <2>5, OwnStep
<1>. QED BY <1>1, <1>2, <1>3, <1>4

LEMMA OwnerNext ==
  ASSUME NEW m \in User, Acting = {m}
  PROVE  IInv /\ OwnerInv /\ [Next]_vars => OwnerInv'
<1>. SUFFICES ASSUME IInv, OwnerInv, [Next]_vars PROVE OwnerInv'
  OBVIOUS
<1>1. MembersRegistered'
  BY RegisteredNext
<1>2. ASSUME NEW t, OwnerBesides(t), ~OwnerBesidesAfter(t)
      PROVE  \E p \in User : p # t /\ req[m].on = p /\ Respond(m)
                             /\ (WriteRole(m) \/ WriteRemoved(m))
  <2>1. PICK p \in User : p # t /\ role[p] = "owner" /\ role'[p] # "owner"
    BY <1>2 DEF OwnerBesides, OwnerBesidesAfter
  <2>2. PICK u \in User : /\ req[u].on = p /\ Respond(u)
                          /\ WriteRole(u) \/ WriteRemoved(u)
    BY <2>1, OwnersKept
  <2>3. u = m
    BY <2>2 DEF OwnerInv, WriteRole, WriteRemoved, RoleOps, RemoveOps
  <2>. QED BY <2>1, <2>2, <2>3
<1>3. WorkspaceHasOwner'
  <2>1. PICK o \in User : role[o] = "owner"
    BY DEF OwnerInv, WorkspaceHasOwner, Owners
  <2>2. CASE role'[o] # "owner"
    <3>1. PICK u \in User : /\ req[u].on = o
                            /\ \/ WriteRole(u) /\ req[u].arg # "owner"
                               \/ WriteRemoved(u)
      BY <2>1, <2>2, OwnersKept
    <3>2. PICK p \in User : p # o /\ role[p] = "owner"
      BY <3>1 DEF OwnerInv, OwnerBesides, WriteRole, WriteRemoved
    <3>3. role'[p] = "owner"
      BY <3>1, <3>2 DEF WriteRole, WriteRemoved, IInv, TypeOK
    <3>. QED BY <3>3 DEF WorkspaceHasOwner, Owners
  <2>. QED BY <2>1, <2>2 DEF WorkspaceHasOwner, Owners
<1>4. ASSUME NEW u \in User, req'[u].op \in RoleOps \cup RemoveOps
      PROVE  u = m
  <2>1. CASE req'[u] = req[u]
    BY <1>4, <2>1 DEF OwnerInv
  <2>2. CASE Starts(u)
    BY <1>4, <2>2 DEF Starts, StartSetRole, StartRemove, StartCreate,
       StartHandoff, StartInvite, StartRevoke, StartAccept, Go, Step, Manages,
       RoleOps, RemoveOps, IInv, TypeOK
  <2>3. CASE Reads(u)
    BY <1>4, <2>3 DEF Reads, ReadRole, CountForRole, ReadRemoved, CountForRemove,
       CheckAssignee, LookUpMembership, Go, Respond, Step, Idle, RoleOps,
       RemoveOps, OwnerInv, IInv, TypeOK
  <2>4. CASE Respond(u)
    BY <1>4, <2>4 DEF Respond, Idle, RoleOps, RemoveOps, IInv, TypeOK
  <2>. QED BY <2>1, <2>2, <2>3, <2>4, OwnStep
<1>5. ASSUME \/ req'[m].op = "roleWrite" /\ req'[m].arg # "owner"
             \/ req'[m].op = "removeWrite"
      PROVE  OwnerBesidesAfter(req'[m].on)
  <2>1. CASE req'[m] = req[m]
    <3>1. OwnerBesides(req[m].on)
      BY <1>5, <2>1 DEF OwnerInv
    <3>2. ~Respond(m)
      BY <1>5 DEF Respond, Idle, IInv, TypeOK
    <3>. QED BY <1>2, <2>1, <3>1, <3>2
  <2>2. CASE Starts(m)
    BY <1>5, <2>2 DEF Starts, StartSetRole, StartRemove, StartCreate,
       StartHandoff, StartInvite, StartRevoke, StartAccept, Go, Step, IInv, TypeOK
  <2>3. CASE Reads(m)
    <3>1. UNCHANGED role
      BY <2>3, ReadsKeep DEF rows
    <3>2. CASE ReadRole(m) \/ ReadRemoved(m)
      <4>1. role[req[m].on] # "owner" /\ req'[m].on = req[m].on
        BY <1>5, <3>2 DEF ReadRole, ReadRemoved, Go, Respond, Step, Idle, IInv, TypeOK
      <4>. QED BY <3>1, <4>1 DEF OwnerBesidesAfter, OwnerInv, WorkspaceHasOwner, Owners
    <3>3. CASE CountForRole(m) \/ CountForRemove(m)
      <4>1. ~NoOtherOwner /\ req'[m].on = req[m].on
        BY <1>5, <3>3 DEF CountForRole, CountForRemove, Go, Respond, Step, Idle,
           IInv, TypeOK
      <4>2. OwnerBesides(req[m].on)
        BY <4>1, SecondOwner
      <4>. QED BY <3>1, <4>1, <4>2 DEF OwnerBesides, OwnerBesidesAfter
    <3>4. ~CheckAssignee(m) /\ ~LookUpMembership(m)
      BY <1>5 DEF CheckAssignee, LookUpMembership, Go, Respond, Step, Idle,
         IInv, TypeOK
    <3>. QED BY <2>3, <3>2, <3>3, <3>4 DEF Reads
  <2>4. CASE Respond(m)
    BY <1>5, <2>4 DEF Respond, Idle, IInv, TypeOK
  <2>. QED BY <2>1, <2>2, <2>3, <2>4, OwnStep
<1>6. ASSUME NEW u \in User
      PROVE  /\ (req[u].op \in RoleOps \cup RemoveOps => u \in Acting)'
             /\ (req[u].op = "roleWrite" /\ req[u].arg # "owner"
                   => OwnerBesides(req[u].on))'
             /\ (req[u].op = "removeWrite" => OwnerBesides(req[u].on))'
  BY <1>4, <1>5 DEF RoleOps, RemoveOps, OwnerBesides, OwnerBesidesAfter
<1>. QED BY <1>1, <1>3, <1>6 DEF OwnerInv

(* While a single user manages the members, the workspace keeps an owner,  *)
(* also while others accept invites (set_member_role, remove_member).      *)
THEOREM OwnerKept ==
  ASSUME NEW m \in User, Acting = {m}
  PROVE  Spec => []WorkspaceHasOwner
<1>1. Init => OwnerInv
  BY UserAssumption DEF Init, OwnerInv, WorkspaceHasOwner, MembersRegistered,
     Owners, Idle, RoleOps, RemoveOps
<1>2. IInv /\ OwnerInv /\ [Next]_vars => OwnerInv'
  BY OwnerNext
<1>3. OwnerInv => WorkspaceHasOwner
  BY DEF OwnerInv
<1>. QED BY <1>1, <1>2, <1>3, Inductive, PTL DEF Spec

----------------------------------------------------------------------------
(* The assignees, when a single user manages the workspace.                *)
AssignOps == {"create", "handoff", "assign"}

(* Who creates a task is a member, who is about to be assigned one was a   *)
(* member when checked, and nobody else removes members meanwhile.         *)
AssigneeInv(m) ==
  /\ AssigneeIsMember
  /\ \A u \in User :
       /\ req[u].op \in AssignOps \cup RemoveOps => u = m
       /\ req[u].op = "create" => role[u] # "none"
       /\ req[u].op = "assign" => req[u].on = Anyone \/ role[req[u].on] # "none"

(* Only a removal takes a membership away.                                 *)
LEMMA MembersKept ==
  ASSUME IInv, [Next]_vars, NEW o \in User, role[o] # "none", role'[o] = "none"
  PROVE  \E u \in User : req[u].on = o /\ Respond(u) /\ WriteRemoved(u)
<1>. SUFFICES ASSUME NEW u \in User, Proceed(u), ~Reads(u)
              PROVE  req[u].on = o /\ Respond(u) /\ WriteRemoved(u)
  <2>1. \A u \in User : Starts(u) \/ Reads(u) => UNCHANGED role
    BY StartsKeep, ReadsKeep DEF rows
  <2>. QED BY <2>1 DEF Next, vars, Register, InviteExpires
<1>. USE DEF IInv, TypeOK
<1>1. ~WriteRole(u)
  <2>1. WriteRole(u) => req[u].arg # "none" /\ req[u].on \in User
    BY InFlight DEF WriteRole, Carries, RoleOps, MemberRole
  <2>. QED BY <2>1 DEF WriteRole
<1>2. CASE WriteRemoved(u)
  BY <1>2 DEF WriteRemoved
<1>3. ~Join(u) /\ ~SignUp(u)
  <2>1. Join(u) \/ SignUp(u) => req[u].id \in InviteId
    BY InFlight DEF Join, SignUp, Carries, InviteOps
  <2>2. (Join(u) \/ SignUp(u)) /\ StillOpen(req[u].id) =>
          invite[req[u].id].role # "none"
    BY <2>1 DEF InviteRoles, StillOpen, Conferrable
  <2>. QED BY <2>2 DEF Join, SignUp
<1>. QED
  BY <1>1, <1>2, <1>3 DEF Proceed, Reads, CreateTask, WriteAssignee,
     CreateInvite, RevokeInvite, Enter

(* What the writes do to the assignees.                                    *)
LEMMA AssignedSteps ==
  ASSUME IInv, [Next]_vars
  PROVE  \/ \E u \in User : WriteRemoved(u)
         \/ \E u \in User : CreateTask(u)
         \/ \E u \in User : WriteAssignee(u)
         \/ UNCHANGED assigned
<1>1. \A u \in User : Starts(u) \/ Reads(u) => UNCHANGED assigned
  BY StartsKeep, ReadsKeep DEF rows
<1>. QED
  BY <1>1 DEF Next, vars, Register, InviteExpires, Proceed, Reads, WriteRole,
     CreateInvite, RevokeInvite, Join, Enter, SignUp

LEMMA AssigneeNext ==
  ASSUME NEW m \in User, Acting = {m}
  PROVE  IInv /\ AssigneeInv(m) /\ [Next]_vars => AssigneeInv(m)'
<1>. SUFFICES ASSUME IInv, AssigneeInv(m), [Next]_vars PROVE AssigneeInv(m)'
  OBVIOUS
<1>t. /\ req \in [User -> [op : RequestOp, on : User \cup {Anyone},
                           id : Nat, arg : Role]]
      /\ role \in [User -> Role]
      /\ assigned \in [Task -> User \cup {Anyone}]
      /\ Anyone \notin User
  BY UserAssumption DEF IInv, TypeOK
(* While m's own request stands, nobody is removed.                        *)
<1>1. ASSUME NEW o \in User, role[o] # "none", role'[o] = "none"
      PROVE  req[m].on = o /\ Respond(m) /\ WriteRemoved(m)
  <2>1. PICK u \in User : req[u].on = o /\ Respond(u) /\ WriteRemoved(u)
    BY <1>1, MembersKept
  <2>2. u = m
    BY <2>1 DEF AssigneeInv, WriteRemoved, RemoveOps
  <2>. QED BY <2>1, <2>2
<1>2. AssigneeIsMember'
  <2>. SUFFICES ASSUME NEW c \in Task, assigned'[c] # Anyone
                PROVE  role'[assigned'[c]] # "none"
    BY DEF AssigneeIsMember
  <2>1. ASSUME NEW u \in User, WriteRemoved(u) PROVE role'[assigned'[c]] # "none"
    <3>1. assigned'[c] = assigned[c] /\ assigned[c] # req[u].on
      BY <1>t, <2>1 DEF WriteRemoved, Unassign
    <3>2. assigned[c] \in User /\ role[assigned[c]] # "none"
      BY <1>t, <3>1 DEF AssigneeInv, AssigneeIsMember
    <3>. QED BY <1>t, <2>1, <3>1, <3>2 DEF WriteRemoved
  <2>2. ASSUME \A u \in User : ~WriteRemoved(u), NEW o \in User, role[o] # "none"
        PROVE  role'[o] # "none"
    BY <1>1, <2>2
  <2>3. CASE assigned'[c] = assigned[c]
    <3>1. assigned[c] \in User /\ role[assigned[c]] # "none"
      BY <1>t, <2>3 DEF AssigneeInv, AssigneeIsMember
    <3>. QED BY <2>1, <2>2, <2>3, <3>1
  <2>4. ASSUME NEW u \in User, CreateTask(u), assigned'[c] # assigned[c]
        PROVE  role'[assigned'[c]] # "none"
    <3>1. assigned'[c] = u /\ UNCHANGED role
      BY <1>t, <2>4 DEF CreateTask
    <3>. QED BY <2>4, <3>1 DEF AssigneeInv, CreateTask
  <2>5. ASSUME NEW u \in User, WriteAssignee(u), assigned'[c] # assigned[c]
        PROVE  role'[assigned'[c]] # "none"
    <3>1. assigned'[c] = req[u].on /\ UNCHANGED role
      BY <1>t, <2>5 DEF WriteAssignee
    <3>. QED BY <2>5, <3>1 DEF AssigneeInv, WriteAssignee
  <2>. QED BY <2>1, <2>3, <2>4, <2>5, AssignedSteps
<1>3. ASSUME NEW u \in User
      PROVE  (/\ req[u].op \in AssignOps \cup RemoveOps => u = m
              /\ req[u].op = "create" => role[u] # "none"
              /\ req[u].op = "assign" =>
                   req[u].on = Anyone \/ role[req[u].on] # "none")'
  <2>. DEFINE Goal == (/\ req[u].op \in AssignOps \cup RemoveOps => u = m
                       /\ req[u].op = "create" => role[u] # "none"
                       /\ req[u].op = "assign" =>
                            req[u].on = Anyone \/ role[req[u].on] # "none")'
  <2>1. CASE req'[u] = req[u]
    <3>1. CASE req[u].op \in AssignOps
      <4>1. u = m
        BY <3>1 DEF AssigneeInv
      <4>2. ~WriteRemoved(m)
        BY <3>1, <4>1 DEF WriteRemoved, AssignOps
      <4>3. \A o \in User : role[o] # "none" => role'[o] # "none"
        BY <1>1, <4>2
      <4>. QED BY <1>t, <2>1, <4>1, <4>3 DEF AssigneeInv
    <3>2. CASE req[u].op \notin AssignOps
      BY <2>1, <3>2 DEF AssigneeInv, AssignOps
    <3>. QED BY <3>1, <3>2
  <2>2. CASE Starts(u)
    <3>0. UNCHANGED role
      BY <2>2, StartsKeep DEF rows
    <3>1. req'[u].op \in AssignOps \cup RemoveOps =>
            u \in Acting /\ role[u] # "none" /\ req'[u].op # "assign"
      BY <1>t, <2>2 DEF Starts, StartSetRole, StartRemove, StartCreate,
         StartHandoff, StartInvite, StartRevoke, StartAccept, Go, Step, Manages,
         Edits, AssignOps, RemoveOps
    <3>. QED BY <3>0, <3>1 DEF AssignOps
  <2>3. CASE Reads(u)
    <3>0. UNCHANGED role
      BY <2>3, ReadsKeep DEF rows
    <3>1. CASE CheckAssignee(u)
      <4>1. u = m
        BY <3>1 DEF CheckAssignee, AssigneeInv, AssignOps
      <4>2. req'[u].op \in {"assign", "idle"}
            /\ (req'[u].op = "assign" =>
                  req'[u].on = Anyone \/ role[req'[u].on] # "none")
        BY <1>t, <3>1 DEF CheckAssignee, Assignable, CanWork, Go, Respond, Step, Idle
      <4>. QED BY <3>0, <4>1, <4>2
    <3>2. CASE ReadRemoved(u) \/ CountForRemove(u)
      <4>1. u = m
        BY <3>2 DEF ReadRemoved, CountForRemove, AssigneeInv, RemoveOps
      <4>2. req'[u].op \in {"removeCount", "removeWrite", "idle"}
        BY <1>t, <3>2 DEF ReadRemoved, CountForRemove, Go, Respond, Step, Idle
      <4>. QED BY <4>1, <4>2
    <3>3. CASE ReadRole(u) \/ CountForRole(u) \/ LookUpMembership(u)
      <4>1. req'[u].op \in {"roleCount", "roleWrite", "join", "enter", "idle"}
        BY <1>t, <3>3 DEF ReadRole, CountForRole, LookUpMembership, Go, Respond,
           Step, Idle
      <4>. QED BY <4>1 DEF AssignOps, RemoveOps
    <3>. QED BY <2>3, <3>1, <3>2, <3>3 DEF Reads
  <2>4. CASE Respond(u)
    BY <1>t, <2>4 DEF Respond, Idle, AssignOps, RemoveOps
  <2>. QED BY <2>1, <2>2, <2>3, <2>4, OwnStep
<1>. QED BY <1>2, <1>3 DEF AssigneeInv

(* While a single user manages the workspace, no task is ever left to      *)
(* somebody outside it, however assignments, removals and accepted invites *)
(* interleave (update_conversation, remove_member).                        *)
THEOREM TasksStayInside ==
  ASSUME NEW m \in User, Acting = {m}
  PROVE  Spec => []AssigneeIsMember
<1>1. Init => AssigneeInv(m)
  BY DEF Init, AssigneeInv, AssigneeIsMember, Idle, AssignOps, RemoveOps
<1>2. IInv /\ AssigneeInv(m) /\ [Next]_vars => AssigneeInv(m)'
  BY AssigneeNext
<1>3. AssigneeInv(m) => AssigneeIsMember
  BY DEF AssigneeInv
<1>. QED BY <1>1, <1>2, <1>3, Inductive, PTL DEF Spec
=============================================================================
