------------------------------- MODULE Members --------------------------------
(***************************************************************************)
(* Who may do what in a workspace: AuthService (register, login), the      *)
(* roles and the settings of AdminService, and the rows of                 *)
(* GovernanceService.  A request reads the role of its actor once, and     *)
(* then writes; between the two any other request may change that role.    *)
(* No handler removes a membership or makes one in a workspace that is     *)
(* already there, so that the members are fixed.                           *)
(*                                                                         *)
(* The operators named Bug... are faulty variants of definitions after     *)
(* them; no specification uses them.                                       *)
(***************************************************************************)
EXTENDS FiniteSets

CONSTANTS
    Visitors,       \* requests to register or to log in
    Emails,         \* addresses, trimmed and in lower case
    Members,        \* members of the workspace, each with one request at a time
    FirstRoles,     \* the roles that they may have to begin with
    GovernanceKeys, \* a review, a quality gate or a metric's target
    SettingsValues, \* what the settings are set to
    Nobody

Role == {"OWNER", "ADMIN", "STAFF", "DELIVERY_MANAGER", "VIEWER"}
Administrators == {"OWNER", "ADMIN"}
DefaultSettings == "defaults"

ASSUME MembersAssumption ==
    /\ FirstRoles \subseteq [Members -> Role]
    /\ Nobody \notin Visitors \cup Members \cup Emails \cup SettingsValues
    /\ Nobody \notin [password : Visitors, owner : Visitors]
    /\ DefaultSettings \notin SettingsValues

VARIABLES
    accounts,   \* who registered each address, and who owns its organization
    visitor,    \* what each visitor is doing and was told
    role,       \* the memberships of the workspace
    settings,   \* the workspace_settings row
    governed,   \* who wrote each governance row last
    member      \* the request of each member

accountVars == <<accounts, visitor>>
roleVars == <<role, settings, governed, member>>

Account == [password : Visitors, owner : Visitors \cup {Nobody}]
Visitor == [pc : {"away", "hash", "told"}, email : Emails \cup {Nobody},
            told : {"nothing", "registered", "logged in", "refused"}]
MemberOp == {"role", "settings", "govern"}
Request == [pc : {"idle", "gate", "write", "answer"}, op : MemberOp \cup {"none"},
            target : Members \cup GovernanceKeys \cup SettingsValues \cup {Nobody},
            grant : Role \cup {"none"}]
Away == [pc |-> "away", email |-> Nobody, told |-> "nothing"]
NoRequest == [pc |-> "idle", op |-> "none", target |-> Nobody, grant |-> "none"]

MembersTypeOK ==
    /\ accounts \in [Emails -> Account \cup {Nobody}]
    /\ visitor \in [Visitors -> Visitor]
    /\ role \in [Members -> Role]
    /\ settings \in SettingsValues \cup {DefaultSettings, Nobody}
    /\ governed \in [GovernanceKeys -> Members \cup {Nobody}]
    /\ member \in [Members -> Request]

MembersInit ==
    /\ accounts = [a \in Emails |-> Nobody]
    /\ visitor = [v \in Visitors |-> Away]
    /\ role \in FirstRoles
    /\ settings = Nobody
    /\ governed = [k \in GovernanceKeys |-> Nobody]
    /\ member = [m \in Members |-> NoRequest]

-----------------------------------------------------------------------------
(* AuthService *)

Told(v, what) == visitor' = [visitor EXCEPT ![v].pc = "told", ![v].told = what]

(* register looks for the address before it hashes the password.           *)
FindUser(v) ==
    /\ visitor[v].pc = "away" /\ visitor[v].told = "nothing"
    /\ \E a \in Emails :
           visitor' = [visitor EXCEPT ![v] =
               IF accounts[a] = Nobody THEN [Away EXCEPT !.pc = "hash", !.email = a]
               ELSE [pc |-> "told", email |-> a, told |-> "refused"]]
    /\ UNCHANGED accounts

(* The transaction of user, organization and membership: the unique index  *)
(* on the address lets one of two overlapping registrations through.       *)
NewAccount(v) == [password |-> v, owner |-> v]

BugNoIndex(v) ==
    /\ visitor[v].pc = "hash"
    /\ accounts' = [accounts EXCEPT ![visitor[v].email] = NewAccount(v)]
    /\ Told(v, "registered")

CreateUser(v) ==
    /\ visitor[v].pc = "hash"
    /\ accounts[visitor[v].email] = Nobody
    /\ accounts' = [accounts EXCEPT ![visitor[v].email] = NewAccount(v)]
    /\ Told(v, "registered")
AddressTaken(v) ==
    /\ visitor[v].pc = "hash"
    /\ accounts[visitor[v].email] # Nobody
    /\ Told(v, "refused")
    /\ UNCHANGED accounts

(* A visitor comes back and logs in: the password has to be that of the    *)
(* account, and the account has to have a membership.                      *)
Login(v) ==
    /\ visitor[v].pc = "told"
    /\ LET account == accounts[visitor[v].email]
       IN  Told(v, IF account # Nobody /\ account.password = v /\ account.owner # Nobody
                   THEN "logged in" ELSE "refused")
    /\ UNCHANGED accounts

VisitorStep(v) ==
    /\ FindUser(v) \/ CreateUser(v) \/ AddressTaken(v) \/ Login(v)
    /\ UNCHANGED roleVars

-----------------------------------------------------------------------------
(* AdminService and GovernanceService *)

MemberStarts(m, op, target, grant) ==
    /\ member[m].pc = "idle"
    /\ member' = [member EXCEPT ![m] = [pc |-> "gate", op |-> op, target |-> target,
                                        grant |-> grant]]
    /\ UNCHANGED <<role, settings, governed>>
AskUpdateMemberRole(m) ==
    \E target \in Members, grant \in Role : MemberStarts(m, "role", target, grant)
AskUpsertSettings(m) == \E s \in SettingsValues : MemberStarts(m, "settings", s, "none")
AskUpsertGovernance(m) == \E k \in GovernanceKeys : MemberStarts(m, "govern", k, "none")

RequestGoes(m, pc) == member' = [member EXCEPT ![m].pc = pc]
RequestEnds(m) == member' = [member EXCEPT ![m] = NoRequest]

(* assertWorkspaceAdmin, and assertGovernanceAccess for a change.          *)
MayChange(m) == role[m] \in Administrators
CheckActor(m) ==
    /\ member[m].pc = "gate"
    /\ IF MayChange(m) THEN RequestGoes(m, "write") ELSE RequestEnds(m)
    /\ UNCHANGED <<role, settings, governed>>

BugWhereDropped(m) ==
    /\ member[m].pc = "write" /\ member[m].op = "role"
    /\ role' = [n \in Members |-> member[m].grant]
    /\ RequestEnds(m)
    /\ UNCHANGED <<settings, governed>>

UpdateRole(m) ==
    /\ member[m].pc = "write" /\ member[m].op = "role"
    /\ role' = [role EXCEPT ![member[m].target] = member[m].grant]
    /\ RequestEnds(m)
    /\ UNCHANGED <<settings, governed>>

UpsertSettings(m) ==
    /\ member[m].pc = "write" /\ member[m].op = "settings"
    /\ settings' = member[m].target
    /\ RequestEnds(m)
    /\ UNCHANGED <<role, governed>>

(* upsertWeeklyReview, upsertQualityGate, upsertSuccessMetricTarget; the   *)
(* rows of createRisk and createReleaseRollout are only ever inserted.     *)
UpsertGovernance(m) ==
    /\ member[m].pc = "write" /\ member[m].op = "govern"
    /\ governed' = [governed EXCEPT ![member[m].target] = m]
    /\ RequestGoes(m, "answer")
    /\ UNCHANGED <<role, settings>>

(* The list that answers a change checks the actor again, as a reader: a   *)
(* membership is enough, whatever its role has become.                     *)
ListGovernance(m) ==
    /\ member[m].pc = "answer"
    /\ RequestEnds(m)
    /\ UNCHANGED <<role, settings, governed>>

(* A call to the database fails. *)
RequestFails(m) ==
    /\ member[m].pc # "idle"
    /\ RequestEnds(m)
    /\ UNCHANGED <<role, settings, governed>>

BugDefaultsWin ==
    /\ settings' = DefaultSettings
    /\ UNCHANGED <<role, governed, member>>

(* getWorkspaceSettings, fetchOrCreateSettings: any member's read makes    *)
(* the row; INSERT ... ON CONFLICT DO NOTHING loses against a row that was *)
(* written since the SELECT found none.                                    *)
CreateSettings ==
    /\ settings' = IF settings = Nobody THEN DefaultSettings ELSE settings
    /\ UNCHANGED <<role, governed, member>>

MemberStep(m) ==
    /\ \/ AskUpdateMemberRole(m) \/ AskUpsertSettings(m) \/ AskUpsertGovernance(m)
       \/ CheckActor(m) \/ UpdateRole(m) \/ UpsertSettings(m) \/ UpsertGovernance(m)
       \/ ListGovernance(m) \/ RequestFails(m) \/ CreateSettings
    /\ UNCHANGED accountVars

MembersNext ==
    \/ \E v \in Visitors : VisitorStep(v)
    \/ \E m \in Members : MemberStep(m)
memberVars == <<accountVars, roleVars>>
MembersSpec == MembersInit /\ [][MembersNext]_memberVars

-----------------------------------------------------------------------------
(* Safety *)

(* Whoever was told that the registration succeeded has the account: its   *)
(* password opens it and the organization is its own, whichever            *)
(* registrations of the same address overlapped (auth.service.ts:71-141).  *)
RegisteredIsMine ==
    \A v \in Visitors : visitor[v].told = "registered" =>
        accounts[visitor[v].email] = [password |-> v, owner |-> v]

(* A workspace loses its last administrator only when that administrator   *)
(* gives up its own role, or to a request whose actor was demoted after    *)
(* its role was checked: two administrators that demote each other         *)
(* (admin.service.ts:38-72, 187-207).                                      *)
AdministratorsOf(roles) == {m \in Members : roles[m] \in Administrators}
LockedOutByOneselfOrOverlap ==
    [][AdministratorsOf(role) # {} /\ AdministratorsOf(role') = {} =>
           \E m \in Members :
               /\ member[m].pc = "write" /\ member[m].op = "role"
               /\ \/ member[m].target = m
                  \/ m \notin AdministratorsOf(role)]_memberVars

(* The defaults never replace settings that an administrator saved, in     *)
(* whatever order a first read and the write come                          *)
(* (admin.service.ts:98-113, 138-176).                                     *)
SavedSettingsStay ==
    [][(settings \in SettingsValues) => (settings' \in SettingsValues)]_memberVars
===============================================================================
