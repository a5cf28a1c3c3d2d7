-------------------------------- MODULE Users --------------------------------
(***************************************************************************)
(* User accounts: IdentityService (domains/user/application                *)
(* /identity-service.ts), the User entity, roles and permission grants.    *)
(* The adapters behind the ports hold the statements they will run and no  *)
(* client yet; the table is modelled from the ports and those statements,  *)
(* an update as the replacement of the row.                                *)
(***************************************************************************)
EXTENDS AggregateStore

CONSTANTS
    Emails,  \* normalised addresses
    Actions  \* "resource:action" of permission grants, the level left out

NoPhone == "none"
Phones == {NoPhone, "p"}
Spellings == {"plain", "mixed"}   \* how a command spells an address
Roles == {"superadmin", "admin", "treasurer", "pastor", "staff"}

UserRow == [email : Emails, phone : Phones, role : Roles, version : Nat \ {0}, password : Nat]

\* log: users whose creation was answered, whether two creations with one address
\* overlapped, the changes announced for each user, the users whose row was overtaken
UsersInit ==
    StoreInit([created |-> <<>>, collided |-> {}, overtaken |-> {},
               changes |-> [i \in Ids |-> 0]], 0)

-----------------------------------------------------------------------------
(* Roles and grants *)

ROLE_HIERARCHY ==
    [superadmin |-> 0, admin |-> 1, treasurer |-> 2, pastor |-> 3, staff |-> 4]

ADMIN_CREATEABLE_ROLES == {"treasurer", "pastor", "staff"}

IsMorePrivilegedThan(a, b) == ROLE_HIERARCHY[a] < ROLE_HIERARCHY[b]

\* Mutant: every role below the superadmin's is one an admin creates.
CanCreateRole_Below(actor, target) ==
    actor = "superadmin" \/ (actor = "admin" /\ target # "superadmin")

CanCreateRole(actor, target) ==
    actor = "superadmin" \/ (actor = "admin" /\ target \in ADMIN_CREATEABLE_ROLES)

ROLE_MANIFEST ==
    [superadmin |-> Actions,
     admin |-> {"user:create", "user:read", "user:update", "user:delete", "org:read",
                "org:update", "finance:read", "finance:write", "workflow:approve",
                "workflow:reject", "reporting:generate", "reporting:export",
                "vocab:manage", "settings:manage"},
     treasurer |-> {"finance:read", "finance:write", "reporting:generate", "reporting:export"},
     pastor |-> {"user:read", "user:update", "finance:read", "reporting:generate",
                 "event:manage", "membership:manage"},
     staff |-> {"finance:read", "reporting:generate", "event:read"}]

HasPermission(role, action) == action \in ROLE_MANIFEST[role]

-----------------------------------------------------------------------------
(* createUser *)

WithEmail(e) == {i \in Ids : Stored(i) /\ rows[i].email = e}

\* Mutant: the address is looked up as the command spells it.
FindByEmail_AsGiven(e, spelling) == IF spelling = "plain" THEN WithEmail(e) ELSE {}

\* The address is trimmed and in lower case, as it is stored.
FindByEmail(e, spelling) == WithEmail(e)

Creating(e) == {r \in Requests : request[r].at = "create" /\ request[r].email = e}

\* The address is looked up, the password checked; it is hashed while others run.
CreateUser(r, e, spelling, role, phone, strong) ==
    /\ Starts(r, IF FindByEmail(e, spelling) # {} \/ ~strong THEN Idle
                 ELSE [at |-> "create", email |-> e, role |-> role, phone |-> phone])
    /\ log' = IF Creating(e) # {} THEN [log EXCEPT !.collided = @ \cup {e}] ELSE log
    /\ UNCHANGED <<rows, clock>>

\* ON CONFLICT (adresse_email, org_id) DO NOTHING: the creation is answered all the same.
InsertUser(r, i) ==
    LET c == request[r] IN
    /\ c.at = "create" /\ ~Stored(i) /\ i \notin DOMAIN log.created
    /\ rows' = IF WithEmail(c.email) # {} THEN rows
               ELSE [rows EXCEPT ![i] = [email |-> c.email, phone |-> c.phone, role |-> c.role,
                                         version |-> 1, password |-> 0]]
    /\ log' = [log EXCEPT !.created =
                  [u \in DOMAIN @ \cup {i} |-> IF u = i THEN c.email ELSE @[u]]]
    /\ IsAnswered(r)
    /\ UNCHANGED clock

-----------------------------------------------------------------------------
(* updateProfile, changeRole, resetPassword *)

\* Mutant: a change of the role is not counted.
RoleChanged_Uncounted(user, role) == [user EXCEPT !.role = role]

RoleChanged(user, role) ==
    IF role = user.role THEN user ELSE [user EXCEPT !.role = role, !.version = @ + 1]

\* Also a profile without a telephone number replaces it, by none.
ProfileChanged(user, phone) == [user EXCEPT !.phone = phone, !.version = @ + 1]

ReadUser(r, i, user) ==
    /\ Stored(i)
    /\ Starts(r, [at |-> "update", id |-> i, read |-> rows[i], user |-> user])
    /\ UNCHANGED <<rows, log, clock>>

UpdateProfile(r, i, phone) == Stored(i) /\ ReadUser(r, i, ProfileChanged(rows[i], phone))

ChangeRole(r, i, role) == Stored(i) /\ ReadUser(r, i, RoleChanged(rows[i], role))

\* update: the columns of users; the password is in another table.
UpdateUser(r) ==
    LET c == request[r] IN
    /\ c.at = "update"
    /\ PutRow(c.id, [c.user EXCEPT !.password = rows[c.id].password])
    /\ log' = [log EXCEPT
          !.changes[c.id] = IF c.user = c.read THEN @ ELSE @ + 1,
          !.overtaken = IF [c.read EXCEPT !.password = rows[c.id].password] = rows[c.id] THEN @
                        ELSE @ \cup {c.id}]
    /\ IsAnswered(r)
    /\ UNCHANGED clock

ResetPassword(r, i, strong) ==
    /\ Stored(i)
    /\ Starts(r, IF strong THEN [at |-> "password", id |-> i] ELSE Idle)
    /\ UNCHANGED <<rows, log, clock>>

UpdatePassword(r) ==
    /\ request[r].at = "password"
    /\ rows' = [rows EXCEPT ![request[r].id].password = @ + 1]
    /\ IsAnswered(r)
    /\ UNCHANGED <<log, clock>>

UsersNext ==
    \/ \E r \in Requests :
          \/ /\ commands < MaxCommands
             /\ \/ \E e \in Emails, spelling \in Spellings, role \in {"admin", "staff"},
                      phone \in Phones, strong \in BOOLEAN :
                         CreateUser(r, e, spelling, role, phone, strong)
                \/ \E i \in Ids, phone \in Phones : UpdateProfile(r, i, phone)
                \/ \E i \in Ids, role \in {"admin", "staff"} : ChangeRole(r, i, role)
                \/ \E i \in Ids, strong \in BOOLEAN : ResetPassword(r, i, strong)
          \/ \E i \in Ids : InsertUser(r, i)
          \/ UpdateUser(r) \/ UpdatePassword(r)
    \/ StopProcess

-----------------------------------------------------------------------------
UsersTypeOK == \A i \in Ids : rows[i] \in UserRow \cup {NoRow}

\* A creation that was answered left a user with the address, unless another creation with
\* the address was under way (IdentityService.createUser).
CreatedIsStored ==
    \A i \in DOMAIN log.created : log.created[i] \notin log.collided => Stored(i)

\* The version of a user counts the changes that were announced, unless one overtook
\* another (User.updateProfile, User.changeRole).
ChangesAreCounted ==
    \A i \in Ids \ log.overtaken : Stored(i) => rows[i].version = 1 + log.changes[i]

\* Who creates a user other than the superadmin stands above the one created
\* (PermissionResolver.canCreateRole).
CreatesBelow ==
    \A a, b \in Roles : CanCreateRole(a, b) => a = "superadmin" \/ IsMorePrivilegedThan(a, b)

UsersSound == CreatedIsStored /\ ChangesAreCounted /\ CreatesBelow

\* "Admin has all except superadmin-only operations": what any other role may do.
AdminHasAll ==
    \A role \in Roles \ {"superadmin"}, a \in Actions :
        HasPermission(role, a) => HasPermission("admin", a)
=============================================================================
