-------------------------------- MODULE Auth --------------------------------
(***************************************************************************)
(* Authentication: the handlers of mydis/auth.go, each of which passes its *)
(* request on to etcd, and of etcd the users, roles and permissions that   *)
(* the handlers make it keep.  Which requests a permission lets etcd serve *)
(* is left open.                                                           *)
(***************************************************************************)
EXTENDS FiniteSets

VARIABLE auth \* [enabled, users : name -> [pass, roles], roles : name -> permissions]

Root == "root"

\* A handler's outcome: the state it leaves, and its reply or error.
Done(new, reply) == [auth |-> new, ok |-> TRUE, reply |-> reply]
Changed(new)     == Done(new, "ok")
Refused          == [auth |-> auth, ok |-> FALSE, reply |-> "refused"]
When(guard, outcome) == IF guard THEN outcome ELSE Refused

IsUser(u) == u \in DOMAIN auth.users
IsRole(r) == r \in DOMAIN auth.roles
Drop(f, x) == [y \in DOMAIN f \ {x} |-> f[y]]
Keep(f, x, v) == [y \in DOMAIN f \cup {x} |-> IF y = x THEN v ELSE f[y]]
User(u, user) == [auth EXCEPT !.users = Keep(@, u, user)]
Role(r, perms) == [auth EXCEPT !.roles = Keep(@, r, perms)]

AuthEnable(a) == When(IsUser(Root) /\ Root \in auth.users[Root].roles,
                      Changed([auth EXCEPT !.enabled = TRUE]))
AuthDisable(a) == Changed([auth EXCEPT !.enabled = FALSE])

\* The reply is a token, which stands for its user.
Authenticate(a) == When(auth.enabled /\ IsUser(a.name) /\ auth.users[a.name].pass = a.pass,
                        Done(auth, a.name))

UserAdd(a)    == When(~IsUser(a.name), Changed(User(a.name, [pass |-> a.pass, roles |-> {}])))
UserGet(a)    == When(IsUser(a.name), Done(auth, auth.users[a.name].roles))
UserList(a)   == Done(auth, DOMAIN auth.users)
UserDelete(a) == When(IsUser(a.name) /\ ~(auth.enabled /\ a.name = Root),
                      Changed([auth EXCEPT !.users = Drop(@, a.name)]))
UserChangePassword(a) ==
  When(IsUser(a.name), Changed(User(a.name, [auth.users[a.name] EXCEPT !.pass = a.pass])))
UserGrantRole(a) ==
  When(IsUser(a.name) /\ IsRole(a.role),
       Changed(User(a.name, [auth.users[a.name] EXCEPT !.roles = @ \cup {a.role}])))
UserRevokeRole(a) ==
  When(IsUser(a.name) /\ a.role \in auth.users[a.name].roles,
       Changed(User(a.name, [auth.users[a.name] EXCEPT !.roles = @ \ {a.role}])))

RoleAdd(a)    == When(~IsRole(a.role), Changed(Role(a.role, {})))
RoleGet(a)    == When(IsRole(a.role), Done(auth, auth.roles[a.role]))
RoleList(a)   == Done(auth, DOMAIN auth.roles)
Deprived(users, r) == [u \in DOMAIN users |-> [users[u] EXCEPT !.roles = @ \ {r}]]
RoleDelete(a) ==
  When(IsRole(a.role) /\ ~(auth.enabled /\ a.role = Root),
       Changed([auth EXCEPT !.roles = Drop(@, a.role), !.users = Deprived(@, a.role)]))

\* A role has one permission for a range.
SameRange(p, q) == p.key = q.key /\ p.end = q.end
RoleGrantPermission(a) ==
  When(IsRole(a.role),
       Changed(Role(a.role, {p \in auth.roles[a.role] : ~SameRange(p, a.perm)} \cup {a.perm})))
RoleRevokePermission(a) ==
  When(IsRole(a.role) /\ \E p \in auth.roles[a.role] : SameRange(p, a.perm),
       Changed(Role(a.role, {p \in auth.roles[a.role] : ~SameRange(p, a.perm)})))

AuthOps == {"AuthEnable", "AuthDisable", "Authenticate", "UserAdd", "UserGet", "UserList",
            "UserDelete", "UserChangePassword", "UserGrantRole", "UserRevokeRole", "RoleAdd",
            "RoleGet", "RoleList", "RoleDelete", "RoleGrantPermission", "RoleRevokePermission"}

Handle(a) ==
  CASE a.method = "AuthEnable"           -> AuthEnable(a)
    [] a.method = "AuthDisable"          -> AuthDisable(a)
    [] a.method = "Authenticate"         -> Authenticate(a)
    [] a.method = "UserAdd"              -> UserAdd(a)
    [] a.method = "UserGet"              -> UserGet(a)
    [] a.method = "UserList"             -> UserList(a)
    [] a.method = "UserDelete"           -> UserDelete(a)
    [] a.method = "UserChangePassword"   -> UserChangePassword(a)
    [] a.method = "UserGrantRole"        -> UserGrantRole(a)
    [] a.method = "UserRevokeRole"       -> UserRevokeRole(a)
    [] a.method = "RoleAdd"              -> RoleAdd(a)
    [] a.method = "RoleGet"              -> RoleGet(a)
    [] a.method = "RoleList"             -> RoleList(a)
    [] a.method = "RoleDelete"           -> RoleDelete(a)
    [] a.method = "RoleGrantPermission"  -> RoleGrantPermission(a)
    [] a.method = "RoleRevokePermission" -> RoleRevokePermission(a)

\* etcd serves a request that comes with the token of a user, when authentication
\* is enabled; what concerns authentication needs a user with the role root.
Permitted(op, token) ==
  \/ ~auth.enabled \/ op = "Authenticate"
  \/ IsUser(token) /\ (op \in AuthOps => Root \in auth.users[token].roles)

\* A request it may refuse, by what the permissions of the user's roles say.
MayRefuse(op, token) ==
  /\ auth.enabled /\ op # "Authenticate"
  /\ IsUser(token) => Root \notin auth.users[token].roles
=============================================================================
