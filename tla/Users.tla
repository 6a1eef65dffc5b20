------------------------------- MODULE Users ---------------------------------
(***************************************************************************)
(* Users (users/service.py), and what the login with a password and the    *)
(* public sign-up do to them (auth/service.py).                            *)
(***************************************************************************)
EXTENDS Customers

CONSTANTS Mobiles, Passwords, AdminMobile    \* the last is that of the default admin

Roles == {"admin", "customer", "public"}

UserColumns == {"mobile", "role", "customer", "org_name", "org_type", "password", "is_active"}

\* A password: [text, hashed, by], for no two hashes of one text are equal.
Hash(text, r) == [text |-> text, hashed |-> TRUE, by |-> r]

\* The column types and ck_users_role_customer.
UserOK_AnyProfile(row) ==
    row.mobile # NULL /\ row.is_active # NULL /\ row.role # NULL
UserOK(row) ==
    /\ DOMAIN row = UserColumns
    /\ row.mobile # NULL /\ row.is_active # NULL
    /\ \/ row.role = "admin"    /\ row.customer = NULL /\ row.org_name = NULL /\ row.org_type = NULL
       \/ row.role = "customer" /\ row.customer # NULL /\ row.org_name = NULL /\ row.org_type = NULL
       \/ row.role = "public"   /\ row.customer = NULL /\ row.org_name # NULL /\ row.org_type # NULL

UserBody(o) ==
    \/ /\ o.kind \in {"newUser", "signUp"}
       /\ DOMAIN o.set = UserColumns \ {"is_active"} /\ o.set.role \in Roles
       /\ o.kind = "signUp" => o.set.role = "public" /\ {o.set.customer, o.set.password} = {NULL}
    \/ o.kind = "offUser"
    \/ /\ o.kind = "editUser" /\ DOMAIN o.set \subseteq UserColumns
       /\ "password" \in DOMAIN o.set => o.set.password \in Passwords \cup {NULL}
    \/ o.kind = "login" /\ o.mobile \in Mobiles /\ o.password \in Passwords
    \/ o.kind = "seed"

ASSUME UsersAssumption ==
    /\ NULL \notin Mobiles \cup Roles \cup Passwords \cup [text : Passwords, hashed : BOOLEAN, by : Nat]
    /\ AdminMobile \in Mobiles
    /\ DOMAIN InitUsers \cap Requests = {}
    /\ \A u \in DOMAIN InitUsers :
          /\ UserOK(InitUsers[u]) /\ InitUsers[u].customer \in DOMAIN InitCustomers \cup {NULL}
          /\ \A v \in DOMAIN InitUsers : InitUsers[u].mobile = InitUsers[v].mobile => u = v

\* UserRolePolicy.resolve_profile: which profile a role has, and what is wrong with it.
Profile(row) ==
    [row EXCEPT !.customer = IF row.role \in {"admin", "public"} THEN NULL ELSE @,
                !.org_name = IF row.role = "public" THEN @ ELSE NULL,
                !.org_type = IF row.role = "public" THEN @ ELSE NULL]

Refused(row) ==
    \/ row.role \notin {"admin", "public"} /\ (row.customer = NULL \/ ~Active(row.customer))
    \/ row.role = "public" /\ (row.org_name = NULL \/ row.org_type = NULL)

\* What create assigns, and what update does: a password only if there is one.
Created(r, o) == Assign([c \in UserColumns |-> TRUE],
    [o.set EXCEPT !.password = IF @ = NULL THEN NULL ELSE Hash(@, r)])

Updated_PasswordToo(r, seen, set) ==
    Assign(seen, IF "password" \in DOMAIN set
                 THEN [set EXCEPT !.password = IF @ = NULL THEN NULL ELSE Hash(@, r)] ELSE set)
Updated(r, seen, set) ==
    LET rest == [c \in DOMAIN set \ {"password"} |-> set[c]]
    IN  IF "password" \in DOMAIN set /\ set.password # NULL
        THEN [Assign(seen, rest) EXCEPT !.password = Hash(set.password, r)]
        ELSE Assign(seen, rest)

\* UserService.create and sign_up_public, which asks no policy.
LoadNewUser(r, o) ==
    /\ MayBegin(r)
    /\ o.kind \in {"newUser", "signUp"}
    /\ Goes(r, IF o.kind = "newUser" /\ Refused(Created(r, o)) THEN Done(422)
               ELSE [Idle EXCEPT !.pc = "newUser", !.op = o, !.seen = Profile(Created(r, o))])

\* Of an update and of a deactivation, the row that is loaded and the one it makes of it.
LoadEditUser(r, o) ==
    /\ MayBegin(r)
    /\ o.kind \in {"editUser", "offUser"}
    /\ Goes(r, IF o.user \notin DOMAIN users THEN Done(404)
               ELSE IF o.kind = "offUser"
               THEN [Idle EXCEPT !.pc = "editUser", !.op = o,
                        !.seen = <<users[o.user], [users[o.user] EXCEPT !.is_active = FALSE]>>]
               ELSE LET to == Updated(r, users[o.user], o.set) IN
                    IF Refused(to) THEN Done(422)
                    ELSE [Idle EXCEPT !.pc = "editUser", !.op = o, !.seen = <<users[o.user], Profile(to)>>])

\* AdminSeedService: nothing if the mobile is taken, by whomever.
LoadSeed(r, o) ==
    /\ MayBegin(r)
    /\ o.kind = "seed"
    /\ Goes(r, IF \E u \in DOMAIN users : users[u].mobile = AdminMobile THEN Done(200)
               ELSE [Idle EXCEPT !.pc = "newUser", !.op = o,
                        !.seen = [mobile |-> AdminMobile, role |-> "admin", customer |-> NULL,
                                  org_name |-> NULL, org_type |-> NULL, password |-> NULL, is_active |-> TRUE]])

\* The commit of a row, new or changed: the constraints decide.
StoreUser(r, id, row, failure) ==
    IF UserOK(row) /\ \A u \in DOMAIN users \ {id} : users[u].mobile # row.mobile
    THEN /\ users' = Put(users, id, row)
         /\ UNCHANGED <<customers, summaries, lines, connections>>
         /\ Commits(r, 200)
    ELSE Goes(r, Done(failure))

CommitUser(r) ==
    \/ /\ req[r].pc = "newUser"
       /\ StoreUser(r, r, req[r].seen, IF req[r].op.kind = "seed" THEN 500 ELSE 409)
    \/ /\ req[r].pc = "editUser"
       /\ LET u == req[r].op.user
          IN  StoreUser(r, u, Flush(users[u], req[r].seen[1], req[r].seen[2]), 409)

\* login: the row of an active user by its mobile, and the password that it has to have.
Login(r, o) ==
    LET found == {u \in DOMAIN users : users[u].mobile = o.mobile /\ users[u].is_active}
        row   == users[CHOOSE u \in found : TRUE]
    IN
    /\ MayBegin(r)
    /\ o.kind = "login"
    /\ Goes(r, IF found = {}                                                THEN Done(401)
               ELSE IF row.password = NULL \/ row.password.text # o.password THEN Done(401)
               ELSE IF row.password.hashed                                  THEN Done(200)
               ELSE [Idle EXCEPT !.pc = "upgrade", !.op = o, !.seen = CHOOSE u \in found : TRUE])

\* _upgrade_legacy_password, by id, whatever the row has by then.
Upgrade(r) ==
    /\ req[r].pc = "upgrade"
    /\ users' = [users EXCEPT ![req[r].seen].password = Hash(req[r].op.password, r)]
    /\ UNCHANGED <<customers, summaries, lines, connections>>
    /\ Commits(r, 200)
==============================================================================
