----------------------------- MODULE Onboarding -----------------------------
(***************************************************************************)
(* Accounts and API keys: services/onboarding_service.py,                  *)
(* services/admin_service.py, the user routes and the key lookup of        *)
(* api/deps.py, over the tables tenant, app_user and api_key.              *)
(*                                                                         *)
(* An application reads in one transaction, and so in one snapshot, whom   *)
(* it is for; what it then writes is committed against tables that others  *)
(* have changed since.  Only the unique indexes are checked at that time.  *)
(*                                                                         *)
(* A raw key is its 16 character prefix and a secret; the secret of a key  *)
(* is the request it was generated by, and the stored hash matches no      *)
(* other one.  Permissions, names and organizations are left out.          *)
(***************************************************************************)
EXTENDS Naturals, SequencesExt

CONSTANTS
    Application,      \* applications by Supabase users
    Extra,      \* requests of key holders for another key
    Account,    \* Supabase user ids
    Email,
    Prefix,     \* key prefixes that may be drawn
    None,
    AccountOf, EmailOf,     \* of each application
    Slug,       \* of each account: the first 12 characters of its id
    Admin,      \* the tenant of those who manage users
    MaxUsers    \* bound on the rows of app_user

Request == Application \cup Extra

OnboardingOK ==
    /\ None \notin Account
    /\ Application \cap Extra = {}
    /\ AccountOf \in [Application -> Account] /\ EmailOf \in [Application -> Email]
    /\ Account \subseteq DOMAIN Slug
    /\ MaxUsers \in Nat

VARIABLES
    tenants,    \* tenant codes in use
    users,      \* app_user, by id
    keys,       \* api_key
    pc,         \* where each request is
    user,       \* the row it found or made
    seen,       \* the prefixes in its snapshot
    drawn,      \* the prefix of the key it generated
    returned,   \* requests whose key was handed out
    torn,       \* history: accounts read by two applications at once, or given
                \* to a user by hand
    twice       \* history: users whom two applications linked at once

tables == <<tenants, users, keys>>
locals == <<pc, user, seen, drawn>>
past   == <<torn, twice>>
vars   == <<tables, locals, returned, past>>

User == DOMAIN users
Live == {u \in User : ~users[u].deleted}

Taken   == {k.prefix : k \in keys}
Pending == {"link", "boot"}

-----------------------------------------------------------------------------
(* Keys *)

\* Mutant of Opens: the prefix is enough.
OpensByPrefix(p, secret) ==
    LET rows == {k \in keys : k.prefix = p} IN
    IF Cardinality(rows) = 1 THEN (CHOOSE k \in rows : TRUE).user ELSE 0

\* get_request_context: whom a raw key stands for, 0 for none.
Opens(p, secret) ==
    LET rows == {k \in keys : k.prefix = p} IN
    IF Cardinality(rows) = 1 /\ \A k \in rows : k.secret = secret
    THEN (CHOOSE k \in rows : TRUE).user ELSE 0

Key(r, u) == [prefix |-> drawn'[r], secret |-> r, user |-> u]

\* The insert of a key, refused by uk_api_key_prefix.
StoreKey(r, u) ==
    IF drawn'[r] \in Taken
    THEN /\ pc' = [pc EXCEPT ![r] = "failed"]
         /\ UNCHANGED <<keys, returned>>
    ELSE /\ keys' = keys \cup {Key(r, u)}
         /\ returned' = returned \cup {r}
         /\ pc' = [pc EXCEPT ![r] = "done"]

\* _issue_api_key: a prefix that is free in the snapshot.
Issue(r) ==
    /\ pc[r] = "issue"
    /\ \E p \in Prefix \ seen[r] : drawn' = [drawn EXCEPT ![r] = p]
    /\ StoreKey(r, user[r])
    /\ seen' = [seen EXCEPT ![r] = {}]
    /\ UNCHANGED <<tenants, users, user, past>>

\* Five draws were taken ones.
IssueFails(r) ==
    /\ pc[r] = "issue" /\ seen[r] # {}
    /\ pc' = [pc EXCEPT ![r] = "failed"]
    /\ seen' = [seen EXCEPT ![r] = {}]
    /\ UNCHANGED <<tables, user, drawn, returned, past>>

-----------------------------------------------------------------------------
(* apply_api_key_for_supabase *)

Of(a)    == {u \in Live : users[u].account = a}
With(e)  == {u \in Live : users[u].email = e}
The(S)   == CHOOSE u \in S : TRUE

\* Mutant of Whom: a row with the email is linked, whoever it is linked to.
WhomAnybody(a, e) ==
    IF Cardinality(Of(a)) = 1 THEN [go |-> "issue", u |-> The(Of(a))]
    ELSE IF With(e) = {} THEN [go |-> "boot", u |-> 0]
    ELSE [go |-> "link", u |-> The(With(e))]

\* The row of the account, or else the one with the email unless it is linked to
\* another account; two rows are an error of scalar_one_or_none.
Whom(a, e) ==
    IF Cardinality(Of(a)) > 1 \/ (Of(a) = {} /\ Cardinality(With(e)) > 1)
    THEN [go |-> "failed", u |-> 0]
    ELSE IF Of(a) # {} THEN [go |-> "issue", u |-> The(Of(a))]
    ELSE IF With(e) = {} THEN [go |-> "boot", u |-> 0]
    ELSE IF users[The(With(e))].account \notin {None, a} THEN [go |-> "refused", u |-> 0]
    ELSE [go |-> "link", u |-> The(With(e))]

\* The snapshot also decides whether the tenant code is in use.
Look(r) ==
    /\ pc[r] = "idle"
    /\ LET a    == AccountOf[r]
           w    == Whom(a, EmailOf[r])
           rest == {q \in Application \ {r} : pc[q] \in Pending} IN
       /\ pc' = [pc EXCEPT ![r] = IF w.go = "boot" /\ Slug[a] \in tenants THEN "refused" ELSE w.go]
       /\ user' = [user EXCEPT ![r] = w.u]
       /\ torn' = IF \E q \in rest : AccountOf[q] = a THEN torn \cup {a} ELSE torn
       /\ twice' = IF w.go = "link" /\ \E q \in rest : pc[q] = "link" /\ user[q] = w.u
                   THEN twice \cup {w.u} ELSE twice
    /\ seen' = [seen EXCEPT ![r] = IF pc'[r] = "issue" THEN Taken ELSE {}]
    /\ UNCHANGED <<tables, drawn, returned>>

\* by_email.supabase_user_id = ..., commit, refresh.
Link(r) ==
    /\ pc[r] = "link"
    /\ users' = [users EXCEPT ![user[r]].account = AccountOf[r]]
    /\ pc' = [pc EXCEPT ![r] = "issue"]
    /\ seen' = [seen EXCEPT ![r] = Taken]
    /\ UNCHANGED <<tenants, keys, user, drawn, returned, past>>

\* bootstrap_tenant: tenant, organization, user and key in one transaction, refused
\* as a whole by uk_tenant_code or uk_api_key_prefix.
Bootstrap(r) ==
    /\ pc[r] = "boot" /\ Len(users) < MaxUsers
    /\ \E p \in Prefix : drawn' = [drawn EXCEPT ![r] = p]
    /\ IF Slug[AccountOf[r]] \in tenants \/ drawn'[r] \in Taken
       THEN /\ pc' = [pc EXCEPT ![r] = "failed"]
            /\ UNCHANGED <<tables, user, returned>>
       ELSE /\ tenants' = tenants \cup {Slug[AccountOf[r]]}
            /\ users' = Append(users, [tenant |-> Slug[AccountOf[r]], email |-> EmailOf[r],
                                       account |-> AccountOf[r], deleted |-> FALSE])
            /\ user' = [user EXCEPT ![r] = Len(users')]
            /\ StoreKey(r, Len(users'))
    /\ seen' = [seen EXCEPT ![r] = {}]
    /\ UNCHANGED past

\* The connection is lost: what was flushed is rolled back.
Lost(r) ==
    /\ pc[r] \in Pending \cup {"issue"}
    /\ pc' = [pc EXCEPT ![r] = "failed"]
    /\ seen' = [seen EXCEPT ![r] = {}]
    /\ UNCHANGED <<tables, user, drawn, returned, past>>

-----------------------------------------------------------------------------
(* create_api_key_for_context *)

AskMore(r) ==
    /\ pc[r] = "idle"
    /\ \E q \in returned :
        /\ Opens(drawn[q], q) # 0
        /\ user' = [user EXCEPT ![r] = Opens(drawn[q], q)]
    /\ pc' = [pc EXCEPT ![r] = "issue"]
    /\ seen' = [seen EXCEPT ![r] = Taken]
    /\ UNCHANGED <<tables, drawn, returned, past>>

-----------------------------------------------------------------------------
(* The user routes, each one transaction; uk_user_tenant_email spans deleted *)

Clashes(t, e, gone) ==
    \E u \in User : users[u].tenant = t /\ users[u].email = e /\ users[u].deleted = gone

\* An account given by hand is not compared with the ones there are.
CreateUser(e, a) ==
    /\ Len(users) < MaxUsers
    /\ ~Clashes(Admin, e, FALSE)
    /\ users' = Append(users, [tenant |-> Admin, email |-> e, account |-> a, deleted |-> FALSE])
    /\ torn' = torn \cup ({a} \ {None})
    /\ UNCHANGED <<tenants, keys, locals, returned, twice>>

\* Refused for a row whose like was deleted before.
DeleteUser(u) ==
    /\ ~users[u].deleted
    /\ ~Clashes(users[u].tenant, users[u].email, TRUE)
    /\ users' = [users EXCEPT ![u].deleted = TRUE]
    /\ UNCHANGED <<tenants, keys, locals, returned, past>>

Init ==
    /\ tenants = {Admin} /\ users = <<>> /\ keys = {}
    /\ pc = [r \in Request |-> "idle"] /\ user = [r \in Request |-> 0]
    /\ seen = [r \in Request |-> {}] /\ drawn = [r \in Request |-> None]
    /\ returned = {} /\ torn = {} /\ twice = {}

Next ==
    \/ \E r \in Application : Look(r) \/ Link(r) \/ Bootstrap(r)
    \/ \E r \in Extra : AskMore(r)
    \/ \E r \in Request : Issue(r) \/ IssueFails(r) \/ Lost(r)
    \/ \E e \in Email, a \in Account \cup {None} : CreateUser(e, a)
    \/ \E u \in User : DeleteUser(u)

Spec == Init /\ [][Next]_vars

-----------------------------------------------------------------------------
(* Properties *)

Rows == [tenant : Range(Slug) \cup {Admin}, email : Email,
         account : Account \cup {None}, deleted : BOOLEAN]

\* Every variable stays in its domain.
TypeOK ==
    /\ tenants \subseteq Range(Slug) \cup {Admin}
    /\ users \in Seq(Rows) /\ Len(users) <= MaxUsers
    /\ keys \subseteq [prefix : Prefix, secret : Request, user : User]
    /\ pc \in [Request -> {"idle", "issue", "done", "failed", "refused"} \cup Pending]
    /\ user \in [Request -> 0 .. MaxUsers]
    /\ seen \in [Request -> SUBSET Prefix] /\ drawn \in [Request -> Prefix \cup {None}]
    /\ returned \subseteq Request
    /\ torn \subseteq Account /\ twice \subseteq 1 .. MaxUsers

\* A key that was handed out opens the account it was made for and no other one,
\* and a key that was drawn but refused opens none, although prefixes collide and
\* are compared with a snapshot.
KeyOpensItsAccount ==
    \A r \in Request :
        /\ r \in returned => Opens(drawn[r], r) = user[r]
        /\ pc[r] = "failed" /\ drawn[r] # None => Opens(drawn[r], r) = 0

\* No two live users carry one Supabase account, which would lock it out of every
\* later application, unless two of its applications read at the same time or an
\* administrator entered it.
OneUserPerAccount ==
    \A u, v \in Live :
        users[u].account = users[v].account /\ users[u].account \notin torn \cup {None} => u = v

AccountsSound == KeyOpensItsAccount /\ OneUserPerAccount

\* "email already linked to another Supabase account": a user who is linked stays
\* linked to that account, unless two applications linked it at the same time.
LinkStep ==
    \A u \in User \ twice' :
        users[u].account # None => users'[u].account = users[u].account

LinkStands == [][LinkStep]_vars
=============================================================================
