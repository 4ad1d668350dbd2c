------------------------------ MODULE Accounts ------------------------------
(***************************************************************************)
(* Users and tenants of the API (routers/auth.py, users.py, tenants.py;    *)
(* shared/auth.py, shared/models/user.py): every handler loads a row and   *)
(* commits later, in between other handlers commit.  The ORM writes the    *)
(* columns that differ from what was loaded; objects keep what was loaded  *)
(* after the commit.  A token is a copy of the row its login loaded.       *)
(*                                                                         *)
(* One user and one tenant.  That the caller of an administrative handler  *)
(* may call it is checked before anything is read.  The answers of the     *)
(* user handlers fail to serialise an id after the commit, which changes   *)
(* nothing here.                                                           *)
(***************************************************************************)
EXTENDS Naturals, FiniteSets

CONSTANTS Handlers,
          LockAfter,    \* failed logins that lock an account
          LockTime, TokenLife,
          Values,       \* colours and logos
          MaxTime,      \* bound on the clock
          MaxRequests   \* bound on requests

AccountAssumption == LockAfter \in Nat /\ LockTime \in Nat /\ TokenLife \in Nat
                     /\ MaxTime \in Nat /\ MaxRequests \in Nat

VARIABLES user,         \* the row of the user
          tenant,       \* the row of the tenant
          request,      \* what each handler has loaded and is about to do
          tokens,       \* tokens handed out
          now, requests,
          failures, granted, saved   \* history

vars == <<user, tenant, request, tokens, now, requests, failures, granted, saved>>

ROLES == {"admin", "viewer"}
Keep == "keep"          \* a field the request leaves out
Parts == {"logo_url", "primary_color"}
Default == "default"
Idle == [op |-> "idle"]
Gone == [id |-> 0]      \* no such user
Tenant == [branding : [Parts -> Values \cup {Default}], is_active : BOOLEAN]
Fresh(id, role) == [id |-> id, role |-> role, permissions |-> role, is_active |-> TRUE,
                    attempts |-> 0, locked |-> 0]

TypeOK ==
  /\ user.id \in 0..MaxRequests
  /\ user # Gone => user.role \in ROLES /\ user.attempts \in 0..MaxRequests
                    /\ user.locked \in 0..(MaxTime + LockTime)
  /\ tenant \in Tenant
  /\ \A h \in Handlers : request[h].op \in {"idle", "login", "create", "update", "delete", "tenant"}
  /\ \A t \in tokens : t.exp \in 0..(MaxTime + TokenLife)
  /\ now \in 0..MaxTime /\ requests \in 0..MaxRequests

Init ==
  /\ user = Gone
  /\ tenant = [branding |-> [p \in Parts |-> Default], is_active |-> TRUE]
  /\ request = [h \in Handlers |-> Idle]
  /\ tokens = {} /\ now = 0 /\ requests = 0
  /\ failures = 0 /\ granted = [role |-> Keep, is_active |-> FALSE]
  /\ saved = [branding |-> tenant.branding, sure |-> Parts, writes |-> 0]

(* A handler loads the rows. *)
Load(h, q) ==
  /\ request[h] = Idle /\ requests < MaxRequests
  /\ requests' = requests + 1
  /\ request' = [request EXCEPT ![h] = q]
  /\ UNCHANGED <<user, tenant, tokens, now, failures, granted, saved>>
Return(h) == request' = [request EXCEPT ![h] = Idle] /\ UNCHANGED <<now, requests>>
Refused(h) == Return(h) /\ UNCHANGED <<user, tenant, tokens, failures, granted, saved>>
Same(q) == user # Gone /\ user.id = q.user.id      \* an UPDATE finds the row

-----------------------------------------------------------------------------
ReadLogin(h, right) ==
  user # Gone /\ Load(h, [op |-> "login", user |-> user, right |-> right])

Locked(u) == u.locked # 0 /\ now < u.locked

(* The UPDATE of a failed login sets the count it has loaded and one more, and the lock *)
(* when that reaches the limit or an old one is over.                                   *)
AfterFailure(u) ==
  [user EXCEPT !.attempts = u.attempts + 1,
               !.locked = IF u.attempts + 1 >= LockAfter THEN now + LockTime
                          ELSE IF u.locked # 0 THEN 0 ELSE @]
(* Defect form: the row that was loaded is written back whole. *)
AfterSuccessWhole(u) == [u EXCEPT !.attempts = 0, !.locked = 0]
(* The UPDATE of a login resets what was loaded as set. *)
AfterSuccess(u) ==
  [user EXCEPT !.attempts = IF u.attempts # 0 THEN 0 ELSE @,
               !.locked = IF u.locked # 0 THEN 0 ELSE @]

(* create_access_token, of the row as it was loaded. *)
Token(u) == [role |-> u.role, permissions |-> u.permissions, exp |-> now + TokenLife]

(* Wrong password: a running lock is reported and nothing written. *)
LoginFails(h) ==
  LET q == request[h] IN
  /\ q.op = "login" /\ ~q.right /\ ~Locked(q.user) /\ Same(q)
  /\ user' = AfterFailure(q.user)
  /\ failures' = failures + 1
  /\ Return(h) /\ UNCHANGED <<tenant, tokens, granted, saved>>

(* Right password: the lock is not looked at, and cleared. *)
LoginSucceeds(h) ==
  LET q == request[h] IN
  /\ q.op = "login" /\ q.right /\ q.user.is_active /\ Same(q)
  /\ user' = AfterSuccess(q.user)
  /\ tokens' = tokens \cup {Token(q.user)}
  /\ Return(h) /\ UNCHANGED <<tenant, failures, granted, saved>>

(* 401; or the row is gone and the UPDATE matches none. *)
LoginRefused(h) ==
  LET q == request[h] IN
  /\ q.op = "login"
  /\ \/ ~q.right /\ Locked(q.user)
     \/ q.right /\ ~q.user.is_active
     \/ ~Same(q)
  /\ Refused(h)

(* verify_token and create_access_token with the data of a token that has not expired. *)
Refresh(t) ==
  /\ now < t.exp
  /\ tokens' = tokens \cup {[t EXCEPT !.exp = now + TokenLife]}
  /\ UNCHANGED <<user, tenant, request, now, requests, failures, granted, saved>>

-----------------------------------------------------------------------------
ReadCreate(h, role) == Load(h, [op |-> "create", user |-> user, role |-> role])

(* The email was free when it was looked up; UNIQUE decides at the commit. *)
CommitCreate(h) ==
  LET q == request[h] IN
  /\ q.op = "create"
  /\ IF q.user # Gone \/ user # Gone THEN Refused(h)
     ELSE /\ user' = Fresh(requests, q.role)
          /\ failures' = 0 /\ granted' = [role |-> q.role, is_active |-> TRUE]
          /\ Return(h) /\ UNCHANGED <<tenant, tokens, saved>>

ReadUpdate(h, role, active) ==
  /\ user # Gone
  /\ Load(h, [op |-> "update", user |-> user, role |-> role, active |-> active])

(* A role brings its permissions; what is equal to what was loaded is not written. *)
CommitUpdate(h) ==
  LET q == request[h]
      role == q.role \notin {Keep, q.user.role}
      active == q.active \notin {Keep, IF q.user.is_active THEN "on" ELSE "off"}
  IN  /\ q.op = "update"
      /\ IF ~Same(q) THEN Refused(h)
         ELSE /\ user' = [user EXCEPT !.role = IF role THEN q.role ELSE @,
                                      !.permissions = IF role THEN q.role ELSE @,
                                      !.is_active = IF active THEN q.active = "on" ELSE @]
              /\ granted' = [role |-> IF role THEN q.role ELSE granted.role,
                             is_active |-> IF active THEN q.active = "on" ELSE granted.is_active]
              /\ Return(h) /\ UNCHANGED <<tenant, tokens, failures, saved>>

ReadDelete(h) == user # Gone /\ Load(h, [op |-> "delete", user |-> user])

(* A DELETE that matches no row passes. *)
CommitDelete(h) ==
  /\ request[h].op = "delete"
  /\ user' = IF Same(request[h]) THEN Gone ELSE user
  /\ Return(h) /\ UNCHANGED <<tenant, tokens, failures, granted, saved>>

-----------------------------------------------------------------------------
(* update_tenant with a whole configuration or the flag, update_tenant_branding with *)
(* some of its parts, deactivate_tenant.                                             *)
Changes ==
  [kind : {"active"}, to : BOOLEAN] \cup [kind : {"config"}, to : [Parts -> Values]]
  \cup [kind : {"branding"}, part : Parts, to : Values]
ReadTenant(h, change) ==
  Load(h, [op |-> "tenant", tenant |-> tenant, change |-> change, writes |-> saved.writes])

(* The configuration is one column. *)
Branding(read, change) ==
  IF change.kind = "config" THEN change.to ELSE [read EXCEPT ![change.part] = change.to]

CommitTenant(h) ==
  LET q == request[h]
      to == Branding(q.tenant.branding, q.change)
      set == IF q.change.kind = "config" THEN Parts ELSE {q.change.part}
      stale == q.writes # saved.writes
  IN  /\ q.op = "tenant"
      /\ IF q.change.kind = "active"
           THEN /\ tenant' = [tenant EXCEPT !.is_active =
                                IF q.change.to # q.tenant.is_active THEN q.change.to ELSE @]
                /\ UNCHANGED saved
           ELSE /\ tenant' = [tenant EXCEPT !.branding = IF to # q.tenant.branding THEN to ELSE @]
                /\ saved' = [branding |-> [p \in Parts |-> IF p \in set THEN to[p]
                                                           ELSE saved.branding[p]],
                             sure |-> IF stale THEN {} ELSE saved.sure \cup set,
                             writes |-> saved.writes + 1]
      /\ Return(h) /\ UNCHANGED <<user, tokens, failures, granted>>

(* The handler raises, or its commit fails. *)
Fail(h) == request[h] # Idle /\ Refused(h)

Tick ==
  /\ now < MaxTime /\ now' = now + 1
  /\ UNCHANGED <<user, tenant, request, tokens, requests, failures, granted, saved>>

Next ==
  \/ \E h \in Handlers :
       \/ \E right \in BOOLEAN : ReadLogin(h, right)
       \/ \E role \in ROLES : ReadCreate(h, role)
       \/ \E role \in ROLES \cup {Keep}, active \in {"on", "off", Keep} :
            ReadUpdate(h, role, active)
       \/ \E change \in Changes : ReadTenant(h, change)
       \/ ReadDelete(h) \/ LoginFails(h) \/ LoginSucceeds(h) \/ LoginRefused(h)
       \/ CommitCreate(h) \/ CommitUpdate(h) \/ CommitDelete(h) \/ CommitTenant(h) \/ Fail(h)
  \/ \E t \in tokens : Refresh(t)
  \/ Tick

Spec == Init /\ [][Next]_vars

-----------------------------------------------------------------------------
(* Whatever handlers overlap: a role and its permissions agree in the row and in every   *)
(* token; role and activity are what an administrator last changed them to, so that no   *)
(* login that loaded the row earlier gives them back; a lock stands for enough failed    *)
(* logins, and none is counted twice; and a part of the branding is what was last saved, *)
(* unless changes of the configuration overlapped (auth.py:47-85, users.py:143-154,      *)
(* tenants.py:127-159).                                                                  *)
AccountsAgree ==
  /\ user # Gone =>
       /\ user.permissions = user.role
       /\ user.role = granted.role /\ user.is_active = granted.is_active
       /\ user.attempts <= failures
       /\ user.locked # 0 => failures >= LockAfter
  /\ \A t \in tokens : t.permissions = t.role
  /\ \A p \in saved.sure : tenant.branding[p] = saved.branding[p]
=============================================================================
