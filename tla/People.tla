------------------------------- MODULE People -------------------------------
(***************************************************************************)
(* Accounts and memberships: inviting an address to an engagement, adding  *)
(* somebody who has an account, hiring a provider (invites.py,             *)
(* api/engagements.py, api/users.py), and the profile a person fills in at *)
(* the first login (api/me.py).  The user pool, the membership rows, the   *)
(* staff directory and the profiles are four stores written one call at a  *)
(* time; the pool may refuse any call, and a request may end at any call.  *)
(***************************************************************************)
EXTENDS Nothing, FiniteSets, Naturals

CONSTANTS
  Persons,        \* an address, which is also the account's id
  Desks,          \* engagements somebody may be given access to
  PersonNames,    \* names people are invited under or give themselves
  PeopleRequests, \* request handlers at work at the same time
  PeopleShifts    \* which kinds of request each may be: the choices there are

VARIABLES
  rota,       \* the member of PeopleShifts this behaviour runs
  pool,       \* person -> the Cognito account [groups, name], or None
  member,     \* <<engagement, person>> -> membership [role, name], or None
  staff,      \* person -> name in the provider directory, or None
  profile,    \* person -> the name of the profile, or None
  job,        \* request -> what it is doing and remembers
  stale       \* history: persons whose name was copied from an old reading

\* An account of the pool and a membership row, when there is one.
Account == [groups : SUBSET {"client", "provider"}, name : PersonNames]
Membership == [role : {"client", "provider"}, name : PersonNames]

\* Nothing is not something: the absent value is none of the values there are.
ASSUME PeopleConstants ==
  /\ None \notin PersonNames
  /\ None \notin {"invite", "hire", "add", "onboard", "provider"}
  /\ None \notin Account
  /\ None \notin Membership

peopleVars == <<rota, pool, member, staff, profile, job, stale>>

Free == [at |-> "idle", kind |-> None, who |-> None, where |-> None, name |-> None,
         todo |-> {}, role |-> None, clear |-> FALSE]

IsProvider(u) == pool[u] # None /\ "provider" \in pool[u].groups
IsMember(e, u) == member[<<e, u>>] # None
IsStaff(u) == IsProvider(u) \/ staff[u] # None

\* What "staff" means to the picker: any other membership, or the directory.
InDirectory(u) ==
  staff[u] # None \/ \E e \in Desks : IsMember(e, u) /\ member[<<e, u>>].role # "client"
Contacts(u) == {e \in Desks : IsMember(e, u) /\ member[<<e, u>>].role = "client"}

Continues(r, w) == job' = [job EXCEPT ![r] = w]
Over(r) == Continues(r, Free)
Start(r, kind, w) ==
  /\ job[r] = Free
  /\ kind \in rota[r]
  /\ Continues(r, [w EXCEPT !.kind = kind])

\* An onboarding of u that gives another name than n.
Contradicts(o, u, n) == job[o].kind = "onboard" /\ job[o].who = u /\ job[o].name # n

\* A membership row of u is put under name n: history notes it when that is not
\* the name u gave, and so does an onboarding of u that is still going on.
Named(u, n) ==
  stale' = IF profile[u] \notin {None, n} THEN stale \cup {u} ELSE stale
Noticing(u, n, o) ==
  IF Contradicts(o, u, n) THEN [job[o] EXCEPT !.clear = FALSE] ELSE job[o]
OverNoticed(r, u, n) ==
  job' = [o \in PeopleRequests |-> IF o = r THEN Free ELSE Noticing(u, n, o)]

-----------------------------------------------------------------------------
(* create_and_invite and create_provider_user: an account, its group, its  *)
(* row, and the mail with the password.                                    *)

\* An address that is taken: an invitation goes on with the account there is,
\* a hiring fails.  Above it, an invitation that fails as well.
TakenIsRefused(w) == Free
Taken(w) == IF w.kind = "invite" THEN [w EXCEPT !.at = "lookup"] ELSE Free

StartInvite(r, e, u, n) ==
  /\ Start(r, "invite", [Free EXCEPT !.at = "account", !.who = u, !.where = e, !.name = n,
                                     !.role = "client"])
  /\ UNCHANGED <<rota, pool, member, staff, profile, stale>>

StartHire(r, u, n) ==
  /\ Start(r, "hire", [Free EXCEPT !.at = "account", !.who = u, !.name = n,
                                   !.role = "provider"])
  /\ UNCHANGED <<rota, pool, member, staff, profile, stale>>

CreateAccount(r) ==
  /\ job[r].at = "account"
  /\ LET u == job[r].who
     IN  IF pool[u] = None
         THEN /\ pool' = [pool EXCEPT ![u] = [groups |-> {}, name |-> job[r].name]]
              /\ Continues(r, [job[r] EXCEPT !.at = "group"])
         ELSE /\ Continues(r, Taken(job[r]))
              /\ UNCHANGED pool
  /\ UNCHANGED <<rota, member, staff, profile, stale>>

AddToGroup(r) ==
  /\ job[r].at = "group"
  /\ pool' = [pool EXCEPT ![job[r].who].groups = @ \cup {job[r].role}]
  /\ Continues(r, [job[r] EXCEPT !.at = "row"])
  /\ UNCHANGED <<rota, member, staff, profile, stale>>

\* The mail that follows may fail, which undoes nothing.
PutRow(r) ==
  /\ job[r].at = "row"
  /\ LET u == job[r].who
     IN  IF job[r].kind = "hire"
         THEN /\ staff' = [staff EXCEPT ![u] = job[r].name]
              /\ Over(r)
              /\ UNCHANGED <<member, stale>>
         ELSE /\ member' = [member EXCEPT ![<<job[r].where, u>>] =
                              [role |-> "client", name |-> job[r].name]]
              /\ Named(u, job[r].name) /\ OverNoticed(r, u, job[r].name)
              /\ UNCHANGED staff
  /\ UNCHANGED <<rota, pool, profile>>

-----------------------------------------------------------------------------
(* The account behind a taken address: who it is decides.                  *)

\* The pool's groups and the directory say who is staff; an account whose
\* groups cannot be read is left alone.  Above it, one that reads no answer as
\* "a customer".
UnreadIsCustomer(u, readable) == (~readable \/ ~IsProvider(u)) /\ staff[u] = None
MayBeContact(u, readable) == readable /\ ~IsStaff(u)

LookUpAccount(r, readable) ==
  /\ job[r].at = "lookup"
  /\ LET u == job[r].who
     IN  IF MayBeContact(u, readable) /\ ~IsMember(job[r].where, u)
         THEN Continues(r, [job[r] EXCEPT !.at = "join", !.clear = ~IsStaff(u),
                          !.name = IF pool[u].name # None THEN pool[u].name ELSE @])
         ELSE Over(r)
  /\ UNCHANGED <<rota, pool, member, staff, profile, stale>>

\* add_member: a contact of another engagement comes with the name on that
\* row, anybody else with what the pool says.
StartAdd(r, e, u, readable) ==
  /\ ~IsMember(e, u)
  /\ ~InDirectory(u)
  /\ LET known == Contacts(u)
     IN  IF known # {}
         THEN \E c \in known :
                Start(r, "add", [Free EXCEPT !.at = "seat", !.who = u, !.where = e,
                                   !.clear = TRUE, !.name = member[<<c, u>>].name])
         ELSE /\ pool[u] # None /\ MayBeContact(u, readable)
              /\ Start(r, "add", [Free EXCEPT !.at = "join", !.who = u, !.where = e,
                                    !.clear = ~IsStaff(u), !.name = pool[u].name])
  /\ UNCHANGED <<rota, pool, member, staff, profile, stale>>

\* ensure_client_group, which may fail; the membership row is put all the same.
EnsureGroup(r, grouped) ==
  /\ job[r].at = "join"
  /\ pool' = IF grouped THEN [pool EXCEPT ![job[r].who].groups = @ \cup {"client"}] ELSE pool
  /\ Continues(r, [job[r] EXCEPT !.at = "seat"])
  /\ UNCHANGED <<rota, member, staff, profile, stale>>

Join(r) ==
  /\ job[r].at = "seat"
  /\ member' = [member EXCEPT ![<<job[r].where, job[r].who>>] =
                  [role |-> "client", name |-> job[r].name]]
  /\ Named(job[r].who, job[r].name) /\ OverNoticed(r, job[r].who, job[r].name)
  /\ UNCHANGED <<rota, pool, staff, profile>>

\* create_engagement gives its creator a provider membership.
Found(e, u) ==
  /\ IsProvider(u)
  /\ \A o \in Persons : ~IsMember(e, o)
  /\ member' = [member EXCEPT ![<<e, u>>] = [role |-> "provider", name |-> pool[u].name]]
  /\ Named(u, pool[u].name)
  /\ job' = [o \in PeopleRequests |-> Noticing(u, pool[u].name, o)]
  /\ UNCHANGED <<rota, pool, staff, profile>>

-----------------------------------------------------------------------------
(* update_me: the profile, then every membership row, then the directory,  *)
(* and last the name in the pool, which may fail.                          *)

\* Nobody looks whether the person is at it already.  History notes whether an
\* onboarding under another name is going on, here and there.
StartOnboard(r, u, n) ==
  /\ pool[u] # None
  /\ job[r] = Free
  /\ "onboard" \in rota[r]
  /\ profile' = [profile EXCEPT ![u] = n]
  /\ stale' = stale \cup {u}
  /\ LET w == [Free EXCEPT !.at = "list", !.kind = "onboard", !.who = u, !.name = n,
                           !.role = IF IsProvider(u) THEN "provider" ELSE None,
                           !.clear = \A o \in PeopleRequests : ~Contradicts(o, u, n)]
     IN  job' = [o \in PeopleRequests |-> IF o = r THEN w ELSE Noticing(u, n, o)]
  /\ UNCHANGED <<rota, pool, member, staff>>

ListRows(r) ==
  /\ job[r].at = "list"
  /\ Continues(r, [job[r] EXCEPT !.at = "rename",
                 !.todo = {e \in Desks : IsMember(e, job[r].who)}])
  /\ UNCHANGED <<rota, pool, member, staff, profile, stale>>

\* Above it, one that stops at the first row.
RenameOne(r, e) ==
  /\ job[r].at = "rename"
  /\ e \in job[r].todo
  /\ member' = [member EXCEPT ![<<e, job[r].who>>].name = job[r].name]
  /\ Continues(r, [job[r] EXCEPT !.todo = {}])
  /\ UNCHANGED <<rota, pool, staff, profile, stale>>

Rename(r, e) ==
  /\ job[r].at = "rename"
  /\ e \in job[r].todo
  /\ member' = [member EXCEPT ![<<e, job[r].who>>].name = job[r].name]
  /\ Continues(r, [job[r] EXCEPT !.todo = @ \ {e}])
  /\ UNCHANGED <<rota, pool, staff, profile, stale>>

\* With every row renamed, the directory has its turn, for whom the token called
\* a provider.  If no other name was put meanwhile, the names agree again.
PutInDirectory(r) ==
  /\ job[r].at = "rename" /\ job[r].todo = {}
  /\ LET u == job[r].who
     IN  /\ staff' = IF job[r].role = "provider" THEN [staff EXCEPT ![u] = job[r].name] ELSE staff
         /\ stale' = IF job[r].clear THEN stale \ {u} ELSE stale
  /\ Continues(r, [job[r] EXCEPT !.at = "sync"])
  /\ UNCHANGED <<rota, pool, member, profile>>

SyncName(r, synced) ==
  /\ job[r].at = "sync"
  /\ pool' = IF synced THEN [pool EXCEPT ![job[r].who].name = job[r].name] ELSE pool
  /\ Over(r)
  /\ UNCHANGED <<rota, member, staff, profile, stale>>

\* A call fails or the request dies: what is written stays written.
Fails(r) ==
  /\ job[r] # Free
  /\ Over(r)
  /\ UNCHANGED <<rota, pool, member, staff, profile, stale>>

-----------------------------------------------------------------------------
PeopleInit ==
  /\ rota \in PeopleShifts
  /\ pool = [u \in Persons |-> None]
  /\ member = [p \in Desks \X Persons |-> None]
  /\ staff = [u \in Persons |-> None]
  /\ profile = [u \in Persons |-> None]
  /\ job = [r \in PeopleRequests |-> Free]
  /\ stale = {}

PeopleNext ==
  \/ \E e \in Desks, u \in Persons : Found(e, u)
  \/ \E r \in PeopleRequests :
       \/ \E u \in Persons, n \in PersonNames :
            \/ \E e \in Desks : StartInvite(r, e, u, n)
            \/ StartHire(r, u, n)
            \/ StartOnboard(r, u, n)
       \/ \E e \in Desks, u \in Persons, readable \in BOOLEAN : StartAdd(r, e, u, readable)
       \/ \E ok \in BOOLEAN : LookUpAccount(r, ok) \/ EnsureGroup(r, ok) \/ SyncName(r, ok)
       \/ \E e \in Desks : Rename(r, e)
       \/ CreateAccount(r) \/ AddToGroup(r) \/ PutRow(r) \/ Join(r)
       \/ ListRows(r) \/ PutInDirectory(r) \/ Fails(r)

PeopleSpec == PeopleInit /\ [][PeopleNext]_peopleVars

-----------------------------------------------------------------------------
(* What must hold.                                                         *)

PeopleTypeOK ==
  /\ \A u \in Persons :
       /\ pool[u] # None => pool[u].groups \subseteq {"client", "provider"}
       /\ profile[u] \in PersonNames \cup {None}
       /\ staff[u] # None => IsProvider(u)
  /\ \A p \in Desks \X Persons :
       member[p] # None => member[p].role \in {"client", "provider"} /\ pool[p[2]] # None
  /\ stale \subseteq Persons

\* Nobody becomes a customer's contact while on Wheels' staff, unless the
\* request had looked before the hiring was through, or copied somebody who
\* was a contact already (invite_or_add, add_member).
StaffAreNotCustomers ==
  [][\A p \in Desks \X Persons :
       member[p] = None /\ member'[p] # None /\ member'[p].role = "client" =>
         \/ ~IsStaff(p[2])
         \/ \E r \in PeopleRequests :
              job'[r] # job[r] /\ job[r].kind # "onboard" /\ job[r].clear]_peopleVars

\* An invitation the pool answers ends with a membership, or because the person
\* is staff: an account left behind by an earlier attempt, at whatever call it
\* broke off, is no dead end (invite_or_add).
InvitationsArrive ==
  [][\A r \in PeopleRequests :
       /\ job[r].kind = "invite" /\ job'[r] = Free
       /\ CreateAccount(r) \/ LookUpAccount(r, TRUE) \/ PutRow(r) \/ Join(r)
       => IsStaff(job[r].who) \/ member'[<<job[r].where, job[r].who>>] # None]_peopleVars

\* When a person's last onboarding has renamed the rows it found, every
\* membership row shows the name it gave, unless a row was put since, or
\* meanwhile, under another, or an onboarding under another name crossed it
\* (update_me).  Crossed ones leave the rows as the later call has them.
NamesFollowTheProfile ==
  \A u \in Persons \ stale : profile[u] # None =>
    \A e \in Desks : IsMember(e, u) => member[<<e, u>>].name = profile[u]
=============================================================================
