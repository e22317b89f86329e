------------------------------ MODULE Accounts ------------------------------
(***************************************************************************)
(* Organizations, users, workspaces and memberships: the routes of         *)
(* app/api/routers/auth.py, users.py and workspaces.py over auth_service   *)
(* and workspace_service, with the tables organizations, users, workspaces *)
(* and workspace_memberships.                                              *)
(*                                                                         *)
(* Every route reads, decides and writes in one transaction that other     *)
(* requests run beside, and refreshes the row after its commit: a refresh  *)
(* that raises answers 500 though the rows are there.  The database decides last: a unique index on      *)
(* users.email and on (workspace_id, user_id) makes the commit of the      *)
(* later of two equal inserts raise.                                       *)
(*                                                                         *)
(* The code itself creates administrators only, one per organization; the  *)
(* users of other roles, and a second user of an organization, are rows an *)
(* operator wrote (Staff).  Who calls is an input: Session models the      *)
(* tokens.                                                                 *)
(***************************************************************************)
EXTENDS Naturals, FiniteSets

CONSTANTS
  Registrations, Creations, Invitations, Updates,  \* requests, one of each name
  Staff,         \* users an operator created, in the organization Home
  StaffRole,     \* their roles
  StaffEmail,    \* and emails
  Home, Desk,    \* the operator's organization, and a workspace of it
  Emails,        \* spellings of addresses
  Lower,         \* Lower[e]: email.lower()
  Keys,          \* upload_limit_mb, storage_quota_mb, agent_permissions
  Values, Default,
  None,
  MaxRequests    \* bound: requests in all

Requests == Registrations \cup Creations \cup Invitations \cup Updates
Orgs     == Registrations \cup {Home}
UserIds  == Registrations \cup Staff
Desks    == Creations \cup {Desk}
Roles    == {"admin", "manager", "employee"}
Ranks    == {"owner", "member"}

ASSUME NamesAssumption ==
  /\ Home \notin Registrations /\ Desk \notin Creations /\ Staff \cap Registrations = {}
  /\ None \notin Ranks
ASSUME StaffAssumption ==
  /\ StaffRole \in [Staff -> Roles] /\ StaffEmail \in [Staff -> Emails]
  /\ \E s \in Staff : StaffRole[s] = "admin"
  /\ \A s \in Staff : Lower[StaffEmail[s]] = StaffEmail[s]
  /\ \A s, t \in Staff : StaffEmail[s] = StaffEmail[t] => s = t
ASSUME LowerAssumption ==
  Lower \in [Emails -> Emails] /\ \A e \in Emails : Lower[Lower[e]] = Lower[e]
ASSUME SettingsAssumption == Default \in Values /\ MaxRequests \in Nat

VARIABLES
  orgs, users, workspaces, members,  \* committed rows
  settings,      \* workspaces.settings
  verified,      \* users.is_verified
  reg,           \* where each registration is, and the email it was sent
  email,
  cre, creator,  \* creations, and who sent them
  inv, offer,    \* invitations: the row each is about to write
  upd, change,   \* updates of settings: the workspace, what it sets, what it read
  \* history: workspaces whose owner an invitation made a member; the settings that
  \* updates made one after the other would leave; workspaces two updates overlapped on
  demoted, serial, raced

requests == <<reg, email, cre, creator, inv, offer, upd, change>>
vars == <<orgs, verified, users, workspaces, members, settings, requests, demoted, serial, raced>>

Position  == {"idle", "open", "flushed", "done", "refused", "failed"}
Answered  == {"done", "failed"}   \* where a commit leaves its request, by its refresh
User      == [id: UserIds, org: Orgs, email: Emails, role: Roles]
Workspace == [id: Desks, org: Orgs]
Member    == [ws: Desks, user: UserIds, rank: Ranks]
Offer     == [ws: Desks, user: UserIds, rank: Ranks, had: Ranks \cup {None}]
Settings  == [Keys -> Values]
Asked     == UNION {[K -> Values] : K \in SUBSET Keys}
Change    == [ws: Desks, set: Asked, read: Settings]

Defaults  == [k \in Keys |-> Default]

TypeOK ==
  /\ orgs \subseteq Orgs /\ users \subseteq User /\ verified \subseteq Registrations
  /\ workspaces \subseteq Workspace /\ members \subseteq Member
  /\ settings \in [Desks -> Settings] /\ serial \in [Desks -> Settings]
  /\ reg \in [Registrations -> Position] /\ email \in [Registrations -> Emails \cup {None}]
  /\ cre \in [Creations -> Position] /\ creator \in [Creations -> UserIds \cup {None}]
  /\ inv \in [Invitations -> Position] /\ offer \in [Invitations -> Offer \cup {None}]
  /\ upd \in [Updates -> Position] /\ change \in [Updates -> Change \cup {None}]
  /\ demoted \subseteq Desks /\ raced \subseteq Desks

Init ==
  /\ orgs = {Home} /\ verified = {}
  /\ users = {[id |-> s, org |-> Home, email |-> StaffEmail[s], role |-> StaffRole[s]] : s \in Staff}
  /\ workspaces = {[id |-> Desk, org |-> Home]}
  /\ \E s \in Staff : /\ StaffRole[s] # "employee"
                      /\ members = {[ws |-> Desk, user |-> s, rank |-> "owner"]}
  /\ settings = [w \in Desks |-> Defaults]
  /\ reg = [r \in Registrations |-> "idle"] /\ email = [r \in Registrations |-> None]
  /\ cre = [c \in Creations |-> "idle"] /\ creator = [c \in Creations |-> None]
  /\ inv = [i \in Invitations |-> "idle"] /\ offer = [i \in Invitations |-> None]
  /\ upd = [p \in Updates |-> "idle"] /\ change = [p \in Updates |-> None]
  /\ demoted = {} /\ raced = {} /\ serial = settings

-----------------------------------------------------------------------------
(* Lookups. *)

\* get_user_by_email: scalar_one_or_none, by the lower-cased address.
Found(e) == {u \in users : u.email = Lower[e]}

\* get_workspace: only a workspace of the caller's organization.
Visible(u, w) == \E k \in workspaces : k.id = w /\ k.org = u.org

\* require_roles(...)
Allowed(u, roles) == u.role \in roles

\* The membership add_member finds, by the unique pair.
RankOf(w, u) == IF \E m \in members : m.ws = w /\ m.user = u
                THEN (CHOOSE m \in members : m.ws = w /\ m.user = u).rank ELSE None

\* MaxRequests bounds how many requests are sent.
Sent == Cardinality({r \in Registrations : reg[r] # "idle"}) +
        Cardinality({c \in Creations : cre[c] # "idle"}) +
        Cardinality({i \in Invitations : inv[i] # "idle"}) +
        Cardinality({p \in Updates : upd[p] # "idle"})

-----------------------------------------------------------------------------
(* Steps gone wrong, each the way a change of the code could: the property   *)
(* named with it refuses it.                                                *)

\* AccountsAreFound: store the address as it was typed.
StoredAsTyped(r) == email[r]

\* OrganizationsHaveAdmin: commit the organization before its user.
FlushOrganizationCommitted(r) ==
  /\ reg[r] = "open" /\ reg' = [reg EXCEPT ![r] = "flushed"]
  /\ orgs' = orgs \cup {r}
  /\ UNCHANGED <<verified, users, workspaces, members, settings, email, cre, creator, inv, offer, upd, change,
                 demoted, serial, raced>>

\* MembersShareOrganization: a table without its unique pair, and a second insert.
CommitMemberAgain(i) ==
  LET o == offer[i]
      row == [ws |-> o.ws, user |-> o.user, rank |-> o.rank] IN
  /\ inv[i] = "open" /\ inv' = [inv EXCEPT ![i] = "done"]
  /\ \/ o.had = None /\ members' = members \cup {row}
     \/ o.had = o.rank /\ UNCHANGED members
  /\ UNCHANGED <<orgs, verified, users, workspaces, settings, reg, email, cre, creator, offer, upd, change,
                 demoted, serial, raced>>

\* OwnedUnlessDemoted: commit the workspace before its membership.
FlushWorkspaceCommitted(c) ==
  \E u \in users :
    /\ cre[c] = "idle" /\ Sent < MaxRequests /\ Allowed(u, {"admin", "manager"})
    /\ cre' = [cre EXCEPT ![c] = "flushed"] /\ creator' = [creator EXCEPT ![c] = u.id]
    /\ workspaces' = workspaces \cup {[id |-> c, org |-> u.org]}
    /\ UNCHANGED <<orgs, verified, users, members, settings, reg, email, inv, offer, upd, change,
                   demoted, serial, raced>>

\* SettingsMergeUnlessOverlapping: the request replaces the settings.
MergeReplacing(read, set) == [k \in Keys |-> IF k \in DOMAIN set THEN set[k] ELSE Default]

-----------------------------------------------------------------------------
(* POST /auth/register *)

\* The refusal of an address that is taken, else the registration goes on.
CheckEmail(r) ==
  \E e \in Emails :
    /\ reg[r] = "idle" /\ Sent < MaxRequests
    /\ email' = [email EXCEPT ![r] = e]
    /\ reg' = [reg EXCEPT ![r] = IF Found(e) = {} THEN "open" ELSE "refused"]
    /\ UNCHANGED <<orgs, verified, users, workspaces, members, settings, cre, creator, inv, offer, upd, change,
                   demoted, serial, raced>>

\* db.add(org); await db.flush(): inserted in the request's own transaction.
FlushOrganization(r) ==
  /\ reg[r] = "open" /\ reg' = [reg EXCEPT ![r] = "flushed"]
  /\ UNCHANGED <<orgs, verified, users, workspaces, members, settings, email, cre, creator, inv, offer, upd, change,
                 demoted, serial, raced>>

Stored(r) == Lower[email[r]]

\* await db.commit(): both rows, unless another registration took the address.  The
\* refresh after it may fail the request; the rows stay.
CommitAdmin(r) ==
  /\ reg[r] = "flushed" /\ ~\E u \in users : u.email = Stored(r)
  /\ \E end \in Answered : reg' = [reg EXCEPT ![r] = end]
  /\ orgs' = orgs \cup {r}
  /\ users' = users \cup {[id |-> r, org |-> r, email |-> Stored(r), role |-> "admin"]}
  /\ UNCHANGED <<verified, workspaces, members, settings, email, cre, creator, inv, offer, upd, change,
                 demoted, serial, raced>>

\* The unique index refuses the later insert, or the database fails: rolled back, 500.
RegistrationFails(r) ==
  /\ reg[r] \in {"open", "flushed"} /\ reg' = [reg EXCEPT ![r] = "failed"]
  /\ UNCHANGED <<orgs, verified, users, workspaces, members, settings, email, cre, creator, inv, offer, upd, change,
                 demoted, serial, raced>>

\* POST /auth/verify, with the token of a registration.  The token is cleared, so
\* another verification finds no row; two at once write the same.
Verify(r) ==
  /\ reg[r] = "done" /\ r \notin verified /\ verified' = verified \cup {r}
  /\ UNCHANGED <<orgs, users, workspaces, members, settings, requests, demoted, serial, raced>>

-----------------------------------------------------------------------------
(* POST /workspaces *)

FlushWorkspace(c) ==
  \E u \in users :
    /\ cre[c] = "idle" /\ Sent < MaxRequests /\ Allowed(u, {"admin", "manager"})
    /\ cre' = [cre EXCEPT ![c] = "flushed"] /\ creator' = [creator EXCEPT ![c] = u.id]
    /\ UNCHANGED <<orgs, verified, users, workspaces, members, settings, reg, email, inv, offer, upd, change,
                   demoted, serial, raced>>

CommitWorkspace(c) ==
  /\ cre[c] = "flushed" /\ \E end \in Answered : cre' = [cre EXCEPT ![c] = end]
  /\ \E u \in users : /\ u.id = creator[c]
                      /\ workspaces' = workspaces \cup {[id |-> c, org |-> u.org]}
  /\ members' = members \cup {[ws |-> c, user |-> creator[c], rank |-> "owner"]}
  /\ UNCHANGED <<orgs, verified, users, settings, reg, email, creator, inv, offer, upd, change,
                 demoted, serial, raced>>

CreationFails(c) ==
  /\ cre[c] = "flushed" /\ cre' = [cre EXCEPT ![c] = "failed"]
  /\ UNCHANGED <<orgs, verified, users, workspaces, members, settings, reg, email, creator, inv, offer, upd, change,
                 demoted, serial, raced>>

-----------------------------------------------------------------------------
(* POST /workspaces/{id}/invite.  The rows of the workspace and of the      *)
(* invitee never change, so they are read together with the membership.     *)

\* "can only invite users already in the same organization"
Invitable(u, e) == {v \in Found(e) : v.org = u.org}

OfferOf(w, v, rank) == [ws |-> w, user |-> v.id, rank |-> rank, had |-> RankOf(w, v.id)]

FindMember(i) ==
  \E u \in users, w \in Desks, e \in Emails, rank \in Ranks :
    /\ inv[i] = "idle" /\ Sent < MaxRequests /\ Allowed(u, {"admin", "manager"})
    /\ \/ /\ ~Visible(u, w) \/ Invitable(u, e) = {}
          /\ inv' = [inv EXCEPT ![i] = "refused"] /\ UNCHANGED offer
       \/ \E v \in Invitable(u, e) :
            /\ Visible(u, w)
            /\ inv' = [inv EXCEPT ![i] = "open"]
            /\ offer' = [offer EXCEPT ![i] = OfferOf(w, v, rank)]
    /\ UNCHANGED <<orgs, verified, users, workspaces, members, settings, reg, email, cre, creator, upd, change,
                   demoted, serial, raced>>

\* A membership that was there when it was read gets the rank, by an UPDATE that is
\* only sent when the rank differs from the one read; else one is inserted.
CommitMember(i) ==
  LET o == offer[i]
      row == [ws |-> o.ws, user |-> o.user, rank |-> o.rank] IN
  /\ inv[i] = "open" /\ \E end \in Answered : inv' = [inv EXCEPT ![i] = end]
  /\ \/ /\ o.had = None /\ RankOf(o.ws, o.user) = None
        /\ members' = members \cup {row} /\ UNCHANGED demoted
     \/ /\ o.had = o.rank /\ UNCHANGED <<members, demoted>>
     \/ /\ o.had \notin {None, o.rank}
        /\ members' = {m \in members : m.ws # o.ws \/ m.user # o.user} \cup {row}
        /\ demoted' = IF o.rank = "member" THEN demoted \cup {o.ws} ELSE demoted
  /\ UNCHANGED <<orgs, verified, users, workspaces, settings, reg, email, cre, creator, offer, upd, change,
                 serial, raced>>

\* The unique pair refuses the later of two inserts, or the database fails.
InvitationFails(i) ==
  /\ inv[i] = "open" /\ inv' = [inv EXCEPT ![i] = "failed"]
  /\ UNCHANGED <<orgs, verified, users, workspaces, members, settings, reg, email, cre, creator, offer, upd, change,
                 demoted, serial, raced>>

-----------------------------------------------------------------------------
(* PATCH /workspaces/{id}/settings *)

\* Updates of the workspace that have read it and not yet written it.
Updating(w) == {p \in Updates : upd[p] = "open" /\ change[p].ws = w}

\* A request sets at least one key here: one that sets none writes nothing.
ReadSettings(p) ==
  \E u \in users, w \in Desks, set \in Asked :
    /\ upd[p] = "idle" /\ Sent < MaxRequests /\ Allowed(u, {"admin"}) /\ DOMAIN set # {}
    /\ \/ /\ ~Visible(u, w)
          /\ upd' = [upd EXCEPT ![p] = "refused"] /\ UNCHANGED <<change, raced>>
       \/ /\ Visible(u, w)
          /\ upd' = [upd EXCEPT ![p] = "open"]
          /\ change' = [change EXCEPT ![p] = [ws |-> w, set |-> set, read |-> settings[w]]]
          /\ raced' = IF Updating(w) = {} THEN raced ELSE raced \cup {w}
    /\ UNCHANGED <<orgs, verified, users, workspaces, members, settings, reg, email, cre, creator, inv, offer,
                   demoted, serial>>

\* merged = dict(read); merged.update(...)
Merged(read, set) == [k \in Keys |-> IF k \in DOMAIN set THEN set[k] ELSE read[k]]

\* The whole column is written, when it differs from what was read.
CommitSettings(p) ==
  LET c == change[p]
      merged == Merged(c.read, c.set) IN
  /\ upd[p] = "open" /\ \E end \in Answered : upd' = [upd EXCEPT ![p] = end]
  /\ settings' = IF merged = c.read THEN settings ELSE [settings EXCEPT ![c.ws] = merged]
  /\ serial' = [serial EXCEPT ![c.ws] = [k \in Keys |-> IF k \in DOMAIN c.set THEN c.set[k] ELSE @[k]]]
  /\ UNCHANGED <<orgs, verified, users, workspaces, members, reg, email, cre, creator, inv, offer, change,
                 demoted, raced>>

UpdateFails(p) ==
  /\ upd[p] = "open" /\ upd' = [upd EXCEPT ![p] = "failed"]
  /\ UNCHANGED <<orgs, verified, users, workspaces, members, settings, reg, email, cre, creator, inv, offer, change,
                 demoted, serial, raced>>

-----------------------------------------------------------------------------
Register(r) == CheckEmail(r) \/ FlushOrganization(r) \/ CommitAdmin(r) \/ RegistrationFails(r) \/ Verify(r)
Create(c)   == FlushWorkspace(c) \/ CommitWorkspace(c) \/ CreationFails(c)
Invite(i)   == FindMember(i) \/ CommitMember(i) \/ InvitationFails(i)
Update(p)   == ReadSettings(p) \/ CommitSettings(p) \/ UpdateFails(p)

\* Every request sent has been answered and nobody sends another.
Quiet == /\ \A r \in Registrations : reg[r] \notin {"open", "flushed"}
         /\ \A c \in Creations : cre[c] # "flushed"
         /\ \A i \in Invitations : inv[i] # "open"
         /\ \A p \in Updates : upd[p] # "open"
         /\ UNCHANGED vars

Next == \/ \E r \in Registrations : Register(r)
        \/ \E c \in Creations : Create(c)
        \/ \E i \in Invitations : Invite(i)
        \/ \E p \in Updates : Update(p)
        \/ Quiet

Spec == Init /\ [][Next]_vars

-----------------------------------------------------------------------------
(* Properties *)

\* Whoever has registered can sign in, with any spelling of the address, and gets that
\* account, also when the answer was an error although the account had been committed:
\* the check before the insert, the lower-casing on both sides and the unique index
\* together, when registrations of one address run at once (auth_service.py).
AccountsAreFound ==
  /\ \A r \in Registrations : reg[r] = "done" \/ (\E u \in users : u.id = r) =>
       \A e \in Emails : Lower[e] = Lower[email[r]] => {u.id : u \in Found(e)} = {r}
  /\ \A s \in Staff : {u.id : u \in Found(StaffEmail[s])} = {s}

\* No organization is left without an administrator, though its row is inserted first
\* and the user's insert may fail (auth_service.register_organization_admin).
OrganizationsHaveAdmin == \A o \in orgs : \E u \in users : u.org = o /\ u.role = "admin"

\* A member of a workspace is a user of its organization (workspaces.py, invite_user) and
\* has one rank in it, although two invitations may both find none and insert one
\* (workspace_service.add_member).
MembersShareOrganization ==
  /\ \A m \in members : \E k \in workspaces, u \in users :
        k.id = m.ws /\ u.id = m.user /\ k.org = u.org
  /\ \A m, n \in members : m.ws = n.ws /\ m.user = n.user => m = n

\* A workspace has an owner from its first commit on, until an invitation of its owner
\* as a member takes the rank away: add_member overwrites whatever role it finds.
OwnedUnlessDemoted ==
  \A k \in workspaces : k.id \in demoted \/ \E m \in members : m.ws = k.id /\ m.rank = "owner"

\* Updates of the settings add up as if made one after the other, as long as no two of
\* one workspace overlap: each writes the whole column from the row it read at its start
\* (workspace_service.update_settings), so of two that overlap one may be lost.
SettingsMergeUnlessOverlapping == \A w \in Desks \ raced : settings[w] = serial[w]

=============================================================================
