---------------------------- MODULE AccountsProofs ----------------------------
(***************************************************************************)
(* Theorems about Accounts for any number of requests, users, workspaces,  *)
(* spellings and settings.                                                 *)
(***************************************************************************)
EXTENDS Accounts, TLAPS

-----------------------------------------------------------------------------
(* The inductive invariant.                                                 *)

\* Whose rows there are: those of registrations that got as far as the commit and
\* of the staff, each with its own address.
UsersInv ==
  /\ \A u \in users :
       \/ /\ u.id \in Registrations /\ reg[u.id] \in Answered /\ u.org = u.id /\ u.role = "admin"
          /\ u.email = Stored(u.id)
       \/ /\ u.id \in Staff /\ u.org = Home /\ u.role = StaffRole[u.id]
          /\ u.email = StaffEmail[u.id]
  /\ \A s \in Staff : \E u \in users : u.id = s
  /\ \A r \in Registrations : reg[r] = "done" => \E u \in users : u.id = r
  /\ \A u, v \in users : u.email = v.email \/ u.id = v.id => u = v

\* An organization is committed with its administrator.
OrgsInv == \A o \in orgs : o = Home \/ \E u \in users : u.id = o

\* A registration that was sent has an address.
EmailInv == \A r \in Registrations : reg[r] # "idle" => email[r] \in Emails

\* A creation that is under way was sent by a user.
CreationInv ==
  /\ \A k \in workspaces : k.id = Desk \/ cre[k.id] \in Answered
  /\ \A c \in Creations : cre[c] = "flushed" => \E u \in users : u.id = creator[c]
  /\ \A k, l \in workspaces : k.id = l.id => k = l

\* An invitation that is under way is of a user to a workspace of its organization.
OfferInv ==
  \A i \in Invitations : inv[i] = "open" =>
    /\ offer[i] \in Offer
    /\ \E k \in workspaces, u \in users :
         k.id = offer[i].ws /\ u.id = offer[i].user /\ k.org = u.org

\* An update that is under way and did not overlap another has read what is there.
UpdateInv ==
  /\ \A p \in Updates : upd[p] = "open" => change[p] \in Change
  /\ \A w \in Desks \ raced : \A p \in Updating(w) :
       /\ change[p].read = settings[w]
       /\ \A q \in Updating(w) : p = q

IInv ==
  /\ TypeOK
  /\ UsersInv /\ OrgsInv /\ EmailInv /\ CreationInv /\ OfferInv /\ UpdateInv
  /\ MembersShareOrganization /\ OwnedUnlessDemoted /\ SettingsMergeUnlessOverlapping

-----------------------------------------------------------------------------
(* Frames.                                                                  *)

\* A step is of one of the four kinds of requests and leaves what the others
\* write alone.
LEMMA StepKinds ==
  ASSUME [Next]_vars
  PROVE  /\ \/ \E r \in Registrations :
                 CheckEmail(r) \/ FlushOrganization(r) \/ CommitAdmin(r) \/ RegistrationFails(r)
            \/ UNCHANGED <<orgs, users, reg, email>>
         /\ (\E c \in Creations : Create(c)) \/ UNCHANGED <<workspaces, cre, creator>>
         /\ (\E i \in Invitations : Invite(i)) \/ UNCHANGED <<inv, offer, demoted>>
         /\ (\E p \in Updates : Update(p)) \/ UNCHANGED <<settings, serial, upd, change, raced>>
         /\ \/ \E c \in Creations : CommitWorkspace(c)
            \/ \E i \in Invitations : CommitMember(i)
            \/ UNCHANGED <<members, demoted>>
<1>1. CASE UNCHANGED vars
  BY <1>1 DEF vars, requests
<1>2. CASE Quiet
  BY <1>2 DEF Quiet, vars, requests
<1>3. ASSUME NEW r \in Registrations, Register(r)
      PROVE  /\ \/ CheckEmail(r) \/ FlushOrganization(r) \/ CommitAdmin(r) \/ RegistrationFails(r)
                \/ UNCHANGED <<orgs, users, reg, email>>
             /\ UNCHANGED <<workspaces, cre, creator, inv, offer, demoted, members, settings, serial,
                            upd, change, raced>>
  BY <1>3 DEF Register, CheckEmail, FlushOrganization, CommitAdmin, RegistrationFails, Verify, requests
<1>4. ASSUME NEW c \in Creations, Create(c)
      PROVE  /\ CommitWorkspace(c) \/ UNCHANGED members
             /\ UNCHANGED <<orgs, users, reg, email, inv, offer, demoted, settings, serial,
                            upd, change, raced>>
  BY <1>4 DEF Create, FlushWorkspace, CommitWorkspace, CreationFails
<1>5. ASSUME NEW i \in Invitations, Invite(i)
      PROVE  /\ CommitMember(i) \/ UNCHANGED <<members, demoted>>
             /\ UNCHANGED <<orgs, users, reg, email, workspaces, cre, creator, settings, serial,
                            upd, change, raced>>
  BY <1>5 DEF Invite, FindMember, CommitMember, InvitationFails
<1>6. ASSUME NEW p \in Updates, Update(p)
      PROVE  UNCHANGED <<orgs, users, reg, email, workspaces, cre, creator, inv, offer, demoted, members>>
  BY <1>6 DEF Update, ReadSettings, CommitSettings, UpdateFails
<1>7. QED
  BY <1>1, <1>2, <1>3, <1>4, <1>5, <1>6 DEF Next

-----------------------------------------------------------------------------
(* Type correctness.                                                        *)

\* The initial state is well typed.
LEMMA InitTypeOK == Init => TypeOK
<1> SUFFICES ASSUME Init PROVE TypeOK
  OBVIOUS
<1> USE DEF Init, Orgs, Desks, UserIds
<1>1. users \subseteq User
  BY StaffAssumption DEF User, Roles
<1>2. members \subseteq Member
  BY DEF Member, Ranks
<1>3. settings \in [Desks -> Settings] /\ serial \in [Desks -> Settings]
  BY SettingsAssumption DEF Settings, Defaults
<1>4. QED
  BY <1>1, <1>2, <1>3 DEF TypeOK, Position, Workspace

\* A registration keeps the types.
LEMMA RegisterTypeOK ==
  ASSUME TypeOK, EmailInv, NEW r \in Registrations, Register(r)
  PROVE  TypeOK'
<1> USE DEF TypeOK, Position, Orgs, UserIds
<1>1. CASE CheckEmail(r)
  BY <1>1 DEF CheckEmail
<1>2. CASE FlushOrganization(r)
  BY <1>2 DEF FlushOrganization
<1>3. CASE CommitAdmin(r)
  <2>1. Stored(r) \in Emails
    BY <1>3, LowerAssumption DEF CommitAdmin, Stored, EmailInv
  <2>2. users' \subseteq User
    BY <1>3, <2>1 DEF CommitAdmin, User, Roles
  <2>3. QED
    BY <1>3, <2>2 DEF CommitAdmin, Answered
<1>4. CASE RegistrationFails(r)
  BY <1>4 DEF RegistrationFails
<1>5. CASE Verify(r)
  BY <1>5 DEF Verify, requests
<1>6. QED
  BY <1>1, <1>2, <1>3, <1>4, <1>5 DEF Register

\* A creation keeps the types.
LEMMA CreateTypeOK ==
  ASSUME TypeOK, CreationInv, NEW c \in Creations, Create(c)
  PROVE  TypeOK'
<1> USE DEF TypeOK, Position
<1>1. CASE FlushWorkspace(c)
  BY <1>1 DEF FlushWorkspace, User
<1>2. CASE CommitWorkspace(c)
  <2>1. creator[c] \in UserIds
    BY <1>2 DEF CommitWorkspace, CreationInv, User
  <2>2. workspaces' \subseteq Workspace
    BY <1>2 DEF CommitWorkspace, Workspace, User, Desks
  <2>3. members' \subseteq Member
    BY <1>2, <2>1 DEF CommitWorkspace, Member, Ranks, Desks
  <2>4. QED
    BY <1>2, <2>2, <2>3 DEF CommitWorkspace, Answered
<1>3. CASE CreationFails(c)
  BY <1>3 DEF CreationFails
<1>4. QED
  BY <1>1, <1>2, <1>3 DEF Create

\* The rank that is found is a rank, or None.
LEMMA RankOfType ==
  ASSUME TypeOK, NEW w, NEW u
  PROVE  RankOf(w, u) \in Ranks \cup {None}
BY DEF TypeOK, RankOf, Member

\* Whoever has no rank in a workspace has no membership of it.
LEMMA UnrankedIsNoMember ==
  ASSUME TypeOK, NEW w, NEW u, RankOf(w, u) = None
  PROVE  \A m \in members : m.ws # w \/ m.user # u
<1> SUFFICES ASSUME \E m \in members : m.ws = w /\ m.user = u
             PROVE  FALSE
  OBVIOUS
<1>1. (CHOOSE m \in members : m.ws = w /\ m.user = u) \in members
  OBVIOUS
<1>2. (CHOOSE m \in members : m.ws = w /\ m.user = u).rank = None
  BY DEF RankOf
<1>3. QED
  BY <1>1, <1>2, NamesAssumption DEF TypeOK, Member

\* An invitation keeps the types.
LEMMA InviteTypeOK ==
  ASSUME TypeOK, OfferInv, NEW i \in Invitations, Invite(i)
  PROVE  TypeOK'
<1> USE DEF TypeOK, Position
<1>1. CASE FindMember(i)
  <2>1. PICK u \in users, w \in Desks, e \in Emails, rank \in Ranks :
          \/ inv' = [inv EXCEPT ![i] = "refused"] /\ UNCHANGED offer
          \/ \E v \in Invitable(u, e) :
               /\ inv' = [inv EXCEPT ![i] = "open"]
               /\ offer' = [offer EXCEPT ![i] = OfferOf(w, v, rank)]
    BY <1>1 DEF FindMember
  <2>2. ASSUME NEW v \in Invitable(u, e) PROVE OfferOf(w, v, rank) \in Offer
    BY RankOfType DEF OfferOf, Offer, Invitable, Found, User
  <2>3. QED
    BY <1>1, <2>1, <2>2 DEF FindMember
<1>2. CASE CommitMember(i)
  <2>1. offer[i] \in Offer
    BY <1>2 DEF CommitMember, OfferInv
  <2>2. [ws |-> offer[i].ws, user |-> offer[i].user, rank |-> offer[i].rank] \in Member
    BY <2>1 DEF Offer, Member
  <2>3. members' \subseteq Member /\ demoted' \subseteq Desks
    BY <1>2, <2>1, <2>2 DEF CommitMember, Offer
  <2>4. QED
    BY <1>2, <2>3 DEF CommitMember, Answered
<1>3. CASE InvitationFails(i)
  BY <1>3 DEF InvitationFails
<1>4. QED
  BY <1>1, <1>2, <1>3 DEF Invite

\* An update keeps the types.
LEMMA UpdateTypeOK ==
  ASSUME TypeOK, UpdateInv, NEW p \in Updates, Update(p)
  PROVE  TypeOK'
<1> USE DEF TypeOK, Position
<1>1. CASE ReadSettings(p)
  <2>1. PICK u \in users, w \in Desks, set \in Asked :
          \/ /\ upd' = [upd EXCEPT ![p] = "refused"] /\ UNCHANGED <<change, raced>>
          \/ /\ upd' = [upd EXCEPT ![p] = "open"]
             /\ change' = [change EXCEPT ![p] = [ws |-> w, set |-> set, read |-> settings[w]]]
             /\ raced' = IF Updating(w) = {} THEN raced ELSE raced \cup {w}
    BY <1>1 DEF ReadSettings
  <2>2. [ws |-> w, set |-> set, read |-> settings[w]] \in Change
    BY DEF Change
  <2>3. QED
    BY <1>1, <2>1, <2>2 DEF ReadSettings
<1>2. CASE CommitSettings(p)
  <2>1. change[p] \in Change
    BY <1>2 DEF CommitSettings, UpdateInv
  <2>2. \A k \in DOMAIN change[p].set : k \in Keys => change[p].set[k] \in Values
    BY <2>1 DEF Change, Asked
  <2>3. Merged(change[p].read, change[p].set) \in Settings
    BY <2>1, <2>2 DEF Merged, Change, Settings
  <2>4. [k \in Keys |-> IF k \in DOMAIN change[p].set THEN change[p].set[k]
                        ELSE serial[change[p].ws][k]] \in Settings
    BY <2>1, <2>2 DEF Change, Settings
  <2>5. settings' \in [Desks -> Settings] /\ serial' \in [Desks -> Settings]
    BY <1>2, <2>3, <2>4 DEF CommitSettings
  <2>6. QED
    BY <1>2, <2>5 DEF CommitSettings, Answered
<1>3. CASE UpdateFails(p)
  BY <1>3 DEF UpdateFails
<1>4. QED
  BY <1>1, <1>2, <1>3 DEF Update

\* Every step keeps the types.
LEMMA NextTypeOK ==
  ASSUME TypeOK, EmailInv, CreationInv, OfferInv, UpdateInv, [Next]_vars
  PROVE  TypeOK'
<1>1. CASE UNCHANGED vars
  BY <1>1 DEF TypeOK, vars, requests
<1>2. CASE Quiet
  BY <1>2 DEF TypeOK, Quiet, vars, requests
<1>3. QED
  BY <1>1, <1>2, RegisterTypeOK, CreateTypeOK, InviteTypeOK, UpdateTypeOK DEF Next

-----------------------------------------------------------------------------
(* The parts of the invariant, step by step.                                *)

\* The invariant holds at the start.
LEMMA InitIInv == Init => IInv
<1> SUFFICES ASSUME Init PROVE IInv
  OBVIOUS
<1>1. TypeOK
  BY InitTypeOK
<1>2. UsersInv
  <2> DEFINE row(s) == [id |-> s, org |-> Home, email |-> StaffEmail[s], role |-> StaffRole[s]]
  <2>1. users = {row(s) : s \in Staff} /\ \A r \in Registrations : reg[r] = "idle"
    BY DEF Init
  <2>2. \A s \in Staff : row(s) \in users /\ row(s).id = s
    BY <2>1
  <2>3. \A u \in users : /\ u.id \in Staff /\ u.org = Home
                          /\ u.role = StaffRole[u.id] /\ u.email = StaffEmail[u.id]
    BY <2>1
  <2>4. \A u, v \in users : u.email = v.email \/ u.id = v.id => u = v
    BY <2>1, StaffAssumption
  <2>5. QED
    BY <2>1, <2>2, <2>3, <2>4 DEF UsersInv
<1>3. OrgsInv /\ EmailInv /\ OfferInv
  BY DEF Init, OrgsInv, EmailInv, OfferInv
<1>4. CreationInv
  BY DEF Init, CreationInv
<1>5. UpdateInv
  BY DEF Init, UpdateInv, Updating
<1>6. MembersShareOrganization /\ OwnedUnlessDemoted
  <2>1. PICK s \in Staff : members = {[ws |-> Desk, user |-> s, rank |-> "owner"]}
    BY DEF Init
  <2>2. PICK u \in users : u.id = s /\ u.org = Home
    BY NamesAssumption, <1>2 DEF UsersInv
  <2>3. workspaces = {[id |-> Desk, org |-> Home]}
    BY DEF Init
  <2>4. \A m \in members : m.ws = Desk /\ m.user = s /\ m.rank = "owner"
    BY <2>1
  <2>5. members # {} /\ \A m, n \in members : m = n
    BY <2>1
  <2>6. \A k \in workspaces : k.id = Desk /\ k.org = Home
    BY <2>3
  <2>7. workspaces # {}
    BY <2>3
  <2>8. QED
    BY <2>2, <2>4, <2>5, <2>6, <2>7 DEF MembersShareOrganization, OwnedUnlessDemoted
<1>7. SettingsMergeUnlessOverlapping
  BY DEF Init, SettingsMergeUnlessOverlapping
<1>8. QED
  BY <1>1, <1>2, <1>3, <1>4, <1>5, <1>6, <1>7 DEF IInv

\* Users and organizations are written together, and a taken address is not
\* written again.
LEMMA NextUsers ==
  ASSUME IInv, [Next]_vars
  PROVE  UsersInv' /\ OrgsInv' /\ EmailInv'
<1> USE DEF IInv
<1>1. CASE UNCHANGED <<orgs, users, reg, email>>
  BY <1>1 DEF UsersInv, OrgsInv, EmailInv, Stored
<1>2. ASSUME NEW r \in Registrations, CheckEmail(r)
      PROVE  UsersInv' /\ OrgsInv' /\ EmailInv'
  BY <1>2, NamesAssumption DEF Answered, CheckEmail, UsersInv, OrgsInv, EmailInv, Stored, TypeOK, Orgs
<1>3. ASSUME NEW r \in Registrations, FlushOrganization(r) \/ RegistrationFails(r)
      PROVE  UsersInv' /\ OrgsInv' /\ EmailInv'
  BY <1>3, NamesAssumption
     DEF Answered, FlushOrganization, RegistrationFails, UsersInv, OrgsInv, EmailInv, Stored, TypeOK, Orgs
<1>4. ASSUME NEW r \in Registrations, CommitAdmin(r)
      PROVE  UsersInv' /\ OrgsInv' /\ EmailInv'
  <2> DEFINE new == [id |-> r, org |-> r, email |-> Stored(r), role |-> "admin"]
  <2>1. /\ reg[r] = "flushed" /\ \E end \in Answered : reg' = [reg EXCEPT ![r] = end]
        /\ ~\E u \in users : u.email = Stored(r)
        /\ orgs' = orgs \cup {r} /\ users' = users \cup {new} /\ email' = email
    BY <1>4 DEF CommitAdmin
  <2>2. \A u \in users : u.id # r
    BY <2>1, NamesAssumption DEF UsersInv
  <2>3. \A u, v \in users' : u.email = v.email \/ u.id = v.id => u = v
    BY <2>1, <2>2 DEF UsersInv
  <2>4. \A u \in users' :
          \/ /\ u.id \in Registrations /\ reg'[u.id] \in Answered /\ u.org = u.id /\ u.role = "admin"
             /\ u.email = Stored(u.id)'
          \/ /\ u.id \in Staff /\ u.org = Home /\ u.role = StaffRole[u.id]
             /\ u.email = StaffEmail[u.id]
    BY <2>1 DEF UsersInv, Stored, TypeOK
  <2>5. \A s \in Staff : \E u \in users' : u.id = s
    BY <2>1 DEF UsersInv
  <2>6. \A q \in Registrations : reg'[q] = "done" => \E u \in users' : u.id = q
    <3>1. new \in users' /\ new.id = r
      BY <2>1
    <3>2. \A q \in Registrations \ {r} : reg'[q] = reg[q]
      BY <2>1
    <3>3. users \subseteq users'
      BY <2>1
    <3>4. QED
      BY <3>1, <3>2, <3>3 DEF UsersInv
  <2>7. UsersInv'
    BY <2>3, <2>4, <2>5, <2>6 DEF UsersInv
  <2>8. OrgsInv' /\ EmailInv'
    <3>1. new \in users' /\ new.id = r /\ users \subseteq users' /\ orgs' = orgs \cup {r}
      BY <2>1
    <3>2. OrgsInv'
      BY <3>1 DEF OrgsInv
    <3>3. EmailInv'
      BY <2>1 DEF EmailInv, TypeOK
    <3>4. QED
      BY <3>2, <3>3
  <2>9. QED
    BY <2>7, <2>8
<1>5. QED
  BY <1>1, <1>2, <1>3, <1>4, StepKinds

\* Users and workspaces are never removed or changed.
LEMMA RowsStay ==
  ASSUME IInv, [Next]_vars
  PROVE  users \subseteq users' /\ workspaces \subseteq workspaces'
<1>1. users \subseteq users'
  BY StepKinds DEF CheckEmail, FlushOrganization, CommitAdmin, RegistrationFails
<1>2. workspaces \subseteq workspaces'
  BY StepKinds DEF Create, FlushWorkspace, CommitWorkspace, CreationFails
<1>3. QED
  BY <1>1, <1>2

\* A workspace is written once, for the user who asked for it.
LEMMA NextCreation ==
  ASSUME IInv, [Next]_vars
  PROVE  CreationInv'
<1> USE DEF IInv
<1>1. CASE UNCHANGED <<workspaces, cre, creator>>
  BY <1>1, RowsStay DEF CreationInv
<1>2. ASSUME NEW c \in Creations, FlushWorkspace(c)
      PROVE  CreationInv'
  BY <1>2, NamesAssumption DEF Answered, FlushWorkspace, CreationInv, TypeOK, Workspace, Desks
<1>3. ASSUME NEW c \in Creations, CommitWorkspace(c)
      PROVE  CreationInv'
  BY <1>3, NamesAssumption DEF Answered, CommitWorkspace, CreationInv, TypeOK, Workspace, Desks
<1>4. ASSUME NEW c \in Creations, CreationFails(c)
      PROVE  CreationInv'
  BY <1>4, NamesAssumption DEF Answered, CreationFails, CreationInv, TypeOK, Workspace, Desks
<1>5. QED
  BY <1>1, <1>2, <1>3, <1>4, StepKinds DEF Create

\* An invitation offers a rank to a user of the workspace's organization.
LEMMA NextOffer ==
  ASSUME IInv, [Next]_vars
  PROVE  OfferInv'
<1> USE DEF IInv
<1>1. CASE UNCHANGED <<inv, offer>>
  BY <1>1, RowsStay DEF OfferInv
<1>2. ASSUME NEW i \in Invitations, FindMember(i)
      PROVE  OfferInv'
  <2>1. users' = users /\ workspaces' = workspaces
    BY <1>2 DEF FindMember
  <2>2. PICK u \in users, w \in Desks, e \in Emails, rank \in Ranks :
          \/ inv' = [inv EXCEPT ![i] = "refused"] /\ UNCHANGED offer
          \/ \E v \in Invitable(u, e) :
               /\ Visible(u, w)
               /\ inv' = [inv EXCEPT ![i] = "open"]
               /\ offer' = [offer EXCEPT ![i] = OfferOf(w, v, rank)]
    BY <1>2 DEF FindMember
  <2>3. CASE inv' = [inv EXCEPT ![i] = "refused"] /\ UNCHANGED offer
    BY <2>1, <2>3 DEF OfferInv, TypeOK
  <2>4. ASSUME NEW v \in Invitable(u, e), Visible(u, w),
               inv' = [inv EXCEPT ![i] = "open"],
               offer' = [offer EXCEPT ![i] = OfferOf(w, v, rank)]
        PROVE  OfferInv'
    <3>1. v \in users /\ v.org = u.org
      BY DEF Invitable, Found
    <3>2. OfferOf(w, v, rank) \in Offer
      BY <3>1, RankOfType DEF OfferOf, Offer, TypeOK, User
    <3>3. OfferOf(w, v, rank).ws = w /\ OfferOf(w, v, rank).user = v.id
      BY DEF OfferOf
    <3>4. PICK k \in workspaces : k.id = w /\ k.org = u.org
      BY <2>4 DEF Visible
    <3>5. QED
      BY <2>1, <2>4, <3>1, <3>2, <3>3, <3>4 DEF OfferInv, TypeOK
  <2>5. QED
    BY <2>2, <2>3, <2>4
<1>3. ASSUME NEW i \in Invitations, CommitMember(i) \/ InvitationFails(i)
      PROVE  OfferInv'
  <2>1. /\ inv' \in {[inv EXCEPT ![i] = "done"], [inv EXCEPT ![i] = "failed"]}
        /\ users' = users /\ workspaces' = workspaces /\ offer' = offer
    BY <1>3 DEF Answered, CommitMember, InvitationFails
  <2>2. QED
    BY <2>1 DEF OfferInv, TypeOK
<1>4. QED
  BY <1>1, <1>2, <1>3, StepKinds DEF Invite

\* Only CommitWorkspace and CommitMember write memberships.
LEMMA NextMembers ==
  ASSUME IInv, [Next]_vars
  PROVE  MembersShareOrganization'
<1> USE DEF IInv
<1>1. CASE UNCHANGED members
  BY <1>1, RowsStay DEF MembersShareOrganization
<1>2. ASSUME NEW c \in Creations, CommitWorkspace(c)
      PROVE  MembersShareOrganization'
  <2>1. PICK u \in users : /\ u.id = creator[c]
                           /\ workspaces' = workspaces \cup {[id |-> c, org |-> u.org]}
    BY <1>2 DEF CommitWorkspace
  <2> DEFINE new == [id |-> c, org |-> u.org]
             row == [ws |-> c, user |-> creator[c], rank |-> "owner"]
  <2>0. \A m \in members : m.ws # c
    BY <1>2, NamesAssumption
       DEF CommitWorkspace, MembersShareOrganization, CreationInv, Answered
  <2>2. new \in workspaces' /\ new.id = c /\ new.org = u.org
    BY <2>1
  <2>3. members' = members \cup {row} /\ row.ws = c /\ row.user = creator[c]
    BY <1>2 DEF CommitWorkspace
  <2>4. \A m \in members : \E k \in workspaces', v \in users' :
                              k.id = m.ws /\ v.id = m.user /\ k.org = v.org
    BY RowsStay DEF MembersShareOrganization
  <2>5. u \in users'
    BY RowsStay
  <2> HIDE DEF new, row
  <2>6. \A m, n \in members' : m.ws = n.ws /\ m.user = n.user => m = n
    BY <2>0, <2>3 DEF MembersShareOrganization
  <2>7. QED
    BY <2>1, <2>2, <2>3, <2>4, <2>5, <2>6 DEF MembersShareOrganization
<1>3. ASSUME NEW i \in Invitations, CommitMember(i)
      PROVE  MembersShareOrganization'
  <2> DEFINE row == [ws |-> offer[i].ws, user |-> offer[i].user, rank |-> offer[i].rank]
  <2>1. /\ inv[i] = "open" /\ members' \subseteq members \cup {row}
        /\ users' = users /\ workspaces' = workspaces
    BY <1>3 DEF CommitMember
  <2>2. \E k \in workspaces, u \in users : k.id = row.ws /\ u.id = row.user /\ k.org = u.org
    BY <2>1 DEF OfferInv
  <2>3. \/ members' = members
        \/ /\ members' = members \cup {row}
           /\ \A m \in members : m.ws # row.ws \/ m.user # row.user
        \/ members' = {m \in members : m.ws # row.ws \/ m.user # row.user} \cup {row}
    <3>1. \/ RankOf(row.ws, row.user) = None /\ members' = members \cup {row}
          \/ members' = members
          \/ members' = {m \in members : m.ws # row.ws \/ m.user # row.user} \cup {row}
      BY <1>3 DEF CommitMember
    <3>2. RankOf(row.ws, row.user) = None =>
            \A m \in members : m.ws # row.ws \/ m.user # row.user
      BY UnrankedIsNoMember
    <3>3. QED
      BY <3>1, <3>2
  <2>4. \A m, n \in members' : m.ws = n.ws /\ m.user = n.user => m = n
    BY <2>3 DEF MembersShareOrganization
  <2>5. QED
    BY <2>1, <2>2, <2>4 DEF MembersShareOrganization
<1>4. QED
  BY <1>1, <1>2, <1>3, StepKinds

\* An owner's rank is taken away only by an invitation that is remembered.
LEMMA NextOwned ==
  ASSUME IInv, [Next]_vars
  PROVE  OwnedUnlessDemoted'
<1> USE DEF IInv
<1>1. ASSUME NEW c \in Creations, CommitWorkspace(c)
      PROVE  OwnedUnlessDemoted'
  <2>1. /\ members' = members \cup {[ws |-> c, user |-> creator[c], rank |-> "owner"]}
        /\ demoted' = demoted
        /\ \A k \in workspaces' : k \in workspaces \/ k.id = c
    BY <1>1 DEF CommitWorkspace
  <2>2. \E m \in members' : m.ws = c /\ m.rank = "owner"
    <3> DEFINE row == [ws |-> c, user |-> creator[c], rank |-> "owner"]
    <3>1. row \in members' /\ row.ws = c /\ row.rank = "owner"
      BY <2>1
    <3>2. QED
      BY <3>1
  <2>3. members \subseteq members'
    BY <2>1
  <2>4. QED
    BY <2>1, <2>2, <2>3 DEF OwnedUnlessDemoted
<1>2. ASSUME NEW i \in Invitations, CommitMember(i)
      PROVE  OwnedUnlessDemoted'
  <2> DEFINE o == offer[i]
             row == [ws |-> o.ws, user |-> o.user, rank |-> o.rank]
  <2>1. workspaces' = workspaces /\ o \in Offer
    BY <1>2 DEF CommitMember, OfferInv
  <2>2. \/ members' = members \cup {row} /\ demoted' = demoted
        \/ members' = members /\ demoted' = demoted
        \/ /\ members' = {m \in members : m.ws # o.ws \/ m.user # o.user} \cup {row}
           /\ demoted' = IF o.rank = "member" THEN demoted \cup {o.ws} ELSE demoted
    BY <1>2 DEF CommitMember
  <2>3. CASE members \subseteq members' /\ demoted' = demoted
    BY <2>1, <2>3 DEF OwnedUnlessDemoted
  <2>4. CASE /\ members' = {m \in members : m.ws # o.ws \/ m.user # o.user} \cup {row}
             /\ demoted' = IF o.rank = "member" THEN demoted \cup {o.ws} ELSE demoted
    <3> SUFFICES ASSUME NEW k \in workspaces, k.id \notin demoted'
                 PROVE  \E m \in members' : m.ws = k.id /\ m.rank = "owner"
      BY <2>1 DEF OwnedUnlessDemoted
    <3>1. PICK m \in members : m.ws = k.id /\ m.rank = "owner"
      BY <2>4 DEF OwnedUnlessDemoted
    <3>2. CASE k.id = o.ws
      <4>1. o.rank = "owner"
        BY <2>1, <2>4, <3>2 DEF Offer, Ranks
      <4>2. row \in members' /\ row.ws = k.id /\ row.rank = "owner"
        BY <2>4, <3>2, <4>1
      <4>3. QED
        BY <4>2
    <3>3. CASE k.id # o.ws
      BY <2>4, <3>1, <3>3
    <3>4. QED
      BY <3>2, <3>3
  <2>5. QED
    BY <2>2, <2>3, <2>4
<1>3. CASE UNCHANGED <<members, demoted>>
  <2>1. \A k \in workspaces' : k \in workspaces \/ \E c \in Creations : CommitWorkspace(c)
    BY StepKinds DEF Create, FlushWorkspace, CreationFails
  <2>2. QED
    BY <1>1, <1>3, <2>1 DEF OwnedUnlessDemoted
<1>4. QED
  BY <1>1, <1>2, <1>3, StepKinds

\* As long as updates of a workspace do not overlap, the only open one has read
\* the settings that are there, and adds its keys to them.
LEMMA NextUpdates ==
  ASSUME IInv, [Next]_vars
  PROVE  UpdateInv' /\ SettingsMergeUnlessOverlapping'
<1> USE DEF IInv
<1>1. CASE UNCHANGED <<settings, serial, upd, change, raced>>
  BY <1>1 DEF UpdateInv, Updating, SettingsMergeUnlessOverlapping
<1>2. ASSUME NEW p \in Updates, ReadSettings(p)
      PROVE  UpdateInv' /\ SettingsMergeUnlessOverlapping'
  <2>1. /\ upd[p] = "idle" /\ settings' = settings /\ serial' = serial
        /\ raced \subseteq raced'
    BY <1>2 DEF ReadSettings
  <2>2. SettingsMergeUnlessOverlapping'
    BY <2>1 DEF SettingsMergeUnlessOverlapping
  <2>3. PICK u \in users, w \in Desks, set \in Asked :
          \/ /\ upd' = [upd EXCEPT ![p] = "refused"] /\ UNCHANGED <<change, raced>>
          \/ /\ upd' = [upd EXCEPT ![p] = "open"]
             /\ change' = [change EXCEPT ![p] = [ws |-> w, set |-> set, read |-> settings[w]]]
             /\ raced' = IF Updating(w) = {} THEN raced ELSE raced \cup {w}
    BY <1>2 DEF ReadSettings
  <2>4. CASE upd' = [upd EXCEPT ![p] = "refused"] /\ UNCHANGED <<change, raced>>
    BY <2>1, <2>2, <2>4 DEF UpdateInv, Updating, TypeOK
  <2>5. CASE /\ upd' = [upd EXCEPT ![p] = "open"]
             /\ change' = [change EXCEPT ![p] = [ws |-> w, set |-> set, read |-> settings[w]]]
             /\ raced' = IF Updating(w) = {} THEN raced ELSE raced \cup {w}
    <3> DEFINE new == [ws |-> w, set |-> set, read |-> settings[w]]
    <3>1. new \in Change /\ new.ws = w /\ new.read = settings[w]
      BY DEF Change, TypeOK
    <3>2. change'[p] = new /\ upd'[p] = "open"
      BY <2>5 DEF TypeOK
    <3>3. \A q \in Updates \ {p} : change'[q] = change[q] /\ upd'[q] = upd[q]
      BY <2>5 DEF TypeOK
    <3> HIDE DEF new
    <3>4. \A q \in Updates : upd'[q] = "open" => change'[q] \in Change
      BY <3>1, <3>2, <3>3 DEF UpdateInv
    <3>5. \A v \in Desks : Updating(v)' = IF v = w THEN Updating(v) \cup {p} ELSE Updating(v)
      BY <2>1, <3>1, <3>2, <3>3 DEF Updating
    <3>6. \A v \in Desks \ raced' : v \notin raced /\ (v = w => Updating(v) = {})
      BY <2>5
    <3>7. ASSUME NEW v \in Desks \ raced', NEW q \in Updating(v)'
          PROVE  /\ change'[q].read = settings'[v]
                 /\ \A t \in Updating(v)' : q = t
      <4>1. CASE v = w
        BY <2>1, <3>1, <3>2, <3>5, <3>6, <4>1
      <4>2. CASE v # w
        <5>1. q # p /\ q \in Updates
          BY <2>1, <3>5, <4>2 DEF Updating
        <5>2. QED
          BY <2>1, <3>3, <3>5, <3>6, <4>2, <5>1 DEF UpdateInv
      <4>3. QED
        BY <4>1, <4>2
    <3>8. QED
      BY <2>2, <3>4, <3>7 DEF UpdateInv
  <2>6. QED
    BY <2>3, <2>4, <2>5
<1>3. ASSUME NEW p \in Updates, CommitSettings(p)
      PROVE  UpdateInv' /\ SettingsMergeUnlessOverlapping'
  <2> DEFINE c == change[p]
             merged == Merged(c.read, c.set)
  <2>1. /\ upd[p] = "open" /\ \E end \in Answered : upd' = [upd EXCEPT ![p] = end]
        /\ settings' = IF merged = c.read THEN settings ELSE [settings EXCEPT ![c.ws] = merged]
        /\ serial' = [serial EXCEPT ![c.ws] =
                        [k \in Keys |-> IF k \in DOMAIN c.set THEN c.set[k] ELSE @[k]]]
        /\ change' = change /\ raced' = raced
    BY <1>3 DEF CommitSettings
  <2>2. c \in Change /\ c.ws \in Desks
    BY <2>1 DEF UpdateInv, Change
  <2>3. p \in Updating(c.ws)
    BY <2>1 DEF Updating
  <2>4. \A v \in Desks \ {c.ws} : settings'[v] = settings[v] /\ serial'[v] = serial[v]
    BY <2>1, <2>2 DEF TypeOK
  <2>5. \A v \in Desks : Updating(v)' = Updating(v) \ {p}
    <3>1. upd'[p] # "open" /\ \A q \in Updates \ {p} : upd'[q] = upd[q]
      BY <2>1 DEF Answered, TypeOK
    <3>2. QED
      BY <2>1, <3>1 DEF Updating
  <2>6. \A v \in Desks \ raced : v = c.ws => Updating(v)' = {}
    BY <2>2, <2>3, <2>5 DEF UpdateInv
  <2>7. ASSUME c.ws \notin raced PROVE settings'[c.ws] = serial'[c.ws]
    <3>1. c.read = settings[c.ws] /\ settings[c.ws] = serial[c.ws]
      BY <2>2, <2>3, <2>7 DEF UpdateInv, SettingsMergeUnlessOverlapping
    <3>2. settings'[c.ws] = merged
      BY <2>1, <2>2, <3>1 DEF TypeOK
    <3>3. serial'[c.ws] = [k \in Keys |-> IF k \in DOMAIN c.set THEN c.set[k] ELSE serial[c.ws][k]]
      BY <2>1, <2>2 DEF TypeOK
    <3>4. QED
      BY <3>1, <3>2, <3>3 DEF Merged
  <2>8. SettingsMergeUnlessOverlapping'
    BY <2>1, <2>4, <2>7 DEF SettingsMergeUnlessOverlapping
  <2> HIDE DEF c, merged
  <2>9. \A v \in Desks \ raced' : \A q \in Updating(v)' :
          change'[q].read = settings'[v] /\ \A t \in Updating(v)' : q = t
    <3> SUFFICES ASSUME NEW v \in Desks \ raced', NEW q \in Updating(v)'
                 PROVE  change'[q].read = settings'[v] /\ \A t \in Updating(v)' : q = t
      OBVIOUS
    <3>1. v \notin raced /\ v # c.ws
      BY <2>1, <2>6
    <3>2. Updating(v)' \subseteq Updating(v) /\ settings'[v] = settings[v]
      BY <2>4, <2>5, <3>1
    <3>3. change[q].read = settings[v] /\ \A t \in Updating(v) : q = t
      BY <3>1, <3>2 DEF UpdateInv
    <3>4. QED
      BY <2>1, <3>2, <3>3
  <2>10. \A q \in Updates : upd'[q] = "open" => change'[q] \in Change
    BY <2>1 DEF UpdateInv, TypeOK
  <2>11. QED
    BY <2>8, <2>9, <2>10 DEF UpdateInv
<1>4. ASSUME NEW p \in Updates, UpdateFails(p)
      PROVE  UpdateInv' /\ SettingsMergeUnlessOverlapping'
  <2>1. /\ upd' = [upd EXCEPT ![p] = "failed"]
        /\ settings' = settings /\ serial' = serial /\ change' = change /\ raced' = raced
    BY <1>4 DEF UpdateFails
  <2>2. \A v \in Desks : Updating(v)' \subseteq Updating(v)
    BY <2>1 DEF Updating, TypeOK
  <2>3. QED
    BY <2>1, <2>2 DEF UpdateInv, SettingsMergeUnlessOverlapping, TypeOK
<1>5. QED
  BY <1>1, <1>2, <1>3, <1>4, StepKinds DEF Update

\* The invariant is inductive.
LEMMA NextIInv == IInv /\ [Next]_vars => IInv'
BY NextTypeOK, NextUsers, NextCreation, NextOffer, NextMembers, NextOwned, NextUpdates DEF IInv

\* The invariant holds.
THEOREM Inductive == Spec => []IInv
<1>1. Init => IInv
  BY InitIInv
<1>2. IInv /\ [Next]_vars => IInv'
  BY NextIInv
<1>3. QED
  BY <1>1, <1>2, PTL DEF Spec

-----------------------------------------------------------------------------
(* The theorems.                                                            *)

\* The variables of Accounts keep their types (all of accounts, auth_service.py and
\* workspace_service.py).
THEOREM TypeCorrect == Spec => []TypeOK
<1>1. IInv => TypeOK
  BY DEF IInv
<1>2. QED
  BY <1>1, Inductive, PTL

\* Whoever registered can sign in with any spelling of the address, whatever
\* registrations ran beside it (auth_service.py).
THEOREM EveryAccountIsFound == Spec => []AccountsAreFound
<1>1. IInv => AccountsAreFound
  <2> SUFFICES ASSUME IInv PROVE AccountsAreFound
    OBVIOUS
  <2>1. UsersInv
    BY DEF IInv
  <2>2. ASSUME NEW r \in Registrations, reg[r] = "done" \/ \E u \in users : u.id = r, NEW e \in Emails, Lower[e] = Lower[email[r]]
        PROVE  {u.id : u \in Found(e)} = {r}
    <3>1. PICK u \in users : u.id = r
      BY <2>1, <2>2 DEF UsersInv
    <3>2. u.email = Lower[e]
      BY <2>1, <2>2, <3>1, NamesAssumption DEF UsersInv, Stored
    <3>3. Found(e) = {u}
      BY <2>1, <3>2 DEF Found, UsersInv
    <3>4. QED
      BY <3>1, <3>3
  <2>3. ASSUME NEW s \in Staff PROVE {u.id : u \in Found(StaffEmail[s])} = {s}
    <3>1. PICK u \in users : u.id = s
      BY <2>1 DEF UsersInv
    <3>2. u.email = Lower[StaffEmail[s]]
      BY <2>1, <3>1, NamesAssumption, StaffAssumption DEF UsersInv
    <3>3. Found(StaffEmail[s]) = {u}
      BY <2>1, <3>2 DEF Found, UsersInv
    <3>4. QED
      BY <3>1, <3>3
  <2>4. QED
    BY <2>2, <2>3 DEF AccountsAreFound
<1>2. QED
  BY <1>1, Inductive, PTL

\* No organization is without an administrator (auth_service.py).
THEOREM NoOrphanOrganization == Spec => []OrganizationsHaveAdmin
<1>1. IInv => OrganizationsHaveAdmin
  <2> SUFFICES ASSUME IInv, NEW o \in orgs
               PROVE  \E u \in users : u.org = o /\ u.role = "admin"
    BY DEF OrganizationsHaveAdmin
  <2>1. UsersInv /\ OrgsInv /\ TypeOK
    BY DEF IInv
  <2>2. CASE o = Home
    <3>1. PICK s \in Staff : StaffRole[s] = "admin"
      BY StaffAssumption
    <3>2. PICK u \in users : u.id = s
      BY <2>1 DEF UsersInv
    <3>3. QED
      BY <2>1, <2>2, <3>1, <3>2, NamesAssumption DEF UsersInv
  <2>3. CASE o # Home
    <3>1. o \in Registrations
      BY <2>1, <2>3 DEF TypeOK, Orgs
    <3>2. PICK u \in users : u.id = o
      BY <2>1, <2>3 DEF OrgsInv
    <3>3. QED
      BY <2>1, <3>1, <3>2, NamesAssumption DEF UsersInv
  <2>4. QED
    BY <2>2, <2>3
<1>2. QED
  BY <1>1, Inductive, PTL

\* Members of a workspace belong to its organization (workspaces.py).
THEOREM MembersBelong == Spec => []MembersShareOrganization
<1>1. IInv => MembersShareOrganization
  BY DEF IInv
<1>2. QED
  BY <1>1, Inductive, PTL

\* A workspace keeps an owner until an invitation takes the rank away
\* (workspace_service.add_member).
THEOREM WorkspacesAreOwned == Spec => []OwnedUnlessDemoted
<1>1. IInv => OwnedUnlessDemoted
  BY DEF IInv
<1>2. QED
  BY <1>1, Inductive, PTL

\* Updates of settings that do not overlap add up (workspace_service.update_settings).
THEOREM SettingsMerge == Spec => []SettingsMergeUnlessOverlapping
<1>1. IInv => SettingsMergeUnlessOverlapping
  BY DEF IInv
<1>2. QED
  BY <1>1, Inductive, PTL

=============================================================================
