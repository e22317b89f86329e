\* Three requests of any kinds: two of one address, workspace or member, and a third.
SPECIFICATION Spec
CONSTANTS
  Registrations = {r1, r2}
  Creations = {c1}
  Invitations = {i1, i2}
  Updates = {p1, p2}
  boss = boss
  clerk = clerk
  Staff <- MCStaff
  StaffRole <- MCStaffRole
  StaffEmail <- MCStaffEmail
  Home = Home
  Desk = Desk
  Emails <- MCEmails
  Lower <- MCLower
  Keys = {limit, quota}
  Values = {0, 1}
  Default = 0
  None = None
  MaxRequests = 3
SYMMETRY Symmetry
INVARIANTS
  AccountsAreFound
  OrganizationsHaveAdmin
  MembersShareOrganization
  OwnedUnlessDemoted
  SettingsMergeUnlessOverlapping
