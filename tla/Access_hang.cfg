SPECIFICATION Spec
CONSTANTS
  u1 = u1
  u2 = u2
  u3 = u3
  u4 = u4
  k1 = k1
  k2 = k2
  l1 = l1
  l2 = l2
  l3 = l3
  s1 = s1
  s2 = s2
  Subjects = {s1, s2}
  Subject <- MCSubject
  Users = {u1, u2, u3, u4}
  First <- MCFirst
  Keys = {k1, k2}
  Org <- MCOrg
  Email <- MCEmail
  DefaultOrg = "default"
  Minted = {k1}
  Requests = {r1, r2}
  Logins = {l1, l2, l3}
  Nobody = Nobody
  MaxEvents = 3
INVARIANT StampIsBestEffort
CHECK_DEADLOCK FALSE
