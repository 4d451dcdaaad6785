CONSTANTS
  u1 = u1
  u2 = u2
  u3 = u3
  Bootstrap = Bootstrap
  Absent = Absent
  None = None
  Procs = {p1, p2}
  Subjects = {u1, u2, u3}
  InitialUsers <- TwoAdmins
  Email <- NoEmails
  MaxRequests = 2
SPECIFICATION Spec
PROPERTIES
  LastAdminKept
CHECK_DEADLOCK FALSE
