SPECIFICATION Spec
CONSTANTS
  Names = {"A", "B"}
  Objects = {1, 2, 3, 4, 5}
  None = None
  Versions = {1, 2, 3}
  Absent = 0
  Users <- MCUsers
  UsersOf <- MCUsersOf
  Proxies = {p1, p2}
  p1 = p1
  p2 = p2
  Admins = {a}
  a = a
  Submitted <- MCSubmitted
  Refused = {3}
  Restarts = 1
SYMMETRY Symmetry
VIEW WithoutObjects
INVARIANT CurrentOpen
INVARIANT SuccessStays
