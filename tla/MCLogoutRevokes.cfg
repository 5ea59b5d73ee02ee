SPECIFICATION Spec
CONSTANTS
  Tabs = {t1, t2}
  Devices = {d1}
  Slots = {s1, s2}
  Flights = {1, 2}
  Passwords = {p1, p2}
  FirstPwd = p1
  NoPwd = NoPwd
  MaxRequests = 2
  MaxEvents = 2
  MaxFaults = 1
INVARIANT LogoutRevokes
CHECK_DEADLOCK FALSE
