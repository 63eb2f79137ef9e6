SPECIFICATION Spec
CONSTANTS
    s1 = s1  s2 = s2  a1 = a1  a2 = a2  u1 = u1  u2 = u2  t1 = t1
    Services = {s1, s2}
    Agents = {a1, a2}
    Users = {u1, u2}
    Admins = {u2}
    Tasks = {t1}
    Nothing = Nothing
    Deleted = Deleted
    Inputs <- MCInputs
    Owner <- MCOwner
    Stored <- MCStored
    Width = 1
    MaxTargets = 2
    MaxServers = 1
    MaxInterval = 1
    Conditions <- MCConditions
    MaxEvents = 2
    MaxFaults = 1
 
PROPERTIES NoRepeatedTransition ServicesAreFollowed
