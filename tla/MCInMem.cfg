SPECIFICATION Spec
CONSTANTS
    ta = ta  tb = tb
    s1 = s1  s2 = s2  s3 = s3
    r1 = r1  r2 = r2  r3 = r3
    Topics = {ta, tb}
    Sends = {s1, s2, s3}
    Recvs = {r1, r2, r3}
    TopicOf <- MCTopicOf
    Free = free
    Counts = {2, 4}
INVARIANTS BusInv StallIsStarvation
PROPERTIES SendsComplete RecvsComplete
CHECK_DEADLOCK FALSE
