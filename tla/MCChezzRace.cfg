SPECIFICATION Spec
CONSTANTS
    R = R  A = A  B = B  C = C  D = D  E = E  F = F  K = K  G = G  H = H  I = I
    s1 = s1  s2 = s2
    None = None
    Positions = {R, A, B, C, D, E, F, K, G, H, I}
    Side <- TreeSide
    Moves <- Pair
    Order <- TreeOrder
    Fallen <- NoneFallen
    Worths <- NoWorths
    Cluster <- OneCluster
    CLUSTER_SIZE = 1
    INFINITY = 3
    max_depth = 2
    MaxCpus = 2
    Searches = {s1, s2}
    Root <- SameRoot
INVARIANTS
    UsedEntriesMatch
CHECK_DEADLOCK FALSE
