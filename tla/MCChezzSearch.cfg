SPECIFICATION Spec
CONSTANTS
    R = R  A = A  B = B  C = C  D = D  E = E  F = F  K = K  G = G  H = H  I = I
    s1 = s1  s2 = s2
    None = None
    Positions = {R, A, B, C, D, E, F, K, G, H, I}
    Side <- TreeSide
    Moves <- Tree
    Order <- TreeOrder
    Fallen <- TreeFallen
    Worths <- TreeWorths
    Cluster <- TreeCluster
    CLUSTER_SIZE = 2
    INFINITY = 3
    max_depth = 3
    MaxCpus = 2
    Searches = {s1, s2}
    Root <- TreeRoot
INVARIANTS
    ReturnsABestMove
    EntriesAreTrue
PROPERTIES
    SearchReturns
CHECK_DEADLOCK FALSE
