SPECIFICATION ShotsSpec
CONSTANTS
    PHYLIB_BALL_RADIUS = 280
    PHYLIB_HOLE_RADIUS = 700
    PHYLIB_TABLE_LENGTH = 5400
    PHYLIB_TABLE_WIDTH = 2700
    PHYLIB_VEL_EPSILON = 13
    PHYLIB_DRAG = 20
    PHYLIB_MAX_TIME = 10
    PHYLIB_MAX_OBJECTS = 13
    Racks <- TestRacks
    Strokes <- TestStrokes
    MaxShots = 2
    FollowRunaways = FALSE
INVARIANTS
    BallsStayInside
PROPERTIES
    BallsLeaveThroughHoles
    CleanShotEnds
CHECK_DEADLOCK FALSE
