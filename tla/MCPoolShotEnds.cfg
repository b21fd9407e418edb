SPECIFICATION ShotsSpec
CONSTANTS
    PHYLIB_BALL_RADIUS = 280
    PHYLIB_HOLE_RADIUS = 700
    PHYLIB_TABLE_LENGTH = 5400
    PHYLIB_TABLE_WIDTH = 2700
    PHYLIB_VEL_EPSILON = 13
    PHYLIB_DRAG = 20
    PHYLIB_MAX_TIME = 10
    PHYLIB_MAX_OBJECTS = 13
    Racks <- StraightRack
    Strokes <- SoftStrokes
    MaxShots = 1
    FollowRunaways = TRUE
PROPERTIES ShotEnds
CHECK_DEADLOCK FALSE
