SPECIFICATION FairSpec
CONSTANTS
    cam = cam
    robot = robot
    window = window
    day = day
    night = night
    NoConfig = NoConfig
    Names = {cam, robot, window}
    Recipes = {day, night}
    Boot = day
    Members <- MCMembers
    Shielded <- MCShielded
    Graphs <- MCGraphs
    Stubborn = {cam}
    Spare = {robot}
    MaxRounds = 3
INVARIANT TypeOK
INVARIANT EveryLiveReachable
INVARIANT ConfigsMatchRegistry
INVARIANT BornCurrent
INVARIANT PeersKnown
INVARIANT OutlivedAreNamed
INVARIANT BootOrder
PROPERTY ShieldedUntouched
PROPERTY MonitorResumes
PROPERTY AllOrNothing
