\* A picture of 16 x 10 in a canvas of 12 x 9, with a tie when it is turned by
\* 0, and in a window of 10 x 13, limited by its width or by its height.
SPECIFICATION AppSpec
CONSTANTS
    Backends = {"pygame", "opencv"}
    Rotations = {0, 90}
    Coded <- MCCoded
    Canvas <- MCCanvas
    Screens <- MCScreens
INVARIANTS
    SocketIsOwned
    StatusIsTrue
    OutputsAreOwned
    PicturesFit
PROPERTIES
    Retries
    SameSettings
    WindowFollowsPanel
    PanelShowsError
CHECK_DEADLOCK FALSE
