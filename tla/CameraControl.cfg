\* Three lenses of which one is missing and one cannot zoom; three changes, so
\* that a lens can be taken, lost to a refused one and commanded again; two
\* sessions, and two starts or stops of the camera, of which the first may fail.
SPECIFICATION Spec
CONSTANTS
    Lenses = {"rearWide", "front", "rearTelephoto"}
    Available = {"rearWide", "front"}
    Plain = {"front"}
    MaxZoom = 2
    MaxVersion = 3
    MaxSessions = 2
    MaxJobs = 2
INVARIANTS
    TypeOK
    OneInput
    PanelReachesCamera
    CameraFollowsPanel
CHECK_DEADLOCK FALSE
