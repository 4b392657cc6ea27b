SPECIFICATION Spec
CONSTANTS
    Client = {"main", "watchdog", "events", "detection", "liveview"}
    Observer = {"listener"}
    Message <- MCMessage
    MaxMessage = 2
    NoClient = "nobody"
INVARIANTS TypeOK OwnReply CommandsMeetLiveAlarm
PROPERTY EndsWhenTold
