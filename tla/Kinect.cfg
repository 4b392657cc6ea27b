SPECIFICATION Spec
CONSTANTS
    detection = detection
    refresh = refresh
    take = take
    Consumer = {detection, refresh, take}
    Source <- MCSource
    MaxImage = 3
INVARIANTS TypeOK StreamsFollowTask NoSleepOverImage
PROPERTY FreshImage
