\* Two commands on one mission.
SPECIFICATION MissionsSpec
CONSTANTS
    MissionId = {1}
    Operator = {c1, c2}
    LastRevision = 1
PROPERTY ArchivedForGood
CHECK_DEADLOCK FALSE
