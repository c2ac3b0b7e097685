SPECIFICATION FairSpec
CONSTANT Commands = {"LID_UNTIL_STOP", "stopAll"}
PROPERTY LidStops
