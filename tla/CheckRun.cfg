CONSTANTS
    Scripts = {"getTargetID", "gatherPIP", "me10", "me20", "me30", "me40", "me50", "me60", "sn10",
               "ev10", "ev20", "ev30", "ev40", "ev50", "ev60", "ev70", "da30", "da40",
               "mc10", "mc20", "mc30", "mc40", "mc50", "mc60", "mc70", "mc80", "cd10",
               "cd20", "cd30", "cd40", "fd10", "fd20", "fd30", "bt10", "bt20", "bt30",
               "bt40", "bt50", "bt60", "bt70", "bt80", "bt100", "bt110", "bt120",
               "bt130", "fr10", "fr20", "fr30", "fr40", "fr50", "fr60", "tr010",
               "tr020", "tr030", "tr040", "tr050", "tr060", "tr070", "tr080", "tr090",
               "tr100", "tr110", "ts10", "ts20", "ts30", "ts40", "dd10", "dd20",
               "dd30", "dd40", "st100", "st10", "st110", "st120", "st130", "st140",
               "st150", "st155", "st170", "st180", "st190", "st200", "st20", "st210",
               "st30", "st35", "st37", "st40", "st50", "st60", "st65", "st70", "st80",
               "st85", "st90"}
    Faults = {"lost", "bad", "short", "junk", "refused", "late", "restart", "event",
              "hasty", "silent", "flags"}
    MaxStrays = 1
    MaxQueue = 2
SPECIFICATION FairSpec
INVARIANTS
    TypeOK
    ConformingPasses
    DefectNoticed
    TakesOnlyAnswers
    BlamesOnlyDevice
    LateNeverCounts
    LeavesNoTrace
    NeverCrashes
    ScriptSound
PROPERTIES
    Undisturbed
    EveryCheckEnds
