CONSTANTS
    apply = apply
    again = again
    start = start
    reload = reload
    file = file
    link = link
    running = running
    loaded = loaded
    None = None
    Before = Before
    Edited = Edited
    Ops = {apply, again, start, reload}
    Things = {file, link, running, loaded}
    Managed = {apply, again}
    Restorable = {start}
    Targets <- MCTargets
    Cases <- MCCases
SPECIFICATION FairHelperSpec
INVARIANTS ExecutedOnce IncidentLatched
PROPERTIES Concludes KeepsPromise
CHECK_DEADLOCK FALSE
