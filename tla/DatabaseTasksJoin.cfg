SPECIFICATION DatabaseSpec
CONSTANTS
    Submitters = {game}
    Queries = {ban}
    Callbacks = {}
    NoQuery = none
PROPERTIES
    ThreadEnds
CHECK_DEADLOCK FALSE
