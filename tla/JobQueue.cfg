CONSTANTS
    Mixes = {{"walk_league_history"}, {"poll_live_games", "archive_parsed_replays"}, {"poll_live_games", "fetch_match_details"}}
    Ensurers = {"cron"}
    Slots = {s1, s2}
    LiveMax = 1
    LoopTries = 2
    Budget = 3
    MaxAsks = 1
    MaxFaults = 2
SPECIFICATION Spec
INVARIANTS TypeOK LiveCallsWithinCap WantedIsAlive
PROPERTIES LoopsComeBack DetailsRest
