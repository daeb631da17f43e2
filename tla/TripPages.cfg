CONSTANTS
    Cities = {"tehran", "yazd"}
    Places = {"p1", "p2"}
    Styles = {"Balanced", "Budget"}
    Ages = {17, Fraction}
    Hours = {7, 12, 13}
    Counts = {2, 31, Fraction}
    Fraction = Fraction
    MaxTravelers = 3
    Undefined = Undefined
    Days <- Todays
    Files <- TripFiles
    Drafts <- OldDrafts
    Picks = {1, 30}
    MaxEdits = 3
    MaxChoices = 1
    MaxShifts = 2
    Habits = {{"origin", "style", "file"}, {"car"}, {"calendar"}, {"places", "plan"}, {"stops", "plan"}}
    StopIds <- Stops
    MaxActs = 3
SPECIFICATION Spec
INVARIANTS DraftIsTheForm FaultsLieAhead MonthIsWhole RemovalsHold
CHECK_DEADLOCK FALSE
