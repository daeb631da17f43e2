CONSTANTS
    t1 = t1
    t2 = t2
    s1 = s1
    s2 = s2
    nature = nature
    NoTrip = NoTrip
    Trips = {t1, t2}
    Stops = {s1, s2}
    CategoryOf <- MCCategoryOf
    Labels = {"epic"}
    LongLabels = {"epic"}
    Marks = {"rated"}
    MaxUploads = 2
    MaxExpenses = 1
SPECIFICATION Spec
SYMMETRY Interchangeable
INVARIANTS NotebookOfThisTrip UploadsLand
