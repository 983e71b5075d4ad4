SPECIFICATION Spec
CONSTANTS
    Cards = {1}
    Seats <- TagTeam
    Places <- AllPlaces
    Starts = {1}
    Seqs = {0}
    Darkened <- Field
    MaxBatch = 2
INVARIANTS
    NothingLeaks
    OpenCardsKnown
    QueriesReadBack
