SPECIFICATION Spec
CONSTANTS
    RevisionFiles <- Tables
    ContentFiles <- Media
    MaxAnswers = 1
INVARIANTS TypeOK OneThingDue SavedWhereAsked
PROPERTIES FinishedWhenDone LoopSpec
