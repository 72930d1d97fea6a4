SPECIFICATION Spec
CONSTANTS
    RevisionFiles <- Tables
    ContentFiles <- Media
    MaxAnswers = 2
PROPERTIES FinishedWhenDone
