SPECIFICATION Spec
CONSTANTS
    RevisionFiles <- Tables
    ContentFiles <- Media
    MaxAnswers = 1
PROPERTIES TimeoutMeansSilence
