\* mergeAllUtxos and mergeUtxos by one caller, inbox notes arriving at any
\* time; cap 3.
CONSTANTS
    n1 = n1
    n2 = n2
    n4 = n4
    Assets <- MCAssets
    InboxNotes <- MCInboxNotes
    NoteAsset <- MCNoteAsset
    NoteAmount <- MCNoteAmount
    OwnIds <- MCOwnIds
    Commitments <- MCCommitments
    Cap = 3
SPECIFICATION Spec
INVARIANTS
    TypeOK
    LargestInboxFirst
    CapRespected
PROPERTIES
    InboxEventuallyMerged
