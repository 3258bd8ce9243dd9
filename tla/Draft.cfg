SPECIFICATION FairSpec
CONSTANTS
    t1 = t1
    t2 = t2
    t3 = t3
    e1 = e1
    e2 = e2
    Tasks = {t1, t2, t3}
    Edits = {e1, e2}
INVARIANTS TypeOK OneModifier
PROPERTIES ModificationEnds ImplementsAtomicDraft
