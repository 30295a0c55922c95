SPECIFICATION FairSpec
CONSTANTS
    Msgs = {m1, m2, m3}
    MaxBatch = 2
PROPERTIES Copies Moves CheckEnds
