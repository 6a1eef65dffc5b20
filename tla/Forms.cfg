CONSTANTS
    NULL = NULL
    g = g
    h = h
    a = a
    b = b
    c = c
    d = d
    ka = ka
    kb = kb
    kc = kc
    kd = kd
    l1 = l1
    l2 = l2
    nameG = nameG
    nameH = nameH
    nameN = nameN
    Names = {nameG, nameH, nameN}
    Keys = {ka, kb, kc, kd}
    Labels = {l1, l2}
    Requests = {1, 2, 3}
    Ops <- MCOps
    Nodes <- MCNodes
    InitForms <- MCForms
    InitFields <- MCFields
    MaxNodes = 3
SPECIFICATION FairSpec
INVARIANTS
    IInv
PROPERTIES
    CyclesNeedRaces
    
    FollowsBook
    WalksEnd
