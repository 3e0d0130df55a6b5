SPECIFICATION Spec
CONSTANTS
    e1 = e1
    e2 = e2
    n1 = n1
    n2 = n2
    n3 = n3
    n4 = n4
    Emails = {e1, e2}
    Mails = {m1, m2}
    To <- MailTo
    Notices = {n1, n2, n3, n4}
    Unreadable = {n4}
    About <- NoticeAbout
    SkipAbove = 1
    MaxLapses = 2
    MaxFaults = 2
SYMMETRY Symmetry
CHECK_DEADLOCK FALSE
INVARIANTS TypeOK CountCoversBounces BouncingIsSkipped NoticeLostTwoWays
