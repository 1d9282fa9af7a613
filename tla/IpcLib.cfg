\* Three environments in any roles and three messages: two senders to one receiver,
\* several messages between two of them, and pages that cannot be mapped.
CONSTANTS
    Env = {e1, e2, e3}
    MaxSends = 3
    Discipline = {"asked"}
SPECIFICATION FairSpec
INVARIANTS ReadsWhole DeliveredOnce
PROPERTIES ReceiverMet
CHECK_DEADLOCK FALSE
