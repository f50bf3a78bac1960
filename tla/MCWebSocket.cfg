\* Three sockets, two rpc() calls and one plain notify().
CONSTANTS
    MaxSockets = 3
    MaxRequests = 2
    n1 = n1
    Notes <- MCNotes
SPECIFICATION Spec
\* An idle client with no caller left is a state the program really rests in.
CHECK_DEADLOCK FALSE
INVARIANT TypeOK
INVARIANT SingleLiveSocket
INVARIANT QueueOnlyWhileDisconnected
PROPERTY AnsweredUnlessDropped
