\* Does every rpc() promise settle?
CONSTANTS
    MaxSockets = 2
    MaxRequests = 1
    n1 = n1
    Notes <- MCNotes
SPECIFICATION Spec
\* An idle client with no caller left is a state the program really rests in.
CHECK_DEADLOCK FALSE
PROPERTY RpcSettles
