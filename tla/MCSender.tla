------------------------------ MODULE MCSender ------------------------------
EXTENDS Sender

\* Two chunks and one: the first item was received in part before, the second whole.
TwoAndOne == [i \in Items |-> IF i = 1 THEN 2 ELSE 1]
OneOfEach == [i \in Items |-> 1]

\* Two items over one connection, whose files change; one item, or both, over two
\* connections; files open already, a connection lost, the receiver's stop.
Plan(n, o, s, k, f, m) == [conns |-> n, fixed |-> o, sealed |-> s, inflight |-> k, faults |-> f, max |-> m]
Changing == Plan(1, {}, {}, 2, {"write", "replace"}, 1)
OneItem == Plan(2, {}, {2}, 2, {}, 0)
BothItems == Plan(2, {}, {}, 1, {}, 0)
FilesOpen == Plan(1, {1, 2}, {}, 1, {"write", "lose", "stop"}, 1)
Runs == {Changing, OneItem, BothItems, FilesOpen}
=============================================================================
