----------------------------- MODULE MCUdpSession -----------------------------
EXTENDS UdpSession, FiniteSets

CONSTANTS
    a, b,        \* PCs
    a1, b1       \* processes on them

MCPcOf == [p \in Processes |-> IF p = b1 THEN b ELSE a]

\* Which of two instances is explored: one PC with room for restarts and late
\* datagrams, or two PCs with fewer of them.
VARIABLE pair

Limits(boots, micros, challenges, frames, datagrams) ==
    /\ boot <= boots
    /\ wall <= micros
    /\ made <= challenges
    /\ sealed <= frames
    /\ \A p \in Processes : counter[p] <= micros + 1
    /\ Cardinality(net) <= datagrams

Silent(p) ==
    /\ since[p] = 1
    /\ session[p] = Unknown
    /\ ring[p] = <<>>
    /\ counter[p] = 0
    /\ p \notin streaming
    /\ PcOf[p] \notin stored

\* The counts are unbounded in the code; a counter may run ahead of the clock.
Bounds ==
    \/ pair /\ Limits(3, 1, 1, 1, 4)
    \/ ~pair /\ Limits(3, 2, 2, 2, 5) /\ Silent(b1)

MCInit == Init /\ pair \in BOOLEAN
MCNext == Next /\ UNCHANGED pair /\ Bounds'
MCSpec == MCInit /\ [][MCNext]_<<vars, pair>>
=============================================================================
