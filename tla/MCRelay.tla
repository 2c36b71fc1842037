------------------------------ MODULE MCRelay ------------------------------
EXTENDS Relay, TLC

\* Two hosts; sources on different hosts may have chosen one port.
Origins == {<<0, 7>>, <<1, 7>>, <<2, 7>>}
Seqs == 0 .. 3
Devices == {"rA", "rB", "sensor"}
Sensors == {"sensor"}

\* Five bytes that look like the beginning of a request, and a request of no
\* source, without an address.
Short    == [size |-> 5, magic |-> TRUE, relay |-> [origin |-> <<1, 7>>, seq |-> 1]]
Nameless == [size |-> RequestSize, magic |-> TRUE, relay |-> [origin |-> <<0, 7>>, seq |-> 1]]
Odd    == {Short, Nameless}
Radios == Permutations(Fwd)

Sources == {"A", "B"}
Own     == [s \in Sources |-> IF s = "A" THEN <<1, 7>> ELSE <<2, 7>>]
Radio   == [s \in Sources |-> IF s = "A" THEN "rA" ELSE "rB"]
\* A writes to a radio, B simulates one with a size of its own.
Sizes   == [s \in Sources |-> IF s = "A" THEN RequestSize ELSE 100]
=============================================================================
