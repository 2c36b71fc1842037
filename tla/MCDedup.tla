------------------------------ MODULE MCDedup ------------------------------
(* A message is its source, its number (none: a packet of less than three  *)
(* bytes), its kind and a tag that tells packets of one number apart.      *)
EXTENDS Dedup

Addrs  == {"a", "b", "c"}
Seqs   == {0, 1}
Relays == {<<"a", 1, "relay">>}
Msgs   == Relays \cup {<<"a", 0, "packet">>, <<"a", 0, "other">>,
                       <<"a", Nothing, "packet">>,
                       <<"b", 0, "packet">>, <<"c", 0, "packet">>}
Src    == [m \in Msgs |-> m[1]]
Seq0   == [m \in Relays |-> m[2]]
\* The relay's byte is one of an address and happens to be 0.
Third  == [m \in Msgs |-> IF m \in Relays THEN 0 ELSE m[2]]
=============================================================================
