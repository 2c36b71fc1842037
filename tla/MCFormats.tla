----------------------------- MODULE MCFormats -----------------------------
(***************************************************************************)
(* Packets around every size that is tested for, and up to the largest     *)
(* that fits a buffer.                                                     *)
(***************************************************************************)
EXTENDS Formats

Origins == {<<0, 0>>, <<0, 5>>, <<1, 0>>, <<1, 5>>}
Seqs    == {0, 255}
Devices == {"r1"}
Letters == [i \in 1 .. 30 |-> 100]

Sizes == 0 .. 40 \cup M!UartMaxLen - M!RxPktSize - 3 .. M!UartMaxLen - M!RxPktSize

Received == [type : {"rx"}, len : {0}, src : Device,
             payload : [size : Sizes, magic : BOOLEAN, relay : M!Relay]]

SizedPackets == {[p EXCEPT !.len = M!RxPktSize + p.payload.size] : p \in Received}
                  \cup {[p EXCEPT !.type = "tx", !.len = M!TxPktSize] :
                           p \in {r \in Received : r.payload.size = M!RequestSize}}
=============================================================================
