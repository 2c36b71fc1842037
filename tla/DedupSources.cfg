\* Is there always an entry for the next source?
CONSTANTS
  Msg <- Msgs
  RelayMsg <- Relays
  Addr <- Addrs
  SeqNo <- Seqs
  SrcOf <- Src
  SeqOf <- Seq0
  ByteOf <- Third
  MaxDedup = 2
  Window = 1
  MaxTime = 2
  Nothing = Nothing
SPECIFICATION Spec
INVARIANTS TableSuffices
