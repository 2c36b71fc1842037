\* Three sources for the two entries that are searched: roomy, then full, then
\* reused, then overrun.  Of one source, two packets with one number, a relay, and
\* a packet without a number.
CONSTANTS
  Msg <- Msgs
  RelayMsg <- Relays
  Addr <- Addrs
  SeqNo <- Seqs
  SrcOf <- Src
  SeqOf <- Seq0
  ByteOf <- Third
  MaxDedup = 3
  Window = 1
  MaxTime = 3
  Nothing = Nothing
SPECIFICATION Spec
INVARIANTS TypeOK SourcesDistinct StampsTrue NothingForgotten
PROPERTIES DropsOnlyLookAlikes RepeatsDropped
