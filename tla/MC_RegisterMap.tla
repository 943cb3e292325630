--------------------------- MODULE MC_RegisterMap ---------------------------
(* Every sorted table of up to four rows over six device addresses, with    *)
(* pool addresses in the opposite order, every chunk size up to three; and  *)
(* the table of inverter_map.c itself.                                      *)
EXTENDS RegisterMap, FiniteSets

Addresses == 1 .. 6

\* The rows of a set of device addresses, in ascending order.
Sorted(S) == [r \in 0 .. Cardinality(S) - 1 |->
               CHOOSE a \in S : Cardinality({b \in S : b < a}) = r]

SmallProfiles ==
  {[count |-> Cardinality(S),
    dev   |-> Sorted(S),
    pool  |-> [r \in 0 .. Cardinality(S) - 1 |-> 10 - r],
    chunk |-> c] : S \in {T \in SUBSET Addresses : Cardinality(T) \in 1 .. 4}, c \in 1 .. 3}

\* inverter1_mapping_table: device and pool addresses, read_chunk 20.
InverterDev == <<8192, 8193, 8194, 8448, 8449, 8450, 8451, 8452, 8453, 8460, 8714>>
InverterPool == <<45056, 45057, 45058, 47872, 47873, 47874, 47875, 47876, 47877, 47884, 47882>>
InverterProfile ==
  [count |-> 11,
   dev   |-> [r \in 0 .. 10 |-> InverterDev[r + 1]],
   pool  |-> [r \in 0 .. 10 |-> InverterPool[r + 1]],
   chunk |-> 20]

MCProfiles == SmallProfiles \cup {InverterProfile}
=============================================================================
