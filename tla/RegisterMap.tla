------------------------------ MODULE RegisterMap ------------------------------
(***************************************************************************)
(* From the device to the pool: the segmented FC03 scan of                 *)
(* inverter_rtu_process_callback(), device_map_read_to_pool() and the      *)
(* binary search of device_find_slot(), over every register table.         *)
(*                                                                         *)
(* A table row maps a device address to a pool address.  The value of a    *)
(* register is the pair of its device address and a version, so that a     *)
(* value stored in the wrong slot is told from the right one.              *)
(***************************************************************************)
EXTENDS Integers

CONSTANTS
  Profiles,    \* register profiles: [count, dev, pool, chunk]
  Versions,    \* versions of a register's value
  PoolSize,    \* INTERNAL_POOL_SIZE
  Threshold    \* INVERTER_COMM_FAIL_THRESHOLD

\* The rules of inverter_map.c: rows sorted by device address, pool addresses
\* unique.  Rows are numbered from 0.
IsProfile(p) ==
  /\ p.count \in Nat
  /\ p.chunk \in Nat
  /\ p.dev \in [0 .. p.count - 1 -> Nat]
  /\ p.pool \in [0 .. p.count - 1 -> 0 .. PoolSize - 1]
  /\ \A j, k \in 0 .. p.count - 1 : j < k => p.dev[j] < p.dev[k]
  /\ \A j, k \in 0 .. p.count - 1 : p.pool[j] = p.pool[k] => j = k

ASSUME MapAssumption ==
  /\ \A p \in Profiles : IsProfile(p)
  /\ PoolSize \in Nat
  /\ Threshold \in Nat \ {0}

VARIABLES
  prof,        \* the unit's profile; never changes
  pc,          \* "idle", "plan", "lookup", "store" or "dropped"
  i,           \* loop variable of the segmentation
  segStart,    \* row at which the current segment begins
  segLen,      \* rows of the current segment
  version,     \* version the device returned for the segment just read
  k,           \* register of the buffer being stored
  low, high,   \* bounds of the binary search
  fails,       \* unit->comm_fail_count
  slot,        \* row that device_find_slot() returned
  pool,        \* internal_pool, of which the slots of the table
  latest,      \* history: the value last read from each row's register
  asked        \* history: rows requested in the current scan

loopVars == <<i, segStart, segLen>>
storeVars == <<version, k, low, high, slot>>
vars == <<prof, pc, loopVars, storeVars, fails, pool, latest, asked>>

Rows == 0 .. prof.count - 1
Zero == <<0, 0>>
Value(addr, v) == <<addr, v>>

\* The register of the buffer that is being stored: (uint16_t)(start + k).
Target == prof.dev[segStart] + k
-----------------------------------------------------------------------------
\* device_register_map_init(): the pool is zeroed.
Init ==
  /\ prof \in Profiles
  /\ pc = "idle"
  /\ i = 0 /\ segStart = 0 /\ segLen = 0
  /\ version \in Versions
  /\ k = 0 /\ low = 0 /\ high = 0 /\ slot = 0
  /\ fails = 0
  /\ pool = [a \in {prof.pool[r] : r \in Rows} |-> Zero]
  /\ latest = [r \in Rows |-> Zero]
  /\ asked = {}

\* An empty table returns at once.
StartScan ==
  /\ pc = "idle"
  /\ prof.count # 0
  /\ pc' = "plan"
  /\ i' = 1
  /\ segStart' = 0
  /\ segLen' = 1
  /\ asked' = {}
  /\ UNCHANGED <<prof, storeVars, fails, pool, latest>>

Contiguous == i < prof.count /\ prof.dev[i] = prof.dev[i - 1] + 1
ChunkFull == segLen >= prof.chunk

\* Mutant: the chunk size is not looked at.
ExtendOverfull ==
  /\ pc = "plan"
  /\ i <= prof.count
  /\ Contiguous
  /\ segLen' = segLen + 1
  /\ i' = i + 1
  /\ UNCHANGED <<prof, pc, segStart, storeVars, fails, pool, latest, asked>>

Extend ==
  /\ pc = "plan"
  /\ i <= prof.count
  /\ Contiguous /\ ~ChunkFull
  /\ segLen' = segLen + 1
  /\ i' = i + 1
  /\ UNCHANGED <<prof, pc, segStart, storeVars, fails, pool, latest, asked>>

\* The rows of the current segment.
Segment == segStart .. segStart + segLen - 1

\* The segment is over: one FC03 request for it, and the next one begins at i.
NextSegment ==
  /\ segStart' = i
  /\ segLen' = 1
  /\ i' = i + 1

\* The request fails: the pool keeps the old values, and below the threshold
\* the scan goes on with the next segment.
ReadFails ==
  /\ pc = "plan"
  /\ i <= prof.count
  /\ ~Contiguous \/ ChunkFull
  /\ fails + 1 < Threshold
  /\ fails' = fails + 1
  /\ asked' = asked \cup Segment
  /\ NextSegment
  /\ UNCHANGED <<prof, pc, storeVars, pool, latest>>

\* The failure that reaches the threshold ends the scan where it is: the
\* segments after it are not requested.
ReadDrops ==
  /\ pc = "plan"
  /\ i <= prof.count
  /\ ~Contiguous \/ ChunkFull
  /\ fails + 1 >= Threshold
  /\ fails' = fails + 1
  /\ asked' = asked \cup Segment
  /\ pc' = "dropped"
  /\ UNCHANGED <<prof, loopVars, storeVars, pool, latest>>

\* The error callback, and the init callback when the device answers again:
\* the next scan begins with the first row.
Reconnect ==
  /\ pc = "dropped"
  /\ fails' = 0
  /\ pc' = "idle"
  /\ UNCHANGED <<prof, loopVars, storeVars, pool, latest, asked>>

\* device_find_slot() starts with the whole table.
StartSearch ==
  /\ low' = 0
  /\ high' = prof.count

\* The buffer receives the registers start .. start + count - 1.
ReadOk ==
  /\ pc = "plan"
  /\ i <= prof.count
  /\ ~Contiguous \/ ChunkFull
  /\ asked' = asked \cup Segment
  /\ version' \in Versions
  /\ latest' = [r \in Rows |-> IF r \in Segment THEN Value(prof.dev[r], version') ELSE latest[r]]
  /\ fails' = 0
  /\ k' = 0
  /\ StartSearch
  /\ pc' = "lookup"
  /\ UNCHANGED <<prof, loopVars, slot, pool>>

\* Mutant: the lower half ends after mid instead of before it.
SearchNeverAdvances ==
  /\ pc = "lookup"
  /\ low < high
  /\ LET mid == low + (high - low) \div 2
     IN  \/ /\ prof.dev[mid] = Target
            /\ slot' = mid
            /\ pc' = "store"
            /\ UNCHANGED <<low, high>>
         \/ /\ prof.dev[mid] < Target
            /\ low' = mid + 1
            /\ UNCHANGED <<pc, high, slot>>
         \/ /\ prof.dev[mid] > Target
            /\ high' = mid + 1
            /\ UNCHANGED <<pc, low, slot>>
  /\ UNCHANGED <<prof, loopVars, version, k, fails, pool, latest, asked>>

\* Mutant: the lower half loses the row before mid.
SearchSkipsRow ==
  /\ pc = "lookup"
  /\ low < high
  /\ LET mid == low + (high - low) \div 2
     IN  \/ /\ prof.dev[mid] = Target
            /\ slot' = mid
            /\ pc' = "store"
            /\ UNCHANGED <<low, high>>
         \/ /\ prof.dev[mid] < Target
            /\ low' = mid + 1
            /\ UNCHANGED <<pc, high, slot>>
         \/ /\ prof.dev[mid] > Target
            /\ high' = mid - 1
            /\ UNCHANGED <<pc, low, slot>>
  /\ UNCHANGED <<prof, loopVars, version, k, fails, pool, latest, asked>>

\* One iteration of the binary search.  The search of a scan never ends with
\* low = high, where device_find_slot() returns NULL and the register would be
\* skipped: SearchKeepsTarget excludes it, and it would be a deadlock here.
Search ==
  /\ pc = "lookup"
  /\ low < high
  /\ LET mid == low + (high - low) \div 2
     IN  \/ /\ prof.dev[mid] = Target
            /\ slot' = mid
            /\ pc' = "store"
            /\ UNCHANGED <<low, high>>
         \/ /\ prof.dev[mid] < Target
            /\ low' = mid + 1
            /\ UNCHANGED <<pc, high, slot>>
         \/ /\ prof.dev[mid] > Target
            /\ high' = mid
            /\ UNCHANGED <<pc, low, slot>>
  /\ UNCHANGED <<prof, loopVars, version, k, fails, pool, latest, asked>>

\* The next register of the buffer, or the end of device_map_read_to_pool().
NextRegister ==
  IF k + 1 < segLen
  THEN /\ k' = k + 1
       /\ StartSearch
       /\ pc' = "lookup"
       /\ UNCHANGED loopVars
  ELSE /\ NextSegment
       /\ pc' = "plan"
       /\ UNCHANGED <<k, low, high>>

\* Mutant: the value is stored at the row of the segment's first register.
StoreAtStart ==
  /\ pc = "store"
  /\ pool' = [pool EXCEPT ![prof.pool[segStart]] = Value(Target, version)]
  /\ NextRegister
  /\ UNCHANGED <<prof, version, slot, fails, latest, asked>>

\* One register under the write lock; the pool address is in range.
Store ==
  /\ pc = "store"
  /\ pool' = [pool EXCEPT ![prof.pool[slot]] = Value(Target, version)]
  /\ NextRegister
  /\ UNCHANGED <<prof, version, slot, fails, latest, asked>>

\* Mutant: the loop ends one row early, before the last segment is read.
EndScanEarly ==
  /\ pc = "plan"
  /\ i >= prof.count
  /\ pc' = "idle"
  /\ UNCHANGED <<prof, loopVars, storeVars, fails, pool, latest, asked>>

EndScan ==
  /\ pc = "plan"
  /\ i > prof.count
  /\ pc' = "idle"
  /\ UNCHANGED <<prof, loopVars, storeVars, fails, pool, latest, asked>>

Next == StartScan \/ Extend \/ ReadFails \/ ReadDrops \/ Reconnect \/ ReadOk \/ Search \/ Store \/ EndScan

Spec == Init /\ [][Next]_vars

\* The poll thread keeps running.
FairSpec == Spec /\ WF_vars(Next)
-----------------------------------------------------------------------------
\* Types; in particular every row index the search and the scan use is a row.
TypeOK ==
  /\ prof \in Profiles
  /\ pc \in {"idle", "plan", "lookup", "store", "dropped"}
  /\ fails \in 0 .. Threshold
  /\ i \in 0 .. prof.count + 1
  /\ segStart \in 0 .. prof.count
  /\ segLen \in 0 .. prof.count
  /\ k \in 0 .. prof.count
  /\ low \in 0 .. prof.count
  /\ high \in 0 .. prof.count
  /\ slot \in 0 .. prof.count
  /\ asked \subseteq Rows

\* What goes out as one FC03 request is a run of consecutive device addresses
\* no longer than read_chunk (or one register), all of them rows of the table.
RequestSound ==
  pc # "idle" /\ i <= prof.count =>
    /\ i = segStart + segLen
    /\ segLen <= prof.chunk \/ segLen = 1
    /\ \A r \in Segment : prof.dev[r] = prof.dev[segStart] + (r - segStart)

\* The binary search never loses the row it is looking for, so that every
\* register of a response finds its slot, and the slot is the right one.
SearchKeepsTarget ==
  /\ pc = "lookup" => \E r \in low .. high - 1 : prof.dev[r] = Target
  /\ pc = "store" => slot \in Rows /\ prof.dev[slot] = Target

\* Between responses the pool holds for every row exactly the value last read
\* from its register ("always stores the raw register value read from the
\* device"): failed reads and abandoned scans change nothing and no row gets
\* another's value.
PoolMirrorsDevice ==
  pc \in {"idle", "plan", "dropped"} => \A r \in Rows : pool[prof.pool[r]] = latest[r]

\* A scan ends with every row of the table requested, unless it is given up
\* because comm_fail_count has reached the threshold; and no request asks for
\* a row a second time.
ScanCovers ==
  /\ [][pc = "plan" /\ pc' \in {"idle", "dropped"} =>
          asked' = Rows \/ (pc' = "dropped" /\ fails' = Threshold)]_vars
  /\ [][asked' # asked /\ asked' # {} => asked \cap Segment = {}]_vars

\* Every scan ends, whatever the table and whatever reads fail.
ScanEnds == pc = "plan" ~> pc \in {"idle", "dropped"}
=============================================================================
