--------------------------- MODULE RegisterMapProofs ---------------------------
(***************************************************************************)
(* The scan is right for every register table that follows the rules of    *)
(* inverter_map.c, every chunk size and every pattern of failing reads.    *)
(***************************************************************************)
EXTENDS RegisterMap, TLAPS

(***************************************************************************)
(* The inductive invariant has four parts.                                 *)
(***************************************************************************)

Types ==
  /\ prof \in Profiles
  /\ pc \in {"idle", "plan", "lookup", "store", "dropped"}
  /\ fails \in Nat /\ fails <= Threshold
  /\ pc # "dropped" => fails < Threshold
  /\ i \in Int /\ segStart \in Int /\ segLen \in Int
  /\ k \in Int /\ low \in Int /\ high \in Int /\ slot \in Int
  /\ pool \in [{prof.pool[r] : r \in Rows} -> Nat \X (Versions \cup {0})]
  /\ latest \in [Rows -> Nat \X (Versions \cup {0})]
  /\ version \in Versions

\* The segmentation: the rows from segStart to i - 1 are one run of addresses.
\* The scan is over when the next segment would begin behind the table.
SegmentInv ==
  pc # "idle" =>
    /\ segStart >= 0 /\ segLen >= 1
    /\ i = segStart + segLen
    /\ i <= prof.count + 1
    /\ i = prof.count + 1 => segStart = prof.count
    /\ segLen <= prof.chunk \/ segLen = 1
    /\ i <= prof.count =>
         \A r \in Segment : prof.dev[r] = prof.dev[segStart] + (r - segStart)

\* The row of the register in hand is in the part that is still searched.
SearchInv ==
  /\ pc \in {"lookup", "store"} =>
       i <= prof.count /\ 0 <= k /\ k < segLen
  /\ pc = "lookup" =>
       0 <= low /\ low <= segStart + k /\ segStart + k < high /\ high <= prof.count
  /\ pc = "store" => slot = segStart + k

\* A response that is being stored: the registers before the one in hand are
\* in the pool, the others still to come.
StoredInv ==
  /\ pc \in {"idle", "plan", "dropped"} => \A r \in Rows : pool[prof.pool[r]] = latest[r]
  /\ pc \in {"lookup", "store"} =>
       /\ \A r \in Rows : r < segStart + k \/ r \notin Segment
                            => pool[prof.pool[r]] = latest[r]
       /\ \A r \in Segment : latest[r] = Value(prof.dev[r], version)

\* What was requested in the scan so far.
AskedInv ==
  /\ pc = "plan" => asked = 0 .. segStart - 1
  /\ pc \in {"lookup", "store"} => asked = 0 .. segStart + segLen - 1

IInv == Types /\ SegmentInv /\ SearchInv /\ StoredInv /\ AskedInv
-----------------------------------------------------------------------------
LEMMA ThresholdNat == Threshold \in Nat \ {0}
BY MapAssumption

\* What the proofs use of a profile.
LEMMA ProfileFacts ==
  ASSUME Types
  PROVE  /\ prof.count \in Nat /\ prof.chunk \in Nat
         /\ prof.dev \in [Rows -> Nat]
         /\ \A j, l \in Rows : j < l => prof.dev[j] < prof.dev[l]
         /\ \A j, l \in Rows : prof.pool[j] = prof.pool[l] => j = l
BY MapAssumption DEF Types, IsProfile, Rows

\* On a sorted table the comparison of two addresses is that of their rows.
LEMMA SortedBothWays ==
  ASSUME Types, NEW j \in Rows, NEW l \in Rows
  PROVE  /\ prof.dev[j] = prof.dev[l] => j = l
         /\ prof.dev[j] < prof.dev[l] => j < l
<1>1. j \in Int /\ l \in Int  BY ProfileFacts DEF Rows
<1>2. prof.dev[j] \in Nat /\ prof.dev[l] \in Nat  BY ProfileFacts
<1>3. j < l => prof.dev[j] < prof.dev[l]  BY ProfileFacts
<1>4. l < j => prof.dev[l] < prof.dev[j]  BY ProfileFacts
<1>. QED  BY <1>1, <1>2, <1>3, <1>4

\* The register in hand is that of row segStart + k.
LEMMA TargetRow ==
  ASSUME Types, SegmentInv, SearchInv, pc \in {"lookup", "store"}
  PROVE  /\ segStart + k \in Rows
         /\ segStart + k \in Segment
         /\ prof.dev[segStart + k] = Target
         /\ Segment \subseteq Rows
<1>1. /\ segStart \in Int /\ segLen \in Int /\ k \in Int /\ i \in Int
      /\ prof.count \in Nat
      /\ segStart >= 0 /\ i = segStart + segLen /\ i <= prof.count
      /\ 0 <= k /\ k < segLen
  BY ProfileFacts DEF Types, SegmentInv, SearchInv
<1>2. segStart + k \in Segment  BY <1>1 DEF Segment
<1>3. prof.dev[segStart + k] = prof.dev[segStart] + (segStart + k - segStart)
  BY <1>1, <1>2 DEF SegmentInv
<1>4. prof.dev[segStart] \in Nat  BY <1>1, ProfileFacts DEF Rows
<1>. QED  BY <1>1, <1>2, <1>3, <1>4 DEF Segment, Rows, Target
-----------------------------------------------------------------------------
LEMMA InitIInv == Init => IInv
<1>. SUFFICES ASSUME Init PROVE IInv  OBVIOUS
<1>. USE DEF Init
<1>1. Types
  <2>1. prof \in Profiles  OBVIOUS
  <2>2. Zero \in Nat \X (Versions \cup {0})  BY DEF Zero
  <2>. QED  BY <2>1, <2>2, ThresholdNat DEF Types
<1>2. SegmentInv /\ SearchInv /\ AskedInv  BY DEF SegmentInv, SearchInv, AskedInv
<1>3. StoredInv  BY DEF StoredInv
<1>. QED  BY <1>1, <1>2, <1>3 DEF IInv

\* The steps of the segmentation: nothing is being stored.
LEMMA PlanStep ==
  ASSUME IInv, StartScan \/ Extend \/ ReadFails \/ ReadDrops \/ Reconnect \/ EndScan
  PROVE  IInv'
<1>. USE DEF IInv
<1>0. /\ prof.count \in Nat /\ prof.chunk \in Nat
      /\ prof.dev \in [Rows -> Nat]
  BY ProfileFacts
<1>1. CASE StartScan
  <2>1. Types'  BY <1>1 DEF StartScan, storeVars, Types, Rows
  <2>2. SegmentInv'
    <3>1. \A r \in Segment' : r = 0  BY <1>1 DEF StartScan, Segment
    <3>2. prof.dev[0] \in Nat  BY <1>0, <1>1 DEF StartScan, Rows
    <3>3. /\ i' = 1 /\ segStart' = 0 /\ segLen' = 1 /\ prof' = prof
          /\ prof.count \in Nat \ {0}
      BY <1>0, <1>1 DEF StartScan
    <3>4. \A r \in Segment' : prof.dev[r] = prof.dev[0] + (r - 0)
      BY <3>1, <3>2
    <3>. HIDE DEF IInv
    <3>. QED  BY <3>3, <3>4 DEF SegmentInv
  <2>3. SearchInv' /\ AskedInv'
    BY <1>1 DEF StartScan, SearchInv, AskedInv
  <2>4. StoredInv'  BY <1>1 DEF StartScan, StoredInv, Rows
  <2>. QED  BY <2>1, <2>2, <2>3, <2>4
<1>2. CASE Extend
  <2>. USE <1>2 DEF Extend
  <2>1. Types'  BY DEF storeVars, Types, Rows
  <2>2. SegmentInv'
    <3>1. /\ segStart \in Int /\ segLen \in Int /\ i \in Int
          /\ segStart >= 0 /\ segLen >= 1 /\ i = segStart + segLen
          /\ i < prof.count
      BY <1>0 DEF Types, SegmentInv, Contiguous
    <3>2. prof.dev[i] = prof.dev[i - 1] + 1  BY DEF Contiguous
    <3>3. prof.dev[i - 1] = prof.dev[segStart] + (i - 1 - segStart)
      BY <1>0, <3>1 DEF SegmentInv, Segment
    <3>4. Segment' = Segment \cup {i}  BY <3>1 DEF Segment
    <3>5. prof.dev[segStart] \in Nat  BY <1>0, <3>1 DEF Rows
    <3>6. prof.dev[i] = prof.dev[segStart] + (i - segStart)
      BY <3>1, <3>2, <3>3, <3>5
    <3>7. \A r \in Segment : prof.dev[r] = prof.dev[segStart] + (r - segStart)
      BY <1>0, <3>1 DEF SegmentInv
    <3>8. \A r \in Segment' : prof.dev[r] = prof.dev[segStart] + (r - segStart)
      BY <3>4, <3>6, <3>7
    <3>9. segLen < prof.chunk  BY <1>0, <3>1 DEF ChunkFull
    <3>. QED  BY <1>0, <3>1, <3>8, <3>9 DEF SegmentInv
  <2>3. SearchInv' /\ AskedInv'  BY DEF SearchInv, AskedInv
  <2>4. StoredInv'  BY DEF StoredInv, Rows
  <2>. QED  BY <2>1, <2>2, <2>3, <2>4
<1>3. CASE ReadFails
  <2>. USE <1>3 DEF ReadFails, NextSegment
  <2>1. Types'  BY ThresholdNat DEF storeVars, Types, Rows
  <2>2. SegmentInv'
    <3>1. i \in Int /\ i >= 1 /\ i <= prof.count  BY DEF Types, SegmentInv
    <3>2. \A r \in Segment' : r = i  BY <3>1 DEF Segment
    <3>3. i < prof.count => prof.dev[i] \in Nat  BY <1>0, <3>1 DEF Rows
    <3>. QED  BY <1>0, <3>1, <3>2, <3>3 DEF SegmentInv
  <2>3. SearchInv'  BY DEF SearchInv
  <2>4. AskedInv'  BY DEF AskedInv, Types, SegmentInv, Segment
  <2>5. StoredInv'  BY DEF StoredInv, Rows
  <2>. QED  BY <2>1, <2>2, <2>3, <2>4, <2>5
<1>4. CASE EndScan
  <2>. USE <1>4 DEF EndScan
  <2>1. Types'  BY DEF loopVars, storeVars, Types, Rows
  <2>2. SegmentInv' /\ SearchInv' /\ AskedInv'
    BY DEF SegmentInv, SearchInv, AskedInv
  <2>3. StoredInv'  BY DEF StoredInv, Rows
  <2>. QED  BY <2>1, <2>2, <2>3
<1>5. CASE ReadDrops \/ Reconnect
  <2>. USE <1>5 DEF ReadDrops, Reconnect
  <2>1. Types'
    <3>1. /\ fails' \in Nat /\ fails' <= Threshold
          /\ pc' = "dropped" \/ (pc' = "idle" /\ fails' < Threshold)
      BY ThresholdNat DEF Types
    <3>2. UNCHANGED <<prof, loopVars, storeVars, pool, latest>>  OBVIOUS
    <3>. HIDE <1>5 DEF ReadDrops, Reconnect
    <3>. QED  BY <3>1, <3>2 DEF loopVars, storeVars, Types, Rows
  <2>2. SegmentInv' /\ SearchInv' /\ AskedInv'
    <3>1. Segment' = Segment  BY DEF loopVars, Segment
    <3>. QED  BY <3>1 DEF loopVars, SegmentInv, SearchInv, AskedInv
  <2>3. StoredInv'  BY DEF StoredInv, Rows
  <2>. QED  BY <2>1, <2>2, <2>3
<1>. QED  BY <1>1, <1>2, <1>3, <1>4, <1>5

\* A response is in the buffer: its values are the latest, none is stored yet.
LEMMA ReadOkStep ==
  ASSUME IInv, ReadOk
  PROVE  IInv'
<1>. USE DEF IInv, ReadOk, StartSearch, loopVars
<1>0. /\ prof.count \in Nat /\ prof.chunk \in Nat
      /\ prof.dev \in [Rows -> Nat]
  BY ProfileFacts
<1>1. /\ i \in Int /\ segStart \in Int /\ segLen \in Int
      /\ segStart >= 0 /\ segLen >= 1 /\ i = segStart + segLen /\ i <= prof.count
  BY DEF Types, SegmentInv
<1>2. Segment \subseteq Rows  BY <1>0, <1>1 DEF Segment, Rows
<1>3. Types'
  <2>1. \A r \in Rows : latest'[r] \in Nat \X (Versions \cup {0})
    BY <1>0 DEF Types, Value
  <2>2. latest' \in [Rows -> Nat \X (Versions \cup {0})]  BY <2>1
  <2>3. Rows' = Rows  BY DEF Rows
  <2>. QED  BY <1>0, <2>2, <2>3, ThresholdNat DEF Types
<1>4. SegmentInv'  BY DEF SegmentInv, Segment
<1>5. SearchInv'  BY <1>0, <1>1 DEF SearchInv
<1>6. AskedInv'  BY <1>1 DEF AskedInv, Segment
<1>7. StoredInv'
  <2>1. \A r \in Rows : r < segStart \/ r \notin Segment => r \notin Segment
    BY <1>0, <1>1 DEF Segment, Rows
  <2>2. \A r \in Rows : r \notin Segment => latest'[r] = latest[r]  OBVIOUS
  <2>3. \A r \in Segment : latest'[r] = Value(prof.dev[r], version')  BY <1>2
  <2>4. \A r \in Rows : pool[prof.pool[r]] = latest[r]  BY DEF StoredInv
  <2>5. segStart' + k' = segStart  BY <1>1
  <2>6. Segment' = Segment /\ Rows' = Rows  BY DEF Segment, Rows
  <2>. QED  BY <2>1, <2>2, <2>3, <2>4, <2>5, <2>6 DEF StoredInv
<1>. QED  BY <1>3, <1>4, <1>5, <1>6, <1>7

\* One comparison of the binary search keeps the row of the register.
LEMMA SearchStep ==
  ASSUME IInv, Search
  PROVE  IInv'
<1>. USE DEF IInv, Search
<1>0. /\ prof.count \in Nat
      /\ i \in Int /\ segStart \in Int /\ segLen \in Int /\ k \in Int
      /\ low \in Int /\ high \in Int
      /\ low >= 0 /\ low <= segStart + k /\ segStart + k < high /\ high <= prof.count
  BY ProfileFacts DEF Types, SearchInv
<1>. DEFINE mid == low + (high - low) \div 2
<1>1. mid \in Int /\ low <= mid /\ mid < high
  <2>1. high - low \in Int /\ high - low >= 1  BY <1>0
  <2>2. (high - low) \div 2 \in Int /\ 0 <= (high - low) \div 2 /\ (high - low) \div 2 < high - low
    BY <2>1
  <2>. QED  BY <1>0, <2>2
<1>2. mid \in Rows /\ segStart + k \in Rows /\ prof.dev[segStart + k] = Target
  BY <1>0, <1>1, TargetRow DEF Rows
<1>3. /\ prof.dev[mid] = Target => mid = segStart + k
      /\ prof.dev[mid] < Target => mid < segStart + k
      /\ Target < prof.dev[mid] => segStart + k < mid
  BY <1>2, SortedBothWays
<1>4. prof.dev[mid] \in Nat /\ Target \in Nat  BY <1>2, ProfileFacts
<1>. HIDE DEF mid
<1>5. \/ mid = segStart + k /\ slot' = mid /\ pc' = "store" /\ UNCHANGED <<low, high>>
      \/ mid < segStart + k /\ low' = mid + 1 /\ UNCHANGED <<pc, high, slot>>
      \/ segStart + k < mid /\ high' = mid /\ UNCHANGED <<pc, low, slot>>
  BY <1>3, <1>4 DEF mid
<1>6. Types'  BY <1>0, <1>1, <1>5 DEF Types, loopVars, Rows
<1>7. SegmentInv'  BY <1>5 DEF SegmentInv, Segment, loopVars
<1>8. SearchInv'  BY <1>0, <1>1, <1>5 DEF SearchInv, loopVars
<1>9. StoredInv' /\ AskedInv'  BY <1>5 DEF StoredInv, AskedInv, Segment, Rows, loopVars
<1>. QED  BY <1>6, <1>7, <1>8, <1>9

\* The register in hand reaches its own slot and no other one is touched.
LEMMA StoreStep ==
  ASSUME IInv, Store
  PROVE  IInv'
<1>. USE DEF IInv, Store
<1>0. /\ prof.count \in Nat /\ prof.chunk \in Nat
      /\ prof.dev \in [Rows -> Nat]
      /\ \A j, l \in Rows : prof.pool[j] = prof.pool[l] => j = l
  BY ProfileFacts
<1>1. /\ i \in Int /\ segStart \in Int /\ segLen \in Int /\ k \in Int
      /\ segStart >= 0 /\ segLen >= 1 /\ i = segStart + segLen /\ i <= prof.count
      /\ 0 <= k /\ k < segLen /\ slot = segStart + k
  BY DEF Types, SegmentInv, SearchInv
<1>2. /\ slot \in Rows /\ slot \in Segment /\ Segment \subseteq Rows
      /\ prof.dev[slot] = Target
  BY <1>1, TargetRow
<1>3. latest[slot] = Value(Target, version)  BY <1>2 DEF StoredInv
<1>4. /\ pool' \in [{prof.pool[r] : r \in Rows} -> Nat \X (Versions \cup {0})]
      /\ pool'[prof.pool[slot]] = latest[slot]
      /\ \A r \in Rows : r # slot => pool'[prof.pool[r]] = pool[prof.pool[r]]
  <2>1. prof.pool[slot] \in {prof.pool[r] : r \in Rows}  BY <1>2
  <2>2. latest[slot] \in Nat \X (Versions \cup {0})  BY <1>2 DEF Types
  <2>3. \A r \in Rows : r # slot => prof.pool[r] # prof.pool[slot]  BY <1>0, <1>2
  <2>4. pool' = [pool EXCEPT ![prof.pool[slot]] = latest[slot]]  BY <1>3
  <2>5. pool \in [{prof.pool[r] : r \in Rows} -> Nat \X (Versions \cup {0})]  BY DEF Types
  <2>. QED  BY <2>1, <2>2, <2>3, <2>4, <2>5
<1>5. \A r \in Rows : r <= slot \/ r \notin Segment => pool'[prof.pool[r]] = latest[r]
  <2>. SUFFICES ASSUME NEW r \in Rows, r <= slot \/ r \notin Segment
                PROVE  pool'[prof.pool[r]] = latest[r]
    OBVIOUS
  <2>1. CASE r = slot  BY <2>1, <1>4
  <2>2. CASE r # slot
    <3>1. r < segStart + k \/ r \notin Segment  BY <2>2, <1>0, <1>1 DEF Rows
    <3>2. pool[prof.pool[r]] = latest[r]  BY <3>1 DEF StoredInv
    <3>. QED  BY <2>2, <3>2, <1>4
  <2>. QED  BY <2>1, <2>2
<1>6. CASE k + 1 < segLen
  <2>1. k' = k + 1 /\ low' = 0 /\ high' = prof.count /\ pc' = "lookup" /\ UNCHANGED loopVars
    BY <1>6 DEF NextRegister, StartSearch
  <2>2. Types'  BY <1>0, <1>1, <1>4, <2>1 DEF Types, Rows, loopVars
  <2>3. SegmentInv'  BY <2>1 DEF SegmentInv, Segment, loopVars
  <2>4. SearchInv'  BY <1>0, <1>1, <1>6, <2>1 DEF SearchInv, loopVars
  <2>5. StoredInv'
    <3>1. Segment' = Segment /\ Rows' = Rows  BY <2>1 DEF Segment, Rows, loopVars
    <3>2. \A r \in Rows : r < segStart' + k' => r <= slot
      BY <1>0, <1>1, <2>1 DEF Rows, loopVars
    <3>3. \A r \in Rows : r < segStart' + k' \/ r \notin Segment => pool'[prof.pool[r]] = latest[r]
      BY <1>5, <3>2
    <3>4. \A r \in Segment : latest[r] = Value(prof.dev[r], version)  BY DEF StoredInv
    <3>. QED  BY <2>1, <3>1, <3>3, <3>4 DEF StoredInv
  <2>6. AskedInv'  BY <2>1 DEF AskedInv, loopVars
  <2>. QED  BY <2>2, <2>3, <2>4, <2>5, <2>6
<1>7. CASE ~(k + 1 < segLen)
  <2>1. segStart' = i /\ segLen' = 1 /\ i' = i + 1 /\ pc' = "plan" /\ UNCHANGED <<k, low, high>>
    BY <1>7 DEF NextRegister, NextSegment
  <2>2. Types'  BY <1>0, <1>1, <1>4, <2>1 DEF Types, Rows
  <2>3. SegmentInv'
    <3>1. \A r \in Segment' : r = i  BY <1>1, <2>1 DEF Segment
    <3>2. i < prof.count => prof.dev[i] \in Nat  BY <1>0, <1>1 DEF Rows
    <3>. QED  BY <1>0, <1>1, <2>1, <3>1, <3>2 DEF SegmentInv
  <2>4. SearchInv'  BY <2>1 DEF SearchInv
  <2>5. StoredInv'
    <3>1. \A r \in Rows : r <= slot \/ r \notin Segment
      BY <1>0, <1>1, <1>7 DEF Rows, Segment
    <3>. QED  BY <1>5, <2>1, <3>1 DEF StoredInv, Rows
  <2>6. AskedInv'  BY <1>1, <2>1 DEF AskedInv
  <2>. QED  BY <2>2, <2>3, <2>4, <2>5, <2>6
<1>. QED  BY <1>6, <1>7

LEMMA StutterStep == IInv /\ UNCHANGED vars => IInv'
BY DEF IInv, vars, loopVars, storeVars, Types, SegmentInv, SearchInv, StoredInv,
       AskedInv, Rows, Segment

LEMMA NextIInv == IInv /\ [Next]_vars => IInv'
BY PlanStep, ReadOkStep, SearchStep, StoreStep, StutterStep DEF Next

LEMMA Invariant == Spec => []IInv
BY InitIInv, NextIInv, PTL DEF Spec
-----------------------------------------------------------------------------
\* Every row index that the scan and the search use stays within the table
\* and one past it (TypeOK), whatever the table.
THEOREM TypeCorrect == Spec => []TypeOK
<1>1. Init => TypeOK
  <2>. SUFFICES ASSUME Init PROVE TypeOK  OBVIOUS
  <2>1. prof.count \in Nat  BY InitIInv, ProfileFacts DEF IInv
  <2>. QED  BY <2>1, ThresholdNat DEF Init, TypeOK, Rows
<1>2. TypeOK /\ IInv /\ [Next]_vars => TypeOK'
  <2>. SUFFICES ASSUME TypeOK, IInv, [Next]_vars PROVE TypeOK'  OBVIOUS
  <2>0. /\ prof.count \in Nat
        /\ Rows = 0 .. prof.count - 1
        /\ pc # "idle" => segStart >= 0 /\ segLen >= 1 /\ i = segStart + segLen
    BY ProfileFacts DEF IInv, SegmentInv, Rows
  <2>. USE <2>0 DEF TypeOK, loopVars, storeVars
  <2>1. CASE StartScan  BY <2>1 DEF StartScan, Rows
  <2>2. CASE Extend  BY <2>2 DEF Extend, Contiguous, Rows
  <2>9. CASE ReadDrops  BY <2>9, ThresholdNat DEF ReadDrops, IInv, Types, Segment, Rows
  <2>10. CASE Reconnect  BY <2>10, ThresholdNat DEF Reconnect, Rows
  <2>3. CASE ReadFails  BY <2>3, ThresholdNat DEF ReadFails, NextSegment, Segment, Rows
  <2>4. CASE ReadOk  BY <2>4, ThresholdNat DEF ReadOk, StartSearch, Segment, Rows
  <2>5. CASE Search
    <3>1. prof.count' = prof.count /\ low \in Int /\ high \in Int /\ low < high
      BY <2>5 DEF Search
    <3>2. low + (high - low) \div 2 \in low .. high - 1  BY <3>1
    <3>3. /\ slot' \in {slot, low + (high - low) \div 2}
          /\ low' \in {low, low + (high - low) \div 2 + 1}
          /\ high' \in {high, low + (high - low) \div 2}
      BY <2>5 DEF Search
    <3>4. slot' \in 0 .. prof.count /\ low' \in 0 .. prof.count /\ high' \in 0 .. prof.count
      BY <3>2, <3>3, SMTT(30)
    <3>. QED  BY <2>5, <3>1, <3>4 DEF Search, Rows
  <2>6. CASE Store  BY <2>6 DEF Store, NextRegister, StartSearch, NextSegment, IInv, SearchInv, Rows
  <2>7. CASE EndScan  BY <2>7 DEF EndScan, Rows
  <2>8. CASE UNCHANGED vars  BY <2>8 DEF vars, Rows
  <2>. QED  BY <2>1, <2>2, <2>3, <2>4, <2>5, <2>6, <2>7, <2>8, <2>9, <2>10 DEF Next
<1>. QED  BY <1>1, <1>2, Invariant, PTL DEF Spec

\* What goes out as one FC03 request is a run of consecutive addresses of the
\* table, no longer than read_chunk (inverter_rtu_process_callback).
THEOREM RequestsAreSound == Spec => []RequestSound
<1>1. IInv => RequestSound  BY DEF IInv, SegmentInv, RequestSound
<1>. QED  BY <1>1, Invariant, PTL

\* device_find_slot() finds the slot of every register of a response, and the
\* right one, on every sorted table.
THEOREM SearchIsCorrect == Spec => []SearchKeepsTarget
<1>1. IInv => SearchKeepsTarget
  <2>. SUFFICES ASSUME IInv, pc \in {"lookup", "store"} PROVE SearchKeepsTarget
    BY DEF SearchKeepsTarget
  <2>1. segStart + k \in Rows /\ prof.dev[segStart + k] = Target  BY TargetRow DEF IInv
  <2>2. pc = "lookup" => segStart + k \in low .. high - 1
    BY ProfileFacts DEF IInv, Types, SearchInv
  <2>. QED  BY <2>1, <2>2 DEF IInv, SearchInv, SearchKeepsTarget
<1>. QED  BY <1>1, Invariant, PTL

\* Between responses the pool holds for every row the value last read from its
\* register, whatever reads failed (device_map_read_to_pool).
THEOREM PoolIsMirror == Spec => []PoolMirrorsDevice
<1>1. IInv => PoolMirrorsDevice  BY DEF IInv, StoredInv, PoolMirrorsDevice
<1>. QED  BY <1>1, Invariant, PTL

\* A scan ends with every row requested or at the failure threshold, and
\* requests no row twice.
THEOREM ScansCover == Spec => ScanCovers
<1>1. IInv /\ [Next]_vars =>
        [pc = "plan" /\ pc' \in {"idle", "dropped"} =>
           asked' = Rows \/ (pc' = "dropped" /\ fails' = Threshold)]_vars
  <2>. SUFFICES ASSUME IInv, Next, pc = "plan", pc' \in {"idle", "dropped"}
                PROVE  asked' = Rows \/ (pc' = "dropped" /\ fails' = Threshold)
    OBVIOUS
  <2>1. EndScan \/ ReadDrops
    BY DEF Next, StartScan, Extend, ReadFails, Reconnect, ReadOk, Search, Store
  <2>2. CASE EndScan
    <3>1. segStart = prof.count
      BY <2>2, ProfileFacts DEF EndScan, IInv, Types, SegmentInv
    <3>. QED  BY <2>2, <3>1 DEF EndScan, IInv, AskedInv, Rows
  <2>3. CASE ReadDrops
    BY <2>3, ThresholdNat DEF ReadDrops, IInv, Types
  <2>. QED  BY <2>1, <2>2, <2>3
<1>2. IInv /\ [Next]_vars => [asked' # asked /\ asked' # {} => asked \cap Segment = {}]_vars
  <2>. SUFFICES ASSUME IInv, Next, asked' # asked, asked' # {}
                PROVE  asked \cap Segment = {}
    OBVIOUS
  <2>1. ReadFails \/ ReadDrops \/ ReadOk
    BY DEF Next, StartScan, Extend, Reconnect, Search, Store, EndScan
  <2>2. asked = 0 .. segStart - 1 /\ segStart \in Int /\ segLen \in Int
    BY <2>1 DEF ReadFails, ReadDrops, ReadOk, IInv, AskedInv, Types
  <2>. QED  BY <2>2 DEF Segment
<1>. QED  BY <1>1, <1>2, Invariant, PTL DEF Spec, ScanCovers
=============================================================================
