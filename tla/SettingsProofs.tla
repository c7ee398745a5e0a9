--------------------------- MODULE SettingsProofs ---------------------------
(***************************************************************************)
(* Theorems about the settings: the journal that keeps them and the saves    *)
(* that write them.                                                         *)
(*                                                                         *)
(* SettingsJournal, for every number of indexes, page size and row length:  *)
(* the journal keeps its types, never locks itself out, reads and extends    *)
(* the slot a reboot would keep, and implements the store, provided a        *)
(* retirement does not fail once the header's epoch bit is cleared           *)
(* (~WornFaults).                                                           *)
(*                                                                         *)
(* SettingsSave, for every set of words and limits, every number of          *)
(* thresholds and every number of changes and faults.  The proofs rest on    *)
(* what a save in progress has written and has still to write (Underway),    *)
(* which in turn rests on the order of the records.                          *)
(***************************************************************************)
EXTENDS SettingsJournal, SettingsSave, Integers, SequenceTheorems, WellFoundedInduction, TLAPS

At(recs, i) == {k \in DOMAIN recs : recs[k].index = i}

\* A non-empty set of positions has a last one.
LEMMA LastExists ==
    ASSUME NEW n \in Nat, NEW K \in SUBSET (1 .. n), K # {}
    PROVE  \E k \in K : \A j \in K : j <= k
<1> DEFINE T == {n - k : k \in K}
<1>1. T \subseteq Nat /\ T # {}
  <2>1. \A k \in K : k \in 1 .. n /\ n - k \in Nat
    OBVIOUS
  <2>2. PICK k \in K : TRUE
    OBVIOUS
  <2>3. n - k \in T
    BY <2>2
  <2> QED
    BY <2>1, <2>3
<1>2. \E x \in T : \A y \in T : ~ (<<y, x>> \in OpToRel(<, Nat))
  BY <1>1, NatLessThanWellFounded, WFMin, Zenon
<1>3. PICK x \in T : \A y \in T : ~ (<<y, x>> \in OpToRel(<, Nat))
  BY <1>2
<1>4. PICK k \in K : x = n - k
  OBVIOUS
<1>5. ASSUME NEW j \in K, j > k
      PROVE  FALSE
  <2>1. n - j \in T /\ n - j \in Nat /\ x \in Nat /\ n - j < x
    BY <1>4, <1>5, <1>1
  <2>2. <<n - j, x>> \in OpToRel(<, Nat)
    BY <2>1 DEF OpToRel
  <2> QED
    BY <1>3, <2>1, <2>2
<1> QED
  BY <1>5

\* The newest record of an index is a record of the log.
LEMMA LatestType ==
    ASSUME NEW recs \in Seq(Record), NEW i \in Index
    PROVE  Latest(recs, i) \in Values \cup {NoValue}
<1>1. CASE At(recs, i) = {}
  BY <1>1 DEF Latest, At
<1>2. CASE At(recs, i) # {}
  <2>1. At(recs, i) \in SUBSET (1 .. Len(recs)) /\ Len(recs) \in Nat
    BY DEF At
  <2>2. \E k \in At(recs, i) : \A j \in At(recs, i) : j <= k
    BY <2>1, <1>2, LastExists
  <2>3. PICK k \in At(recs, i) : Latest(recs, i) = recs[k].value
    BY <2>2, <1>2 DEF Latest, At
  <2>4. recs[k] \in Record
    BY <2>1, <2>3, ElementOfSeq
  <2> QED
    BY <2>3, <2>4 DEF Record
<1> QED
  BY <1>1, <1>2

LEMMA LatestEmpty ==
    ASSUME NEW i \in Index
    PROVE  Latest(<< >>, i) = NoValue
BY DEF Latest

\* A record programmed behind the others becomes the newest of its index and of no other.
LEMMA LatestAppend ==
    ASSUME NEW recs \in Seq(Record), NEW r \in Record, NEW i \in Index
    PROVE  Latest(Append(recs, r), i) = IF r.index = i THEN r.value ELSE Latest(recs, i)
<1> DEFINE more == Append(recs, r)
           n == Len(recs)
<1>1. /\ more \in Seq(Record) /\ Len(more) = n + 1 /\ more[n + 1] = r
      /\ \A k \in 1 .. n : more[k] = recs[k]
      /\ n \in Nat /\ DOMAIN recs = 1 .. n /\ DOMAIN more = 1 .. n + 1
  BY AppendProperties, LenProperties
<1> HIDE DEF more, n
<1>2. CASE r.index = i
  <2>1. n + 1 \in At(more, i) /\ \A j \in At(more, i) : j <= n + 1 /\ j \in Nat
    BY <1>1, <1>2 DEF At
  <2>2. \A k \in At(more, i) : (\A j \in At(more, i) : j <= k) => k = n + 1
    BY <2>1, <1>1
  <2>3. Latest(more, i) = more[n + 1].value
    <3>1. (CHOOSE k \in At(more, i) : \A j \in At(more, i) : j <= k) = n + 1
      BY <2>1, <2>2
    <3> QED
      BY <3>1, <2>1, Zenon DEF Latest, At
  <2> QED
    BY <2>3, <1>1, <1>2 DEF more
<1>3. CASE r.index # i
  <2>1. At(more, i) = At(recs, i)
    BY <1>1, <1>3 DEF At
  <2>2. At(recs, i) = {} => Latest(more, i) = Latest(recs, i)
    BY <2>1, Zenon DEF Latest, At
  <2>3. ASSUME At(recs, i) # {}
        PROVE  Latest(more, i) = Latest(recs, i)
    <3> DEFINE k == CHOOSE k \in At(recs, i) : \A j \in At(recs, i) : j <= k
    <3>1. k \in At(recs, i)
      <4>1. At(recs, i) \in SUBSET (1 .. n)
        BY <1>1 DEF At
      <4> QED
        BY <4>1, <1>1, <2>3, LastExists
    <3>2. Latest(more, i) = more[k].value /\ Latest(recs, i) = recs[k].value
      BY <2>1, <2>3, Zenon DEF Latest, At
    <3>3. more[k] = recs[k]
      BY <3>1, <1>1 DEF At
    <3> QED
      BY <3>2, <3>3
  <2> QED
    BY <2>2, <2>3, <1>3 DEF more
<1> QED
  BY <1>2, <1>3

----------------------------------------------------------------------------
(* The inductive invariant *)

\* A header instruction is erased or was programmed with a committed header.
HeadersErasedOrCommitted ==
    \A s \in Slot : ~flash[s].header.active => flash[s].header = ErasedPage.header

\* Without power, at most two neighbours are committed; a failed creation leaves none.
OfflineShape ==
    /\ pc = "off" => \E s \in Slot : ~flash[After(After(s))].header.active
    /\ pc = "create" => flash[0].recs = << >> /\ \A s \in Slot : ~flash[s].header.active

\* The slot in RAM is committed; its successor may be, after a failed retirement, but then
\* rotation still finds it eligible.
SessionShape ==
    pc \notin {"off", "create"} =>
        /\ flash[active].header.active
        /\ ~flash[After(After(active))].header.active
        /\ pc # "retire" /\ flash[After(active)].header.active
             => flash[After(active)].header.epoch

\* The target of a compaction is the successor; it holds the newest value of every index
\* copied so far, and is committed last.
CopyShape ==
    /\ pc \in {"copy", "commit", "retire"} => target = After(active)
    /\ pc \in {"copy", "commit"} => ~flash[target].header.active
    /\ pc = "copy" =>
          /\ Len(flash[target].recs) + Len(row) <= next
          /\ \A i \in Index : Latest(flash[target].recs \o row, i) =
                                IF i < next THEN Latest(flash[active].recs, i) ELSE NoValue
    /\ pc \in {"commit", "retire"} =>
          /\ Len(flash[target].recs) <= IndexCount
          /\ \A i \in Index : Latest(flash[target].recs, i) = Latest(flash[active].recs, i)
    /\ pc = "retire" => flash[target].header = TargetHeader(flash[active].header, target)

\* Which call is running, and what it has already stored.
CallShape ==
    /\ resume = "none" <=> pc \notin {"erase", "copy", "commit", "retire"}
    /\ call = NoCall <=> pc \in {"off", "create", "idle"} \/ resume = "boot"
    /\ pc \in {"off", "create"} \/ resume = "boot" => reply = "none"
    /\ pc = "append" => Len(flash[active].recs) < PageRecords
    /\ pc = "finish" \/ resume = "trim"
         => Latest(flash[active].recs, call.index) = call.value

JournalInv == /\ TypeOK /\ HeadersErasedOrCommitted /\ OfflineShape /\ SessionShape
              /\ CopyShape /\ CallShape

LEMMA SlotFacts ==
    ASSUME NEW s \in Slot
    PROVE  /\ After(s) \in Slot /\ After(After(s)) \in Slot
           /\ After(s) # s /\ After(After(s)) # s /\ After(After(s)) # After(s)
           /\ After(After(After(s))) = s
           /\ \A t \in Slot : t = s \/ t = After(s) \/ t = After(After(s))
BY DEF Slot, After

\* While the epoch bit of the successor is set, compaction rotates to the successor.
LEMMA TargetIsSuccessor ==
    ASSUME active \in Slot, flash[After(active)].header.epoch
    PROVE  TargetSlot(active) = After(active)
<1> DEFINE eligible(d) == flash[(active + d) % 3].header.epoch
           first(d) == eligible(d) /\ \A e \in 1 .. d - 1 : ~eligible(e)
<1>1. eligible(1) /\ first(1)
  BY DEF After
<1>2. \A d \in 1 .. 3 : first(d) => d = 1
  <2>1. ASSUME NEW d \in 1 .. 3, d # 1
        PROVE  1 \in 1 .. d - 1
    BY <2>1
  <2> QED
    BY <1>1, <2>1
<1>3. (CHOOSE d \in 1 .. 3 : first(d)) = 1
  <2>1. 1 \in 1 .. 3
    OBVIOUS
  <2> HIDE DEF first
  <2> QED
    BY <1>1, <1>2, <2>1
<1>4. EligibleSlot
  BY SlotFacts DEF EligibleSlot
<1> QED
  BY <1>3, <1>4, Zenon DEF TargetSlot, After

LEMMA TargetHeaderType ==
    ASSUME NEW h \in Header, NEW t \in Slot
    PROVE  /\ TargetHeader(h, t) \in Header
           /\ TargetHeader(h, t).active = h.active
<1> DEFINE count == IF t = 0 /\ h.count <= EpochLimit THEN h.count + 1 ELSE h.count
           epoch == h.epoch /\ count <= EpochLimit
<1>1. count \in 0 .. EpochLimit + 1 /\ epoch \in BOOLEAN
  BY DEF Header, EpochLimit
<1>2. TargetHeader(h, t) = [h EXCEPT !.count = count, !.epoch = epoch]
  BY DEF TargetHeader
<1> HIDE DEF count, epoch
<1>3. TargetHeader(h, t) = [active |-> h.active, epoch |-> epoch, count |-> count]
  BY <1>2 DEF Header
<1> QED
  BY <1>1, <1>3 DEF Header

LEMMA ErasedPageType ==
    /\ ErasedPage \in Page
    /\ ErasedPage.header \in Header /\ ErasedPage.recs = << >> /\ Len(ErasedPage.recs) = 0
    /\ ~ErasedPage.header.active /\ ErasedPage.header.epoch
BY DEF ErasedPage, Page, Header, EpochLimit

LEMMA InitInv == Init => JournalInv
BY JournalAssumption, ErasedPageType
   DEF Init, JournalInv, TypeOK, HeadersErasedOrCommitted, OfflineShape, SessionShape, CopyShape,
       CallShape, Slot, Index, After

(* How one flash operation changes the pages. *)

Becomes(s, h, r) == /\ flash' \in [Slot -> Page]
                    /\ flash'[s].header = h /\ flash'[s].recs = r
                    /\ \A t \in Slot \ {s} : flash'[t] = flash[t]

LEMMA EraseStep ==
    ASSUME flash \in [Slot -> Page], NEW s \in Slot, flash' = [flash EXCEPT ![s] = ErasedPage]
    PROVE  Becomes(s, ErasedPage.header, << >>)
BY ErasedPageType DEF Becomes, Page

LEMMA HeaderStep ==
    ASSUME flash \in [Slot -> Page], NEW s \in Slot, NEW h \in Header,
           flash' = [flash EXCEPT ![s].header = h]
    PROVE  Becomes(s, h, flash[s].recs)
BY DEF Becomes, Page

LEMMA RecordsStep ==
    ASSUME flash \in [Slot -> Page], NEW s \in Slot, NEW r \in Seq(Record),
           flash' = [flash EXCEPT ![s].recs = r]
    PROVE  Becomes(s, flash[s].header, r)
BY DEF Becomes, Page

LEMMA PagesStayTyped ==
    ASSUME NEW s \in Slot, NEW h, NEW r, Becomes(s, h, r), Len(r) <= PageRecords,
           \A t \in Slot : Len(flash[t].recs) <= PageRecords
    PROVE  flash' \in [Slot -> Page] /\ \A t \in Slot : Len(flash'[t].recs) <= PageRecords
BY DEF Becomes

LEMMA HeadersUnchanged ==
    ASSUME NEW s \in Slot, NEW r, Becomes(s, flash[s].header, r)
    PROVE  \A t \in Slot : flash'[t].header = flash[t].header
BY DEF Becomes

LEMMA InitialHeaderType == InitialHeader \in Header /\ InitialHeader.active /\ InitialHeader.epoch
BY DEF InitialHeader, Header, EpochLimit

LEMMA StepInv ==
    ASSUME ~WornFaults, JournalInv, [Next]_vars
    PROVE  JournalInv'
<1> USE JournalAssumption
<1>t. /\ flash \in [Slot -> Page]
      /\ \A s \in Slot : /\ flash[s].header \in Header /\ flash[s].recs \in Seq(Record)
                         /\ Len(flash[s].recs) \in Nat /\ Len(flash[s].recs) <= PageRecords
      /\ active \in Slot /\ target \in Slot /\ row \in Seq(Record) /\ Len(row) \in Nat
  BY LenProperties DEF JournalInv, TypeOK, Page
<1>1. CASE BootCreate
  <2>1. 0 \in Slot /\ Becomes(0, ErasedPage.header, << >>)
    BY <1>1, <1>t, EraseStep DEF BootCreate, Slot
  <2> QED
    BY <1>1, <1>t, <2>1, SlotFacts, ErasedPageType
       DEF BootCreate, copying, ActiveSlots, Becomes, JournalInv, TypeOK, HeadersErasedOrCommitted, OfflineShape,
           SessionShape, CopyShape, CallShape
<1>2. CASE Create
  <2>1. 0 \in Slot /\ Becomes(0, InitialHeader, flash[0].recs)
    <3>1. 0 \in Slot
      BY DEF Slot
    <3> QED
      BY <1>2, <1>t, <3>1, HeaderStep, InitialHeaderType DEF Create
  <2>2. TypeOK'
    BY <1>2, <1>t, <2>1, PagesStayTyped DEF Create, copying, JournalInv, TypeOK
  <2>3. HeadersErasedOrCommitted' /\ OfflineShape' /\ SessionShape'
    BY <1>2, <1>t, <2>1, SlotFacts, InitialHeaderType
       DEF Create, copying, Becomes, JournalInv, TypeOK, HeadersErasedOrCommitted, OfflineShape,
           SessionShape, CopyShape, CallShape
  <2>4. CopyShape'
    BY <1>2, <1>t, <2>1, SlotFacts, InitialHeaderType
       DEF Create, copying, Becomes, JournalInv, TypeOK, HeadersErasedOrCommitted, OfflineShape,
           SessionShape, CopyShape, CallShape
  <2>5. CallShape'
    BY <1>2, <1>t, <2>1, SlotFacts, InitialHeaderType
       DEF Create, copying, Becomes, JournalInv, TypeOK, HeadersErasedOrCommitted, OfflineShape,
           SessionShape, CopyShape, CallShape
  <2> QED
    BY <2>2, <2>3, <2>4, <2>5 DEF JournalInv
<1>3. CASE BootSingle
  BY <1>3, <1>t, SlotFacts DEF BootSingle, copying, ActiveSlots, JournalInv, TypeOK, HeadersErasedOrCommitted, OfflineShape,
           SessionShape, CopyShape, CallShape
<1>4. CASE BootRecover
  <2>1. PICK s \in Slot : /\ ActiveSlots = {s, After(s)}
                          /\ flash' = [flash EXCEPT ![After(s)] = ErasedPage]
                          /\ active' = s
                          /\ IF Full(flash[s].recs) THEN StartCompaction("boot")
                             ELSE pc' = "idle" /\ UNCHANGED resume
    BY <1>4 DEF BootRecover
  <2>2. Becomes(After(s), ErasedPage.header, << >>)
    BY <2>1, <1>t, EraseStep, SlotFacts
  <2>3. /\ flash[s].header.active /\ ~flash[After(After(s))].header.active
        /\ s # After(s) /\ After(After(s)) # After(s)
    BY <2>1, SlotFacts DEF ActiveSlots
  <2> QED
    BY <1>4, <1>t, <2>1, <2>2, <2>3, SlotFacts, ErasedPageType
       DEF BootRecover, StartCompaction, copying, Becomes, JournalInv, TypeOK, HeadersErasedOrCommitted, OfflineShape,
           SessionShape, CopyShape, CallShape
<1>5. CASE \E i \in Index, v \in Values : Write(i, v)
  <2>1. PICK i \in Index, v \in Values : Write(i, v)
    BY <1>5
  <2>2. call' \in Record /\ call' # NoCall
    BY <2>1 DEF Write, Record, NoCall
  <2> QED
    BY <1>t, <2>1, <2>2 DEF Write, copying, JournalInv, TypeOK, HeadersErasedOrCommitted, OfflineShape,
           SessionShape, CopyShape, CallShape
<1>6. CASE CheckEqual
  BY <1>6 DEF CheckEqual, Return, copying, JournalInv, TypeOK, HeadersErasedOrCommitted, OfflineShape,
           SessionShape, CopyShape, CallShape
<1>7. CASE CheckFree
  BY <1>7, <1>t DEF CheckFree, StartCompaction, Full, copying, JournalInv, TypeOK, HeadersErasedOrCommitted, OfflineShape,
           SessionShape, CopyShape, CallShape
<1>8. CASE AppendRecord
  <2>1. call \in Record
    BY <1>8 DEF AppendRecord, JournalInv, TypeOK, CallShape
  <2>2. Becomes(active, flash[active].header, Append(flash[active].recs, call))
    BY <1>8, <1>t, <2>1, RecordsStep, AppendProperties DEF AppendRecord, Append1
  <2>3. Len(Append(flash[active].recs, call)) = Len(flash[active].recs) + 1
    BY <1>t, <2>1, AppendProperties
  <2>4. Latest(Append(flash[active].recs, call), call.index) = call.value
    BY <1>t, <2>1, LatestAppend DEF Record
  <2>5. TypeOK'
    BY <1>8, <1>t, <2>1, <2>2, <2>3, <2>4, SlotFacts
       DEF AppendRecord, copying, Becomes, JournalInv, TypeOK, HeadersErasedOrCommitted, OfflineShape,
           SessionShape, CopyShape, CallShape
  <2>6. HeadersErasedOrCommitted' /\ OfflineShape' /\ SessionShape'
    <3>1. \A t \in Slot : flash'[t].header = flash[t].header
      BY <1>t, <2>2, HeadersUnchanged
    <3> QED
      BY <1>8, <1>t, <3>1, SlotFacts
         DEF AppendRecord, JournalInv, HeadersErasedOrCommitted, OfflineShape, SessionShape
  <2>7. CopyShape'
    BY <1>8, <1>t, <2>1, <2>2, <2>3, <2>4, SlotFacts
       DEF AppendRecord, copying, Becomes, JournalInv, TypeOK, HeadersErasedOrCommitted, OfflineShape,
           SessionShape, CopyShape, CallShape
  <2>8. CallShape'
    BY <1>8, <1>t, <2>1, <2>2, <2>3, <2>4, SlotFacts
       DEF AppendRecord, copying, Becomes, JournalInv, TypeOK, HeadersErasedOrCommitted, OfflineShape,
           SessionShape, CopyShape, CallShape
  <2> QED
    BY <2>5, <2>6, <2>7, <2>8 DEF JournalInv
<1>9. CASE AppendFails
  <2>1. call \in Record
    BY <1>9 DEF AppendFails, JournalInv, TypeOK, CallShape
  <2>2. CASE UNCHANGED flash
    BY <1>9, <2>2 DEF AppendFails, Return, copying, JournalInv, TypeOK, HeadersErasedOrCommitted, OfflineShape,
           SessionShape, CopyShape, CallShape
  <2>3. ASSUME NEW w \in Values, Append1(active, [index |-> call.index, value |-> w])
        PROVE  JournalInv'
    <3> DEFINE r == [index |-> call.index, value |-> w]
    <3>1. r \in Record
      BY <2>1 DEF Record
    <3> HIDE DEF r
    <3>2. Becomes(active, flash[active].header, Append(flash[active].recs, r))
      BY <1>t, <2>3, <3>1, RecordsStep, AppendProperties DEF Append1, r
    <3>3. Len(Append(flash[active].recs, r)) = Len(flash[active].recs) + 1
      BY <1>t, <3>1, AppendProperties
    <3>4. TypeOK'
      BY <1>9, <1>t, <3>2, <3>3, SlotFacts
         DEF AppendFails, Return, copying, Becomes, JournalInv, TypeOK, HeadersErasedOrCommitted, OfflineShape,
             SessionShape, CopyShape, CallShape
    <3>5. \A t \in Slot : flash'[t].header = flash[t].header
      BY <3>2 DEF Becomes
    <3>6. HeadersErasedOrCommitted' /\ OfflineShape' /\ SessionShape'
      BY <1>9, <1>t, <3>5, SlotFacts
         DEF AppendFails, Return, JournalInv, HeadersErasedOrCommitted, OfflineShape, SessionShape,
             CallShape
    <3>7. CopyShape'
      BY <1>9, <1>t, <3>2, <3>3, SlotFacts
         DEF AppendFails, Return, copying, Becomes, JournalInv, TypeOK, HeadersErasedOrCommitted, OfflineShape,
             SessionShape, CopyShape, CallShape
    <3>8. CallShape'
      BY <1>9, <1>t, <3>2, <3>3, SlotFacts
         DEF AppendFails, Return, copying, Becomes, JournalInv, TypeOK, HeadersErasedOrCommitted, OfflineShape,
             SessionShape, CopyShape, CallShape
    <3> QED
      BY <3>4, <3>6, <3>7, <3>8 DEF JournalInv
  <2> QED
    BY <1>9, <2>2, <2>3 DEF AppendFails
<1>10. CASE Finish
  BY <1>10 DEF Finish, StartCompaction, Return, copying, JournalInv, TypeOK, HeadersErasedOrCommitted, OfflineShape,
           SessionShape, CopyShape, CallShape
<1>11. CASE EraseTarget
  <2>1. target' = After(active) /\ After(active) \in Slot
    <3>1. flash[After(active)].header.epoch /\ active \in Slot
      BY <1>11, <1>t, SlotFacts, ErasedPageType
         DEF EraseTarget, JournalInv, SessionShape, HeadersErasedOrCommitted
    <3> QED
      BY <1>11, <3>1, TargetIsSuccessor, SlotFacts DEF EraseTarget
  <2>2. Becomes(After(active), ErasedPage.header, << >>)
    BY <1>11, <1>t, <2>1, EraseStep DEF EraseTarget
  <2>3. row' = << >> /\ << >> \o << >> = << >> /\ Len(<< >>) = 0
    BY <1>11 DEF EraseTarget
  <2>4. \A i \in Index : Latest(<< >>, i) = NoValue /\ ~(i < 0)
    BY LatestEmpty DEF Index
  <2>5. TypeOK'
    BY <1>11, <1>t, <2>1, <2>2, <2>3, <2>4, SlotFacts, ErasedPageType
       DEF EraseTarget, Becomes, JournalInv, TypeOK, HeadersErasedOrCommitted, OfflineShape,
           SessionShape, CopyShape, CallShape
  <2>6. HeadersErasedOrCommitted' /\ OfflineShape' /\ SessionShape'
    BY <1>11, <1>t, <2>1, <2>2, <2>3, <2>4, SlotFacts, ErasedPageType
       DEF EraseTarget, Becomes, JournalInv, TypeOK, HeadersErasedOrCommitted, OfflineShape,
           SessionShape, CopyShape, CallShape
  <2>7. CopyShape'
    BY <1>11, <1>t, <2>1, <2>2, <2>3, <2>4, SlotFacts, ErasedPageType
       DEF EraseTarget, Becomes, JournalInv, TypeOK, HeadersErasedOrCommitted, OfflineShape,
           SessionShape, CopyShape, CallShape
  <2>8. CallShape'
    BY <1>11, <1>t, <2>1, <2>2, <2>3, <2>4, SlotFacts, ErasedPageType
       DEF EraseTarget, Becomes, JournalInv, TypeOK, HeadersErasedOrCommitted, OfflineShape,
           SessionShape, CopyShape, CallShape
  <2> QED
    BY <2>5, <2>6, <2>7, <2>8 DEF JournalInv
<1>12. CASE CopyIndex
  <2> DEFINE v == Latest(flash[active].recs, next)
             r == [index |-> next, value |-> v]
             recs == flash[target].recs
             filled == IF v = NoValue THEN row ELSE Append(row, r)
  <2>1. /\ pc = "copy" /\ next < IndexCount /\ next' = next + 1 /\ next \in Index
        /\ UNCHANGED <<active, pc, call, reply, resume, target>>
        /\ \/ v # NoValue /\ ProgramRow(filled) /\ row' = << >>
           \/ row' = filled /\ UNCHANGED flash
    <3>1. pc = "copy" /\ next < IndexCount /\ next' = next + 1
          /\ UNCHANGED <<active, pc, call, reply, resume, target>>
      BY <1>12 DEF CopyIndex
    <3>2. next \in Index
      BY <3>1 DEF JournalInv, TypeOK, Index
    <3>3. \/ v # NoValue /\ ProgramRow(filled) /\ row' = << >>
          \/ row' = filled /\ UNCHANGED flash
      BY <1>12, Zenon DEF CopyIndex
    <3> QED
      BY <3>1, <3>2, <3>3
  <2>2. v \in Values \cup {NoValue} /\ (v # NoValue => r \in Record)
    <3>1. flash[active].recs \in Seq(Record) /\ next \in Index
      BY <2>1, <1>t
    <3>2. v \in Values \cup {NoValue}
      BY <3>1, LatestType
    <3> HIDE DEF v
    <3> QED
      BY <3>1, <3>2 DEF Record
  <2> HIDE DEF v, r
  <2>3. /\ filled \in Seq(Record) /\ Len(filled) \in Nat
        /\ Len(filled) = IF v = NoValue THEN Len(row) ELSE Len(row) + 1
    BY <1>t, <2>2, AppendProperties
  <2>4. /\ recs \in Seq(Record) /\ recs \o row \in Seq(Record)
        /\ recs \o filled \in Seq(Record) /\ Len(recs \o filled) = Len(recs) + Len(filled)
        /\ recs \o filled = IF v = NoValue THEN recs \o row ELSE Append(recs \o row, r)
    <3>1. recs \in Seq(Record) /\ recs \o row \in Seq(Record)
      BY <1>t, ConcatProperties
    <3>2. recs \o filled \in Seq(Record) /\ Len(recs \o filled) = Len(recs) + Len(filled)
      BY <3>1, <2>3, ConcatProperties
    <3>3. ASSUME v # NoValue
          PROVE  recs \o Append(row, r) = Append(recs \o row, r)
      <4>1. r \in Record /\ <<r>> \in Seq(Record)
        BY <2>2, <3>3
      <4> HIDE DEF recs
      <4>2. recs \o Append(row, r) = recs \o (row \o <<r>>)
        BY <4>1, <1>t, AppendIsConcat
      <4>3. Append(recs \o row, r) = (recs \o row) \o <<r>>
        BY <4>1, <3>1, AppendIsConcat
      <4> QED
        BY <4>1, <4>2, <4>3, <3>1, <1>t, ConcatAssociative
    <3> QED
      BY <3>1, <3>2, <3>3
  <2>5. \A i \in Index : Latest(recs \o filled, i) =
                            IF i < next + 1 THEN Latest(flash[active].recs, i) ELSE NoValue
    <3> SUFFICES ASSUME NEW i \in Index
                 PROVE  Latest(recs \o filled, i) =
                            IF i < next + 1 THEN Latest(flash[active].recs, i) ELSE NoValue
      OBVIOUS
    <3>1. Latest(recs \o row, i) = IF i < next THEN Latest(flash[active].recs, i) ELSE NoValue
      BY <2>1 DEF JournalInv, CopyShape
    <3>2. i \in Nat /\ next \in Nat /\ (i < next + 1 <=> i < next \/ i = next)
      BY <2>1 DEF Index
    <3>3. v = Latest(flash[active].recs, next) /\ r.index = next /\ r.value = v
      BY DEF v, r
    <3>4. CASE v = NoValue
      BY <3>1, <3>2, <3>3, <3>4, <2>4
    <3>5. CASE v # NoValue
      <4>1. Latest(Append(recs \o row, r), i) =
              IF r.index = i THEN r.value ELSE Latest(recs \o row, i)
        BY <3>5, <2>2, <2>4, LatestAppend
      <4> QED
        BY <4>1, <3>1, <3>2, <3>3, <3>5, <2>4
    <3> QED
      BY <3>4, <3>5
  <2>6. Len(recs) + Len(filled) <= next + 1 /\ target # active /\ recs = flash[target].recs
    <3>1. Len(recs) + Len(row) <= next /\ target # active /\ Len(recs) \in Nat /\ next \in Nat
      BY <2>1, <1>t, SlotFacts DEF JournalInv, CopyShape, Index
    <3> HIDE DEF filled, recs
    <3>2. Len(recs) + Len(filled) <= next + 1
      BY <3>1, <2>3, <1>t
    <3> QED
      BY <3>1, <3>2 DEF recs
  <2> HIDE DEF filled, recs
  <2>7. CASE ProgramRow(filled) /\ row' = << >>
    <3>1. Becomes(target, flash[target].header, recs \o filled)
      BY <2>7, <2>4, <2>6, <1>t, RecordsStep DEF ProgramRow
    <3>2. flash'[target].recs \o row' = recs \o filled /\ Len(row') = 0 /\ row' \in Seq(Record)
      BY <2>7, <3>1, <2>4, ConcatEmptySeq DEF Becomes
    <3>3. Len(recs \o filled) <= next + 1 /\ Len(recs \o filled) <= PageRecords
          /\ Len(recs \o filled) \in Nat
      <4>1. Len(recs \o filled) \in Nat /\ Len(recs \o filled) <= next + 1
        BY <2>4, <2>6, LenProperties
      <4>2. next + 1 <= IndexCount /\ next \in Nat
        BY <2>1 DEF Index
      <4> QED
        BY <4>1, <4>2
    <3>4. TypeOK'
      <4>1. flash' \in [Slot -> Page] /\ \A t \in Slot : Len(flash'[t].recs) <= PageRecords
        BY <3>1, <3>3, <1>t, PagesStayTyped
      <4>2. next' \in 0 .. IndexCount
        BY <2>1 DEF Index
      <4> QED
        BY <2>1, <3>2, <4>1, <4>2 DEF JournalInv, TypeOK
    <3>5. HeadersErasedOrCommitted' /\ OfflineShape' /\ SessionShape'
      <4>1. \A t \in Slot : flash'[t].header = flash[t].header
        BY <1>t, <3>1, HeadersUnchanged
      <4> QED
        BY <2>1, <4>1, <1>t, SlotFacts
           DEF JournalInv, HeadersErasedOrCommitted, OfflineShape, SessionShape
    <3>6. CopyShape' /\ CallShape'
      <4>1. flash'[active] = flash[active] /\ flash'[target].recs = recs \o filled
            /\ flash'[target].header = flash[target].header
        BY <2>6, <3>1, <1>t DEF Becomes
      <4> QED
        BY <2>1, <2>5, <3>2, <3>3, <4>1 DEF JournalInv, CopyShape, CallShape
    <3> QED
      BY <3>4, <3>5, <3>6 DEF JournalInv
  <2>8. CASE row' = filled /\ UNCHANGED flash
    BY <2>1, <2>3, <2>5, <2>6, <2>8, <1>t
       DEF JournalInv, TypeOK, HeadersErasedOrCommitted, OfflineShape,
           SessionShape, CopyShape, CallShape
  <2> QED
    BY <2>1, <2>7, <2>8
<1>13. CASE CopyRest
  <2>1. flash[target].recs \o row \in Seq(Record)
        /\ Len(flash[target].recs \o row) = Len(flash[target].recs) + Len(row)
    BY <1>t, ConcatProperties
  <2>2. Becomes(target, flash[target].header, flash[target].recs \o row)
    BY <1>13, <1>t, <2>1, RecordsStep DEF CopyRest, ProgramRow
  <2>3. target # active /\ \A i \in Index : i < IndexCount
    BY <1>13, <1>t, SlotFacts DEF CopyRest, JournalInv, CopyShape, Index
  <2>4. TypeOK'
    BY <1>13, <1>t, <2>1, <2>2, <2>3, SlotFacts
       DEF CopyRest, Becomes, JournalInv, TypeOK, HeadersErasedOrCommitted, OfflineShape,
           SessionShape, CopyShape, CallShape
  <2>5. HeadersErasedOrCommitted' /\ OfflineShape' /\ SessionShape'
    <3>1. \A t \in Slot : flash'[t].header = flash[t].header
      BY <1>t, <2>1, <2>2, HeadersUnchanged
    <3>2. pc' = "commit" /\ active' = active /\ pc = "copy"
      BY <1>13 DEF CopyRest
    <3> QED
      BY <1>t, <3>1, <3>2, SlotFacts
         DEF JournalInv, HeadersErasedOrCommitted, OfflineShape, SessionShape
  <2>6. CopyShape'
    BY <1>13, <1>t, <2>1, <2>2, <2>3, SlotFacts
       DEF CopyRest, Becomes, JournalInv, TypeOK, HeadersErasedOrCommitted, OfflineShape,
           SessionShape, CopyShape, CallShape
  <2>7. CallShape'
    BY <1>13, <1>t, <2>1, <2>2, <2>3, SlotFacts
       DEF CopyRest, Becomes, JournalInv, TypeOK, HeadersErasedOrCommitted, OfflineShape,
           SessionShape, CopyShape, CallShape
  <2> QED
    BY <2>4, <2>5, <2>6, <2>7 DEF JournalInv
<1>14. CASE Commit
  <2> DEFINE h == TargetHeader(flash[active].header, target)
  <2>1. h \in Header /\ h.active
    BY <1>14, <1>t, TargetHeaderType DEF Commit, JournalInv, SessionShape
  <2> HIDE DEF h
  <2>2. Becomes(target, h, flash[target].recs)
    BY <1>14, <1>t, <2>1, HeaderStep DEF Commit, ProgramHeader, h
  <2>3. target # active /\ h = TargetHeader(flash[active].header, target)
    BY <1>14, <1>t, SlotFacts DEF Commit, JournalInv, CopyShape, h
  <2>4. TypeOK'
    BY <1>14, <1>t, <2>1, <2>2, <2>3, SlotFacts
       DEF Commit, copying, Becomes, JournalInv, TypeOK, HeadersErasedOrCommitted, OfflineShape,
           SessionShape, CopyShape, CallShape
  <2>5. HeadersErasedOrCommitted' /\ OfflineShape' /\ SessionShape'
    <3>1. /\ \A t \in Slot \ {target} : flash'[t].header = flash[t].header
          /\ flash'[target].header.active
      BY <2>1, <2>2 DEF Becomes
    <3>2. pc' = "retire" /\ active' = active /\ pc = "commit" /\ target = After(active)
      BY <1>14 DEF Commit, copying, JournalInv, CopyShape
    <3>3. HeadersErasedOrCommitted'
      <4> SUFFICES ASSUME NEW t \in Slot, ~flash'[t].header.active
                   PROVE  flash'[t].header = ErasedPage.header
        BY DEF HeadersErasedOrCommitted
      <4>1. t # target
        BY <3>1
      <4> QED
        BY <4>1, <3>1 DEF JournalInv, HeadersErasedOrCommitted
    <3>4. OfflineShape'
      BY <3>2 DEF OfflineShape
    <3>5. SessionShape'
      <4>1. /\ After(After(active)) \in Slot \ {target} /\ active \in Slot \ {target}
            /\ flash[active].header.active /\ ~flash[After(After(active))].header.active
        BY <1>t, <3>2, SlotFacts DEF JournalInv, SessionShape
      <4> QED
        BY <4>1, <3>1, <3>2 DEF SessionShape
    <3> QED
      BY <3>3, <3>4, <3>5
  <2>6. CopyShape'
    BY <1>14, <1>t, <2>1, <2>2, <2>3, SlotFacts
       DEF Commit, copying, Becomes, JournalInv, TypeOK, HeadersErasedOrCommitted, OfflineShape,
           SessionShape, CopyShape, CallShape
  <2>7. CallShape'
    BY <1>14, <1>t, <2>1, <2>2, <2>3, SlotFacts
       DEF Commit, copying, Becomes, JournalInv, TypeOK, HeadersErasedOrCommitted, OfflineShape,
           SessionShape, CopyShape, CallShape
  <2> QED
    BY <2>4, <2>5, <2>6, <2>7 DEF JournalInv
<1>15. CASE Retire
  <2>1. /\ pc = "retire" /\ target = After(active) /\ target # active /\ active' = target
        /\ flash[target].header.active /\ ~flash[After(target)].header.active
        /\ After(After(target)) = active /\ After(target) # active /\ After(target) \in Slot
        /\ Len(flash[target].recs) < PageRecords
    <3>1. pc = "retire" /\ active' = target /\ target = After(active)
      BY <1>15 DEF Retire, Retired, JournalInv, CopyShape
    <3>2. target # active /\ After(target) # active /\ After(target) \in Slot
          /\ After(After(target)) = active
      BY <1>t, <3>1, SlotFacts DEF After, Slot
    <3>3. flash[active].header.active /\ ~flash[After(target)].header.active
      BY <3>1 DEF JournalInv, SessionShape
    <3>4. flash[target].header = TargetHeader(flash[active].header, target)
          /\ Len(flash[target].recs) <= IndexCount
      BY <3>1 DEF JournalInv, CopyShape
    <3>5. flash[target].header.active
      BY <1>t, <3>3, <3>4, TargetHeaderType
    <3> QED
      BY <1>t, <3>1, <3>2, <3>3, <3>4, <3>5
  <2>2. Becomes(active, ErasedPage.header, << >>)
    BY <1>15, <1>t, EraseStep DEF Retire, Retired
  <2>3. TypeOK'
    <3>1. flash' \in [Slot -> Page] /\ \A t \in Slot : Len(flash'[t].recs) <= PageRecords
      BY <1>t, <2>2, ErasedPageType, PagesStayTyped
    <3>2. active' \in Slot /\ target' \in Slot /\ next' \in 0 .. IndexCount /\ row' \in Seq(Record)
      BY <1>15, <1>t, <2>1 DEF Retire, Retired, ForgetCopy, Slot
    <3> QED
      BY <1>15, <3>1, <3>2 DEF Retire, Retired, Return, JournalInv, TypeOK, CallShape
  <2>4. HeadersErasedOrCommitted'
    BY <2>2, ErasedPageType DEF Becomes, JournalInv, HeadersErasedOrCommitted
  <2>5. OfflineShape' /\ SessionShape' /\ CopyShape' /\ CallShape'
    <3>1. /\ flash'[target] = flash[target] /\ ~flash'[After(target)].header.active
          /\ ~flash'[After(After(target))].header.active
      BY <2>1, <2>2, <1>t, ErasedPageType DEF Becomes
    <3>2. pc' \in {"idle", "append"} /\ resume \in {"boot", "write", "trim"}
      BY <1>15 DEF Retire, Retired, Return, JournalInv, TypeOK, CallShape
    <3>3. OfflineShape' /\ SessionShape' /\ CopyShape'
      BY <2>1, <3>1, <3>2 DEF JournalInv, OfflineShape, SessionShape, CopyShape
    <3>4. /\ call # NoCall <=> resume # "boot"
          /\ resume = "boot" => reply = "none"
          /\ resume = "trim" => Latest(flash[active].recs, call.index) = call.value
      BY <2>1, <3>2 DEF JournalInv, CallShape
    <3>5. CallShape'
      <4>5. CASE resume = "boot"
        <5>1. pc' = "idle" /\ resume' = "none" /\ call' = call /\ reply' = reply
          BY <1>15, <4>5 DEF Retire, Retired
        <5> QED
          BY <3>4, <4>5, <5>1 DEF CallShape
      <4>6. CASE resume = "trim"
        <5>1. pc' = "idle" /\ resume' = "none" /\ call' = NoCall
          BY <1>15, <4>6 DEF Retire, Retired, Return
        <5> QED
          BY <5>1 DEF CallShape
      <4>7. CASE resume = "write"
        <5>1. resume' = "none" /\ Len(flash[target].recs) # PageRecords
          BY <1>15, <1>t, <2>1, <4>7 DEF Retire, Retired, Return
        <5>2. pc' = "append" /\ call' = call
          BY <1>15, <2>1, <4>7, <5>1 DEF Retire, Retired, Full
        <5>3. Len(flash'[active'].recs) < PageRecords
          BY <2>1, <3>1
        <5> QED
          BY <3>4, <4>7, <5>1, <5>2, <5>3 DEF CallShape
      <4> QED
        BY <3>2, <4>5, <4>6, <4>7
    <3> QED
      BY <3>3, <3>5
  <2> QED
    BY <2>3, <2>4, <2>5 DEF JournalInv
<1>16. CASE CompactionFails
  <2>1. /\ UNCHANGED active /\ target' = 0 /\ next' = 0 /\ row' = << >> /\ 0 \in Slot
        /\ pc' = (IF resume = "boot" THEN "off" ELSE "idle") /\ call' = NoCall
        /\ resume' = "none" /\ reply' = IF resume = "boot" THEN reply ELSE "failed"
        /\ pc \in {"erase", "copy", "commit", "retire"}
    BY <1>16 DEF CompactionFails, Return, ForgetCopy, Slot
  \* It suffices that the flash still has its shape after the failed operation.
  <2>2. SUFFICES /\ flash' \in [Slot -> Page]
                 /\ \A s \in Slot : Len(flash'[s].recs) <= PageRecords
                 /\ HeadersErasedOrCommitted'
                 /\ flash'[active].header.active /\ ~flash'[After(After(active))].header.active
                 /\ flash'[After(active)].header.active => flash'[After(active)].header.epoch
    BY <2>1, <1>t
       DEF JournalInv, TypeOK, HeadersErasedOrCommitted, OfflineShape,
           SessionShape, CopyShape, CallShape
  <2>3. CASE pc \in {"erase", "copy", "commit"} /\ UNCHANGED flash
    BY <2>3, <1>t DEF JournalInv, HeadersErasedOrCommitted, SessionShape
  <2>4. CASE pc = "copy" /\ \E n \in 1 .. Len(row) : ProgramRow(SubSeq(row, 1, n))
    <3>1. PICK n \in 1 .. Len(row) : ProgramRow(SubSeq(row, 1, n))
      BY <2>4
    <3> DEFINE part == SubSeq(row, 1, n)
    <3>2. part \in Seq(Record) /\ Len(part) = n
      <4>1. \A k \in 1 .. n : row[k] \in Record
        BY <1>t, ElementOfSeq
      <4> QED
        BY <4>1, SubSeqProperties
    <3> HIDE DEF part
    <3>3. flash[target].recs \o part \in Seq(Record)
          /\ Len(flash[target].recs \o part) = Len(flash[target].recs) + n
      BY <1>t, <3>2, ConcatProperties
    <3>4. Becomes(target, flash[target].header, flash[target].recs \o part)
      BY <3>1, <3>3, <1>t, RecordsStep DEF ProgramRow, part
    <3>5. Len(flash[target].recs) + n <= PageRecords
      BY <2>4, <1>t DEF JournalInv, TypeOK, CopyShape
    <3> QED
      <4>1. \A t \in Slot : flash'[t].header = flash[t].header
        BY <1>t, <3>4, HeadersUnchanged
      <4>2. flash' \in [Slot -> Page] /\ \A t \in Slot : Len(flash'[t].recs) <= PageRecords
        BY <3>3, <3>4, <3>5, <1>t, PagesStayTyped
      <4> QED
        BY <2>4, <4>1, <4>2, <1>t, SlotFacts DEF JournalInv, HeadersErasedOrCommitted, SessionShape
  <2>5. CASE pc = "commit" /\ MayKeepBoth /\ ProgramHeader
    <3> DEFINE h == TargetHeader(flash[active].header, target)
    <3>1. h \in Header /\ h.active /\ h.epoch
      BY <2>5, <1>t, TargetHeaderType DEF JournalInv, SessionShape, MayKeepBoth
    <3>2. Becomes(target, h, flash[target].recs)
      BY <2>5, <3>1, <1>t, HeaderStep DEF ProgramHeader
    <3>3. target = After(active) /\ target # active /\ After(target) # target
      BY <2>5, <1>t, SlotFacts DEF JournalInv, CopyShape
    <3> HIDE DEF h
    <3> QED
      BY <2>5, <3>1, <3>2, <3>3, <1>t, SlotFacts
         DEF Becomes, JournalInv, HeadersErasedOrCommitted, SessionShape
  <2>6. CASE pc = "retire" /\ MayKeepBoth /\ UNCHANGED flash
    <3>1. flash[target].header.epoch /\ target = After(active)
      BY <2>6 DEF MayKeepBoth, JournalInv, CopyShape
    <3> QED
      BY <2>6, <3>1, <1>t DEF JournalInv, HeadersErasedOrCommitted, SessionShape
  <2> QED
    BY <1>16, <2>3, <2>4, <2>5, <2>6 DEF CompactionFails
<1>17. CASE PowerLoss
  <2>1. 0 \in Slot /\ << >> \in Seq(Record) /\ 0 \in 0 .. IndexCount
    BY DEF Slot
  <2>2. \E s \in Slot : ~flash[After(After(s))].header.active
    BY <1>17, <1>t, SlotFacts DEF PowerLoss, JournalInv, OfflineShape, SessionShape
  <2> QED
    BY <1>17, <1>t, <2>1, <2>2 DEF PowerLoss, ForgetCopy, JournalInv, TypeOK, HeadersErasedOrCommitted, OfflineShape,
           SessionShape, CopyShape, CallShape
<1>18. CASE UNCHANGED vars
  BY <1>18 DEF vars, JournalInv, TypeOK, HeadersErasedOrCommitted, OfflineShape,
           SessionShape, CopyShape, CallShape
<1> QED
  BY <1>1, <1>2, <1>3, <1>4, <1>5, <1>6, <1>7, <1>8, <1>9, <1>10, <1>11, <1>12, <1>13, <1>14,
     <1>15, <1>16, <1>17, <1>18
     DEF Next

THEOREM Inductive ==
    ASSUME ~WornFaults
    PROVE  Spec => []JournalInv
<1>1. JournalInv /\ [Next]_vars => JournalInv'
  BY StepInv
<1> QED
  BY InitInv, <1>1, PTL DEF Spec

----------------------------------------------------------------------------
(* The theorems *)

\* The slot recovery would retain, whichever of its neighbours is committed too.
LEMMA RetainedIs ==
    \A s \in Slot : flash[s].header.active /\ ~flash[After(After(s))].header.active
        => /\ ActiveSlots # {} /\ Retained = s
           /\ Stored = [i \in Index |-> Latest(flash[s].recs, i)]
<1> SUFFICES ASSUME NEW s \in Slot,
                    flash[s].header.active, ~flash[After(After(s))].header.active
             PROVE  /\ ActiveSlots # {} /\ Retained = s
                    /\ Stored = [i \in Index |-> Latest(flash[s].recs, i)]
  OBVIOUS
<1>1. s \in ActiveSlots /\ (ActiveSlots = {s} \/ After(s) \in ActiveSlots)
  BY SlotFacts DEF ActiveSlots
<1>2. \A t \in ActiveSlots : (ActiveSlots = {t} \/ After(t) \in ActiveSlots) => t = s
  BY SlotFacts DEF ActiveSlots
<1>3. Retained = s
  BY <1>1, <1>2 DEF Retained
<1> QED
  BY <1>1, <1>3 DEF Stored

LEMMA RetainedIsNext == RetainedIs'
BY RetainedIs, PTL

\* The journal keeps its types: no page ever holds more records than it has room for, so a free
\* instruction is always found after a compaction.
THEOREM TypeCorrect ==
    ASSUME ~WornFaults
    PROVE  Spec => []TypeOK
BY Inductive, PTL DEF JournalInv

\* Whatever fails and whenever power goes, settings_journal_initialize accepts the flash.
THEOREM LockOutImpossible ==
    ASSUME ~WornFaults
    PROVE  Spec => []NeverLockedOut
<1>1. JournalInv => NeverLockedOut
  <2> SUFFICES ASSUME JournalInv
               PROVE  NeverLockedOut
    OBVIOUS
  <2>1. PICK s \in Slot : ~flash[After(After(s))].header.active
    <3>1. active \in Slot /\ 0 \in Slot
      BY DEF JournalInv, TypeOK, Slot
    <3> QED
      BY <3>1, SlotFacts DEF JournalInv, OfflineShape, SessionShape
  <2>2. flash[After(After(s))].header.epoch
    BY <2>1, SlotFacts, ErasedPageType DEF JournalInv, HeadersErasedOrCommitted
  <2>3. ActiveSlots \subseteq {s, After(s)}
    BY <2>1, SlotFacts DEF ActiveSlots
  <2> QED
    BY <2>2, <2>3, SlotFacts DEF NeverLockedOut, EligibleSlot
<1> QED
  BY <1>1, Inductive, PTL

\* A running journal reads and extends the slot a reboot would retain.
THEOREM SessionIsRetained ==
    ASSUME ~WornFaults
    PROVE  Spec => []RebootKeepsSession
<1>1. JournalInv => RebootKeepsSession
  BY RetainedIs DEF JournalInv, TypeOK, SessionShape, RebootKeepsSession, Running
<1> QED
  BY <1>1, Inductive, PTL

\* While power is on the store is the newest record of each index in the active slot.
LEMMA StoredInSession ==
    JournalInv /\ pc \notin {"off", "create"}
        => Stored = [i \in Index |-> Latest(flash[active].recs, i)]
BY RetainedIs DEF JournalInv, TypeOK, SessionShape

LEMMA StoredInSessionNext == StoredInSession'
BY StoredInSession, PTL

\* An uncommitted journal stores nothing.
LEMMA StoredInNone == ActiveSlots = {} => Stored = [i \in Index |-> NoValue]
BY DEF Stored

LEMMA StoreInit == Init => Store!Init
<1> SUFFICES ASSUME Init
             PROVE  Store!Init
  OBVIOUS
<1>1. ActiveSlots = {}
  BY ErasedPageType DEF Init, ActiveSlots
<1> QED
  BY <1>1, StoredInNone DEF Init, Store!Init, Store!NoCall, NoCall, Running

LEMMA StoreStep ==
    ASSUME ~WornFaults, JournalInv, [Next]_vars
    PROVE  [Store!Next]_(Store!vars)
<1> USE JournalAssumption
<1>0. JournalInv'
  BY StepInv
<1>n. NoCall = Store!NoCall
  BY DEF NoCall, Store!NoCall
<1>s. pc \notin {"off", "create"} => Stored = [i \in Index |-> Latest(flash[active].recs, i)]
  BY StoredInSession
<1>r. pc' \notin {"off", "create"}
        => Stored' = [i \in Index |-> Latest(flash'[active'].recs, i)]
  BY <1>0, StoredInSessionNext
<1>u. UNCHANGED flash => UNCHANGED Stored
  BY DEF Stored, Retained, ActiveSlots
<1>t. active \in Slot /\ \A s \in Slot : flash[s].recs \in Seq(Record)
  BY DEF JournalInv, TypeOK, Page
\* A step that leaves the newest record of every index alone, and the call, is invisible.
<1>k. ASSUME UNCHANGED <<Stored, call, reply>>, Running' = Running
      PROVE  [Store!Next]_(Store!vars)
  BY <1>k DEF Store!vars
<1>1. CASE BootCreate
  <2>1. 0 \in Slot /\ ActiveSlots = {} /\ flash' = [flash EXCEPT ![0] = ErasedPage]
    BY <1>1 DEF BootCreate, Slot
  <2>2. Becomes(0, ErasedPage.header, << >>)
    BY <2>1, EraseStep DEF JournalInv, TypeOK
  <2>3. ActiveSlots' = {}
    BY <2>1, <2>2, ErasedPageType DEF ActiveSlots, Becomes
  <2>4. UNCHANGED Stored
    BY <2>1, <2>3 DEF Stored
  <2> QED
    BY <1>1, <1>k, <2>4 DEF BootCreate, Running
<1>2. CASE Create
  <2>1. pc = "create" /\ flash[0].recs = << >> /\ 0 \in Slot
        /\ \A s \in Slot : ~flash[s].header.active
    BY <1>2 DEF Create, JournalInv, OfflineShape, Slot
  <2>2. ActiveSlots = {}
    BY <2>1 DEF ActiveSlots
  <2>3. Becomes(0, InitialHeader, << >>)
    BY <1>2, <2>1, HeaderStep, InitialHeaderType DEF Create, JournalInv, TypeOK
  <2>4. Stored = [i \in Index |-> NoValue]
    BY <2>2, StoredInNone
  <2>5. Stored' = [i \in Index |-> Latest(<< >>, i)]
    BY <1>2, <1>r, <2>3 DEF Create, Becomes
  <2>6. UNCHANGED Stored
    BY <2>4, <2>5, LatestEmpty
  <2>7. ~Running /\ Running' /\ UNCHANGED <<call, reply>>
    BY <1>2 DEF Create, Running, JournalInv, CallShape
  <2> QED
    BY <2>6, <2>7 DEF Store!Next, Store!PowerUp
<1>3. CASE BootSingle
  BY <1>3, <1>u DEF BootSingle, Store!Next, Store!PowerUp, Running, JournalInv, CallShape
<1>4. CASE BootRecover
  <2>1. PICK s \in Slot : /\ ActiveSlots = {s, After(s)} /\ active' = s
                          /\ flash' = [flash EXCEPT ![After(s)] = ErasedPage]
    BY <1>4 DEF BootRecover
  <2>2. Becomes(After(s), ErasedPage.header, << >>) /\ flash'[s] = flash[s]
    BY <2>1, EraseStep, SlotFacts DEF JournalInv, TypeOK, Becomes
  <2>3. Stored = [i \in Index |-> Latest(flash[s].recs, i)]
    <3>1. flash[s].header.active /\ ~flash[After(After(s))].header.active
      BY <2>1, SlotFacts DEF ActiveSlots
    <3> QED
      BY <3>1, RetainedIs
  <2>4. UNCHANGED Stored /\ UNCHANGED <<call, reply>> /\ pc = "off" /\ pc' \in {"idle", "erase"}
    BY <1>4, <1>r, <2>1, <2>2, <2>3 DEF BootRecover, StartCompaction
  <2>5. ~Running
    BY <2>4 DEF Running
  <2> QED
    BY <1>k, <2>4, <2>5 DEF Store!Next, Store!PowerUp, Running
<1>5. CASE \E i \in Index, v \in Values : Write(i, v)
  <2>1. PICK i \in Index, v \in Values : Write(i, v)
    BY <1>5
  <2>2. Store!Write(i, v)
    BY <2>1, <1>n, <1>u DEF Write, Store!Write, Running, JournalInv, CallShape
  <2> QED
    BY <2>2 DEF Store!Next
<1>6. CASE CheckEqual
  <2>1. /\ UNCHANGED Stored /\ call # NoCall /\ call \in Record /\ Running /\ Running'
        /\ call' = NoCall /\ reply' = "ok"
    BY <1>6, <1>u DEF CheckEqual, Return, Running, JournalInv, TypeOK, CallShape
  <2>2. Stored[call.index] = call.value
    <3>1. call.index \in Index /\ pc = "check"
          /\ Latest(flash[active].recs, call.index) = call.value
      BY <1>6, <2>1 DEF CheckEqual, Record
    <3> QED
      BY <1>s, <3>1
  <2> QED
    BY <1>n, <2>1, <2>2 DEF Store!Next, Store!Confirm
<1>7. CASE CheckFree
  BY <1>7, <1>u, <1>k DEF CheckFree, StartCompaction, Running, JournalInv, CallShape
<1>8. CASE AppendRecord
  <2>1. call \in Record /\ call # NoCall /\ pc = "append" /\ pc' = "finish"
        /\ UNCHANGED <<active, call, reply, resume>>
    BY <1>8 DEF AppendRecord, copying, JournalInv, TypeOK, CallShape
  <2>2. flash'[active].recs = Append(flash[active].recs, call)
    BY <1>8, <1>t DEF AppendRecord, Append1, JournalInv, TypeOK, Page
  <2>3. Stored' = [Stored EXCEPT ![call.index] = call.value]
    <3>1. call.index \in Index /\ flash[active].recs \in Seq(Record)
      BY <2>1, <1>t DEF Record
    <3>2. \A i \in Index : Latest(flash'[active].recs, i) =
                 IF call.index = i THEN call.value ELSE Latest(flash[active].recs, i)
      BY <2>1, <2>2, <3>1, LatestAppend
    <3> QED
      BY <1>s, <1>r, <2>1, <3>1, <3>2
  <2>4. Running' = Running
    BY <2>1 DEF Running
  <2> QED
    BY <1>n, <2>1, <2>3, <2>4 DEF Store!Next, Store!Store
<1>9. CASE AppendFails
  <2>1. call \in Record /\ call # NoCall /\ pc = "append" /\ pc' = "idle" /\ resume = "none"
        /\ call' = NoCall /\ reply' = "failed" /\ resume' = "none" /\ UNCHANGED active
    BY <1>9 DEF AppendFails, Return, copying, JournalInv, TypeOK, CallShape
  <2>2. Running' = Running
    BY <2>1 DEF Running
  <2>3. CASE UNCHANGED flash
    BY <1>n, <1>u, <2>1, <2>2, <2>3 DEF Store!Next, Store!Fail
  <2>4. ASSUME NEW w \in Values, Append1(active, [index |-> call.index, value |-> w])
        PROVE  [Store!Next]_(Store!vars)
    <3> DEFINE r == [index |-> call.index, value |-> w]
    <3>1. r \in Record /\ r.index = call.index /\ r.value = w
      BY <2>1 DEF Record
    <3> HIDE DEF r
    <3>2. flash'[active].recs = Append(flash[active].recs, r)
      BY <1>t, <2>4 DEF Append1, JournalInv, TypeOK, Page, r
    <3>3. Stored' = [Stored EXCEPT ![call.index] = w]
      BY <1>s, <1>r, <1>t, <2>1, <3>1, <3>2, LatestAppend
    <3> QED
      BY <1>n, <2>1, <2>2, <3>3 DEF Store!Next, Store!Fail
  <2> QED
    BY <1>9, <2>3, <2>4 DEF AppendFails
<1>10. CASE Finish
  <2>1. UNCHANGED Stored /\ call \in Record /\ call # NoCall /\ Running
    BY <1>10, <1>u DEF Finish, Running, JournalInv, TypeOK, CallShape
  <2>2. CASE Full(flash[active].recs)
    BY <1>10, <1>k, <2>1, <2>2 DEF Finish, StartCompaction, Running
  <2>3. CASE ~Full(flash[active].recs)
    <3>1. Stored[call.index] = call.value
      BY <1>10, <1>s, <2>1 DEF Finish, Record, JournalInv, CallShape
    <3> QED
      BY <1>10, <1>n, <2>1, <2>3, <3>1
         DEF Finish, Return, Store!Next, Store!Confirm, Running, JournalInv, CallShape
  <2> QED
    BY <2>2, <2>3
<1>11. CASE EraseTarget
  <2>1. flash'[active] = flash[active] /\ UNCHANGED <<active, call, reply, resume>>
        /\ pc = "erase" /\ pc' = "copy"
    BY <1>11, <1>t DEF EraseTarget, JournalInv, TypeOK
  <2> QED
    BY <1>k, <1>s, <1>r, <2>1 DEF Running
<1>12. CASE CopyIndex
  <2>1. UNCHANGED <<active, pc, call, reply, resume>> /\ pc = "copy" /\ target # active
    BY <1>12, <1>t, SlotFacts DEF CopyIndex, JournalInv, CopyShape
  <2>2. flash'[active] = flash[active]
    BY <1>12, <1>t, <2>1 DEF CopyIndex, ProgramRow, JournalInv, TypeOK
  <2> QED
    BY <1>k, <1>s, <1>r, <2>1, <2>2 DEF Running
<1>13. CASE CopyRest
  <2>1. UNCHANGED <<active, call, reply, resume>> /\ pc = "copy" /\ pc' = "commit"
        /\ target # active
    BY <1>13, <1>t, SlotFacts DEF CopyRest, JournalInv, CopyShape
  <2>2. flash'[active] = flash[active]
    BY <1>13, <1>t, <2>1 DEF CopyRest, ProgramRow, JournalInv, TypeOK
  <2> QED
    BY <1>k, <1>s, <1>r, <2>1, <2>2 DEF Running
<1>14. CASE Commit
  <2>1. UNCHANGED <<active, call, reply, resume>> /\ pc = "commit" /\ pc' = "retire"
        /\ target # active
    BY <1>14, <1>t, SlotFacts DEF Commit, copying, JournalInv, CopyShape
  <2>2. flash'[active] = flash[active]
    BY <1>14, <1>t, <2>1 DEF Commit, ProgramHeader, JournalInv, TypeOK
  <2> QED
    BY <1>k, <1>s, <1>r, <2>1, <2>2 DEF Running
<1>15. CASE Retire
  <2>1. /\ pc = "retire" /\ target # active /\ target \in Slot /\ active' = target
        /\ pc' \in {"idle", "append"} /\ resume' = "none"
        /\ \A i \in Index : Latest(flash[target].recs, i) = Latest(flash[active].recs, i)
    BY <1>15, <1>t, SlotFacts
       DEF Retire, Retired, Return, JournalInv, TypeOK, CopyShape, CallShape
  <2>2. flash'[target] = flash[target]
    BY <1>15, <1>t, <2>1 DEF Retire, Retired, JournalInv, TypeOK
  <2>3. UNCHANGED Stored
    BY <1>s, <1>r, <2>1, <2>2
  <2>4. Running' /\ (Running <=> resume # "boot")
    BY <2>1 DEF Running
  <2>5. CASE resume = "boot"
    BY <1>15, <2>3, <2>4, <2>5 DEF Retire, Retired, Store!Next, Store!PowerUp
  <2>6. CASE resume = "trim"
    <3>1. call \in Record /\ call # NoCall /\ call' = NoCall /\ reply' = "ok"
      BY <1>15, <2>6 DEF Retire, Retired, Return, JournalInv, TypeOK, CallShape
    <3>2. Stored[call.index] = call.value
      BY <1>s, <2>1, <2>6, <3>1 DEF Record, JournalInv, CallShape
    <3> QED
      BY <1>n, <2>3, <2>4, <2>6, <3>1, <3>2 DEF Store!Next, Store!Confirm
  <2>7. CASE resume = "write"
    <3>1. ~Full(flash[target].recs)
      BY <2>1, <1>t DEF Full, JournalInv, TypeOK, CopyShape
    <3> QED
      BY <1>15, <1>k, <2>3, <2>4, <2>7, <3>1 DEF Retire, Retired
  <2> QED
    BY <2>1, <2>5, <2>6, <2>7 DEF JournalInv, TypeOK, CallShape
<1>16. CASE CompactionFails
  <2>1. /\ pc \in {"erase", "copy", "commit", "retire"} /\ UNCHANGED active
        /\ pc' = (IF resume = "boot" THEN "off" ELSE "idle") /\ call' = NoCall
        /\ resume' = "none" /\ reply' = IF resume = "boot" THEN reply ELSE "failed"
        /\ pc \in {"copy", "commit"} => target = After(active) /\ target # active
    BY <1>16, <1>t, SlotFacts DEF CompactionFails, Return, JournalInv, CopyShape
  <2>2. flash'[active] = flash[active]
    BY <1>16, <1>t, <2>1 DEF CompactionFails, ProgramRow, ProgramHeader, JournalInv, TypeOK
  <2>3. CASE resume = "boot"
    <3>1. /\ flash'[active].header.active /\ ~flash'[After(After(active))].header.active
      <4>1. flash'[After(After(active))].header = flash[After(After(active))].header
        <5>1. After(After(active)) \in Slot
              /\ (pc \in {"copy", "commit"} => After(After(active)) # target)
          BY <1>t, <2>1, SlotFacts
        <5> QED
          BY <1>16, <1>t, <5>1
             DEF CompactionFails, ProgramRow, ProgramHeader, JournalInv, TypeOK
      <4> QED
        BY <2>1, <2>2, <4>1 DEF JournalInv, SessionShape
    <3>2. Stored' = [i \in Index |-> Latest(flash'[active].recs, i)]
      BY <1>t, <3>1, RetainedIsNext
    <3>3. UNCHANGED Stored
      BY <1>s, <2>1, <2>2, <3>2
    <3>4. ~Running /\ ~Running' /\ UNCHANGED <<call, reply>>
      BY <1>n, <2>1, <2>3 DEF Running, JournalInv, CallShape
    <3> QED
      BY <1>k, <3>3, <3>4 DEF Running
  <2>4. CASE resume # "boot"
    <3>1. UNCHANGED Stored
      BY <1>s, <1>r, <2>1, <2>2, <2>4
    <3>2. Running /\ Running' /\ call # NoCall
      BY <2>1, <2>4 DEF Running, JournalInv, CallShape
    <3> QED
      BY <1>n, <2>1, <2>4, <3>1, <3>2 DEF Store!Next, Store!Fail
  <2> QED
    BY <2>3, <2>4
<1>17. CASE PowerLoss
  BY <1>17, <1>u, <1>n DEF PowerLoss, Store!Next, Store!PowerLoss, Running
<1>18. CASE UNCHANGED vars
  BY <1>18, <1>u, <1>k DEF vars, Running
<1> QED
  BY <1>1, <1>2, <1>3, <1>4, <1>5, <1>6, <1>7, <1>8, <1>9, <1>10, <1>11, <1>12, <1>13, <1>14,
     <1>15, <1>16, <1>17, <1>18
     DEF Next

\* The journal implements the store: a value reported stored is what every later read and every
\* later boot answers, until a later write names its index.
THEOREM ImplementsStore ==
    ASSUME ~WornFaults
    PROVE  Spec => StoreSpec
<1>1. JournalInv /\ [Next]_vars => [Store!Next]_(Store!vars)
  BY StoreStep
<1> QED
  BY <1>1, StoreInit, Inductive, PTL DEF Spec, StoreSpec, Store!Spec

LEMMA FlashStep ==
    ASSUME ~WornFaults, JournalInv, [Next]_vars, NEW s \in Slot
    PROVE  flash'[s] = ErasedPage \/ OnlyExtended(s)
<1>t. /\ flash \in [Slot -> Page] /\ active \in Slot /\ target \in Slot /\ row \in Seq(Record)
      /\ \A t \in Slot : flash[t].recs \in Seq(Record)
  BY DEF JournalInv, TypeOK, Page
\* Each flash operation erases a page, programs a header or extends the records of a page.
<1>1. CASE UNCHANGED flash
  BY <1>1, <1>t, LenProperties DEF OnlyExtended
<1>2. ASSUME NEW t \in Slot, flash' = [flash EXCEPT ![t] = ErasedPage]
      PROVE  flash'[s] = ErasedPage \/ OnlyExtended(s)
  BY <1>2, <1>t, LenProperties DEF OnlyExtended
<1>3. ASSUME NEW t \in Slot, NEW h, flash' = [flash EXCEPT ![t].header = h],
             flash[t].header = ErasedPage.header
      PROVE  flash'[s] = ErasedPage \/ OnlyExtended(s)
  <2>1. /\ flash'[s].recs = flash[s].recs /\ Len(flash[s].recs) \in Nat
        /\ flash'[s].header = flash[s].header \/ flash[s].header = ErasedPage.header
    BY <1>3, <1>t, LenProperties DEF Page
  <2> QED
    BY <2>1 DEF OnlyExtended
<1>4. ASSUME NEW t \in Slot, NEW r \in Seq(Record),
             flash' = [flash EXCEPT ![t].recs = flash[t].recs \o r]
      PROVE  flash'[s] = ErasedPage \/ OnlyExtended(s)
  <2>1. /\ flash'[s].header = flash[s].header
        /\ flash'[s].recs \in {flash[s].recs, flash[s].recs \o r}
    BY <1>4, <1>t DEF Page
  <2>2. /\ Len(flash[s].recs) \in Nat /\ DOMAIN flash[s].recs = 1 .. Len(flash[s].recs)
        /\ Len(r) \in Nat /\ Len(flash[s].recs \o r) = Len(flash[s].recs) + Len(r)
        /\ \A k \in 1 .. Len(flash[s].recs) : (flash[s].recs \o r)[k] = flash[s].recs[k]
    BY <1>t, LenProperties, ConcatProperties
  <2> QED
    BY <2>1, <2>2 DEF OnlyExtended
\* Appending one record is the second kind.
<1>5. ASSUME NEW r \in Record, Append1(active, r)
      PROVE  flash'[s] = ErasedPage \/ OnlyExtended(s)
  <2>1. <<r>> \in Seq(Record) /\ Append(flash[active].recs, r) = flash[active].recs \o <<r>>
    BY <1>t, AppendIsConcat
  <2> QED
    BY <1>4, <1>5, <1>t, <2>1 DEF Append1
<1>6. CASE BootCreate \/ BootRecover \/ EraseTarget \/ Retire
  <2>1. \E t \in Slot : flash' = [flash EXCEPT ![t] = ErasedPage]
    <3>1. CASE BootCreate
      BY <3>1 DEF BootCreate, Slot
    <3>2. CASE BootRecover
      BY <3>2, SlotFacts DEF BootRecover
    <3>3. CASE EraseTarget
      <4>1. target' \in Slot
        BY <3>3, StepInv DEF JournalInv, TypeOK
      <4> QED
        BY <3>3, <4>1 DEF EraseTarget
    <3>4. CASE Retire
      BY <3>4, <1>t DEF Retire, Retired
    <3> QED
      BY <1>6, <3>1, <3>2, <3>3, <3>4
  <2> QED
    BY <1>2, <2>1
<1>7. CASE Create
  <2>1. 0 \in Slot
    BY DEF Slot
  <2>2. flash[0].header = ErasedPage.header
    BY <1>7, <2>1 DEF Create, JournalInv, OfflineShape, HeadersErasedOrCommitted
  <2> QED
    BY <1>3, <1>7, <2>1, <2>2 DEF Create
<1>8. CASE AppendRecord
  BY <1>5, <1>8 DEF AppendRecord, JournalInv, TypeOK, CallShape
<1>9. CASE AppendFails
  <2>1. call \in Record
    BY <1>9 DEF AppendFails, JournalInv, TypeOK, CallShape
  <2>2. \A w \in Values : [index |-> call.index, value |-> w] \in Record
    BY <2>1 DEF Record
  <2> QED
    <3>1. CASE UNCHANGED flash
      BY <1>1, <3>1
    <3>2. CASE \E w \in Values : Append1(active, [index |-> call.index, value |-> w])
      BY <1>5, <2>2, <3>2, Zenon
    <3> QED
      BY <1>9, <3>1, <3>2 DEF AppendFails
<1>10. CASE CopyIndex
  <2>1. \A v \in Values, n \in Index : Append(row, [index |-> n, value |-> v]) \in Seq(Record)
    BY <1>t, AppendProperties DEF Record
  <2>2. pc = "copy" /\ next \in Index
    <3>1. pc = "copy" /\ next < IndexCount
      BY <1>10 DEF CopyIndex
    <3> QED
      BY <3>1, JournalAssumption DEF JournalInv, TypeOK, Index
  <2>3. Latest(flash[active].recs, next) \in Values \cup {NoValue}
    BY <1>t, <2>2, LatestType
  <2> DEFINE v == Latest(flash[active].recs, next)
             filled == IF v = NoValue THEN row ELSE Append(row, [index |-> next, value |-> v])
  <2>4. filled \in Seq(Record)
    <3>1. CASE v = NoValue
      BY <1>t, <3>1
    <3>2. CASE v # NoValue
      <4>1. v \in Values
        BY <2>3, <3>2
      <4> HIDE DEF v
      <4> QED
        BY <2>1, <2>2, <3>2, <4>1
    <3> QED
      BY <3>1, <3>2
  <2>5. UNCHANGED flash \/ ProgramRow(filled)
    BY <1>10, Zenon DEF CopyIndex
  <2> HIDE DEF filled
  <2> QED
    BY <1>1, <1>4, <1>t, <2>4, <2>5 DEF ProgramRow
<1>11. CASE CopyRest
  BY <1>4, <1>11, <1>t DEF CopyRest, ProgramRow
<1>12. CASE Commit
  <2>1. flash[target].header = ErasedPage.header
    BY <1>12, <1>t DEF Commit, JournalInv, CopyShape, HeadersErasedOrCommitted
  <2> QED
    BY <1>3, <1>12, <1>t, <2>1 DEF Commit, ProgramHeader
<1>13. CASE CompactionFails
  <2>1. pc \in {"copy", "commit"} => flash[target].header = ErasedPage.header
    BY <1>t DEF JournalInv, CopyShape, HeadersErasedOrCommitted
  <2>2. CASE \E n \in 1 .. Len(row) : ProgramRow(SubSeq(row, 1, n))
    <3>1. PICK n \in 1 .. Len(row) : ProgramRow(SubSeq(row, 1, n))
      BY <2>2
    <3>2. \A k \in 1 .. n : row[k] \in Record
      BY <1>t, ElementOfSeq, LenProperties
    <3>3. SubSeq(row, 1, n) \in Seq(Record)
      BY <3>2, SubSeqProperties
    <3> QED
      BY <1>4, <1>t, <3>1, <3>3 DEF ProgramRow
  <2>3. CASE pc = "commit" /\ ProgramHeader
    BY <1>3, <1>t, <2>1, <2>3 DEF ProgramHeader
  <2> QED
    BY <1>1, <1>13, <2>2, <2>3 DEF CompactionFails
<1> QED
  BY <1>1, <1>6, <1>7, <1>8, <1>9, <1>10, <1>11, <1>12, <1>13
     DEF Next, BootSingle, Write, CheckEqual, CheckFree, Finish, PowerLoss, vars

\* No flash operation programs over bits an earlier one cleared.
THEOREM FlashDiscipline ==
    ASSUME ~WornFaults
    PROVE  Spec => ProgramsErasedOnly
<1>1. JournalInv /\ [Next]_vars
        => [\A s \in Slot : flash'[s] = ErasedPage \/ OnlyExtended(s)]_flash
  BY FlashStep
<1> QED
  BY <1>1, Inductive, PTL DEF Spec, ProgramsErasedOnly

-----------------------------------------------------------------------------
(* The saves *)

Endpoints == {<<"minimum", 0>>, <<"maximum", 0>>}
Plain == {"center", "threshold", "minimum", "maximum"}
Flags == {"valid", "reset"}

AbsentOrWord == {Absent} \cup {Word(w) : w \in AnyWord}

\* What each index can hold.
Fits(i, v) ==
    /\ v \in Value
    /\ i[1] \in Plain => v \in AbsentOrWord
    /\ i[1] \in Flags => v \in {Absent, Garbage, Word(0), Word(1)}
    /\ i[1] = "limit" => v \in {Absent, Garbage} \cup {Marked(p) : p \in Limits}
    /\ i[1] = "format" => v \in {Absent, Garbage, Format}

\* What a save of s stores at index i.
ValueOf(s, i) == CASE i[1] = "center" -> Word(s.center[i[2]])
                   [] i[1] = "threshold" -> Word(s.thresholds[i[2]])
                   [] i[1] = "valid" -> Flag(s.calibrated)
                   [] i[1] = "limit" -> Marked(s.limit)
                   [] i[1] = "minimum" -> Word(s.minimum)
                   [] i[1] = "maximum" -> Word(s.maximum)
                   [] i[1] = "reset" -> Flag(s.reset)
                   [] OTHER -> Format

SettingsType == [center : AnyWord \X AnyWord, thresholds : [1 .. Thresholds -> AnyWord],
                 calibrated : BOOLEAN, limit : Limits, minimum : AnyWord, maximum : AnyWord,
                 reset : BOOLEAN]

\* How many records of a full save have been written.
Done == Len(Records(settings)) - Len(saving)

LimitWrite == <<Entry(<<"limit", 0>>, Marked(settings.limit))>>

\* A running save is a rest of Records, and what comes before the rest is stored.
Underway ==
    /\ saving # << >> => on
    /\ full => /\ Done >= 0
               /\ \A j \in 1 .. Len(saving) : saving[j] = Records(settings)[Done + j]
               /\ \A j \in 1 .. Done : stored[Records(settings)[j].index] = Records(settings)[j].value
    /\ ~full => saving \in {<< >>, LimitWrite}

TypeInv == /\ SaveTypeOK /\ calibrations <= changes
           /\ \A i \in Indexes : Fits(i, stored[i])
           /\ Underway

\* What was written stays, and the format marker is written last.
CompleteInv == TypeInv /\ FormattedIsComplete

\* Settings that are not calibrated have no thresholds.
Uncalibrated == ~settings.calibrated => \A n \in 1 .. Thresholds : settings.thresholds[n] = 0

\* The same settings to the firmware, but for the steering limit.
Afresh(s) == s.reset \/ s.minimum >= s.maximum
Alike(s, t) == /\ s.center = t.center /\ s.thresholds = t.thresholds /\ s.calibrated = t.calibrated
               /\ Afresh(s) <=> Afresh(t)
               /\ ~Afresh(s) => s.minimum = t.minimum /\ s.maximum = t.maximum

\* Clean settings are those a load would find, but for a steering limit that is being written.
KeptInv ==
    /\ CompleteInv /\ Uncalibrated
    /\ on /\ journal /\ ~dirty =>
         /\ Formatted /\ Alike(Loaded, settings)
         /\ saving = << >> /\ ~limitLost => LimitLoaded = settings.limit

\* Everything that counts as calibrated comes from the one session.
Pattern == Formatted /\ PatternValid
OfSession(w) ==
    /\ settings.calibrated => \A n \in 1 .. Thresholds : settings.thresholds[n] \in {w, Damaged}
    /\ Pattern => \A n \in 1 .. Thresholds : stored[Threshold(n)] \in {Word(w), Word(Damaged)}

SessionInv ==
    /\ CompleteInv
    /\ calibrations = 0 => ~settings.calibrated /\ ~PatternValid
    /\ calibrations <= 1 =>
         /\ on /\ journal /\ Pattern => settings.calibrated
         /\ settings.calibrated \/ Pattern => \E w \in Words \ {0} : OfSession(w)

-----------------------------------------------------------------------------
(* What a full save writes, and in which order *)

EntryType == [index : Indexes, value : Value]

\* The records of a save by their place: thresholds follow the center, validity follows them.
LEMMA RecordPlaces ==
    ASSUME NEW s \in SettingsType
    PROVE  /\ Records(s) \in Seq(EntryType)
           /\ Len(Records(s)) = IF s.reset THEN Thresholds + 6 ELSE Thresholds + 8
           /\ Records(s)[1] = Entry(<<"center", 1>>, Word(s.center[1]))
           /\ Records(s)[2] = Entry(<<"center", 2>>, Word(s.center[2]))
           /\ \A n \in 1 .. Thresholds : Records(s)[2 + n] = Entry(Threshold(n), Word(s.thresholds[n]))
           /\ Records(s)[Thresholds + 3] = Entry(<<"valid", 0>>, Flag(s.calibrated))
           /\ Records(s)[Thresholds + 4] = Entry(<<"limit", 0>>, Marked(s.limit))
           /\ ~s.reset => /\ Records(s)[Thresholds + 5] = Entry(<<"minimum", 0>>, Word(s.minimum))
                          /\ Records(s)[Thresholds + 6] = Entry(<<"maximum", 0>>, Word(s.maximum))
           /\ Records(s)[Len(Records(s)) - 1] = Entry(<<"reset", 0>>, Flag(s.reset))
           /\ Records(s)[Len(Records(s))] = Entry(<<"format", 0>>, Format)
<1> DEFINE c == <<Entry(<<"center", 1>>, Word(s.center[1])), Entry(<<"center", 2>>, Word(s.center[2]))>>
           t == [n \in 1 .. Thresholds |-> Entry(Threshold(n), Word(s.thresholds[n]))]
           v == <<Entry(<<"valid", 0>>, Flag(s.calibrated)), Entry(<<"limit", 0>>, Marked(s.limit))>>
           m == IF s.reset THEN << >> ELSE <<Entry(<<"minimum", 0>>, Word(s.minimum)),
                                             Entry(<<"maximum", 0>>, Word(s.maximum))>>
           f == <<Entry(<<"reset", 0>>, Flag(s.reset)), Entry(<<"format", 0>>, Format)>>
<1>0. Thresholds \in Nat /\ Thresholds > 0 /\ 0 \in AnyWord
  BY SaveAssumption DEF AnyWord
<1>1. /\ s.center[1] \in AnyWord /\ s.center[2] \in AnyWord
      /\ \A n \in 1 .. Thresholds : s.thresholds[n] \in AnyWord
      /\ s.calibrated \in BOOLEAN /\ s.limit \in Limits
      /\ s.minimum \in AnyWord /\ s.maximum \in AnyWord /\ s.reset \in BOOLEAN
  BY DEF SettingsType
<1>2. \A w \in AnyWord : Word(w) \in Value
  BY DEF Value
<1>3. \A b \in BOOLEAN : Flag(b) \in Value
  BY <1>0 DEF Value, Flag, Word
<1>4. Marked(s.limit) \in Value /\ Format \in Value
  BY <1>1 DEF Value
<1>5. /\ <<"center", 1>> \in Indexes /\ <<"center", 2>> \in Indexes /\ <<"valid", 0>> \in Indexes
      /\ <<"limit", 0>> \in Indexes /\ <<"minimum", 0>> \in Indexes /\ <<"maximum", 0>> \in Indexes
      /\ <<"reset", 0>> \in Indexes /\ <<"format", 0>> \in Indexes
      /\ \A n \in 1 .. Thresholds : Threshold(n) \in Indexes
  BY DEF Indexes
<1>6. c \in Seq(EntryType) /\ v \in Seq(EntryType) /\ m \in Seq(EntryType) /\ f \in Seq(EntryType)
  <2>1. \A i \in Indexes, x \in Value : Entry(i, x) \in EntryType
    BY DEF EntryType, Entry
  <2>2. \A x, y \in EntryType : <<x, y>> \in Seq(EntryType)
    OBVIOUS
  <2>3. c \in Seq(EntryType)
    BY <1>1, <1>2, <1>5, <2>1, <2>2
  <2>4. v \in Seq(EntryType)
    BY <1>1, <1>3, <1>4, <1>5, <2>1, <2>2
  <2>5. m \in Seq(EntryType)
    BY <1>1, <1>2, <1>5, <2>1, <2>2
  <2>6. f \in Seq(EntryType)
    BY <1>1, <1>3, <1>4, <1>5, <2>1, <2>2
  <2> QED
    BY <2>3, <2>4, <2>5, <2>6
<1>7. t \in Seq(EntryType) /\ Len(t) = Thresholds
  <2>1. t \in [1 .. Thresholds -> EntryType]
    BY <1>1, <1>2, <1>5 DEF EntryType, Entry
  <2> QED
    BY <2>1, <1>0
<1>8. Len(c) = 2 /\ Len(v) = 2 /\ Len(f) = 2 /\ Len(m) = IF s.reset THEN 0 ELSE 2
  OBVIOUS
<1>9. Records(s) = c \o t \o v \o m \o f
  BY DEF Records
<1> DEFINE r == c \o t \o v \o m \o f
<1>10. r \in Seq(EntryType) /\ Len(r) = Thresholds + 6 + Len(m)
  BY <1>0, <1>6, <1>7, <1>8
<1>11. r[1] = c[1] /\ r[2] = c[2]
  BY <1>0, <1>6, <1>7, <1>8
<1>12. \A n \in 1 .. Thresholds : r[2 + n] = t[n]
  BY <1>0, <1>6, <1>7, <1>8
<1>13. r[Thresholds + 3] = v[1] /\ r[Thresholds + 4] = v[2]
  BY <1>0, <1>6, <1>7, <1>8
<1>14. ~s.reset => r[Thresholds + 5] = m[1] /\ r[Thresholds + 6] = m[2]
  BY <1>0, <1>6, <1>7, <1>8
<1>15. r[Len(r) - 1] = f[1] /\ r[Len(r)] = f[2]
  BY <1>0, <1>6, <1>7, <1>8, <1>10
<1>16. Len(r) = IF s.reset THEN Thresholds + 6 ELSE Thresholds + 8
  BY <1>0, <1>8, <1>10
<1>17. r[1] = Entry(<<"center", 1>>, Word(s.center[1])) /\ r[2] = Entry(<<"center", 2>>, Word(s.center[2]))
  BY <1>11
<1>18. \A n \in 1 .. Thresholds : r[2 + n] = Entry(Threshold(n), Word(s.thresholds[n]))
  BY <1>12
<1>19. /\ r[Thresholds + 3] = Entry(<<"valid", 0>>, Flag(s.calibrated))
       /\ r[Thresholds + 4] = Entry(<<"limit", 0>>, Marked(s.limit))
  BY <1>13
<1>20. ~s.reset => /\ r[Thresholds + 5] = Entry(<<"minimum", 0>>, Word(s.minimum))
                   /\ r[Thresholds + 6] = Entry(<<"maximum", 0>>, Word(s.maximum))
  BY <1>14
<1>21. /\ r[Len(r) - 1] = Entry(<<"reset", 0>>, Flag(s.reset))
       /\ r[Len(r)] = Entry(<<"format", 0>>, Format)
  BY <1>15
<1> HIDE DEF c, t, v, m, f, r
<1>22. Records(s) = r
  BY <1>9 DEF r
<1> QED
  BY <1>10, <1>16, <1>17, <1>18, <1>19, <1>20, <1>21, <1>22

\* The same of their indexes alone.
LEMMA IndexPlaces ==
    ASSUME NEW s \in SettingsType
    PROVE  LET R(m) == Records(s)[m].index
           IN  /\ R(1) = <<"center", 1>> /\ R(2) = <<"center", 2>>
               /\ \A n \in 1 .. Thresholds : R(2 + n) = Threshold(n)
               /\ R(Thresholds + 3) = <<"valid", 0>> /\ R(Thresholds + 4) = <<"limit", 0>>
               /\ ~s.reset => /\ R(Thresholds + 5) = <<"minimum", 0>>
                              /\ R(Thresholds + 6) = <<"maximum", 0>>
               /\ R(Len(Records(s)) - 1) = <<"reset", 0>>
               /\ R(Len(Records(s))) = <<"format", 0>>
<1>1. \A i, v : Entry(i, v).index = i
  BY DEF Entry
<1> QED
  BY <1>1, RecordPlaces

\* Every place is one of these.
LEMMA PlaceCases ==
    ASSUME NEW s \in SettingsType, NEW m \in 1 .. Len(Records(s))
    PROVE  \/ m \in {1, 2, Thresholds + 3, Thresholds + 4}
           \/ \E n \in 1 .. Thresholds : m = 2 + n
           \/ ~s.reset /\ m \in {Thresholds + 5, Thresholds + 6}
           \/ m \in {Len(Records(s)) - 1, Len(Records(s))}
<1>1. Thresholds \in Nat /\ Len(Records(s)) = IF s.reset THEN Thresholds + 6 ELSE Thresholds + 8
  BY RecordPlaces, SaveAssumption
<1>2. m >= 3 /\ m <= Thresholds + 2 => m - 2 \in 1 .. Thresholds /\ m = 2 + (m - 2)
  BY <1>1
<1> QED
  BY <1>1, <1>2

\* What a save stores is a function of the index, fits it, and is never nothing.
LEMMA RecordValues ==
    ASSUME NEW s \in SettingsType, NEW m \in 1 .. Len(Records(s))
    PROVE  LET r == Records(s)[m]
           IN  /\ r \in EntryType /\ r.value = ValueOf(s, r.index)
               /\ Fits(r.index, r.value) /\ r.value # Absent
<1> DEFINE r == Records(s)[m]
<1>1. r \in EntryType
  BY RecordPlaces
<1>2. /\ s.center[1] \in AnyWord /\ s.center[2] \in AnyWord
      /\ \A n \in 1 .. Thresholds : s.thresholds[n] \in AnyWord
      /\ s.calibrated \in BOOLEAN /\ s.limit \in Limits
      /\ s.minimum \in AnyWord /\ s.maximum \in AnyWord /\ s.reset \in BOOLEAN
  BY DEF SettingsType
<1>3. \A w \in AnyWord : Word(w) \in AbsentOrWord /\ Word(w) # Absent
  BY DEF AbsentOrWord, Word, Absent
<1>4. \A b \in BOOLEAN : Flag(b) \in {Word(0), Word(1)} /\ Flag(b) # Absent
  BY DEF Flag, Word, Absent
<1>5. Marked(s.limit) # Absent /\ Format # Absent
  BY DEF Marked, Absent, Format
<1>6. \/ \E k \in {1, 2} : r = Entry(<<"center", k>>, Word(s.center[k]))
      \/ \E n \in 1 .. Thresholds : r = Entry(Threshold(n), Word(s.thresholds[n]))
      \/ r = Entry(<<"valid", 0>>, Flag(s.calibrated))
      \/ r = Entry(<<"limit", 0>>, Marked(s.limit))
      \/ r = Entry(<<"minimum", 0>>, Word(s.minimum))
      \/ r = Entry(<<"maximum", 0>>, Word(s.maximum))
      \/ r = Entry(<<"reset", 0>>, Flag(s.reset))
      \/ r = Entry(<<"format", 0>>, Format)
  BY PlaceCases, RecordPlaces
<1>7. r.value \in Value
  BY <1>1 DEF EntryType
<1> DEFINE Good == r.value = ValueOf(s, r.index) /\ Fits(r.index, r.value) /\ r.value # Absent
<1>8. ASSUME NEW k \in {1, 2}, r = Entry(<<"center", k>>, Word(s.center[k])) PROVE Good
  BY <1>2, <1>3, <1>7, <1>8 DEF Entry, ValueOf, Fits, Plain, Flags
<1>9. ASSUME NEW n \in 1 .. Thresholds, r = Entry(Threshold(n), Word(s.thresholds[n])) PROVE Good
  BY <1>2, <1>3, <1>7, <1>9 DEF Entry, ValueOf, Fits, Plain, Flags, Threshold
<1>10. ASSUME r = Entry(<<"valid", 0>>, Flag(s.calibrated)) PROVE Good
  <2>1. r.index = <<"valid", 0>> /\ r.value = Flag(s.calibrated)
    BY <1>10 DEF Entry
  <2>2. r.index[1] = "valid"
    BY <2>1
  <2>3. ValueOf(s, r.index) = Flag(s.calibrated)
    BY <2>2 DEF ValueOf
  <2>4. Fits(r.index, r.value)
    BY <1>2, <1>4, <1>7, <2>1, <2>2 DEF Fits, Plain, Flags
  <2> QED
    BY <1>2, <1>4, <2>1, <2>3, <2>4
<1>11. ASSUME r = Entry(<<"limit", 0>>, Marked(s.limit)) PROVE Good
  <2>1. r.index = <<"limit", 0>> /\ r.value = Marked(s.limit)
    BY <1>11 DEF Entry
  <2>2. r.index[1] = "limit"
    BY <2>1
  <2>3. ValueOf(s, r.index) = Marked(s.limit)
    BY <2>2 DEF ValueOf
  <2>4. Fits(r.index, r.value)
    BY <1>2, <1>5, <1>7, <2>1, <2>2 DEF Fits, Plain, Flags
  <2> QED
    BY <1>2, <1>5, <2>1, <2>3, <2>4
<1>12. ASSUME r = Entry(<<"minimum", 0>>, Word(s.minimum)) PROVE Good
  <2>1. r.index = <<"minimum", 0>> /\ r.value = Word(s.minimum)
    BY <1>12 DEF Entry
  <2>2. r.index[1] = "minimum"
    BY <2>1
  <2>3. ValueOf(s, r.index) = Word(s.minimum)
    BY <2>2 DEF ValueOf
  <2>4. Fits(r.index, r.value)
    BY <1>2, <1>3, <1>7, <2>1, <2>2 DEF Fits, Plain, Flags
  <2> QED
    BY <1>2, <1>3, <2>1, <2>3, <2>4
<1>13. ASSUME r = Entry(<<"maximum", 0>>, Word(s.maximum)) PROVE Good
  <2>1. r.index = <<"maximum", 0>> /\ r.value = Word(s.maximum)
    BY <1>13 DEF Entry
  <2>2. r.index[1] = "maximum"
    BY <2>1
  <2>3. ValueOf(s, r.index) = Word(s.maximum)
    BY <2>2 DEF ValueOf
  <2>4. Fits(r.index, r.value)
    BY <1>2, <1>3, <1>7, <2>1, <2>2 DEF Fits, Plain, Flags
  <2> QED
    BY <1>2, <1>3, <2>1, <2>3, <2>4
<1>14. ASSUME r = Entry(<<"reset", 0>>, Flag(s.reset)) PROVE Good
  <2>1. r.index = <<"reset", 0>> /\ r.value = Flag(s.reset)
    BY <1>14 DEF Entry
  <2>2. r.index[1] = "reset"
    BY <2>1
  <2>3. ValueOf(s, r.index) = Flag(s.reset)
    BY <2>2 DEF ValueOf
  <2>4. Fits(r.index, r.value)
    BY <1>2, <1>4, <1>7, <2>1, <2>2 DEF Fits, Plain, Flags
  <2> QED
    BY <1>2, <1>4, <2>1, <2>3, <2>4
<1>15. ASSUME r = Entry(<<"format", 0>>, Format) PROVE Good
  <2>1. r.index = <<"format", 0>> /\ r.value = Format
    BY <1>15 DEF Entry
  <2>2. r.index[1] = "format"
    BY <2>1
  <2>3. ValueOf(s, r.index) = Format
    BY <2>2 DEF ValueOf
  <2>4. Fits(r.index, r.value)
    BY <1>5, <1>7, <2>1, <2>2 DEF Fits, Plain, Flags
  <2> QED
    BY <1>5, <2>1, <2>3, <2>4
<1>16. Good
  BY <1>6, <1>8, <1>9, <1>10, <1>11, <1>12, <1>13, <1>14, <1>15
<1> QED
  BY <1>1, <1>16

\* Where records are: the marker last, validity behind the thresholds, endpoints only in manual mode.
LEMMA RecordOrder ==
    ASSUME NEW s \in SettingsType, NEW m \in 1 .. Len(Records(s))
    PROVE  LET i == Records(s)[m].index
           IN  /\ i = <<"format", 0>> => m = Len(Records(s))
               /\ i = <<"valid", 0>> => m = Thresholds + 3
               /\ i \in Endpoints => ~s.reset
<1> DEFINE i == Records(s)[m].index
<1>1. Thresholds \in Nat /\ Len(Records(s)) = IF s.reset THEN Thresholds + 6 ELSE Thresholds + 8
  BY RecordPlaces, SaveAssumption
<1>2. ASSUME NEW n \in 1 .. Thresholds, m = 2 + n
      PROVE  i = Threshold(n)
  BY <1>2, IndexPlaces
<1>3. \A n \in 1 .. Thresholds : Threshold(n) \notin {<<"format", 0>>, <<"valid", 0>>} \cup Endpoints
  BY DEF Threshold, Endpoints
<1>4. ASSUME m \in {1, 2, Thresholds + 3, Thresholds + 4}
      PROVE  /\ i \in {<<"center", 1>>, <<"center", 2>>, <<"valid", 0>>, <<"limit", 0>>}
             /\ i = <<"valid", 0>> => m = Thresholds + 3
  <2>1. Records(s)[1].index = <<"center", 1>> /\ Records(s)[2].index = <<"center", 2>>
    BY IndexPlaces
  <2>2. /\ Records(s)[Thresholds + 3].index = <<"valid", 0>>
        /\ Records(s)[Thresholds + 4].index = <<"limit", 0>>
    BY IndexPlaces
  <2>3. {<<"center", 1>>, <<"center", 2>>, <<"limit", 0>>} \cap {<<"valid", 0>>} = {}
    OBVIOUS
  <2> QED
    BY <1>4, <2>1, <2>2, <2>3
<1>5. ASSUME ~s.reset, m \in {Thresholds + 5, Thresholds + 6}
      PROVE  i \in Endpoints
  BY <1>5, IndexPlaces DEF Endpoints
<1>6. ASSUME m \in {Len(Records(s)) - 1, Len(Records(s))}
      PROVE  \/ i = <<"reset", 0>>
             \/ i = <<"format", 0>> /\ m = Len(Records(s))
  BY <1>6, IndexPlaces
<1> HIDE DEF i
<1> SUFFICES /\ i = <<"format", 0>> => m = Len(Records(s))
             /\ i = <<"valid", 0>> => m = Thresholds + 3
             /\ i \in Endpoints => ~s.reset
  BY DEF i
<1> QED
  BY <1>2, <1>3, <1>4, <1>5, <1>6, PlaceCases DEF Endpoints

\* A save has a record for every index, but for the endpoints in automatic mode.
LEMMA RecordFor ==
    ASSUME NEW s \in SettingsType, NEW i \in Indexes, s.reset => i \notin Endpoints
    PROVE  \E m \in 1 .. Len(Records(s)) : Records(s)[m].index = i
<1>1. Thresholds \in Nat /\ Len(Records(s)) = IF s.reset THEN Thresholds + 6 ELSE Thresholds + 8
  BY RecordPlaces, SaveAssumption
<1>2. ASSUME NEW n \in 1 .. Thresholds, i = Threshold(n)
      PROVE  2 + n \in 1 .. Len(Records(s)) /\ Records(s)[2 + n].index = i
  BY <1>1, <1>2, IndexPlaces
<1>3. CASE i \in {<<"center", 1>>, <<"center", 2>>, <<"valid", 0>>, <<"limit", 0>>,
                  <<"reset", 0>>, <<"format", 0>>}
  <2>1. /\ {1, 2, Thresholds + 3, Thresholds + 4, Len(Records(s)) - 1, Len(Records(s))}
              \subseteq 1 .. Len(Records(s))
    BY <1>1
  <2> QED
    BY <1>3, <2>1, IndexPlaces
<1>4. CASE i \in Endpoints
  <2>1. ~s.reset /\ {Thresholds + 5, Thresholds + 6} \subseteq 1 .. Len(Records(s))
    BY <1>1, <1>4
  <2> QED
    BY <1>4, <2>1, IndexPlaces DEF Endpoints
<1> QED
  BY <1>2, <1>3, <1>4 DEF Indexes, Endpoints

-----------------------------------------------------------------------------
(* Types: what is stored fits its index, and a save is the rest of its records *)

LEMMA DefaultsType == Defaults \in SettingsType
  BY SaveAssumption DEF Defaults, SettingsType, AnyWord

LEMMA WordFits ==
    ASSUME NEW i \in Indexes, Fits(i, stored[i]), i[1] \in Plain, stored[i] # Absent
    PROVE  stored[i][1] = "word" /\ stored[i][2] \in AnyWord
  BY DEF Fits, AbsentOrWord, Word

LEMMA LimitFits ==
    ASSUME Fits(<<"limit", 0>>, stored[<<"limit", 0>>])
    PROVE  LimitLoaded \in Limits
<1>1. stored[<<"limit", 0>>] \in {Absent, Garbage} \cup {Marked(p) : p \in Limits}
  BY DEF Fits
<1> QED
  BY <1>1, SaveAssumption DEF LimitLoaded, Read, Absent, Garbage, Marked

LEMMA LoadedType ==
    ASSUME \A i \in Indexes : Fits(i, stored[i])
    PROVE  Loaded \in SettingsType
<1>1. /\ <<"center", 1>> \in Indexes /\ <<"center", 2>> \in Indexes /\ <<"limit", 0>> \in Indexes
      /\ <<"minimum", 0>> \in Indexes /\ <<"maximum", 0>> \in Indexes
      /\ \A n \in 1 .. Thresholds : Threshold(n) \in Indexes
  BY DEF Indexes
<1>2. 0 \in AnyWord
  BY SaveAssumption DEF AnyWord
<1>3. ASSUME NEW i \in {<<"center", 1>>, <<"center", 2>>, <<"minimum", 0>>, <<"maximum", 0>>}, IsWord(i)
      PROVE  Read(i) \in AnyWord
  BY <1>1, <1>3, WordFits DEF IsWord, Read, Plain, Absent
<1>4. CenterLoaded \in AnyWord \X AnyWord
  BY <1>2, <1>3 DEF CenterLoaded, Defaults
<1>5. ASSUME NEW n \in 1 .. Thresholds
      PROVE  PatternLoaded(n) \in AnyWord
  <2>1. Threshold(n)[1] \in Plain
    BY DEF Threshold, Plain
  <2> QED
    BY <1>1, <1>2, <2>1, WordFits DEF PatternLoaded, Read
<1>6. LimitLoaded \in Limits
  BY <1>1, LimitFits
<1>7. EndpointsValid => Read(<<"minimum", 0>>) \in AnyWord /\ Read(<<"maximum", 0>>) \in AnyWord
  BY <1>3 DEF EndpointsValid
<1>8. PatternCalibrated \in BOOLEAN
  BY DEF PatternCalibrated, PatternValid
<1>9. (IF EndpointsValid THEN Read(<<"minimum", 0>>) ELSE Defaults.minimum) \in AnyWord
  BY <1>2, <1>7 DEF Defaults
<1>10. (IF EndpointsValid THEN Read(<<"maximum", 0>>) ELSE Defaults.maximum) \in AnyWord
  BY <1>2, <1>7 DEF Defaults
<1>11. (IF IsWord(<<"reset", 0>>) THEN stored[<<"reset", 0>>] # Flag(FALSE) ELSE Defaults.reset) \in BOOLEAN
  BY DEF Defaults
<1>12. [n \in 1 .. Thresholds |-> PatternLoaded(n)] \in [1 .. Thresholds -> AnyWord]
  BY <1>5
<1> QED
  BY <1>4, <1>6, <1>8, <1>9, <1>10, <1>11, <1>12 DEF Loaded, SettingsType

LEMMA DamageFits ==
    ASSUME NEW i \in Indexes
    PROVE  /\ Fits(i, DamageOf(i)) /\ DamageOf(i) \notin {Absent, Format}
           /\ DamageOf(i) = IF i[1] \in Plain THEN Word(Damaged) ELSE Garbage
<1>1. i[1] \in Plain => DamageOf(i) = Word(Damaged)
  BY DEF DamageOf, Plain
<1>2. i[1] \notin Plain => DamageOf(i) = Garbage
  BY DEF DamageOf, Plain
<1>3. Word(Damaged) \in AbsentOrWord \cap Value /\ Word(Damaged) \notin {Absent, Format}
  BY DEF AbsentOrWord, AnyWord, Word, Absent, Format, Value
<1>4. Garbage \in Value /\ Garbage \notin {Absent, Format}
  BY DEF Garbage, Absent, Format, Value
<1> QED
  BY <1>1, <1>2, <1>3, <1>4 DEF Fits, Plain, Flags

\* The types as the lemmas about records name them.
LEMMA TypeFacts ==
    ASSUME TypeInv
    PROVE  /\ stored \in [Indexes -> Value] /\ settings \in SettingsType /\ saving \in Seq(EntryType)
           /\ Records(settings) \in Seq(EntryType)
           /\ Len(Records(settings)) \in Nat /\ Len(saving) \in Nat /\ Done \in Int
           /\ full => saving # << >> /\ dirty
<1>1. stored \in [Indexes -> Value] /\ settings \in SettingsType /\ saving \in Seq(EntryType)
  BY DEF TypeInv, SaveTypeOK, SettingsType, EntryType
<1>2. Records(settings) \in Seq(EntryType)
  BY <1>1, RecordPlaces
<1> QED
  BY <1>1, <1>2 DEF Done, TypeInv, SaveTypeOK

\* The next write of a save.
LEMMA HeadFacts ==
    ASSUME TypeInv, saving # << >>
    PROVE  /\ Head(saving) \in EntryType
           /\ Fits(Head(saving).index, Head(saving).value) /\ Head(saving).value # Absent
           /\ full => /\ Done + 1 \in 1 .. Len(Records(settings))
                      /\ Head(saving) = Records(settings)[Done + 1]
           /\ ~full => /\ Head(saving) = Entry(<<"limit", 0>>, Marked(settings.limit))
                       /\ Tail(saving) = << >>
<1>1. CASE full
  <2>1. Done + 1 \in 1 .. Len(Records(settings)) /\ Head(saving) = Records(settings)[Done + 1]
    BY <1>1, TypeFacts DEF TypeInv, Underway, Done
  <2> QED
    BY <1>1, <2>1, TypeFacts, RecordValues
<1>2. CASE ~full
  <2>1. saving = LimitWrite
    BY <1>2 DEF TypeInv, Underway
  <2>2. Head(saving) = Entry(<<"limit", 0>>, Marked(settings.limit)) /\ Tail(saving) = << >>
    BY <2>1 DEF LimitWrite
  <2>3. settings.limit \in Limits
    BY TypeFacts DEF SettingsType
  <2>4. <<"limit", 0>> \in Indexes /\ Marked(settings.limit) \in Value /\ Marked(settings.limit) # Absent
    BY <2>3 DEF Indexes, Value, Marked, Absent
  <2>5. Fits(<<"limit", 0>>, Marked(settings.limit))
    BY <2>3, <2>4 DEF Fits, Plain, Flags
  <2>6. Head(saving).index = <<"limit", 0>> /\ Head(saving).value = Marked(settings.limit)
    BY <2>2 DEF Entry
  <2> QED
    BY <1>2, <2>2, <2>4, <2>5, <2>6, TypeFacts
<1> QED
  BY <1>1, <1>2

\* A write, whatever becomes of it, stores something that fits.
Stores(v) == stored' = [stored EXCEPT ![Head(saving).index] = v]
Outcomes == {Head(saving).value, DamageOf(Head(saving).index)}

LEMMA StoresFits ==
    ASSUME TypeInv, saving # << >>, NEW v \in Outcomes, Stores(v)
    PROVE  /\ stored' \in [Indexes -> Value]
           /\ \A i \in Indexes : Fits(i, stored'[i])
           /\ v # Absent
<1>1. Head(saving).index \in Indexes
  BY HeadFacts DEF EntryType
<1>2. Fits(Head(saving).index, v) /\ v # Absent
  BY <1>1, HeadFacts, DamageFits DEF Outcomes
<1>3. v \in Value
  BY <1>2 DEF Fits
<1> QED
  BY <1>1, <1>2, <1>3, TypeFacts DEF Stores, TypeInv

\* A save that starts has everything to do.
LEMMA SaveStarts ==
    ASSUME settings' \in SettingsType, saving' = Records(settings'), full' = TRUE, on' = TRUE
    PROVE  Underway' /\ saving' \in Seq(EntryType) /\ saving' # << >>
<1>1. Records(settings') \in Seq(EntryType) /\ Len(Records(settings')) >= 6
  BY RecordPlaces, SaveAssumption
<1>2. Done' = 0
  BY <1>1 DEF Done
<1> QED
  BY <1>1, <1>2 DEF Underway

\* A successful write of a full save: what comes before it is still stored.
LEMMA WriteAdds ==
    ASSUME TypeInv, full, saving # << >>, Stores(Head(saving).value),
           NEW j \in 1 .. Done + 1
    PROVE  /\ j \in 1 .. Len(Records(settings))
           /\ stored'[Records(settings)[j].index] = Records(settings)[j].value
<1>1. Done + 1 \in 1 .. Len(Records(settings)) /\ Len(Records(settings)) \in Nat /\ Done \in Int
  BY HeadFacts, TypeFacts
<1>2. j \in 1 .. Len(Records(settings))
  BY <1>1
<1>3. /\ Records(settings)[j].index \in Indexes
      /\ Records(settings)[j].value = ValueOf(settings, Records(settings)[j].index)
  BY <1>2, TypeFacts, RecordValues DEF EntryType
<1>4. Head(saving).value = ValueOf(settings, Head(saving).index)
  BY HeadFacts, TypeFacts, RecordValues
<1>5. CASE Records(settings)[j].index = Head(saving).index
  BY <1>2, <1>3, <1>4, <1>5, TypeFacts DEF Stores
<1>6. CASE Records(settings)[j].index # Head(saving).index
  <2>1. j \in 1 .. Done
    BY <1>1, <1>6, HeadFacts
  <2> QED
    BY <1>2, <1>3, <1>6, <2>1, TypeFacts DEF Stores, TypeInv, Underway
<1> QED
  BY <1>5, <1>6

\* A save that advances.
LEMMA SaveAdvances ==
    ASSUME TypeInv, full, saving # << >>, Stores(Head(saving).value), saving' = Tail(saving),
           settings' = settings, Tail(saving) # << >>
    PROVE  /\ Done' = Done + 1 /\ Done' >= 0
           /\ \A j \in 1 .. Len(saving') : saving'[j] = Records(settings)[Done' + j]
           /\ \A j \in 1 .. Done' : stored'[Records(settings)[j].index] = Records(settings)[j].value
<1>1. saving \in Seq(EntryType) /\ Len(saving) \in Nat \ {0} /\ Len(Tail(saving)) = Len(saving) - 1
  BY TypeFacts
<1>2. Done' = Done + 1 /\ Done >= 0
  BY <1>1, TypeFacts DEF Done, TypeInv, Underway
<1>3. \A j \in 1 .. Len(saving') : saving'[j] = saving[j + 1] /\ j + 1 \in 1 .. Len(saving)
  BY <1>1
<1>4. \A j \in 1 .. Len(saving') : saving'[j] = Records(settings)[Done' + j]
  BY <1>1, <1>2, <1>3, TypeFacts DEF TypeInv, Underway
<1>5. \A j \in 1 .. Done' : stored'[Records(settings)[j].index] = Records(settings)[j].value
  BY <1>2, WriteAdds
<1>6. Done' >= 0
  BY <1>2, TypeFacts
<1> QED
  BY <1>2, <1>4, <1>5, <1>6

LEMMA TypeStep == TypeInv /\ [SaveNext]_saveVars => TypeInv'
<1> SUFFICES ASSUME TypeInv, [SaveNext]_saveVars PROVE TypeInv'
  OBVIOUS
<1> DEFINE Types == /\ stored \in [Indexes -> Value] /\ settings \in SettingsType
                    /\ saving \in Seq(EntryType) /\ \A i \in Indexes : Fits(i, stored[i])
                    /\ full => saving # << >> /\ dirty
           Flagged == /\ journal \in BOOLEAN /\ dirty \in BOOLEAN /\ full \in BOOLEAN
                      /\ on \in BOOLEAN /\ limitLost \in BOOLEAN
           Counted == /\ calibrations \in 0 .. MaxChanges /\ changes \in 0 .. MaxChanges
                      /\ calibrations <= changes
<1>0. Types /\ Flagged /\ Counted /\ faults \in 0 .. MaxFaults /\ Underway
  BY TypeFacts DEF TypeInv, SaveTypeOK
<1>n. MaxChanges \in Nat /\ MaxFaults \in Nat /\ Defaults \in SettingsType
  BY SaveAssumption, DefaultsType
<1>z. Types' /\ Flagged' /\ Counted' /\ (faults \in 0 .. MaxFaults)' /\ Underway' => TypeInv'
  BY DEF TypeInv, SaveTypeOK, SettingsType, EntryType
<1>s. ASSUME settings' \in SettingsType, Save(settings', TRUE), on' = TRUE, dirty' = TRUE,
             UNCHANGED stored
      PROVE  Types' /\ Underway' /\ full' = TRUE
  <2>1. saving' = Records(settings') /\ full' = TRUE
    BY <1>s DEF Save
  <2> QED
    BY <1>0, <1>s, <2>1, SaveStarts
<1>f. Faulty => faults' \in 0 .. MaxFaults
  BY <1>0, <1>n DEF Faulty
<1>1. CASE Boot
  <2>1. Flagged' /\ Counted' /\ (faults \in 0 .. MaxFaults)'
    <3>1. full' \in BOOLEAN
      BY <1>0, <1>1 DEF Boot, Save, progress
    <3> QED
      BY <1>0, <1>1, <3>1 DEF Boot
  <2>2. CASE Formatted
    <3>1. settings' = Loaded /\ UNCHANGED <<saving, full, stored>> /\ on' = TRUE /\ ~on
      BY <1>1, <2>2 DEF Boot, Save, progress
    <3>2. saving = << >> /\ ~full
      BY <1>0, <3>1 DEF Underway
    <3>3. settings' \in SettingsType
      BY <1>0, <3>1, LoadedType
    <3>4. Underway'
      BY <3>1, <3>2 DEF Underway
    <3>5. Types'
      BY <1>0, <3>1, <3>2, <3>3
    <3> QED
      BY <1>z, <2>1, <3>4, <3>5
  <2>3. CASE ~Formatted
    <3>1. settings' = Defaults /\ on' = TRUE /\ dirty' = TRUE /\ UNCHANGED stored
      BY <1>1, <2>3 DEF Boot
    <3>2. Save(settings', TRUE)
      BY <1>1, <2>3, <3>1 DEF Boot, Save
    <3> QED
      BY <1>n, <1>s, <1>z, <2>1, <3>1, <3>2
  <2> QED
    BY <2>2, <2>3
<1>2. CASE BootWithoutJournal
  <2>1. settings' = Defaults /\ on' = TRUE /\ dirty' = TRUE /\ UNCHANGED stored /\ Save(settings', TRUE)
    BY <1>2 DEF BootWithoutJournal, Save
  <2>2. Types' /\ Underway' /\ full' = TRUE
    BY <1>n, <1>s, <2>1
  <2>3. Flagged' /\ Counted' /\ (faults \in 0 .. MaxFaults)'
    <3>1. Faulty /\ journal' = FALSE /\ limitLost' = FALSE /\ UNCHANGED <<calibrations, changes>>
      BY <1>2 DEF BootWithoutJournal
    <3> QED
      BY <1>0, <1>f, <2>1, <2>2, <3>1
  <2> QED
    BY <1>z, <2>2, <2>3
<1>3. CASE LosePower
  <2>1. saving' = << >> /\ full' = FALSE /\ UNCHANGED <<stored, settings, dirty>>
    BY <1>3 DEF LosePower, memory
  <2>2. Types' /\ Underway'
    BY <1>0, <2>1 DEF Underway
  <2>3. Flagged' /\ Counted' /\ (faults \in 0 .. MaxFaults)'
    <3>1. Faulty /\ on' = FALSE /\ journal' = FALSE /\ UNCHANGED <<limitLost, calibrations, changes>>
      BY <1>3 DEF LosePower
    <3> QED
      BY <1>0, <1>f, <2>1, <3>1
  <2> QED
    BY <1>z, <2>2, <2>3
<1>4. CASE WriteRecord
  <2>1. /\ saving # << >> /\ Stores(Head(saving).value) /\ saving' = Tail(saving)
        /\ UNCHANGED <<journal, settings, on, calibrations, changes, faults>>
    BY <1>4 DEF WriteRecord, Stores
  <2>2. stored' \in [Indexes -> Value] /\ (\A i \in Indexes : Fits(i, stored'[i])) /\ on
    BY <1>0, <2>1, StoresFits DEF Outcomes, Underway
  <2>3. saving' \in Seq(EntryType)
    BY <1>0, <2>1
  <2>4. CASE Tail(saving) = << >> /\ full
    <3>1. dirty' = FALSE /\ full' = FALSE /\ limitLost' = FALSE
      BY <1>4, <2>4 DEF WriteRecord
    <3>2. Underway'
      BY <2>1, <2>2, <2>4, <3>1 DEF Underway
    <3> QED
      BY <1>0, <1>z, <2>1, <2>2, <2>3, <3>1, <3>2
  <2>5. CASE ~(Tail(saving) = << >> /\ full)
    <3>1. UNCHANGED <<dirty, full, limitLost>>
      BY <1>4, <2>5 DEF WriteRecord
    <3>2. CASE full
      <4>1. Underway'
        BY <2>1, <2>2, <2>5, <3>1, <3>2, SaveAdvances DEF Underway
      <4> QED
        BY <1>0, <1>z, <2>1, <2>2, <2>3, <2>5, <3>1, <3>2, <4>1
    <3>3. CASE ~full
      <4>1. saving' = << >>
        BY <2>1, <3>3, HeadFacts
      <4>2. Underway'
        BY <3>1, <3>3, <4>1 DEF Underway
      <4> QED
        BY <1>0, <1>z, <2>1, <2>2, <2>3, <3>1, <3>3, <4>2
    <3> QED
      BY <3>2, <3>3
  <2> QED
    BY <2>4, <2>5
<1>5. CASE WriteFails
  <2>1. /\ saving # << >> /\ saving' = << >> /\ full' = FALSE /\ dirty' = dirty
        /\ limitLost' = (limitLost \/ ~full)
        /\ UNCHANGED <<journal, settings, on, calibrations, changes>>
    BY <1>5 DEF WriteFails, DirtyAfterFailure
  <2>2. UNCHANGED stored \/ \E v \in Outcomes : Stores(v)
    BY <1>5 DEF WriteFails, Outcomes, Stores
  <2>3. stored' \in [Indexes -> Value] /\ \A i \in Indexes : Fits(i, stored'[i])
    BY <1>0, <2>1, <2>2, StoresFits
  <2>4. Types' /\ Underway'
    BY <1>0, <2>1, <2>3 DEF Underway
  <2>5. Flagged' /\ Counted' /\ (faults \in 0 .. MaxFaults)'
    <3>1. UNCHANGED faults \/ Faulty
      BY <1>5 DEF WriteFails
    <3>2. (faults \in 0 .. MaxFaults)'
      BY <1>0, <1>f, <3>1
    <3> QED
      BY <1>0, <2>1, <3>2
  <2> QED
    BY <1>z, <2>4, <2>5
<1>c. ASSUME Changing
      PROVE  /\ on /\ saving = << >> /\ ~full
             /\ changes' \in 0 .. MaxChanges /\ changes' = changes + 1
  BY <1>0, <1>c, <1>n DEF Changing
<1>a. ASSUME NEW s \in SettingsType, Changing, ChangeAndSave(s),
             calibrations' \in {calibrations, calibrations + 1}
      PROVE  TypeInv'
  <2>1. settings' = s /\ on' = TRUE /\ dirty' = TRUE /\ UNCHANGED stored /\ Save(settings', TRUE)
    BY <1>a, <1>c DEF ChangeAndSave, Save
  <2>2. Types' /\ Underway' /\ full' = TRUE
    BY <1>a, <1>s, <2>1
  <2>3. Flagged' /\ Counted' /\ (faults \in 0 .. MaxFaults)'
    BY <1>0, <1>a, <1>c, <1>n, <2>1, <2>2 DEF ChangeAndSave
  <2> QED
    BY <1>z, <2>2, <2>3
<1>w. Words \subseteq AnyWord
  BY DEF AnyWord
<1>6. CASE CaptureCenter
  <2>1. PICK low, high \in Words \ {0} : ChangeAndSave([settings EXCEPT !.center = <<low, high>>])
    BY <1>6 DEF CaptureCenter
  <2>2. [settings EXCEPT !.center = <<low, high>>] \in SettingsType
    BY <1>0, <1>w DEF SettingsType
  <2> QED
    BY <1>6, <1>a, <2>1, <2>2 DEF CaptureCenter
<1>7. CASE Calibrate
  <2>1. PICK w \in Words \ {0, settings.thresholds[1]} :
            ChangeAndSave([settings EXCEPT !.thresholds = [n \in 1 .. Thresholds |-> w], !.calibrated = TRUE])
    BY <1>7 DEF Calibrate
  <2>2. [settings EXCEPT !.thresholds = [n \in 1 .. Thresholds |-> w], !.calibrated = TRUE] \in SettingsType
    BY <1>0, <1>w DEF SettingsType
  <2> QED
    BY <1>7, <1>a, <2>1, <2>2 DEF Calibrate
<1>8. CASE ChangeAuxiliary
  <2>1. PICK lo, hi \in Words, automatic \in BOOLEAN :
            settings' = [settings EXCEPT !.minimum = lo, !.maximum = hi, !.reset = automatic]
    BY <1>8 DEF ChangeAuxiliary
  <2>2. settings' \in SettingsType
    BY <1>0, <1>w, <2>1 DEF SettingsType
  <2>3. dirty' = TRUE /\ UNCHANGED <<stored, journal, saving, full, on, limitLost, calibrations, faults>>
    BY <1>8 DEF ChangeAuxiliary, progress
  <2>4. Changing
    BY <1>8 DEF ChangeAuxiliary
  <2>5. Types' /\ Underway'
    BY <1>0, <1>c, <2>2, <2>3, <2>4 DEF Underway
  <2> QED
    BY <1>0, <1>c, <1>n, <1>z, <2>3, <2>4, <2>5
<1>9. CASE SetSteeringLimit
  <2>1. PICK requested \in Limits :
            LET marked == stored[<<"limit", 0>>][1] = "marked" /\ journal
                effective == IF marked THEN requested ELSE DefaultLimit
            IN  /\ settings' = [settings EXCEPT !.limit = effective]
                /\ \/ saving' = <<Entry(<<"limit", 0>>, Marked(effective))>>
                   \/ UNCHANGED saving
    BY <1>9 DEF SetSteeringLimit
  <2>2. PICK p \in Limits : /\ settings' = [settings EXCEPT !.limit = p]
                            /\ saving' \in {saving, <<Entry(<<"limit", 0>>, Marked(p))>>}
    BY <2>1, SaveAssumption
  <2>3. settings' \in SettingsType /\ settings'.limit = p
    BY <1>0, <2>2 DEF SettingsType
  <2>4. UNCHANGED <<stored, journal, dirty, full, on, limitLost, calibrations, faults>> /\ Changing
    BY <1>9 DEF SetSteeringLimit
  <2>5. <<Entry(<<"limit", 0>>, Marked(p))>> \in Seq(EntryType)
    BY DEF Entry, EntryType, Indexes, Value
  <2>6. saving' \in {<< >>, LimitWrite'}
    BY <1>c, <2>2, <2>3, <2>4 DEF LimitWrite
  <2>7. Types' /\ Underway'
    BY <1>0, <1>c, <2>2, <2>3, <2>4, <2>5, <2>6 DEF Underway
  <2> QED
    BY <1>0, <1>c, <1>n, <1>z, <2>4, <2>7
<1>10. CASE SaveNow
  <2>1. on /\ saving = << >> /\ dirty /\ Save(settings, TRUE)
        /\ UNCHANGED <<stored, journal, settings, dirty, on, limitLost, calibrations, changes, faults>>
    BY <1>10 DEF SaveNow, Save, memory
  <2>2. Types' /\ Underway' /\ full' = TRUE
    BY <1>0, <1>s, <2>1 DEF Save
  <2> QED
    BY <1>0, <1>z, <2>1, <2>2
<1>11. CASE UNCHANGED saveVars
  BY <1>11, <1>0 DEF saveVars, memory, progress, TypeInv, SaveTypeOK, Underway, Done, LimitWrite, Fits
<1> QED
  BY <1>1, <1>2, <1>3, <1>4, <1>5, <1>6, <1>7, <1>8, <1>9, <1>10, <1>11 DEF SaveNext

LEMMA TypeStart == SaveInit => TypeInv
<1> SUFFICES ASSUME SaveInit PROVE TypeInv
  OBVIOUS
<1>1. Absent \in Value /\ \A i \in Indexes : Fits(i, Absent)
  BY DEF Value, Fits, AbsentOrWord
<1>2. \A i \in Indexes : Fits(i, stored[i])
  BY <1>1 DEF SaveInit
<1>3. Underway
  BY DEF SaveInit, Underway
<1>4. SaveTypeOK
  <2>1. /\ stored \in [Indexes -> Value] /\ settings \in SettingsType /\ saving \in Seq(EntryType)
        /\ journal = FALSE /\ dirty = TRUE /\ full = FALSE /\ on = FALSE /\ limitLost = FALSE
        /\ calibrations = 0 /\ changes = 0 /\ faults = 0
    BY <1>1, DefaultsType DEF SaveInit
  <2>2. calibrations \in 0 .. MaxChanges /\ changes \in 0 .. MaxChanges /\ faults \in 0 .. MaxFaults
    BY <2>1, SaveAssumption
  <2> QED
    BY <2>1, <2>2 DEF SaveTypeOK, SettingsType, EntryType
<1>5. calibrations <= changes
  BY DEF SaveInit
<1> QED
  BY <1>2, <1>3, <1>4, <1>5 DEF TypeInv

LEMMA TypeInvariant == SaveSpec => []TypeInv
<1> QED
  BY TypeStart, TypeStep, PTL DEF SaveSpec

\* Every reachable state is well typed, whatever fails and wherever power is lost.
THEOREM SaveTypeCorrect == SaveSpec => []SaveTypeOK
<1>1. TypeInv => SaveTypeOK
  BY DEF TypeInv
<1> QED
  BY <1>1, TypeInvariant, PTL

-----------------------------------------------------------------------------
(* The format marker vouches for the rest *)

\* Only a running save writes, with the journal.
LEMMA StepStores ==
    ASSUME TypeInv, [SaveNext]_saveVars
    PROVE  \/ UNCHANGED stored
           \/ /\ saving # << >> /\ journal /\ on
              /\ UNCHANGED <<settings, journal, on, calibrations>>
              /\ \E v \in Outcomes : Stores(v)
<1>1. saving # << >> => on
  BY DEF TypeInv, Underway
<1>2. CASE WriteRecord
  BY <1>1, <1>2 DEF WriteRecord, Stores, Outcomes
<1>3. CASE WriteFails
  BY <1>1, <1>3 DEF WriteFails, Stores, Outcomes
<1>4. CASE ~WriteRecord /\ ~WriteFails
  BY <1>4 DEF SaveNext, saveVars, Boot, BootWithoutJournal, LosePower, CaptureCenter, Calibrate,
              ChangeAuxiliary, SetSteeringLimit, SaveNow, ChangeAndSave
<1> QED
  BY <1>2, <1>3, <1>4

\* The last write of a save leaves every record with its value.
LEMMA LastWrite ==
    ASSUME TypeInv, full, saving # << >>, Stores(Head(saving).value), Done + 1 = Len(Records(settings)),
           NEW i \in Indexes, settings.reset => i \notin Endpoints
    PROVE  stored'[i] = ValueOf(settings, i) /\ stored'[i] # Absent
<1>1. PICK m \in 1 .. Len(Records(settings)) : Records(settings)[m].index = i
  BY TypeFacts, RecordFor
<1>2. stored'[i] = Records(settings)[m].value
  BY <1>1, WriteAdds
<1>3. Records(settings)[m].value = ValueOf(settings, i) /\ Records(settings)[m].value # Absent
  BY <1>1, TypeFacts, RecordValues
<1> QED
  BY <1>2, <1>3

\* The marker can only come from the last write of a save.
LEMMA MarkerIsLast ==
    ASSUME TypeInv, saving # << >>, NEW v \in Outcomes, Stores(v), Formatted', ~Formatted
    PROVE  /\ full /\ Done + 1 = Len(Records(settings)) /\ v = Head(saving).value
<1>1. Head(saving).index = <<"format", 0>> /\ v = Format
  BY TypeFacts DEF Stores, Formatted
<1>2. full
  BY <1>1, HeadFacts DEF Entry
<1>3. v = Head(saving).value
  <2>1. <<"format", 0>> \in Indexes
    BY DEF Indexes
  <2> QED
    BY <1>1, <2>1, DamageFits DEF Outcomes
<1>4. Done + 1 = Len(Records(settings))
  BY <1>1, <1>2, HeadFacts, TypeFacts, RecordOrder
<1> QED
  BY <1>2, <1>3, <1>4

LEMMA CompleteStep == CompleteInv /\ [SaveNext]_saveVars => CompleteInv'
<1> SUFFICES ASSUME CompleteInv, [SaveNext]_saveVars PROVE FormattedIsComplete'
  BY TypeStep DEF CompleteInv
<1>0. TypeInv /\ FormattedIsComplete
  BY DEF CompleteInv
<1>1. CASE UNCHANGED stored
  BY <1>0, <1>1 DEF FormattedIsComplete, Formatted
<1>2. ASSUME saving # << >>, NEW v \in Outcomes, Stores(v)
      PROVE  FormattedIsComplete'
  <2>1. CASE Formatted
    BY <1>0, <1>2, <2>1, StoresFits, TypeFacts DEF FormattedIsComplete, Stores
  <2>2. CASE ~Formatted /\ Formatted'
    <3>1. \A i \in Indexes \ Endpoints : stored'[i] # Absent
      BY <1>0, <1>2, <2>2, MarkerIsLast, LastWrite
    <3> QED
      BY <3>1 DEF FormattedIsComplete, Endpoints
  <2>3. CASE ~Formatted'
    BY <2>3 DEF FormattedIsComplete
  <2> QED
    BY <2>1, <2>2, <2>3
<1> QED
  BY <1>0, <1>1, <1>2, StepStores

LEMMA CompleteStart == SaveInit => CompleteInv
<1>1. SaveInit => ~Formatted
  BY DEF SaveInit, Formatted, Absent, Format, Indexes
<1> QED
  BY <1>1, TypeStart DEF CompleteInv, FormattedIsComplete

LEMMA CompleteInvariant == SaveSpec => []CompleteInv
  BY CompleteStart, CompleteStep, PTL DEF SaveSpec

\* A load that accepts the format finds every record it needs, wherever saves were cut off.
THEOREM FormatCorrect == SaveSpec => []FormattedIsComplete
<1>1. CompleteInv => FormattedIsComplete
  BY DEF CompleteInv
<1> QED
  BY <1>1, CompleteInvariant, PTL

-----------------------------------------------------------------------------
(* Clean settings are the ones a load finds *)

\* What a complete save of s has stored, a load takes for s.
LEMMA SavedLoads ==
    ASSUME NEW s \in SettingsType,
           \A i \in Indexes : (s.reset => i \notin Endpoints) => stored'[i] = ValueOf(s, i),
           ~s.calibrated => \A n \in 1 .. Thresholds : s.thresholds[n] = 0
    PROVE  Formatted' /\ Alike(Loaded', s) /\ LimitLoaded' = s.limit
<1>1. /\ <<"center", 1>> \in Indexes /\ <<"center", 2>> \in Indexes /\ <<"valid", 0>> \in Indexes
      /\ <<"limit", 0>> \in Indexes /\ <<"minimum", 0>> \in Indexes /\ <<"maximum", 0>> \in Indexes
      /\ <<"reset", 0>> \in Indexes /\ <<"format", 0>> \in Indexes
      /\ \A n \in 1 .. Thresholds : Threshold(n) \in Indexes
  BY DEF Indexes
<1>2. /\ <<"center", 1>> \notin Endpoints /\ <<"center", 2>> \notin Endpoints
      /\ <<"valid", 0>> \notin Endpoints /\ <<"limit", 0>> \notin Endpoints
      /\ <<"reset", 0>> \notin Endpoints /\ <<"format", 0>> \notin Endpoints
      /\ \A n \in 1 .. Thresholds : Threshold(n) \notin Endpoints
  BY DEF Endpoints, Threshold
<1>3. /\ stored'[<<"center", 1>>] = Word(s.center[1]) /\ stored'[<<"center", 2>>] = Word(s.center[2])
      /\ stored'[<<"valid", 0>>] = Flag(s.calibrated) /\ stored'[<<"limit", 0>>] = Marked(s.limit)
      /\ stored'[<<"reset", 0>>] = Flag(s.reset) /\ stored'[<<"format", 0>>] = Format
  BY <1>1, <1>2 DEF ValueOf
<1>4. \A n \in 1 .. Thresholds : stored'[Threshold(n)] = Word(s.thresholds[n])
  BY <1>1, <1>2 DEF ValueOf, Threshold
<1>5. ~s.reset => /\ stored'[<<"minimum", 0>>] = Word(s.minimum)
                  /\ stored'[<<"maximum", 0>>] = Word(s.maximum)
  BY <1>1 DEF ValueOf
<1>6. /\ s.center \in AnyWord \X AnyWord /\ s.thresholds \in [1 .. Thresholds -> AnyWord]
      /\ s.calibrated \in BOOLEAN /\ s.reset \in BOOLEAN
      /\ s.minimum \in AnyWord /\ s.maximum \in AnyWord
  BY DEF SettingsType
<1>7. Formatted' /\ LimitLoaded' = s.limit
  BY <1>3 DEF Formatted, LimitLoaded, Read, Marked
<1>8. CenterLoaded' = s.center
  BY <1>3, <1>6 DEF CenterLoaded, IsWord, Read, Word
<1>9. PatternValid' = s.calibrated
  BY <1>3, <1>6 DEF PatternValid, Flag
<1>10. \A n \in 1 .. Thresholds : PatternLoaded(n)' = s.thresholds[n]
  BY <1>4, <1>9 DEF PatternLoaded, Read, Word, Absent
<1>11. [n \in 1 .. Thresholds |-> PatternLoaded(n)]' = s.thresholds
  BY <1>6, <1>10
<1>12. PatternCalibrated' = s.calibrated
  BY <1>4, <1>6, <1>9 DEF PatternCalibrated, Word, Absent
<1>13. /\ Loaded'.center = s.center /\ Loaded'.thresholds = s.thresholds /\ Loaded'.calibrated = s.calibrated
  BY <1>8, <1>11, <1>12 DEF Loaded
<1>14. Loaded'.reset = s.reset
  BY <1>3, <1>6 DEF Loaded, IsWord, Flag
<1>15. CASE s.reset
  BY <1>7, <1>13, <1>14, <1>15 DEF Alike, Afresh
<1>16. CASE ~s.reset
  <2>1. s.minimum \in Nat /\ s.maximum \in Nat
    BY <1>6, SaveAssumption DEF AnyWord
  <2>r. /\ Read(<<"minimum", 0>>)' = s.minimum /\ Read(<<"maximum", 0>>)' = s.maximum
        /\ IsWord(<<"minimum", 0>>)' /\ IsWord(<<"maximum", 0>>)'
    BY <1>5, <1>16 DEF IsWord, Read, Word
  <2>2. EndpointsValid' <=> s.minimum < s.maximum
    BY <2>r DEF EndpointsValid
  <2>3. CASE s.minimum < s.maximum
    <3>1. Loaded'.minimum = s.minimum /\ Loaded'.maximum = s.maximum
      BY <2>r, <2>2, <2>3 DEF Loaded
    <3> QED
      BY <1>7, <1>13, <1>14, <3>1 DEF Alike, Afresh
  <2>4. CASE ~(s.minimum < s.maximum)
    <3>1. Loaded'.minimum = 0 /\ Loaded'.maximum = 0
      BY <2>2, <2>4 DEF Loaded, Defaults
    <3>2. s.minimum >= s.maximum
      BY <2>1, <2>4
    <3>3. Afresh(s) /\ Afresh(Loaded')
      BY <3>1, <3>2 DEF Afresh
    <3> QED
      BY <1>7, <1>13, <3>3 DEF Alike
  <2> QED
    BY <2>3, <2>4
<1> QED
  BY <1>15, <1>16

\* A write of the steering limit changes nothing else of what a load finds.
LEMMA LimitAlone ==
    ASSUME stored \in [Indexes -> Value], NEW v, stored' = [stored EXCEPT ![<<"limit", 0>>] = v],
           NEW s, Formatted, Alike(Loaded, s)
    PROVE  Formatted' /\ Alike(Loaded', s)
<1>1. \A i \in Indexes \ {<<"limit", 0>>} : stored'[i] = stored[i]
  OBVIOUS
<1>2. /\ <<"center", 1>> \in Indexes \ {<<"limit", 0>>} /\ <<"center", 2>> \in Indexes \ {<<"limit", 0>>}
      /\ <<"valid", 0>> \in Indexes \ {<<"limit", 0>>} /\ <<"format", 0>> \in Indexes \ {<<"limit", 0>>}
      /\ <<"minimum", 0>> \in Indexes \ {<<"limit", 0>>} /\ <<"maximum", 0>> \in Indexes \ {<<"limit", 0>>}
      /\ <<"reset", 0>> \in Indexes \ {<<"limit", 0>>}
      /\ \A n \in 1 .. Thresholds : Threshold(n) \in Indexes \ {<<"limit", 0>>}
  BY DEF Indexes, Threshold
<1>3. Formatted' /\ CenterLoaded' = CenterLoaded /\ PatternValid' = PatternValid
      /\ EndpointsValid' = EndpointsValid
  BY <1>1, <1>2 DEF Formatted, CenterLoaded, PatternValid, EndpointsValid, IsWord, Read
<1>4. /\ \A n \in 1 .. Thresholds : PatternLoaded(n)' = PatternLoaded(n)
      /\ PatternCalibrated' = PatternCalibrated
  BY <1>1, <1>2, <1>3 DEF PatternLoaded, PatternCalibrated, Read
<1>5. [n \in 1 .. Thresholds |-> PatternLoaded(n)]' = [n \in 1 .. Thresholds |-> PatternLoaded(n)]
  BY <1>4
<1>6. /\ Loaded'.center = Loaded.center /\ Loaded'.thresholds = Loaded.thresholds
      /\ Loaded'.calibrated = Loaded.calibrated
  BY <1>3, <1>4, <1>5 DEF Loaded
<1>7. /\ Loaded'.minimum = Loaded.minimum /\ Loaded'.maximum = Loaded.maximum
      /\ Loaded'.reset = Loaded.reset
  BY <1>1, <1>2, <1>3 DEF Loaded, Read, IsWord
<1> QED
  BY <1>3, <1>6, <1>7 DEF Alike, Afresh

LEMMA LoadUncalibrated ==
    ASSUME CompleteInv, Formatted, ~PatternCalibrated, NEW n \in 1 .. Thresholds
    PROVE  PatternLoaded(n) = 0
<1>1. \A m \in 1 .. Thresholds : Threshold(m) \in Indexes \ Endpoints
  BY DEF Indexes, Threshold, Endpoints
<1>2. \A m \in 1 .. Thresholds : stored[Threshold(m)] # Absent
  BY <1>1 DEF CompleteInv, FormattedIsComplete, Endpoints
<1> QED
  BY <1>2 DEF PatternCalibrated, PatternLoaded

LEMMA UncalibratedStep == CompleteInv /\ Uncalibrated /\ [SaveNext]_saveVars => Uncalibrated'
<1> SUFFICES ASSUME CompleteInv, Uncalibrated, [SaveNext]_saveVars PROVE Uncalibrated'
  OBVIOUS
<1>0. settings \in SettingsType
  BY TypeFacts DEF CompleteInv
<1>1. CASE Boot
  <2>1. CASE Formatted
    <3>1. settings'.calibrated = PatternCalibrated
          /\ \A n \in 1 .. Thresholds : settings'.thresholds[n] = PatternLoaded(n)
      BY <1>1, <2>1 DEF Boot, Loaded
    <3> QED
      BY <2>1, <3>1, LoadUncalibrated DEF Uncalibrated
  <2>2. CASE ~Formatted
    BY <1>1, <2>2 DEF Boot, Uncalibrated, Defaults
  <2> QED
    BY <2>1, <2>2
<1>2. CASE BootWithoutJournal
  BY <1>2 DEF BootWithoutJournal, Uncalibrated, Defaults
<1>3. CASE Calibrate
  <2>1. settings'.calibrated = TRUE
    BY <1>0, <1>3 DEF Calibrate, ChangeAndSave, SettingsType
  <2> QED
    BY <2>1 DEF Uncalibrated
<1>4. CASE ~Boot /\ ~BootWithoutJournal /\ ~Calibrate
  <2>1. settings'.calibrated = settings.calibrated /\ settings'.thresholds = settings.thresholds
    <3>1. CASE CaptureCenter
      BY <1>0, <3>1 DEF CaptureCenter, ChangeAndSave, SettingsType
    <3>2. CASE ChangeAuxiliary
      BY <1>0, <3>2 DEF ChangeAuxiliary, SettingsType
    <3>3. CASE SetSteeringLimit
      BY <1>0, <3>3 DEF SetSteeringLimit, SettingsType
    <3>4. CASE ~CaptureCenter /\ ~ChangeAuxiliary /\ ~SetSteeringLimit
      BY <1>4, <3>4 DEF SaveNext, saveVars, memory, LosePower, WriteRecord, WriteFails, SaveNow
    <3> QED
      BY <3>1, <3>2, <3>3, <3>4
  <2> QED
    BY <2>1 DEF Uncalibrated
<1> QED
  BY <1>1, <1>2, <1>3, <1>4

LEMMA KeptStep == KeptInv /\ [SaveNext]_saveVars => KeptInv'
<1> DEFINE Limited == saving = << >> /\ ~limitLost => LimitLoaded = settings.limit
           Kept == Formatted /\ Alike(Loaded, settings) /\ Limited
<1> SUFFICES ASSUME KeptInv, [SaveNext]_saveVars, on', journal', ~dirty' PROVE Kept'
  BY CompleteStep, UncalibratedStep DEF KeptInv
<1>0. /\ TypeInv /\ CompleteInv /\ Uncalibrated
      /\ on /\ journal /\ ~dirty => Kept
  BY DEF KeptInv, CompleteInv
<1>t. /\ stored \in [Indexes -> Value] /\ settings \in SettingsType /\ saving \in Seq(EntryType)
      /\ full => saving # << >> /\ dirty
  BY <1>0, TypeFacts
<1>1. CASE Boot
  <2>1. Formatted /\ settings' = Loaded /\ UNCHANGED stored
    BY <1>1 DEF Boot
  <2>2. Formatted' /\ Loaded' = Loaded /\ LimitLoaded' = LimitLoaded
    BY <2>1 DEF Formatted, Loaded, LimitLoaded, CenterLoaded, PatternLoaded, PatternCalibrated,
                PatternValid, EndpointsValid, IsWord, Read
  <2>3. LimitLoaded = settings'.limit
    BY <2>1 DEF Loaded
  <2> QED
    BY <2>1, <2>2, <2>3 DEF Alike
<1>2. CASE BootWithoutJournal \/ LosePower \/ CaptureCenter \/ Calibrate \/ ChangeAuxiliary \/ SaveNow
  <2>1. BootWithoutJournal \/ CaptureCenter \/ Calibrate \/ ChangeAuxiliary => dirty' = TRUE
    BY DEF BootWithoutJournal, CaptureCenter, Calibrate, ChangeAuxiliary, ChangeAndSave
  <2>2. LosePower => on' = FALSE
    BY DEF LosePower
  <2>3. SaveNow => dirty /\ dirty' = dirty
    BY DEF SaveNow, memory
  <2> QED
    BY <1>2, <2>1, <2>2, <2>3
<1>l. ASSUME ~full, saving # << >>
      PROVE  Head(saving) = Entry(<<"limit", 0>>, Marked(settings.limit)) /\ Tail(saving) = << >>
  BY <1>0, <1>l, HeadFacts
<1>3. CASE WriteRecord
  <2>1. /\ saving # << >> /\ journal' = journal /\ on' = on /\ settings' = settings
        /\ Stores(Head(saving).value) /\ saving' = Tail(saving)
    BY <1>3 DEF WriteRecord, Stores
  <2>2. CASE full /\ Tail(saving) = << >>
    <3>1. Len(saving) = 1
      <4>1. Len(Tail(saving)) = Len(saving) - 1 /\ Len(saving) \in Nat
        BY <1>t, <2>1
      <4>2. Len(Tail(saving)) = 0
        <5>1. Tail(saving) = << >>
          BY <2>2
        <5>2. Len(<< >>) = 0
          OBVIOUS
        <5> QED
          BY <5>1, <5>2
      <4> QED
        BY <4>1, <4>2
    <3>2. Done + 1 = Len(Records(settings))
      BY <1>0, <3>1, TypeFacts DEF Done
    <3>3. \A i \in Indexes : (settings.reset => i \notin Endpoints) => stored'[i] = ValueOf(settings, i)
      BY <1>0, <2>1, <2>2, <3>2, LastWrite
    <3>4. ~settings.calibrated => \A n \in 1 .. Thresholds : settings.thresholds[n] = 0
      BY <1>0 DEF Uncalibrated
    <3> QED
      BY <1>t, <2>1, <3>3, <3>4, SavedLoads
  <2>3. CASE full /\ Tail(saving) # << >>
    BY <1>3, <1>t, <2>3 DEF WriteRecord
  <2>4. CASE ~full
    <3>1. UNCHANGED <<dirty, limitLost>>
      BY <1>3, <2>4 DEF WriteRecord
    <3>2. Formatted /\ Alike(Loaded, settings)
      BY <1>0, <2>1, <3>1
    <3>3. stored' = [stored EXCEPT ![<<"limit", 0>>] = Marked(settings.limit)]
      <4>1. Head(saving).index = <<"limit", 0>> /\ Head(saving).value = Marked(settings.limit)
        BY <1>l, <2>1, <2>4 DEF Entry
      <4> QED
        BY <2>1, <4>1 DEF Stores
    <3>4. Formatted' /\ Alike(Loaded', settings)
      BY <1>t, <3>2, <3>3, LimitAlone
    <3>5. LimitLoaded' = settings.limit
      BY <1>t, <3>3 DEF LimitLoaded, Read, Marked, Indexes
    <3> QED
      BY <2>1, <3>4, <3>5
  <2> QED
    BY <2>2, <2>3, <2>4
<1>4. CASE WriteFails
  <2>1. /\ saving # << >> /\ UNCHANGED <<dirty, on, journal, settings>> /\ limitLost' = (limitLost \/ ~full)
        /\ UNCHANGED stored \/ \E v \in Outcomes : Stores(v)
    BY <1>4 DEF WriteFails, DirtyAfterFailure, Stores, Outcomes
  <2>2. ~full /\ limitLost' /\ Formatted /\ Alike(Loaded, settings)
    BY <1>0, <1>t, <2>1
  <2>3. ASSUME NEW v, Stores(v) PROVE Formatted' /\ Alike(Loaded', settings)
    <3>1. stored' = [stored EXCEPT ![<<"limit", 0>>] = v]
      <4>1. Head(saving).index = <<"limit", 0>>
        BY <1>l, <2>1, <2>2 DEF Entry
      <4> QED
        BY <2>3, <4>1 DEF Stores
    <3> QED
      BY <1>t, <2>2, <3>1, LimitAlone
  <2>4. ASSUME UNCHANGED stored PROVE Formatted' /\ Alike(Loaded', settings)
    BY <2>2, <2>4 DEF Formatted, Loaded, LimitLoaded, CenterLoaded, PatternLoaded, PatternCalibrated,
                PatternValid, EndpointsValid, IsWord, Read
  <2> QED
    BY <2>1, <2>2, <2>3, <2>4
<1>u. ASSUME UNCHANGED stored
      PROVE  Formatted' = Formatted /\ Loaded' = Loaded /\ LimitLoaded' = LimitLoaded
  BY <1>u DEF Formatted, Loaded, LimitLoaded, CenterLoaded, PatternLoaded, PatternCalibrated,
              PatternValid, EndpointsValid, IsWord, Read
<1>5. CASE SetSteeringLimit
  <2>1. UNCHANGED <<stored, journal, dirty, on, limitLost>> /\ saving = << >>
    BY <1>5 DEF SetSteeringLimit, Changing
  <2>2. PICK requested \in Limits :
            LET marked == stored[<<"limit", 0>>][1] = "marked" /\ journal
                effective == IF marked THEN requested ELSE DefaultLimit
            IN  /\ settings' = [settings EXCEPT !.limit = effective]
                /\ \/ saving' = <<Entry(<<"limit", 0>>, Marked(effective))>>
                   \/ stored[<<"limit", 0>>] \in {Marked(effective), Garbage}
    BY <1>5 DEF SetSteeringLimit
  <2>3. PICK p : /\ settings' = [settings EXCEPT !.limit = p]
                 /\ \/ saving' = <<Entry(<<"limit", 0>>, Marked(p))>>
                    \/ stored[<<"limit", 0>>] = Marked(p)
                    \/ stored[<<"limit", 0>>] = Garbage /\ p = DefaultLimit
    BY <2>2 DEF Garbage
  <2>4. Alike(Loaded, settings) /\ Formatted
    BY <1>0, <2>1
  <2>5. Alike(Loaded, settings')
    BY <1>t, <2>3, <2>4 DEF Alike, Afresh, SettingsType
  <2>6. settings'.limit = p
    BY <1>t, <2>3 DEF SettingsType
  <2>7. saving' = << >> => LimitLoaded = p
    BY <2>3 DEF LimitLoaded, Read, Marked, Garbage
  <2> QED
    BY <1>u, <2>1, <2>4, <2>5, <2>6, <2>7
<1>6. CASE UNCHANGED saveVars
  <2>1. UNCHANGED <<stored, journal, dirty, on, limitLost, settings, saving>>
    BY <1>6 DEF saveVars, memory, progress
  <2> QED
    BY <1>0, <1>u, <2>1
<1> QED
  BY <1>1, <1>2, <1>3, <1>4, <1>5, <1>6 DEF SaveNext

LEMMA KeptStart == SaveInit => KeptInv
  BY CompleteStart DEF SaveInit, KeptInv, Uncalibrated, Defaults

LEMMA KeptInvariant == SaveSpec => []KeptInv
  BY KeptStart, KeptStep, PTL DEF SaveSpec

\* Settings alike, with the same limit, have the same effect.
LEMMA AlikeEffect ==
    ASSUME NEW s \in SettingsType, NEW t \in SettingsType, Alike(s, t), s.limit = t.limit
    PROVE  Effective(s) = Effective(t)
<1>0. 0 \in AnyWord
  BY SaveAssumption DEF AnyWord
<1>1. ASSUME NEW u \in SettingsType
      PROVE  /\ Effective(u) \in SettingsType
             /\ Effective(u).center = u.center /\ Effective(u).thresholds = u.thresholds
             /\ Effective(u).calibrated = u.calibrated /\ Effective(u).limit = u.limit
             /\ Effective(u).minimum = IF Afresh(u) THEN 0 ELSE u.minimum
             /\ Effective(u).maximum = IF Afresh(u) THEN 0 ELSE u.maximum
             /\ Effective(u).reset = Afresh(u)
  <2> DEFINE a == IF u.reset \/ u.minimum >= u.maximum THEN 0 ELSE u.minimum
             b == IF u.reset \/ u.minimum >= u.maximum THEN 0 ELSE u.maximum
             c == u.reset \/ u.minimum >= u.maximum
  <2>1. a \in AnyWord /\ b \in AnyWord /\ c \in BOOLEAN
    BY <1>0 DEF SettingsType
  <2>2. Effective(u) = [u EXCEPT !.minimum = a, !.maximum = b, !.reset = c]
    BY DEF Effective
  <2>3. Afresh(u) = c
    BY DEF Afresh
  <2> HIDE DEF a, b, c
  <2>4. /\ Effective(u) \in SettingsType
        /\ Effective(u).center = u.center /\ Effective(u).thresholds = u.thresholds
        /\ Effective(u).calibrated = u.calibrated /\ Effective(u).limit = u.limit
        /\ Effective(u).minimum = a /\ Effective(u).maximum = b /\ Effective(u).reset = c
    BY <2>1, <2>2 DEF SettingsType
  <2> QED
    BY <2>3, <2>4 DEF a, b, c
<1>2. Afresh(s) = Afresh(t)
  <2>1. Afresh(s) \in BOOLEAN /\ Afresh(t) \in BOOLEAN
    BY DEF Afresh, SettingsType
  <2> QED
    BY <2>1 DEF Alike
<1>3. ASSUME NEW u \in SettingsType, NEW v \in SettingsType,
             u.center = v.center, u.thresholds = v.thresholds, u.calibrated = v.calibrated,
             u.limit = v.limit, u.minimum = v.minimum, u.maximum = v.maximum, u.reset = v.reset
      PROVE  u = v
  BY <1>3 DEF SettingsType
<1>4. /\ Effective(s).minimum = Effective(t).minimum /\ Effective(s).maximum = Effective(t).maximum
      /\ Effective(s).reset = Effective(t).reset
  BY <1>1, <1>2 DEF Alike
<1> QED
  BY <1>1, <1>3, <1>4 DEF Alike

\* A reboot of a base with clean settings starts with the settings it ran with.
THEOREM KeptCorrect == SaveSpec => []CleanMeansKept
<1>1. KeptInv => CleanMeansKept
  <2> SUFFICES ASSUME KeptInv, on, journal, saving = << >>, ~dirty, ~limitLost
               PROVE  Formatted /\ Effective(Loaded) = Effective(settings)
    BY DEF CleanMeansKept
  <2>1. Formatted /\ Alike(Loaded, settings) /\ LimitLoaded = settings.limit
    BY DEF KeptInv
  <2>2. Loaded \in SettingsType /\ settings \in SettingsType /\ Loaded.limit = LimitLoaded
    BY LoadedType, TypeFacts DEF KeptInv, CompleteInv, TypeInv, Loaded
  <2> QED
    BY <2>1, <2>2, AlikeEffect
<1> QED
  BY <1>1, KeptInvariant, PTL

-----------------------------------------------------------------------------
(* One session of calibration *)

\* What a step that keeps the settings keeps of them.
KeepsPattern == /\ settings'.calibrated = settings.calibrated
                /\ settings'.thresholds = settings.thresholds

LEMMA StepKeepsPattern ==
    ASSUME settings \in SettingsType, [SaveNext]_saveVars, ~Boot, ~BootWithoutJournal, ~Calibrate
    PROVE  KeepsPattern /\ calibrations' = calibrations
<1>1. CASE CaptureCenter
  BY <1>1 DEF CaptureCenter, ChangeAndSave, SettingsType, KeepsPattern
<1>2. CASE ChangeAuxiliary
  BY <1>2 DEF ChangeAuxiliary, SettingsType, KeepsPattern
<1>3. CASE SetSteeringLimit
  BY <1>3 DEF SetSteeringLimit, SettingsType, KeepsPattern
<1>4. CASE ~CaptureCenter /\ ~ChangeAuxiliary /\ ~SetSteeringLimit
  BY <1>4 DEF SaveNext, saveVars, memory, LosePower, WriteRecord, WriteFails, SaveNow, KeepsPattern
<1> QED
  BY <1>1, <1>2, <1>3, <1>4

LEMMA LoadPattern ==
    ASSUME CompleteInv, Formatted
    PROVE  /\ PatternCalibrated = PatternValid
           /\ PatternValid => \A n \in 1 .. Thresholds : PatternLoaded(n) = stored[Threshold(n)][2]
<1>1. \A n \in 1 .. Thresholds : Threshold(n) \in Indexes \ Endpoints
  BY DEF Indexes, Threshold, Endpoints
<1>2. \A n \in 1 .. Thresholds : stored[Threshold(n)] # Absent
  BY <1>1 DEF CompleteInv, FormattedIsComplete, Endpoints
<1>3. PatternValid \in BOOLEAN
  BY DEF PatternValid
<1> QED
  BY <1>2, <1>3 DEF PatternCalibrated, PatternLoaded, Read

\* A write that makes the pattern valid is one of a full save of a calibrated pattern.
LEMMA ValidityWritten ==
    ASSUME TypeInv, saving # << >>, NEW v \in Outcomes, Stores(v), PatternValid', ~PatternValid
    PROVE  /\ full /\ v = Head(saving).value /\ settings.calibrated
           /\ \A n \in 1 .. Thresholds : stored'[Threshold(n)] = Word(settings.thresholds[n])
<1>0. settings \in SettingsType /\ Thresholds \in Nat /\ <<"valid", 0>> \in Indexes
  BY TypeFacts, SaveAssumption DEF Indexes
<1>1. Head(saving).index = <<"valid", 0>> /\ v = Flag(TRUE)
  BY <1>0, TypeFacts DEF Stores, PatternValid
<1>2. full
  BY <1>1, HeadFacts DEF Entry
<1>3. v = Head(saving).value
  BY <1>0, <1>1, DamageFits DEF Outcomes, Plain, Flag, Garbage
<1>4. Head(saving).value = Flag(settings.calibrated)
  BY <1>0, <1>1, <1>2, HeadFacts, RecordValues DEF ValueOf
<1>5. settings.calibrated
  BY <1>0, <1>1, <1>3, <1>4 DEF Flag, SettingsType
<1>6. Done + 1 = Thresholds + 3
  BY <1>0, <1>1, <1>2, HeadFacts, RecordOrder
<1>7. ASSUME NEW n \in 1 .. Thresholds
      PROVE  stored'[Threshold(n)] = Word(settings.thresholds[n])
  <2>1. 2 + n \in 1 .. Done + 1
    BY <1>0, <1>6
  <2>2. Records(settings)[2 + n].index = Threshold(n)
        /\ Records(settings)[2 + n].value = Word(settings.thresholds[n])
    <3>1. Records(settings)[2 + n] = Entry(Threshold(n), Word(settings.thresholds[n]))
      BY <1>0, RecordPlaces
    <3> QED
      BY <3>1 DEF Entry
  <2> QED
    BY <1>2, <1>3, <2>1, <2>2, WriteAdds
<1> QED
  BY <1>2, <1>3, <1>5, <1>7

\* A write of a threshold stores that of the settings, or damage.
LEMMA ThresholdWritten ==
    ASSUME TypeInv, saving # << >>, NEW v \in Outcomes, Stores(v), NEW n \in 1 .. Thresholds
    PROVE  stored'[Threshold(n)] \in {stored[Threshold(n)], Word(settings.thresholds[n]), Word(Damaged)}
<1>0. settings \in SettingsType /\ Threshold(n) \in Indexes
  BY TypeFacts DEF Indexes
<1>1. CASE Head(saving).index # Threshold(n)
  BY <1>0, <1>1, TypeFacts DEF Stores
<1>2. CASE Head(saving).index = Threshold(n)
  <2>1. full
    BY <1>2, HeadFacts DEF Entry, Threshold
  <2>2. Head(saving).value = Word(settings.thresholds[n])
    BY <1>0, <1>2, <2>1, HeadFacts, RecordValues DEF ValueOf, Threshold
  <2>3. DamageOf(Head(saving).index) = Word(Damaged)
    BY <1>0, <1>2, DamageFits DEF Threshold, Plain
  <2> QED
    BY <1>0, <1>2, <2>2, <2>3, TypeFacts DEF Stores, Outcomes
<1> QED
  BY <1>1, <1>2

LEMMA SessionStep == SessionInv /\ [SaveNext]_saveVars => SessionInv'
<1> DEFINE None == calibrations = 0 => ~settings.calibrated /\ ~PatternValid
           Believed == on /\ journal /\ Pattern => settings.calibrated
           Session == settings.calibrated \/ Pattern => \E w \in Words \ {0} : OfSession(w)
<1> SUFFICES ASSUME SessionInv, [SaveNext]_saveVars
             PROVE  None' /\ (calibrations' <= 1 => Believed' /\ Session')
  BY CompleteStep DEF SessionInv
<1>0. /\ CompleteInv /\ TypeInv /\ settings \in SettingsType /\ calibrations \in Nat
      /\ None /\ (calibrations <= 1 => Believed /\ Session)
  BY TypeFacts DEF SessionInv, CompleteInv, TypeInv, SaveTypeOK
<1>u. ASSUME UNCHANGED stored
      PROVE  Formatted' = Formatted /\ PatternValid' = PatternValid /\ Pattern' = Pattern
  BY <1>u DEF Formatted, PatternValid, Pattern
<1>1. CASE Boot
  <2>0. UNCHANGED <<stored, calibrations>>
    BY <1>1 DEF Boot
  <2>1. CASE Formatted
    <3>1. settings'.calibrated = PatternValid
          /\ (PatternValid => \A n \in 1 .. Thresholds : settings'.thresholds[n] = stored[Threshold(n)][2])
      BY <1>0, <1>1, <2>1, LoadPattern DEF Boot, Loaded
    <3>2. None' /\ Believed'
      BY <1>0, <1>u, <2>0, <3>1 DEF Pattern
    <3>3. ASSUME calibrations <= 1, PatternValid PROVE Session'
      <4>1. PICK w \in Words \ {0} : OfSession(w)
        BY <1>0, <2>1, <3>3 DEF Pattern
      <4>2. \A n \in 1 .. Thresholds : stored[Threshold(n)] \in {Word(w), Word(Damaged)}
        BY <2>1, <3>3, <4>1 DEF OfSession, Pattern
      <4>3. \A n \in 1 .. Thresholds : settings'.thresholds[n] \in {w, Damaged}
        BY <3>1, <3>3, <4>2 DEF Word
      <4>4. OfSession(w)'
        BY <2>0, <4>2, <4>3 DEF OfSession
      <4> QED
        BY <4>4
    <3>4. ~PatternValid => Session'
      BY <1>u, <2>0, <3>1 DEF Pattern
    <3> QED
      BY <2>0, <3>2, <3>3, <3>4
  <2>2. CASE ~Formatted
    <3>1. settings'.calibrated = FALSE
      BY <1>1, <2>2 DEF Boot, Defaults
    <3>2. ~Pattern'
      BY <1>u, <2>0, <2>2 DEF Pattern
    <3> QED
      BY <1>0, <1>u, <2>0, <3>1, <3>2
  <2> QED
    BY <2>1, <2>2
<1>2. CASE BootWithoutJournal
  <2>1. settings'.calibrated = FALSE /\ journal' = FALSE /\ UNCHANGED <<stored, calibrations>>
    BY <1>2 DEF BootWithoutJournal, Defaults
  <2>2. \A w : OfSession(w) => OfSession(w)'
    BY <1>u, <2>1 DEF OfSession
  <2> QED
    BY <1>0, <1>u, <2>1, <2>2
<1>3. CASE Calibrate
  <2>1. PICK w \in Words \ {0, settings.thresholds[1]} :
            settings' = [settings EXCEPT !.thresholds = [n \in 1 .. Thresholds |-> w], !.calibrated = TRUE]
    BY <1>3 DEF Calibrate, ChangeAndSave
  <2>2. settings'.calibrated = TRUE /\ \A n \in 1 .. Thresholds : settings'.thresholds[n] = w
    BY <1>0, <2>1 DEF SettingsType
  <2>3. calibrations' = calibrations + 1 /\ UNCHANGED stored
    BY <1>3 DEF Calibrate, ChangeAndSave
  <2>4. calibrations' <= 1 => ~Pattern'
    BY <1>0, <1>u, <2>3 DEF Pattern
  <2>5. calibrations' <= 1 => OfSession(w)'
    BY <2>2, <2>4 DEF OfSession
  <2> QED
    BY <1>0, <2>2, <2>3, <2>5
<1>4. CASE ~Boot /\ ~BootWithoutJournal /\ ~Calibrate
  <2>0. KeepsPattern /\ calibrations' = calibrations
    BY <1>0, <1>4, StepKeepsPattern
  <2>1. CASE UNCHANGED stored
    <3>1. on' /\ journal' => on /\ journal
      BY <1>4 DEF SaveNext, saveVars, LosePower, WriteRecord, WriteFails, CaptureCenter, ChangeAuxiliary,
                  SetSteeringLimit, SaveNow, ChangeAndSave, Changing
    <3>2. \A w : OfSession(w) => OfSession(w)'
      BY <1>u, <2>0, <2>1 DEF OfSession, KeepsPattern
    <3> QED
      BY <1>0, <1>u, <2>0, <2>1, <3>1, <3>2 DEF KeepsPattern
  <2>2. ASSUME saving # << >>, journal, on, UNCHANGED <<settings, journal, on>>,
               NEW v \in Outcomes, Stores(v)
        PROVE  None' /\ (calibrations' <= 1 => Believed' /\ Session')
    <3>1. None'
      BY <1>0, <2>0, <2>2, ValidityWritten DEF KeepsPattern
    <3>s. ASSUME calibrations <= 1, settings.calibrated
          PROVE  \E w \in Words \ {0} : \A n \in 1 .. Thresholds : settings.thresholds[n] \in {w, Damaged}
      BY <1>0, <3>s DEF OfSession
    <3>2. ASSUME calibrations <= 1, ~Pattern' PROVE Believed' /\ Session'
      <4>1. \A w : OfSession(w) => OfSession(w)'
        BY <2>0, <3>2 DEF OfSession, KeepsPattern
      <4> QED
        BY <1>0, <2>0, <3>2, <4>1 DEF KeepsPattern
    <3>3. ASSUME calibrations <= 1, settings.calibrated, 
                 \A n \in 1 .. Thresholds : stored'[Threshold(n)] = Word(settings.thresholds[n])
          PROVE  Believed' /\ Session'
      <4>1. PICK w \in Words \ {0} : \A n \in 1 .. Thresholds : settings.thresholds[n] \in {w, Damaged}
        BY <3>3, <3>s
      <4>2. OfSession(w)'
        BY <2>0, <3>3, <4>1 DEF OfSession, KeepsPattern
      <4> QED
        BY <2>0, <3>3, <4>2 DEF KeepsPattern
    <3>4. ASSUME calibrations <= 1, Pattern, Pattern' PROVE Believed' /\ Session'
      <4>1. settings.calibrated
        BY <1>0, <2>2, <3>4
      <4>2. PICK w \in Words \ {0} : OfSession(w)
        BY <1>0, <3>4
      <4>3. \A n \in 1 .. Thresholds : settings.thresholds[n] \in {w, Damaged}
        BY <4>1, <4>2 DEF OfSession
      <4>4. \A n \in 1 .. Thresholds : stored[Threshold(n)] \in {Word(w), Word(Damaged)}
        BY <3>4, <4>2 DEF OfSession
      <4>5. \A n \in 1 .. Thresholds : stored'[Threshold(n)] \in {Word(w), Word(Damaged)}
        BY <1>0, <2>2, <4>3, <4>4, ThresholdWritten
      <4>6. OfSession(w)'
        BY <2>0, <4>3, <4>5 DEF OfSession, KeepsPattern
      <4> QED
        BY <2>0, <4>1, <4>6 DEF KeepsPattern
    <3>5. ASSUME calibrations <= 1, ~Formatted, Pattern' PROVE Believed' /\ Session'
      <4>1. full /\ Done + 1 = Len(Records(settings)) /\ v = Head(saving).value
        BY <1>0, <2>2, <3>5, MarkerIsLast DEF Pattern
      <4>2. /\ <<"valid", 0>> \in Indexes \ Endpoints
            /\ \A n \in 1 .. Thresholds : Threshold(n) \in Indexes \ Endpoints
        BY DEF Indexes, Endpoints, Threshold
      <4>3. \A i \in Indexes \ Endpoints : stored'[i] = ValueOf(settings, i)
        BY <1>0, <2>2, <4>1, LastWrite
      <4>4. \A n \in 1 .. Thresholds : stored'[Threshold(n)] = Word(settings.thresholds[n])
        BY <4>2, <4>3 DEF ValueOf, Threshold
      <4>5. stored'[<<"valid", 0>>] = Flag(settings.calibrated)
        BY <4>2, <4>3 DEF ValueOf
      <4>6. settings.calibrated
        BY <1>0, <3>5, <4>5 DEF Pattern, PatternValid, Flag, SettingsType
      <4> QED
        BY <3>3, <3>5, <4>4, <4>6
    <3>6. ASSUME calibrations <= 1, ~PatternValid, Pattern' PROVE Believed' /\ Session'
      BY <1>0, <2>2, <3>3, <3>6, ValidityWritten DEF Pattern
    <3> QED
      BY <2>0, <3>1, <3>2, <3>4, <3>5, <3>6 DEF Pattern
  <2> QED
    BY <1>0, <2>1, <2>2, StepStores
<1> QED
  BY <1>1, <1>2, <1>3, <1>4

LEMMA SessionStart == SaveInit => SessionInv
<1>1. SaveInit => ~PatternValid /\ ~settings.calibrated
  BY DEF SaveInit, PatternValid, Defaults, Absent, Flag, Indexes
<1> QED
  BY <1>1, CompleteStart DEF SessionInv, Pattern

LEMMA SessionInvariant == SaveSpec => []SessionInv
  BY SessionStart, SessionStep, PTL DEF SaveSpec

\* Until a second calibration a boot takes the H-pattern for calibrated only with all the thresholds
\* of the one session.
THEOREM SessionCorrect == SaveSpec => []FirstCalibrationWhole
<1>1. SessionInv => FirstCalibrationWhole
  BY DEF SessionInv, OfSession, Pattern, FirstCalibrationWhole
<1> QED
  BY <1>1, SessionInvariant, PTL
=============================================================================
