-------------------------- MODULE SettingsJournal --------------------------
(***************************************************************************)
(* The flash journal of settings/journal.c, one logical page of it: three   *)
(* rotating flash pages ("slots"), of which one is the active log.  Every   *)
(* step is at most one flash operation, so a power loss can fall between    *)
(* any two of them.  The two logical pages of the code share no flash and   *)
(* no state but the initialized flag, so one of them shows the algorithm.   *)
(***************************************************************************)
EXTENDS Naturals, Sequences

CONSTANTS
    IndexCount,     \* SETTINGS_PER_LOGICAL_PAGE: 255 in the code
    PageRecords,    \* instructions after the header of a page: 1023 in the code
    RowLength,      \* SETTINGS_JOURNAL_ROW_INSTRUCTION_COUNT: 128 in the code
    Values,         \* 16-bit setting values
    NoValue,        \* the answer for an index with no record
    WornFaults      \* may a retirement fail once the epoch bit is cleared?

ASSUME JournalAssumption ==
    /\ IndexCount \in Nat \ {0}
    /\ PageRecords \in Nat /\ PageRecords > IndexCount
    /\ RowLength \in Nat \ {0}
    /\ NoValue \notin Values
    /\ WornFaults \in BOOLEAN

VARIABLES
    flash,   \* the three slots: a header and the records programmed after it
    active,  \* journal->active_slot (RAM)
    pc,      \* which flash operation the running call performs next
    call,    \* arguments of the write in progress
    reply,   \* what the last settings_journal_write returned
    resume,  \* the caller logical_page_compact returns to
    target,  \* target_slot of the running compaction
    next,    \* local_index of the copy loop
    row      \* the RAM row buffer of the copy loop

vars == <<flash, active, pc, call, reply, resume, target, next, row>>
copying == <<target, next, row>>

----------------------------------------------------------------------------
Index == 0 .. IndexCount - 1
Slot == 0 .. 2
After(s) == (s + 1) % 3
EpochLimit == 3                    \* SETTINGS_JOURNAL_SLOT_COUNT

\* A header is its active bit (cleared in the tag when active), its epoch bit and its counter.
\* Only the comparison of the counter with EpochLimit matters, so it saturates just above it.
Header == [active : BOOLEAN, epoch : BOOLEAN, count : 0 .. EpochLimit + 1]
Record == [index : Index, value : Values]
Page == [header : Header, recs : Seq(Record)]
ErasedPage == [header |-> [active |-> FALSE, epoch |-> TRUE, count |-> 0], recs |-> << >>]
InitialHeader == [active |-> TRUE, epoch |-> TRUE, count |-> 0]

NoCall == [index |-> NoValue, value |-> NoValue]

\* Broken variant: the scan runs forward, so the oldest record of an index wins.
LatestForward(recs, i) ==
    LET at == {k \in DOMAIN recs : recs[k].index = i}
    IN  IF at = {} THEN NoValue
        ELSE recs[CHOOSE k \in at : \A j \in at : k <= j].value

\* local_value_find: the backward scan answers with the last record of the index.
Latest(recs, i) ==
    LET at == {k \in DOMAIN recs : recs[k].index = i}
    IN  IF at = {} THEN NoValue
        ELSE recs[CHOOSE k \in at : \A j \in at : j <= k].value

\* free_instruction_find answers absent: records are programmed in order, so there is no gap.
Full(recs) == Len(recs) = PageRecords

ActiveSlots == {s \in Slot : flash[s].header.active}

\* The slot recovery keeps: the only active one or, of two, the one the other follows in rotation.
Retained == CHOOSE s \in ActiveSlots : ActiveSlots = {s} \/ After(s) \in ActiveSlots

EligibleSlot == \E s \in Slot : flash[s].header.epoch

\* Broken variant: rotation skips committed slots instead of slots with a cleared epoch bit.
TargetSlotUncommitted(s) == IF ~flash[After(s)].header.active THEN After(s) ELSE After(After(s))

\* The slot loop of logical_page_compact: the first slot after the current one whose epoch bit is
\* set; three misses leave the slot after the current one.
TargetSlot(s) ==
    LET eligible(d) == flash[(s + d) % 3].header.epoch
        first(d) == eligible(d) /\ \A e \in 1 .. d - 1 : ~eligible(e)
    IN  IF EligibleSlot THEN (s + CHOOSE d \in 1 .. 3 : first(d)) % 3 ELSE After(s)

\* The header of the target: the counter advances when rotation returns to slot zero, and the
\* epoch bit is cleared once the counter exceeds the slot count.
TargetHeader(h, t) ==
    LET count == IF t = 0 /\ h.count <= EpochLimit THEN h.count + 1 ELSE h.count
    IN  [h EXCEPT !.count = count, !.epoch = h.epoch /\ count <= EpochLimit]

----------------------------------------------------------------------------
Init == /\ flash = [s \in Slot |-> ErasedPage]
        /\ active = 0 /\ pc = "off"
        /\ call = NoCall /\ reply = "none" /\ resume = "none"
        /\ target = 0 /\ next = 0 /\ row = << >>

\* Leaving a call: a boot that fails leaves the journal uninitialized, a write answers its caller.
Return(answer) ==
    /\ pc' = IF resume = "boot" THEN "off" ELSE "idle"
    /\ reply' = IF resume = "boot" THEN reply ELSE answer
    /\ call' = NoCall /\ resume' = "none"

\* The locals of a compaction that is over.
ForgetCopy == target' = 0 /\ next' = 0 /\ row' = << >>

StartCompaction(caller) == pc' = "erase" /\ resume' = caller

\* settings_journal_initialize, no committed slot: logical_page_create, in two flash operations.
BootCreate == /\ pc = "off" /\ EligibleSlot /\ ActiveSlots = {}
              /\ flash' = [flash EXCEPT ![0] = ErasedPage]
              /\ pc' = "create"
              /\ UNCHANGED <<active, call, reply, resume, copying>>

Create == /\ pc = "create"
          /\ flash' = [flash EXCEPT ![0].header = InitialHeader]
          /\ active' = 0 /\ pc' = "idle"
          /\ UNCHANGED <<call, reply, resume, copying>>

\* One committed slot: use it.
BootSingle == /\ pc = "off" /\ EligibleSlot
              /\ \E s \in Slot : ActiveSlots = {s} /\ active' = s
              /\ pc' = "idle"
              /\ UNCHANGED <<flash, call, reply, resume, copying>>

\* Two committed slots: logical_page_recover erases the successor; a full page is then compacted.
BootRecover ==
    /\ pc = "off" /\ EligibleSlot
    /\ \E s \in Slot : /\ ActiveSlots = {s, After(s)}
                       /\ flash' = [flash EXCEPT ![After(s)] = ErasedPage]
                       /\ active' = s
                       /\ IF Full(flash[s].recs) THEN StartCompaction("boot")
                          ELSE pc' = "idle" /\ UNCHANGED resume
    /\ UNCHANGED <<call, reply, copying>>

\* settings_journal_write up to its first flash operation.
Write(i, v) == /\ pc = "idle"
               /\ call' = [index |-> i, value |-> v] /\ reply' = "none" /\ pc' = "check"
               /\ UNCHANGED <<flash, active, resume, copying>>

CheckEqual == /\ pc = "check" /\ Latest(flash[active].recs, call.index) = call.value
              /\ Return("ok")
              /\ UNCHANGED <<flash, active, copying>>

CheckFree == /\ pc = "check" /\ Latest(flash[active].recs, call.index) # call.value
             /\ IF Full(flash[active].recs) THEN StartCompaction("write")
                ELSE pc' = "append" /\ UNCHANGED resume
             /\ UNCHANGED <<flash, active, call, reply, copying>>

Append1(s, r) == flash' = [flash EXCEPT ![s].recs = Append(@, r)]

AppendRecord == /\ pc = "append"
                /\ Append1(active, call)
                /\ pc' = "finish"
                /\ UNCHANGED <<active, call, reply, resume, copying>>

\* The program operation fails, or its readback differs: the record is absent or its value damaged.
AppendFails == /\ pc = "append"
               /\ \/ UNCHANGED flash
                  \/ \E w \in Values : Append1(active, [index |-> call.index, value |-> w])
               /\ Return("failed")
               /\ UNCHANGED <<active, copying>>

\* The record is stored; the write that used the last instruction compacts before it answers.
Finish == /\ pc = "finish"
          /\ IF Full(flash[active].recs)
             THEN StartCompaction("trim") /\ UNCHANGED <<call, reply>>
             ELSE Return("ok")
          /\ UNCHANGED <<flash, active, copying>>

----------------------------------------------------------------------------
(* logical_page_compact, one flash operation a step. *)

EraseTarget == /\ pc = "erase" /\ TargetSlot(active) # active
               /\ target' = TargetSlot(active)
               /\ flash' = [flash EXCEPT ![target'] = ErasedPage]
               /\ next' = 0 /\ row' = << >> /\ pc' = "copy"
               /\ UNCHANGED <<active, call, reply, resume>>

ProgramRow(r) == flash' = [flash EXCEPT ![target].recs = @ \o r]

\* One turn of the copy loop; the row that reaches the row boundary is programmed.
CopyIndex ==
    /\ pc = "copy" /\ next < IndexCount
    /\ LET v == Latest(flash[active].recs, next)
           filled == IF v = NoValue THEN row ELSE Append(row, [index |-> next, value |-> v])
           boundary == (1 + Len(flash[target].recs) + Len(filled)) % RowLength = 0
       IN  IF v # NoValue /\ boundary
           THEN ProgramRow(filled) /\ row' = << >>
           ELSE row' = filled /\ UNCHANGED flash
    /\ next' = next + 1
    /\ UNCHANGED <<active, pc, call, reply, resume, target>>

\* The last, partly filled row.
CopyRest == /\ pc = "copy" /\ next = IndexCount
            /\ ProgramRow(row) /\ row' = << >> /\ pc' = "commit"
            /\ UNCHANGED <<active, call, reply, resume, target, next>>

ProgramHeader ==
    flash' = [flash EXCEPT ![target].header = TargetHeader(flash[active].header, target)]

\* Broken variant: RAM switches to the new slot before the old one is retired.
CommitSwitches == /\ pc = "commit"
                  /\ ProgramHeader
                  /\ active' = target /\ pc' = "retire"
                  /\ UNCHANGED <<call, reply, resume, copying>>

Commit == /\ pc = "commit"
          /\ ProgramHeader
          /\ pc' = "retire"
          /\ UNCHANGED <<active, call, reply, resume, copying>>

\* Broken variant: the old slot is retired by its header alone.
RetiredHeaderOnly(page) == [page EXCEPT !.header.active = FALSE]

\* The old slot is erased whole.
Retired(page) == ErasedPage

Retire ==
    /\ pc = "retire"
    /\ flash' = [flash EXCEPT ![active] = Retired(@)]
    /\ active' = target
    /\ CASE resume = "boot" -> pc' = "idle" /\ resume' = "none" /\ UNCHANGED <<call, reply>>
         [] resume = "trim" -> Return("ok")
         [] resume = "write" -> IF Full(flash[target].recs) THEN Return("failed")
                                ELSE pc' = "append" /\ resume' = "none" /\ UNCHANGED <<call, reply>>
    /\ ForgetCopy

\* Once the headers are worn (epoch bit cleared) a failed retirement is admitted only on request.
MayKeepBoth == WornFaults \/ TargetHeader(flash[active].header, target).epoch

\* A flash operation of the compaction fails: nothing happened, a prefix of the row was
\* programmed, or the header was programmed and its readback failed.
CompactionFails ==
    /\ \/ pc \in {"erase", "copy", "commit"} /\ UNCHANGED flash
       \/ pc = "copy" /\ \E n \in 1 .. Len(row) : ProgramRow(SubSeq(row, 1, n))
       \/ pc = "commit" /\ MayKeepBoth /\ ProgramHeader
       \/ pc = "retire" /\ MayKeepBoth /\ UNCHANGED flash
    /\ Return("failed") /\ ForgetCopy
    /\ UNCHANGED active

\* Power loss: RAM is gone, flash stays.
PowerLoss == /\ pc # "off"
             /\ pc' = "off" /\ call' = NoCall /\ reply' = "none" /\ resume' = "none"
             /\ active' = 0 /\ ForgetCopy
             /\ UNCHANGED flash

Next == \/ BootCreate \/ Create \/ BootSingle \/ BootRecover
        \/ \E i \in Index, v \in Values : Write(i, v)
        \/ CheckEqual \/ CheckFree \/ AppendRecord \/ AppendFails \/ Finish
        \/ EraseTarget \/ CopyIndex \/ CopyRest \/ Commit \/ Retire \/ CompactionFails
        \/ PowerLoss

Spec == Init /\ [][Next]_vars

----------------------------------------------------------------------------
(* Properties *)

Running == pc \notin {"off", "create"} /\ resume # "boot"

\* Every variable keeps its type, and a page never holds more records than it has room for.
TypeOK ==
    /\ flash \in [Slot -> Page]
    /\ \A s \in Slot : Len(flash[s].recs) <= PageRecords
    /\ active \in Slot /\ target \in Slot /\ next \in 0 .. IndexCount /\ row \in Seq(Record)
    /\ pc \in {"off", "create", "idle", "check", "append", "finish", "erase", "copy", "commit",
               "retire"}
    /\ call \in Record \cup {NoCall}
    /\ reply \in {"none", "ok", "failed"}
    /\ resume \in {"none", "boot", "write", "trim"}

\* What the flash alone says each index holds: the answer after the next successful boot.
Stored == [i \in Index |-> IF ActiveSlots = {} THEN NoValue
                           ELSE Latest(flash[Retained].recs, i)]

\* Whatever fails and whenever power goes, the flash is one settings_journal_initialize accepts:
\* at most two committed slots, the next in rotation being the newer, and a slot left to rotate to.
NeverLockedOut == /\ EligibleSlot
                  /\ \E s \in Slot : ActiveSlots \subseteq {s, After(s)}

\* settings_journal_read answers from the slot held in RAM; recovery picks a slot from the headers.
\* A running journal must read and extend the very slot a reboot would retain, at every step of a
\* compaction, or values it reported as stored are erased by the next boot.
RebootKeepsSession == Running => ActiveSlots # {} /\ Retained = active

OnlyExtended(s) ==
    /\ flash[s].header \in {ErasedPage.header, flash'[s].header}
    /\ Len(flash[s].recs) <= Len(flash'[s].recs)
    /\ \A k \in DOMAIN flash[s].recs : flash'[s].recs[k] = flash[s].recs[k]

\* Flash bits can only be cleared: a header is programmed into an erased instruction only, and
\* records are only ever added behind the ones a page holds, unless the page is erased whole.
ProgramsErasedOnly ==
    [][\A s \in Slot : flash'[s] = ErasedPage \/ OnlyExtended(s)]_flash

\* The journal implements the store it promises: rotation, recovery and every failure leave all
\* values alone except at the index of the write in progress, and "ok" means stored.
Store == INSTANCE SettingsStore WITH stored <- Stored, online <- Running
StoreSpec == Store!Spec
=============================================================================
