---------------------------- MODULE SettingsSave ----------------------------
(***************************************************************************)
(* The base's settings (settings/persistence.c and its callers in            *)
(* firmware.c) over the map that settings/journal.c keeps and SettingsStore   *)
(* specifies: a save is a sequence of single writes, each of which takes      *)
(* effect, fails or is cut off by power loss on its own.                     *)
(*                                                                         *)
(* Modelled are the settings that share a rule with another: the two words    *)
(* of the wheel center, the thresholds and the validity of the H-pattern,     *)
(* the endpoints and the mode of the auxiliary axis, a steering limit with    *)
(* its setter of its own, and the format marker that makes a record valid.    *)
(***************************************************************************)
EXTENDS Naturals, Sequences

CONSTANTS
    Words,        \* the values a threshold, an endpoint or half a center may take, 0 among them
    Damaged,      \* the word a failed write can leave instead
    Thresholds,   \* how many thresholds the H-pattern has: nine
    Limits,       \* steering limits, of which
    DefaultLimit, \* WHEEL_STEERING_LIMIT_DEFAULT_PERCENT is one
    MaxChanges,   \* bound on the changes of settings
    MaxFaults     \* bound on power losses and failed writes

ASSUME SaveAssumption ==
    /\ Words \subseteq Nat /\ 0 \in Words /\ Damaged \in Nat \ Words
    /\ Thresholds \in Nat \ {0} /\ DefaultLimit \in Limits
    /\ MaxChanges \in Nat /\ MaxFaults \in Nat

VARIABLES
    stored,      \* what the journal keeps for each index
    journal,     \* is it initialized?
    settings,    \* BaseSettings
    dirty,       \* of BaseSettingsPersistence
    saving,      \* the writes a running call has still to do
    full,        \* is it base_settings_persistence_save that runs?
    on,          \* is the base running?
    limitLost,   \* has a write of the steering limit failed since the last save?  For properties.
    calibrations, \* complete calibrations of the H-pattern so far, for the properties
    changes, faults

memory == <<settings, dirty>>
progress == <<saving, full>>
saveVars == <<stored, journal, memory, progress, on, limitLost, calibrations, changes, faults>>

----------------------------------------------------------------------------
(* Indexes and records *)

Threshold(n) == <<"threshold", n>>
Indexes == {<<"format", 0>>, <<"center", 1>>, <<"center", 2>>, <<"valid", 0>>, <<"limit", 0>>,
            <<"minimum", 0>>, <<"maximum", 0>>, <<"reset", 0>>}
           \cup {Threshold(n) : n \in 1 .. Thresholds}

Absent == <<"absent", 0>>
Garbage == <<"garbage", 0>>
Word(w) == <<"word", w>>
Flag(b) == <<"word", IF b THEN 1 ELSE 0>>
Marked(p) == <<"marked", p>>
Format == <<"format", 0>>

\* Damage: a load accepts any word where it checks nothing, and does not accept it elsewhere.
DamageOf(index) == IF index[1] \in {"center", "threshold", "minimum", "maximum"}
                   THEN Word(Damaged) ELSE Garbage

Entry(index, value) == [index |-> index, value |-> value]

\* Broken variant: the format marker is the first record.
RecordsFormatFirst(s) ==
    <<Entry(<<"format", 0>>, Format),
      Entry(<<"center", 1>>, Word(s.center[1])), Entry(<<"center", 2>>, Word(s.center[2]))>>
    \o [n \in 1 .. Thresholds |-> Entry(Threshold(n), Word(s.thresholds[n]))]
    \o <<Entry(<<"valid", 0>>, Flag(s.calibrated)), Entry(<<"limit", 0>>, Marked(s.limit))>>
    \o (IF s.reset THEN << >> ELSE <<Entry(<<"minimum", 0>>, Word(s.minimum)),
                                     Entry(<<"maximum", 0>>, Word(s.maximum))>>)
    \o <<Entry(<<"reset", 0>>, Flag(s.reset))>>

\* Broken variant: the validity of the H-pattern is written before its thresholds.
RecordsValidFirst(s) ==
    <<Entry(<<"center", 1>>, Word(s.center[1])), Entry(<<"center", 2>>, Word(s.center[2])),
      Entry(<<"valid", 0>>, Flag(s.calibrated))>>
    \o [n \in 1 .. Thresholds |-> Entry(Threshold(n), Word(s.thresholds[n]))]
    \o <<Entry(<<"limit", 0>>, Marked(s.limit))>>
    \o (IF s.reset THEN << >> ELSE <<Entry(<<"minimum", 0>>, Word(s.minimum)),
                                     Entry(<<"maximum", 0>>, Word(s.maximum))>>)
    \o <<Entry(<<"reset", 0>>, Flag(s.reset)), Entry(<<"format", 0>>, Format)>>

\* The writes of base_settings_persistence_save: an uncalibrated center is zero, and the endpoints
\* are left alone in automatic mode.
Records(s) ==
    <<Entry(<<"center", 1>>, Word(s.center[1])), Entry(<<"center", 2>>, Word(s.center[2]))>>
    \o [n \in 1 .. Thresholds |-> Entry(Threshold(n), Word(s.thresholds[n]))]
    \o <<Entry(<<"valid", 0>>, Flag(s.calibrated)), Entry(<<"limit", 0>>, Marked(s.limit))>>
    \o (IF s.reset THEN << >> ELSE <<Entry(<<"minimum", 0>>, Word(s.minimum)),
                                     Entry(<<"maximum", 0>>, Word(s.maximum))>>)
    \o <<Entry(<<"reset", 0>>, Flag(s.reset)), Entry(<<"format", 0>>, Format)>>

----------------------------------------------------------------------------
(* Loading *)

\* base_settings_defaults; the default endpoints are out of order and stand for "none".
Defaults == [center |-> <<0, 0>>, thresholds |-> [n \in 1 .. Thresholds |-> 0],
             calibrated |-> FALSE, limit |-> DefaultLimit, minimum |-> 0, maximum |-> 0,
             reset |-> TRUE]

IsWord(i) == stored[i][1] = "word"
Read(i) == stored[i][2]

CenterLoaded == IF IsWord(<<"center", 1>>) /\ IsWord(<<"center", 2>>)
                THEN <<Read(<<"center", 1>>), Read(<<"center", 2>>)>> ELSE Defaults.center

PatternValid == stored[<<"valid", 0>>] = Flag(TRUE)

\* A threshold that cannot be read leaves the pattern uncalibrated.
PatternLoaded(n) == IF PatternValid /\ stored[Threshold(n)] # Absent
                    THEN Read(Threshold(n)) ELSE 0
PatternCalibrated == PatternValid /\ \A n \in 1 .. Thresholds : stored[Threshold(n)] # Absent

LimitLoaded == IF stored[<<"limit", 0>>][1] = "marked" THEN Read(<<"limit", 0>>) ELSE DefaultLimit

EndpointsValid == /\ IsWord(<<"minimum", 0>>) /\ IsWord(<<"maximum", 0>>)
                  /\ Read(<<"minimum", 0>>) < Read(<<"maximum", 0>>)

Formatted == stored[<<"format", 0>>] = Format

\* base_settings_persistence_load past the format check.
Loaded ==
    [center |-> CenterLoaded,
     thresholds |-> [n \in 1 .. Thresholds |-> PatternLoaded(n)],
     calibrated |-> PatternCalibrated,
     limit |-> LimitLoaded,
     minimum |-> IF EndpointsValid THEN Read(<<"minimum", 0>>) ELSE Defaults.minimum,
     maximum |-> IF EndpointsValid THEN Read(<<"maximum", 0>>) ELSE Defaults.maximum,
     reset |-> IF IsWord(<<"reset", 0>>) THEN stored[<<"reset", 0>>] # Flag(FALSE)
               ELSE Defaults.reset]

----------------------------------------------------------------------------
SaveInit == /\ stored = [i \in Indexes |-> Absent]
            /\ journal = FALSE /\ settings = Defaults /\ dirty = TRUE
            /\ saving = << >> /\ full = FALSE /\ on = FALSE
            /\ limitLost = FALSE /\ calibrations = 0 /\ changes = 0 /\ faults = 0

Faulty == faults < MaxFaults /\ faults' = faults + 1

\* Broken variant: clean settings are saved too.
SaveAlways(s, dirtied) == saving' = Records(s) /\ full' = TRUE

\* base_settings_persistence_save with the settings as they will be: nothing when clean.
Save(s, dirtied) == IF dirtied THEN saving' = Records(s) /\ full' = TRUE
                               ELSE UNCHANGED progress

\* initialize_base_settings: load, then save what the load left dirty.
Boot == /\ ~on /\ on' = TRUE /\ journal' = TRUE
        /\ settings' = IF Formatted THEN Loaded ELSE Defaults
        /\ dirty' = ~Formatted
        /\ Save(Defaults, ~Formatted)
        /\ limitLost' = FALSE
        /\ UNCHANGED <<stored, calibrations, changes, faults>>

\* The journal refuses to initialize: the base runs on defaults, and every write is refused.
BootWithoutJournal ==
    /\ ~on /\ Faulty /\ on' = TRUE /\ journal' = FALSE
    /\ settings' = Defaults /\ dirty' = TRUE
    /\ Save(Defaults, TRUE)
    /\ limitLost' = FALSE
    /\ UNCHANGED <<stored, calibrations, changes>>

LosePower == /\ on /\ Faulty /\ on' = FALSE /\ journal' = FALSE
             /\ saving' = << >> /\ full' = FALSE
             /\ UNCHANGED <<stored, memory, limitLost, calibrations, changes>>

\* One platform_storage_value_write that succeeds; the last one of a save makes it clean.
WriteRecord ==
    /\ saving # << >> /\ journal
    /\ stored' = [stored EXCEPT ![Head(saving).index] = Head(saving).value]
    /\ saving' = Tail(saving)
    /\ IF Tail(saving) = << >> /\ full
       THEN dirty' = FALSE /\ full' = FALSE /\ limitLost' = FALSE
       ELSE UNCHANGED <<dirty, full, limitLost>>
    /\ UNCHANGED <<journal, settings, on, calibrations, changes, faults>>

\* Broken variant: a save that fails counts as done.
DirtyAfterCleared == FALSE
\* What a failed write leaves of the dirty flag.
DirtyAfterFailure == dirty

\* A write that fails: it may have left its value or damage behind.  The rest is not tried, and
\* the caller does not look at the result.
WriteFails ==
    /\ saving # << >>
    /\ \/ /\ ~journal /\ UNCHANGED <<stored, faults>>
       \/ /\ journal /\ Faulty
          /\ \/ UNCHANGED stored
             \/ \E v \in {Head(saving).value, DamageOf(Head(saving).index)} :
                    stored' = [stored EXCEPT ![Head(saving).index] = v]
    /\ saving' = << >> /\ full' = FALSE
    /\ dirty' = DirtyAfterFailure
    /\ limitLost' = (limitLost \/ ~full)
    /\ UNCHANGED <<journal, settings, on, calibrations, changes>>

----------------------------------------------------------------------------
(* The callers *)

Changing == on /\ saving = << >> /\ changes < MaxChanges /\ changes' = changes + 1

\* Changed settings, marked dirty and saved at once.
ChangeAndSave(s) == /\ settings' = s /\ dirty' = TRUE /\ Save(s, TRUE)
                    /\ UNCHANGED <<stored, journal, on, limitLost, faults>>

\* capture_current_wheel_center
CaptureCenter == /\ Changing
                 /\ \E low, high \in Words \ {0} :
                        ChangeAndSave([settings EXCEPT !.center = <<low, high>>])
                 /\ UNCHANGED calibrations

\* A completed calibration of the H-pattern.  All its thresholds come from one session: they are
\* told apart by the session alone.
Calibrate == /\ Changing
             /\ \E w \in Words \ {0, settings.thresholds[1]} :
                    ChangeAndSave([settings EXCEPT !.thresholds = [n \in 1 .. Thresholds |-> w],
                                                   !.calibrated = TRUE])
             /\ calibrations' = calibrations + 1

\* service_auxiliary_axis: changed endpoints or mode wait for the next save.
ChangeAuxiliary ==
    /\ Changing
    /\ \E lo, hi \in Words, automatic \in BOOLEAN :
           settings' = [settings EXCEPT !.minimum = lo, !.maximum = hi, !.reset = automatic]
    /\ dirty' = TRUE
    /\ UNCHANGED <<stored, journal, progress, on, limitLost, calibrations, faults>>

\* base_settings_persistence_set_steering_limit: the record is repaired before a request counts,
\* only a changed percentage is written (a damaged record may show the right one), and the dirty
\* flag is left alone.
SetSteeringLimit ==
    /\ Changing
    /\ \E requested \in Limits :
           LET marked == stored[<<"limit", 0>>][1] = "marked" /\ journal
               effective == IF marked THEN requested ELSE DefaultLimit
           IN  /\ settings' = [settings EXCEPT !.limit = effective]
               /\ \/ /\ saving' = <<Entry(<<"limit", 0>>, Marked(effective))>>
                     /\ ~(marked /\ Read(<<"limit", 0>>) = effective)
                  \/ /\ UNCHANGED saving
                     /\ journal /\ stored[<<"limit", 0>>] \in {Marked(effective), Garbage}
    /\ UNCHANGED <<stored, journal, dirty, full, on, limitLost, calibrations, faults>>

\* A caller that saves without a change of its own: the profile save at power off, a mode change.
SaveNow == /\ on /\ saving = << >> /\ dirty
           /\ Save(settings, dirty)
           /\ UNCHANGED <<stored, journal, memory, on, limitLost, calibrations, changes, faults>>

SaveNext == \/ Boot \/ BootWithoutJournal \/ LosePower \/ WriteRecord \/ WriteFails
            \/ CaptureCenter \/ Calibrate \/ ChangeAuxiliary \/ SetSteeringLimit \/ SaveNow

SaveSpec == SaveInit /\ [][SaveNext]_saveVars

----------------------------------------------------------------------------
(* Properties *)

AnyWord == Words \cup {Damaged}
Value == {Absent, Garbage, Format} \cup {Word(w) : w \in AnyWord \cup {1}}
         \cup {Marked(p) : p \in Limits}

SaveTypeOK ==
    /\ stored \in [Indexes -> Value]
    /\ journal \in BOOLEAN /\ dirty \in BOOLEAN /\ full \in BOOLEAN /\ on \in BOOLEAN
    /\ limitLost \in BOOLEAN
    /\ settings \in [center : AnyWord \X AnyWord, thresholds : [1 .. Thresholds -> AnyWord],
                     calibrated : BOOLEAN, limit : Limits, minimum : AnyWord, maximum : AnyWord,
                     reset : BOOLEAN]
    /\ saving \in Seq([index : Indexes, value : Value])
    /\ full => dirty /\ saving # << >>
    /\ calibrations \in 0 .. MaxChanges /\ changes \in 0 .. MaxChanges /\ faults \in 0 .. MaxFaults

\* What the firmware makes of the settings: endpoints out of order or automatic mode start afresh.
Effective(s) == [s EXCEPT !.minimum = IF s.reset \/ s.minimum >= s.maximum THEN 0 ELSE @,
                          !.maximum = IF s.reset \/ s.minimum >= s.maximum THEN 0 ELSE @,
                          !.reset = s.reset \/ s.minimum >= s.maximum]

\* A reboot of a base whose settings are clean starts with the settings it ran with, whatever
\* failed or was cut off before; only a steering limit whose own write failed can differ.
CleanMeansKept ==
    on /\ journal /\ saving = << >> /\ ~dirty /\ ~limitLost =>
        Formatted /\ Effective(Loaded) = Effective(settings)

\* The format marker vouches for every record a load needs: it is written last.
FormattedIsComplete ==
    Formatted => \A i \in Indexes \ {<<"minimum", 0>>, <<"maximum", 0>>} : stored[i] # Absent

\* Until a second calibration has been made, a boot finds the H-pattern calibrated only with all
\* thresholds of the one session, however the saves of it were cut off or failed: the thresholds
\* are written before their validity, and a load with other values behind it is not formatted.
FirstCalibrationWhole ==
    calibrations <= 1 /\ Formatted /\ PatternValid =>
        \E w \in Words \ {0} :
            \A n \in 1 .. Thresholds : stored[Threshold(n)] \in {Word(w), Word(Damaged)}
=============================================================================
