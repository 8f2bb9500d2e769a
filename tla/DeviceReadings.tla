---------------------------- MODULE DeviceReadings ----------------------------
(***************************************************************************)
(* The times terminals report (device-time.ts, protocol.ts, isapi.ts).     *)
(* A ZKTeco terminal packs the time on its wall into a number; a Hikvision *)
(* one writes it, with or without its offset; the platform turns either    *)
(* into an instant with the time zone of the device, and instants into     *)
(* times of that zone for the bounds of a search.  The clocks of zones go  *)
(* back and forth.  Instants are hours since the first midnight (UTC) of   *)
(* Days, so that minutes and seconds are zero.                             *)
(***************************************************************************)
EXTENDS Integers, Sequences

CONSTANTS
    None,
    Zones,      \* zones there may be: the offset before and after a change, and when it is
    Days,       \* consecutive dates: year, month, day
    FirstHour,  \* when a behaviour starts
    LastHour,   \* bound on time
    MaxRecords  \* bound on punches

VARIABLES
    hour,   \* now
    zone,
    memory  \* the punches of terminals: at (when), and what each terminal has of it

readings == <<hour, zone, memory>>

-----------------------------------------------------------------------------
(* Zones and dates.                                                        *)

\* timezoneOffsetMinutes.
Offset(instant) == IF instant < zone.at THEN zone.before ELSE zone.after

\* Date.UTC, and back.
AsUTC(local) ==
    24 * ((CHOOSE i \in DOMAIN Days : Days[i] = local.date) - 1) + local.hour

FromUTC(n) == [date |-> Days[(n \div 24) + 1], hour |-> n % 24]

\* What a clock of the zone shows.
Wall(instant) == instant + Offset(instant)

\* Mutant: the offset at the reading taken for UTC is good enough.
OnePass(reading) == reading - Offset(reading)

(* localTimeToInstant, of a reading taken for UTC: the offset is looked up *)
(* again at the instant guessed with the first one.                        *)
ToInstant(reading) ==
    LET first == Offset(reading)
        guess == reading - first
        second == Offset(guess)
    IN  IF second = first THEN guess ELSE reading - second

LocalTimeToInstant(local) == ToInstant(AsUTC(local))

-----------------------------------------------------------------------------
(* The formats.                                                            *)

\* encodeTime: months of 31 days, years of 12 months.
EncodeTime(local) ==
    LET date == local.date IN
    ((date.year % 100) * 12 * 31 + (date.month - 1) * 31 + (date.day - 1)) * 86400
        + local.hour * 3600

DecodeTime(value) ==
    LET days == value \div 86400 IN
    [date |-> [year |-> ((days \div 31) \div 12) + 2000, month |-> ((days \div 31) % 12) + 1,
               day |-> (days % 31) + 1],
     hour |-> (value \div 3600) % 24]

\* formatLocalIso.
FormatLocalIso(instant) ==
    [local |-> FromUTC(Wall(instant)), offset |-> Offset(instant)]

\* parseIsapiTime.
ParseIsapiTime(text) ==
    IF text.offset = None THEN LocalTimeToInstant(text.local)
    ELSE AsUTC(text.local) - text.offset

(* toLog of the ZKTeco adapter, eventToLog of the Hikvision one.           *)
Timestamp(record) ==
    IF record.driver = "ZKTECO" THEN LocalTimeToInstant(DecodeTime(record.value))
    ELSE ParseIsapiTime(record.value)

-----------------------------------------------------------------------------
Init ==
    /\ hour = FirstHour
    /\ zone \in Zones
    /\ memory = <<>>

Pass ==
    /\ hour < LastHour
    /\ hour' = hour + 1
    /\ UNCHANGED <<zone, memory>>

\* attendanceRecord, or an event of either kind of firmware.
Written(driver, told) ==
    LET local == FromUTC(Wall(hour)) IN
    IF driver = "ZKTECO" THEN EncodeTime(local)
    ELSE IF told THEN FormatLocalIso(hour) ELSE [local |-> local, offset |-> None]

Punch ==
    /\ Len(memory) < MaxRecords
    /\ \E driver \in {"ZKTECO", "HIKVISION"}, told \in BOOLEAN :
          /\ driver = "ZKTECO" => ~told
          /\ memory' = Append(memory, [at |-> hour, driver |-> driver, told |-> told,
                                       value |-> Written(driver, told)])
    /\ UNCHANGED <<hour, zone>>

Next == Pass \/ Punch

Spec == Init /\ [][Next]_readings

-----------------------------------------------------------------------------
(* Properties.                                                             *)

(* A punch is dated at an instant whose time in the zone is the one the    *)
(* terminal showed, the very instant if the terminal told its offset;      *)
(* punches keep the order of the times shown, also around a change of the  *)
(* clocks; and the bound of a search is the instant it was made of.        *)
ReadingsAreKept ==
    /\ \A i \in DOMAIN memory :
          /\ Wall(Timestamp(memory[i])) = Wall(memory[i].at)
          /\ memory[i].told => Timestamp(memory[i]) = memory[i].at
          /\ \A j \in DOMAIN memory :
                ~memory[i].told /\ ~memory[j].told /\ Wall(memory[i].at) < Wall(memory[j].at)
                    => Timestamp(memory[i]) < Timestamp(memory[j])
    /\ ParseIsapiTime(FormatLocalIso(hour)) = hour
=============================================================================
