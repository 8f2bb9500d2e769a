--------------------------- MODULE HikvisionSearch ---------------------------
(***************************************************************************)
(* Downloading the events of a Hikvision terminal (hikvision.adapter.ts;   *)
(* the terminal is fake-device.ts).  A synchronization reads the clock of  *)
(* the terminal, then searches each kind of event on its own, page by      *)
(* page, while the terminal goes on recording; of what it finds it keeps   *)
(* what its cursor does not cover.  Every event has a serial number here   *)
(* and times are whole; a page size the terminal rejects, the HTTP and the *)
(* digest authentication below are left out.                               *)
(***************************************************************************)
EXTENDS Integers, Sequences, FiniteSets

CONSTANTS
    None,
    Minors,      \* the kinds searched, in order
    PageSize,
    Lookback,    \* initialLookbackDays
    Overlap,     \* overlapMinutes
    EndMargin,   \* SEARCH_END_MARGIN_MS
    LastTime,    \* bound on the clock of the terminal
    MaxEvents,   \* bound on events made
    MaxResets,   \* bound on corrections of the clock and wipes of the memory
    Crossings,   \* a search under way may be crossed by an event it has gone past
    HardResets   \* clock and counter may change where the cursor cannot tell, and nobody may poll

VARIABLES
    clock,    \* the terminal's
    events,   \* its memory: id, serial, time, minor
    serial,   \* the last number given
    made,     \* events ever made: the next id
    resets,
    mark,     \* the cursor: serial and time; or None
    search,   \* the synchronization under way, or None
    fetched,  \* ids of the events ever returned
    missing   \* history: those the last one had to return and did not

hikVars == <<clock, events, serial, made, resets, mark, search, fetched, missing>>

Ids(es) == {e.id : e \in es}

Init ==
    /\ clock = 1 /\ serial = 0 /\ made = 0 /\ resets = 0
    /\ events = {}
    /\ mark = None /\ search = None
    /\ fetched = {} /\ missing = {}

-----------------------------------------------------------------------------
(* The terminal.                                                           *)

(* The terminal is polled before an event is older than Lookback, and once *)
(* there is a cursor than Overlap.                                         *)
Tick ==
    /\ clock < LastTime
    /\ ~HardResets => \A e \in events : e.id \notin fetched =>
          /\ e.time >= clock + 1 - Lookback
          /\ mark # None => e.time >= clock + 1 - Overlap
    /\ clock' = clock + 1
    /\ UNCHANGED <<events, serial, made, resets, mark, search, fetched, missing>>

Record ==
    /\ made < MaxEvents
    /\ \E i \in DOMAIN Minors :
          /\ (~Crossings /\ search # None) => i >= search.kind /\ \A e \in events : e.time <= clock
          /\ events' = events \cup {[id |-> made, serial |-> serial + 1, time |-> clock, minor |-> Minors[i]]}
    /\ made' = made + 1
    /\ serial' = serial + 1
    /\ UNCHANGED <<clock, resets, mark, search, fetched, missing>>

(* Its clock is set back, while nobody searches and once the counter is    *)
(* past the cursor again, and no further than EndMargin behind an event    *)
(* that is still to be downloaded.                                         *)
SetBack ==
    /\ resets < MaxResets /\ resets' = resets + 1
    /\ ~HardResets => search = None /\ (mark # None => serial >= mark.serial)
    /\ \E time \in 1..(clock - 1) :
          /\ ~HardResets => \A e \in events : e.id \in fetched \/ e.time <= time + EndMargin
          /\ clock' = time
    /\ UNCHANGED <<events, serial, made, mark, search, fetched, missing>>

(* Its memory is wiped and the counter starts again: it takes a while, the *)
(* clock is right by then, more than one event had been numbered, and      *)
(* nobody is searching: a synchronization that finds events of either      *)
(* count keeps a number of the old one, under which it then passes over    *)
(* events of the time it keeps.                                            *)
Wipe ==
    /\ resets < MaxResets /\ resets' = resets + 1
    /\ clock < LastTime /\ clock' = clock + 1
    /\ ~HardResets =>
          search = None /\ (mark # None => mark.serial > 1 /\ mark.time <= clock)
    /\ events' = {} /\ serial' = 0
    /\ search' = IF search = None THEN None ELSE [search EXCEPT !.due = {}]
    /\ UNCHANGED <<made, mark, fetched, missing>>

-----------------------------------------------------------------------------
(* The adapter.                                                            *)

Later(a, b) == IF a > b THEN a ELSE b
Highest(values) == CHOOSE v \in values : \A w \in values : w <= v

\* Mutant: it starts from the newest event downloaded, whatever the clock says.
FromMark(now) == IF mark = None THEN now - Lookback ELSE Later(now - Lookback, mark.time - Overlap)

\* Where the search begins: the whole window when the clock is behind the cursor.
From(now) ==
    IF mark = None \/ now < mark.time THEN now - Lookback
    ELSE Later(now - Lookback, mark.time - Overlap)

(* sync, once the terminal has told its time.                              *)
BeginSearch ==
    /\ search = None
    /\ search' = [from |-> From(clock), to |-> clock + EndMargin, kind |-> 1, position |-> 0,
                  found |-> {}, due |-> Ids({e \in events : e.time >= clock - Lookback})]
    /\ UNCHANGED <<clock, events, serial, made, resets, mark, fetched, missing>>

Earlier(e, f) == e.time < f.time \/ (e.time = f.time /\ e.id < f.id)

\* What the terminal answers a search with, and the place of an event in it.
Matching(minor) ==
    {e \in events : e.minor = minor /\ search.from <= e.time /\ e.time <= search.to}

Place(e, matching) == Cardinality({f \in matching : Earlier(f, e)})

(* searchEvents, paginate: a page, and on to the next one or the next kind;*)
(* a page that starts before the end is never empty.                       *)
FetchPage ==
    /\ search # None /\ search.kind <= Len(Minors)
    /\ LET matching == Matching(Minors[search.kind])
           next == search.position + PageSize
           page == {e \in matching : /\ search.position <= Place(e, matching)
                                     /\ Place(e, matching) < next}
           more == next < Cardinality(matching)
       IN  search' = [search EXCEPT !.found = @ \cup page,
                                    !.position = IF more THEN next ELSE 0,
                                    !.kind = IF more THEN @ ELSE @ + 1]
    /\ UNCHANGED <<clock, events, serial, made, resets, mark, fetched, missing>>

\* A lower number on a later event: the counter has restarted.
Restarted(found) ==
    mark # None /\ \E e \in found : e.serial < mark.serial /\ e.time > mark.time

SelectNew(found) ==
    IF mark = None \/ Restarted(found) THEN found ELSE {e \in found : e.serial > mark.serial}

\* advance.
Advanced(found) ==
    LET selected == SelectNew(found)
        highest == Highest({e.serial : e \in selected})
        newest == Highest({e.time : e \in selected})
    IN  IF selected = {} THEN mark
        ELSE IF mark = None THEN [serial |-> highest, time |-> newest]
        ELSE [serial |-> IF Restarted(found) THEN highest ELSE Later(mark.serial, highest),
              time |-> Later(mark.time, newest)]

Finish ==
    /\ search # None /\ search.kind > Len(Minors)
    /\ fetched' = fetched \cup Ids(SelectNew(search.found))
    /\ mark' = Advanced(search.found)
    /\ missing' = search.due \ fetched'
    /\ search' = None
    /\ UNCHANGED <<clock, events, serial, made, resets>>

(* A request fails: the synchronization starts again, from the same cursor.*)
Abandon ==
    /\ search # None /\ search' = None
    /\ UNCHANGED <<clock, events, serial, made, resets, mark, fetched, missing>>

Next == Tick \/ Record \/ SetBack \/ Wipe \/ BeginSearch \/ FetchPage \/ Finish \/ Abandon

Spec == Init /\ [][Next]_hikVars

-----------------------------------------------------------------------------
(* Properties.                                                             *)

(* A synchronization that ends has returned, now or before, every event    *)
(* the terminal held when it began and that is not too old to be asked     *)
(* for: neither the clock nor the counter makes it pass over one.          *)
NothingMissed == missing = {}
=============================================================================
