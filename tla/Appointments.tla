---------------------------- MODULE Appointments ----------------------------
(***************************************************************************)
(* One conversation's appointment record and the Google calendars it       *)
(* refers to (index.ts and the record's writers in conversationStore.ts).  *)
(*                                                                         *)
(* Eleven lanes write events and the record: bookings by the customer, by  *)
(* staff and by the agent, moves, edits on the console calendar, and two   *)
(* ways to cancel.  Each is a handler that awaits Google between its reads *)
(* of the record and its write, so handlers overlap.  A sweep reads booked *)
(* events back every quarter of an hour and repairs the record.            *)
(*                                                                         *)
(* A salesperson is named by the calendar it owns.  What the model leaves  *)
(* out of the record decides wording and reminders only: status (it is     *)
(* "confirmed" wherever an event is), the link, the reschedule latch.      *)
(***************************************************************************)
EXTENDS Naturals, FiniteSets

CONSTANTS
  Calendars,   \* the salespeople's calendars
  Times,       \* the hours an appointment may be at; all lie in the future
  Workers,     \* requests the server may be serving at one time
  None,        \* an empty field
  Lanes,       \* the handlers to consider
  Before,      \* the records the conversation may come with
  MaxJobs,     \* bound on the requests
  MaxTroubles  \* bound on failing calls and on edits in Google Calendar itself

AllLanes == {"customer", "staff", "autobook", "match", "outbound", "move", "exact",
             "confirm", "edit", "cancel", "decline"}

ASSUME AppointmentAssumption ==
  /\ None \notin Calendars /\ None \notin Times /\ None \notin Nat
  /\ Lanes \subseteq AllLanes
  /\ MaxJobs \in Nat /\ MaxTroubles \in Nat

VARIABLES
  events,    \* Google: the events by id
  appt,      \* conv.appointment
  jobs,      \* the request each worker serves
  sweep,     \* what the calendar sweep has read
  blame,     \* history: which of the things that excuse a disagreement occurred
  begun, troubles   \* counters of the bounds

vars == <<events, appt, jobs, sweep, blame, begun, troubles>>

Ids == 1..MaxJobs + 1   \* one there from before, and a request inserts at most one
Status == {"unused", "live", "no_show", "cancelled"}
Unused == [cal |-> None, time |-> None, status |-> "unused"]
Events == [cal : Calendars \union {None}, time : Times \union {None}, status : Status]

Slots == [cal : Calendars, time : Times]
Slot(c, t) == [cal |-> c, time |-> t]

NoBooking == [event |-> None, cal |-> None, sp |-> None, slot |-> None, when |-> None]
Records == [event : Ids \union {None},         \* bookedEventId
            cal : Calendars \union {None},     \* bookedCalendarId
            sp : Calendars \union {None},      \* bookedSalespersonId
            slot : Slots \union {None},        \* matchedSlot
            when : Times \union {None}]        \* whenIso

\* Each lane's booking: with or without the calendar and the slot.
Standing ==
  {NoBooking} \union
  {record \in [event : {1}, cal : Calendars \union {None}, sp : Calendars,
               slot : Slots \union {None}, when : Times] :
     /\ record.cal \in {None, record.sp}
     /\ record.slot \in {None, Slot(record.sp, record.when)}}

ASSUME BeforeAssumption == Before \subseteq Standing

Idle == [lane |-> "none", at |-> "idle", ev |-> None, src |-> None,
         cal |-> None, time |-> None, what |-> "book", ok |-> TRUE]
Jobs == [lane : AllLanes \union {"none"},
         at : {"idle", "ask", "open", "freebusy", "move", "patch", "cancelPrior", "insert", "record"},
         ev : Ids \union {None},               \* the event it works on
         src : Calendars \union {None},        \* where it believes that event is
         cal : Calendars \union {None},        \* the calendar it books on
         time : Times \union {None},           \* and the hour
         what : {"book", "cancel", "no_show"},
         ok : BOOLEAN]                         \* no call of Google has thrown

NotLooking == [at |-> "idle", status |-> "unused", time |-> None]
Looks == [at : {"idle", "read"}, status : Status, time : Times \union {None}]

\* "disturbed": handlers overlapped or a call of Google threw, which excuses all.
Blames == {"disturbed", "booked_over", "slot_match", "wrong_calendar", "outside"}

TypeOK ==
  /\ events \in [Ids -> Events]
  /\ appt \in Records
  /\ jobs \in [Workers -> Jobs]
  /\ sweep \in Looks
  /\ blame \subseteq Blames
  /\ begun \in 0..MaxJobs /\ troubles \in 0..MaxTroubles

\* The event a record from before refers to.
Origin(record) ==
  [e \in Ids |-> IF e # record.event THEN Unused
                 ELSE [cal |-> record.sp, time |-> record.when, status |-> "live"]]

\* The conversation comes with a record of before; its booking stands.
Init ==
  /\ appt \in Before
  /\ events = Origin(appt)
  /\ jobs = [w \in Workers |-> Idle]
  /\ sweep = NotLooking
  /\ blame = {}
  /\ begun = 0 /\ troubles = 0

Excuse(more) ==
  blame' = IF "disturbed" \in blame \union more THEN {"disturbed"} ELSE blame \union more

Busy(e) == events[e].status \in {"live", "no_show"}
On(e, c) == e \in Ids /\ events[e].status # "unused" /\ events[e].cal = c

----------------------------------------------------------------------------
\* The record's writers.

\* mutant: the calendar identity survives
Mut_Teardown == [NoBooking EXCEPT !.event = appt.event, !.sp = appt.sp]

\* applyAppointmentTeardown
Teardown == NoBooking

\* applyAppointmentBookingRecord for a lane that has just written event e: only
\* the exact-slot lane writes whose calendar holds it, three lanes note the slot,
\* and the matched slot's hour is on the record already.
Booked(lane, e, c, t) ==
  [appt EXCEPT !.event = e, !.sp = c,
               !.when = IF lane = "match" THEN @ ELSE t,
               !.cal = IF lane = "exact" THEN c ELSE @,
               !.slot = IF lane \in {"staff", "autobook", "outbound"} THEN Slot(c, t) ELSE @]

\* mutant: the slot's fields are swapped
Mut_Matched(c, t) == [appt EXCEPT !.when = t, !.slot = Slot(t, c)]

\* confirmAppointmentIfMatchesSuggested: the record has the slot's hour
Matched(c, t) == [appt EXCEPT !.when = t, !.slot = Slot(c, t)]

\* a NO to the day-before reminder: the calendar and the slot stay
Declined == [appt EXCEPT !.event = None, !.sp = None, !.when = None]

\* the fields bookConfirmedAppointmentSlot and the voice booking write
Confirmed(e, c, t) ==
  [event |-> e, cal |-> c, sp |-> c, slot |-> Slot(c, t), when |-> t]

\* what an edit on the console calendar does to a record that holds e
Edited(c, t) == [appt EXCEPT !.cal = c, !.sp = c, !.when = t]

----------------------------------------------------------------------------
\* A request comes in: the handler up to its first await of Google.

Overlap ==
  IF sweep.at # "idle" \/ \E w \in Workers : jobs[w].at # "idle" THEN {"disturbed"} ELSE {}

\* Any free worker will do.
Free(w) == w = CHOOSE v \in Workers : jobs[v].at = "idle"

Takes(w, lane) ==
  lane \in Lanes /\ begun < MaxJobs /\ jobs[w].at = "idle" /\ Free(w)

Begin(w, lane, job) ==
  /\ jobs' = [jobs EXCEPT ![w] = [job EXCEPT !.lane = lane]]
  /\ begun' = begun + 1
  /\ Excuse(Overlap)
  /\ UNCHANGED <<events, sweep, troubles>>

Want(c, t) == [Idle EXCEPT !.cal = c, !.time = t]

\* The public link asks whether the slot is free, the widget inserts at once.  So
\* do the turns in which the customer names an hour; most of them are only taken
\* while nothing is booked.
CustomerBooks(w) == Takes(w, "customer") /\ \E c \in Calendars, t \in Times, first \in {"freebusy", "insert"} :
  Begin(w, "customer", [Want(c, t) EXCEPT !.at = first]) /\ UNCHANGED appt

StaffBooks(w) == Takes(w, "staff") /\ \E c \in Calendars, t \in Times :
  Begin(w, "staff", [Want(c, t) EXCEPT !.at = "freebusy"]) /\ UNCHANGED appt

\* mutant: the booked event is not looked at
Mut_SlotAutobook(w) == Takes(w, "autobook") /\ \E c \in Calendars, t \in Times :
  /\ Begin(w, "autobook", [Want(c, t) EXCEPT !.at = "insert"])
  /\ UNCHANGED appt

\* The customer takes a slot the agent offered.
SlotAutobook(w) == Takes(w, "autobook") /\ \E c \in Calendars, t \in Times :
  /\ appt.event = None
  /\ Begin(w, "autobook", [Want(c, t) EXCEPT !.at = "insert"])
  /\ UNCHANGED appt

\* The customer's text fits a suggested slot: the record has the slot's hour at
\* once, whatever event it holds.
SlotMatch(w) == Takes(w, "match") /\ \E c \in Calendars, t \in Times :
  /\ appt' = Matched(c, t)
  /\ jobs' = [jobs EXCEPT ![w] = [Idle EXCEPT !.lane = "match", !.at = "open"]]
  /\ begun' = begun + 1
  /\ Excuse(Overlap \union IF appt.event # None THEN {"slot_match"} ELSE {})
  /\ UNCHANGED <<events, sweep, troubles>>

\* Staff text that the visit is settled, which only counts while nothing is
\* booked.  A slot that fits is on the record at once; another time is after the
\* booking parser has answered.
ManualOutbound(w) == Takes(w, "outbound") /\ \E t \in Times :
  /\ appt.event = None
  /\ \/ Begin(w, "outbound", [Want(None, t) EXCEPT !.at = "ask"]) /\ UNCHANGED appt
     \/ /\ Begin(w, "outbound", [Want(None, t) EXCEPT !.at = "open"])
        /\ \E c \in Calendars : appt' = Matched(c, t)

\* The customer agrees to a new hour for the event on record.
RescheduleMove(w) == Takes(w, "move") /\ \E c \in Calendars, t \in Times :
  /\ appt.event # None
  /\ Begin(w, "move", [Want(c, t) EXCEPT !.at = "open"])
  /\ UNCHANGED appt

\* The customer names an hour: primarySp is read before the free/busy lookups.
ExactMove(w) == Takes(w, "exact") /\ \E c \in Calendars, t \in Times :
  /\ appt.event # None
  /\ Begin(w, "exact", [Want(c, t) EXCEPT !.at = "open", !.src = appt.sp])
  /\ UNCHANGED appt

\* bookConfirmedAppointmentSlot and the voice booking, which also looks for the
\* event on its salesperson's calendar.
ConfirmBooking(w) == Takes(w, "confirm") /\
  \E c \in Calendars, t \in Times,
     src \in {appt.cal, IF appt.cal # None THEN appt.cal ELSE appt.sp} :
    /\ Begin(w, "confirm",
             [Want(c, t) EXCEPT !.ev = appt.event, !.src = src,
                !.at = IF appt.event = None \/ src = None THEN "insert"
                       ELSE IF src = c THEN "patch" ELSE "cancelPrior"])
    /\ UNCHANGED appt

\* PATCH /calendar/events: staff drag, reassign, cancel or mark an event they see
\* on the console, which always sends an hour.
CalendarEdit(w) == Takes(w, "edit") /\
  \E e \in Ids, c \in Calendars, t \in Times, what \in {"book", "cancel", "no_show"} :
    /\ events[e].status = "live"
    /\ Begin(w, "edit",
             [Want(c, t) EXCEPT !.ev = e, !.src = events[e].cal, !.what = what,
                !.at = IF c # events[e].cal THEN "move" ELSE "patch"])
    /\ UNCHANGED appt

\* cancelBookedAppointmentForConversation
CustomerCancels(w) ==
  /\ Takes(w, "cancel")
  /\ appt.event # None
  /\ Begin(w, "cancel", [Idle EXCEPT !.at = "open", !.ev = appt.event, !.what = "cancel"])
  /\ UNCHANGED appt

\* The customer answers NO to the reminder of the day before.
CustomerDeclines(w) ==
  /\ Takes(w, "decline")
  /\ appt.event # None
  /\ Begin(w, "decline", [Idle EXCEPT !.at = "open", !.what = "cancel"])
  /\ UNCHANGED appt

----------------------------------------------------------------------------
\* What a handler reads again after its first awaits.

\* Most handlers end in their catch; a failed outbound booking and a failed
\* cancellation go on to tear the record down.
Failed(j) == [Idle EXCEPT !.lane = j.lane, !.at = "record", !.ok = FALSE]

Step(w, job) == jobs' = [jobs EXCEPT ![w] = job]
At(w, lanes, place) == jobs[w].lane \in lanes /\ jobs[w].at = place

\* The hour goes on the record.  An event booked meanwhile ends the booking.
OutboundSays(w) ==
  /\ At(w, {"outbound"}, "ask")
  /\ appt' = [appt EXCEPT !.when = jobs[w].time]
  /\ Step(w, IF appt.event = None THEN [jobs[w] EXCEPT !.at = "open"] ELSE Failed(jobs[w]))
  /\ UNCHANGED <<events, sweep, blame, begun, troubles>>

\* A slot on the record is booked as it is, whatever hour staff named; without
\* one a salesperson's calendar is looked up.
OutboundOpens(w) ==
  /\ At(w, {"outbound"}, "open")
  /\ \/ /\ appt.slot # None
        /\ Step(w, [jobs[w] EXCEPT !.at = "insert", !.cal = appt.slot.cal,
                                   !.time = appt.slot.time])
     \/ /\ appt.slot = None
        /\ \E c \in Calendars : Step(w, [jobs[w] EXCEPT !.at = "freebusy", !.cal = c])
  /\ UNCHANGED <<events, appt, sweep, blame, begun, troubles>>

\* Mail, and a thread that people answer, leave it at the record, and so does a
\* booked visit nobody asked to move.  Else its event is moved, or one is booked.
MatchOpens(w) ==
  /\ At(w, {"match"}, "open")
  /\ \/ Step(w, Idle)
     \/ /\ appt.slot # None /\ appt.event = None
        /\ Step(w, [jobs[w] EXCEPT !.at = "insert", !.cal = appt.slot.cal,
                                   !.time = appt.slot.time])
     \/ /\ appt.slot # None /\ appt.event # None
        /\ Step(w, [jobs[w] EXCEPT !.lane = "move", !.at = "patch", !.ev = appt.event,
                     !.cal = IF appt.sp # None THEN appt.sp ELSE appt.slot.cal,
                     !.time = appt.slot.time])
  /\ UNCHANGED <<events, appt, sweep, blame, begun, troubles>>

\* An event that has left the record meanwhile makes the call throw.
MoveOpens(w) ==
  /\ At(w, {"move", "exact"}, "open")
  /\ LET j == jobs[w]
         src == IF j.lane = "move"
                THEN IF appt.sp # None THEN appt.sp ELSE j.cal
                ELSE IF appt.cal # None THEN appt.cal ELSE j.src
     IN  Step(w, IF appt.event = None THEN Idle
                 ELSE [j EXCEPT !.ev = appt.event, !.src = src,
                                !.at = IF src # j.cal THEN "move" ELSE "patch"])
  /\ UNCHANGED <<events, appt, sweep, blame, begun, troubles>>

\* Where staff approve what is sent, the new hour is offered instead.
ExactOffers(w) ==
  /\ At(w, {"exact"}, "open")
  /\ appt' = [appt EXCEPT !.slot = Slot(jobs[w].cal, jobs[w].time)]
  /\ Step(w, Idle)
  /\ UNCHANGED <<events, sweep, blame, begun, troubles>>

SlotCal == IF appt.slot # None THEN appt.slot.cal ELSE None

\* The cancellation looks for the event where the record says it is, else where
\* its slot was, else on its salesperson's calendar; after a NO, on that one or
\* where the slot was.
CancelOpens(w) ==
  /\ At(w, {"cancel", "decline"}, "open")
  /\ LET j == jobs[w]
         e == IF j.lane = "cancel" THEN j.ev ELSE appt.event
         src == IF j.lane = "cancel"
                THEN IF appt.cal # None THEN appt.cal
                     ELSE IF SlotCal # None THEN SlotCal ELSE appt.sp
                ELSE IF appt.sp # None THEN appt.sp ELSE SlotCal
     IN  Step(w, [j EXCEPT !.ev = e, !.src = src, !.cal = src,
                           !.at = IF src = None \/ e = None THEN "record" ELSE "patch"])
  /\ UNCHANGED <<events, appt, sweep, blame, begun, troubles>>

----------------------------------------------------------------------------
\* The calls of Google.  A call either does its work and answers, or is refused
\* because it does not fit, or throws: then its work may be done all the same.

Google(w, fits, changed, answered, thrown, excuse) ==
  /\ \/ /\ fits
        /\ events' = changed
        /\ Step(w, answered)
        /\ UNCHANGED <<blame, troubles>>
     \/ /\ ~fits
        /\ Step(w, thrown)
        /\ Excuse(excuse)
        /\ UNCHANGED <<events, troubles>>
     \/ /\ troubles < MaxTroubles
        /\ troubles' = troubles + 1
        /\ Excuse({"disturbed"})
        /\ events' \in {events, IF fits THEN changed ELSE events}
        /\ Step(w, thrown)
  /\ UNCHANGED <<appt, sweep, begun>>

Thrown(j) == IF j.lane \in {"outbound", "cancel", "decline"} THEN Failed(j) ELSE Idle

Misplaced(e, c) == IF On(e, c) THEN {} ELSE {"wrong_calendar"}

\* queryFreeBusy; the slot's taken or the insert follows
FreeBusy(w) ==
  /\ jobs[w].at = "freebusy"
  /\ LET j == jobs[w]
         taken == \E e \in Ids : Busy(e) /\ events[e].cal = j.cal /\ events[e].time = j.time
     IN  Google(w, ~taken, events, [j EXCEPT !.at = "insert"], Thrown(j), {})

\* moveEvent
MoveEvent(w) ==
  /\ jobs[w].at = "move"
  /\ LET j == jobs[w]
     IN  Google(w, On(j.ev, j.src) /\ Busy(j.ev), [events EXCEPT ![j.ev].cal = j.cal],
                [j EXCEPT !.at = "patch", !.src = j.cal], Thrown(j), Misplaced(j.ev, j.src))

\* updateEvent, updateEventDetails: a new hour, or the status
Patched(j) ==
  [events EXCEPT ![j.ev].time = IF j.time = None THEN @ ELSE j.time,
                 ![j.ev].status = CASE j.what = "cancel"  -> "cancelled"
                                    [] j.what = "no_show" /\ @ = "live" -> "no_show"
                                    [] OTHER -> @]

PatchEvent(w) ==
  /\ jobs[w].at = "patch"
  /\ LET j == jobs[w]
     IN  Google(w, On(j.ev, j.cal), Patched(j), [j EXCEPT !.at = "record"], Thrown(j),
                Misplaced(j.ev, j.cal))

\* mutant: the event that is replaced is not cancelled
Mut_CancelPrior(w) ==
  /\ jobs[w].at = "cancelPrior"
  /\ LET next == [jobs[w] EXCEPT !.at = "insert"] IN Google(w, TRUE, events, next, next, {})

\* A booking confirmed on another calendar cancels the event it replaces, and
\* goes on when that fails.
CancelPrior(w) ==
  /\ jobs[w].at = "cancelPrior"
  /\ LET j == jobs[w]
         next == [j EXCEPT !.at = "insert"]
     IN  Google(w, On(j.ev, j.src), [events EXCEPT ![j.ev].status = "cancelled"], next, next,
                Misplaced(j.ev, j.src))

\* insertEvent
InsertEvent(w) ==
  /\ jobs[w].at = "insert"
  /\ \E e \in Ids :
       /\ events[e].status = "unused"
       /\ \A f \in Ids : f < e => events[f].status # "unused"
       /\ LET j == jobs[w]
          IN  Google(w, TRUE,
                     [events EXCEPT ![e] = [cal |-> j.cal, time |-> j.time, status |-> "live"]],
                     [j EXCEPT !.at = "record", !.ev = e], Thrown(j), {})

----------------------------------------------------------------------------
\* The handler's last part, in one piece: it writes the record as it finds it.

Record(w, lanes, record, excuse) ==
  /\ At(w, lanes, "record")
  /\ appt' = record
  /\ Excuse(excuse)
  /\ Step(w, Idle)
  /\ UNCHANGED <<events, sweep, begun, troubles>>

\* The desk and the booking pages do not look at the event the record holds.
DeskRecords(w) ==
  LET j == jobs[w]
  IN  Record(w, {"customer", "staff"}, Booked(j.lane, j.ev, j.cal, j.time),
             IF appt.event # None THEN {"booked_over"} ELSE {})

TurnRecords(w) ==
  LET j == jobs[w]
  IN  Record(w, {"autobook", "match", "move", "exact"}, Booked(j.lane, j.ev, j.cal, j.time), {})

\* A booking that failed takes the whole record down, whatever it holds by now.
OutboundRecords(w) ==
  LET j == jobs[w]
  IN  Record(w, {"outbound"}, IF j.ok THEN Booked(j.lane, j.ev, j.cal, j.time) ELSE Teardown, {})

\* A record that does not say where its event is leaves that event behind.
ConfirmRecords(w) ==
  LET j == jobs[w]
  IN  Record(w, {"confirm"}, Confirmed(j.ev, j.cal, j.time),
             IF appt.event # None /\ j.src = None THEN {"wrong_calendar"} ELSE {})

\* only a conversation that holds the edited event
EditRecords(w) ==
  LET j == jobs[w]
  IN  Record(w, {"edit"}, IF appt.event # j.ev THEN appt
                          ELSE IF j.what = "book" THEN Edited(j.cal, j.time) ELSE Teardown, {})

CancelRecords(w) ==
  \/ Record(w, {"cancel"}, Teardown, {})
  \/ Record(w, {"decline"}, Declined, {})

----------------------------------------------------------------------------
\* The calendar sweep, and people in Google Calendar.

\* It asks for the event only where the record names event and calendar; an
\* event that is not on that calendar is not found and skipped.
SweepReads ==
  /\ sweep.at = "idle"
  /\ appt.event # None /\ appt.when # None /\ On(appt.event, appt.cal)
  /\ sweep' = [at |-> "read", status |-> events[appt.event].status,
               time |-> events[appt.event].time]
  /\ Excuse(Overlap)
  /\ UNCHANGED <<events, appt, jobs, begun, troubles>>

\* mutant: only a cancelled event is acted on
Mut_Reconciled == IF sweep.status = "cancelled" THEN NoBooking ELSE appt

\* decideCalendarEventReconcile on the answer, applied to the record of now
Reconciled ==
  IF sweep.status = "cancelled" THEN Teardown
  ELSE IF appt.when = None THEN appt
  ELSE [appt EXCEPT !.when = sweep.time]

SweepApplies ==
  /\ sweep.at = "read"
  /\ appt' = Reconciled
  /\ sweep' = NotLooking
  /\ UNCHANGED <<events, jobs, blame, begun, troubles>>

EditOutside(e, event) ==
  /\ events[e].status = "live" /\ troubles < MaxTroubles
  /\ events' = [events EXCEPT ![e] = event]
  /\ troubles' = troubles + 1
  /\ Excuse({"outside"})
  /\ UNCHANGED <<appt, jobs, sweep, begun>>

MovedOutside == \E e \in Ids, t \in Times : EditOutside(e, [events[e] EXCEPT !.time = t])
CancelledOutside == \E e \in Ids : EditOutside(e, [events[e] EXCEPT !.status = "cancelled"])

----------------------------------------------------------------------------
Arrives(w) ==
  \/ CustomerBooks(w) \/ StaffBooks(w) \/ SlotAutobook(w) \/ SlotMatch(w) \/ ManualOutbound(w)
  \/ RescheduleMove(w) \/ ExactMove(w) \/ ConfirmBooking(w)
  \/ CalendarEdit(w) \/ CustomerCancels(w) \/ CustomerDeclines(w)

Continues(w) ==
  \/ OutboundSays(w) \/ OutboundOpens(w) \/ MatchOpens(w)
  \/ MoveOpens(w) \/ ExactOffers(w) \/ CancelOpens(w)
  \/ FreeBusy(w) \/ MoveEvent(w) \/ PatchEvent(w) \/ CancelPrior(w) \/ InsertEvent(w)
  \/ DeskRecords(w) \/ TurnRecords(w) \/ OutboundRecords(w) \/ ConfirmRecords(w)
  \/ EditRecords(w) \/ CancelRecords(w)

Next ==
  \/ \E w \in Workers : Arrives(w) \/ Continues(w)
  \/ SweepReads \/ SweepApplies
  \/ MovedOutside \/ CancelledOutside

\* Google answers or throws, and the sweep comes round every 15 minutes.
Fairness ==
  /\ WF_vars(\E w \in Workers : Continues(w))
  /\ WF_vars(SweepReads \/ SweepApplies)

Spec == Init /\ [][Next]_vars /\ Fairness

----------------------------------------------------------------------------
Held(e) == appt.event = e
InHand(e) == \E w \in Workers : jobs[w].ev = e
Quiet == \A w \in Workers : jobs[w].at = "idle"

\* Requests that come one after the other, each answered by Google, that book
\* over no event and find the event where the record says it is, leave no event
\* on a calendar that neither the record nor a running handler knows of: the
\* event a confirmed booking replaces is cancelled, a cancelled one is taken off.
NoStrayEvent ==
  blame \subseteq {"outside", "slot_match"} =>
    \A e \in Ids : events[e].status = "live" => Held(e) \/ InHand(e)

\* Requests that come one after the other, each answered by Google, leave a
\* record whose event stands on the salesperson's calendar at the recorded hour,
\* even where they book over another event or miss one on another calendar.
RecordIsLive ==
  blame \subseteq {"booked_over", "wrong_calendar"} /\ Quiet /\ appt.event # None =>
    events[appt.event] = [cal |-> appt.sp, time |-> appt.when, status |-> "live"]

\* Whatever overlapped, failed or was edited in Google: once that stops, the
\* sweep makes a record that knows an hour and its event's calendar agree with the
\* event, and lets go of one that was cancelled.
InStep ==
  appt.event # None /\ appt.when # None /\ On(appt.event, appt.cal) =>
    events[appt.event].status # "cancelled" /\ events[appt.event].time = appt.when
SweepSettles == <>[]InStep
============================================================================
