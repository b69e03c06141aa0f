-------------------------- MODULE AppointmentsProofs --------------------------
(***************************************************************************)
(* Theorems about Appointments, for any calendars, hours and workers, any  *)
(* lanes, any record a conversation may come with, and every bound: the    *)
(* types, NoStrayEvent and RecordIsLive.                                   *)
(***************************************************************************)
EXTENDS Appointments, TLAPS

(* What the steps build is of its type.                                    *)
LEMMA IdsHaveOne == 1 \in Ids
  BY AppointmentAssumption DEF Ids

LEMMA StandingType == Standing \subseteq Records
  BY IdsHaveOne DEF Standing, Records, NoBooking

LEMMA IdleType == Idle \in Jobs
  BY DEF Idle, Jobs

LEMMA FailedType ==
  ASSUME NEW j \in Jobs
  PROVE  Failed(j) \in Jobs
  BY IdleType DEF Failed, Idle, Jobs

LEMMA ThrownType ==
  ASSUME NEW j \in Jobs
  PROVE  Thrown(j) \in Jobs
  BY IdleType, FailedType DEF Thrown

LEMMA SlotType ==
  ASSUME NEW c \in Calendars, NEW t \in Times
  PROVE  Slot(c, t) \in Slots
  BY DEF Slot, Slots

(* What the record's writers write.                                        *)
LEMMA BookedIs ==
  ASSUME appt \in Records, NEW lane, NEW e, NEW c, NEW t
  PROVE  /\ Booked(lane, e, c, t).event = e
         /\ Booked(lane, e, c, t).sp = c
         /\ Booked(lane, e, c, t).when = IF lane = "match" THEN appt.when ELSE t
         /\ Booked(lane, e, c, t).slot =
              IF lane \in {"staff", "autobook", "outbound"} THEN Slot(c, t) ELSE appt.slot
  BY DEF Booked, Records

LEMMA MatchedIs ==
  ASSUME appt \in Records, NEW c, NEW t
  PROVE  /\ Matched(c, t).event = appt.event
         /\ Matched(c, t).sp = appt.sp
         /\ Matched(c, t).slot = Slot(c, t)
         /\ Matched(c, t).when = t
  BY DEF Matched, Records

LEMMA EditedIs ==
  ASSUME appt \in Records, NEW c, NEW t
  PROVE  /\ Edited(c, t).event = appt.event
         /\ Edited(c, t).sp = c
         /\ Edited(c, t).when = t
  BY DEF Edited, Records

LEMMA DeclinedIs ==
  ASSUME appt \in Records
  PROVE  Declined.event = None
  BY DEF Declined, Records

LEMMA RecordType ==
  ASSUME appt \in Records
  PROVE  /\ \A lane : \A e \in Ids \union {None}, c \in Calendars, t \in Times :
              Booked(lane, e, c, t) \in Records
         /\ \A c \in Calendars, t \in Times : Matched(c, t) \in Records
         /\ \A e \in Ids \union {None}, c \in Calendars, t \in Times :
              Confirmed(e, c, t) \in Records
         /\ \A c \in Calendars, t \in Times : Edited(c, t) \in Records
         /\ Teardown \in Records /\ Declined \in Records
<1>1. ASSUME NEW lane, NEW e \in Ids \union {None}, NEW c \in Calendars, NEW t \in Times
      PROVE  Booked(lane, e, c, t) \in Records
  <2> DEFINE two == [appt EXCEPT !.event = e, !.sp = c]
             three == [two EXCEPT !.when = IF lane = "match" THEN @ ELSE t]
             four == [three EXCEPT !.cal = IF lane = "exact" THEN c ELSE @]
  <2>1. two \in Records
    BY DEF Records
  <2> HIDE DEF two
  <2>2. three \in Records
    BY <2>1 DEF Records
  <2> HIDE DEF three
  <2>3. four \in Records
    BY <2>2 DEF Records
  <2>4. Booked(lane, e, c, t) =
          [four EXCEPT !.slot = IF lane \in {"staff", "autobook", "outbound"}
                                THEN Slot(c, t) ELSE @]
    BY DEF Booked, two, three
  <2> HIDE DEF four
  <2> QED
    BY <2>3, <2>4, SlotType DEF Records
<1>2. \A c \in Calendars, t \in Times : Matched(c, t) \in Records /\ Edited(c, t) \in Records
  BY SlotType DEF Matched, Edited, Records
<1>3. \A e \in Ids \union {None}, c \in Calendars, t \in Times :
              Confirmed(e, c, t) \in Records
  BY SlotType DEF Confirmed, Records
<1>4. Teardown \in Records /\ Declined \in Records
  BY DEF Declined, Teardown, NoBooking, Records
<1> QED
  BY <1>1, <1>2, <1>3, <1>4

LEMMA ExcuseType ==
  ASSUME blame \subseteq Blames, NEW more \in SUBSET Blames, Excuse(more)
  PROVE  blame' \subseteq Blames
  BY DEF Excuse, Blames
-----------------------------------------------------------------------------
(* The stages each lane goes through.                                      *)
Course(lane) ==
  CASE lane \in {"customer", "staff"} -> {"freebusy", "insert", "record"}
    [] lane = "autobook"              -> {"insert", "record"}
    [] lane = "match"                 -> {"open", "insert", "record"}
    [] lane = "outbound"              -> {"ask", "open", "freebusy", "insert", "record"}
    [] lane \in {"move", "exact"}     -> {"open", "move", "patch", "record"}
    [] lane = "confirm"               -> {"patch", "cancelPrior", "insert", "record"}
    [] lane = "edit"                  -> {"move", "patch", "record"}
    [] lane \in {"cancel", "decline"} -> {"open", "patch", "record"}
    [] OTHER                          -> {}

Booking == AllLanes \ {"cancel", "decline"}

(* A worker that is not idle is somewhere on its lane's course, and knows  *)
(* what to book, and where and when, once it is past its first reads.      *)
InCourse(j) ==
  /\ j.at \in Course(j.lane)
  /\ j.lane \in Booking /\ j.at \notin {"ask", "open"} /\ j.ok =>
       j.cal # None /\ j.time # None
  /\ j.lane \in {"move", "exact"} => j.cal # None /\ j.time # None
  /\ j.lane = "outbound" /\ j.ok => j.time # None
  /\ j.lane \in {"cancel", "decline"} /\ j.ok => j.what = "cancel"
  /\ j.lane # "edit" /\ j.lane \in Booking => j.what = "book"
  /\ j.lane # "outbound" /\ j.lane \in Booking => j.ok
  /\ j.at # "record" => j.ok

OnCourse(j) == j = Idle \/ InCourse(j)

AllOnCourse == \A w \in Workers : OnCourse(jobs[w])

(* Undisturbed, the requests and the sweep come one after the other.       *)
Alone ==
  "disturbed" \notin blame =>
    /\ \A v, w \in Workers : jobs[v] # Idle /\ jobs[w] # Idle => v = w
    /\ sweep.at # "idle" => \A w \in Workers : jobs[w] = Idle

Typed == TypeOK /\ AllOnCourse

LEMMA IdleOnCourse == OnCourse(Idle)
  BY DEF OnCourse

(* Who is at which stage.                                                  *)
LEMMA WhoIsAt ==
  ASSUME NEW j \in Jobs, OnCourse(j)
  PROVE  /\ j.at = "idle" => j = Idle
         /\ j.at = "ask" => j.lane = "outbound"
         /\ j.at = "open" => j.lane \in {"match", "outbound", "move", "exact", "cancel",
                                         "decline"}
         /\ j.at = "freebusy" => j.lane \in {"customer", "staff", "outbound"}
         /\ j.at = "move" => j.lane \in {"move", "exact", "edit"}
         /\ j.at = "patch" => j.lane \in {"move", "exact", "confirm", "edit", "cancel",
                                          "decline"}
         /\ j.at = "cancelPrior" => j.lane = "confirm"
         /\ j.at = "insert" => j.lane \in {"customer", "staff", "autobook", "match",
                                           "outbound", "confirm"}
         /\ j.at # "idle" => j.at \in Course(j.lane) /\ j.lane \in AllLanes
<1>1. CASE j = Idle
  BY <1>1 DEF Idle
<1>2. CASE j # Idle
  <2>1. j.at \in Course(j.lane) /\ j.lane \in AllLanes \union {"none"}
    BY <1>2 DEF OnCourse, InCourse, Jobs
  <2> QED
    BY <2>1 DEF Course, AllLanes
<1> QED
  BY <1>1, <1>2

LEMMA StepTyped ==
  ASSUME Typed, NEW w \in Workers, NEW job \in Jobs, OnCourse(job), Step(w, job)
  PROVE  jobs' \in [Workers -> Jobs] /\ AllOnCourse'
  BY DEF Typed, TypeOK, AllOnCourse, Step

LEMMA BeginTyped ==
  ASSUME Typed, NEW w \in Workers, NEW lane, NEW job, Begin(w, lane, job),
         [job EXCEPT !.lane = lane] \in Jobs, OnCourse([job EXCEPT !.lane = lane]),
         begun < MaxJobs, appt' \in Records
  PROVE  Typed'
<1> DEFINE new == [job EXCEPT !.lane = lane]
<1>1. jobs' = [jobs EXCEPT ![w] = new]
  BY DEF Begin
<1> HIDE DEF new
<1>2. jobs' \in [Workers -> Jobs] /\ AllOnCourse'
  BY <1>1, StepTyped DEF Step, new
<1>3. Overlap \subseteq Blames
  BY DEF Overlap, Blames
<1>4. blame' \subseteq Blames
  BY <1>3, ExcuseType DEF Begin, Typed, TypeOK
<1>5. begun' \in 0..MaxJobs
  BY AppointmentAssumption DEF Begin, Typed, TypeOK
<1> QED
  BY <1>2, <1>4, <1>5 DEF Begin, Typed, TypeOK

LEMMA ArrivesTyped ==
  ASSUME Typed, NEW w \in Workers, Arrives(w)
  PROVE  Typed'
<1> USE AppointmentAssumption
<1>0. appt \in Records /\ events \in [Ids -> Events] /\ begun < MaxJobs
  BY DEF Typed, TypeOK, Arrives, Takes, CustomerBooks, StaffBooks, SlotAutobook, SlotMatch,
    ManualOutbound, RescheduleMove, ExactMove, ConfirmBooking, CalendarEdit,
    CustomerCancels, CustomerDeclines
<1>2. CASE CustomerBooks(w)
  <2>1. PICK c \in Calendars, t \in Times, first \in {"freebusy", "insert"} :
          Begin(w, "customer", [Want(c, t) EXCEPT !.at = first]) /\ appt' = appt
    BY <1>2 DEF CustomerBooks
  <2> DEFINE job == [[Want(c, t) EXCEPT !.at = first] EXCEPT !.lane = "customer"]
  <2>2. job \in Jobs /\ OnCourse(job)
    BY DEF Want, Idle, Jobs, OnCourse, InCourse, Course, AllLanes, Booking
  <2> QED
    BY <1>0, <2>1, <2>2, BeginTyped
<1>3. CASE StaffBooks(w)
  <2>1. PICK c \in Calendars, t \in Times :
          Begin(w, "staff", [Want(c, t) EXCEPT !.at = "freebusy"]) /\ appt' = appt
    BY <1>3 DEF StaffBooks
  <2> DEFINE job == [[Want(c, t) EXCEPT !.at = "freebusy"] EXCEPT !.lane = "staff"]
  <2>2. job \in Jobs /\ OnCourse(job)
    BY DEF Want, Idle, Jobs, OnCourse, InCourse, Course, AllLanes, Booking
  <2> QED
    BY <1>0, <2>1, <2>2, BeginTyped
<1>4. CASE SlotAutobook(w)
  <2>1. PICK c \in Calendars, t \in Times :
          Begin(w, "autobook", [Want(c, t) EXCEPT !.at = "insert"]) /\ appt' = appt
    BY <1>4 DEF SlotAutobook
  <2> DEFINE job == [[Want(c, t) EXCEPT !.at = "insert"] EXCEPT !.lane = "autobook"]
  <2>2. job \in Jobs /\ OnCourse(job)
    BY DEF Want, Idle, Jobs, OnCourse, InCourse, Course, AllLanes, Booking
  <2> QED
    BY <1>0, <2>1, <2>2, BeginTyped
<1>5. CASE SlotMatch(w)
  <2>1. PICK c \in Calendars, t \in Times :
          /\ appt' = Matched(c, t)
          /\ jobs' = [jobs EXCEPT ![w] = [Idle EXCEPT !.lane = "match", !.at = "open"]]
    BY <1>5 DEF SlotMatch
  <2> DEFINE job == [Idle EXCEPT !.lane = "match", !.at = "open"]
  <2>2. job \in Jobs /\ OnCourse(job)
    BY DEF Idle, Jobs, OnCourse, InCourse, Course, AllLanes, Booking
  <2>3. jobs' \in [Workers -> Jobs] /\ AllOnCourse'
    BY <2>1, <2>2, StepTyped DEF Step
  <2>4. appt' \in Records
    BY <1>0, <2>1, RecordType
  <2>5. blame' \subseteq Blames
    BY <1>5 DEF SlotMatch, Typed, TypeOK, Excuse, Overlap, Blames
  <2> QED
    BY <1>0, <1>5, <2>3, <2>4, <2>5 DEF SlotMatch, Typed, TypeOK
<1>6. CASE ManualOutbound(w)
  <2>1. PICK t \in Times, place \in {"ask", "open"} :
          /\ Begin(w, "outbound", [Want(None, t) EXCEPT !.at = place])
          /\ appt' = appt \/ \E c \in Calendars : appt' = Matched(c, t)
    BY <1>6 DEF ManualOutbound
  <2> DEFINE job == [[Want(None, t) EXCEPT !.at = place] EXCEPT !.lane = "outbound"]
  <2>2. job \in Jobs /\ OnCourse(job)
    BY DEF Want, Idle, Jobs, OnCourse, InCourse, Course, AllLanes, Booking
  <2> QED
    BY <1>0, <2>1, <2>2, BeginTyped, RecordType
<1>7. CASE RescheduleMove(w)
  <2>1. PICK c \in Calendars, t \in Times :
          Begin(w, "move", [Want(c, t) EXCEPT !.at = "open"]) /\ appt' = appt
    BY <1>7 DEF RescheduleMove
  <2> DEFINE job == [[Want(c, t) EXCEPT !.at = "open"] EXCEPT !.lane = "move"]
  <2>2. job \in Jobs /\ OnCourse(job)
    BY DEF Want, Idle, Jobs, OnCourse, InCourse, Course, AllLanes, Booking
  <2> QED
    BY <1>0, <2>1, <2>2, BeginTyped
<1>8. CASE ExactMove(w)
  <2>1. PICK c \in Calendars, t \in Times :
          Begin(w, "exact", [Want(c, t) EXCEPT !.at = "open", !.src = appt.sp]) /\ appt' = appt
    BY <1>8 DEF ExactMove
  <2> DEFINE job == [[Want(c, t) EXCEPT !.at = "open", !.src = appt.sp]
                       EXCEPT !.lane = "exact"]
  <2>2. appt.sp \in Calendars \union {None}
    BY <1>0 DEF Records
  <2>3. job \in Jobs /\ OnCourse(job)
    BY <2>2 DEF Want, Idle, Jobs, OnCourse, InCourse, Course, AllLanes, Booking
  <2> QED
    BY <1>0, <2>1, <2>3, BeginTyped
<1>9. CASE ConfirmBooking(w)
  <2>1. PICK c \in Calendars, t \in Times,
             src \in {appt.cal, IF appt.cal # None THEN appt.cal ELSE appt.sp},
             place \in {"insert", "patch", "cancelPrior"} :
          /\ Begin(w, "confirm", [Want(c, t) EXCEPT !.ev = appt.event, !.src = src,
                                                    !.at = place])
          /\ appt' = appt
    BY <1>9 DEF ConfirmBooking
  <2> DEFINE job == [[Want(c, t) EXCEPT !.ev = appt.event, !.src = src, !.at = place]
                       EXCEPT !.lane = "confirm"]
  <2>2. src \in Calendars \union {None} /\ appt.event \in Ids \union {None}
    BY <1>0 DEF Records
  <2>3. job \in Jobs /\ OnCourse(job)
    BY <2>2 DEF Want, Idle, Jobs, OnCourse, InCourse, Course, AllLanes, Booking
  <2> QED
    BY <1>0, <2>1, <2>3, BeginTyped
<1>10. CASE CalendarEdit(w)
  <2>1. PICK e \in Ids, c \in Calendars, t \in Times, what \in {"book", "cancel", "no_show"},
             place \in {"move", "patch"} :
          /\ Begin(w, "edit", [Want(c, t) EXCEPT !.ev = e, !.src = events[e].cal,
                                                 !.what = what, !.at = place])
          /\ appt' = appt
    BY <1>10 DEF CalendarEdit
  <2> DEFINE job == [[Want(c, t) EXCEPT !.ev = e, !.src = events[e].cal, !.what = what,
                                        !.at = place] EXCEPT !.lane = "edit"]
  <2>2. events[e].cal \in Calendars \union {None}
    BY <1>0 DEF Events
  <2>3. job \in Jobs /\ OnCourse(job)
    BY <2>2 DEF Want, Idle, Jobs, OnCourse, InCourse, Course, AllLanes, Booking
  <2> QED
    BY <1>0, <2>1, <2>3, BeginTyped
<1>11. CASE CustomerCancels(w)
  <2>1. /\ Begin(w, "cancel", [Idle EXCEPT !.at = "open", !.ev = appt.event, !.what = "cancel"])
        /\ appt' = appt
    BY <1>11 DEF CustomerCancels
  <2> DEFINE job == [[Idle EXCEPT !.at = "open", !.ev = appt.event, !.what = "cancel"]
                       EXCEPT !.lane = "cancel"]
  <2>2. appt.event \in Ids \union {None}
    BY <1>0 DEF Records
  <2>3. job \in Jobs /\ OnCourse(job)
    BY <2>2 DEF Idle, Jobs, OnCourse, InCourse, Course, AllLanes, Booking
  <2> QED
    BY <1>0, <2>1, <2>3, BeginTyped
<1>12. CASE CustomerDeclines(w)
  <2>1. /\ Begin(w, "decline", [Idle EXCEPT !.at = "open", !.what = "cancel"])
        /\ appt' = appt
    BY <1>12 DEF CustomerDeclines
  <2> DEFINE job == [[Idle EXCEPT !.at = "open", !.what = "cancel"] EXCEPT !.lane = "decline"]
  <2>2. job \in Jobs /\ OnCourse(job)
    BY DEF Idle, Jobs, OnCourse, InCourse, Course, AllLanes, Booking
  <2> QED
    BY <1>0, <2>1, <2>2, BeginTyped
<1> QED
  BY <1>2, <1>3, <1>4, <1>5, <1>6, <1>7, <1>8, <1>9, <1>10, <1>11, <1>12 DEF Arrives

LEMMA FailedOnCourse ==
  ASSUME NEW j \in Jobs, j.lane \in {"outbound", "cancel", "decline"}
  PROVE  OnCourse(Failed(j))
  BY DEF Failed, Idle, OnCourse, InCourse, Course, Booking, AllLanes

LEMMA ThrownOnCourse ==
  ASSUME NEW j \in Jobs
  PROVE  OnCourse(Thrown(j))
  BY FailedOnCourse, IdleOnCourse DEF Thrown

Places == {"ask", "open", "freebusy", "move", "patch", "cancelPrior", "insert", "record"}

(* The requests that the steps make of a request j.                        *)
LEMMA Placed ==
  ASSUME NEW j \in Jobs, NEW place \in Places,
         NEW k, k = [j EXCEPT !.at = place]
  PROVE  /\ k \in Jobs
         /\ k.lane = j.lane /\ k.at = place /\ k.ev = j.ev /\ k.src = j.src
         /\ k.cal = j.cal /\ k.time = j.time /\ k.what = j.what /\ k.ok = j.ok
  BY DEF Jobs, Places

LEMMA RecordTyped ==
  ASSUME Typed, NEW w \in Workers, NEW lanes, NEW record \in Records,
         NEW excuse \in SUBSET Blames, Record(w, lanes, record, excuse)
  PROVE  Typed'
<1>1. jobs' \in [Workers -> Jobs] /\ AllOnCourse'
  BY IdleType, IdleOnCourse, StepTyped DEF Record
<1>2. blame' \subseteq Blames
  BY ExcuseType DEF Record, Typed, TypeOK
<1> QED
  BY <1>1, <1>2 DEF Record, Typed, TypeOK

(* What a request is after each of the steps that read the record again.   *)
SameErrand(k, j) == k.lane = j.lane /\ k.what = j.what /\ k.ok = j.ok

LEMMA AtWork ==
  ASSUME Typed, NEW w \in Workers, jobs[w].at # "idle"
  PROVE  /\ jobs[w] \in Jobs /\ InCourse(jobs[w]) /\ jobs[w] # Idle
         /\ appt \in Records /\ events \in [Ids -> Events]
  BY DEF Typed, TypeOK, AllOnCourse, OnCourse, Idle

LEMMA RecordParts ==
  ASSUME NEW a \in Records
  PROVE  /\ a.event \in Ids \union {None} /\ a.sp \in Calendars \union {None}
         /\ a.cal \in Calendars \union {None} /\ a.slot \in Slots \union {None}
         /\ a.when \in Times \union {None}
         /\ a.slot # None => a.slot.cal \in Calendars /\ a.slot.time \in Times
  BY DEF Records, Slots

LEMMA JobParts ==
  ASSUME NEW j \in Jobs
  PROVE  /\ j.ev \in Ids \union {None} /\ j.src \in Calendars \union {None}
         /\ j.cal \in Calendars \union {None} /\ j.time \in Times \union {None}
         /\ j.lane \in AllLanes \union {"none"} /\ j.ok \in BOOLEAN
         /\ j.what \in {"book", "cancel", "no_show"}
  BY DEF Jobs

LEMMA OutboundSaysIs ==
  ASSUME Typed, NEW w \in Workers, OutboundSays(w)
  PROVE  \E k \in Jobs :
           /\ Step(w, k)
           /\ \/ k = Failed(jobs[w]) /\ appt.event # None
              \/ /\ appt.event = None /\ k.at = "open" /\ SameErrand(k, jobs[w])
                 /\ k.ev = jobs[w].ev /\ k.time = jobs[w].time
<1>1. jobs[w] \in Jobs
  BY AtWork DEF OutboundSays, At
<1>2. PICK k : k = [jobs[w] EXCEPT !.at = "open"]
  OBVIOUS
<1>3. k \in Jobs /\ k.at = "open" /\ SameErrand(k, jobs[w])
      /\ k.ev = jobs[w].ev /\ k.time = jobs[w].time
  BY <1>1, <1>2, Placed DEF Places, SameErrand
<1> QED
  BY <1>1, <1>2, <1>3, FailedType DEF OutboundSays

LEMMA OutboundOpensIs ==
  ASSUME Typed, NEW w \in Workers, OutboundOpens(w)
  PROVE  \E k \in Jobs :
           /\ Step(w, k) /\ SameErrand(k, jobs[w])
           /\ k.ev = jobs[w].ev /\ k.cal \in Calendars
           /\ \/ k.at = "insert" /\ k.time \in Times
              \/ k.at = "freebusy" /\ k.time = jobs[w].time
<1>1. jobs[w] \in Jobs /\ appt \in Records
  BY AtWork DEF OutboundOpens, At
<1>2. CASE appt.slot # None
  <2>1. PICK k : k = [jobs[w] EXCEPT !.at = "insert", !.cal = appt.slot.cal,
                                     !.time = appt.slot.time]
    OBVIOUS
  <2>2. appt.slot.cal \in Calendars /\ appt.slot.time \in Times
    BY <1>1, <1>2, RecordParts
  <2>3. k \in Jobs /\ SameErrand(k, jobs[w]) /\ k.ev = jobs[w].ev /\ k.cal \in Calendars
        /\ k.at = "insert" /\ k.time \in Times
    BY <1>1, <2>1, <2>2 DEF Jobs, SameErrand
  <2> QED
    BY <1>2, <2>1, <2>3 DEF OutboundOpens
<1>3. CASE appt.slot = None
  <2>1. PICK c \in Calendars : Step(w, [jobs[w] EXCEPT !.at = "freebusy", !.cal = c])
    BY <1>3 DEF OutboundOpens
  <2>2. PICK k : k = [jobs[w] EXCEPT !.at = "freebusy", !.cal = c]
    OBVIOUS
  <2>3. k \in Jobs /\ SameErrand(k, jobs[w]) /\ k.ev = jobs[w].ev /\ k.cal \in Calendars
        /\ k.at = "freebusy" /\ k.time = jobs[w].time
    BY <1>1, <2>2 DEF Jobs, SameErrand
  <2> QED
    BY <2>1, <2>2, <2>3
<1> QED
  BY <1>2, <1>3

LEMMA MatchOpensIs ==
  ASSUME Typed, NEW w \in Workers, MatchOpens(w)
  PROVE  \E k \in Jobs :
           /\ Step(w, k)
           /\ \/ k = Idle
              \/ /\ k.at = "insert" /\ SameErrand(k, jobs[w]) /\ k.ev = jobs[w].ev
                 /\ appt.event = None /\ appt.slot # None
                 /\ k.cal \in Calendars /\ k.time \in Times /\ k.time = appt.slot.time
              \/ /\ k.at = "patch" /\ k.lane = "move" /\ k.what = jobs[w].what
                 /\ k.ok = jobs[w].ok
                 /\ appt.event # None /\ k.ev = appt.event
                 /\ k.cal \in Calendars /\ k.time \in Times
<1>1. jobs[w] \in Jobs /\ appt \in Records
  BY AtWork DEF MatchOpens, At
<1>2. CASE Step(w, Idle)
  BY <1>2, IdleType
<1>3. CASE ~Step(w, Idle) /\ appt.event = None
  <2>1. PICK k : k = [jobs[w] EXCEPT !.at = "insert", !.cal = appt.slot.cal,
                                     !.time = appt.slot.time]
    OBVIOUS
  <2>2. Step(w, k) /\ appt.slot # None
    BY <1>3, <2>1 DEF MatchOpens
  <2>3. appt.slot.cal \in Calendars /\ appt.slot.time \in Times
    BY <1>1, <2>2, RecordParts
  <2>4. k \in Jobs /\ SameErrand(k, jobs[w]) /\ k.ev = jobs[w].ev /\ k.at = "insert"
        /\ k.cal = appt.slot.cal /\ k.time = appt.slot.time
    BY <1>1, <2>1, <2>3 DEF Jobs, SameErrand
  <2> QED
    BY <1>3, <2>2, <2>3, <2>4
<1>4. CASE ~Step(w, Idle) /\ appt.event # None
  <2> DEFINE c == IF appt.sp # None THEN appt.sp ELSE appt.slot.cal
  <2>1. PICK k : k = [jobs[w] EXCEPT !.lane = "move", !.at = "patch", !.ev = appt.event,
                                     !.cal = c, !.time = appt.slot.time]
    OBVIOUS
  <2>2. Step(w, k) /\ appt.slot # None
    BY <1>4, <2>1 DEF MatchOpens
  <2>3. c \in Calendars /\ appt.slot.time \in Times /\ appt.event \in Ids
    BY <1>1, <1>4, <2>2, RecordParts
  <2> HIDE DEF c
  <2>4. k \in Jobs /\ k.at = "patch" /\ k.lane = "move" /\ k.what = jobs[w].what
        /\ k.ok = jobs[w].ok /\ k.ev = appt.event /\ k.cal = c /\ k.time = appt.slot.time
    BY <1>1, <2>1, <2>3 DEF Jobs, AllLanes
  <2> QED
    BY <1>4, <2>2, <2>3, <2>4
<1> QED
  BY <1>2, <1>3, <1>4

LEMMA MoveOpensIs ==
  ASSUME Typed, NEW w \in Workers, MoveOpens(w)
  PROVE  \E k \in Jobs :
           /\ Step(w, k)
           /\ \/ k = Idle
              \/ /\ SameErrand(k, jobs[w]) /\ k.at \in {"move", "patch"}
                 /\ appt.event # None /\ k.ev = appt.event
                 /\ k.cal = jobs[w].cal /\ k.time = jobs[w].time
<1>1. jobs[w] \in Jobs /\ appt \in Records
  BY AtWork DEF MoveOpens, At
<1>2. CASE appt.event = None
  BY <1>2, IdleType DEF MoveOpens
<1>3. CASE appt.event # None
  <2>1. PICK s \in Calendars \union {None}, place \in {"move", "patch"} :
          Step(w, [jobs[w] EXCEPT !.ev = appt.event, !.src = s, !.at = place])
    <3> DEFINE s == IF jobs[w].lane = "move"
                    THEN IF appt.sp # None THEN appt.sp ELSE jobs[w].cal
                    ELSE IF appt.cal # None THEN appt.cal ELSE jobs[w].src
               place == IF s # jobs[w].cal THEN "move" ELSE "patch"
    <3>1. s \in Calendars \union {None}
      BY <1>1, RecordParts, JobParts
    <3>2. Step(w, [jobs[w] EXCEPT !.ev = appt.event, !.src = s, !.at = place])
      BY <1>3 DEF MoveOpens
    <3> HIDE DEF s
    <3> QED
      BY <3>1, <3>2
  <2>2. PICK k : k = [jobs[w] EXCEPT !.ev = appt.event, !.src = s, !.at = place]
    OBVIOUS
  <2>3. appt.event \in Ids
    BY <1>1, <1>3, RecordParts
  <2>4. k \in Jobs /\ SameErrand(k, jobs[w]) /\ k.at = place /\ k.ev = appt.event
        /\ k.cal = jobs[w].cal /\ k.time = jobs[w].time
    BY <1>1, <2>2, <2>3 DEF Jobs, SameErrand
  <2> QED
    BY <1>3, <2>1, <2>2, <2>4
<1> QED
  BY <1>2, <1>3

LEMMA CancelOpensIs ==
  ASSUME Typed, NEW w \in Workers, CancelOpens(w)
  PROVE  \E k \in Jobs :
           /\ Step(w, k) /\ SameErrand(k, jobs[w])
           /\ k.ev = IF jobs[w].lane = "cancel" THEN jobs[w].ev ELSE appt.event
           /\ k.at \in {"record", "patch"}
           /\ k.at = "record" => k.ev = None \/ appt.sp = None
<1>1. jobs[w] \in Jobs /\ appt \in Records
  BY AtWork DEF CancelOpens, At
<1> DEFINE e == IF jobs[w].lane = "cancel" THEN jobs[w].ev ELSE appt.event
           s == IF jobs[w].lane = "cancel"
                THEN IF appt.cal # None THEN appt.cal
                     ELSE IF SlotCal # None THEN SlotCal ELSE appt.sp
                ELSE IF appt.sp # None THEN appt.sp ELSE SlotCal
           place == IF s = None \/ e = None THEN "record" ELSE "patch"
<1>2. /\ e \in Ids \union {None} /\ s \in Calendars \union {None} /\ place \in Places
      /\ place \in {"record", "patch"}
      /\ place = "record" => e = None \/ appt.sp = None
  BY <1>1, RecordParts, JobParts DEF SlotCal, Places
<1>3. Step(w, [jobs[w] EXCEPT !.ev = e, !.src = s, !.cal = s, !.at = place])
  BY DEF CancelOpens
<1>4. e = IF jobs[w].lane = "cancel" THEN jobs[w].ev ELSE appt.event
  OBVIOUS
<1> HIDE DEF e, s, place
<1>5. PICK k : k = [jobs[w] EXCEPT !.ev = e, !.src = s, !.cal = s, !.at = place]
  OBVIOUS
<1>6. k \in Jobs /\ SameErrand(k, jobs[w]) /\ k.ev = e /\ k.at = place
  BY <1>1, <1>2, <1>5 DEF Jobs, Places, SameErrand
<1> QED
  BY <1>2, <1>3, <1>4, <1>5, <1>6

LEMMA ReadsTyped ==
  ASSUME Typed, NEW w \in Workers,
         OutboundSays(w) \/ OutboundOpens(w) \/ MatchOpens(w) \/ MoveOpens(w)
         \/ ExactOffers(w) \/ CancelOpens(w)
  PROVE  Typed'
<1> DEFINE j == jobs[w]
<1>0. j \in Jobs /\ InCourse(j) /\ appt \in Records
  BY AtWork DEF OutboundSays, OutboundOpens, MatchOpens, MoveOpens, ExactOffers,
     CancelOpens, At
<1>a. ASSUME NEW job \in Jobs, OnCourse(job), Step(w, job), appt' \in Records,
             UNCHANGED <<events, sweep, blame, begun, troubles>>
      PROVE  Typed'
  BY <1>a, StepTyped DEF Typed, TypeOK
<1> HIDE DEF j
<1>1. CASE OutboundSays(w)
  <2>1. j.lane = "outbound" /\ j.at = "ask" /\ j.time \in Times \union {None}
    BY <1>0, <1>1, JobParts DEF OutboundSays, At, j
  <2>2. [appt EXCEPT !.when = j.time] \in Records
    BY <1>0, <2>1 DEF Records
  <2>3. PICK k \in Jobs :
           /\ Step(w, k)
           /\ \/ k = Failed(jobs[w]) /\ appt.event # None
              \/ /\ appt.event = None /\ k.at = "open" /\ SameErrand(k, jobs[w])
                 /\ k.ev = jobs[w].ev /\ k.time = jobs[w].time
    BY <1>1, OutboundSaysIs
  <2>a. k = Failed(j) \/ (k.at = "open" /\ SameErrand(k, j) /\ k.time = j.time)
    BY <2>3 DEF j, SameErrand
  <2>4. OnCourse(k)
    BY <1>0, <2>1, <2>a, FailedOnCourse
       DEF OnCourse, InCourse, Course, Booking, AllLanes, SameErrand
  <2> QED
    BY <1>1, <1>a, <2>2, <2>3, <2>4 DEF OutboundSays, j
<1>2. CASE OutboundOpens(w)
  <2>1. j.lane = "outbound" /\ j.at = "open"
    BY <1>2 DEF OutboundOpens, At, j
  <2>2. PICK k \in Jobs : /\ Step(w, k) /\ SameErrand(k, j) /\ k.cal \in Calendars
                         /\ \/ k.at = "insert" /\ k.time \in Times
                            \/ k.at = "freebusy" /\ k.time = j.time
    BY <1>2, OutboundOpensIs DEF j
  <2>3. OnCourse(k)
    BY <1>0, <2>1, <2>2, AppointmentAssumption
       DEF OnCourse, InCourse, Course, Booking, AllLanes, SameErrand
  <2> QED
    BY <1>0, <1>2, <1>a, <2>2, <2>3 DEF OutboundOpens
<1>3. CASE MatchOpens(w)
  <2>1. j.lane = "match" /\ j.at = "open"
    BY <1>3 DEF MatchOpens, At, j
  <2>2. PICK k \in Jobs :
           /\ Step(w, k)
           /\ \/ k = Idle
              \/ k.at = "insert" /\ SameErrand(k, j) /\ k.cal \in Calendars /\ k.time \in Times
              \/ /\ k.at = "patch" /\ k.lane = "move" /\ k.what = j.what /\ k.ok = j.ok
                 /\ k.cal \in Calendars /\ k.time \in Times
    BY <1>3, MatchOpensIs DEF j
  <2>3. OnCourse(k)
    BY <1>0, <2>1, <2>2, AppointmentAssumption
       DEF OnCourse, InCourse, Course, Booking, AllLanes, SameErrand
  <2> QED
    BY <1>0, <1>3, <1>a, <2>2, <2>3 DEF MatchOpens
<1>4. CASE MoveOpens(w)
  <2>1. j.lane \in {"move", "exact"} /\ j.at = "open"
    BY <1>4 DEF MoveOpens, At, j
  <2>2. PICK k \in Jobs :
           /\ Step(w, k)
           /\ \/ k = Idle
              \/ /\ SameErrand(k, j) /\ k.at \in {"move", "patch"}
                 /\ k.cal = j.cal /\ k.time = j.time
    BY <1>4, MoveOpensIs DEF j
  <2>3. OnCourse(k)
    BY <1>0, <2>1, <2>2
       DEF OnCourse, InCourse, Course, Booking, AllLanes, SameErrand
  <2>4. UNCHANGED <<events, appt, sweep, blame, begun, troubles>>
    BY <1>4 DEF MoveOpens
  <2> QED
    BY <1>0, <1>a, <2>2, <2>3, <2>4
<1>5. CASE ExactOffers(w)
  <2>1. j.cal \in Calendars /\ j.time \in Times
    BY <1>0, <1>5, JobParts DEF ExactOffers, At, j, InCourse
  <2>2. [appt EXCEPT !.slot = Slot(j.cal, j.time)] \in Records
    BY <1>0, <2>1, SlotType DEF Records
  <2>3. /\ appt' = [appt EXCEPT !.slot = Slot(j.cal, j.time)] /\ Step(w, Idle)
        /\ UNCHANGED <<events, sweep, blame, begun, troubles>>
    BY <1>5 DEF ExactOffers, j
  <2> QED
    BY <1>a, <2>2, <2>3, IdleType, IdleOnCourse
<1>6. CASE CancelOpens(w)
  <2>1. j.lane \in {"cancel", "decline"} /\ j.at = "open"
    BY <1>6 DEF CancelOpens, At, j
  <2>2. PICK k \in Jobs : Step(w, k) /\ SameErrand(k, j) /\ k.at \in {"record", "patch"}
    BY <1>6, CancelOpensIs DEF j
  <2>3. OnCourse(k)
    BY <1>0, <2>1, <2>2
       DEF OnCourse, InCourse, Course, Booking, AllLanes, SameErrand
  <2> QED
    BY <1>0, <1>6, <1>a, <2>2, <2>3 DEF CancelOpens
<1> QED
  BY <1>1, <1>2, <1>3, <1>4, <1>5, <1>6

LEMMA CallTyped ==
  ASSUME Typed, NEW w \in Workers, NEW fits, NEW changed,
         fits => changed \in [Ids -> Events],
         NEW answered \in Jobs, OnCourse(answered), NEW thrown \in Jobs, OnCourse(thrown),
         NEW excuse \in SUBSET Blames, Google(w, fits, changed, answered, thrown, excuse)
  PROVE  Typed'
<1>1. events' \in [Ids -> Events]
  BY DEF Google, Typed, TypeOK
<1>2. jobs' \in [Workers -> Jobs] /\ AllOnCourse'
  BY StepTyped DEF Google
<1>3. troubles \in 0..MaxTroubles /\ blame \subseteq Blames
  BY DEF Typed, TypeOK
<1>4. blame' \subseteq Blames
  BY <1>3 DEF Google, Excuse, Blames
<1>5. troubles' \in 0..MaxTroubles
  BY <1>3, AppointmentAssumption DEF Google
<1> QED
  BY <1>1, <1>2, <1>4, <1>5 DEF Google, Typed, TypeOK

LEMMA MisplacedType == \A e, c : Misplaced(e, c) \in SUBSET Blames
  BY DEF Misplaced, Blames

LEMMA PatchedType ==
  ASSUME events \in [Ids -> Events], NEW j \in Jobs, j.ev \in Ids
  PROVE  Patched(j) \in [Ids -> Events]
<1> DEFINE t == IF j.time = None THEN events[j.ev].time ELSE j.time
           first == [events EXCEPT ![j.ev].time = t]
<1>1. t \in Times \union {None}
  BY JobParts DEF Events
<1> HIDE DEF t
<1>2. first \in [Ids -> Events]
  BY <1>1 DEF Events
<1> DEFINE s == CASE j.what = "cancel" -> "cancelled"
                  [] j.what = "no_show" /\ first[j.ev].status = "live" -> "no_show"
                  [] OTHER -> first[j.ev].status
<1>3. s \in Status
  BY <1>2, JobParts DEF Events, Status
<1>4. Patched(j) = [first EXCEPT ![j.ev].status = s]
  BY DEF Patched, t
<1> HIDE DEF first, s
<1> QED
  BY <1>2, <1>3, <1>4 DEF Events

LEMMA CallsTyped ==
  ASSUME Typed, NEW w \in Workers,
         FreeBusy(w) \/ MoveEvent(w) \/ PatchEvent(w) \/ CancelPrior(w) \/ InsertEvent(w)
  PROVE  Typed'
<1> DEFINE j == jobs[w]
<1>0. j \in Jobs /\ InCourse(j) /\ events \in [Ids -> Events]
      /\ Thrown(j) \in Jobs /\ OnCourse(Thrown(j)) /\ {} \in SUBSET Blames
  BY AtWork, ThrownType, ThrownOnCourse
     DEF FreeBusy, MoveEvent, PatchEvent, CancelPrior, InsertEvent
<1> HIDE DEF j
<1>1. CASE FreeBusy(w)
  <2>1. PICK k : k = [j EXCEPT !.at = "insert"]
    OBVIOUS
  <2>2. j.lane \in {"customer", "staff", "outbound"} /\ j.at = "freebusy"
    BY <1>0, <1>1 DEF FreeBusy, j, InCourse, Course, Booking, AllLanes
  <2>3. k \in Jobs /\ OnCourse(k)
    BY <1>0, <2>1, <2>2, Placed
       DEF Places, OnCourse, InCourse, Course, Booking, AllLanes
  <2>4. PICK fits : Google(w, fits, events, k, Thrown(j), {})
    BY <1>1, <2>1 DEF FreeBusy, j
  <2> QED
    BY <1>0, <2>3, <2>4, CallTyped
<1>2. CASE MoveEvent(w)
  <2>1. PICK k : k = [j EXCEPT !.at = "patch", !.src = j.cal]
    OBVIOUS
  <2>2. j.lane \in {"move", "exact", "edit"} /\ j.at = "move"
    BY <1>0, <1>2 DEF MoveEvent, j, InCourse, Course, Booking, AllLanes
  <2>3. k \in Jobs /\ OnCourse(k)
    <3>1. k \in Jobs /\ k.lane = j.lane /\ k.at = "patch" /\ k.cal = j.cal /\ k.time = j.time
          /\ k.what = j.what /\ k.ok = j.ok
      BY <1>0, <2>1 DEF Jobs
    <3> QED
      BY <1>0, <2>2, <3>1 DEF OnCourse, InCourse, Course, Booking, AllLanes
  <2> DEFINE changed == [events EXCEPT ![j.ev].cal = j.cal]
             fits == On(j.ev, j.src) /\ Busy(j.ev)
  <2>4. Google(w, fits, changed, k, Thrown(j), Misplaced(j.ev, j.src))
    BY <1>2, <2>1 DEF MoveEvent, j
  <2>5. fits => changed \in [Ids -> Events]
    BY <1>0, JobParts DEF On, Events
  <2> HIDE DEF changed, fits
  <2> QED
    BY <1>0, <2>3, <2>4, <2>5, CallTyped, MisplacedType
<1>3. CASE PatchEvent(w)
  <2>1. PICK k : k = [j EXCEPT !.at = "record"]
    OBVIOUS
  <2>2. j.lane \in {"move", "exact", "confirm", "edit", "cancel", "decline"} /\ j.at = "patch"
    BY <1>0, <1>3 DEF PatchEvent, j, InCourse, Course, Booking, AllLanes
  <2>3. k \in Jobs /\ OnCourse(k)
    BY <1>0, <2>1, <2>2, Placed
       DEF Places, OnCourse, InCourse, Course, Booking, AllLanes
  <2>4. Google(w, On(j.ev, j.cal), Patched(j), k, Thrown(j), Misplaced(j.ev, j.cal))
    BY <1>3, <2>1 DEF PatchEvent, j
  <2>5. On(j.ev, j.cal) => Patched(j) \in [Ids -> Events]
    BY <1>0, PatchedType DEF On
  <2> QED
    BY <1>0, <2>3, <2>4, <2>5, CallTyped, MisplacedType
<1>4. CASE CancelPrior(w)
  <2>1. PICK k : k = [j EXCEPT !.at = "insert"]
    OBVIOUS
  <2>2. j.lane = "confirm" /\ j.at = "cancelPrior"
    BY <1>0, <1>4 DEF CancelPrior, j, InCourse, Course, Booking, AllLanes
  <2>3. k \in Jobs /\ OnCourse(k)
    BY <1>0, <2>1, <2>2, Placed
       DEF Places, OnCourse, InCourse, Course, Booking, AllLanes
  <2> DEFINE changed == [events EXCEPT ![j.ev].status = "cancelled"]
  <2>4. Google(w, On(j.ev, j.src), changed, k, k, Misplaced(j.ev, j.src))
    BY <1>4, <2>1 DEF CancelPrior, j
  <2>5. On(j.ev, j.src) => changed \in [Ids -> Events]
    BY <1>0 DEF On, Events, Status
  <2> HIDE DEF changed
  <2> QED
    BY <2>3, <2>4, <2>5, CallTyped, MisplacedType
<1>5. CASE InsertEvent(w)
  <2> DEFINE changed(e) ==
        [events EXCEPT ![e] = [cal |-> j.cal, time |-> j.time, status |-> "live"]]
  <2>1. PICK e \in Ids :
          Google(w, TRUE, changed(e), [j EXCEPT !.at = "record", !.ev = e], Thrown(j), {})
    BY <1>5 DEF InsertEvent, j
  <2>2. PICK k : k = [j EXCEPT !.at = "record", !.ev = e]
    OBVIOUS
  <2>3. j.lane \in {"customer", "staff", "autobook", "match", "outbound", "confirm"}
        /\ j.at = "insert"
    BY <1>0, <1>5 DEF InsertEvent, j, InCourse, Course, Booking, AllLanes
  <2>4. k \in Jobs /\ OnCourse(k)
    <3>1. k \in Jobs /\ k.lane = j.lane /\ k.at = "record" /\ k.cal = j.cal /\ k.time = j.time
          /\ k.what = j.what /\ k.ok = j.ok
      BY <1>0, <2>2 DEF Jobs
    <3> QED
      BY <1>0, <2>3, <3>1 DEF OnCourse, InCourse, Course, Booking, AllLanes
  <2>5. changed(e) \in [Ids -> Events]
    BY <1>0, JobParts DEF Events, Status
  <2> HIDE DEF changed
  <2> QED
    BY <1>0, <2>1, <2>2, <2>4, <2>5, CallTyped
<1> QED
  BY <1>1, <1>2, <1>3, <1>4, <1>5

LEMMA RecordsTyped ==
  ASSUME Typed, NEW w \in Workers,
         DeskRecords(w) \/ TurnRecords(w) \/ OutboundRecords(w) \/ ConfirmRecords(w)
         \/ EditRecords(w) \/ CancelRecords(w)
  PROVE  Typed'
<1> DEFINE j == jobs[w]
<1>0. j \in Jobs /\ InCourse(j) /\ appt \in Records /\ j.at = "record"
  BY AtWork DEF DeskRecords, TurnRecords, OutboundRecords, ConfirmRecords, EditRecords,
     CancelRecords, Record, At
<1>1. j.lane \in Booking /\ j.ok => j.cal \in Calendars /\ j.time \in Times
  BY <1>0, JobParts DEF InCourse
<1>2. j.lane \in Booking \ {"outbound"} => j.ok
  BY <1>0 DEF InCourse
<1>3. j.ev \in Ids \union {None}
  BY <1>0, JobParts
<1> HIDE DEF j
<1> USE DEF Booking, AllLanes
<1>4. {} \in SUBSET Blames /\ {"booked_over"} \in SUBSET Blames
      /\ {"wrong_calendar"} \in SUBSET Blames
  BY DEF Blames
<1>5. CASE DeskRecords(w)
  <2>1. Booked(j.lane, j.ev, j.cal, j.time) \in Records
    BY <1>0, <1>1, <1>2, <1>3, <1>5, RecordType DEF DeskRecords, Record, At, j
  <2> QED
    BY <1>4, <1>5, <2>1, RecordTyped DEF DeskRecords, j
<1>6. CASE TurnRecords(w)
  <2>1. Booked(j.lane, j.ev, j.cal, j.time) \in Records
    BY <1>0, <1>1, <1>2, <1>3, <1>6, RecordType DEF TurnRecords, Record, At, j
  <2> QED
    BY <1>4, <1>6, <2>1, RecordTyped DEF TurnRecords, j
<1>7. CASE OutboundRecords(w)
  <2> DEFINE record == IF j.ok THEN Booked(j.lane, j.ev, j.cal, j.time) ELSE Teardown
  <2>1. record \in Records
    BY <1>0, <1>1, <1>3, <1>7, RecordType DEF OutboundRecords, Record, At, j
  <2>2. Record(w, {"outbound"}, record, {})
    BY <1>7 DEF OutboundRecords, j
  <2> HIDE DEF record
  <2> QED
    BY <1>4, <2>1, <2>2, RecordTyped
<1>8. CASE ConfirmRecords(w)
  <2>1. Confirmed(j.ev, j.cal, j.time) \in Records
    BY <1>0, <1>1, <1>2, <1>3, <1>8, RecordType DEF ConfirmRecords, Record, At, j
  <2> QED
    BY <1>4, <1>8, <2>1, RecordTyped DEF ConfirmRecords, j
<1>9. CASE EditRecords(w)
  <2> DEFINE record == IF appt.event # j.ev THEN appt
                       ELSE IF j.what = "book" THEN Edited(j.cal, j.time) ELSE Teardown
  <2>1. record \in Records
    BY <1>0, <1>1, <1>2, <1>9, RecordType DEF EditRecords, Record, At, j
  <2>2. Record(w, {"edit"}, record, {})
    BY <1>9 DEF EditRecords, j
  <2> HIDE DEF record
  <2> QED
    BY <1>4, <2>1, <2>2, RecordTyped
<1>10. CASE CancelRecords(w)
  BY <1>0, <1>4, <1>10, RecordType, RecordTyped DEF CancelRecords
<1> QED
  BY <1>5, <1>6, <1>7, <1>8, <1>9, <1>10

LEMMA SweepTyped ==
  ASSUME Typed, SweepReads \/ SweepApplies
  PROVE  Typed'
<1>1. events \in [Ids -> Events] /\ appt \in Records /\ sweep \in Looks /\ blame \subseteq Blames
  BY DEF Typed, TypeOK
<1>2. CASE SweepReads
  <2>1. events[appt.event] \in Events
    BY <1>1, <1>2 DEF SweepReads, On
  <2>2. sweep' \in Looks
    BY <1>2, <2>1 DEF SweepReads, Looks, Events
  <2>3. blame' \subseteq Blames
    BY <1>1, <1>2 DEF SweepReads, Excuse, Overlap, Blames
  <2> QED
    BY <1>2, <2>2, <2>3 DEF SweepReads, Typed, TypeOK, AllOnCourse
<1>3. CASE SweepApplies
  <2>1. sweep.time \in Times \union {None}
    BY <1>1 DEF Looks
  <2>2. Reconciled \in Records
    BY <1>1, <2>1, RecordType DEF Reconciled, Records
  <2>3. NotLooking \in Looks
    BY DEF NotLooking, Looks, Status
  <2> QED
    BY <1>3, <2>2, <2>3 DEF SweepApplies, Typed, TypeOK, AllOnCourse
<1> QED
  BY <1>2, <1>3

LEMMA OutsideTyped ==
  ASSUME Typed, MovedOutside \/ CancelledOutside
  PROVE  Typed'
<1>1. events \in [Ids -> Events] /\ troubles \in 0..MaxTroubles /\ blame \subseteq Blames
  BY DEF Typed, TypeOK
<1>2. PICK e \in Ids, event \in Events : EditOutside(e, event)
  BY <1>1 DEF MovedOutside, CancelledOutside, Events, Status
<1>3. events' \in [Ids -> Events]
  BY <1>1, <1>2 DEF EditOutside
<1>4. troubles' \in 0..MaxTroubles
  BY <1>1, <1>2, AppointmentAssumption DEF EditOutside
<1>5. blame' \subseteq Blames
  BY <1>1, <1>2 DEF EditOutside, Excuse, Blames
<1> QED
  BY <1>2, <1>3, <1>4, <1>5 DEF EditOutside, Typed, TypeOK, AllOnCourse

LEMMA TypedInit == Init => Typed
<1> SUFFICES ASSUME Init PROVE Typed
  OBVIOUS
<1>1. appt \in Standing
  BY BeforeAssumption DEF Init
<1>2. appt \in Records
  BY <1>1, StandingType
<1>3. events \in [Ids -> Events]
  BY <1>2, RecordParts DEF Init, Origin, Unused, Events, Status
<1>4. jobs \in [Workers -> Jobs] /\ AllOnCourse
  BY IdleType, IdleOnCourse DEF Init, AllOnCourse
<1>5. sweep \in Looks
  BY DEF Init, NotLooking, Looks, Status
<1>6. begun \in 0..MaxJobs /\ troubles \in 0..MaxTroubles /\ blame \subseteq Blames
  BY AppointmentAssumption DEF Init
<1> QED
  BY <1>2, <1>3, <1>4, <1>5, <1>6 DEF Typed, TypeOK

LEMMA TypedNext == Typed /\ [Next]_vars => Typed'
<1> SUFFICES ASSUME Typed, [Next]_vars PROVE Typed'
  OBVIOUS
<1>1. ASSUME NEW w \in Workers, Arrives(w) PROVE Typed'
  BY <1>1, ArrivesTyped
<1>2. ASSUME NEW w \in Workers, Continues(w) PROVE Typed'
  BY <1>2, ReadsTyped, CallsTyped, RecordsTyped DEF Continues
<1>3. CASE UNCHANGED vars
  BY <1>3 DEF vars, Typed, TypeOK, AllOnCourse
<1> QED
  BY <1>1, <1>2, <1>3, SweepTyped, OutsideTyped DEF Next

(* The record, the calendars and every request in progress are of their    *)
(* types, whatever overlaps, fails or is edited in Google: in particular a *)
(* record's calendar, salesperson and slot are calendars, and its event is *)
(* one that Google may know.                                               *)
THEOREM TypeCorrect == Spec => []TypeOK
<1>1. Spec => []Typed
  BY TypedInit, TypedNext, PTL DEF Spec
<1>2. Typed => TypeOK
  BY DEF Typed
<1> QED
  BY <1>1, <1>2, PTL
-----------------------------------------------------------------------------
(* While nothing is disturbed, nothing was, and every call of Google has   *)
(* done its work or was refused.                                           *)
Calm == "disturbed" \notin blame

LEMMA ExcuseCalm ==
  ASSUME NEW more, Excuse(more), Calm'
  PROVE  blame' = blame \union more /\ Calm /\ "disturbed" \notin more
  BY DEF Excuse, Calm

LEMMA CallCalm ==
  ASSUME NEW w, NEW fits, NEW changed, NEW answered, NEW thrown, NEW excuse,
         Google(w, fits, changed, answered, thrown, excuse), Calm'
  PROVE  /\ UNCHANGED <<appt, sweep, begun>> /\ blame \subseteq blame' /\ Calm
         /\ \/ fits /\ events' = changed /\ Step(w, answered)
            \/ ~fits /\ events' = events /\ Step(w, thrown) /\ excuse \subseteq blame'
<1>1. CASE fits /\ events' = changed /\ Step(w, answered) /\ UNCHANGED <<blame, troubles>>
  BY <1>1 DEF Google, Calm
<1>2. CASE ~fits /\ Step(w, thrown) /\ Excuse(excuse) /\ UNCHANGED <<events, troubles>>
  BY <1>2, ExcuseCalm DEF Google
<1>3. CASE Excuse({"disturbed"})
  BY <1>3, ExcuseCalm
<1> QED
  BY <1>1, <1>2, <1>3 DEF Google

(* A request that comes in undisturbed finds nobody at work.               *)
LEMMA ArrivesAlone ==
  ASSUME Typed, NEW w \in Workers, Arrives(w), Calm'
  PROVE  /\ \A v \in Workers : jobs[v] = Idle
         /\ sweep.at = "idle" /\ Calm /\ blame \subseteq blame'
         /\ UNCHANGED <<events, sweep>> /\ \E k : Step(w, k)
<1>1. PICK more : /\ Excuse(Overlap \union more) /\ UNCHANGED <<events, sweep>>
                  /\ \E k : Step(w, k)
  <2>1. CASE SlotMatch(w)
    BY <2>1 DEF SlotMatch, Step
  <2>2. ASSUME NEW lane, NEW job, Begin(w, lane, job)
        PROVE  /\ Excuse(Overlap \union {}) /\ UNCHANGED <<events, sweep>>
               /\ \E k : Step(w, k)
    <3>1. Overlap \union {} = Overlap
      OBVIOUS
    <3> QED
      BY <2>2, <3>1 DEF Begin, Step
  <2>3. CASE ~SlotMatch(w)
    <3>1. PICK lane, job : Begin(w, lane, job)
      BY <2>3 DEF Arrives, CustomerBooks, StaffBooks, SlotAutobook, ManualOutbound,
        RescheduleMove, ExactMove, ConfirmBooking, CalendarEdit, CustomerCancels,
        CustomerDeclines
    <3> QED
      BY <2>2, <3>1
  <2> QED
    BY <2>1, <2>3
<1>2. blame' = blame \union (Overlap \union more) /\ Calm /\ "disturbed" \notin Overlap
  BY <1>1, ExcuseCalm
<1>3. sweep.at = "idle" /\ \A v \in Workers : jobs[v].at = "idle"
  BY <1>2 DEF Overlap
<1>4. \A v \in Workers : jobs[v] = Idle
  BY <1>3, WhoIsAt DEF Typed, TypeOK, AllOnCourse
<1> QED
  BY <1>1, <1>2, <1>3, <1>4

(* A request that goes on undisturbed is the only one there is.            *)
LEMMA ContinuesAlone ==
  ASSUME Typed, Alone, NEW w \in Workers, Continues(w), Calm'
  PROVE  /\ jobs[w] \in Jobs /\ InCourse(jobs[w]) /\ appt \in Records
         /\ events \in [Ids -> Events]
         /\ \A v \in Workers \ {w} : jobs[v] = Idle
         /\ sweep.at = "idle" /\ Calm /\ blame \subseteq blame'
         /\ UNCHANGED sweep /\ \E k : Step(w, k)
<1>1. jobs[w].at # "idle"
  BY DEF Continues, OutboundSays, OutboundOpens, MatchOpens, MoveOpens, ExactOffers,
    CancelOpens, FreeBusy, MoveEvent, PatchEvent, CancelPrior, InsertEvent, DeskRecords,
    TurnRecords, OutboundRecords, ConfirmRecords, EditRecords, CancelRecords, Record, At
<1>2. /\ jobs[w] \in Jobs /\ InCourse(jobs[w]) /\ jobs[w] # Idle
      /\ appt \in Records /\ events \in [Ids -> Events]
  BY <1>1, AtWork
<1>3. Calm /\ blame \subseteq blame' /\ UNCHANGED sweep /\ \E k : Step(w, k)
  <2> DEFINE Fine == Calm /\ blame \subseteq blame' /\ UNCHANGED sweep /\ \E k : Step(w, k)
  <2>1. ASSUME NEW fits, NEW changed, NEW answered, NEW thrown, NEW excuse,
               Google(w, fits, changed, answered, thrown, excuse)
        PROVE  Fine
    BY <2>1, CallCalm
  <2>2. ASSUME NEW lanes, NEW record, NEW excuse, Record(w, lanes, record, excuse)
        PROVE  Fine
    BY <2>2, ExcuseCalm DEF Record
  <2>3. CASE OutboundSays(w) \/ OutboundOpens(w) \/ MatchOpens(w)
             \/ MoveOpens(w) \/ ExactOffers(w) \/ CancelOpens(w)
    <3>1. \E k : Step(w, k)
      BY <2>3, OutboundSaysIs, OutboundOpensIs, MatchOpensIs, MoveOpensIs, CancelOpensIs
         DEF ExactOffers
    <3> QED
      BY <2>3, <3>1 DEF OutboundSays, OutboundOpens, MatchOpens, MoveOpens, ExactOffers,
        CancelOpens, Calm
  <2>4. CASE FreeBusy(w) \/ MoveEvent(w) \/ PatchEvent(w) \/ CancelPrior(w) \/ InsertEvent(w)
    <3>1. CASE FreeBusy(w)
      <4>1. PICK fits, changed, answered, thrown, excuse :
              Google(w, fits, changed, answered, thrown, excuse)
        BY <3>1 DEF FreeBusy
      <4> QED
        BY <2>1, <4>1
    <3>2. CASE MoveEvent(w)
      <4>1. PICK fits, changed, answered, thrown, excuse :
              Google(w, fits, changed, answered, thrown, excuse)
        BY <3>2 DEF MoveEvent
      <4> QED
        BY <2>1, <4>1
    <3>3. CASE PatchEvent(w)
      <4>1. PICK fits, changed, answered, thrown, excuse :
              Google(w, fits, changed, answered, thrown, excuse)
        BY <3>3 DEF PatchEvent
      <4> QED
        BY <2>1, <4>1
    <3>4. CASE CancelPrior(w)
      <4>1. PICK fits, changed, answered, thrown, excuse :
              Google(w, fits, changed, answered, thrown, excuse)
        BY <3>4 DEF CancelPrior
      <4> QED
        BY <2>1, <4>1
    <3>5. CASE InsertEvent(w)
      <4>1. PICK fits, changed, answered, thrown, excuse :
              Google(w, fits, changed, answered, thrown, excuse)
        BY <3>5 DEF InsertEvent
      <4> QED
        BY <2>1, <4>1
    <3> QED
      BY <2>4, <3>1, <3>2, <3>3, <3>4, <3>5
  <2>5. CASE DeskRecords(w) \/ TurnRecords(w) \/ OutboundRecords(w) \/ ConfirmRecords(w)
             \/ EditRecords(w) \/ CancelRecords(w)
    BY <2>2, <2>5 DEF DeskRecords, TurnRecords, OutboundRecords, ConfirmRecords,
      EditRecords, CancelRecords
  <2> QED
    BY <2>3, <2>4, <2>5 DEF Continues
<1> QED
  BY <1>2, <1>3 DEF Alone, Calm

LEMMA SweepAlone ==
  ASSUME Typed, SweepReads, Calm'
  PROVE  (\A v \in Workers : jobs[v] = Idle) /\ Calm /\ blame \subseteq blame'
<1>1. blame' = blame \union Overlap /\ Calm /\ "disturbed" \notin Overlap
  BY ExcuseCalm DEF SweepReads
<1>2. \A v \in Workers : jobs[v].at = "idle"
  BY <1>1 DEF Overlap
<1> QED
  BY <1>1, <1>2, WhoIsAt DEF Typed, TypeOK, AllOnCourse

LEMMA AloneNext == Typed /\ Alone /\ [Next]_vars => Alone'
<1> SUFFICES ASSUME Typed, Alone, [Next]_vars, Calm' PROVE Alone'
  BY DEF Alone, Calm
<1>0. jobs \in [Workers -> Jobs]
  BY DEF Typed, TypeOK
<1>1. ASSUME NEW w \in Workers, Arrives(w) PROVE Alone'
  <2>1. PICK k : Step(w, k)
    BY <1>1, ArrivesAlone
  <2> QED
    BY <1>0, <1>1, <2>1, ArrivesAlone DEF Alone, Step
<1>2. ASSUME NEW w \in Workers, Continues(w) PROVE Alone'
  <2>1. PICK k : Step(w, k)
    BY <1>2, ContinuesAlone
  <2> QED
    BY <1>0, <1>2, <2>1, ContinuesAlone DEF Alone, Step
<1>3. CASE SweepReads
  BY <1>3, SweepAlone DEF Alone, SweepReads
<1>4. CASE SweepApplies
  BY <1>4 DEF Alone, SweepApplies, Calm, NotLooking
<1>5. CASE MovedOutside \/ CancelledOutside
  <2>1. PICK e, event : EditOutside(e, event)
    BY <1>5 DEF MovedOutside, CancelledOutside
  <2>2. Calm
    BY <2>1, ExcuseCalm DEF EditOutside
  <2> QED
    BY <2>1, <2>2 DEF EditOutside, Alone, Calm
<1>6. CASE UNCHANGED vars
  BY <1>6 DEF vars, Alone, Calm
<1> QED
  BY <1>1, <1>2, <1>3, <1>4, <1>5, <1>6 DEF Next

LEMMA AloneInit == Init => Alone
  BY DEF Init, Alone, NotLooking

(* What each call leaves, while nothing is disturbed.                      *)
Onward(k, j) ==
  /\ SameErrand(k, j) /\ k.ev = j.ev /\ k.src = j.src /\ k.cal = j.cal /\ k.time = j.time

\* no event but e is touched
Others(e) == \A f \in Ids \ {e} : events'[f] = events[f]

LEMMA FreeBusyIs ==
  ASSUME Typed, NEW w \in Workers, FreeBusy(w), Calm'
  PROVE  /\ UNCHANGED <<appt, events>>
         /\ \E k \in Jobs : /\ Step(w, k)
                            /\ \/ k = Thrown(jobs[w])
                               \/ k.at = "insert" /\ Onward(k, jobs[w])
<1>0. jobs[w] \in Jobs /\ Thrown(jobs[w]) \in Jobs
  BY AtWork, ThrownType DEF FreeBusy
<1>1. PICK k : k = [jobs[w] EXCEPT !.at = "insert"]
  OBVIOUS
<1>2. k \in Jobs /\ k.at = "insert" /\ Onward(k, jobs[w])
  BY <1>0, <1>1 DEF Jobs, Onward, SameErrand
<1>3. PICK fits : Google(w, fits, events, k, Thrown(jobs[w]), {})
  BY <1>1 DEF FreeBusy
<1>4. UNCHANGED <<appt, events>> /\ (Step(w, k) \/ Step(w, Thrown(jobs[w])))
  BY <1>3, CallCalm
<1> QED
  BY <1>0, <1>2, <1>4

LEMMA Transferred ==
  ASSUME NEW j \in Jobs
  PROVE  \E k \in Jobs :
           /\ k = [j EXCEPT !.at = "patch", !.src = j.cal]
           /\ k.at = "patch" /\ SameErrand(k, j)
           /\ k.ev = j.ev /\ k.cal = j.cal /\ k.time = j.time
<1>1. PICK k : k = [j EXCEPT !.at = "patch", !.src = j.cal]
  OBVIOUS
<1>2. /\ k \in Jobs /\ k.at = "patch" /\ k.lane = j.lane /\ k.what = j.what /\ k.ok = j.ok
      /\ k.ev = j.ev /\ k.cal = j.cal /\ k.time = j.time
  BY <1>1 DEF Jobs
<1> QED
  BY <1>1, <1>2 DEF SameErrand

LEMMA MoveEventIs ==
  ASSUME Typed, NEW w \in Workers, MoveEvent(w), Calm', NEW j, j = jobs[w]
  PROVE  /\ appt' = appt
         /\ \E k \in Jobs :
              /\ Step(w, k)
              /\ \/ /\ k = Thrown(j) /\ events' = events
                    /\ (On(j.ev, j.src) /\ ~Busy(j.ev)) \/ "wrong_calendar" \in blame'
                 \/ /\ On(j.ev, j.src) /\ Busy(j.ev) /\ Others(j.ev)
                    /\ events'[j.ev].status = events[j.ev].status
                    /\ events'[j.ev].time = events[j.ev].time
                    /\ events'[j.ev].cal = j.cal
                    /\ k.at = "patch" /\ SameErrand(k, j)
                    /\ k.ev = j.ev /\ k.cal = j.cal /\ k.time = j.time
<1>0. j \in Jobs /\ Thrown(j) \in Jobs /\ events \in [Ids -> Events]
  BY AtWork, ThrownType DEF MoveEvent
<1>1. PICK k \in Jobs :
        /\ k = [j EXCEPT !.at = "patch", !.src = j.cal]
        /\ k.at = "patch" /\ SameErrand(k, j)
        /\ k.ev = j.ev /\ k.cal = j.cal /\ k.time = j.time
  BY <1>0, Transferred
<1> DEFINE changed == [events EXCEPT ![j.ev].cal = j.cal]
           fits == On(j.ev, j.src) /\ Busy(j.ev)
<1>3. Google(w, fits, changed, k, Thrown(j), Misplaced(j.ev, j.src))
  BY <1>1 DEF MoveEvent
<1>4. fits => /\ \A f \in Ids \ {j.ev} : changed[f] = events[f]
              /\ changed[j.ev].status = events[j.ev].status
              /\ changed[j.ev].time = events[j.ev].time
              /\ changed[j.ev].cal = j.cal
  BY <1>0 DEF On, Events
<1>5. fits \/ (On(j.ev, j.src) /\ ~Busy(j.ev)) \/ Misplaced(j.ev, j.src) = {"wrong_calendar"}
  BY DEF Misplaced
<1> HIDE DEF changed
<1>6. /\ appt' = appt
      /\ \/ fits /\ events' = changed /\ Step(w, k)
         \/ /\ ~fits /\ events' = events /\ Step(w, Thrown(j))
            /\ Misplaced(j.ev, j.src) \subseteq blame'
  <2> HIDE DEF fits
  <2> QED
    BY <1>3, CallCalm
<1>7. CASE fits /\ events' = changed /\ Step(w, k)
  BY <1>1, <1>4, <1>6, <1>7 DEF Others
<1>8. CASE /\ ~fits /\ events' = events /\ Step(w, Thrown(j))
           /\ Misplaced(j.ev, j.src) \subseteq blame'
  BY <1>0, <1>5, <1>6, <1>8
<1> QED
  BY <1>6, <1>7, <1>8

LEMMA PatchedIs ==
  ASSUME events \in [Ids -> Events], NEW j \in Jobs, j.ev \in Ids
  PROVE  /\ \A f \in Ids \ {j.ev} : Patched(j)[f] = events[f]
         /\ Patched(j)[j.ev].cal = events[j.ev].cal
         /\ Patched(j)[j.ev].time = IF j.time = None THEN events[j.ev].time ELSE j.time
         /\ j.what = "book" => Patched(j)[j.ev].status = events[j.ev].status
         /\ j.what = "cancel" => Patched(j)[j.ev].status = "cancelled"
         /\ j.what = "no_show" => Patched(j)[j.ev].status # "live"
         /\ Patched(j)[j.ev].status = "live" => events[j.ev].status = "live"
<1> DEFINE t == IF j.time = None THEN events[j.ev].time ELSE j.time
           first == [events EXCEPT ![j.ev].time = t]
<1>1. t \in Times \union {None}
  BY JobParts DEF Events
<1> HIDE DEF t
<1>2. /\ first \in [Ids -> Events]
      /\ \A f \in Ids \ {j.ev} : first[f] = events[f]
      /\ first[j.ev].cal = events[j.ev].cal /\ first[j.ev].time = t
      /\ first[j.ev].status = events[j.ev].status
  BY <1>1 DEF Events
<1> DEFINE s == CASE j.what = "cancel" -> "cancelled"
                  [] j.what = "no_show" /\ first[j.ev].status = "live" -> "no_show"
                  [] OTHER -> first[j.ev].status
<1>3. Patched(j) = [first EXCEPT ![j.ev].status = s]
  BY DEF Patched, t
<1>4. /\ j.what = "book" => s = events[j.ev].status
      /\ j.what = "cancel" => s = "cancelled"
      /\ j.what = "no_show" => s # "live"
      /\ s = "live" => events[j.ev].status = "live"
  BY <1>2
<1> HIDE DEF first, s
<1>5. /\ \A f \in Ids \ {j.ev} : Patched(j)[f] = events[f]
      /\ Patched(j)[j.ev].cal = events[j.ev].cal
      /\ Patched(j)[j.ev].time = t
      /\ Patched(j)[j.ev].status = s
  BY <1>2, <1>3 DEF Events
<1> QED
  BY <1>4, <1>5 DEF t

LEMMA PatchEventIs ==
  ASSUME Typed, NEW w \in Workers, PatchEvent(w), Calm', NEW j, j = jobs[w]
  PROVE  /\ appt' = appt
         /\ \E k \in Jobs :
              /\ Step(w, k)
              /\ \/ /\ k = Thrown(j) /\ events' = events
                    /\ ~On(j.ev, j.cal) /\ "wrong_calendar" \in blame'
                 \/ /\ On(j.ev, j.cal) /\ Others(j.ev)
                    /\ events'[j.ev].cal = events[j.ev].cal
                    /\ events'[j.ev].time = IF j.time = None THEN events[j.ev].time
                                            ELSE j.time
                    /\ j.what = "book" => events'[j.ev].status = events[j.ev].status
                    /\ j.what = "cancel" => events'[j.ev].status = "cancelled"
                    /\ j.what = "no_show" => events'[j.ev].status # "live"
                    /\ events'[j.ev].status = "live" => events[j.ev].status = "live"
                    /\ k.at = "record" /\ Onward(k, j)
<1>0. j \in Jobs /\ Thrown(j) \in Jobs /\ events \in [Ids -> Events]
  BY AtWork, ThrownType DEF PatchEvent
<1>1. PICK k : k = [j EXCEPT !.at = "record"]
  OBVIOUS
<1>2. k \in Jobs /\ k.at = "record" /\ Onward(k, j)
  BY <1>0, <1>1 DEF Jobs, Onward, SameErrand
<1>3. Google(w, On(j.ev, j.cal), Patched(j), k, Thrown(j), Misplaced(j.ev, j.cal))
  BY <1>1 DEF PatchEvent
<1> DEFINE fits == On(j.ev, j.cal)
<1>4. ~fits => Misplaced(j.ev, j.cal) = {"wrong_calendar"}
  BY DEF Misplaced
<1>5. fits => j.ev \in Ids
  BY DEF On
<1>6. /\ appt' = appt
      /\ \/ fits /\ events' = Patched(j) /\ Step(w, k)
         \/ /\ ~fits /\ events' = events /\ Step(w, Thrown(j))
            /\ Misplaced(j.ev, j.cal) \subseteq blame'
  BY <1>3, CallCalm
<1>7. CASE fits /\ events' = Patched(j) /\ Step(w, k)
  BY <1>0, <1>2, <1>5, <1>6, <1>7, PatchedIs DEF Others
<1>8. CASE /\ ~fits /\ events' = events /\ Step(w, Thrown(j))
           /\ Misplaced(j.ev, j.cal) \subseteq blame'
  BY <1>0, <1>4, <1>6, <1>8
<1> QED
  BY <1>6, <1>7, <1>8

LEMMA CancelPriorIs ==
  ASSUME Typed, NEW w \in Workers, CancelPrior(w), Calm', NEW j, j = jobs[w]
  PROVE  /\ appt' = appt
         /\ \E k \in Jobs :
              /\ Step(w, k) /\ k.at = "insert" /\ Onward(k, j)
              /\ \/ events' = events /\ "wrong_calendar" \in blame'
                 \/ /\ On(j.ev, j.src) /\ Others(j.ev)
                    /\ events'[j.ev].status = "cancelled"
<1>0. j \in Jobs /\ events \in [Ids -> Events]
  BY AtWork DEF CancelPrior
<1>1. PICK k : k = [j EXCEPT !.at = "insert"]
  OBVIOUS
<1>2. k \in Jobs /\ k.at = "insert" /\ Onward(k, j)
  BY <1>0, <1>1 DEF Jobs, Onward, SameErrand
<1> DEFINE changed == [events EXCEPT ![j.ev].status = "cancelled"]
           fits == On(j.ev, j.src)
<1>3. Google(w, fits, changed, k, k, Misplaced(j.ev, j.src))
  BY <1>1 DEF CancelPrior
<1>4. fits => /\ \A f \in Ids \ {j.ev} : changed[f] = events[f]
              /\ changed[j.ev].status = "cancelled"
  BY <1>0 DEF On, Events
<1>5. ~fits => Misplaced(j.ev, j.src) = {"wrong_calendar"}
  BY DEF Misplaced
<1> HIDE DEF changed
<1>6. /\ appt' = appt
      /\ \/ fits /\ events' = changed /\ Step(w, k)
         \/ /\ ~fits /\ events' = events /\ Step(w, k)
            /\ Misplaced(j.ev, j.src) \subseteq blame'
  BY <1>3, CallCalm
<1> QED
  BY <1>2, <1>4, <1>5, <1>6 DEF Others

LEMMA InsertEventIs ==
  ASSUME Typed, NEW w \in Workers, InsertEvent(w), Calm', NEW j, j = jobs[w]
  PROVE  /\ appt' = appt
         /\ \E k \in Jobs :
              /\ Step(w, k) /\ k.at = "record" /\ k.ev \in Ids /\ Others(k.ev)
              /\ events[k.ev].status = "unused" /\ events'[k.ev].status = "live"
              /\ events'[k.ev].cal = j.cal /\ events'[k.ev].time = j.time
              /\ SameErrand(k, j) /\ k.src = j.src /\ k.cal = j.cal /\ k.time = j.time
<1>0. j \in Jobs /\ events \in [Ids -> Events]
  BY AtWork DEF InsertEvent
<1> DEFINE changed(e) ==
      [events EXCEPT ![e] = [cal |-> j.cal, time |-> j.time, status |-> "live"]]
<1>1. PICK e \in Ids :
        /\ events[e].status = "unused"
        /\ Google(w, TRUE, changed(e), [j EXCEPT !.at = "record", !.ev = e], Thrown(j), {})
  BY DEF InsertEvent
<1>2. PICK k : k = [j EXCEPT !.at = "record", !.ev = e]
  OBVIOUS
<1>3. /\ k \in Jobs /\ k.at = "record" /\ k.ev = e
      /\ SameErrand(k, j) /\ k.src = j.src /\ k.cal = j.cal /\ k.time = j.time
  BY <1>0, <1>2 DEF Jobs, SameErrand
<1>4. /\ \A f \in Ids \ {e} : changed(e)[f] = events[f]
      /\ changed(e)[e].status = "live" /\ changed(e)[e].cal = j.cal
      /\ changed(e)[e].time = j.time
  BY <1>0
<1> HIDE DEF changed
<1>5. appt' = appt /\ events' = changed(e) /\ Step(w, k)
  BY <1>1, <1>2, CallCalm
<1> QED
  BY <1>1, <1>3, <1>4, <1>5 DEF Others

(* What a request that comes in knows.                                     *)
Newcomer(k) ==
  /\ k.ok
  /\ \/ /\ k.lane \in {"customer", "staff", "autobook"} /\ k.at \in {"freebusy", "insert"}
        /\ k.ev = None /\ appt' = appt
        /\ k.lane = "autobook" => appt.event = None
     \/ /\ k.lane = "match" /\ k.at = "open" /\ k.ev = None
        /\ \E c \in Calendars, t \in Times : appt' = Matched(c, t)
        /\ appt.event # None => "slot_match" \in blame'
     \/ /\ k.lane = "outbound" /\ k.at \in {"ask", "open"} /\ k.ev = None
        /\ appt.event = None
        /\ appt' = appt \/ \E c \in Calendars, t \in Times : appt' = Matched(c, t)
     \/ k.lane \in {"move", "exact"} /\ k.at = "open" /\ k.ev = None /\ appt' = appt
     \/ /\ k.lane = "confirm" /\ k.ev = appt.event /\ appt' = appt
        /\ \/ k.at = "insert" /\ (k.ev = None \/ k.src = None)
           \/ k.at \in {"patch", "cancelPrior"} /\ k.ev # None
     \/ /\ k.lane = "edit" /\ k.at \in {"move", "patch"} /\ appt' = appt
        /\ k.ev \in Ids /\ events[k.ev].status = "live"
     \/ /\ k.lane = "cancel" /\ k.at = "open" /\ appt' = appt
        /\ appt.event # None /\ k.ev = appt.event
     \/ /\ k.lane = "decline" /\ k.at = "open" /\ appt' = appt
        /\ appt.event # None /\ k.ev = None

LEMMA ArrivesIs ==
  ASSUME Typed, NEW w \in Workers, Arrives(w), Calm'
  PROVE  \E k \in Jobs : Step(w, k) /\ Newcomer(k)
<1>0. appt \in Records /\ events \in [Ids -> Events]
  BY DEF Typed, TypeOK
<1>2. CASE CustomerBooks(w)
  <2>1. PICK k : \E c \in Calendars, t \in Times, first \in {"freebusy", "insert"} :
          /\ Step(w, k) /\ appt' = appt
          /\ k = [[Want(c, t) EXCEPT !.at = first] EXCEPT !.lane = "customer"]
    BY <1>2 DEF CustomerBooks, Begin, Step
  <2>2. k \in Jobs /\ k.lane = "customer" /\ k.at \in {"freebusy", "insert"} /\ k.ev = None /\ k.ok
    BY <2>1 DEF Want, Idle, Jobs, AllLanes
  <2> QED
    BY <2>1, <2>2 DEF Newcomer
<1>3. CASE StaffBooks(w)
  <2>1. PICK k : \E c \in Calendars, t \in Times :
          /\ Step(w, k) /\ appt' = appt
          /\ k = [[Want(c, t) EXCEPT !.at = "freebusy"] EXCEPT !.lane = "staff"]
    BY <1>3 DEF StaffBooks, Begin, Step
  <2>2. k \in Jobs /\ k.lane = "staff" /\ k.at = "freebusy" /\ k.ev = None /\ k.ok
    BY <2>1 DEF Want, Idle, Jobs, AllLanes
  <2> QED
    BY <2>1, <2>2 DEF Newcomer
<1>4. CASE SlotAutobook(w)
  <2>1. PICK k : \E c \in Calendars, t \in Times :
          /\ Step(w, k) /\ appt' = appt /\ appt.event = None
          /\ k = [[Want(c, t) EXCEPT !.at = "insert"] EXCEPT !.lane = "autobook"]
    BY <1>4 DEF SlotAutobook, Begin, Step
  <2>2. k \in Jobs /\ k.lane = "autobook" /\ k.at = "insert" /\ k.ev = None /\ k.ok
    BY <2>1 DEF Want, Idle, Jobs, AllLanes
  <2> QED
    BY <2>1, <2>2 DEF Newcomer
<1>5. CASE SlotMatch(w)
  <2>1. PICK k : \E c \in Calendars, t \in Times :
          /\ Step(w, k) /\ appt' = Matched(c, t)
          /\ k = [Idle EXCEPT !.lane = "match", !.at = "open"]
          /\ Excuse(Overlap \union IF appt.event # None THEN {"slot_match"} ELSE {})
    BY <1>5 DEF SlotMatch, Step
  <2>2. k \in Jobs /\ k.lane = "match" /\ k.at = "open" /\ k.ev = None /\ k.ok
    BY <2>1 DEF Idle, Jobs, AllLanes
  <2>3. appt.event # None => "slot_match" \in blame'
    BY <2>1, ExcuseCalm
  <2> QED
    BY <2>1, <2>2, <2>3 DEF Newcomer
<1>6. CASE ManualOutbound(w)
  <2>1. PICK k : \E t \in Times, place \in {"ask", "open"} :
          /\ Step(w, k) /\ appt.event = None
          /\ appt' = appt \/ \E c \in Calendars : appt' = Matched(c, t)
          /\ k = [[Want(None, t) EXCEPT !.at = place] EXCEPT !.lane = "outbound"]
    BY <1>6 DEF ManualOutbound, Begin, Step
  <2>2. k \in Jobs /\ k.lane = "outbound" /\ k.at \in {"ask", "open"} /\ k.ev = None /\ k.ok
    BY <2>1 DEF Want, Idle, Jobs, AllLanes
  <2> QED
    BY <2>1, <2>2 DEF Newcomer
<1>7. CASE RescheduleMove(w)
  <2>1. PICK k : \E c \in Calendars, t \in Times :
          /\ Step(w, k) /\ appt' = appt
          /\ k = [[Want(c, t) EXCEPT !.at = "open"] EXCEPT !.lane = "move"]
    BY <1>7 DEF RescheduleMove, Begin, Step
  <2>2. k \in Jobs /\ k.lane = "move" /\ k.at = "open" /\ k.ev = None /\ k.ok
    BY <2>1 DEF Want, Idle, Jobs, AllLanes
  <2> QED
    BY <2>1, <2>2 DEF Newcomer
<1>8. CASE ExactMove(w)
  <2>1. PICK k : \E c \in Calendars, t \in Times :
          /\ Step(w, k) /\ appt' = appt
          /\ k = [[Want(c, t) EXCEPT !.at = "open", !.src = appt.sp] EXCEPT !.lane = "exact"]
    BY <1>8 DEF ExactMove, Begin, Step
  <2>2. appt.sp \in Calendars \union {None}
    BY <1>0, RecordParts
  <2>3. k \in Jobs /\ k.lane = "exact" /\ k.at = "open" /\ k.ev = None /\ k.ok
    BY <2>1, <2>2 DEF Want, Idle, Jobs, AllLanes
  <2> QED
    BY <2>1, <2>3 DEF Newcomer
<1>9. CASE ConfirmBooking(w)
  <2>1. PICK c \in Calendars, t \in Times,
             src \in {appt.cal, IF appt.cal # None THEN appt.cal ELSE appt.sp} :
          /\ Begin(w, "confirm",
                   [Want(c, t) EXCEPT !.ev = appt.event, !.src = src,
                      !.at = IF appt.event = None \/ src = None THEN "insert"
                             ELSE IF src = c THEN "patch" ELSE "cancelPrior"])
          /\ appt' = appt
    BY <1>9 DEF ConfirmBooking
  <2> DEFINE place == IF appt.event = None \/ src = None THEN "insert"
                      ELSE IF src = c THEN "patch" ELSE "cancelPrior"
  <2>2. PICK k : k = [[Want(c, t) EXCEPT !.ev = appt.event, !.src = src, !.at = place]
                        EXCEPT !.lane = "confirm"]
    OBVIOUS
  <2>3. Step(w, k)
    BY <2>1, <2>2 DEF Begin, Step
  <2>4. /\ src \in Calendars \union {None} /\ appt.event \in Ids \union {None}
        /\ place \in {"insert", "patch", "cancelPrior"}
        /\ \/ place = "insert" /\ (appt.event = None \/ src = None)
           \/ place \in {"patch", "cancelPrior"} /\ appt.event # None
    BY <1>0, RecordParts
  <2> HIDE DEF place
  <2>5. k \in Jobs /\ k.lane = "confirm" /\ k.at = place /\ k.ev = appt.event /\ k.src = src
        /\ k.ok
    BY <2>2, <2>4 DEF Want, Idle, Jobs, AllLanes
  <2> QED
    BY <2>1, <2>3, <2>4, <2>5 DEF Newcomer
<1>10. CASE CalendarEdit(w)
  <2>1. PICK e \in Ids, c \in Calendars, t \in Times, what \in {"book", "cancel", "no_show"} :
          /\ Begin(w, "edit",
                   [Want(c, t) EXCEPT !.ev = e, !.src = events[e].cal, !.what = what,
                      !.at = IF c # events[e].cal THEN "move" ELSE "patch"])
          /\ appt' = appt /\ events[e].status = "live"
    BY <1>10 DEF CalendarEdit
  <2> DEFINE place == IF c # events[e].cal THEN "move" ELSE "patch"
  <2>2. PICK k : k = [[Want(c, t) EXCEPT !.ev = e, !.src = events[e].cal, !.what = what,
                                         !.at = place] EXCEPT !.lane = "edit"]
    OBVIOUS
  <2>3. Step(w, k)
    BY <2>1, <2>2 DEF Begin, Step
  <2>4. events[e].cal \in Calendars \union {None} /\ place \in {"move", "patch"}
    BY <1>0 DEF Events
  <2> HIDE DEF place
  <2>5. k \in Jobs /\ k.lane = "edit" /\ k.at = place /\ k.ev = e /\ k.ok
    BY <2>2, <2>4 DEF Want, Idle, Jobs, AllLanes
  <2> QED
    BY <2>1, <2>3, <2>4, <2>5 DEF Newcomer
<1>11. CASE CustomerCancels(w)
  <2>1. PICK k :
          /\ Step(w, k) /\ appt' = appt /\ appt.event # None
          /\ k = [[Idle EXCEPT !.at = "open", !.ev = appt.event, !.what = "cancel"]
                    EXCEPT !.lane = "cancel"]
    BY <1>11 DEF CustomerCancels, Begin, Step
  <2>2. appt.event \in Ids \union {None}
    BY <1>0, RecordParts
  <2>3. k \in Jobs /\ k.lane = "cancel" /\ k.at = "open" /\ k.ev = appt.event /\ k.ok
    BY <2>1, <2>2 DEF Idle, Jobs, AllLanes
  <2> QED
    BY <2>1, <2>3 DEF Newcomer
<1>12. CASE CustomerDeclines(w)
  <2>1. PICK k :
          /\ Step(w, k) /\ appt' = appt /\ appt.event # None
          /\ k = [[Idle EXCEPT !.at = "open", !.what = "cancel"] EXCEPT !.lane = "decline"]
    BY <1>12 DEF CustomerDeclines, Begin, Step
  <2>2. k \in Jobs /\ k.lane = "decline" /\ k.at = "open" /\ k.ev = None /\ k.ok
    BY <2>1 DEF Idle, Jobs, AllLanes
  <2> QED
    BY <2>1, <2>2 DEF Newcomer
<1> QED
  BY <1>2, <1>3, <1>4, <1>5, <1>6, <1>7, <1>8, <1>9, <1>10, <1>11, <1>12 DEF Arrives
-----------------------------------------------------------------------------
(* What a request j knows of the event on the record a, so that none is    *)
(* left behind when it ends.                                               *)
Gone(a, g) == a.event = None \/ g[a.event].status # "live"

Tracks(j, a, g) ==
  /\ j.at \in {"ask", "open", "freebusy"} /\ j.lane # "cancel" => j.ev = None
  /\ j.lane \in {"customer", "staff", "autobook", "match", "outbound"}
       /\ (j.at # "record" \/ ~j.ok) => j.ev = None
  /\ j.lane \in {"autobook", "outbound"} => a.event = None
  /\ j.lane = "match" /\ j.at # "open" => a.event = None
  /\ j.lane \in {"move", "exact"} /\ j.at # "open" => j.ev = a.event
  /\ j.lane = "confirm" /\ j.at \in {"patch", "cancelPrior"} => j.ev = a.event
  /\ j.lane = "confirm" /\ j.at = "insert" =>
       j.ev = a.event /\ (j.src = None \/ Gone(a, g))
  /\ j.lane = "confirm" /\ j.at = "record" =>
       j.ev = a.event \/ j.src = None \/ Gone(a, g)
  /\ j.lane \in {"edit", "cancel"} => j.ev = a.event
  /\ j.lane = "decline" /\ j.at # "open" => j.ev = a.event
  /\ j.lane \in {"cancel", "decline"} => a.event # None
  /\ j.lane \in {"cancel", "decline"} /\ j.at = "record" => Gone(a, g)
  /\ j.lane = "edit" /\ j.what # "book" /\ j.at = "record" => Gone(a, g)

Orderly == blame \subseteq {"outside", "slot_match"}

NoneLeft ==
  Orderly =>
    /\ \A w \in Workers : Tracks(jobs[w], appt, events)
    /\ appt.event # None => appt.sp # None
    /\ sweep.at = "read" /\ sweep.status = "cancelled" => Gone(appt, events)
    /\ NoStrayEvent


Accounted(j, a, g) == \A e \in Ids : g[e].status = "live" => a.event = e \/ j.ev = e

Kept(j, a, g) ==
  Tracks(j, a, g) /\ Accounted(j, a, g) /\ (a.event # None => a.sp # None)

LEMMA IdleTracks ==
  ASSUME NEW a, NEW g
  PROVE  Tracks(Idle, a, g)
  BY DEF Tracks, Idle

LEMMA IdleKept ==
  ASSUME NEW a, NEW g, \A e \in Ids : g[e].status = "live" => a.event = e,
         a.event # None => a.sp # None
  PROVE  Kept(Idle, a, g)
  BY IdleTracks DEF Kept, Accounted

LEMMA KeptBefore ==
  ASSUME Typed, NoneLeft, Orderly, NEW w \in Workers,
         \A v \in Workers \ {w} : jobs[v] = Idle
  PROVE  Kept(jobs[w], appt, events)
<1>1. None \notin Ids
  BY AppointmentAssumption DEF Ids
<1>2. Idle.ev = None
  BY DEF Idle
<1> QED
  BY <1>1, <1>2 DEF Kept, Accounted, NoneLeft, NoStrayEvent, Orderly, Held, InHand

LEMMA KeptAfter ==
  ASSUME Typed, NEW w \in Workers, NEW k \in Jobs, Step(w, k),
         \A v \in Workers \ {w} : jobs[v] = Idle,
         sweep.at = "idle", UNCHANGED sweep, Kept(k, appt', events')
  PROVE  NoneLeft'
<1>1. jobs' \in [Workers -> Jobs] /\ jobs'[w] = k
      /\ \A v \in Workers \ {w} : jobs'[v] = Idle
  BY DEF Step, Typed, TypeOK
<1>2. \A v \in Workers : Tracks(jobs'[v], appt', events')
  BY <1>1, IdleTracks DEF Kept
<1>3. \A e \in Ids : events'[e].status = "live" =>
        appt'.event = e \/ \E v \in Workers : jobs'[v].ev = e
  BY <1>1 DEF Kept, Accounted
<1> QED
  BY <1>2, <1>3 DEF Kept, NoneLeft, NoStrayEvent, Held, InHand

LEMMA KeptArrives ==
  ASSUME Typed, NEW w \in Workers, Arrives(w), Orderly', Calm', Kept(Idle, appt, events),
         UNCHANGED events
  PROVE  \E k \in Jobs : Step(w, k) /\ Kept(k, appt', events')
<1>1. PICK k \in Jobs : Step(w, k) /\ Newcomer(k)
  BY ArrivesIs
<1>2. appt \in Records /\ None \notin Ids
  BY AppointmentAssumption DEF Typed, TypeOK, Ids
<1>3. /\ \A e \in Ids : events'[e].status = "live" => appt.event = e
      /\ appt.event # None => appt.sp # None
  BY <1>2 DEF Kept, Accounted, Idle
<1>4. appt'.event = appt.event /\ appt'.sp = appt.sp
  BY <1>1, <1>2, MatchedIs DEF Newcomer
<1>5. Tracks(k, appt', events')
  <2>1. appt'.event = None \/ appt'.event # None
    OBVIOUS
  <2> QED
    BY <1>1, <1>3, <1>4 DEF Newcomer, Tracks, Gone, Orderly
<1> QED
  BY <1>1, <1>3, <1>4, <1>5 DEF Kept, Accounted

LEMMA KeptReads ==
  ASSUME Typed, NEW w \in Workers, Orderly', Calm', NEW j, j = jobs[w],
         InCourse(j), Kept(j, appt, events),
         OutboundSays(w) \/ OutboundOpens(w) \/ MatchOpens(w) \/ MoveOpens(w)
         \/ ExactOffers(w) \/ CancelOpens(w)
  PROVE  \E k \in Jobs : Step(w, k) /\ Kept(k, appt', events')
<1>0. /\ j \in Jobs /\ appt \in Records /\ events' = events /\ None \notin Ids
      /\ appt'.event = appt.event /\ appt'.sp = appt.sp
  <2>1. j \in Jobs /\ appt \in Records /\ None \notin Ids
    BY AppointmentAssumption DEF Typed, TypeOK, Ids
  <2>2. events' = events
    BY DEF OutboundSays, OutboundOpens, MatchOpens, MoveOpens, ExactOffers, CancelOpens
  <2>3. CASE appt' = appt
    BY <2>1, <2>2, <2>3
  <2>4. CASE OutboundSays(w) \/ ExactOffers(w)
    BY <2>1, <2>2, <2>4 DEF Records, OutboundSays, ExactOffers
  <2>5. appt' = appt \/ OutboundSays(w) \/ ExactOffers(w)
    BY DEF OutboundOpens, MatchOpens, MoveOpens, CancelOpens
  <2> QED
    BY <2>3, <2>4, <2>5
<1>1. /\ \A e \in Ids : events'[e].status = "live" => appt'.event = e \/ j.ev = e
      /\ appt'.event # None => appt'.sp # None
  BY <1>0 DEF Kept, Accounted
<1>a. ASSUME NEW k \in Jobs, Step(w, k), Tracks(k, appt', events'),
             j.ev = None \/ j.ev = k.ev \/ j.ev = appt'.event
      PROVE  \E i \in Jobs : Step(w, i) /\ Kept(i, appt', events')
  BY <1>0, <1>1, <1>a DEF Kept, Accounted
<1>t. Tracks(j, appt', events')
  BY <1>0 DEF Kept, Tracks, Gone
<1>2. CASE OutboundSays(w)
  <2>1. j.lane = "outbound" /\ j.at = "ask"
    BY <1>2 DEF OutboundSays, At
  <2>2. j.ev = None /\ appt'.event = None
    BY <1>t, <2>1 DEF Tracks
  <2>3. PICK k \in Jobs : /\ Step(w, k) /\ k.at = "open" /\ SameErrand(k, j) /\ k.ev = j.ev
    BY <1>0, <1>2, <2>2, OutboundSaysIs
  <2>4. Tracks(k, appt', events')
    BY <2>1, <2>2, <2>3 DEF Tracks, SameErrand
  <2> QED
    BY <1>a, <2>2, <2>3, <2>4
<1>3. CASE OutboundOpens(w)
  <2>1. j.lane = "outbound" /\ j.at = "open"
    BY <1>3 DEF OutboundOpens, At
  <2>2. j.ev = None /\ appt'.event = None
    BY <1>t, <2>1 DEF Tracks
  <2>3. PICK k \in Jobs : /\ Step(w, k) /\ k.at \in {"insert", "freebusy"}
                          /\ SameErrand(k, j) /\ k.ev = j.ev
    BY <1>3, OutboundOpensIs
  <2>4. Tracks(k, appt', events')
    BY <2>1, <2>2, <2>3 DEF Tracks, SameErrand
  <2> QED
    BY <1>a, <2>2, <2>3, <2>4
<1>4. CASE MatchOpens(w)
  <2>1. j.lane = "match" /\ j.at = "open"
    BY <1>4 DEF MatchOpens, At
  <2>2. j.ev = None
    BY <1>t, <2>1 DEF Tracks
  <2>3. PICK k \in Jobs :
          /\ Step(w, k)
          /\ \/ k = Idle
             \/ k.at = "insert" /\ SameErrand(k, j) /\ k.ev = j.ev /\ appt.event = None
             \/ k.at = "patch" /\ k.lane = "move" /\ k.ev = appt.event
    BY <1>4, MatchOpensIs
  <2>4. k = Idle \/ k # Idle
    OBVIOUS
  <2>5. Tracks(k, appt', events')
    BY <1>0, <2>1, <2>2, <2>3, IdleTracks DEF Tracks, SameErrand
  <2> QED
    BY <1>a, <2>2, <2>3, <2>5
<1>5. CASE MoveOpens(w)
  <2>1. j.lane \in {"move", "exact"} /\ j.at = "open"
    BY <1>5 DEF MoveOpens, At
  <2>2. j.ev = None
    BY <1>t, <2>1 DEF Tracks
  <2>3. PICK k \in Jobs :
          /\ Step(w, k)
          /\ \/ k = Idle
             \/ SameErrand(k, j) /\ k.at \in {"move", "patch"} /\ k.ev = appt.event
    BY <1>5, MoveOpensIs
  <2>4. Tracks(k, appt', events')
    BY <1>0, <2>1, <2>2, <2>3, IdleTracks DEF Tracks, SameErrand
  <2> QED
    BY <1>a, <2>2, <2>3, <2>4
<1>6. CASE ExactOffers(w)
  <2>1. j.lane = "exact" /\ j.at = "open" /\ Step(w, Idle)
    BY <1>6 DEF ExactOffers, At
  <2>2. j.ev = None
    BY <1>t, <2>1 DEF Tracks
  <2> QED
    BY <1>a, <2>1, <2>2, IdleTracks, IdleType
<1>7. CASE CancelOpens(w)
  <2>1. j.lane \in {"cancel", "decline"} /\ j.at = "open"
    BY <1>7 DEF CancelOpens, At
  <2>2. j.ev = IF j.lane = "cancel" THEN appt.event ELSE None
    BY <1>0, <1>t, <2>1 DEF Tracks
  <2>3. appt.event # None /\ appt.sp # None
    BY <1>0, <1>1, <1>t, <2>1 DEF Tracks
  <2>4. PICK k \in Jobs :
           /\ Step(w, k) /\ SameErrand(k, j)
           /\ k.ev = IF j.lane = "cancel" THEN j.ev ELSE appt.event
           /\ k.at \in {"record", "patch"}
           /\ k.at = "record" => k.ev = None \/ appt.sp = None
    BY <1>7, CancelOpensIs
  <2>5. k.ev = appt.event /\ k.at = "patch"
    BY <2>2, <2>3, <2>4
  <2>6. Tracks(k, appt', events')
    BY <1>0, <2>1, <2>3, <2>4, <2>5 DEF Tracks, SameErrand
  <2> QED
    BY <1>0, <1>a, <2>2, <2>4, <2>5, <2>6
<1> QED
  BY <1>2, <1>3, <1>4, <1>5, <1>6, <1>7

LEMMA ThrownTracks ==
  ASSUME NEW j \in Jobs, NEW a, NEW g,
         j.lane = "outbound" => a.event = None,
         j.lane \notin {"cancel", "decline"}
  PROVE  Tracks(Thrown(j), a, g)
<1>1. CASE j.lane = "outbound"
  BY <1>1 DEF Thrown, Failed, Idle, Tracks
<1>2. CASE j.lane # "outbound"
  BY <1>2, IdleTracks DEF Thrown
<1> QED
  BY <1>1, <1>2

LEMMA KeptCalls ==
  ASSUME Typed, NEW w \in Workers, Orderly', Calm', NEW j, j = jobs[w],
         InCourse(j), Kept(j, appt, events),
         FreeBusy(w) \/ MoveEvent(w) \/ PatchEvent(w) \/ CancelPrior(w) \/ InsertEvent(w)
  PROVE  \E k \in Jobs : Step(w, k) /\ Kept(k, appt', events')
<1>0. j \in Jobs /\ appt \in Records /\ None \notin Ids /\ "wrong_calendar" \notin blame'
  BY AppointmentAssumption DEF Typed, TypeOK, Ids, Orderly
<1>1. /\ \A e \in Ids : events[e].status = "live" => appt.event = e \/ j.ev = e
      /\ appt.event # None => appt.sp # None
      /\ Tracks(j, appt, events)
  BY DEF Kept, Accounted
<1>a. ASSUME NEW k \in Jobs, Step(w, k), appt' = appt, Tracks(k, appt, events'),
             \A e \in Ids : events'[e].status = "live" => appt.event = e \/ k.ev = e
      PROVE  \E i \in Jobs : Step(w, i) /\ Kept(i, appt', events')
  BY <1>1, <1>a DEF Kept, Accounted
<1>w. /\ j.at = "freebusy" => j.lane \in {"customer", "staff", "outbound"}
      /\ j.at = "move" => j.lane \in {"move", "exact", "edit"}
      /\ j.at = "patch" => j.lane \in {"move", "exact", "confirm", "edit", "cancel", "decline"}
      /\ j.at = "cancelPrior" => j.lane = "confirm"
      /\ j.at = "insert" => j.lane \in {"customer", "staff", "autobook", "match", "outbound",
                                        "confirm"}
  BY <1>0, WhoIsAt DEF OnCourse
<1>2. CASE FreeBusy(w)
  <2>1. j.at = "freebusy" /\ j.lane \in {"customer", "staff", "outbound"}
    BY <1>2, <1>w DEF FreeBusy
  <2>2. j.ev = None /\ (j.lane = "outbound" => appt.event = None)
    BY <1>1, <2>1 DEF Tracks
  <2>3. PICK k \in Jobs : /\ Step(w, k)
                          /\ k = Thrown(j) \/ (k.at = "insert" /\ Onward(k, j))
    BY <1>2, FreeBusyIs
  <2>4. appt' = appt /\ events' = events
    BY <1>2, FreeBusyIs
  <2>5. CASE k = Thrown(j)
    BY <1>0, <1>1, <1>a, <2>1, <2>2, <2>3, <2>4, <2>5, ThrownTracks
  <2>6. CASE k.at = "insert" /\ Onward(k, j)
    <3>1. Tracks(k, appt, events')
      BY <1>1, <2>1, <2>2, <2>4, <2>6 DEF Tracks, Onward, SameErrand
    <3> QED
      BY <1>0, <1>1, <1>a, <2>2, <2>3, <2>4, <2>6, <3>1
  <2> QED
    BY <2>3, <2>5, <2>6
<1>3. CASE MoveEvent(w)
  <2>1. j.at = "move" /\ j.lane \in {"move", "exact", "edit"}
    BY <1>3, <1>w DEF MoveEvent
  <2>2. j.ev = appt.event
    BY <1>1, <2>1 DEF Tracks
  <2>3. PICK k \in Jobs :
          /\ Step(w, k)
          /\ \/ k = Thrown(j) /\ events' = events
             \/ /\ On(j.ev, j.src) /\ Others(j.ev)
                /\ events'[j.ev].status = events[j.ev].status
                /\ k.at = "patch" /\ SameErrand(k, j) /\ k.ev = j.ev
    BY <1>3, MoveEventIs
  <2>4. appt' = appt
    BY <1>3, MoveEventIs
  <2>5. CASE k = Thrown(j) /\ events' = events
    BY <1>0, <1>1, <1>a, <2>1, <2>2, <2>3, <2>4, <2>5, ThrownTracks
  <2>6. CASE /\ On(j.ev, j.src) /\ Others(j.ev)
             /\ events'[j.ev].status = events[j.ev].status
             /\ k.at = "patch" /\ SameErrand(k, j) /\ k.ev = j.ev
    <3>1. Tracks(k, appt, events')
      BY <1>1, <2>1, <2>2, <2>6 DEF Tracks, SameErrand
    <3>2. \A e \in Ids : events'[e].status = events[e].status
      BY <2>6 DEF Others
    <3> QED
      BY <1>1, <1>a, <2>2, <2>3, <2>4, <2>6, <3>1, <3>2
  <2> QED
    BY <2>3, <2>5, <2>6
<1>4. CASE PatchEvent(w)
  <2>1. /\ j.at = "patch"
        /\ j.lane \in {"move", "exact", "confirm", "edit", "cancel", "decline"}
    BY <1>4, <1>w DEF PatchEvent
  <2>2. j.ev = appt.event
    BY <1>1, <2>1 DEF Tracks
  <2>3. PICK k \in Jobs :
          /\ Step(w, k) /\ On(j.ev, j.cal) /\ Others(j.ev)
          /\ j.what = "cancel" => events'[j.ev].status = "cancelled"
          /\ j.what = "no_show" => events'[j.ev].status # "live"
          /\ events'[j.ev].status = "live" => events[j.ev].status = "live"
          /\ k.at = "record" /\ Onward(k, j)
    BY <1>0, <1>4, PatchEventIs
  <2>4. appt' = appt /\ j.what \in {"book", "cancel", "no_show"} /\ j.ev \in Ids
    BY <1>0, <1>4, <2>3, PatchEventIs, JobParts DEF On
  <2>5. j.lane \in {"cancel", "decline"} => j.what = "cancel"
    BY <2>1 DEF InCourse
  <2>6. k.lane \notin {"customer", "staff", "autobook", "match", "outbound"}
        /\ k.lane = j.lane /\ k.ev = appt.event /\ k.what = j.what /\ appt.event # None
    BY <1>0, <2>1, <2>2, <2>3, <2>4 DEF Onward, SameErrand
  <2>7. k.what # "book" => events'[appt.event].status # "live"
    BY <2>2, <2>3, <2>4, <2>6
  <2>8. k.lane \in {"cancel", "decline"} => k.what # "book"
    BY <2>5, <2>6
  <2>9. Tracks(k, appt, events')
    BY <2>3, <2>6, <2>7, <2>8 DEF Tracks, Gone
  <2> QED
    BY <1>1, <1>a, <2>2, <2>3, <2>4, <2>6, <2>9 DEF Others
<1>5. CASE CancelPrior(w)
  <2>1. j.at = "cancelPrior" /\ j.lane = "confirm"
    BY <1>5, <1>w DEF CancelPrior
  <2>2. j.ev = appt.event
    BY <1>1, <2>1 DEF Tracks
  <2>3. PICK k \in Jobs :
          /\ Step(w, k) /\ k.at = "insert" /\ Onward(k, j)
          /\ On(j.ev, j.src) /\ Others(j.ev) /\ events'[j.ev].status = "cancelled"
    BY <1>0, <1>5, CancelPriorIs
  <2>4. appt' = appt
    BY <1>5, CancelPriorIs
  <2>5. Tracks(k, appt, events')
    BY <2>1, <2>2, <2>3 DEF Tracks, Gone, Onward, SameErrand
  <2> QED
    BY <1>1, <1>a, <2>2, <2>3, <2>4, <2>5 DEF Others, On
<1>6. CASE InsertEvent(w)
  <2>1. /\ j.at = "insert" /\ j.ok
        /\ j.lane \in {"customer", "staff", "autobook", "match", "outbound", "confirm"}
    BY <1>6, <1>w DEF InsertEvent, InCourse
  <2>2. /\ j.lane # "confirm" => j.ev = None
        /\ j.lane = "confirm" => j.ev = appt.event /\ (j.src = None \/ Gone(appt, events))
        /\ j.lane \in {"autobook", "match", "outbound"} => appt.event = None
    BY <1>1, <2>1 DEF Tracks
  <2>3. PICK k \in Jobs :
              /\ Step(w, k) /\ k.at = "record" /\ k.ev \in Ids /\ Others(k.ev)
              /\ events'[k.ev].status = "live" /\ SameErrand(k, j) /\ k.src = j.src
    BY <1>6, InsertEventIs
  <2>4. appt' = appt /\ appt.event \in Ids \union {None}
    BY <1>0, <1>6, InsertEventIs, RecordParts
  <2>5. k.lane = "confirm" => k.ev = appt.event \/ k.src = None \/ Gone(appt, events')
    BY <2>2, <2>3, <2>4 DEF Gone, Others, SameErrand
  <2>6. Tracks(k, appt, events')
    BY <2>1, <2>2, <2>3, <2>5 DEF Tracks, SameErrand
  <2>7. \A e \in Ids : events'[e].status = "live" => appt.event = e \/ k.ev = e
    BY <1>0, <1>1, <2>2, <2>3 DEF Others
  <2> QED
    BY <1>a, <2>3, <2>4, <2>6, <2>7
<1> QED
  BY <1>2, <1>3, <1>4, <1>5, <1>6

LEMMA KeptRecords ==
  ASSUME Typed, NEW w \in Workers, Orderly', Calm', NEW j, j = jobs[w],
         InCourse(j), Kept(j, appt, events),
         DeskRecords(w) \/ TurnRecords(w) \/ OutboundRecords(w) \/ ConfirmRecords(w)
         \/ EditRecords(w) \/ CancelRecords(w)
  PROVE  Step(w, Idle) /\ Kept(Idle, appt', events')
<1>0. /\ j \in Jobs /\ appt \in Records /\ None \notin Ids
      /\ "wrong_calendar" \notin blame' /\ "booked_over" \notin blame'
  BY AppointmentAssumption DEF Typed, TypeOK, Ids, Orderly
<1>1. /\ \A e \in Ids : events[e].status = "live" => appt.event = e \/ j.ev = e
      /\ appt.event # None => appt.sp # None
      /\ Tracks(j, appt, events)
  BY DEF Kept, Accounted
<1>2. j.at = "record" /\ Step(w, Idle) /\ events' = events
  BY DEF DeskRecords, TurnRecords, OutboundRecords, ConfirmRecords, EditRecords,
     CancelRecords, Record, At
<1>3. /\ j.lane \in Booking /\ j.ok => j.cal # None
      /\ j.lane \in Booking \ {"outbound"} => j.ok
  BY <1>2 DEF InCourse
<1>4. SUFFICES
        /\ \A e \in Ids : events[e].status = "live" => appt'.event = e
        /\ appt'.event # None => appt'.sp # None
  BY <1>2, IdleKept
<1> USE DEF Booking, AllLanes
<1>5. CASE DeskRecords(w)
  <2>1. j.lane \in {"customer", "staff"} /\ appt' = Booked(j.lane, j.ev, j.cal, j.time)
        /\ appt.event = None
    <3>1. /\ j.lane \in {"customer", "staff"} /\ appt' = Booked(j.lane, j.ev, j.cal, j.time)
          /\ Excuse(IF appt.event # None THEN {"booked_over"} ELSE {})
      BY <1>5 DEF DeskRecords, Record, At
    <3> QED
      BY <1>0, <3>1, ExcuseCalm
  <2>2. appt'.event = j.ev /\ appt'.sp = j.cal
    BY <1>0, <2>1, BookedIs
  <2> QED
    BY <1>0, <1>1, <1>3, <2>1, <2>2
<1>6. CASE TurnRecords(w)
  <2>1. /\ j.lane \in {"autobook", "match", "move", "exact"}
        /\ appt' = Booked(j.lane, j.ev, j.cal, j.time)
    BY <1>6 DEF TurnRecords, Record, At
  <2>2. appt'.event = j.ev /\ appt'.sp = j.cal
    BY <1>0, <2>1, BookedIs
  <2>3. appt.event = None \/ appt.event = j.ev
    BY <1>1, <1>2, <2>1 DEF Tracks
  <2> QED
    BY <1>0, <1>1, <1>3, <2>1, <2>2, <2>3
<1>7. CASE OutboundRecords(w)
  <2>1. /\ j.lane = "outbound"
        /\ appt' = IF j.ok THEN Booked(j.lane, j.ev, j.cal, j.time) ELSE Teardown
    BY <1>7 DEF OutboundRecords, Record, At
  <2>2. appt.event = None /\ (~j.ok => j.ev = None)
    BY <1>1, <1>2, <2>1 DEF Tracks
  <2>3. CASE j.ok
    BY <1>0, <1>1, <1>3, <2>1, <2>2, <2>3, BookedIs
  <2>4. CASE ~j.ok
    BY <1>0, <1>1, <2>1, <2>2, <2>4 DEF Teardown, NoBooking
  <2> QED
    BY <2>3, <2>4
<1>8. CASE ConfirmRecords(w)
  <2>1. /\ j.lane = "confirm" /\ appt' = Confirmed(j.ev, j.cal, j.time)
        /\ appt.event # None => j.src # None
    <3>1. /\ j.lane = "confirm" /\ appt' = Confirmed(j.ev, j.cal, j.time)
          /\ Excuse(IF appt.event # None /\ j.src = None THEN {"wrong_calendar"} ELSE {})
      BY <1>8 DEF ConfirmRecords, Record, At
    <3> QED
      BY <1>0, <3>1, ExcuseCalm
  <2>2. appt'.event = j.ev /\ appt'.sp = j.cal
    BY <2>1 DEF Confirmed
  <2>3. j.ev = appt.event \/ appt.event = None \/ events[appt.event].status # "live"
    BY <1>1, <1>2, <2>1 DEF Tracks, Gone
  <2> QED
    BY <1>0, <1>1, <1>3, <2>1, <2>2, <2>3
<1>9. CASE EditRecords(w)
  <2>1. /\ j.lane = "edit"
        /\ appt' = IF appt.event # j.ev THEN appt
                   ELSE IF j.what = "book" THEN Edited(j.cal, j.time) ELSE Teardown
    BY <1>9 DEF EditRecords, Record, At
  <2>2. appt.event = j.ev /\ (j.what # "book" => Gone(appt, events))
    BY <1>1, <1>2, <2>1 DEF Tracks
  <2>3. CASE j.what = "book"
    BY <1>0, <1>1, <1>3, <2>1, <2>2, <2>3, EditedIs
  <2>4. CASE j.what # "book"
    <3>1. appt'.event = None
      BY <2>1, <2>2, <2>4 DEF Teardown, NoBooking
    <3> QED
      BY <1>0, <1>1, <2>2, <2>4, <3>1 DEF Gone
  <2> QED
    BY <2>3, <2>4
<1>10. CASE CancelRecords(w)
  <2>1. j.lane \in {"cancel", "decline"} /\ appt'.event = None
    BY <1>0, <1>10, DeclinedIs DEF CancelRecords, Record, At, Teardown, NoBooking
  <2>2. appt.event = j.ev /\ Gone(appt, events)
    BY <1>1, <1>2, <2>1 DEF Tracks
  <2> QED
    BY <1>0, <1>1, <2>1, <2>2 DEF Gone
<1> QED
  BY <1>5, <1>6, <1>7, <1>8, <1>9, <1>10

LEMMA NoneLeftInit == Init => NoneLeft
<1> SUFFICES ASSUME Init PROVE NoneLeft
  OBVIOUS
<1>1. /\ \A w \in Workers : jobs[w] = Idle
      /\ sweep.at = "idle"
  BY DEF Init, NotLooking
<1>2. appt \in Standing
  BY BeforeAssumption DEF Init
<1>3. appt.event # None => appt.sp # None
  BY <1>2, AppointmentAssumption DEF Standing, NoBooking
<1>4. \A e \in Ids : events[e].status = "live" => appt.event = e
  BY DEF Init, Origin, Unused
<1> QED
  BY <1>1, <1>3, <1>4, IdleTracks DEF NoneLeft, NoStrayEvent, Held

LEMMA NoneLeftNext == Typed /\ Alone /\ NoneLeft /\ [Next]_vars => NoneLeft'
<1> SUFFICES ASSUME Typed, Alone, NoneLeft, [Next]_vars, Orderly' PROVE NoneLeft'
  BY DEF NoneLeft, NoStrayEvent, Orderly
<1>0. Calm' /\ (blame \subseteq blame' => Orderly)
  BY DEF Orderly, Calm
<1>1. ASSUME NEW w \in Workers, Arrives(w) PROVE NoneLeft'
  <2>1. /\ \A v \in Workers : jobs[v] = Idle
        /\ sweep.at = "idle" /\ Orderly /\ UNCHANGED <<events, sweep>>
    BY <1>0, <1>1, ArrivesAlone
  <2>2. Kept(Idle, appt, events)
    BY <2>1, KeptBefore
  <2>3. PICK k \in Jobs : Step(w, k) /\ Kept(k, appt', events')
    BY <1>0, <1>1, <2>1, <2>2, KeptArrives
  <2> QED
    BY <2>1, <2>3, KeptAfter
<1>2. ASSUME NEW w \in Workers, Continues(w) PROVE NoneLeft'
  <2>1. /\ InCourse(jobs[w]) /\ sweep.at = "idle" /\ Orderly /\ UNCHANGED sweep
        /\ \A v \in Workers \ {w} : jobs[v] = Idle
    BY <1>0, <1>2, ContinuesAlone
  <2>2. Kept(jobs[w], appt, events)
    BY <2>1, KeptBefore
  <2>3. \E k \in Jobs : Step(w, k) /\ Kept(k, appt', events')
    BY <1>0, <1>2, <2>1, <2>2, KeptReads, KeptCalls, KeptRecords, IdleType DEF Continues
  <2> QED
    BY <2>1, <2>3, KeptAfter
<1>3. CASE SweepReads
  <2>1. (\A v \in Workers : jobs[v] = Idle) /\ Orderly
    BY <1>0, <1>3, SweepAlone
  <2>2. sweep'.status = "cancelled" => Gone(appt, events)
    BY <1>3 DEF SweepReads, Gone
  <2> QED
    BY <1>3, <2>1, <2>2 DEF SweepReads, NoneLeft, NoStrayEvent, Orderly, Gone, Held, InHand
<1>4. CASE SweepApplies
  <2>1. Orderly /\ sweep.at = "read" /\ UNCHANGED <<events, jobs>> /\ appt' = Reconciled
        /\ sweep'.at = "idle"
    BY <1>0, <1>4 DEF SweepApplies, NotLooking
  <2>2. \A v \in Workers : jobs[v] = Idle
    BY <1>0, <2>1 DEF Alone, Orderly
  <2>3. None \notin Ids /\ Idle.ev = None
    BY AppointmentAssumption DEF Ids, Idle
  <2>4. /\ \A e \in Ids : events[e].status = "live" => appt.event = e
        /\ appt.event # None => appt.sp # None
        /\ sweep.status = "cancelled" => Gone(appt, events)
    BY <2>1, <2>2, <2>3 DEF NoneLeft, NoStrayEvent, Orderly, Held, InHand
  <2>5. appt \in Records
    BY DEF Typed, TypeOK
  <2>6. /\ sweep.status = "cancelled" => appt'.event = None
        /\ sweep.status # "cancelled" => appt'.event = appt.event /\ appt'.sp = appt.sp
    BY <2>1, <2>5 DEF Reconciled, Teardown, NoBooking, Records
  <2>7. \A e \in Ids : events'[e].status = "live" => appt'.event = e
    BY <2>1, <2>3, <2>4, <2>6 DEF Gone
  <2> QED
    BY <2>1, <2>2, <2>4, <2>6, <2>7, IdleTracks DEF NoneLeft, NoStrayEvent, Held
<1>5. CASE MovedOutside \/ CancelledOutside
  <2>1. PICK e, event : EditOutside(e, event) /\ e \in Ids
                        /\ event.status \in {events[e].status, "cancelled"}
    <3>1. \A e \in Ids : events[e] \in Events
      BY DEF Typed, TypeOK
    <3>2. CASE MovedOutside
      <4>1. PICK e \in Ids, t \in Times : EditOutside(e, [events[e] EXCEPT !.time = t])
        BY <3>2 DEF MovedOutside
      <4>2. [events[e] EXCEPT !.time = t].status = events[e].status
        BY <3>1 DEF Events
      <4> QED
        BY <4>1, <4>2
    <3>3. CASE CancelledOutside
      <4>1. PICK e \in Ids : EditOutside(e, [events[e] EXCEPT !.status = "cancelled"])
        BY <3>3 DEF CancelledOutside
      <4>2. [events[e] EXCEPT !.status = "cancelled"].status = "cancelled"
        BY <3>1 DEF Events
      <4> QED
        BY <4>1, <4>2
    <3> QED
      BY <1>5, <3>2, <3>3
  <2>2. Orderly /\ UNCHANGED <<appt, jobs, sweep>>
        /\ \A f \in Ids : events'[f].status \in {events[f].status, "cancelled"}
    BY <1>0, <2>1, ExcuseCalm DEF EditOutside, Typed, TypeOK
  <2>3. appt.event \in Ids \union {None}
    BY RecordParts DEF Typed, TypeOK
  <2>4. Gone(appt, events) => Gone(appt, events')
    BY <2>2, <2>3 DEF Gone
  <2>5. \A v \in Workers : Tracks(jobs[v], appt, events')
    BY <2>2, <2>4 DEF NoneLeft, Tracks
  <2> QED
    BY <2>2, <2>4, <2>5 DEF NoneLeft, NoStrayEvent, Orderly, Held, InHand
<1>6. CASE UNCHANGED vars
  BY <1>6 DEF vars, NoneLeft, NoStrayEvent, Orderly, Gone, Held, InHand
<1> QED
  BY <1>1, <1>2, <1>3, <1>4, <1>5, <1>6 DEF Next

(* Requests that come one after the other, each answered by Google, that   *)
(* book over no event and find the event where the record says it is,      *)
(* leave none on a calendar that neither the record nor a running handler  *)
(* knows of, however many come, whichever lanes they take and whatever is  *)
(* edited in Google Calendar.                                              *)
THEOREM NoStrayEventCorrect == Spec => []NoStrayEvent
<1>1. Init => Typed /\ Alone /\ NoneLeft
  BY TypedInit, AloneInit, NoneLeftInit
<1>2. Typed /\ Alone /\ NoneLeft /\ [Next]_vars => (Typed /\ Alone /\ NoneLeft)'
  BY TypedNext, AloneNext, NoneLeftNext
<1>3. NoneLeft => NoStrayEvent
  BY DEF NoneLeft, NoStrayEvent, Orderly
<1> QED
  BY <1>1, <1>2, <1>3, PTL DEF Spec
-----------------------------------------------------------------------------
(* The record's event is where and when the record says.                   *)
Stands(a, g) ==
  a.event # None =>
    /\ g[a.event].cal = a.sp
    /\ g[a.event].time = a.when
    /\ g[a.event].status = "live"

(* The event a request has written is the one it will record.              *)
Made(j, g) ==
  /\ j.ev # None
  /\ g[j.ev].cal = j.cal
  /\ g[j.ev].time = j.time
  /\ g[j.ev].status = "live"

(* The record's event has been moved to the calendar it is going to.       *)
Moved(j, a, g) ==
  /\ j.ev = a.event
  /\ j.ev # None
  /\ g[j.ev].cal = j.cal
  /\ g[j.ev].status = "live"

(* How far record and event may be apart while request j is served.        *)
Agreeing(j, a, g) ==
  /\ j.lane \in {"customer", "staff", "autobook"} /\ j.at # "record" => Stands(a, g)
  /\ j.lane \in {"match", "outbound"} => a.event = None
  /\ j.lane = "match" /\ j.at = "open" => a.slot = None \/ a.slot.time = a.when
  /\ j.lane = "match" /\ j.at # "open" => j.time = a.when
  /\ j.at = "record" /\ j.ok /\ j.lane \in Booking \ {"edit"} => Made(j, g)
  /\ j.lane \in {"move", "exact"} /\ j.at = "open" => Stands(a, g)
  /\ j.lane \in {"move", "exact"} /\ j.at \in {"move", "patch"} =>
       j.ev = a.event /\ j.ev # None
  /\ j.at = "move" => Stands(a, g)
  /\ j.at = "patch" /\ j.lane \in {"move", "exact", "edit"} =>
       Stands(a, g) \/ Moved(j, a, g)
  /\ j.lane = "confirm" /\ j.at \in {"patch", "cancelPrior"} =>
       Stands(a, g) /\ j.ev = a.event /\ j.ev # None
  /\ j.lane = "edit" => j.ev # None
  /\ j.lane = "edit" /\ j.ev # a.event => Stands(a, g)
  /\ j.lane = "edit" /\ j.ev = a.event /\ j.at = "record" /\ j.what = "book" =>
       Made(j, g)

InTurn == blame \subseteq {"booked_over", "wrong_calendar"}

Agreement ==
  InTurn =>
    /\ \A w \in Workers : Agreeing(jobs[w], appt, events)
    /\ Quiet => Stands(appt, events)
    /\ sweep.at = "read" /\ appt.event # None =>
         /\ sweep.status = events[appt.event].status
         /\ sweep.time = events[appt.event].time


Fit(j, a, g) == Agreeing(j, a, g) /\ (j.at = "idle" => Stands(a, g))

LEMMA IdleAgrees ==
  ASSUME NEW a, NEW g
  PROVE  Agreeing(Idle, a, g)
  BY DEF Agreeing, Idle

LEMMA IdleFit ==
  ASSUME NEW a, NEW g, Stands(a, g)
  PROVE  Fit(Idle, a, g)
  BY IdleAgrees DEF Fit

LEMMA FitBefore ==
  ASSUME Typed, Agreement, InTurn, NEW w \in Workers,
         \A v \in Workers \ {w} : jobs[v] = Idle
  PROVE  Fit(jobs[w], appt, events)
  BY DEF Fit, Agreement, Quiet, Idle

LEMMA FitAfter ==
  ASSUME Typed, NEW w \in Workers, NEW k \in Jobs, Step(w, k),
         \A v \in Workers \ {w} : jobs[v] = Idle,
         sweep.at = "idle", UNCHANGED sweep, Fit(k, appt', events')
  PROVE  Agreement'
<1>1. jobs' \in [Workers -> Jobs] /\ jobs'[w] = k
      /\ \A v \in Workers \ {w} : jobs'[v] = Idle
  BY DEF Step, Typed, TypeOK
<1>2. \A v \in Workers : Agreeing(jobs'[v], appt', events')
  BY <1>1, IdleAgrees DEF Fit
<1> QED
  BY <1>1, <1>2 DEF Fit, Agreement, Quiet

LEMMA FitArrives ==
  ASSUME Typed, NEW w \in Workers, Arrives(w), InTurn', Calm', Stands(appt, events),
         UNCHANGED events
  PROVE  \E k \in Jobs : Step(w, k) /\ Fit(k, appt', events')
<1>1. PICK k \in Jobs : Step(w, k) /\ Newcomer(k)
  BY ArrivesIs
<1>2. appt \in Records /\ None \notin Ids /\ "slot_match" \notin blame'
  BY AppointmentAssumption DEF Typed, TypeOK, Ids, InTurn
<1>3. k.at # "idle" /\ k.at # "record"
  BY <1>1 DEF Newcomer
<1>4. CASE k.lane \notin {"match", "outbound"}
  <2>1. appt' = appt
    BY <1>1, <1>4 DEF Newcomer
  <2>2. Stands(appt', events')
    BY <2>1
  <2> QED
    BY <1>1, <1>2, <1>3, <1>4, <2>1, <2>2 DEF Fit, Agreeing, Newcomer
<1>5. CASE k.lane = "match"
  <2>1. PICK c \in Calendars, t \in Times : appt' = Matched(c, t)
    BY <1>1, <1>5 DEF Newcomer
  <2>2. k.at = "open" /\ appt.event = None
    BY <1>1, <1>2, <1>5 DEF Newcomer
  <2>3. appt'.event = None /\ appt'.slot = Slot(c, t) /\ appt'.when = t
    BY <1>2, <2>1, <2>2, MatchedIs
  <2>4. appt'.slot.time = appt'.when
    BY <2>3 DEF Slot
  <2> QED
    BY <1>1, <1>5, <2>2, <2>3, <2>4 DEF Fit, Agreeing
<1>6. CASE k.lane = "outbound"
  <2>1. appt.event = None /\ k.at \in {"ask", "open"}
    BY <1>1, <1>6 DEF Newcomer
  <2>2. appt'.event = appt.event
    BY <1>1, <1>2, MatchedIs DEF Newcomer
  <2> QED
    BY <1>1, <1>3, <1>6, <2>1, <2>2 DEF Fit, Agreeing
<1> QED
  BY <1>4, <1>5, <1>6

LEMMA FitReads ==
  ASSUME Typed, NEW w \in Workers, InTurn', Calm', NEW j, j = jobs[w],
         InCourse(j), Fit(j, appt, events),
         OutboundSays(w) \/ OutboundOpens(w) \/ MatchOpens(w) \/ MoveOpens(w)
         \/ ExactOffers(w) \/ CancelOpens(w)
  PROVE  \E k \in Jobs : Step(w, k) /\ Fit(k, appt', events')
<1>0. j \in Jobs /\ appt \in Records
  BY DEF Typed, TypeOK
<1>1. Agreeing(j, appt, events)
  BY DEF Fit
<1>2. CASE OutboundSays(w)
  <2>1. /\ j.lane = "outbound" /\ j.at = "ask" /\ events' = events
        /\ appt'.event = appt.event
    BY <1>0, <1>2 DEF OutboundSays, At, Records
  <2>2. appt.event = None
    BY <1>1, <2>1 DEF Agreeing
  <2>3. PICK k \in Jobs : /\ Step(w, k) /\ k.at = "open" /\ SameErrand(k, j)
    BY <1>2, <2>2, OutboundSaysIs
  <2> QED
    BY <2>1, <2>2, <2>3 DEF Fit, Agreeing, SameErrand
<1>3. CASE OutboundOpens(w)
  <2>1. j.lane = "outbound" /\ UNCHANGED <<appt, events>>
    BY <1>3 DEF OutboundOpens, At
  <2>2. appt.event = None
    BY <1>1, <2>1 DEF Agreeing
  <2>3. PICK k \in Jobs : /\ Step(w, k) /\ k.at \in {"insert", "freebusy"}
                          /\ SameErrand(k, j)
    BY <1>3, OutboundOpensIs
  <2> QED
    BY <2>1, <2>2, <2>3 DEF Fit, Agreeing, SameErrand
<1>4. CASE MatchOpens(w)
  <2>1. j.lane = "match" /\ j.at = "open" /\ UNCHANGED <<appt, events>>
    BY <1>4 DEF MatchOpens, At
  <2>2. appt.event = None /\ (appt.slot = None \/ appt.slot.time = appt.when)
    BY <1>1, <2>1 DEF Agreeing
  <2>3. PICK k \in Jobs :
          /\ Step(w, k)
          /\ \/ k = Idle
             \/ /\ k.at = "insert" /\ SameErrand(k, j)
                /\ appt.slot # None /\ k.time = appt.slot.time
    BY <1>4, <2>2, MatchOpensIs
  <2>4. CASE k = Idle
    BY <2>1, <2>2, <2>3, <2>4, IdleFit DEF Stands
  <2>5. CASE k # Idle
    BY <2>1, <2>2, <2>3, <2>5 DEF Fit, Agreeing, SameErrand
  <2> QED
    BY <2>4, <2>5
<1>5. CASE MoveOpens(w)
  <2>1. j.lane \in {"move", "exact"} /\ j.at = "open" /\ UNCHANGED <<appt, events>>
    BY <1>5 DEF MoveOpens, At
  <2>2. Stands(appt, events)
    BY <1>1, <2>1 DEF Agreeing
  <2>3. PICK k \in Jobs :
          /\ Step(w, k)
          /\ \/ k = Idle
             \/ /\ SameErrand(k, j) /\ k.at \in {"move", "patch"}
                /\ appt.event # None /\ k.ev = appt.event
    BY <1>5, MoveOpensIs
  <2>4. CASE k = Idle
    BY <2>1, <2>2, <2>3, <2>4, IdleFit
  <2>5. CASE k # Idle
    BY <2>1, <2>2, <2>3, <2>5 DEF Fit, Agreeing, SameErrand
  <2> QED
    BY <2>4, <2>5
<1>6. CASE ExactOffers(w)
  <2>1. j.lane = "exact" /\ j.at = "open" /\ Step(w, Idle) /\ events' = events
    BY <1>6 DEF ExactOffers, At
  <2>2. appt'.event = appt.event /\ appt'.sp = appt.sp /\ appt'.when = appt.when
    BY <1>0, <1>6 DEF ExactOffers, Records
  <2>3. Stands(appt', events')
    BY <1>1, <2>1, <2>2 DEF Agreeing, Stands
  <2> QED
    BY <2>1, <2>3, IdleFit, IdleType
<1>7. CASE CancelOpens(w)
  <2>1. j.lane \in {"cancel", "decline"}
    BY <1>7 DEF CancelOpens, At
  <2>2. PICK k \in Jobs :
           /\ Step(w, k) /\ SameErrand(k, j) /\ k.at \in {"record", "patch"}
    BY <1>7, CancelOpensIs
  <2> QED
    BY <2>1, <2>2 DEF Fit, Agreeing, SameErrand, Booking
<1> QED
  BY <1>2, <1>3, <1>4, <1>5, <1>6, <1>7

LEMMA ThrownFit ==
  ASSUME NEW j \in Jobs, NEW a, NEW g,
         j.lane = "outbound" => a.event = None,
         j.lane \in AllLanes \ {"outbound", "cancel", "decline"} => Stands(a, g),
         j.lane \in AllLanes
  PROVE  Fit(Thrown(j), a, g)
<1>1. CASE j.lane \in {"outbound", "cancel", "decline"}
  <2>1. Thrown(j).lane = j.lane /\ Thrown(j).at = "record" /\ ~Thrown(j).ok
    BY <1>1 DEF Thrown, Failed, Idle
  <2> QED
    BY <1>1, <2>1 DEF Fit, Agreeing
<1>2. CASE j.lane \notin {"outbound", "cancel", "decline"}
  BY <1>2, IdleFit DEF Thrown
<1> QED
  BY <1>1, <1>2

LEMMA FitCalls ==
  ASSUME Typed, NEW w \in Workers, InTurn', Calm', NEW j, j = jobs[w],
         InCourse(j), Fit(j, appt, events),
         FreeBusy(w) \/ MoveEvent(w) \/ PatchEvent(w) \/ CancelPrior(w) \/ InsertEvent(w)
  PROVE  \E k \in Jobs : Step(w, k) /\ Fit(k, appt', events')
<1>0. /\ j \in Jobs /\ appt.event \in Ids \union {None} /\ None \notin Ids
      /\ j.ev \in Ids \union {None}
  BY AppointmentAssumption, RecordParts, JobParts DEF Typed, TypeOK, Ids
<1>1. Agreeing(j, appt, events)
  BY DEF Fit
<1>w. /\ j.at = "freebusy" => j.lane \in {"customer", "staff", "outbound"}
      /\ j.at = "move" => j.lane \in {"move", "exact", "edit"}
      /\ j.at = "patch" => j.lane \in {"move", "exact", "confirm", "edit", "cancel", "decline"}
      /\ j.at = "cancelPrior" => j.lane = "confirm"
      /\ j.at = "insert" => j.lane \in {"customer", "staff", "autobook", "match", "outbound",
                                        "confirm"}
  BY <1>0, WhoIsAt DEF OnCourse
<1>2. CASE FreeBusy(w)
  <2>1. j.at = "freebusy" /\ j.lane \in {"customer", "staff", "outbound"}
    BY <1>2, <1>w DEF FreeBusy
  <2>2. /\ j.lane = "outbound" => appt.event = None
        /\ j.lane # "outbound" => Stands(appt, events)
    BY <1>1, <2>1 DEF Agreeing
  <2>3. PICK k \in Jobs : /\ Step(w, k)
                          /\ k = Thrown(j) \/ (k.at = "insert" /\ Onward(k, j))
    BY <1>2, FreeBusyIs
  <2>4. appt' = appt /\ events' = events
    BY <1>2, FreeBusyIs
  <2>5. CASE k = Thrown(j)
    BY <1>0, <2>1, <2>2, <2>3, <2>4, <2>5, ThrownFit DEF AllLanes
  <2>6. CASE k.at = "insert" /\ Onward(k, j)
    BY <2>1, <2>2, <2>3, <2>4, <2>6 DEF Fit, Agreeing, Onward, SameErrand
  <2> QED
    BY <2>3, <2>5, <2>6
<1>3. CASE MoveEvent(w)
  <2>1. j.at = "move" /\ j.lane \in {"move", "exact", "edit"}
    BY <1>3, <1>w DEF MoveEvent
  <2>2. /\ Stands(appt, events) /\ j.ev # None
        /\ j.lane # "edit" => j.ev = appt.event
    BY <1>1, <2>1 DEF Agreeing
  <2>3. PICK k \in Jobs :
          /\ Step(w, k)
          /\ \/ k = Thrown(j) /\ events' = events
             \/ /\ On(j.ev, j.src) /\ Others(j.ev)
                /\ events'[j.ev].status = events[j.ev].status
                /\ events'[j.ev].cal = j.cal
                /\ k.at = "patch" /\ SameErrand(k, j) /\ k.ev = j.ev /\ k.cal = j.cal
    BY <1>3, MoveEventIs
  <2>4. appt' = appt
    BY <1>3, MoveEventIs
  <2>5. CASE k = Thrown(j) /\ events' = events
    BY <1>0, <2>1, <2>2, <2>3, <2>4, <2>5, ThrownFit DEF AllLanes
  <2>6. CASE /\ On(j.ev, j.src) /\ Others(j.ev)
             /\ events'[j.ev].status = events[j.ev].status
             /\ events'[j.ev].cal = j.cal
             /\ k.at = "patch" /\ SameErrand(k, j) /\ k.ev = j.ev /\ k.cal = j.cal
    <3>1. CASE j.ev = appt.event
      <4>1. Moved(k, appt, events')
        BY <2>2, <2>6, <3>1 DEF Moved, Stands
      <4> QED
        BY <2>1, <2>2, <2>3, <2>4, <2>6, <3>1, <4>1 DEF Fit, Agreeing, SameErrand
    <3>2. CASE j.ev # appt.event
      <4>1. Stands(appt, events') /\ j.lane = "edit"
        BY <1>0, <2>1, <2>2, <2>6, <3>2 DEF Stands, Others
      <4> QED
        BY <2>2, <2>3, <2>4, <2>6, <4>1 DEF Fit, Agreeing, SameErrand
    <3> QED
      BY <3>1, <3>2
  <2> QED
    BY <2>3, <2>5, <2>6
<1>4. CASE PatchEvent(w)
  <2>1. /\ j.at = "patch" /\ j.ok
        /\ j.lane \in {"move", "exact", "confirm", "edit", "cancel", "decline"}
    BY <1>4, <1>w DEF PatchEvent, InCourse
  <2>2. /\ j.lane \in {"move", "exact", "confirm"} => j.ev = appt.event /\ j.ev # None
        /\ j.lane \in {"move", "exact", "edit"} =>
             Stands(appt, events) \/ Moved(j, appt, events)
        /\ j.lane = "confirm" => Stands(appt, events)
        /\ j.lane = "edit" => j.ev # None /\ (j.ev # appt.event => Stands(appt, events))
    BY <1>1, <2>1 DEF Agreeing
  <2>3. PICK k \in Jobs :
          /\ Step(w, k)
          /\ \/ k = Thrown(j) /\ events' = events /\ ~On(j.ev, j.cal)
             \/ /\ On(j.ev, j.cal) /\ Others(j.ev)
                /\ events'[j.ev].cal = events[j.ev].cal
                /\ events'[j.ev].time = IF j.time = None THEN events[j.ev].time
                                        ELSE j.time
                /\ j.what = "book" => events'[j.ev].status = events[j.ev].status
                /\ k.at = "record" /\ Onward(k, j)
    BY <1>4, PatchEventIs
  <2>4. appt' = appt
    BY <1>4, PatchEventIs
  <2>5. CASE k = Thrown(j) /\ events' = events /\ ~On(j.ev, j.cal)
    <3>1. ~Moved(j, appt, events)
      BY <1>0, <2>5 DEF Moved, On
    <3> QED
      BY <1>0, <2>1, <2>2, <2>3, <2>4, <2>5, <3>1, ThrownFit DEF AllLanes
  <2>6. CASE /\ On(j.ev, j.cal) /\ Others(j.ev)
             /\ events'[j.ev].cal = events[j.ev].cal
             /\ events'[j.ev].time = IF j.time = None THEN events[j.ev].time
                                     ELSE j.time
             /\ j.what = "book" => events'[j.ev].status = events[j.ev].status
             /\ k.at = "record" /\ Onward(k, j)
    <3>1. /\ j.lane \in {"move", "exact", "confirm", "edit"} => j.time # None
          /\ j.lane \in {"move", "exact", "confirm"} => j.what = "book"
      BY <2>1 DEF InCourse, Booking, AllLanes
    <3>2. /\ k.lane = j.lane /\ k.ev = j.ev /\ k.cal = j.cal /\ k.time = j.time
          /\ k.what = j.what /\ k.at = "record"
      BY <2>6 DEF Onward, SameErrand
    <3>3. ASSUME j.lane \in {"move", "exact", "confirm", "edit"}, j.ev = appt.event,
                 j.what = "book"
          PROVE  Made(k, events')
      <4>1. events[j.ev].status = "live" /\ j.ev # None
        BY <2>1, <2>2, <3>3 DEF Stands, Moved
      <4> QED
        BY <2>6, <3>1, <3>2, <3>3, <4>1 DEF Made, On
    <3>4. j.ev # appt.event /\ Stands(appt, events) => Stands(appt, events')
      BY <1>0, <2>6 DEF Stands, Others
    <3> QED
      BY <2>1, <2>2, <2>3, <2>4, <3>1, <3>2, <3>3, <3>4 DEF Fit, Agreeing, Booking, AllLanes
  <2> QED
    BY <2>3, <2>5, <2>6
<1>5. CASE CancelPrior(w)
  <2>1. j.lane = "confirm"
    BY <1>5, <1>w DEF CancelPrior
  <2>2. PICK k \in Jobs : Step(w, k) /\ k.at = "insert" /\ Onward(k, j)
    BY <1>5, CancelPriorIs
  <2> QED
    BY <2>1, <2>2 DEF Fit, Agreeing, Onward, SameErrand
<1>6. CASE InsertEvent(w)
  <2>1. /\ j.at = "insert"
        /\ j.lane \in {"customer", "staff", "autobook", "match", "outbound", "confirm"}
    BY <1>6, <1>w DEF InsertEvent
  <2>2. /\ j.lane \in {"match", "outbound"} => appt.event = None
        /\ j.lane = "match" => j.time = appt.when
    BY <1>1, <2>1 DEF Agreeing
  <2>3. PICK k \in Jobs :
              /\ Step(w, k) /\ k.at = "record" /\ k.ev \in Ids
              /\ events'[k.ev].status = "live"
              /\ events'[k.ev].cal = j.cal /\ events'[k.ev].time = j.time
              /\ SameErrand(k, j) /\ k.cal = j.cal /\ k.time = j.time
    BY <1>6, InsertEventIs
  <2>4. appt' = appt
    BY <1>6, InsertEventIs
  <2>5. Made(k, events')
    BY <1>0, <2>3 DEF Made
  <2> QED
    BY <2>1, <2>2, <2>3, <2>4, <2>5 DEF Fit, Agreeing, SameErrand
<1> QED
  BY <1>2, <1>3, <1>4, <1>5, <1>6

LEMMA FitRecords ==
  ASSUME Typed, NEW w \in Workers, NEW j, j = jobs[w],
         InCourse(j), Fit(j, appt, events),
         DeskRecords(w) \/ TurnRecords(w) \/ OutboundRecords(w) \/ ConfirmRecords(w)
         \/ EditRecords(w) \/ CancelRecords(w)
  PROVE  Step(w, Idle) /\ Fit(Idle, appt', events')
<1>0. j \in Jobs /\ appt \in Records
  BY DEF Typed, TypeOK
<1>1. Agreeing(j, appt, events)
  BY DEF Fit
<1>2. j.at = "record" /\ Step(w, Idle) /\ events' = events
  BY DEF DeskRecords, TurnRecords, OutboundRecords, ConfirmRecords, EditRecords,
     CancelRecords, Record, At
<1>3. j.lane \in Booking \ {"outbound"} => j.ok
  BY DEF InCourse
<1>4. SUFFICES Stands(appt', events)
  BY <1>2, IdleFit
<1> USE DEF Booking, AllLanes
<1>a. ASSUME j.lane \in Booking \ {"edit"}, j.ok, appt'.event = j.ev, appt'.sp = j.cal,
             appt'.when = j.time
      PROVE  Stands(appt', events)
  BY <1>1, <1>2, <1>a DEF Agreeing, Made, Stands
<1>5. CASE DeskRecords(w)
  <2>1. j.lane \in {"customer", "staff"} /\ appt' = Booked(j.lane, j.ev, j.cal, j.time)
    BY <1>5 DEF DeskRecords, Record, At
  <2> QED
    BY <1>0, <1>3, <1>a, <2>1, BookedIs
<1>6. CASE TurnRecords(w)
  <2>1. /\ j.lane \in {"autobook", "match", "move", "exact"}
        /\ appt' = Booked(j.lane, j.ev, j.cal, j.time)
    BY <1>6 DEF TurnRecords, Record, At
  <2>2. j.lane = "match" => j.time = appt.when
    BY <1>1, <1>2 DEF Agreeing
  <2>3. appt'.event = j.ev /\ appt'.sp = j.cal /\ appt'.when = j.time
    BY <1>0, <2>1, <2>2, BookedIs
  <2> QED
    BY <1>3, <1>a, <2>1, <2>3
<1>7. CASE OutboundRecords(w)
  <2>1. /\ j.lane = "outbound"
        /\ appt' = IF j.ok THEN Booked(j.lane, j.ev, j.cal, j.time) ELSE Teardown
    BY <1>7 DEF OutboundRecords, Record, At
  <2>2. CASE j.ok
    BY <1>0, <1>a, <2>1, <2>2, BookedIs
  <2>3. CASE ~j.ok
    BY <2>1, <2>3 DEF Teardown, NoBooking, Stands
  <2> QED
    BY <2>2, <2>3
<1>8. CASE ConfirmRecords(w)
  <2>1. j.lane = "confirm" /\ appt' = Confirmed(j.ev, j.cal, j.time)
    BY <1>8 DEF ConfirmRecords, Record, At
  <2> QED
    BY <1>3, <1>a, <2>1 DEF Confirmed
<1>9. CASE EditRecords(w)
  <2>1. /\ j.lane = "edit"
        /\ appt' = IF appt.event # j.ev THEN appt
                   ELSE IF j.what = "book" THEN Edited(j.cal, j.time) ELSE Teardown
    BY <1>9 DEF EditRecords, Record, At
  <2>2. CASE appt.event # j.ev
    BY <1>1, <2>1, <2>2 DEF Agreeing
  <2>3. CASE appt.event = j.ev /\ j.what = "book"
    <3>1. Made(j, events)
      BY <1>1, <1>2, <2>1, <2>3 DEF Agreeing
    <3>2. appt'.event = j.ev /\ appt'.sp = j.cal /\ appt'.when = j.time
      BY <1>0, <2>1, <2>3, EditedIs
    <3> QED
      BY <3>1, <3>2 DEF Made, Stands
  <2>4. CASE appt.event = j.ev /\ j.what # "book"
    BY <2>1, <2>4 DEF Teardown, NoBooking, Stands
  <2> QED
    BY <2>2, <2>3, <2>4
<1>10. CASE CancelRecords(w)
  <2>1. appt'.event = None
    BY <1>0, <1>10, DeclinedIs DEF CancelRecords, Record, Teardown, NoBooking
  <2> QED
    BY <2>1 DEF Stands
<1> QED
  BY <1>5, <1>6, <1>7, <1>8, <1>9, <1>10

LEMMA AgreementInit == Init => Agreement
<1> SUFFICES ASSUME Init PROVE Agreement
  OBVIOUS
<1>1. (\A w \in Workers : jobs[w] = Idle) /\ sweep.at = "idle" /\ appt \in Records
  BY BeforeAssumption, StandingType DEF Init, NotLooking
<1>2. Stands(appt, events)
  BY <1>1, RecordParts DEF Init, Origin, Stands
<1> QED
  BY <1>1, <1>2, IdleAgrees DEF Agreement

LEMMA AgreementNext == Typed /\ Alone /\ Agreement /\ [Next]_vars => Agreement'
<1> SUFFICES ASSUME Typed, Alone, Agreement, [Next]_vars, InTurn' PROVE Agreement'
  BY DEF Agreement
<1>0. Calm' /\ (blame \subseteq blame' => InTurn)
  BY DEF InTurn, Calm
<1>1. ASSUME NEW w \in Workers, Arrives(w) PROVE Agreement'
  <2>1. /\ \A v \in Workers : jobs[v] = Idle
        /\ sweep.at = "idle" /\ InTurn /\ UNCHANGED <<events, sweep>>
    BY <1>0, <1>1, ArrivesAlone
  <2>2. Stands(appt, events)
    BY <2>1 DEF Agreement, Quiet, Idle
  <2>3. PICK k \in Jobs : Step(w, k) /\ Fit(k, appt', events')
    BY <1>0, <1>1, <2>1, <2>2, FitArrives
  <2> QED
    BY <2>1, <2>3, FitAfter
<1>2. ASSUME NEW w \in Workers, Continues(w) PROVE Agreement'
  <2>1. /\ InCourse(jobs[w]) /\ sweep.at = "idle" /\ InTurn /\ UNCHANGED sweep
        /\ \A v \in Workers \ {w} : jobs[v] = Idle
    BY <1>0, <1>2, ContinuesAlone
  <2>2. Fit(jobs[w], appt, events)
    BY <2>1, FitBefore
  <2>3. \E k \in Jobs : Step(w, k) /\ Fit(k, appt', events')
    BY <1>0, <1>2, <2>1, <2>2, FitReads, FitCalls, FitRecords, IdleType DEF Continues
  <2> QED
    BY <2>1, <2>3, FitAfter
<1>3. CASE SweepReads
  <2>1. InTurn /\ UNCHANGED <<events, appt, jobs>>
    BY <1>0, <1>3, SweepAlone DEF SweepReads
  <2>2. sweep'.status = events[appt.event].status /\ sweep'.time = events[appt.event].time
    BY <1>3 DEF SweepReads
  <2> QED
    BY <2>1, <2>2 DEF Agreement, Quiet
<1>4. CASE SweepApplies
  <2>1. InTurn /\ sweep.at = "read" /\ UNCHANGED <<events, jobs>> /\ appt' = Reconciled
        /\ sweep'.at = "idle" /\ appt \in Records
    BY <1>0, <1>4 DEF SweepApplies, NotLooking, Typed, TypeOK
  <2>2. \A v \in Workers : jobs[v] = Idle
    BY <2>1 DEF Alone, InTurn
  <2>3. /\ Stands(appt, events)
        /\ appt.event # None => sweep.time = events[appt.event].time
    BY <2>1, <2>2 DEF Agreement, Quiet, Idle
  <2>4. /\ appt'.event \in {appt.event, None}
        /\ appt'.event # None => /\ appt'.sp = appt.sp
                                 /\ appt'.when \in {appt.when, sweep.time}
    BY <2>1 DEF Reconciled, Teardown, NoBooking, Records
  <2>5. Stands(appt', events')
    BY <2>1, <2>3, <2>4 DEF Stands
  <2> QED
    BY <2>1, <2>2, <2>5, IdleAgrees DEF Agreement
<1>5. CASE MovedOutside \/ CancelledOutside
  <2>1. PICK e, event : EditOutside(e, event)
    BY <1>5 DEF MovedOutside, CancelledOutside
  <2>2. blame' = blame \union {"outside"}
    BY <1>0, <2>1, ExcuseCalm DEF EditOutside
  <2> QED
    BY <2>2 DEF InTurn
<1>6. CASE UNCHANGED vars
  BY <1>6 DEF vars, Agreement, InTurn, Quiet
<1> QED
  BY <1>1, <1>2, <1>3, <1>4, <1>5, <1>6 DEF Next

LEMMA EventIs ==
  ASSUME NEW x \in Events
  PROVE  x = [cal |-> x.cal, time |-> x.time, status |-> x.status]
  BY DEF Events

(* Requests that come one after the other, each answered by Google, leave  *)
(* a record whose event stands on the salesperson's calendar at the        *)
(* recorded hour whenever no handler is running, even where they book over *)
(* another event or miss one on another calendar.                          *)
THEOREM RecordIsLiveCorrect == Spec => []RecordIsLive
<1>1. Init => Typed /\ Alone /\ Agreement
  BY TypedInit, AloneInit, AgreementInit
<1>2. Typed /\ Alone /\ Agreement /\ [Next]_vars => (Typed /\ Alone /\ Agreement)'
  BY TypedNext, AloneNext, AgreementNext
<1>3. Typed /\ Agreement => RecordIsLive
  <2> SUFFICES ASSUME Typed, Agreement, InTurn, Quiet, appt.event # None
               PROVE  events[appt.event] = [cal |-> appt.sp, time |-> appt.when,
                                            status |-> "live"]
    BY DEF RecordIsLive, InTurn
  <2>1. events[appt.event] \in Events
    BY RecordParts DEF Typed, TypeOK
  <2>2. Stands(appt, events)
    BY DEF Agreement
  <2> QED
    BY <2>1, <2>2, EventIs DEF Stands
<1> QED
  BY <1>1, <1>2, <1>3, PTL DEF Spec
=============================================================================
