--------------------------- MODULE FollowUpCadence ---------------------------
(***************************************************************************)
(* The follow-up chase of one lead: conv.followUpCadence and the fields of *)
(* the conversation that its guards read (domain/conversationStore.ts),    *)
(* the handlers that move it, and the sweep that sends its touches         *)
(* (processDueFollowUpsUnlocked in index.ts).                              *)
(*                                                                         *)
(* The sweep reads its guards, composes for many awaits, sends, and moves  *)
(* the chase when the provider has answered; every handler may run in      *)
(* between.  WorkerTicks shows that two sweeps never overlap, so there is  *)
(* one.  Dates are abstracted to whether a touch lies ahead or is due; the *)
(* copy, the channel and the reason of a delay to nondeterminism.  "sales" *)
(* stands for the kinds standard and engaged, "paused" for the modes       *)
(* paused_indefinite and holding_inventory; a lead is suppressed or        *)
(* call_only, not both, and one sold handler runs at a time.               *)
(***************************************************************************)
EXTENDS Naturals

CONSTANT Rungs    \* length of the day-offset ladders

ASSUME RungsAssumption == Rungs \in Nat \ {0}

VARIABLES
  chase,      \* conv.followUpCadence
  mode,       \* conv.followUp.mode
  open,       \* conv.status # "closed"
  sold,       \* conv.sale.soldAt or closedReason "sold"
  elapsed,    \* post-sale offsets that lie behind, counted from the sale
  selling,    \* a sold handler between its two halves; was it the first sale?
  doNotText,  \* suppression list and contactPreference
  todo,       \* an open todo that holds the chase
  inbound,    \* last customer message: "old", under 15 minutes ("fresh"),
              \* or later than the running sweep's `now` ("new")
  sweep,      \* processDueFollowUpsUnlocked, as far as this lead goes
  late        \* history: touches that ended since the lead is off limits

leadVars == <<mode, open, sold, elapsed, selling, doNotText, todo>>
vars == <<chase, leadVars, inbound, sweep, late>>

RungSet == 0 .. Rungs - 1
Below(n) == {r \in RungSet : r < n}

Active(c) == c.status = "active"

\* spent and excused are history: the rungs used up, and whether something
\* happened that lets the ladder and the messages disagree.
Chases ==
  [kind : {"none", "sales", "long_term", "post_sale"},
   status : {"none", "active", "stopped", "completed"},
   step : 0 .. Rungs, due : {"none", "later", "due"},
   anchored : BOOLEAN, booked : BOOLEAN,
   spent : SUBSET RungSet, excused : BOOLEAN]

Sweeps == [stage : {"off", "begun", "composing", "sending"},
           todo : BOOLEAN, rung : 0 .. Rungs]

TypeOK ==
  /\ chase \in Chases
  /\ chase.kind = "none" <=> chase.status = "none"
  /\ chase.due # "none" => Active(chase)
  /\ mode \in {"active", "manual_handoff", "paused"}
  /\ open \in BOOLEAN
  /\ sold \in BOOLEAN
  /\ elapsed \in 0 .. Rungs
  /\ selling \in {"no", "first", "again"}
  /\ doNotText \in {"no", "suppressed", "call_only"}
  /\ todo \in BOOLEAN
  /\ inbound \in {"old", "fresh", "new"}
  /\ sweep \in Sweeps
  /\ late \in 0 .. 2

-----------------------------------------------------------------------------
(* The record and the verbs that write it. *)

NoChase == [kind |-> "none", status |-> "none", step |-> 0, due |-> "none",
            anchored |-> FALSE, booked |-> FALSE, spent |-> {}, excused |-> FALSE]

Protected(c) == c.kind \in {"post_sale", "long_term"}

StartedAt(kind, rung, ofSale) ==
  [kind |-> kind, status |-> "active", step |-> rung, due |-> "later",
   anchored |-> ofSale, booked |-> FALSE, spent |-> Below(rung), excused |-> FALSE]

NewChase(kind) == StartedAt(kind, 0, FALSE)

\* The owner sequence at a rung: from the sale's own date, or from now.
Owner(rung, ofSale) == StartedAt("post_sale", rung, ofSale)

\* stop and close write the same two fields; a stop for a booked appointment
\* is the one the sweep takes back on a sold lead.
Halted(c, forBooking) ==
  IF c.kind = "none" THEN c
  ELSE [c EXCEPT !.status = "stopped", !.due = "none",
                 !.booked = forBooking /\ c.kind = "post_sale"]

\* stopFollowUpCadence(conv, "manual_handoff")
StoppedForHandoff(c) == IF Protected(c) THEN c ELSE Halted(c, FALSE)

\* decideCadenceLifecycle, verb close: a sold close spares the owner sequence.
Closed(c, soldReason) ==
  IF soldReason /\ c.kind = "post_sale" THEN c ELSE Halted(c, FALSE)

\* advanceFollowUpCadence; `ends` is the taper of a lead that never answered
\* or a one-shot, which post-sale chases are exempt from.
\* The counter is capped at Rungs: past the ladder its value says no more.
NextStep(c) == IF c.step < Rungs THEN c.step + 1 ELSE Rungs

Advanced(c, ends) ==
  IF ~Active(c) THEN c
  ELSE IF ends \/ NextStep(c) = Rungs
    THEN [c EXCEPT !.step = NextStep(c), !.status = "completed", !.due = "none"]
    ELSE [c EXCEPT !.step = NextStep(c), !.due = "later"]

MayEndEarly(c, ends) == ends => c.kind # "post_sale"

\* History: the composed rung is used up on whatever chase the lead has now.
Spend(c) ==
  IF c.kind = "none" THEN c
  ELSE [c EXCEPT !.spent = @ \cup ({sweep.rung} \cap RungSet),
                 !.excused = @ \/ ~Active(c) \/ c.step # sweep.rung]

Excuse(c) == IF c.kind = "none" THEN c ELSE [c EXCEPT !.excused = TRUE]

-----------------------------------------------------------------------------
(* The sweep. *)

Resting == [stage |-> "off", todo |-> FALSE, rung |-> 0]

Init ==
  /\ chase = NoChase
  /\ mode = "active"
  /\ open = TRUE
  /\ sold = FALSE
  /\ elapsed = 0
  /\ selling = "no"
  /\ doNotText = "no"
  /\ todo = FALSE
  /\ inbound = "old"
  /\ sweep = Resting
  /\ late = 0

\* `now` and the open todos are read once, and handed-off leads are healed.
SweepBegins ==
  /\ sweep.stage = "off"
  /\ sweep' = [stage |-> "begun", todo |-> todo, rung |-> 0]
  /\ inbound' = IF inbound = "new" THEN "fresh" ELSE inbound
  /\ chase' = IF mode = "manual_handoff" /\ Active(chase)
                THEN StoppedForHandoff(chase) ELSE chase
  /\ UNCHANGED leadVars

\* The reconcile of a sold lead that is not on its owner sequence.
NeedsOwnerSequence(c) ==
  sold /\ (c.kind # "post_sale" \/ (c.status = "stopped" /\ c.booked))

Reconciled(c) ==
  IF ~NeedsOwnerSequence(c) THEN c
  ELSE IF elapsed < Rungs THEN Owner(elapsed, TRUE)
  ELSE IF Active(c) THEN Halted(c, FALSE) ELSE c

TodoHolds(c) == c.kind # "post_sale" /\ sweep.todo

MustStop(c) ==
  \/ c.kind = "post_sale" /\ ~sold
  \/ doNotText = "call_only"
  \/ ~open /\ c.kind # "post_sale"
  \/ doNotText = "suppressed" /\ ~TodoHolds(c)

\* Held leads as they were before the pause was one of them.
Mut_Held(c) == c.kind # "post_sale" /\ mode = "manual_handoff"

JustWrote(c) == c.kind # "post_sale" /\ inbound = "fresh"
Held(c) == c.kind # "post_sale" /\ mode # "active"

LeaveLead(c) ==
  /\ chase' = c
  /\ sweep' = Resting
  /\ UNCHANGED <<leadVars, inbound>>

\* A chase without a date is passed over, whatever else holds.
Ongoing(c) == Active(c) /\ c.due # "none"

PassOver ==
  /\ sweep.stage = "begun"
  /\ LET c == Reconciled(chase) IN
       /\ \/ ~Ongoing(c)
          \/ ~MustStop(c) /\ (TodoHolds(c) \/ c.due # "due" \/ Held(c))
       /\ LeaveLead(c)

StopInSweep ==
  /\ sweep.stage = "begun"
  /\ LET c == Reconciled(chase) IN
       /\ Ongoing(c)
       /\ MustStop(c)
       /\ LeaveLead(Halted(c, FALSE))

\* A fresh message, a rep's call, an unsent draft, the weather or a check-in
\* moves the due date of a chase that is not post-sale.
PutOff ==
  /\ sweep.stage = "begun"
  /\ LET c == Reconciled(chase) IN
       /\ Ongoing(c)
       /\ ~MustStop(c)
       /\ ~TodoHolds(c)
       /\ c.kind # "post_sale"
       /\ LeaveLead([c EXCEPT !.due = "later"])

Permitted(c) ==
  /\ Active(c)
  /\ c.due = "due"
  /\ ~MustStop(c)
  /\ ~TodoHolds(c)
  /\ ~JustWrote(c)

StopForBooking ==
  /\ sweep.stage = "begun"
  /\ LET c == Reconciled(chase) IN
       /\ Permitted(c)
       /\ c.kind # "post_sale"
       /\ LeaveLead(Halted(c, TRUE))

Compose ==
  /\ sweep.stage = "begun"
  /\ LET c == Reconciled(chase) IN
       /\ Permitted(c)
       /\ ~Held(c)
       /\ chase' = c
       /\ sweep' = [sweep EXCEPT !.stage = "composing", !.rung = c.step]
  /\ UNCHANGED <<leadVars, inbound>>

\* The rung is used up and the chase moves on.
MoveOn(c) ==
  \E ends \in BOOLEAN :
    /\ MayEndEarly(c, ends)
    /\ LeaveLead(Advanced(c, ends))

\* A gate stays quiet: the rung is burned without a message.
QuietRung == sweep.stage = "composing" /\ MoveOn(Spend(chase))

\* Suggest mode or sales review: the touch becomes a draft.
DraftTouch == sweep.stage = "composing" /\ MoveOn(Spend(chase))

\* A duplicate of a message of the last two minutes is dropped, unspent.
DropDuplicate == sweep.stage = "composing" /\ LeaveLead(chase)

SendTouch ==
  /\ sweep.stage = "composing"
  /\ sweep' = [sweep EXCEPT !.stage = "sending"]
  /\ UNCHANGED <<chase, leadVars, inbound>>

\* The text goes out and the chase stays where it is.
Mut_SendReturns == sweep.stage = "sending" /\ LeaveLead(Spend(chase))

SendReturns == sweep.stage = "sending" /\ MoveOn(Spend(chase))

\* An e-mail that failed is recorded as undelivered and the chase moves on.
MailFails == sweep.stage = "sending" /\ MoveOn(Excuse(Spend(chase)))

\* A text that failed leaves the rung due.
SmsFails == sweep.stage = "sending" /\ LeaveLead(chase)

\* So does one that was sent although the call failed.
AnswerLost == sweep.stage = "sending" /\ LeaveLead(Excuse(Spend(chase)))

\* An exception outside the try of the send ends the whole sweep.
SweepThrows == sweep.stage \in {"begun", "composing"} /\ LeaveLead(chase)

\* The process dies; conversations come back as ConversationStore says, here
\* as they were.
ProcessDies ==
  /\ sweep' = Resting
  /\ selling' = "no"
  /\ inbound' = IF inbound = "new" THEN "fresh" ELSE inbound
  /\ UNCHANGED <<mode, open, sold, elapsed, doNotText, todo>>

Crash == ProcessDies /\ chase' = chase

\* ... after the provider took the text.
CrashAfterSend ==
  /\ sweep.stage = "sending"
  /\ ProcessDies
  /\ chase' = Excuse(Spend(chase))

-----------------------------------------------------------------------------
(* Handlers, timers and staff; none of them touches the sweep. *)

\* appendInbound: a real message reopens a closed lead that was not sold.
CustomerWrites ==
  /\ inbound' = IF sweep.stage = "off" THEN "fresh" ELSE "new"
  /\ open' \in IF sold THEN {open} ELSE {open, TRUE}
  /\ UNCHANGED <<chase, mode, sold, elapsed, selling, doNotText, todo, sweep>>

\* resetFollowUpCadenceOnInbound, some awaits later.
ResetOnInbound ==
  /\ inbound # "old"
  /\ Active(chase)
  /\ chase.kind # "post_sale"
  /\ doNotText # "call_only"
  /\ mode # "manual_handoff"
  /\ \/ chase' = NewChase(chase.kind) /\ UNCHANGED mode
     \/ chase' = [chase EXCEPT !.due = "later"] /\ mode' = "active"
     \/ chase' = Halted(chase, FALSE) /\ mode' = "paused"
  /\ UNCHANGED <<open, sold, elapsed, selling, doNotText, todo, inbound, sweep>>

Suppress ==
  /\ doNotText' = "suppressed"
  /\ UNCHANGED <<chase, mode, open, sold, elapsed, selling, todo, inbound, sweep>>

\* applySmsOptOut after it saved the suppression list.
CloseOptedOut ==
  /\ doNotText = "suppressed"
  /\ chase' = Halted(chase, FALSE)
  /\ open' = FALSE
  /\ todo' = FALSE
  /\ UNCHANGED <<mode, sold, elapsed, selling, doNotText, inbound, sweep>>

SetContactPreference ==
  /\ doNotText # "suppressed"
  /\ doNotText' \in {"no", "call_only"}
  /\ UNCHANGED <<chase, mode, open, sold, elapsed, selling, todo, inbound, sweep>>

RemoveSuppression ==
  /\ doNotText = "suppressed"
  /\ doNotText' = "no"
  /\ UNCHANGED <<chase, mode, open, sold, elapsed, selling, todo, inbound, sweep>>

SetFollowUpMode(m) ==
  /\ mode' = m
  /\ chase' = IF m = "manual_handoff" /\ Active(chase)
                THEN StoppedForHandoff(chase) ELSE chase
  /\ UNCHANGED <<open, sold, elapsed, selling, doNotText, todo, inbound, sweep>>

CloseConversation ==
  /\ open' = FALSE
  /\ todo' = FALSE
  /\ chase' = Closed(chase, FALSE)
  /\ UNCHANGED <<mode, sold, elapsed, selling, doNotText, inbound, sweep>>

\* A walk-in note says sold: handed off, closed, and a sale without a unit.
WalkInSold ==
  /\ mode' = "manual_handoff"
  /\ chase' = Closed(StoppedForHandoff(chase), TRUE)
  /\ open' = FALSE
  /\ todo' = FALSE
  /\ sold' = TRUE
  /\ elapsed' = IF sold THEN elapsed ELSE 0
  /\ UNCHANGED <<selling, doNotText, inbound, sweep>>

\* The sold handlers stamp the sale, which never moves, then await the stores.
MarkSold ==
  /\ selling = "no"
  /\ selling' = IF sold THEN "again" ELSE "first"
  /\ sold' = TRUE
  /\ elapsed' = IF sold THEN elapsed ELSE 0
  /\ open' = FALSE
  /\ todo' = FALSE
  /\ UNCHANGED <<chase, mode, doNotText, inbound, sweep>>

\* decideCadenceStart, lane post_sale.
SequenceRunning(c) ==
  c.kind = "post_sale" /\ c.status \in {"active", "stopped"} /\ c.anchored

\* The sale is not read again after the await.
Mut_FinishSale ==
  /\ selling # "no"
  /\ selling' = "no"
  /\ mode' = "active"
  /\ chase' = IF ~SequenceRunning(chase) THEN Owner(0, selling = "first") ELSE chase
  /\ UNCHANGED <<open, sold, elapsed, doNotText, todo, inbound, sweep>>

FinishSale ==
  /\ selling # "no"
  /\ selling' = "no"
  /\ mode' = "active"
  /\ chase' = IF sold /\ ~SequenceRunning(chase)
                THEN Owner(0, selling = "first") ELSE chase
  /\ UNCHANGED <<open, sold, elapsed, doNotText, todo, inbound, sweep>>

\* The inventory stores throw between the halves.
SaleFails ==
  /\ selling # "no"
  /\ selling' = "no"
  /\ UNCHANGED <<chase, mode, open, sold, elapsed, doNotText, todo, inbound, sweep>>

\* The staff endpoint: the sale is undone and the owner sequence blanked.
Reopen ==
  /\ open' = TRUE
  /\ sold' = FALSE
  /\ elapsed' = 0
  /\ selling' = IF selling = "no" THEN "no" ELSE "again"
  /\ mode' \in {mode, "active"}
  /\ \/ chase' = IF chase.kind = "post_sale" THEN NoChase ELSE chase
     \/ /\ chase.kind \in {"sales", "long_term"}
        /\ chase.status = "stopped"
        /\ chase' = [chase EXCEPT !.status = "active", !.due = "later"]
  /\ UNCHANGED <<doNotText, todo, inbound, sweep>>

\* Staff mark the sold unit available again: applyInventoryAvailabilityReopen
\* clears the sale and reopens a lead that was closed as sold.  It stops the
\* owner sequence, which keeps its kind and the date of the sale that is gone;
\* a chase of another kind is stopped if it is a post-sale follow-up by its
\* reason.  Whether the sale names a unit, as a walk-in's does not, is left
\* open.
SaleReversed ==
  /\ sold
  /\ sold' = FALSE
  /\ elapsed' = 0
  /\ selling' = IF selling = "no" THEN "no" ELSE "again"
  /\ open' \in {open, TRUE}
  /\ \/ chase' = [Halted(chase, FALSE) EXCEPT !.anchored = FALSE] /\ mode' = "active"
     \/ chase.kind # "post_sale" /\ UNCHANGED <<chase, mode>>
  /\ UNCHANGED <<doNotText, todo, inbound, sweep>>

\* The same for a unit on hold: it stops nothing.
HoldReleased ==
  /\ open' \in {open, TRUE}
  /\ mode' \in {mode, "active"}
  /\ UNCHANGED <<chase, sold, elapsed, selling, doNotText, todo, inbound, sweep>>

\* startFollowUpCadence: refused while a chase is active or was stopped.
StartFollowUpCadence(kind) ==
  /\ open
  /\ chase.status \notin {"active", "stopped"}
  /\ chase' = NewChase(kind)
  /\ UNCHANGED <<leadVars, inbound, sweep>>

\* scheduleLongTermFollowUp replaces whatever is there.
ScheduleLongTerm ==
  /\ open
  /\ chase' = NewChase("long_term")
  /\ UNCHANGED <<leadVars, inbound, sweep>>

\* applyCadenceReplacement and applyManualCadenceRestart: a new ladder over
\* whatever is there.  (A restart for the running context changes nothing.)
ReplaceChase(kind) ==
  /\ chase' = NewChase(kind)
  /\ mode' \in {mode, "active"}
  /\ UNCHANGED <<open, sold, elapsed, selling, doNotText, todo, inbound, sweep>>

\* The customer asks for time: a stopped chase starts over, a running one is
\* put off, and any that is left may become an engaged one.
DeferChase ==
  /\ open
  /\ chase.kind # "post_sale"
  /\ mode' = "active"
  /\ \/ chase.status \in {"none", "stopped"} /\ chase' \in {NoChase, NewChase("sales")}
     \/ Active(chase) /\ chase' = [chase EXCEPT !.due = "later"]
     \/ Active(chase) /\ chase' = [chase EXCEPT !.due = "later", !.kind = "sales"]
     \/ chase.status = "completed" /\ chase' \in {chase, [chase EXCEPT !.kind = "sales"]}
  /\ UNCHANGED <<open, sold, elapsed, selling, doNotText, todo, inbound, sweep>>

\* applyCadenceRevival after a voicemail or a walk-in note: a dead chase is
\* thrown away, and a new one starts unless the lead is closed or not a sales
\* lead.
ReviveChase ==
  /\ ~Active(chase)
  /\ mode' = "active"
  /\ \/ chase' = NoChase
     \/ open /\ chase' = NewChase("sales")
  /\ UNCHANGED <<open, sold, elapsed, selling, doNotText, todo, inbound, sweep>>

\* The note that a hold is over puts a completed chase back as it stands: it
\* has no date.
ReactivateInPlace ==
  /\ chase.status = "completed"
  /\ mode' = "active"
  /\ chase' = [chase EXCEPT !.status = "active"]
  /\ UNCHANGED <<open, sold, elapsed, selling, doNotText, todo, inbound, sweep>>

\* A resumed chase that starts its ladder again.
Mut_ResumeFollowUpCadence ==
  /\ chase.status = "stopped"
  /\ chase.kind # "post_sale"
  /\ chase' = [chase EXCEPT !.status = "active", !.due = "later", !.booked = FALSE, !.step = 0]
  /\ UNCHANGED <<leadVars, inbound, sweep>>

\* A chase that was stopped for a hand-off or a held unit comes back; the
\* owner sequence is never stopped for the one, and its kind is refused for
\* the other.
ResumeFollowUpCadence ==
  /\ chase.status = "stopped"
  /\ chase.kind # "post_sale"
  /\ chase' = [chase EXCEPT !.status = "active", !.due = "later", !.booked = FALSE]
  /\ UNCHANGED <<leadVars, inbound, sweep>>

PauseFollowUpCadence ==
  /\ Active(chase)
  /\ chase' = [chase EXCEPT !.due = "later"]
  /\ UNCHANGED <<leadVars, inbound, sweep>>

\* onAppointmentBooked, of this lead or (through stopRelatedCadences) of
\* another conversation with the same customer.
AppointmentBooked ==
  /\ ~sold /\ chase.kind # "post_sale"
  /\ chase' = Halted(chase, TRUE)
  /\ UNCHANGED <<leadVars, inbound, sweep>>

RelatedAppointmentBooked ==
  /\ chase' = Halted(chase, TRUE)
  /\ UNCHANGED <<leadVars, inbound, sweep>>

AddTodo ==
  /\ todo' = TRUE
  /\ UNCHANGED <<chase, mode, open, sold, elapsed, selling, doNotText, inbound, sweep>>

MarkTodoDone ==
  /\ todo' = FALSE
  /\ UNCHANGED <<chase, mode, open, sold, elapsed, selling, doNotText, inbound, sweep>>

\* Time, as the sweep sees it: its `now` does not move while it runs.  The
\* post-sale touch of day k comes up to a day before k whole days have passed.
FallsDue ==
  /\ sweep.stage = "off"
  /\ Ongoing(chase)
  /\ chase.kind = "post_sale" /\ chase.anchored => elapsed >= chase.step
  /\ chase' = [chase EXCEPT !.due = "due"]
  /\ UNCHANGED <<leadVars, inbound, sweep>>

MessageAges ==
  /\ sweep.stage = "off"
  /\ inbound' = "old"
  /\ UNCHANGED <<chase, leadVars, sweep>>

OffsetPasses ==
  /\ sold
  /\ elapsed < Rungs
  /\ elapsed' = elapsed + 1
  /\ UNCHANGED <<chase, mode, open, sold, selling, doNotText, todo, inbound, sweep>>

-----------------------------------------------------------------------------
OffLimits ==
  \/ doNotText # "no"
  \/ IF chase.kind = "post_sale" THEN ~sold ELSE ~open \/ mode # "active"

Look == PassOver \/ StopInSweep \/ PutOff \/ StopForBooking \/ Compose
Finish == \/ QuietRung \/ DraftTouch \/ DropDuplicate \/ SendTouch
          \/ SendReturns \/ MailFails \/ SmsFails \/ AnswerLost
Sweep == SweepBegins \/ Look \/ Finish \/ SweepThrows

Handler ==
  \/ CustomerWrites \/ ResetOnInbound
  \/ Suppress \/ CloseOptedOut \/ SetContactPreference \/ RemoveSuppression
  \/ \E m \in {"active", "manual_handoff", "paused"} : SetFollowUpMode(m)
  \/ CloseConversation \/ WalkInSold
  \/ MarkSold \/ FinishSale \/ SaleFails \/ Reopen \/ SaleReversed \/ HoldReleased
  \/ \E kind \in {"sales", "long_term"} : StartFollowUpCadence(kind)
  \/ ScheduleLongTerm \/ DeferChase \/ ReviveChase \/ ReactivateInPlace
  \/ \E kind \in {"sales", "long_term"} : ReplaceChase(kind)
  \/ ResumeFollowUpCadence \/ PauseFollowUpCadence
  \/ AppointmentBooked \/ RelatedAppointmentBooked
  \/ AddTodo \/ MarkTodoDone

Time == FallsDue \/ MessageAges \/ OffsetPasses

\* A touch that was composed goes out, is saved as a draft, or is given up.
TouchUnderWay == sweep.stage \in {"composing", "sending"}
TouchEnds == TouchUnderWay /\ sweep'.stage = "off"

\* History: how many touches ended since the lead is off limits.
CountLate ==
  late' = IF ~OffLimits' THEN 0
          ELSE IF TouchEnds /\ OffLimits /\ late < 2 THEN late + 1 ELSE late

Next == (Sweep \/ Crash \/ CrashAfterSend \/ Handler \/ Time) /\ CountLate

Spec == Init /\ [][Next]_vars

-----------------------------------------------------------------------------
\* A lead that opted out, asked for calls, was closed, paused or handed off,
\* and a buyer whose sale was undone, gets at most the one touch that was
\* under way when that happened, in whatever order the handlers and the
\* sweep's guards run.
AtMostOneLateTouch == late <= 1

\* Stopped, resumed, put off, handed off or reopened, a chase stands on the
\* first rung it has not used up, unless it was replaced or stopped while a
\* touch was under way or a provider's answer was lost.
LadderIsSpent == ~chase.excused => chase.spent = Below(chase.step)

\* A rung that was used up is attempted again only after a provider took a
\* message and its answer was lost, or the chase was stopped or replaced
\* under the sweep.
RungTwiceHasReason ==
  [][TouchEnds /\ sweep.rung \in chase.spent => chase.excused]_vars

\* The owner sequence runs on sold leads only: whoever undoes the sale, with
\* Reopen or by marking the unit available, and whenever he does it, before,
\* between or after the two halves of the handler that recorded it, the
\* sequence is gone or at rest.
OwnerSequenceHasSale ==
  chase.kind = "post_sale" => sold \/ chase.status = "stopped"
=============================================================================
