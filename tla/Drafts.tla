------------------------------- MODULE Drafts -------------------------------
(***************************************************************************)
(* The answers the agent drafts for one conversation in suggest mode, from *)
(* the composer to the send button (services/api/src/index.ts and          *)
(* domain/conversationStore.ts, claudeDraftReview.ts,                      *)
(* heldDraftBackstop.ts).                                                  *)
(*                                                                         *)
(* A turn (an inbound text, a Regenerate, a touch of a sweep) composes an  *)
(* answer over several awaits and stores it as a message that waits for    *)
(* staff, or holds it back.  Meanwhile staff write, clear, rate and send;  *)
(* a second model reviews what waits; a sweep turns old holds into tasks.  *)
(* Nothing locks the conversation: each of them reads it, awaits, and      *)
(* writes.                                                                 *)
(***************************************************************************)
EXTENDS Naturals

CONSTANTS
  MaxTurns,     \* bound: handler runs that may compose an answer
  MaxSends,     \* bound: presses of the send button
  MaxRows,      \* bound: messages ever appended
  MaxStarts,    \* bound: things that people, customers and lanes begin
  MaxRestarts   \* bound: restarts of the process

ASSUME DraftsAssumption ==
  /\ MaxTurns \in Nat
  /\ MaxSends \in Nat
  /\ MaxRows \in Nat
  /\ MaxStarts \in Nat
  /\ MaxRestarts \in Nat

VARIABLES
  messages,     \* conv.messages, by order of arrival
  last,         \* how many were ever appended
  held,         \* conv.draftHeld
  task,         \* the one open task of class followup, by what it says
  nudged,       \* heldDraftEscalatedAt is less than 24 hours ago
  turn,         \* the handlers that compose
  sending,      \* the send handlers
  asked,        \* what the second opinion is asked about
  redrafting,   \* a thumbs-down waits for another draft
  reviewed,     \* claudeDraftReview.messageId
  reviewedHold, \* claudeHeldDraftReview.key
  sweep,        \* the follow-up sweep, by what it saw of the tasks
  dismissed,    \* history: somebody closed the task since the last hold
  starts, restarts

convVars == <<messages, last>>
heldVars == <<held, task, dismissed>>
reviewVars == <<asked, redrafting, reviewed, reviewedHold>>
sweepVars == <<nudged, sweep>>
bounds == <<starts, restarts>>
vars == <<convVars, heldVars, turn, sending, reviewVars, sweepVars, bounds>>

Turns == 1..MaxTurns
Sends == 1..MaxSends
Rows == 1..MaxRows
Authors == {"ai", "staff", "review", "redraft"}

(* An outbound message: a draft that waits, one that is stale, or one that *)
(* was handed to the carrier, by which press of the button, and whether    *)
(* it is stamped undelivered ("failed").                                   *)
Messages == [kind : {"none", "draft", "stale", "sent", "failed"},
             by : Authors, send : 0..MaxSends]
NoMessage == [kind |-> "none", by |-> "ai", send |-> 0]
Draft(author) == [kind |-> "draft", by |-> author, send |-> 0]

Holds == [kind : {"none", "truncated", "quality", "fidelity"},
          turn : 0..MaxTurns, aged : BOOLEAN]
NoHold == [kind |-> "none", turn |-> 0, aged |-> FALSE]

Stages == {"idle", "reading", "composing", "judging", "scoring", "storing",
           "offering", "over"}
Idle == [row |-> 0, hold |-> 0, last |-> 0]

(* A press of the send button: the draft it names, the carrier's answer,   *)
(* and whether the reconciliation after an accepted text threw.            *)
Presses == [at : {"idle", "calling", "settling", "settled", "over"},
            draft : 0..MaxRows, result : {"none", "sent", "failed"},
            threw : BOOLEAN]

TypeOK ==
  /\ messages \in [Rows -> Messages]
  /\ last \in 0..MaxRows
  /\ held \in Holds
  /\ task \in {"none", "fidelity", "escalation", "other"}
  /\ nudged \in BOOLEAN
  /\ turn \in [Turns -> [at : Stages, discard : BOOLEAN]]
  /\ sending \in [Sends -> Presses]
  /\ asked \in [row : 0..MaxRows, hold : 0..MaxTurns, last : 0..MaxRows]
  /\ redrafting \in BOOLEAN
  /\ reviewed \in 0..MaxRows
  /\ reviewedHold \in 0..MaxTurns
  /\ sweep \in {"idle", "clear", "open"}
  /\ dismissed \in BOOLEAN
  /\ starts \in 0..MaxStarts
  /\ restarts \in 0..MaxRestarts

Init ==
  /\ messages = [d \in Rows |-> NoMessage]
  /\ last = 0
  /\ held = NoHold
  /\ task = "none"
  /\ nudged = FALSE
  /\ turn = [t \in Turns |-> [at |-> "idle", discard |-> FALSE]]
  /\ sending = [s \in Sends |->
                 [at |-> "idle", draft |-> 0, result |-> "none",
                  threw |-> FALSE]]
  /\ asked = Idle
  /\ redrafting = FALSE
  /\ reviewed = 0
  /\ reviewedHold = 0
  /\ sweep = "idle"
  /\ dismissed = FALSE
  /\ starts = 0
  /\ restarts = 0

-----------------------------------------------------------------------------
(* What waits for staff: the drafts after the last message that was sent.  *)
(* getLatestPendingDraft shows the newest of them in the send box.         *)
IsSent(m) == m.kind \in {"sent", "failed"}

InBox(d) == /\ messages[d].kind = "draft"
            /\ \A e \in Rows : IsSent(messages[e]) => e < d

Shown(d) == InBox(d) /\ \A e \in Rows : InBox(e) => e <= d

BoxIsEmpty == \A d \in Rows : ~InBox(d)

(* discardPendingDrafts. *)
PendingDiscarded ==
  [d \in Rows |-> IF InBox(d) THEN [messages[d] EXCEPT !.kind = "stale"]
                              ELSE messages[d]]

Discard == messages' = PendingDiscarded /\ UNCHANGED last

(* appendOutbound of a draft; the draft-state invariants may refuse it. *)
Appended(before, m) ==
  /\ last < MaxRows
  /\ last' = last + 1
  /\ messages' = [before EXCEPT ![last + 1] = m]

StoreDraft(before, author) ==
  \/ Appended(before, Draft(author))
  \/ messages' = before /\ UNCHANGED last

(* releaseHeldDraft for an event that releases: the marker goes, and with  *)
(* it the task that asks for a reply, while it still says so.              *)
Mut_Release ==   \* forgets the task
  /\ held' = NoHold
  /\ UNCHANGED <<task, dismissed>>

Release ==
  /\ held' = NoHold
  /\ task' = IF held # NoHold /\ task = "fidelity" THEN "none" ELSE task
  /\ UNCHANGED dismissed

(* saveOperatorDraft. *)
SaveOperatorDraft(author) ==
  /\ Release
  /\ StoreDraft(PendingDiscarded, author)

-----------------------------------------------------------------------------
(* What people and lanes begin is bounded; what follows from it is not.    *)
Starts ==
  /\ starts < MaxStarts
  /\ starts' = starts + 1
  /\ UNCHANGED restarts

(* The webhook has appended the customer's text (reading), or a            *)
(* Regenerate or a sweep's touch begins (composing).  Numbers are given    *)
(* out in order.                                                           *)
Opens(t, stage) ==
  /\ Starts
  /\ turn[t].at = "idle"
  /\ \A u \in Turns : u < t => turn[u].at # "idle"
  /\ turn' = [turn EXCEPT ![t].at = stage]
  /\ UNCHANGED <<convVars, heldVars, sending, reviewVars, sweepVars>>

TextArrives(t) == Opens(t, "reading")
Begins(t) == Opens(t, "composing")

(* A turn moves on, or is over. *)
Moves(t, from, to) ==
  /\ turn[t].at = from
  /\ turn' = [turn EXCEPT ![t].at = to]
  /\ UNCHANGED <<sending, reviewVars, sweepVars, bounds>>

(* What waited did not know of this text: "new_inbound". *)
Supersedes(t) ==
  /\ Moves(t, "reading", "composing")
  /\ Discard
  /\ UNCHANGED heldVars

(* A reaction, a deal that staff are in, a reply by name to the owner: the *)
(* handler leaves before it looks at the drafts.                           *)
LeavesItToStaff(t) ==
  /\ Moves(t, "reading", "over")
  /\ UNCHANGED <<convVars, heldVars>>

(* No answer is due, or the draft-state invariants refuse it: the live     *)
(* lane discards what waits, Regenerate keeps it unless it skips the turn. *)
EndsWithoutDraft(t) ==
  /\ Moves(t, "composing", "over")
  /\ Discard \/ UNCHANGED convVars
  /\ UNCHANGED heldVars

(* publishLiveTwilioReply and the sweeps store without a gate. *)
SkipsTheGate(t) ==
  /\ Moves(t, "composing", "offering")
  /\ UNCHANGED <<convVars, heldVars>>

(* publishCustomerReplyDraft up to the judge; the caller says whether what *)
(* waits is to be discarded before the draft is stored.                    *)
EntersTheGate(t) ==
  /\ turn[t].at = "composing"
  /\ \E discard \in BOOLEAN :
       turn' = [turn EXCEPT ![t] = [at |-> "judging", discard |-> discard]]
  /\ UNCHANGED <<convVars, heldVars, sending, reviewVars, sweepVars, bounds>>

(* A held turn stores nothing, clears the box and leaves the marker. *)
Mut_Hold(t, kind) ==   \* leaves what waits in the box
  /\ UNCHANGED convVars
  /\ held' = [kind |-> kind, turn |-> t, aged |-> FALSE]
  /\ dismissed' = FALSE

Hold(t, kind) ==
  /\ Discard
  /\ held' = [kind |-> kind, turn |-> t, aged |-> FALSE]
  /\ dismissed' = FALSE

HoldsTruncated(t) ==
  /\ Moves(t, "composing", "over")
  /\ Hold(t, "truncated")
  /\ UNCHANGED task

JudgeHolds(t) ==
  /\ Moves(t, "judging", "over")
  /\ Hold(t, "quality")
  /\ UNCHANGED task

JudgePasses(t) ==
  /\ Moves(t, "judging", "scoring")
  /\ Release
  /\ UNCHANGED convVars

(* addTodo merges what it is given into the open task of the same class,   *)
(* whose summary it replaces.                                              *)
ScorerHolds(t) ==
  /\ Moves(t, "scoring", "over")
  /\ Hold(t, "fidelity")
  /\ task' = "fidelity"

ScorerPasses(t) ==
  /\ Moves(t, "scoring", "storing")
  /\ UNCHANGED <<convVars, heldVars>>

Stores(t) ==
  /\ \/ /\ Moves(t, "offering", "over")
        /\ StoreDraft(messages, "ai")
     \/ /\ Moves(t, "storing", "over")
        /\ StoreDraft(IF turn[t].discard THEN PendingDiscarded ELSE messages,
                      "ai")
  /\ UNCHANGED heldVars

-----------------------------------------------------------------------------
(* Staff.  POST /draft and POST /draft/clear run without an await.         *)
SaveDraft ==
  /\ Starts
  /\ SaveOperatorDraft("staff")
  /\ UNCHANGED <<turn, sending, reviewVars, sweepVars>>

ClearDrafts ==
  /\ Starts
  /\ messages' = [d \in Rows |-> IF messages[d].kind = "draft"
                                   THEN [messages[d] EXCEPT !.kind = "stale"]
                                   ELSE messages[d]]
  /\ UNCHANGED <<last, heldVars, turn, sending, reviewVars, sweepVars>>

(* POST /send up to the call of Twilio.  The console may name a draft it   *)
(* shows.  A draft that is gone already, and one named with pictures but   *)
(* no text, count as none.                                                 *)
PressSend(s) ==
  /\ Starts
  /\ sending[s].at = "idle"
  /\ \A r \in Sends : r < s => sending[r].at # "idle"
  /\ \E d \in 0..last :
       /\ d # 0 => messages[d].kind = "draft"
       /\ sending' = [sending EXCEPT ![s] = [at |-> "calling", draft |-> d,
                                             result |-> "none", threw |-> FALSE]]
  /\ UNCHANGED <<convVars, heldVars, turn, reviewVars, sweepVars>>

(* finalizeDraftAsSent turns the draft into the message, if it still is    *)
(* one; otherwise the message is appended.                                 *)
Mut_UsesDraft(s) ==   \* takes it for a draft still
  \E d \in Rows : d = sending[s].draft

UsesDraft(s) ==
  \E d \in Rows : d = sending[s].draft /\ messages[d].kind = "draft"

Recorded(s, result) ==
  \/ /\ UsesDraft(s)
     /\ messages' = [messages EXCEPT ![sending[s].draft].kind = result,
                                     ![sending[s].draft].send = s]
     /\ UNCHANGED last
  \/ /\ ~UsesDraft(s)
     /\ Appended(messages, [kind |-> result, by |-> "staff", send |-> s])

(* Twilio answers, or the call throws and recordFailedManualSend records   *)
(* the attempt and stamps it (a timeout is a failure, whatever the carrier *)
(* does with the text).  Either counts as a reply to a held turn.          *)
SendEnds(s) ==
  /\ sending[s].at = "calling"
  /\ \E result \in {"sent", "failed"} :
       /\ Recorded(s, result)
       /\ sending' = [sending EXCEPT ![s] = [at |-> "settling", draft |-> 0,
                                             result |-> result, threw |-> FALSE]]
  /\ Release
  /\ UNCHANGED <<turn, reviewVars, sweepVars, bounds>>

(* finalizeManualSendDraftState, after the awaits of the reconciliation:   *)
(* every draft that is not stale leaves the conversation.  The handler of   *)
(* an accepted text may still await the start of a cadence ("settled").    *)
SendSettles(s) ==
  /\ sending[s].at = "settling"
  /\ sending' = [sending EXCEPT ![s].at =
                  IF sending[s].result = "sent" /\ ~sending[s].threw THEN "settled" ELSE "over"]
  /\ messages' = [d \in Rows |-> IF messages[d].kind = "draft" THEN NoMessage
                                                              ELSE messages[d]]
  /\ UNCHANGED <<last, heldVars, turn, reviewVars, sweepVars, bounds>>

(* The reconciliation of an accepted text stands in the same try as the    *)
(* call.  When it throws, before or after the drafts have left, the catch  *)
(* records the press once more, as a failed one: the draft is a message by *)
(* now, so another is appended, stamped undelivered, and settled in turn.  *)
ReconcileThrows(s) ==
  /\ sending[s].at \in {"settling", "settled"}
  /\ sending[s].result = "sent"
  /\ ~sending[s].threw
  /\ Appended(messages, [kind |-> "failed", by |-> "staff", send |-> s])
  /\ sending' = [sending EXCEPT ![s].at = "settling", ![s].threw = TRUE]
  /\ Release
  /\ UNCHANGED <<turn, reviewVars, sweepVars, bounds>>

-----------------------------------------------------------------------------
(* The second opinion (processClaudeDraftReview): it picks the draft in    *)
(* the box unless it has seen it or a person wrote it, or the hold of the  *)
(* judge while the box is empty, and asks.                                 *)
Mut_ReviewPicksDraft ==   \* whoever wrote it
  /\ Starts
  /\ asked = Idle
  /\ \E d \in Rows :
       /\ Shown(d)
       /\ d # reviewed
       /\ asked' = [row |-> d, hold |-> 0, last |-> last]
  /\ UNCHANGED <<convVars, heldVars, turn, sending, redrafting, reviewed,
                 reviewedHold, sweepVars>>

ReviewPicksDraft ==
  /\ Starts
  /\ asked = Idle
  /\ \E d \in Rows :
       /\ Shown(d)
       /\ d # reviewed
       /\ messages[d].by \in {"ai", "redraft"}
       /\ asked' = [row |-> d, hold |-> 0, last |-> last]
  /\ UNCHANGED <<convVars, heldVars, turn, sending, redrafting, reviewed,
                 reviewedHold, sweepVars>>

ReviewPicksHold ==
  /\ Starts
  /\ asked = Idle
  /\ held.kind = "quality"
  /\ held.turn # reviewedHold
  /\ BoxIsEmpty
  /\ asked' = [row |-> 0, hold |-> held.turn, last |-> last]
  /\ UNCHANGED <<convVars, heldVars, turn, sending, redrafting, reviewed,
                 reviewedHold, sweepVars>>

Receipt ==
  /\ asked' = Idle
  /\ IF asked.hold = 0
       THEN reviewed' = asked.row /\ UNCHANGED reviewedHold
       ELSE reviewedHold' = asked.hold /\ UNCHANGED reviewed

(* The verdict: keep the draft, or put another in the box.  Without an     *)
(* answer there is no receipt, and the draft is picked again.              *)
ReviewAnswers ==
  /\ asked # Idle
  /\ Receipt
  /\ UNCHANGED <<convVars, heldVars>> \/ SaveOperatorDraft("review")
  /\ UNCHANGED <<turn, sending, redrafting, sweepVars, bounds>>

ReviewFails ==
  /\ asked # Idle
  /\ asked' = Idle
  /\ UNCHANGED <<convVars, heldVars, turn, sending, redrafting, reviewed,
                 reviewedHold, sweepVars, bounds>>

(* A thumbs-down on a draft asks for another; on a stale one it leaves a   *)
(* task, unless one is open.                                               *)
RateDown ==
  /\ Starts
  /\ ~redrafting
  /\ \E d \in Rows : messages[d].kind = "draft"
  /\ redrafting' = TRUE
  /\ UNCHANGED <<convVars, heldVars, turn, sending, asked, reviewed,
                 reviewedHold, sweepVars>>

RateDownStale ==
  /\ Starts
  /\ \E d \in Rows : messages[d].kind = "stale"
  /\ task' = "escalation"
  /\ UNCHANGED <<convVars, held, dismissed, turn, sending, reviewVars,
                 sweepVars>>

RedraftEnds ==
  /\ redrafting
  /\ redrafting' = FALSE
  /\ SaveOperatorDraft("redraft") \/ UNCHANGED <<convVars, heldVars>>
  /\ UNCHANGED <<turn, sending, asked, reviewed, reviewedHold, sweepVars,
                 bounds>>

-----------------------------------------------------------------------------
(* The follow-up sweep takes the open tasks at its start and comes to the  *)
(* holds many awaits later.                                                *)
SweepReads ==
  /\ sweep = "idle"
  /\ sweep' = IF task = "escalation" THEN "open" ELSE "clear"
  /\ UNCHANGED <<convVars, heldVars, nudged, turn, sending, reviewVars,
                 bounds>>

(* shouldEscalateStaleHeldDraft.  A reply after the hold, which it also    *)
(* looks for, has released the hold.                                       *)
Mut_MustEscalate ==   \* passes the truncated ones over
  /\ held.kind = "quality"
  /\ held.aged
  /\ sweep = "clear"
  /\ ~nudged

MustEscalate ==
  /\ held.kind \in {"truncated", "quality"}
  /\ held.aged
  /\ sweep = "clear"
  /\ ~nudged

SweepActs ==
  /\ sweep # "idle"
  /\ sweep' = "idle"
  /\ IF MustEscalate
       THEN /\ task' = "escalation"
            /\ nudged' = TRUE
            /\ held' = NoHold
       ELSE UNCHANGED <<task, nudged, held>>
  /\ UNCHANGED <<convVars, dismissed, turn, sending, reviewVars, bounds>>

(* Six hours, and twenty-four hours, go by. *)
HoldAges ==
  /\ held.kind # "none"
  /\ ~held.aged
  /\ held' = [held EXCEPT !.aged = TRUE]
  /\ UNCHANGED <<convVars, task, dismissed, turn, sending, reviewVars,
                 sweepVars, bounds>>

NudgeExpires ==
  /\ nudged
  /\ nudged' = FALSE
  /\ UNCHANGED <<convVars, heldVars, turn, sending, reviewVars, sweep, bounds>>

(* Any other follow-up task of the conversation takes the place of the one *)
(* that is open; staff, or the task audit, close it.                       *)
OtherTask ==
  /\ Starts
  /\ task' = "other"
  /\ UNCHANGED <<convVars, held, dismissed, turn, sending, reviewVars,
                 sweepVars>>

TaskDone ==
  /\ Starts
  /\ task # "none"
  /\ task' = "none"
  /\ dismissed' = TRUE
  /\ UNCHANGED <<convVars, held, turn, sending, reviewVars, sweepVars>>

(* The process restarts: what was under way is gone, the conversation is   *)
(* read back (ConversationStore says what may be missing).                 *)
Restart ==
  /\ restarts < MaxRestarts
  /\ restarts' = restarts + 1
  /\ turn' = [t \in Turns |-> IF turn[t].at = "idle" THEN turn[t]
                                ELSE [turn[t] EXCEPT !.at = "over"]]
  /\ sending' = [s \in Sends |-> IF sending[s].at = "idle" THEN sending[s]
                                   ELSE [sending[s] EXCEPT !.at = "over"]]
  /\ asked' = Idle
  /\ redrafting' = FALSE
  /\ sweep' = "idle"
  /\ UNCHANGED <<convVars, heldVars, reviewed, reviewedHold, nudged, starts>>

-----------------------------------------------------------------------------
TurnStep(t) ==
  \/ TextArrives(t) \/ Begins(t) \/ Supersedes(t) \/ LeavesItToStaff(t)
  \/ EndsWithoutDraft(t) \/ SkipsTheGate(t) \/ EntersTheGate(t)
  \/ HoldsTruncated(t) \/ JudgeHolds(t) \/ JudgePasses(t)
  \/ ScorerHolds(t) \/ ScorerPasses(t) \/ Stores(t)

StaffStep ==
  \/ SaveDraft \/ ClearDrafts \/ RateDown \/ RateDownStale
  \/ OtherTask \/ TaskDone
  \/ \E s \in Sends : \/ PressSend(s) \/ SendEnds(s) \/ SendSettles(s)
                     \/ ReconcileThrows(s)

FixerStep ==
  \/ ReviewPicksDraft \/ ReviewPicksHold \/ ReviewAnswers \/ ReviewFails
  \/ RedraftEnds

SweepStep == SweepReads \/ SweepActs \/ HoldAges \/ NudgeExpires

Next == \/ \E t \in Turns : TurnStep(t)
        \/ StaffStep
        \/ FixerStep
        \/ SweepStep
        \/ Restart

Spec == Init /\ [][Next]_vars

(* Time passes and the sweep comes round. *)
FairSpec ==
  /\ Spec
  /\ WF_vars(HoldAges) /\ WF_vars(NudgeExpires)
  /\ WF_vars(SweepReads) /\ WF_vars(SweepActs)

-----------------------------------------------------------------------------
(* What the thread is to say of a press: "sent" if the carrier took the    *)
(* text, "failed" if the call failed, and "failed" as well, beside "sent", *)
(* in the one case ReconcileThrows.                                        *)
Says(s, kind) == \/ sending[s].result = kind
                 \/ kind = "failed" /\ sending[s].threw

(* The thread tells what the carrier was told.  A press whose call has     *)
(* ended has one message of its own for what it says, and none for what it *)
(* does not, whatever the drafts of the conversation have become           *)
(* meanwhile: two presses never share a message, and no discard takes one  *)
(* away.  That an accepted text gets an undelivered message as well when   *)
(* the reconciliation throws is what the code does, and not what           *)
(* conversationStore.ts says of the stamp: "The caller only reaches this   *)
(* from a catch, so it is stamped only when the send actually threw."      *)
RecordMatchesCarrier ==
  \A s \in Sends, kind \in {"sent", "failed"} :
    LET Tells(d) == messages[d].send = s /\ messages[d].kind = kind
    IN IF Says(s, kind)
         THEN \E d \in Rows : Tells(d) /\ \A e \in Rows \ {d} : ~Tells(e)
         ELSE \A d \in Rows : ~Tells(d)

(* The task "needs your reply" and the hold go together: no task asks for  *)
(* a reply to a turn that is no longer held, and a turn the scorer held    *)
(* has a task unless somebody has closed it.                               *)
NeedsReplyPaired ==
  /\ task = "fidelity" => held # NoHold
  /\ held.kind = "fidelity" => task # "none" \/ dismissed

(* "being fixed" is not said over a draft that can be sent: a hold and a   *)
(* draft come together only when a turn stores its answer, which it does   *)
(* beside the hold of another turn if it has skipped the gate, or was      *)
(* overtaken between the judge and the store.                              *)
HoldAndDraft == held # NoHold /\ ~BoxIsEmpty

HoldStandsAlone ==
  [][~HoldAndDraft /\ HoldAndDraft' =>
       \E t \in Turns : /\ turn[t].at \in {"offering", "storing"}
                        /\ turn'[t].at = "over"]_vars

(* The second opinion takes no person's draft out of the box that was      *)
(* there when it was asked, whatever was stored, discarded or sent since.  *)
(* One that was saved while the question was out it does take: the code    *)
(* does not look again before it saves.  That exception is not meant:      *)
(* "rewriting words a human typed is the thing this must never do"         *)
(* (claudeDraftReview.ts, of selectDraftsForClaudeReview).                 *)
WordsOfStaffStay ==
  [][asked # Idle /\ asked' = Idle =>
       \A d \in Rows :
         (Shown(d) /\ messages[d].by = "staff" /\ messages'[d].kind = "stale")
           => d > asked.last]_vars

(* No hold sits on "being fixed" for ever: a truncated or rejected answer  *)
(* is released or replaced, or a task with its marker is open, even when   *)
(* an earlier task was closed without a reply.                             *)
HoldSurfaces ==
  held.kind \in {"truncated", "quality"}
    ~> held.kind \notin {"truncated", "quality"} \/ task = "escalation"

=============================================================================
