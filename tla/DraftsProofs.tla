---------------------------- MODULE DraftsProofs ----------------------------
(***************************************************************************)
(* The safety properties of the drafts, for any number of turns, presses   *)
(* of the send button, messages and restarts.  The inductive invariant is  *)
(* Paired: types, the two pairings the runs check, and what a review that  *)
(* is out knows of the box.                                                *)
(***************************************************************************)
EXTENDS Drafts, TLAPS

USE DraftsAssumption

(* Rows are filled in order, and a press is recorded on a sent message. *)
RowsFit ==
  \A d \in Rows : /\ d > last => messages[d] = NoMessage
                  /\ messages[d].send # 0 <=> IsSent(messages[d])

(* A press has no result, and no reconciliation that threw, before its     *)
(* call has ended.                                                         *)
SendsFit ==
  \A s \in Sends : sending[s].at \in {"idle", "calling"}
                     => sending[s].result = "none" /\ ~sending[s].threw

(* While a review is out, whatever it could have seen in the box lies      *)
(* under the draft it was shown, which is still there and not a person's.  *)
ReviewSees ==
  asked # Idle =>
    /\ asked.last <= last
    /\ \A e \in Rows :
         e <= asked.last /\ InBox(e) =>
           /\ asked.row \in Rows /\ e <= asked.row
           /\ InBox(asked.row) /\ messages[asked.row].by # "staff"

Paired == /\ TypeOK
          /\ RowsFit
          /\ SendsFit
          /\ RecordMatchesCarrier
          /\ NeedsReplyPaired
          /\ ReviewSees

-----------------------------------------------------------------------------
(* What a step other than the end of a call does to the messages: drafts   *)
(* leave, of the box all or none, and one draft may be appended.           *)
Thinned(m) ==
  /\ m \in [Rows -> Messages]
  /\ \A d \in Rows : \/ m[d] = messages[d]
                     \/ /\ messages[d].kind = "draft"
                        /\ m[d].kind \in {"none", "stale"} /\ m[d].send = 0
  /\ m = messages \/ \A d \in Rows : InBox(d) => m[d].kind # "draft"

Grown == \E m \in [Rows -> Messages] :
           /\ Thinned(m)
           /\ \/ messages' = m /\ last' = last
              \/ \E a \in Authors : Appended(m, Draft(a))

LEMMA RowsAreNumbers == /\ Rows \subseteq Nat \ {0}
                        /\ Sends \subseteq Nat \ {0}
                        /\ Turns \subseteq Nat \ {0}
BY DEF Rows, Sends, Turns

LEMMA DraftTyped == /\ NoMessage \in Messages
                    /\ \A a \in Authors : Draft(a) \in Messages
BY DEF NoMessage, Draft, Messages, Authors

LEMMA UnchangedThins ==
  ASSUME TypeOK
  PROVE  Thinned(messages)
BY DEF Thinned, TypeOK

LEMMA DiscardThins ==
  ASSUME TypeOK, RowsFit
  PROVE  Thinned(PendingDiscarded)
<1>1. \A d \in Rows : InBox(d) => /\ messages[d].kind = "draft"
                                  /\ messages[d].send = 0
  BY DEF InBox, RowsFit, IsSent
<1>2. \A d \in Rows : [messages[d] EXCEPT !.kind = "stale"] \in Messages
  BY DEF TypeOK, Messages
<1>3. PendingDiscarded \in [Rows -> Messages]
  BY <1>2 DEF PendingDiscarded, TypeOK
<1>4. \A d \in Rows : InBox(d) => /\ PendingDiscarded[d].kind = "stale"
                                  /\ PendingDiscarded[d].send = messages[d].send
  BY DEF PendingDiscarded, TypeOK, Messages
<1>5. \A d \in Rows : ~InBox(d) => PendingDiscarded[d] = messages[d]
  BY DEF PendingDiscarded
<1> QED BY <1>1, <1>3, <1>4, <1>5 DEF Thinned

LEMMA ClearThins ==
  ASSUME TypeOK, RowsFit, NEW m,
         \/ m = [d \in Rows |-> IF messages[d].kind = "draft"
                                  THEN [messages[d] EXCEPT !.kind = "stale"]
                                  ELSE messages[d]]
         \/ m = [d \in Rows |-> IF messages[d].kind = "draft"
                                  THEN NoMessage ELSE messages[d]]
  PROVE  Thinned(m)
<1>1. \A d \in Rows : messages[d].kind = "draft" => messages[d].send = 0
  BY DEF RowsFit, IsSent
<1>2. \A d \in Rows : [messages[d] EXCEPT !.kind = "stale"] \in Messages
  BY DEF TypeOK, Messages
<1>3. m \in [Rows -> Messages]
  BY <1>2, DraftTyped DEF TypeOK
<1>4. \A d \in Rows : messages[d].kind = "draft" =>
         m[d].kind \in {"none", "stale"} /\ m[d].send = 0
  BY <1>1 DEF NoMessage, TypeOK, Messages
<1>5. \A d \in Rows : messages[d].kind # "draft" => m[d] = messages[d]
  OBVIOUS
<1>6. \A d \in Rows : InBox(d) => m[d].kind # "draft"
  BY <1>4 DEF InBox
<1> QED BY <1>3, <1>4, <1>5, <1>6 DEF Thinned

LEMMA StoreGrows ==
  ASSUME TypeOK, NEW m, Thinned(m), NEW a \in Authors, StoreDraft(m, a)
  PROVE  Grown
<1>1. m \in [Rows -> Messages]
  BY DEF Thinned
<1> QED BY <1>1 DEF Grown, StoreDraft

LEMMA StillGrows ==
  ASSUME TypeOK, UNCHANGED convVars
  PROVE  Grown
BY UnchangedThins DEF Grown, convVars, TypeOK

LEMMA DiscardGrows ==
  ASSUME TypeOK, RowsFit, Discard
  PROVE  Grown
<1>1. PendingDiscarded \in [Rows -> Messages]
  BY DiscardThins DEF Thinned
<1> QED BY <1>1, DiscardThins DEF Grown, Discard

LEMMA SaveGrows ==
  ASSUME TypeOK, RowsFit, NEW a \in Authors, SaveOperatorDraft(a)
  PROVE  Grown
BY DiscardThins, StoreGrows DEF SaveOperatorDraft

-----------------------------------------------------------------------------
LEMMA RecordsTyped ==
  ASSUME TypeOK
  PROVE  /\ NoHold \in Holds
         /\ [held EXCEPT !.aged = TRUE] \in Holds
         /\ \A t \in Turns, k \in {"truncated", "quality", "fidelity"} :
              [kind |-> k, turn |-> t, aged |-> FALSE] \in Holds
         /\ \A t \in Turns, x \in Stages :
              [turn EXCEPT ![t].at = x]
                \in [Turns -> [at : Stages, discard : BOOLEAN]]
<1>1. NoHold \in Holds
  BY DEF Holds, NoHold
<1>2. [held EXCEPT !.aged = TRUE] \in Holds
  BY DEF TypeOK, Holds
<1>3. \A t \in Turns, k \in {"truncated", "quality", "fidelity"} :
        [kind |-> k, turn |-> t, aged |-> FALSE] \in Holds
  BY DEF Holds, Turns
<1>4. \A t \in Turns, x \in Stages :
        [turn EXCEPT ![t].at = x]
          \in [Turns -> [at : Stages, discard : BOOLEAN]]
  BY DEF TypeOK
<1> QED BY <1>1, <1>2, <1>3, <1>4

LEMMA GrownTyped ==
  ASSUME TypeOK, Grown
  PROVE  messages' \in [Rows -> Messages] /\ last' \in 0..MaxRows
<1>1. PICK m \in [Rows -> Messages] :
        \/ messages' = m /\ last' = last
        \/ \E a \in Authors : Appended(m, Draft(a))
  BY DEF Grown
<1>2. CASE messages' = m /\ last' = last
  BY <1>1, <1>2 DEF TypeOK
<1>3. CASE \E a \in Authors : Appended(m, Draft(a))
  <2>1. PICK a \in Authors : Appended(m, Draft(a))
    BY <1>3
  <2>2. Draft(a) \in Messages
    BY DraftTyped
  <2>3. messages' = [m EXCEPT ![last + 1] = Draft(a)]
    BY <2>1 DEF Appended
  <2>4. messages' \in [Rows -> Messages]
    BY <2>2, <2>3
  <2>5. last' \in 0..MaxRows
    BY <2>1 DEF Appended, TypeOK
  <2> QED BY <2>4, <2>5
<1> QED BY <1>1, <1>2, <1>3

(* What the steps do beside the messages. *)
OthersTyped == /\ held' \in Holds
               /\ task' \in {"none", "fidelity", "escalation", "other"}
               /\ dismissed' \in BOOLEAN
               /\ turn' \in [Turns -> [at : Stages, discard : BOOLEAN]]

LEMMA ReleaseTyped ==
  ASSUME TypeOK, Release
  PROVE  /\ held' \in Holds /\ dismissed' \in BOOLEAN
         /\ task' \in {"none", "fidelity", "escalation", "other"}
BY RecordsTyped DEF Release, TypeOK

LEMMA TurnSteps ==
  ASSUME TypeOK, RowsFit, NEW t \in Turns, TurnStep(t)
  PROVE  /\ Grown /\ OthersTyped
         /\ UNCHANGED <<sending, reviewVars, sweepVars, restarts>>
         /\ starts' \in 0..MaxStarts
<1> USE RecordsTyped
<1>a. UNCHANGED heldVars => /\ held' \in Holds /\ dismissed' \in BOOLEAN
                            /\ task' \in {"none", "fidelity", "escalation", "other"}
  BY DEF heldVars, TypeOK
<1>b. \A from, to \in Stages : Moves(t, from, to) =>
        /\ turn' \in [Turns -> [at : Stages, discard : BOOLEAN]]
        /\ UNCHANGED <<sending, reviewVars, sweepVars, restarts>>
        /\ starts' \in 0..MaxStarts
  BY DEF Moves, bounds, TypeOK
<1>c. \A k \in {"truncated", "quality", "fidelity"} : Hold(t, k) =>
        Grown /\ held' \in Holds /\ dismissed' \in BOOLEAN
  BY DiscardGrows DEF Hold
<1> DEFINE Over == {"idle", "reading", "composing", "judging", "scoring",
                    "storing", "offering", "over"}
<1>d. Over = Stages
  BY DEF Stages
<1>1. CASE TextArrives(t) \/ Begins(t)
  <2>1. PICK x \in {"reading", "composing"} : Opens(t, x)
    BY <1>1 DEF TextArrives, Begins
  <2>2. turn' \in [Turns -> [at : Stages, discard : BOOLEAN]]
    BY <1>d, <2>1 DEF Opens
  <2>3. starts' \in 0..MaxStarts /\ UNCHANGED restarts
    BY <2>1 DEF Opens, Starts, TypeOK
  <2>4. UNCHANGED <<convVars, heldVars, sending, reviewVars, sweepVars>>
    BY <2>1 DEF Opens
  <2> QED BY <1>a, <2>2, <2>3, <2>4, StillGrows DEF OthersTyped
<1>2. CASE Supersedes(t)
  BY <1>a, <1>b, <1>d, <1>2, DiscardGrows DEF Supersedes, OthersTyped
<1>3. CASE LeavesItToStaff(t) \/ SkipsTheGate(t) \/ ScorerPasses(t)
  BY <1>a, <1>b, <1>d, <1>3, StillGrows
     DEF LeavesItToStaff, SkipsTheGate, ScorerPasses, OthersTyped
<1>4. CASE EndsWithoutDraft(t)
  BY <1>a, <1>b, <1>d, <1>4, StillGrows, DiscardGrows DEF EndsWithoutDraft, OthersTyped
<1>5. CASE EntersTheGate(t)
  <2>1. turn' \in [Turns -> [at : Stages, discard : BOOLEAN]]
    BY <1>5, <1>d DEF EntersTheGate, TypeOK
  <2> QED BY <1>a, <1>5, <2>1, StillGrows DEF EntersTheGate, OthersTyped, bounds, TypeOK
<1>6. CASE HoldsTruncated(t) \/ JudgeHolds(t)
  BY <1>b, <1>c, <1>d, <1>6 DEF HoldsTruncated, JudgeHolds, OthersTyped, TypeOK
<1>7. CASE JudgePasses(t)
  BY <1>b, <1>d, <1>7, ReleaseTyped, StillGrows DEF JudgePasses, OthersTyped
<1>8. CASE ScorerHolds(t)
  BY <1>b, <1>c, <1>d, <1>8 DEF ScorerHolds, OthersTyped
<1>9. CASE Stores(t)
  <2>1. Thinned(messages) /\ Thinned(PendingDiscarded) /\ "ai" \in Authors
    BY UnchangedThins, DiscardThins DEF Authors
  <2>2. Grown
    BY <1>9, <2>1, StoreGrows DEF Stores
  <2> QED BY <1>a, <1>b, <1>d, <1>9, <2>2 DEF Stores, OthersTyped
<1> QED
  BY <1>1, <1>2, <1>3, <1>4, <1>5, <1>6, <1>7, <1>8, <1>9 DEF TurnStep

-----------------------------------------------------------------------------
RestTyped == /\ nudged' \in BOOLEAN /\ sweep' \in {"idle", "clear", "open"}
             /\ sending' \in [Sends -> Presses]
             /\ asked' \in [row : 0..MaxRows, hold : 0..MaxTurns,
                            last : 0..MaxRows]
             /\ redrafting' \in BOOLEAN
             /\ reviewed' \in 0..MaxRows /\ reviewedHold' \in 0..MaxTurns
             /\ starts' \in 0..MaxStarts /\ restarts' \in 0..MaxRestarts

KeepsResults ==
  \A s \in Sends : /\ sending'[s].result = sending[s].result
                   /\ sending'[s].threw = sending[s].threw
                   /\ sending'[s].at \in {"idle", "calling"}
                        => sending[s].at \in {"idle", "calling"}

(* What a step leaves alone stays typed. *)
LEMMA Kept ==
  ASSUME TypeOK
  PROVE  /\ UNCHANGED held => held' \in Holds
         /\ UNCHANGED task => task' \in {"none", "fidelity", "escalation", "other"}
         /\ UNCHANGED dismissed => dismissed' \in BOOLEAN
         /\ UNCHANGED turn => turn' \in [Turns -> [at : Stages, discard : BOOLEAN]]
         /\ UNCHANGED sending =>
              /\ KeepsResults
              /\ sending' \in [Sends -> Presses]
         /\ UNCHANGED asked => asked' \in [row : 0..MaxRows, hold : 0..MaxTurns,
                                           last : 0..MaxRows]
         /\ UNCHANGED redrafting => redrafting' \in BOOLEAN
         /\ UNCHANGED reviewed => reviewed' \in 0..MaxRows
         /\ UNCHANGED reviewedHold => reviewedHold' \in 0..MaxTurns
         /\ UNCHANGED nudged => nudged' \in BOOLEAN
         /\ UNCHANGED sweep => sweep' \in {"idle", "clear", "open"}
         /\ UNCHANGED restarts => restarts' \in 0..MaxRestarts
         /\ UNCHANGED starts => starts' \in 0..MaxStarts
         /\ Starts => starts' \in 0..MaxStarts /\ restarts' \in 0..MaxRestarts
<1>1. Starts => starts' \in 0..MaxStarts /\ restarts' \in 0..MaxRestarts
  BY DEF Starts, TypeOK
<1>2. UNCHANGED sending => KeepsResults
  BY DEF KeepsResults
<1> QED BY <1>1, <1>2 DEF TypeOK

LEMMA TurnRest ==
  ASSUME TypeOK, RowsFit, NEW t \in Turns, TurnStep(t)
  PROVE  RestTyped /\ KeepsResults
BY TurnSteps, Kept DEF RestTyped, reviewVars, sweepVars

LEMMA StaffSteps ==
  ASSUME TypeOK, RowsFit, SendsFit,
         \/ SaveDraft \/ ClearDrafts \/ RateDown \/ RateDownStale
         \/ OtherTask \/ TaskDone
         \/ \E s \in Sends : PressSend(s) \/ SendSettles(s)
  PROVE  Grown /\ OthersTyped /\ RestTyped /\ KeepsResults
<1> USE Kept DEF OthersTyped, RestTyped, heldVars, reviewVars, sweepVars, bounds
<1>1. CASE SaveDraft
  <2>1. Grown
    BY <1>1, SaveGrows DEF SaveDraft, Authors
  <2> QED BY <1>1, <2>1, ReleaseTyped DEF SaveDraft, SaveOperatorDraft
<1>2. CASE ClearDrafts
  <2>1. Thinned(messages') /\ last' = last
    BY <1>2, ClearThins DEF ClearDrafts
  <2>2. Grown
    BY <2>1 DEF Grown, Thinned
  <2> QED BY <1>2, <2>2 DEF ClearDrafts
<1>3. CASE RateDown \/ RateDownStale \/ OtherTask \/ TaskDone
  BY <1>3, StillGrows DEF RateDown, RateDownStale, OtherTask, TaskDone
<1>4. ASSUME NEW s \in Sends, PressSend(s)
      PROVE  Grown /\ OthersTyped /\ RestTyped /\ KeepsResults
  <2>0. PICK d \in 0..last :
          sending' = [sending EXCEPT ![s] = [at |-> "calling", draft |-> d,
                                             result |-> "none", threw |-> FALSE]]
    BY <1>4 DEF PressSend
  <2>1. /\ d \in 0..MaxRows
        /\ sending' = [sending EXCEPT ![s] = [at |-> "calling", draft |-> d,
                                             result |-> "none", threw |-> FALSE]]
    BY <2>0 DEF TypeOK
  <2>2. /\ sending' \in [Sends -> Presses]
    BY <2>1 DEF TypeOK, Presses
  <2>3. sending[s].at = "idle" /\ sending[s].result = "none" /\ ~sending[s].threw
    BY <1>4 DEF PressSend, SendsFit
  <2>4. KeepsResults
    <3>1. /\ sending'[s].result = "none" /\ sending'[s].threw = FALSE
          /\ \A r \in Sends : r # s => sending'[r] = sending[r]
      BY <2>1 DEF TypeOK
    <3>2. sending[s].threw = FALSE
      BY <2>3 DEF TypeOK, Presses
    <3> QED BY <2>3, <3>1, <3>2 DEF KeepsResults
  <2>5. Grown
    BY <1>4, StillGrows DEF PressSend
  <2> QED BY <1>4, <2>2, <2>4, <2>5 DEF PressSend
<1>5. ASSUME NEW s \in Sends, SendSettles(s)
      PROVE  Grown /\ OthersTyped /\ RestTyped /\ KeepsResults
  <2>1. Thinned(messages') /\ last' = last
    BY <1>5, ClearThins DEF SendSettles
  <2>2. Grown
    BY <2>1 DEF Grown, Thinned
  <2>3. PICK x \in {"settled", "over"} :
          sending' = [sending EXCEPT ![s].at = x]
    BY <1>5 DEF SendSettles
  <2>a. sending[s] \in Presses
    BY DEF TypeOK
  <2>4. sending' \in [Sends -> Presses]
    BY <2>3, <2>a DEF TypeOK, Presses
  <2>5. KeepsResults
    <3>1. /\ sending'[s] = [sending[s] EXCEPT !.at = x]
          /\ \A r \in Sends : r # s => sending'[r] = sending[r]
      BY <2>3 DEF TypeOK
    <3>2. /\ sending'[s].result = sending[s].result /\ sending'[s].at = x
          /\ sending'[s].threw = sending[s].threw
      BY <3>1, <2>a DEF Presses
    <3> QED BY <3>1, <3>2 DEF KeepsResults
  <2> QED BY <1>5, <2>2, <2>4, <2>5 DEF SendSettles
<1> QED BY <1>1, <1>2, <1>3, <1>4, <1>5

LEMMA FixerSteps ==
  ASSUME TypeOK, RowsFit, FixerStep
  PROVE  Grown /\ OthersTyped /\ RestTyped /\ KeepsResults
<1> USE Kept DEF OthersTyped, RestTyped, heldVars, reviewVars, sweepVars, bounds
<1>a. Idle \in [row : 0..MaxRows, hold : 0..MaxTurns, last : 0..MaxRows]
  BY DEF Idle
<1>b. "review" \in Authors /\ "redraft" \in Authors
  BY DEF Authors
<1>1. CASE ReviewPicksDraft
  <2>1. asked' \in [row : 0..MaxRows, hold : 0..MaxTurns, last : 0..MaxRows]
    BY <1>1 DEF ReviewPicksDraft, TypeOK, Rows
  <2> QED BY <1>1, <2>1, StillGrows DEF ReviewPicksDraft
<1>2. CASE ReviewPicksHold
  <2>1. asked' \in [row : 0..MaxRows, hold : 0..MaxTurns, last : 0..MaxRows]
    BY <1>2 DEF ReviewPicksHold, TypeOK, Holds
  <2> QED BY <1>2, <2>1, StillGrows DEF ReviewPicksHold
<1>3. CASE ReviewAnswers
  <2>1. /\ asked' \in [row : 0..MaxRows, hold : 0..MaxTurns, last : 0..MaxRows]
        /\ reviewed' \in 0..MaxRows /\ reviewedHold' \in 0..MaxTurns
    BY <1>3, <1>a DEF ReviewAnswers, Receipt, TypeOK
  <2>2. Grown
    BY <1>3, <1>b, StillGrows, SaveGrows DEF ReviewAnswers
  <2> QED BY <1>3, <2>1, <2>2, ReleaseTyped DEF ReviewAnswers, SaveOperatorDraft
<1>4. CASE ReviewFails
  BY <1>4, <1>a, StillGrows DEF ReviewFails
<1>5. CASE RedraftEnds
  <2>1. Grown
    BY <1>5, <1>b, StillGrows, SaveGrows DEF RedraftEnds
  <2> QED BY <1>5, <2>1, ReleaseTyped DEF RedraftEnds, SaveOperatorDraft
<1> QED BY <1>1, <1>2, <1>3, <1>4, <1>5 DEF FixerStep

LEMMA SweepSteps ==
  ASSUME TypeOK, SweepStep \/ Restart
  PROVE  Grown /\ OthersTyped /\ RestTyped /\ KeepsResults
<1> USE Kept, RecordsTyped, StillGrows
    DEF OthersTyped, RestTyped, heldVars, reviewVars, sweepVars, bounds
<1>1. CASE SweepReads
  BY <1>1 DEF SweepReads
<1>2. CASE SweepActs
  BY <1>2 DEF SweepActs
<1>3. CASE HoldAges
  BY <1>3 DEF HoldAges
<1>4. CASE NudgeExpires
  BY <1>4 DEF NudgeExpires
<1>5. CASE Restart
  <2>1. turn' \in [Turns -> [at : Stages, discard : BOOLEAN]]
    <3>1. \A t \in Turns :
            [turn[t] EXCEPT !.at = "over"] \in [at : Stages, discard : BOOLEAN]
      <4>1. \A t \in Turns : turn[t] \in [at : Stages, discard : BOOLEAN]
        BY DEF TypeOK
      <4>2. "over" \in Stages
        BY DEF Stages
      <4> QED BY <4>1, <4>2
    <3>2. turn' = [t \in Turns |-> IF turn[t].at = "idle" THEN turn[t]
                                     ELSE [turn[t] EXCEPT !.at = "over"]]
      BY <1>5 DEF Restart
    <3> QED BY <3>1, <3>2 DEF TypeOK
  <2>2. sending' = [s \in Sends |-> IF sending[s].at = "idle" THEN sending[s]
                                      ELSE [sending[s] EXCEPT !.at = "over"]]
    BY <1>5 DEF Restart
  <2>3. \A s \in Sends :
          /\ [sending[s] EXCEPT !.at = "over"]
               \in Presses
          /\ [sending[s] EXCEPT !.at = "over"].at = "over"
          /\ [sending[s] EXCEPT !.at = "over"].result = sending[s].result
          /\ [sending[s] EXCEPT !.at = "over"].threw = sending[s].threw
    BY DEF TypeOK, Presses
  <2>4. sending' \in [Sends -> Presses]
    BY <2>2, <2>3 DEF TypeOK
  <2>5. KeepsResults
    BY <2>2, <2>3 DEF KeepsResults
  <2>6. asked' \in [row : 0..MaxRows, hold : 0..MaxTurns, last : 0..MaxRows]
    BY <1>5 DEF Restart, Idle
  <2>7. redrafting' \in BOOLEAN /\ sweep' \in {"idle", "clear", "open"}
    BY <1>5 DEF Restart
  <2>8. restarts' \in 0..MaxRestarts /\ UNCHANGED <<convVars, heldVars, reviewed,
                                                   reviewedHold, nudged, starts>>
    BY <1>5 DEF Restart, TypeOK
  <2> QED BY <2>1, <2>4, <2>5, <2>6, <2>7, <2>8
<1> QED BY <1>1, <1>2, <1>3, <1>4, <1>5 DEF SweepStep

-----------------------------------------------------------------------------
(* The end of a call is the one step that marks a message as sent. *)
LEMMA SendEndsParts ==
  ASSUME TypeOK, RowsFit, NEW s \in Sends, SendEnds(s)
  PROVE  \E result \in {"sent", "failed"} :
           /\ sending[s].at = "calling"
           /\ sending' = [sending EXCEPT ![s] = [at |-> "settling", draft |-> 0,
                                                result |-> result, threw |-> FALSE]]
           /\ \/ \E d \in Rows :
                   /\ messages[d].kind = "draft"
                   /\ messages[d].send = 0
                   /\ messages' = [messages EXCEPT ![d].kind = result,
                                                   ![d].send = s]
                   /\ last' = last
              \/ Appended(messages, [kind |-> result, by |-> "staff", send |-> s])
<1>1. PICK result \in {"sent", "failed"} :
        /\ Recorded(s, result)
        /\ sending' = [sending EXCEPT ![s] = [at |-> "settling", draft |-> 0,
                                             result |-> result, threw |-> FALSE]]
  BY DEF SendEnds
<1>2. CASE UsesDraft(s) /\ messages' = [messages EXCEPT ![sending[s].draft].kind = result,
                                                        ![sending[s].draft].send = s]
                        /\ UNCHANGED last
  BY <1>1, <1>2 DEF UsesDraft, RowsFit, IsSent, SendEnds
<1>3. CASE Appended(messages, [kind |-> result, by |-> "staff", send |-> s])
  BY <1>1, <1>3 DEF SendEnds
<1> QED BY <1>1, <1>2, <1>3 DEF Recorded

(* A message is stamped with press s and the outcome k: one that told of   *)
(* no press before, a draft or a new one.                                  *)
Stamps(s, k) ==
  /\ messages' \in [Rows -> Messages] /\ last' \in last..MaxRows
  /\ \E d \in Rows :
       /\ messages'[d].kind = k /\ messages'[d].send = s
       /\ messages[d].send = 0
       /\ messages[d].kind = "draft" \/ d = last + 1
       /\ d <= last'
       /\ \A e \in Rows \ {d} : messages'[e] = messages[e]

LEMMA AppendStamps ==
  ASSUME TypeOK, RowsFit, NEW s \in Sends, NEW k \in {"sent", "failed"},
         Appended(messages, [kind |-> k, by |-> "staff", send |-> s])
  PROVE  Stamps(s, k)
<1>1. [kind |-> k, by |-> "staff", send |-> s] \in Messages
  BY DEF Messages, Authors, Sends
<1>2. /\ last + 1 \in Rows /\ last' = last + 1 /\ last' \in last..MaxRows
      /\ last + 1 <= last'
  BY DEF Appended, TypeOK, Rows
<1>3. messages' = [messages EXCEPT ![last + 1] =
                     [kind |-> k, by |-> "staff", send |-> s]]
  BY DEF Appended
<1>4. messages[last + 1].send = 0
  BY <1>2 DEF RowsFit, NoMessage, TypeOK
<1>5. /\ messages' \in [Rows -> Messages]
      /\ messages'[last + 1].kind = k /\ messages'[last + 1].send = s
      /\ \A e \in Rows \ {last + 1} : messages'[e] = messages[e]
  BY <1>1, <1>2, <1>3 DEF TypeOK
<1> QED BY <1>2, <1>4, <1>5 DEF Stamps

LEMMA DraftStamps ==
  ASSUME TypeOK, RowsFit, NEW s \in Sends, NEW k \in {"sent", "failed"},
         NEW d \in Rows, messages[d].kind = "draft", messages[d].send = 0,
         messages' = [messages EXCEPT ![d].kind = k, ![d].send = s],
         last' = last
  PROVE  Stamps(s, k)
<1>1. messages[d] \in Messages /\ s \in 0..MaxSends
  BY DEF TypeOK, Sends
<1>2. /\ messages'[d] = [messages[d] EXCEPT !.kind = k, !.send = s]
      /\ \A e \in Rows \ {d} : messages'[e] = messages[e]
      /\ messages' = [messages EXCEPT ![d] = [messages[d] EXCEPT !.kind = k,
                                                                 !.send = s]]
  BY DEF TypeOK
<1>3. /\ [messages[d] EXCEPT !.kind = k, !.send = s] \in Messages
      /\ [messages[d] EXCEPT !.kind = k, !.send = s].kind = k
      /\ [messages[d] EXCEPT !.kind = k, !.send = s].send = s
  BY <1>1 DEF Messages
<1>4. messages' \in [Rows -> Messages]
  BY <1>2, <1>3 DEF TypeOK
<1>5. d <= last /\ last \in last..MaxRows
  BY DEF RowsFit, NoMessage, TypeOK, Rows
<1> QED BY <1>2, <1>3, <1>4, <1>5 DEF Stamps

LEMMA SendEndsStamps ==
  ASSUME TypeOK, RowsFit, NEW s \in Sends, SendEnds(s)
  PROVE  \E result \in {"sent", "failed"} :
           /\ sending[s].at = "calling"
           /\ sending' = [sending EXCEPT ![s] = [at |-> "settling", draft |-> 0,
                                                result |-> result,
                                                threw |-> FALSE]]
           /\ Stamps(s, result)
BY SendEndsParts, AppendStamps, DraftStamps

LEMMA ThrowStamps ==
  ASSUME TypeOK, RowsFit, NEW s \in Sends, ReconcileThrows(s)
  PROVE  Stamps(s, "failed")
BY AppendStamps DEF ReconcileThrows

-----------------------------------------------------------------------------
(* The box is emptied or left alone. *)
BoxGoesWhole ==
  \/ \A d \in Rows : d <= last /\ InBox(d) => messages'[d].kind # "draft"
  \/ \A d \in Rows : d <= last => messages'[d] = messages[d]

(* No message is sent or changed once it is sent, and no draft is changed. *)
SentStay ==
  \A d \in Rows : /\ messages[d].send # 0 => messages'[d] = messages[d]
                  /\ messages'[d].send # 0 => messages[d].send # 0

DraftsStay ==
  \A d \in Rows : messages'[d].kind = "draft" /\ d <= last
                    => messages'[d] = messages[d]

(* Growing keeps every sent message where and as it is, and sends none. *)
LEMMA GrownKeeps ==
  ASSUME TypeOK, RowsFit, Grown
  PROVE  RowsFit' /\ last <= last' /\ SentStay /\ DraftsStay /\ BoxGoesWhole
<1>1. PICK m \in [Rows -> Messages] :
           /\ Thinned(m)
           /\ \/ messages' = m /\ last' = last
              \/ \E a \in Authors : Appended(m, Draft(a))
  BY DEF Grown
<1>2. \A d \in Rows :
        \/ m[d] = messages[d]
        \/ /\ messages[d].kind = "draft" /\ messages[d].send = 0
           /\ m[d].kind \in {"none", "stale"} /\ m[d].send = 0
  BY <1>1 DEF Thinned, RowsFit, IsSent
<1>3. m = messages \/ \A d \in Rows : InBox(d) => m[d].kind # "draft"
  BY <1>1 DEF Thinned
<1>4. \A d \in Rows : d > last => m[d] = messages[d] /\ messages[d] = NoMessage
  BY <1>2 DEF RowsFit, NoMessage
<1>5. CASE messages' = m /\ last' = last
  <2>1. RowsFit'
    BY <1>2, <1>4, <1>5 DEF RowsFit, IsSent
  <2>2. BoxGoesWhole
    BY <1>3, <1>5 DEF BoxGoesWhole
  <2> QED BY <1>2, <1>5, <2>1, <2>2 DEF TypeOK, SentStay, DraftsStay
<1>6. CASE \E a \in Authors : Appended(m, Draft(a))
  <2>1. PICK a \in Authors : Appended(m, Draft(a))
    BY <1>6
  <2>2. last + 1 \in Rows /\ last' = last + 1 /\ last <= last'
    BY <2>1 DEF Appended, TypeOK, Rows
  <2>3. /\ messages'[last + 1] = Draft(a)
        /\ \A d \in Rows : d # last + 1 => messages'[d] = m[d]
    BY <1>1, <2>1, <2>2 DEF Appended
  <2>4. Draft(a).kind = "draft" /\ Draft(a).send = 0
    BY DEF Draft
  <2>5. messages[last + 1] = NoMessage /\ NoMessage.send = 0
    BY <2>2 DEF RowsFit, NoMessage, TypeOK
  <2>6. RowsFit'
    <3> SUFFICES ASSUME NEW d \in Rows
                 PROVE  /\ d > last' => messages'[d] = NoMessage
                        /\ messages'[d].send # 0 <=> IsSent(messages'[d])
      BY DEF RowsFit, IsSent
    <3>1. CASE d = last + 1
      BY <2>2, <2>3, <2>4, <3>1 DEF IsSent, TypeOK
    <3>2. CASE d # last + 1
      BY <1>2, <1>4, <2>2, <2>3, <3>2 DEF RowsFit, IsSent, TypeOK, Rows
    <3> QED BY <3>1, <3>2
  <2>7. \A d \in Rows : d <= last => messages'[d] = m[d]
    BY <2>3 DEF TypeOK, Rows
  <2>8. SentStay
    BY <1>2, <2>3, <2>4, <2>5 DEF SentStay
  <2>9. DraftsStay
    BY <1>2, <2>7 DEF DraftsStay
  <2>10. BoxGoesWhole
    BY <1>3, <2>7 DEF BoxGoesWhole
  <2> QED BY <2>2, <2>6, <2>8, <2>9, <2>10
<1> QED BY <1>1, <1>5, <1>6

LEMMA GrownRecords ==
  ASSUME TypeOK, RowsFit, SendsFit, RecordMatchesCarrier, Grown, KeepsResults
  PROVE  RowsFit' /\ SendsFit' /\ RecordMatchesCarrier'
<1>1. SendsFit'
  BY DEF SendsFit, KeepsResults
<1>2. \A s \in Sends : s # 0
  BY DEF Sends
<1>3. \A d \in Rows, s \in Sends : messages'[d].send = s <=> messages[d].send = s
  BY <1>2, GrownKeeps DEF SentStay
<1>4. \A d \in Rows, s \in Sends : messages[d].send = s => messages'[d] = messages[d]
  BY <1>2, GrownKeeps DEF SentStay
<1>5. ASSUME NEW s \in Sends, NEW k \in {"sent", "failed"}
      PROVE  /\ Says(s, k)' <=> Says(s, k)
             /\ \A d \in Rows : (messages'[d].send = s /\ messages'[d].kind = k)
                                <=> (messages[d].send = s /\ messages[d].kind = k)
  BY <1>3, <1>4 DEF Says, KeepsResults
<1>6. RecordMatchesCarrier'
  BY <1>5 DEF RecordMatchesCarrier
<1> QED BY <1>1, <1>6, GrownKeeps

LEMMA GrownSees ==
  ASSUME TypeOK, RowsFit, ReviewSees, Grown, UNCHANGED asked
  PROVE  ReviewSees'
<1> SUFFICES ASSUME asked # Idle
             PROVE  /\ asked.last <= last'
                    /\ \A e \in Rows :
                         e <= asked.last /\ InBox(e)' =>
                           /\ asked.row \in Rows /\ e <= asked.row
                           /\ InBox(asked.row)' /\ messages'[asked.row].by # "staff"
  BY DEF ReviewSees
<1>1. asked.last <= last /\ last <= last' /\ asked.last \in Nat /\ last \in Nat /\ last' \in Nat
  BY GrownKeeps, GrownTyped DEF ReviewSees, TypeOK
<1>2. \A d \in Rows : IsSent(messages[d]) => IsSent(messages'[d])
  BY GrownKeeps DEF RowsFit, SentStay
<1>3. \A d \in Rows : IsSent(messages'[d]) => IsSent(messages[d])
  BY GrownKeeps DEF RowsFit, SentStay
<1>4. ASSUME NEW e \in Rows, e <= asked.last, InBox(e)'
      PROVE  /\ asked.row \in Rows /\ e <= asked.row
             /\ InBox(asked.row)' /\ messages'[asked.row].by # "staff"
  <2>1. e <= last
    BY <1>1, <1>4 DEF Rows
  <2>2. messages'[e].kind = "draft" /\ messages[e].kind = "draft"
    BY <1>4, <2>1, GrownKeeps DEF InBox, DraftsStay
  <2>3. InBox(e)
    BY <1>2, <1>4, <2>2 DEF InBox
  <2>4. /\ asked.row \in Rows /\ e <= asked.row
        /\ InBox(asked.row) /\ messages[asked.row].by # "staff"
    BY <1>4, <2>3 DEF ReviewSees
  <2>5. messages[asked.row].kind = "draft" /\ asked.row <= last
    BY <2>4, <1>1 DEF InBox, RowsFit, NoMessage, Rows
  <2>6. messages'[asked.row] = messages[asked.row]
    BY <2>1, <2>2, <2>3, <2>4, <2>5, GrownKeeps DEF BoxGoesWhole, DraftsStay
  <2>7. InBox(asked.row)'
    BY <1>3, <2>4, <2>6 DEF InBox
  <2> QED BY <2>4, <2>6, <2>7
<1> QED BY <1>1, <1>4

(* A stamp for what a press says from now on, and did not say before. *)
LEMMA StampRecords ==
  ASSUME TypeOK, RowsFit, RecordMatchesCarrier,
         NEW s \in Sends, NEW k \in {"sent", "failed"}, Stamps(s, k),
         ~Says(s, k), Says(s, k)',
         \A r \in Sends, j \in {"sent", "failed"} :
           r # s \/ j # k => (Says(r, j)' <=> Says(r, j))
  PROVE  RowsFit' /\ RecordMatchesCarrier'
<1>1. PICK d \in Rows :
        /\ messages'[d].kind = k /\ messages'[d].send = s
        /\ messages[d].send = 0
        /\ d <= last'
        /\ \A e \in Rows \ {d} : messages'[e] = messages[e]
  BY DEF Stamps
<1>2. s # 0 /\ last <= last' /\ last \in Nat /\ last' \in Nat
  BY DEF Stamps, Sends, TypeOK
<1>3. RowsFit'
  BY <1>1, <1>2 DEF RowsFit, IsSent, Rows
<1>4. \A e \in Rows : ~(messages[e].send = s /\ messages[e].kind = k)
  BY DEF RecordMatchesCarrier
<1>5. ASSUME NEW r \in Sends, NEW j \in {"sent", "failed"}
      PROVE  IF Says(r, j)'
               THEN \E e \in Rows :
                      /\ messages'[e].send = r /\ messages'[e].kind = j
                      /\ \A f \in Rows \ {e} :
                           ~(messages'[f].send = r /\ messages'[f].kind = j)
               ELSE \A e \in Rows : ~(messages'[e].send = r /\ messages'[e].kind = j)
  <2>1. CASE r = s /\ j = k
    BY <1>1, <1>4, <2>1
  <2>2. CASE ~(r = s /\ j = k)
    <3>1. r # 0
      BY DEF Sends
    <3>2. \A e \in Rows : (messages'[e].send = r /\ messages'[e].kind = j)
                           <=> (messages[e].send = r /\ messages[e].kind = j)
      BY <1>1, <2>2, <3>1
    <3>3. Says(r, j)' <=> Says(r, j)
      BY <2>2
    <3> QED BY <3>2, <3>3 DEF RecordMatchesCarrier
  <2> QED BY <2>1, <2>2
<1> QED BY <1>3, <1>5 DEF RecordMatchesCarrier

LEMMA SendEndsRecords ==
  ASSUME TypeOK, RowsFit, SendsFit, RecordMatchesCarrier, NEW s \in Sends, SendEnds(s)
  PROVE  RowsFit' /\ SendsFit' /\ RecordMatchesCarrier'
<1>1. PICK result \in {"sent", "failed"} :
        /\ sending[s].at = "calling"
        /\ sending' = [sending EXCEPT ![s] = [at |-> "settling", draft |-> 0,
                                             result |-> result, threw |-> FALSE]]
        /\ Stamps(s, result)
  BY SendEndsStamps
<1>2. /\ sending'[s].result = result /\ sending'[s].threw = FALSE
      /\ sending'[s].at = "settling"
      /\ \A r \in Sends : r # s => sending'[r] = sending[r]
  BY <1>1 DEF TypeOK
<1>3. SendsFit'
  BY <1>2 DEF SendsFit
<1>4. sending[s].result = "none" /\ ~sending[s].threw
  BY <1>1 DEF SendsFit
<1>5. \A k \in {"sent", "failed"} : ~Says(s, k) /\ (Says(s, k)' <=> k = result)
  BY <1>2, <1>4 DEF Says
<1>6. \A r \in Sends, j \in {"sent", "failed"} :
        r # s => (Says(r, j)' <=> Says(r, j))
  BY <1>2 DEF Says
<1> QED BY <1>1, <1>3, <1>5, <1>6, StampRecords

LEMMA ThrowParts ==
  ASSUME TypeOK, NEW s \in Sends, ReconcileThrows(s)
  PROVE  /\ sending' \in [Sends -> Presses]
         /\ sending[s].result = "sent" /\ ~sending[s].threw
         /\ sending'[s].result = "sent" /\ sending'[s].threw
         /\ sending'[s].at = "settling"
         /\ \A r \in Sends : r # s => sending'[r] = sending[r]
<1>1. /\ sending' = [sending EXCEPT ![s] = [sending[s] EXCEPT !.at = "settling",
                                                             !.threw = TRUE]]
      /\ sending[s].result = "sent" /\ ~sending[s].threw
  BY DEF ReconcileThrows, TypeOK
<1>2. sending[s] \in Presses
  BY DEF TypeOK
<1>3. /\ [sending[s] EXCEPT !.at = "settling", !.threw = TRUE] \in Presses
      /\ [sending[s] EXCEPT !.at = "settling", !.threw = TRUE].result = "sent"
      /\ [sending[s] EXCEPT !.at = "settling", !.threw = TRUE].threw = TRUE
      /\ [sending[s] EXCEPT !.at = "settling", !.threw = TRUE].at = "settling"
  BY <1>1, <1>2 DEF Presses
<1> QED BY <1>1, <1>3 DEF TypeOK

LEMMA ThrowRecords ==
  ASSUME TypeOK, RowsFit, SendsFit, RecordMatchesCarrier,
         NEW s \in Sends, ReconcileThrows(s)
  PROVE  RowsFit' /\ SendsFit' /\ RecordMatchesCarrier'
<1>1. /\ sending[s].result = "sent" /\ ~sending[s].threw
      /\ sending'[s].result = "sent" /\ sending'[s].threw
      /\ sending'[s].at = "settling"
      /\ \A r \in Sends : r # s => sending'[r] = sending[r]
  BY ThrowParts
<1>2. SendsFit'
  BY <1>1 DEF SendsFit
<1>3. ~Says(s, "failed") /\ Says(s, "failed")'
  BY <1>1 DEF Says
<1>4. \A r \in Sends, j \in {"sent", "failed"} :
        r # s \/ j # "failed" => (Says(r, j)' <=> Says(r, j))
  BY <1>1 DEF Says
<1> QED BY <1>2, <1>3, <1>4, ThrowStamps, StampRecords

LEMMA StampSees ==
  ASSUME TypeOK, RowsFit, ReviewSees, NEW s \in Sends,
         NEW k \in {"sent", "failed"}, Stamps(s, k), UNCHANGED asked
  PROVE  ReviewSees'
<1>0. asked' = asked
  OBVIOUS
<1> SUFFICES ASSUME asked # Idle
             PROVE  /\ asked.last <= last'
                    /\ \A e \in Rows :
                         e <= asked.last /\ InBox(e)' =>
                           /\ asked.row \in Rows /\ e <= asked.row
                           /\ InBox(asked.row)' /\ messages'[asked.row].by # "staff"
  BY <1>0 DEF ReviewSees
<1>1. PICK d \in Rows :
        /\ IsSent(messages'[d])
        /\ messages[d].kind = "draft" \/ d = last + 1
        /\ \A e \in Rows \ {d} : messages'[e] = messages[e]
  BY DEF Stamps, IsSent
<1>2. /\ asked.last <= last /\ last <= last' /\ asked.last \in Nat
      /\ last \in Nat /\ last' \in Nat
  BY DEF Stamps, ReviewSees, TypeOK
<1>3. messages[d].send = 0 /\ ~IsSent(messages[d])
  BY <1>1, <1>2 DEF RowsFit, IsSent, NoMessage, Rows
<1>4. ASSUME NEW e \in Rows, e <= asked.last, InBox(e)'
      PROVE  /\ asked.row \in Rows /\ e <= asked.row
             /\ InBox(asked.row)' /\ messages'[asked.row].by # "staff"
  <2>1. d < e
    BY <1>1, <1>4 DEF InBox
  <2>2. messages'[e] = messages[e] /\ messages[e].kind = "draft"
    BY <1>1, <1>4, <2>1 DEF InBox, Rows
  <2>3. InBox(e)
    BY <1>1, <1>3, <1>4, <2>2 DEF InBox
  <2>4. /\ asked.row \in Rows /\ e <= asked.row
        /\ InBox(asked.row) /\ messages[asked.row].by # "staff"
    BY <1>4, <2>3 DEF ReviewSees
  <2>5. d < asked.row /\ messages'[asked.row] = messages[asked.row]
    BY <1>1, <2>1, <2>4 DEF Rows
  <2>6. \A f \in Rows : IsSent(messages'[f]) => f < asked.row
    <3>1. \A f \in Rows \ {d} : messages'[f] = messages[f]
      BY <1>1
    <3>2. \A f \in Rows : IsSent(messages[f]) => f < asked.row
      BY <2>4 DEF InBox
    <3> QED BY <2>5, <3>1, <3>2
  <2>7. InBox(asked.row)'
    BY <1>0, <2>4, <2>5, <2>6 DEF InBox
  <2> QED BY <2>4, <2>5, <2>7
<1> QED BY <1>2, <1>4

-----------------------------------------------------------------------------
(* What stamps a message: the end of a call, or a throw after it. *)
Ends(s) == SendEnds(s) \/ ReconcileThrows(s)

(* Every other step grows. *)
LEMMA NextGrows ==
  ASSUME TypeOK, RowsFit, SendsFit, Next, \A s \in Sends : ~Ends(s)
  PROVE  Grown /\ OthersTyped /\ RestTyped /\ KeepsResults
<1>1. ASSUME NEW t \in Turns, TurnStep(t)
      PROVE  Grown /\ OthersTyped /\ RestTyped /\ KeepsResults
  BY <1>1, TurnSteps, TurnRest
<1>2. CASE StaffStep
  BY <1>2, StaffSteps DEF StaffStep, Ends
<1>3. CASE FixerStep
  BY <1>3, FixerSteps
<1>4. CASE SweepStep \/ Restart
  BY <1>4, SweepSteps
<1> QED BY <1>1, <1>2, <1>3, <1>4 DEF Next

LEMMA EndsStamps ==
  ASSUME TypeOK, RowsFit, NEW s \in Sends, Ends(s)
  PROVE  /\ \E k \in {"sent", "failed"} : Stamps(s, k)
         /\ sending' \in [Sends -> Presses]
<1>1. CASE SendEnds(s)
  <2>1. PICK result \in {"sent", "failed"} :
          /\ sending' = [sending EXCEPT ![s] = [at |-> "settling", draft |-> 0,
                                               result |-> result, threw |-> FALSE]]
          /\ Stamps(s, result)
    BY <1>1, SendEndsStamps
  <2>2. sending' \in [Sends -> Presses]
    BY <2>1 DEF TypeOK, Presses
  <2> QED BY <2>1, <2>2
<1>2. CASE ReconcileThrows(s)
  BY <1>2, ThrowStamps, ThrowParts
<1> QED BY <1>1, <1>2 DEF Ends

LEMMA EndsTyped ==
  ASSUME TypeOK, RowsFit, NEW s \in Sends, Ends(s)
  PROVE  TypeOK'
<1>1. messages' \in [Rows -> Messages] /\ last' \in 0..MaxRows
  BY EndsStamps DEF Stamps, TypeOK
<1>2. sending' \in [Sends -> Presses]
  BY EndsStamps
<1>3. /\ held' \in Holds /\ dismissed' \in BOOLEAN
      /\ task' \in {"none", "fidelity", "escalation", "other"}
  BY ReleaseTyped DEF Ends, SendEnds, ReconcileThrows
<1>4. UNCHANGED <<turn, asked, redrafting, reviewed, reviewedHold, nudged, sweep,
                  starts, restarts>>
  BY DEF Ends, SendEnds, ReconcileThrows, reviewVars, sweepVars, bounds
<1> QED BY <1>1, <1>2, <1>3, <1>4, Kept DEF TypeOK

LEMMA EndsSees ==
  ASSUME TypeOK, RowsFit, ReviewSees, NEW s \in Sends, Ends(s)
  PROVE  ReviewSees'
<1>1. UNCHANGED asked
  BY DEF Ends, SendEnds, ReconcileThrows, reviewVars
<1> QED BY <1>1, EndsStamps, StampSees

LEMMA EndsRecords ==
  ASSUME TypeOK, RowsFit, SendsFit, RecordMatchesCarrier, NEW s \in Sends, Ends(s)
  PROVE  RowsFit' /\ SendsFit' /\ RecordMatchesCarrier'
BY SendEndsRecords, ThrowRecords DEF Ends

LEMMA NextTyped ==
  ASSUME TypeOK, RowsFit, SendsFit, Next
  PROVE  TypeOK'
<1>1. CASE \E s \in Sends : Ends(s)
  BY <1>1, EndsTyped
<1>2. CASE \A s \in Sends : ~Ends(s)
  BY <1>2, NextGrows, GrownTyped DEF OthersTyped, RestTyped, TypeOK
<1> QED BY <1>1, <1>2

-----------------------------------------------------------------------------
LEMMA ReleasePairs ==
  ASSUME NeedsReplyPaired, Release
  PROVE  NeedsReplyPaired'
BY DEF NeedsReplyPaired, Release, NoHold

LEMMA HoldsArePairs ==
  ASSUME NeedsReplyPaired, NEW t \in Turns,
         \/ Hold(t, "fidelity") /\ task' = "fidelity"
         \/ (Hold(t, "quality") \/ Hold(t, "truncated")) /\ UNCHANGED task
  PROVE  NeedsReplyPaired'
BY DEF NeedsReplyPaired, Hold, NoHold

LEMMA SamePairs ==
  ASSUME NeedsReplyPaired, UNCHANGED heldVars
  PROVE  NeedsReplyPaired'
BY DEF NeedsReplyPaired, heldVars

LEMMA TurnPairs ==
  ASSUME NeedsReplyPaired, NEW t \in Turns, TurnStep(t)
  PROVE  NeedsReplyPaired'
<1>1. CASE \/ TextArrives(t) \/ Begins(t) \/ Supersedes(t) \/ LeavesItToStaff(t)
           \/ EndsWithoutDraft(t) \/ SkipsTheGate(t) \/ EntersTheGate(t)
           \/ ScorerPasses(t) \/ Stores(t)
  <2>1. UNCHANGED heldVars
    BY <1>1 DEF TextArrives, Begins, Opens, Supersedes, LeavesItToStaff,
                EndsWithoutDraft, SkipsTheGate, EntersTheGate, ScorerPasses,
                Stores, heldVars
  <2> QED BY <2>1, SamePairs
<1>2. CASE HoldsTruncated(t) \/ JudgeHolds(t) \/ ScorerHolds(t)
  BY <1>2, HoldsArePairs DEF HoldsTruncated, JudgeHolds, ScorerHolds
<1>3. CASE JudgePasses(t)
  BY <1>3, ReleasePairs DEF JudgePasses
<1> QED BY <1>1, <1>2, <1>3 DEF TurnStep

LEMMA StaffPairs ==
  ASSUME NeedsReplyPaired, StaffStep
  PROVE  NeedsReplyPaired'
<1>1. CASE SaveDraft \/ \E s \in Sends : Ends(s)
  BY <1>1, ReleasePairs DEF SaveDraft, SaveOperatorDraft, Ends, SendEnds,
                            ReconcileThrows
<1>2. CASE ClearDrafts \/ RateDown \/ \E s \in Sends : PressSend(s) \/ SendSettles(s)
  <2>1. UNCHANGED heldVars
    BY <1>2 DEF ClearDrafts, RateDown, PressSend, SendSettles, heldVars
  <2> QED BY <2>1, SamePairs
<1>3. CASE RateDownStale \/ OtherTask \/ TaskDone
  BY <1>3 DEF RateDownStale, OtherTask, TaskDone, NeedsReplyPaired
<1> QED BY <1>1, <1>2, <1>3 DEF StaffStep, Ends

LEMMA NextPairs ==
  ASSUME TypeOK, NeedsReplyPaired, Next
  PROVE  NeedsReplyPaired'
<1>1. CASE FixerStep
  <2>1. UNCHANGED heldVars \/ Release
    BY <1>1 DEF FixerStep, ReviewPicksDraft, ReviewPicksHold, ReviewAnswers,
                ReviewFails, RedraftEnds, SaveOperatorDraft, heldVars
  <2> QED BY <2>1, SamePairs, ReleasePairs
<1>2. CASE SweepReads \/ NudgeExpires \/ Restart
  <2>1. UNCHANGED heldVars
    BY <1>2 DEF SweepReads, NudgeExpires, Restart, heldVars
  <2> QED BY <2>1, SamePairs
<1>3. CASE SweepActs
  BY <1>3 DEF SweepActs, NeedsReplyPaired, NoHold
<1>4. CASE HoldAges
  <2>1. /\ held'.kind = held.kind /\ held.kind # "none" /\ UNCHANGED <<task, dismissed>>
    BY <1>4 DEF HoldAges, TypeOK, Holds
  <2>2. held' # NoHold
    BY <2>1 DEF NoHold
  <2> QED BY <2>1, <2>2 DEF NeedsReplyPaired
<1> QED BY <1>1, <1>2, <1>3, <1>4, TurnPairs, StaffPairs DEF Next, SweepStep

LEMMA InitPaired ==
  ASSUME Init
  PROVE  Paired
<1>1. TypeOK
  <2>1. messages \in [Rows -> Messages] /\ held \in Holds
    BY DraftTyped DEF Init, Holds, NoHold
  <2>2. turn \in [Turns -> [at : Stages, discard : BOOLEAN]]
    BY DEF Init, Stages
  <2>3. sending \in [Sends -> Presses]
    BY DEF Init, Presses
  <2>4. asked \in [row : 0..MaxRows, hold : 0..MaxTurns, last : 0..MaxRows]
    BY DEF Init, Idle
  <2>5. /\ last \in 0..MaxRows /\ reviewed \in 0..MaxRows
        /\ reviewedHold \in 0..MaxTurns
        /\ starts \in 0..MaxStarts /\ restarts \in 0..MaxRestarts
    BY DEF Init
  <2>6. /\ task \in {"none", "fidelity", "escalation", "other"}
        /\ nudged \in BOOLEAN /\ redrafting \in BOOLEAN /\ dismissed \in BOOLEAN
        /\ sweep \in {"idle", "clear", "open"}
    BY DEF Init
  <2> QED BY <2>1, <2>2, <2>3, <2>4, <2>5, <2>6 DEF TypeOK
<1>2. RowsFit
  BY DEF Init, RowsFit, NoMessage, IsSent
<1>3. SendsFit
  BY DEF Init, SendsFit
<1>4. RecordMatchesCarrier
  BY RowsAreNumbers DEF Init, RecordMatchesCarrier, Says, NoMessage
<1>5. NeedsReplyPaired
  BY DEF Init, NeedsReplyPaired, NoHold
<1>6. ReviewSees
  BY DEF Init, ReviewSees
<1> QED BY <1>1, <1>2, <1>3, <1>4, <1>5, <1>6 DEF Paired

-----------------------------------------------------------------------------
(* What the review is asked changes only when it picks or ends. *)
LEMMA AskedStays ==
  ASSUME TypeOK, RowsFit, Next, ~ReviewPicksDraft, ~ReviewPicksHold
  PROVE  UNCHANGED asked \/ asked' = Idle
<1>1. ASSUME NEW t \in Turns, TurnStep(t)
      PROVE  UNCHANGED asked
  BY <1>1, TurnSteps DEF reviewVars
<1>2. CASE StaffStep
  BY <1>2 DEF StaffStep, SaveDraft, ClearDrafts, RateDown, RateDownStale,
              OtherTask, TaskDone, PressSend, SendEnds, SendSettles,
              ReconcileThrows, reviewVars
<1>3. CASE ReviewAnswers \/ ReviewFails \/ RedraftEnds
  BY <1>3 DEF ReviewAnswers, Receipt, ReviewFails, RedraftEnds
<1>4. CASE SweepStep \/ Restart
  BY <1>4 DEF SweepStep, SweepReads, SweepActs, HoldAges, NudgeExpires,
              Restart, reviewVars
<1> QED BY <1>1, <1>2, <1>3, <1>4 DEF Next, FixerStep

LEMMA PickSees ==
  ASSUME TypeOK, ReviewPicksDraft \/ ReviewPicksHold
  PROVE  ReviewSees'
<1>1. UNCHANGED <<messages, last>> /\ last \in Nat
  BY DEF ReviewPicksDraft, ReviewPicksHold, convVars, TypeOK
<1>2. \A d \in Rows : InBox(d)' <=> InBox(d)
  BY <1>1 DEF InBox
<1>3. CASE ReviewPicksDraft
  <2>1. PICK d \in Rows :
          /\ Shown(d)
          /\ messages[d].by \in {"ai", "redraft"}
          /\ asked' = [row |-> d, hold |-> 0, last |-> last]
    BY <1>3 DEF ReviewPicksDraft
  <2>2. asked'.row = d /\ asked'.last = last
    BY <2>1
  <2>3. \A e \in Rows : InBox(e) => e <= d
    BY <2>1 DEF Shown
  <2>4. InBox(d)' /\ messages'[d].by # "staff"
    BY <1>1, <1>2, <2>1 DEF Shown
  <2> QED BY <1>1, <1>2, <2>2, <2>3, <2>4 DEF ReviewSees
<1>4. CASE ReviewPicksHold
  <2>1. asked'.last = last /\ \A e \in Rows : ~InBox(e)
    BY <1>4 DEF ReviewPicksHold, BoxIsEmpty
  <2> QED BY <1>1, <1>2, <2>1 DEF ReviewSees
<1> QED BY <1>3, <1>4

LEMMA NextSees ==
  ASSUME Paired, Next
  PROVE  ReviewSees'
<1> USE DEF Paired
<1>1. CASE ReviewPicksDraft \/ ReviewPicksHold
  BY <1>1, PickSees
<1>2. CASE asked' = Idle
  BY <1>2 DEF ReviewSees
<1>3. CASE \E s \in Sends : Ends(s)
  BY <1>3, EndsSees
<1>4. CASE (\A s \in Sends : ~Ends(s)) /\ UNCHANGED asked
  BY <1>4, NextGrows, GrownSees
<1> QED BY <1>1, <1>2, <1>3, <1>4, AskedStays

LEMMA NextPaired ==
  ASSUME Paired, [Next]_vars
  PROVE  Paired'
<1>1. CASE Next
  <2> USE <1>1 DEF Paired
  <2>1. TypeOK'
    BY NextTyped
  <2>2. RowsFit' /\ SendsFit' /\ RecordMatchesCarrier'
    <3>1. CASE \E s \in Sends : Ends(s)
      BY <3>1, EndsRecords
    <3>2. CASE \A s \in Sends : ~Ends(s)
      BY <3>2, NextGrows, GrownRecords
    <3> QED BY <3>1, <3>2
  <2>3. NeedsReplyPaired'
    BY NextPairs
  <2>4. ReviewSees'
    BY NextSees
  <2> QED BY <2>1, <2>2, <2>3, <2>4
<1>2. CASE UNCHANGED vars
  <2> USE <1>2 DEF vars, convVars, heldVars, reviewVars, sweepVars, bounds
  <2>1. TypeOK' = TypeOK /\ SendsFit' = SendsFit /\ NeedsReplyPaired' = NeedsReplyPaired
    BY DEF TypeOK, SendsFit, NeedsReplyPaired
  <2>2. RowsFit' = RowsFit /\ RecordMatchesCarrier' = RecordMatchesCarrier
    BY DEF RowsFit, IsSent, RecordMatchesCarrier, Says
  <2>3. ReviewSees' = ReviewSees
    BY DEF ReviewSees, InBox, IsSent
  <2> QED BY <2>1, <2>2, <2>3 DEF Paired
<1> QED BY <1>1, <1>2

LEMMA AlwaysPaired == Spec => []Paired
BY InitPaired, NextPaired, PTL DEF Spec

(* Every reachable state is well typed. *)
THEOREM DraftsTypeCorrect == Spec => []TypeOK
<1>1. Paired => TypeOK
  BY DEF Paired
<1> QED BY <1>1, AlwaysPaired, PTL

(* Each press of the send button that has ended has exactly one message    *)
(* with the carrier's answer, and one more, stamped undelivered, if and    *)
(* only if the reconciliation of an accepted text threw, however turns,    *)
(* discards, other presses and restarts fall between its steps.            *)
THEOREM AlwaysRecordMatchesCarrier == Spec => []RecordMatchesCarrier
<1>1. Paired => RecordMatchesCarrier
  BY DEF Paired
<1> QED BY <1>1, AlwaysPaired, PTL

(* The reply task and the hold of the scorer stay together in every        *)
(* reachable state.                                                        *)
THEOREM AlwaysNeedsReplyPaired == Spec => []NeedsReplyPaired
<1>1. Paired => NeedsReplyPaired
  BY DEF Paired
<1> QED BY <1>1, AlwaysPaired, PTL

-----------------------------------------------------------------------------
(* A person's draft that the review could have seen is not the one shown:  *)
(* the one shown is the one under review, which no person wrote.           *)
LEMMA ShownIsReviewed ==
  ASSUME Paired, asked # Idle, NEW d \in Rows, Shown(d), d <= asked.last
  PROVE  messages[d].by # "staff"
<1>1. InBox(d) /\ \A e \in Rows : InBox(e) => e <= d
  BY DEF Shown
<1>2. /\ asked.row \in Rows /\ d <= asked.row
      /\ InBox(asked.row) /\ messages[asked.row].by # "staff"
  BY <1>1 DEF Paired, ReviewSees
<1>3. d = asked.row
  BY <1>1, <1>2 DEF Rows
<1> QED BY <1>2, <1>3

(* Whatever happens while the second opinion is out, its answer takes no   *)
(* draft of a person out of the box that was there when it was asked.      *)
THEOREM AlwaysWordsOfStaffStay == Spec => WordsOfStaffStay
<1>1. ASSUME Paired, asked # Idle, NEW d \in Rows, Shown(d),
             messages[d].by = "staff"
      PROVE  d > asked.last
  <2>1. ~(d <= asked.last)
    BY <1>1, ShownIsReviewed
  <2>2. asked.last \in Nat /\ d \in Nat
    BY <1>1 DEF Paired, TypeOK, Rows
  <2> QED BY <2>1, <2>2
<1>2. Paired /\ [Next]_vars =>
        [asked # Idle /\ asked' = Idle =>
           \A d \in Rows :
             (Shown(d) /\ messages[d].by = "staff" /\ messages'[d].kind = "stale")
               => d > asked.last]_vars
  BY <1>1
<1> QED BY <1>2, AlwaysPaired, PTL DEF Spec, WordsOfStaffStay

-----------------------------------------------------------------------------
LEMMA ThinnedBox ==
  ASSUME RowsFit, Thinned(messages')
  PROVE  BoxIsEmpty => BoxIsEmpty'
<1>1. ASSUME NEW d \in Rows, InBox(d)'
      PROVE  InBox(d)
  <2>1. messages'[d].kind = "draft" /\ \A e \in Rows : IsSent(messages'[e]) => e < d
    BY <1>1 DEF InBox
  <2>2. \A e \in Rows : IsSent(messages[e]) => messages'[e] = messages[e]
    BY DEF Thinned, IsSent
  <2>3. messages[d].kind = "draft"
    BY <2>1 DEF Thinned
  <2> QED BY <2>1, <2>2, <2>3 DEF InBox
<1> QED BY <1>1 DEF BoxIsEmpty

LEMMA DiscardEmpties ==
  ASSUME TypeOK, RowsFit, Discard
  PROVE  BoxIsEmpty'
<1>1. messages' = PendingDiscarded
  BY DEF Discard
<1>2. Thinned(messages')
  BY <1>1, DiscardThins
<1>3. ASSUME NEW d \in Rows, InBox(d)'
      PROVE  FALSE
  <2>1. messages'[d].kind = "draft" /\ \A e \in Rows : IsSent(messages'[e]) => e < d
    BY <1>3 DEF InBox
  <2>2. \A e \in Rows : IsSent(messages[e]) => messages'[e] = messages[e]
    BY <1>2 DEF Thinned, IsSent
  <2>3. messages[d].kind = "draft"
    BY <1>2, <2>1 DEF Thinned
  <2>4. InBox(d)
    BY <2>1, <2>2, <2>3 DEF InBox
  <2>5. messages'[d].kind = "stale"
    BY <1>1, <2>4 DEF PendingDiscarded, TypeOK, Messages
  <2> QED BY <2>1, <2>5
<1> QED BY <1>3 DEF BoxIsEmpty

(* A step that stores no draft and holds no turn brings neither. *)
LEMMA NothingNew ==
  ASSUME RowsFit, Thinned(messages'), held' # NoHold => held # NoHold
  PROVE  HoldAndDraft' => HoldAndDraft
BY ThinnedBox DEF HoldAndDraft

LEMMA TurnAlone ==
  ASSUME TypeOK, RowsFit, NEW t \in Turns, TurnStep(t), ~Stores(t)
  PROVE  HoldAndDraft' => HoldAndDraft
<1>1. CASE HoldsTruncated(t) \/ JudgeHolds(t) \/ ScorerHolds(t)
  <2>1. Discard
    BY <1>1 DEF HoldsTruncated, JudgeHolds, ScorerHolds, Hold
  <2> QED BY <2>1, DiscardEmpties DEF HoldAndDraft
<1>2. CASE JudgePasses(t)
  BY <1>2 DEF JudgePasses, Release, HoldAndDraft, NoHold
<1>3. CASE Supersedes(t) \/ EndsWithoutDraft(t)
  <2>1. (Discard \/ UNCHANGED convVars) /\ UNCHANGED heldVars
    BY <1>3 DEF Supersedes, EndsWithoutDraft
  <2>2. Thinned(messages')
    BY <2>1, DiscardThins, UnchangedThins DEF Discard, convVars
  <2> QED BY <2>1, <2>2, NothingNew DEF heldVars
<1>4. CASE \/ TextArrives(t) \/ Begins(t) \/ LeavesItToStaff(t)
           \/ SkipsTheGate(t) \/ EntersTheGate(t) \/ ScorerPasses(t)
  <2>1. UNCHANGED <<convVars, heldVars>>
    BY <1>4 DEF TextArrives, Begins, Opens, LeavesItToStaff, SkipsTheGate,
                EntersTheGate, ScorerPasses
  <2>2. Thinned(messages')
    BY <2>1, UnchangedThins DEF convVars
  <2> QED BY <2>1, <2>2, NothingNew DEF heldVars
<1> QED BY <1>1, <1>2, <1>3, <1>4 DEF TurnStep

LEMMA StaffAlone ==
  ASSUME TypeOK, RowsFit, StaffStep
  PROVE  HoldAndDraft' => HoldAndDraft
<1>1. CASE SaveDraft \/ \E s \in Sends : SendEnds(s) \/ ReconcileThrows(s)
  BY <1>1 DEF SaveDraft, SaveOperatorDraft, SendEnds, ReconcileThrows, Release,
              HoldAndDraft
<1>2. CASE ClearDrafts \/ \E s \in Sends : SendSettles(s)
  <2>1. Thinned(messages') /\ UNCHANGED heldVars
    BY <1>2, ClearThins DEF ClearDrafts, SendSettles
  <2> QED BY <2>1, NothingNew DEF heldVars
<1>3. CASE \/ RateDown \/ RateDownStale \/ OtherTask \/ TaskDone
           \/ \E s \in Sends : PressSend(s)
  <2>1. UNCHANGED convVars /\ UNCHANGED held
    BY <1>3 DEF RateDown, RateDownStale, OtherTask, TaskDone, PressSend, heldVars
  <2>2. Thinned(messages')
    BY <2>1, UnchangedThins DEF convVars
  <2> QED BY <2>1, <2>2, NothingNew
<1> QED BY <1>1, <1>2, <1>3 DEF StaffStep

LEMMA OthersAlone ==
  ASSUME TypeOK, RowsFit, FixerStep \/ SweepStep \/ Restart
  PROVE  HoldAndDraft' => HoldAndDraft
<1>1. CASE held' = NoHold
  BY <1>1 DEF HoldAndDraft
<1>2. CASE held' # NoHold
  <2>1. FixerStep => UNCHANGED convVars /\ UNCHANGED held
    BY <1>2 DEF FixerStep, ReviewPicksDraft, ReviewPicksHold, ReviewAnswers,
                ReviewFails, RedraftEnds, SaveOperatorDraft, Release, heldVars
  <2>2. SweepStep \/ Restart => UNCHANGED convVars /\ held # NoHold
    BY <1>2 DEF SweepStep, SweepReads, SweepActs, HoldAges, NudgeExpires,
                Restart, heldVars, NoHold
  <2>3. Thinned(messages')
    BY <2>1, <2>2, UnchangedThins DEF convVars
  <2> QED BY <1>2, <2>1, <2>2, <2>3, NothingNew
<1> QED BY <1>1, <1>2

(* A hold and a draft that can be sent come together only when a turn      *)
(* stores its answer: no other writer of the conversation, in any order,   *)
(* puts a draft beside a hold or a hold beside a draft.                    *)
THEOREM AlwaysHoldStandsAlone == Spec => HoldStandsAlone
<1>1. ASSUME TypeOK, NEW t \in Turns, Stores(t)
      PROVE  turn[t].at \in {"offering", "storing"} /\ turn'[t].at = "over"
  BY <1>1 DEF Stores, Moves, TypeOK
<1>2. ASSUME Paired, Next, ~HoldAndDraft, HoldAndDraft'
      PROVE  \E t \in Turns : turn[t].at \in {"offering", "storing"}
                              /\ turn'[t].at = "over"
  <2>1. PICK t \in Turns : Stores(t)
    BY <1>2, TurnAlone, StaffAlone, OthersAlone DEF Next, Paired
  <2> QED BY <1>1, <1>2, <2>1 DEF Paired
<1>3. Paired /\ [Next]_vars =>
        [~HoldAndDraft /\ HoldAndDraft' =>
           \E t \in Turns : /\ turn[t].at \in {"offering", "storing"}
                            /\ turn'[t].at = "over"]_vars
  BY <1>2
<1> QED BY <1>3, AlwaysPaired, PTL DEF Spec, HoldStandsAlone

=============================================================================
