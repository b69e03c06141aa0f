------------------------ MODULE FollowUpCadenceProofs ------------------------
(***************************************************************************)
(* The safety properties of FollowUpCadence for every length of the        *)
(* ladders.  IndInv adds to them what makes them inductive: the rung a     *)
(* sweep is working on is not behind the chase, and a lead that is off     *)
(* limits while a touch is under way has not got one since.                *)
(***************************************************************************)
EXTENDS FollowUpCadence, TLAPS

(* A chase as every verb leaves it.                                        *)
Sound(c) ==
  /\ c \in Chases
  /\ c.kind = "none" <=> c.status = "none"
  /\ c.due # "none" => Active(c)
  /\ ~c.excused => c.spent = Below(c.step)

(* A verb keeps the place on the ladder, or starts a ladder.               *)
Keeps(c, d) == d.step = 0 \/ (d.step = c.step /\ d.excused = c.excused)

(* An owner sequence has its sale or is at rest, and a verb that follows   *)
(* does not set a chase going that was stopped.                            *)
Entitled(c) == c.kind = "post_sale" => sold \/ c.status = "stopped"

Follows(c, d) == d.kind = c.kind /\ (c.status = "stopped" => d.status = "stopped")

USE DEF Entitled, Follows

RungIsAhead == TouchUnderWay /\ ~chase.excused => chase.step <= sweep.rung

LateExplained ==
  /\ late \in 0 .. 1
  /\ ~OffLimits => late = 0
  /\ TouchUnderWay => late = 0

IndInv ==
  /\ TypeOK
  /\ LadderIsSpent
  /\ OwnerSequenceHasSale
  /\ RungIsAhead
  /\ LateExplained

-----------------------------------------------------------------------------
(* The verbs.                                                              *)

LEMMA TypeIsSound == TypeOK /\ LadderIsSpent => Sound(chase)
  BY DEF TypeOK, LadderIsSpent, Sound

LEMMA NothingBelowZero == Below(0) = {} /\ 0 \in 0 .. Rungs /\ {} \in SUBSET RungSet
  BY RungsAssumption DEF Below, RungSet

LEMMA NoChaseSound == Sound(NoChase) /\ NoChase.kind = "none" /\ NoChase.step = 0
  BY NothingBelowZero DEF Sound, NoChase, Chases, Active

LEMMA StartedSound ==
  ASSUME NEW k \in {"sales", "long_term", "post_sale"},
         NEW r \in RungSet, NEW b \in BOOLEAN
  PROVE  /\ Sound(StartedAt(k, r, b))
         /\ StartedAt(k, r, b).kind = k
         /\ StartedAt(k, r, b).step = r
  <1>1. r \in 0 .. Rungs /\ Below(r) \in SUBSET RungSet
    BY RungsAssumption DEF Below, RungSet
  <1>2. StartedAt(k, r, b) \in Chases
    BY <1>1 DEF StartedAt, Chases
  <1> QED  BY <1>2 DEF StartedAt, Sound, Active

LEMMA NewChaseSound ==
  ASSUME NEW k \in {"sales", "long_term", "post_sale"}
  PROVE  Sound(NewChase(k)) /\ NewChase(k).kind = k /\ NewChase(k).step = 0
  <1>1. 0 \in RungSet /\ FALSE \in BOOLEAN  BY RungsAssumption DEF RungSet
  <1> DEFINE c == StartedAt(k, 0, FALSE)
  <1>2. Sound(c)  BY <1>1, StartedSound
  <1>3. c.kind = k /\ c.step = 0  BY DEF StartedAt
  <1> QED  BY <1>2, <1>3 DEF NewChase

LEMMA OwnerSound ==
  ASSUME NEW r \in RungSet, NEW b \in BOOLEAN
  PROVE  Sound(Owner(r, b)) /\ Owner(r, b).kind = "post_sale" /\ Owner(r, b).step = r
  BY StartedSound DEF Owner

LEMMA HaltedSound ==
  ASSUME NEW c, Sound(c), NEW b \in BOOLEAN
  PROVE  /\ Sound(Halted(c, b)) /\ Keeps(c, Halted(c, b))
         /\ Follows(c, Halted(c, b)) /\ ~Active(Halted(c, b))
         /\ c.kind # "none" => Halted(c, b).status = "stopped"
  <1>1. CASE c.kind = "none"
    BY <1>1 DEF Halted, Sound, Keeps, Active
  <1>2. CASE c.kind # "none"
    <2>1. Halted(c, b) \in Chases  BY <1>2 DEF Halted, Sound, Chases
    <2> QED  BY <1>2, <2>1 DEF Halted, Sound, Keeps, Active, Chases
  <1> QED  BY <1>1, <1>2

LEMMA StoppedSound ==
  ASSUME NEW c, Sound(c)
  PROVE  /\ Sound(StoppedForHandoff(c)) /\ Keeps(c, StoppedForHandoff(c))
         /\ Follows(c, StoppedForHandoff(c))
  BY HaltedSound DEF StoppedForHandoff, Keeps

LEMMA ClosedSound ==
  ASSUME NEW c, Sound(c), NEW b \in BOOLEAN
  PROVE  Sound(Closed(c, b)) /\ Keeps(c, Closed(c, b)) /\ Follows(c, Closed(c, b))
  BY HaltedSound DEF Closed, Keeps

LEMMA LaterSound ==
  ASSUME NEW c, Sound(c), Active(c), NEW d \in {"later", "due"}
  PROVE  /\ Sound([c EXCEPT !.due = d]) /\ Keeps(c, [c EXCEPT !.due = d])
         /\ Follows(c, [c EXCEPT !.due = d])
  BY DEF Sound, Keeps, Active, Chases

LEMMA RevivedSound ==
  ASSUME NEW c, Sound(c), c.status = "stopped", NEW b \in BOOLEAN
  PROVE  LET d == [c EXCEPT !.status = "active", !.due = "later", !.booked = b]
         IN  Sound(d) /\ Keeps(c, d) /\ d.kind = c.kind
  BY DEF Sound, Keeps, Active, Chases

LEMMA ExcuseSound ==
  ASSUME NEW c, Sound(c), sweep.rung \in Nat
  PROVE  Sound(Excuse(Spend(c))) /\ Follows(c, Excuse(Spend(c)))
  <1>1. CASE c.kind = "none"
    BY <1>1 DEF Excuse, Spend
  <1>2. CASE c.kind # "none"
    <2>1. Excuse(Spend(c)) = [c EXCEPT !.spent = c.spent \cup ({sweep.rung} \cap RungSet),
                                       !.excused = TRUE]
      BY <1>2 DEF Excuse, Spend, Sound, Chases
    <2> QED  BY <2>1 DEF Sound, Active, Chases
  <1> QED  BY <1>1, <1>2

(* A touch that ends uses its rung up and leaves the chase on the next.    *)
LEMMA AdvancedExcused ==
  ASSUME NEW c, Sound(c), c.excused, NEW e \in BOOLEAN
  PROVE  Sound(Advanced(c, e)) /\ Follows(c, Advanced(c, e))
  <1>1. CASE ~Active(c)
    BY <1>1 DEF Advanced
  <1>2. CASE Active(c)
    <2>1. NextStep(c) \in 0 .. Rungs
      BY RungsAssumption DEF NextStep, Sound, Chases
    <2>2. Advanced(c, e) \in Chases
      BY <1>2, <2>1 DEF Advanced, Sound, Chases
    <2>3. /\ Follows(c, Advanced(c, e)) /\ Advanced(c, e).excused
          /\ c.kind # "none" /\ Advanced(c, e).status \in {"active", "completed"}
          /\ Advanced(c, e).due # "none" => Advanced(c, e).status = "active"
      BY <1>2 DEF Advanced, Sound, Active, Chases
    <2> QED  BY <2>2, <2>3 DEF Sound, Active
  <1> QED  BY <1>1, <1>2

LEMMA AdvancedSound ==
  ASSUME NEW c, Sound(c), sweep.rung \in Nat, NEW e \in BOOLEAN
  PROVE  Sound(Advanced(Spend(c), e)) /\ Follows(c, Advanced(Spend(c), e))
  <1>1. CASE c.kind = "none"
    BY <1>1 DEF Spend, Advanced, Sound, Active
  <1>2. CASE c.kind # "none" /\ (c.excused \/ ~Active(c) \/ c.step # sweep.rung)
    <2>1. Spend(c) = [c EXCEPT !.spent = c.spent \cup ({sweep.rung} \cap RungSet),
                               !.excused = TRUE]
      BY <1>2 DEF Spend, Sound, Chases
    <2>2. Sound(Spend(c)) /\ Spend(c).excused /\ Follows(c, Spend(c))
      BY <2>1 DEF Sound, Active, Chases
    <2> QED  BY <2>2, AdvancedExcused
  <1>3. CASE c.kind # "none" /\ ~c.excused /\ Active(c) /\ c.step = sweep.rung
    <2> DEFINE n == NextStep(c)
               d == Advanced(Spend(c), e)
    <2>1. Spend(c) = [c EXCEPT !.spent = Below(c.step) \cup ({c.step} \cap RungSet),
                               !.excused = FALSE]
      BY <1>3 DEF Spend, Sound, Chases
    <2>2. n \in 0 .. Rungs /\ Below(c.step) \cup ({c.step} \cap RungSet) = Below(n)
      BY RungsAssumption DEF NextStep, Sound, Chases, Below, RungSet
    <2>3. Below(n) \in SUBSET RungSet
      BY DEF Below
    <2>4. Active(Spend(c)) /\ NextStep(Spend(c)) = n
      BY <1>3, <2>1 DEF Sound, Chases, Active, NextStep
    <2>5. \/ d = [Spend(c) EXCEPT !.step = n, !.status = "completed", !.due = "none"]
          \/ d = [Spend(c) EXCEPT !.step = n, !.due = "later"]
      BY <2>4 DEF Advanced
    <2>8. Spend(c) \in Chases
      BY <2>1, <2>2, <2>3 DEF Sound, Chases
    <2>6. d \in Chases
      BY <2>2, <2>5, <2>8 DEF Chases
    <2>7. /\ Follows(c, d) /\ d.step = n /\ d.spent = Below(n) /\ ~d.excused
          /\ \/ d.status = "completed" /\ d.due = "none"
             \/ d.status = "active" /\ d.due = "later"
      BY <1>3, <2>1, <2>2, <2>5 DEF Sound, Chases, Active
    <2> QED  BY <1>3, <2>6, <2>7 DEF Sound, Active
  <1> QED  BY <1>1, <1>2, <1>3 DEF Sound, Chases

(* The reconcile of a sold lead.                                           *)
LEMMA ReconciledSound ==
  ASSUME TypeOK, Sound(chase), OwnerSequenceHasSale
  PROVE  /\ Sound(Reconciled(chase))
         /\ Entitled(Reconciled(chase))
  <1>1. CASE NeedsOwnerSequence(chase) /\ elapsed < Rungs
    <2>1. elapsed \in RungSet
      BY <1>1, RungsAssumption DEF TypeOK, RungSet
    <2>2. Sound(Owner(elapsed, TRUE))  BY <2>1, OwnerSound
    <2>3. Reconciled(chase) = Owner(elapsed, TRUE) /\ sold
      BY <1>1 DEF Reconciled, NeedsOwnerSequence
    <2> QED  BY <2>2, <2>3
  <1>2. CASE ~(NeedsOwnerSequence(chase) /\ elapsed < Rungs)
    <2>1. Reconciled(chase) = chase \/ Reconciled(chase) = Halted(chase, FALSE)
      BY <1>2 DEF Reconciled, NeedsOwnerSequence
    <2>2. Sound(Halted(chase, FALSE)) /\ Follows(chase, Halted(chase, FALSE))
      BY HaltedSound
    <2> QED  BY <2>1, <2>2 DEF OwnerSequenceHasSale
  <1> QED  BY <1>1, <1>2

-----------------------------------------------------------------------------
(* What a step leaves to show: the chase stays sound, an owner sequence    *)
(* has its sale, and the fields of the lead and the sweep keep their type. *)

LeadTyped ==
  /\ mode \in {"active", "manual_handoff", "paused"}
  /\ open \in BOOLEAN
  /\ sold \in BOOLEAN
  /\ elapsed \in 0 .. Rungs
  /\ selling \in {"no", "first", "again"}
  /\ doNotText \in {"no", "suppressed", "call_only"}
  /\ todo \in BOOLEAN
  /\ inbound \in {"old", "fresh", "new"}
  /\ sweep \in Sweeps

ChaseKept == Sound(chase) /\ Entitled(chase)

Good == LeadTyped /\ ChaseKept

LEMMA GoodIsType == TypeOK /\ LadderIsSpent /\ OwnerSequenceHasSale => Good
  BY TypeIsSound DEF TypeOK, OwnerSequenceHasSale, Good, LeadTyped, ChaseKept

LEMMA TypeOfGood ==
  Good /\ late \in 0 .. 1 => TypeOK /\ LadderIsSpent /\ OwnerSequenceHasSale
  BY DEF TypeOK, LadderIsSpent, OwnerSequenceHasSale, Good, LeadTyped, ChaseKept, Sound

LEMMA RestingTyped == Resting \in Sweeps
  BY RungsAssumption DEF Resting, Sweeps

LEMMA InitGood == Init => Good
  BY NoChaseSound, NothingBelowZero, RestingTyped
  DEF Init, Good, LeadTyped, ChaseKept

(* The sweep leaves the lead with a chase that is sound.                   *)
LEMMA LeaveGood ==
  ASSUME Good, NEW c, Sound(c), Entitled(c), LeaveLead(c)
  PROVE  Good'
  BY RestingTyped DEF Good, LeadTyped, ChaseKept, LeaveLead, leadVars, Sound,
                      Chases, Active, Below, RungSet

LEMMA RungTyped == Good => sweep.rung \in Nat
  BY RungsAssumption DEF Good, LeadTyped, Sweeps

LEMMA MoveOnGood ==
  ASSUME Good, NEW c, Sound(c), Entitled(c)
  PROVE  (MoveOn(Spend(c)) => Good') /\ (MoveOn(Excuse(Spend(c))) => Good')
  <1>1. ASSUME MoveOn(Spend(c)) PROVE Good'
    <2>1. PICK e \in BOOLEAN : LeaveLead(Advanced(Spend(c), e))
      BY <1>1 DEF MoveOn
    <2> QED  BY <2>1, RungTyped, AdvancedSound, LeaveGood
  <1>2. ASSUME MoveOn(Excuse(Spend(c))) PROVE Good'
    <2>1. PICK e \in BOOLEAN : LeaveLead(Advanced(Excuse(Spend(c)), e))
      BY <1>2 DEF MoveOn
    <2>2. Sound(Excuse(Spend(c))) /\ Follows(c, Excuse(Spend(c)))
      BY RungTyped, ExcuseSound
    <2>3. CASE Excuse(Spend(c)).excused
      BY <2>1, <2>2, <2>3, AdvancedExcused, LeaveGood
    <2>4. CASE ~Excuse(Spend(c)).excused
      <3>1. c.kind = "none"
        BY <2>4 DEF Excuse, Spend, Sound, Chases
      <3>2. Advanced(Excuse(Spend(c)), e) = c
        BY <3>1 DEF Excuse, Spend, Advanced, Active, Sound
      <3> QED  BY <2>1, <3>2, LeaveGood
    <2> QED  BY <2>3, <2>4
  <1> QED  BY <1>1, <1>2

-----------------------------------------------------------------------------
(* The steps of the sweep.                                                 *)

LEMMA SweepGood ==
  ASSUME Good, TypeOK, OwnerSequenceHasSale, Sweep
  PROVE  Good'
  <1> DEFINE c == Reconciled(chase)
  <1>1. Sound(c) /\ Entitled(c)
    BY ReconciledSound DEF Good, ChaseKept
  <1>2. Sound(Halted(c, FALSE)) /\ Follows(c, Halted(c, FALSE))
    BY <1>1, HaltedSound
  <1>3. Sound(Halted(c, TRUE)) /\ Follows(c, Halted(c, TRUE))
    BY <1>1, HaltedSound
  <1>4. Sound(chase) /\ Entitled(chase)
    BY DEF Good, ChaseKept
  <1>5. CASE SweepBegins
    <2>1. Sound(chase') /\ Entitled(chase)'
      BY <1>4, <1>5, StoppedSound DEF SweepBegins, leadVars
    <2>2. sweep' \in Sweeps
      BY <1>5, RungsAssumption DEF SweepBegins, Sweeps, Good, LeadTyped
    <2> QED
      BY <1>5, <2>1, <2>2
      DEF SweepBegins, Good, LeadTyped, ChaseKept, leadVars, Sound, Chases,
          Active, Below, RungSet
  <1>6. CASE PassOver
    BY <1>1, <1>6, LeaveGood DEF PassOver
  <1>7. CASE StopInSweep
    BY <1>1, <1>2, <1>7, LeaveGood DEF StopInSweep
  <1>8. CASE PutOff
    <2>1. Sound([c EXCEPT !.due = "later"]) /\ Follows(c, [c EXCEPT !.due = "later"])
      BY <1>1, <1>8, LaterSound DEF PutOff, Ongoing
    <2> QED  BY <1>1, <1>8, <2>1, LeaveGood DEF PutOff
  <1>9. CASE StopForBooking
    BY <1>1, <1>3, <1>9, LeaveGood DEF StopForBooking
  <1>10. CASE Compose
    <2>1. chase' = c /\ c.step \in 0 .. Rungs
      BY <1>1, <1>10 DEF Compose, Sound, Chases
    <2>2. sweep' \in Sweeps
      BY <1>10, <2>1 DEF Compose, Sweeps, Good, LeadTyped
    <2> QED
      BY <1>1, <1>10, <2>1, <2>2
      DEF Compose, Good, LeadTyped, ChaseKept, leadVars, Sound, Chases,
          Active, Below, RungSet
  <1>11. CASE QuietRung \/ DraftTouch \/ SendReturns \/ MailFails
    BY <1>4, <1>11, MoveOnGood DEF QuietRung, DraftTouch, SendReturns, MailFails
  <1>12. CASE DropDuplicate \/ SmsFails \/ SweepThrows
    BY <1>4, <1>12, LeaveGood DEF DropDuplicate, SmsFails, SweepThrows
  <1>13. CASE AnswerLost
    <2>1. Sound(Excuse(Spend(chase))) /\ Follows(chase, Excuse(Spend(chase)))
      BY <1>4, RungTyped, ExcuseSound
    <2> QED  BY <1>4, <1>13, <2>1, LeaveGood DEF AnswerLost
  <1>14. CASE SendTouch
    <2>1. sweep' \in Sweeps
      BY <1>14 DEF SendTouch, Sweeps, Good, LeadTyped
    <2> QED
      BY <1>14, <2>1
      DEF SendTouch, Good, LeadTyped, ChaseKept, leadVars, Sound, Chases,
          Active, Below, RungSet
  <1> QED
    BY <1>5, <1>6, <1>7, <1>8, <1>9, <1>10, <1>11, <1>12, <1>13, <1>14
    DEF Sweep, Look, Finish

-----------------------------------------------------------------------------
(* The handlers, time and crashes.                                         *)

(* A handler that wrote a sound chase leaves everything as it must be.     *)
LEMMA VerbGood ==
  ASSUME Good, Sound(chase'), Entitled(chase)',
         mode' \in {"active", "manual_handoff", "paused"},
         UNCHANGED <<open, sold, elapsed, selling, doNotText, todo, inbound, sweep>>
  PROVE  Good'
  BY DEF Good, LeadTyped, ChaseKept, Sweeps, Sound, Chases, Active, Below, RungSet

LEMMA HandlerGood ==
  ASSUME Good, Handler
  PROVE  Good' /\ Keeps(chase, chase') /\ sweep' = sweep
  <1>1. Sound(chase) /\ Entitled(chase) /\ LeadTyped
    BY DEF Good, ChaseKept
  <1>2. \A b \in BOOLEAN : /\ Sound(Halted(chase, b)) /\ Keeps(chase, Halted(chase, b))
                          /\ Follows(chase, Halted(chase, b))
    BY <1>1, HaltedSound
  <1>3. CASE CustomerWrites \/ Suppress \/ SetContactPreference \/ RemoveSuppression
             \/ AddTodo \/ MarkTodoDone \/ SaleFails \/ MarkSold
    <2>1. chase' = chase /\ sweep' = sweep /\ (sold => sold')
      <3>1. CASE CustomerWrites  BY <3>1 DEF CustomerWrites
      <3>2. CASE MarkSold  BY <3>2 DEF MarkSold
      <3>3. CASE Suppress \/ SetContactPreference \/ RemoveSuppression
        BY <3>3 DEF Suppress, SetContactPreference, RemoveSuppression
      <3>4. CASE AddTodo \/ MarkTodoDone \/ SaleFails
        BY <3>4 DEF AddTodo, MarkTodoDone, SaleFails
      <3> QED  BY <1>3, <3>1, <3>2, <3>3, <3>4
    <2>2. LeadTyped'
      <3>1. /\ mode' \in {"active", "manual_handoff", "paused"}
            /\ open' \in BOOLEAN /\ sold' \in BOOLEAN /\ elapsed' \in 0 .. Rungs
            /\ selling' \in {"no", "first", "again"}
            /\ doNotText' \in {"no", "suppressed", "call_only"}
            /\ todo' \in BOOLEAN /\ inbound' \in {"old", "fresh", "new"}
        BY <1>1, <1>3, NothingBelowZero
        DEF CustomerWrites, Suppress, SetContactPreference, RemoveSuppression, AddTodo,
            MarkTodoDone, SaleFails, MarkSold, LeadTyped
      <3> QED  BY <1>1, <2>1, <3>1 DEF LeadTyped, Sweeps
    <2> QED
      BY <1>1, <2>1, <2>2 DEF Good, ChaseKept, Keeps, Sound, Chases, Active, Below, RungSet
  <1>4. CASE ResetOnInbound
    <2>1. chase.kind \in {"sales", "long_term"}
      BY <1>1, <1>4 DEF ResetOnInbound, Sound, Chases, Active
    <2>2. Sound(chase') /\ Follows(chase, chase') /\ Keeps(chase, chase')
      <3>1. CASE chase' = NewChase(chase.kind)
        BY <1>4, <2>1, <3>1, NewChaseSound DEF ResetOnInbound, Keeps, Active
      <3>2. CASE chase' = [chase EXCEPT !.due = "later"]
        BY <1>1, <1>4, <3>2, LaterSound DEF ResetOnInbound
      <3>3. CASE chase' = Halted(chase, FALSE)
        BY <1>2, <3>3
      <3> QED  BY <1>4, <3>1, <3>2, <3>3 DEF ResetOnInbound
    <2> QED  BY <1>1, <1>4, <2>2, VerbGood DEF ResetOnInbound, LeadTyped
  <1>5. CASE CloseOptedOut \/ CloseConversation \/ WalkInSold
    <2>1. /\ Sound(Closed(chase, FALSE)) /\ Keeps(chase, Closed(chase, FALSE))
          /\ Follows(chase, Closed(chase, FALSE))
      BY <1>1, ClosedSound
    <2> DEFINE d == StoppedForHandoff(chase)
    <2>2. Sound(d) /\ Keeps(chase, d) /\ Follows(chase, d)
      BY <1>1, StoppedSound
    <2>3. Sound(Closed(d, TRUE)) /\ Keeps(d, Closed(d, TRUE)) /\ Follows(d, Closed(d, TRUE))
      BY <2>2, ClosedSound
    <2>4. Sound(chase') /\ Keeps(chase, chase') /\ Follows(chase, chase')
      BY <1>2, <1>5, <2>1, <2>2, <2>3
      DEF CloseOptedOut, CloseConversation, WalkInSold, Keeps
    <2> QED
      BY <1>1, <1>5, <2>4, NothingBelowZero
      DEF CloseOptedOut, CloseConversation, WalkInSold, Good, LeadTyped, ChaseKept,
          Sound, Chases, Active, Below, RungSet, Sweeps
  <1>6. ASSUME NEW m \in {"active", "manual_handoff", "paused"}, SetFollowUpMode(m)
        PROVE  Good' /\ Keeps(chase, chase') /\ sweep' = sweep
    <2>1. Sound(chase') /\ Keeps(chase, chase') /\ Follows(chase, chase')
      BY <1>1, <1>6, StoppedSound DEF SetFollowUpMode, Keeps
    <2> QED  BY <1>1, <1>6, <2>1, VerbGood DEF SetFollowUpMode
  <1>7. CASE FinishSale
    <2>1. 0 \in RungSet  BY RungsAssumption DEF RungSet
    <2>2. /\ Sound(Owner(0, selling = "first")) /\ Owner(0, selling = "first").step = 0
      BY <2>1, OwnerSound
    <2>3. Sound(chase') /\ Keeps(chase, chase') /\ Entitled(chase)'
      BY <1>1, <1>7, <2>2 DEF FinishSale, Keeps
    <2> QED
      BY <1>1, <1>7, <2>3
      DEF FinishSale, Good, LeadTyped, ChaseKept, Sound, Chases, Active, Below,
          RungSet, Sweeps
  <1>8. CASE Reopen
    <2> DEFINE r == [chase EXCEPT !.status = "active", !.due = "later"]
    <2>1. ASSUME chase.status = "stopped"
          PROVE  Sound(r) /\ Keeps(chase, r) /\ r.kind = chase.kind
      BY <1>1, <2>1 DEF Sound, Keeps, Active, Chases
    <2>2. Sound(chase') /\ Keeps(chase, chase') /\ chase'.kind # "post_sale"
      BY <1>1, <1>8, <2>1, NoChaseSound DEF Reopen, Keeps
    <2> QED
      BY <1>1, <1>8, <2>2, NothingBelowZero
      DEF Reopen, Good, LeadTyped, ChaseKept, Sound, Chases, Active, Below, RungSet,
          Sweeps
  <1>9. CASE \/ \E kind \in {"sales", "long_term"} :
                  StartFollowUpCadence(kind) \/ ReplaceChase(kind)
             \/ ScheduleLongTerm
    <2>1. PICK kind \in {"sales", "long_term"} : chase' = NewChase(kind)
      BY <1>9 DEF StartFollowUpCadence, ReplaceChase, ScheduleLongTerm
    <2>2. Sound(chase') /\ chase'.kind = kind /\ Keeps(chase, chase')
      BY <2>1, NewChaseSound DEF Keeps
    <2> QED
      BY <1>1, <1>9, <2>2, VerbGood
      DEF StartFollowUpCadence, ReplaceChase, ScheduleLongTerm, leadVars, LeadTyped
  <1>10. CASE DeferChase
    <2> DEFINE s == [chase EXCEPT !.due = "later", !.kind = "sales"]
    <2>1. ASSUME Active(chase)
          PROVE  Sound(s) /\ Keeps(chase, s) /\ s.kind = "sales"
      BY <1>1, <2>1 DEF Sound, Keeps, Active, Chases
    <2> DEFINE t == [chase EXCEPT !.kind = "sales"]
    <2>2. ASSUME chase.status = "completed"
          PROVE  Sound(t) /\ Keeps(chase, t) /\ t.kind = "sales"
      BY <1>1, <2>2 DEF Sound, Keeps, Active, Chases
    <2>3. Sound(chase') /\ Keeps(chase, chase') /\ chase'.kind # "post_sale"
      <3> HIDE DEF s, t
      <3>1. CASE chase' \in {NoChase, NewChase("sales")}
        BY <3>1, NoChaseSound, NewChaseSound DEF Keeps
      <3>2. CASE Active(chase) /\ chase' = [chase EXCEPT !.due = "later"]
        BY <1>1, <1>10, <3>2, LaterSound DEF DeferChase, Keeps
      <3>3. CASE Active(chase) /\ chase' = s
        BY <2>1, <3>3
      <3>4. CASE chase.status = "completed" /\ chase' = t
        BY <2>2, <3>4
      <3>5. CASE chase' = chase
        BY <1>1, <1>10, <3>5 DEF DeferChase, Keeps
      <3> QED  BY <1>10, <3>1, <3>2, <3>3, <3>4, <3>5 DEF DeferChase, s, t
    <2> QED  BY <1>10, <2>3, VerbGood DEF DeferChase
  <1>11. CASE ReviveChase
    <2>1. Sound(chase') /\ Keeps(chase, chase') /\ chase'.kind # "post_sale"
      BY <1>11, NoChaseSound, NewChaseSound DEF ReviveChase, Keeps
    <2> QED  BY <1>11, <2>1, VerbGood DEF ReviveChase
  <1>12. CASE ReactivateInPlace
    <2>1. Sound(chase') /\ Keeps(chase, chase') /\ Follows(chase, chase')
      BY <1>1, <1>12 DEF ReactivateInPlace, Sound, Keeps, Active, Chases
    <2> QED  BY <1>1, <1>12, <2>1, VerbGood DEF ReactivateInPlace
  <1>13. CASE ResumeFollowUpCadence
    <2>1. Sound(chase') /\ Keeps(chase, chase') /\ chase'.kind # "post_sale"
      BY <1>1, <1>13, RevivedSound DEF ResumeFollowUpCadence
    <2> QED
      BY <1>1, <1>13, <2>1, VerbGood DEF ResumeFollowUpCadence, leadVars, LeadTyped
  <1>14. CASE PauseFollowUpCadence
    <2>1. Sound(chase') /\ Keeps(chase, chase') /\ Follows(chase, chase')
      BY <1>1, <1>14, LaterSound DEF PauseFollowUpCadence
    <2> QED
      BY <1>1, <1>14, <2>1, VerbGood DEF PauseFollowUpCadence, leadVars, LeadTyped
  <1>15. CASE AppointmentBooked \/ RelatedAppointmentBooked
    <2>1. Sound(chase') /\ Keeps(chase, chase') /\ Follows(chase, chase')
      BY <1>2, <1>15 DEF AppointmentBooked, RelatedAppointmentBooked
    <2> QED
      BY <1>1, <1>15, <2>1, VerbGood
      DEF AppointmentBooked, RelatedAppointmentBooked, leadVars, LeadTyped
  <1>16. CASE SaleReversed
    <2> DEFINE h == Halted(chase, FALSE)
               d == [h EXCEPT !.anchored = FALSE]
    <2>1. Sound(h) /\ Keeps(chase, h) /\ h.kind = chase.kind
          /\ (h.kind # "none" => h.status = "stopped")
      BY <1>1, HaltedSound
    <2>2. Sound(d) /\ Keeps(chase, d) /\ (d.kind = "post_sale" => d.status = "stopped")
      <3> HIDE DEF h
      <3> QED  BY <2>1 DEF Sound, Keeps, Active, Chases
    <2>3. /\ Sound(chase') /\ Keeps(chase, chase')
          /\ (chase'.kind = "post_sale" => chase'.status = "stopped")
      <3>1. CASE chase' = d
        BY <2>2, <3>1
      <3>2. CASE chase.kind # "post_sale" /\ chase' = chase
        BY <1>1, <3>2 DEF Keeps
      <3> QED  BY <1>16, <3>1, <3>2 DEF SaleReversed
    <2>4. LeadTyped' /\ sweep' = sweep
      <3>1. open' \in BOOLEAN /\ sold' = FALSE /\ elapsed' = 0
            /\ selling' \in {"no", "first", "again"}
            /\ mode' \in {"active", "manual_handoff", "paused"}
            /\ UNCHANGED <<doNotText, todo, inbound, sweep>>
        BY <1>1, <1>16 DEF SaleReversed, LeadTyped
      <3> QED  BY <1>1, <3>1, NothingBelowZero DEF LeadTyped, Sweeps
    <2>5. Sound(chase)'
      BY <2>3 DEF Sound, Chases, Active, Below, RungSet
    <2> QED
      BY <2>3, <2>4, <2>5 DEF Good, ChaseKept
  <1>17. CASE HoldReleased
    <2>1. /\ open' \in BOOLEAN
          /\ mode' \in {"active", "manual_handoff", "paused"}
          /\ UNCHANGED <<chase, sold, elapsed, selling, doNotText, todo, inbound, sweep>>
      BY <1>1, <1>17 DEF HoldReleased, LeadTyped
    <2> QED
      BY <1>1, <2>1
      DEF Good, LeadTyped, ChaseKept, Keeps, Sound, Chases, Active, Below, RungSet,
          Sweeps
  <1> QED
    BY <1>3, <1>4, <1>5, <1>6, <1>7, <1>8, <1>9, <1>10, <1>11, <1>12, <1>13, <1>14, <1>15,
       <1>16, <1>17
    DEF Handler

LEMMA CrashGood ==
  ASSUME Good, Crash \/ CrashAfterSend
  PROVE  Good' /\ sweep' = Resting
  <1>1. Sound(chase) /\ Entitled(chase) /\ LeadTyped
    BY DEF Good, ChaseKept
  <1>2. Sound(Excuse(Spend(chase))) /\ Follows(chase, Excuse(Spend(chase)))
    BY <1>1, RungTyped, ExcuseSound
  <1>3. ProcessDies /\ Sound(chase') /\ Follows(chase, chase')
    BY <1>1, <1>2 DEF Crash, CrashAfterSend
  <1> QED
    BY <1>1, <1>3, RestingTyped
    DEF ProcessDies, Good, LeadTyped, ChaseKept, Sound, Chases, Active, Below, RungSet

LEMMA TimeGood ==
  ASSUME Good, Time
  PROVE  Good' /\ Keeps(chase, chase') /\ sweep' = sweep
  <1>1. Sound(chase) /\ Entitled(chase) /\ LeadTyped
    BY DEF Good, ChaseKept
  <1>2. CASE FallsDue
    <2>1. Sound(chase') /\ Keeps(chase, chase') /\ Follows(chase, chase')
      BY <1>1, <1>2, LaterSound DEF FallsDue, Ongoing
    <2> QED  BY <1>1, <1>2, <2>1, VerbGood DEF FallsDue, leadVars, LeadTyped
  <1>3. CASE MessageAges
    BY <1>1, <1>3
    DEF MessageAges, leadVars, Good, LeadTyped, ChaseKept, Keeps, Sweeps, Sound,
        Chases, Active, Below, RungSet
  <1>4. CASE OffsetPasses
    <2>1. elapsed' \in 0 .. Rungs
      BY <1>1, <1>4, RungsAssumption DEF OffsetPasses, LeadTyped
    <2> QED
      BY <1>1, <1>4, <2>1
      DEF OffsetPasses, Good, LeadTyped, ChaseKept, Keeps, Sweeps, Sound,
          Chases, Active, Below, RungSet
  <1> QED  BY <1>2, <1>3, <1>4 DEF Time

-----------------------------------------------------------------------------
LEMMA SweepEnds ==
  ASSUME Sweep
  PROVE  SweepBegins \/ Compose \/ SendTouch \/ sweep' = Resting
  <1>1. \A c : LeaveLead(c) => sweep' = Resting  BY DEF LeaveLead
  <1>2. \A c : MoveOn(c) => sweep' = Resting  BY <1>1 DEF MoveOn
  <1>3. CASE QuietRung \/ DraftTouch \/ SendReturns \/ MailFails
    BY <1>2, <1>3 DEF QuietRung, DraftTouch, SendReturns, MailFails
  <1>4. CASE DropDuplicate \/ SmsFails \/ AnswerLost \/ SweepThrows
    BY <1>1, <1>4 DEF DropDuplicate, SmsFails, AnswerLost, SweepThrows
  <1>5. CASE PassOver \/ StopInSweep \/ PutOff \/ StopForBooking
    BY <1>1, <1>5 DEF PassOver, StopInSweep, PutOff, StopForBooking
  <1> QED  BY <1>3, <1>4, <1>5 DEF Sweep, Look, Finish

(* A touch begins where the chase stands, and only on a lead that may be   *)
(* texted: the guards of the sweep leave nobody off limits.                *)
LEMMA TouchBegins ==
  ASSUME Good, Sweep, ~TouchUnderWay, TouchUnderWay'
  PROVE  chase'.step = sweep'.rung /\ ~OffLimits'
  <1>1. Compose
    BY SweepEnds DEF SweepBegins, SendTouch, TouchUnderWay, Resting
  <1>2. chase' = Reconciled(chase) /\ Permitted(chase') /\ ~Held(chase')
        /\ UNCHANGED leadVars /\ sweep'.rung = chase'.step
    BY <1>1 DEF Compose, Good, LeadTyped, Sweeps
  <1>3. ~MustStop(chase') /\ ~TodoHolds(chase') /\ ~Held(chase')
    BY <1>2 DEF Permitted
  <1>4. doNotText \in {"no", "suppressed", "call_only"}
    BY DEF Good, LeadTyped
  <1>5. doNotText = "no"
    BY <1>3, <1>4 DEF MustStop
  <1>6. IF chase'.kind = "post_sale" THEN sold ELSE open /\ mode = "active"
    BY <1>3 DEF MustStop, Held
  <1> QED  BY <1>2, <1>5, <1>6 DEF OffLimits, leadVars

(* ... and while it is under way the sweep leaves the chase alone.         *)
LEMMA TouchGoesOn ==
  ASSUME Good, Sweep, TouchUnderWay, TouchUnderWay'
  PROVE  chase' = chase /\ sweep'.rung = sweep.rung
  <1>1. SendTouch
    BY SweepEnds DEF SweepBegins, Compose, TouchUnderWay, Resting
  <1> QED  BY <1>1 DEF SendTouch, Good, LeadTyped, Sweeps

LEMMA StepKinds ==
  ASSUME Good, TypeOK, OwnerSequenceHasSale, [Next]_vars
  PROVE  /\ Good'
         /\ \/ Keeps(chase, chase') /\ sweep' = sweep
            \/ sweep' = Resting
            \/ Sweep
  <1>1. CASE Sweep
    BY <1>1, SweepGood
  <1>2. CASE Crash \/ CrashAfterSend
    BY <1>2, CrashGood
  <1>3. CASE Handler
    BY <1>3, HandlerGood
  <1>4. CASE Time
    BY <1>4, TimeGood
  <1>5. CASE UNCHANGED vars
    BY <1>5
    DEF vars, leadVars, Good, LeadTyped, ChaseKept, Keeps, Sweeps, Sound, Chases,
        Active, Below, RungSet
  <1> QED  BY <1>1, <1>2, <1>3, <1>4, <1>5 DEF Next

LEMMA RungStep ==
  ASSUME Good, TypeOK, OwnerSequenceHasSale, RungIsAhead, [Next]_vars
  PROVE  RungIsAhead'
  <1>1. CASE Keeps(chase, chase') /\ sweep' = sweep
    BY <1>1, RungTyped DEF Keeps, RungIsAhead, TouchUnderWay
  <1>2. CASE sweep' = Resting
    BY <1>2 DEF Resting, RungIsAhead, TouchUnderWay
  <1>3. CASE Sweep
    <2>1. CASE TouchUnderWay
      BY <1>3, <2>1, TouchGoesOn DEF RungIsAhead
    <2>2. CASE ~TouchUnderWay
      <3>1. Good'  BY StepKinds
      <3>2. sweep'.rung \in Nat
        BY <3>1, RungsAssumption DEF Good, LeadTyped, Sweeps
      <3> QED  BY <1>3, <2>2, <3>2, TouchBegins DEF RungIsAhead
    <2> QED  BY <2>1, <2>2
  <1> QED  BY <1>1, <1>2, <1>3, StepKinds

LEMMA LateStep ==
  ASSUME Good, TypeOK, OwnerSequenceHasSale, LateExplained, [Next]_vars
  PROVE  LateExplained'
  <1>1. CASE UNCHANGED vars
    BY <1>1 DEF vars, leadVars, LateExplained, OffLimits, TouchUnderWay
  <1>2. CASE Next
    <2>1. CountLate  BY <1>2 DEF Next
    <2>2. CASE ~OffLimits'
      BY <2>1, <2>2 DEF CountLate, LateExplained
    <2>3. CASE OffLimits'
      <3>1. ASSUME ~TouchUnderWay PROVE ~TouchUnderWay'
        <4>1. CASE sweep' = sweep \/ sweep' = Resting
          BY <3>1, <4>1 DEF TouchUnderWay, Resting
        <4>2. CASE Sweep
          BY <2>3, <3>1, <4>2, TouchBegins
        <4> QED  BY <4>1, <4>2, StepKinds
      <3>2. ASSUME TouchUnderWay PROVE late = 0
        BY <3>2 DEF LateExplained
      <3>3. ASSUME TouchUnderWay' PROVE ~TouchEnds
        BY <3>3 DEF TouchUnderWay, TouchEnds
      <3>4. late' = IF TouchEnds /\ OffLimits /\ late < 2 THEN late + 1 ELSE late
        BY <2>1, <2>3 DEF CountLate
      <3>5. TouchEnds => TouchUnderWay  BY DEF TouchEnds
      <3> QED  BY <2>3, <3>1, <3>2, <3>3, <3>4, <3>5 DEF LateExplained
    <2> QED  BY <2>2, <2>3
  <1> QED  BY <1>1, <1>2

-----------------------------------------------------------------------------
LEMMA IndInvInit == Init => IndInv
  <1> SUFFICES ASSUME Init PROVE IndInv  OBVIOUS
  <1>1. Good /\ late \in 0 .. 1 /\ late = 0  BY InitGood DEF Init
  <1>2. ~TouchUnderWay  BY DEF Init, Resting, TouchUnderWay
  <1> QED  BY <1>1, <1>2, TypeOfGood DEF IndInv, RungIsAhead, LateExplained

LEMMA IndInvStep == IndInv /\ [Next]_vars => IndInv'
  <1> SUFFICES ASSUME IndInv, [Next]_vars PROVE IndInv'  OBVIOUS
  <1>1. Good /\ TypeOK /\ OwnerSequenceHasSale  BY GoodIsType DEF IndInv
  <1>2. Good'  BY <1>1, StepKinds
  <1>3. RungIsAhead'  BY <1>1, RungStep DEF IndInv
  <1>4. LateExplained'  BY <1>1, LateStep DEF IndInv
  <1>5. TypeOK' /\ LadderIsSpent' /\ OwnerSequenceHasSale'
    BY <1>2, <1>4
    DEF TypeOK, LadderIsSpent, OwnerSequenceHasSale, Good, LeadTyped, ChaseKept, Sound,
        LateExplained, Chases, Active, Below, RungSet, Sweeps
  <1> QED  BY <1>3, <1>4, <1>5 DEF IndInv

LEMMA IndInvCorrect == Spec => []IndInv
  <1> QED  BY IndInvInit, IndInvStep, PTL DEF Spec

(* Every variable keeps its type, through every interleaving of the sweep, *)
(* the handlers and crashes; a date belongs to an active chase.            *)
THEOREM TypeCorrect == Spec => []TypeOK
  <1>1. IndInv => TypeOK  BY DEF IndInv
  <1> QED  BY <1>1, IndInvCorrect, PTL

(* The guards of processDueFollowUpsUnlocked: whenever and in whatever     *)
(* order a lead opts out, is closed, paused or handed off, at most the one *)
(* touch that was under way still ends.                                    *)
THEOREM AtMostOneLateTouchCorrect == Spec => []AtMostOneLateTouch
  <1>1. IndInv => AtMostOneLateTouch
    BY DEF IndInv, LateExplained, AtMostOneLateTouch
  <1> QED  BY <1>1, IndInvCorrect, PTL

(* advanceFollowUpCadence and the verbs around it keep the step of a chase *)
(* on the first rung it has not used up, for ladders of every length.      *)
THEOREM LadderIsSpentCorrect == Spec => []LadderIsSpent
  <1>1. IndInv => LadderIsSpent  BY DEF IndInv
  <1> QED  BY <1>1, IndInvCorrect, PTL

(* Whenever a sale is undone, by the staff endpoint or by marking its unit *)
(* available, between the two halves of a sold handler or after them, the  *)
(* owner sequence of the lead is gone or at rest.                          *)
THEOREM OwnerSequenceHasSaleCorrect == Spec => []OwnerSequenceHasSale
  <1>1. IndInv => OwnerSequenceHasSale  BY DEF IndInv
  <1> QED  BY <1>1, IndInvCorrect, PTL

(* A rung that is used up is attempted again only after a lost answer or   *)
(* when the chase was stopped or replaced under the sweep.                 *)
THEOREM RungTwiceHasReasonCorrect == Spec => RungTwiceHasReason
  <1>1. ASSUME IndInv, [Next]_vars
        PROVE  [TouchEnds /\ sweep.rung \in chase.spent => chase.excused]_vars
    <2> SUFFICES ASSUME TouchEnds, sweep.rung \in chase.spent, ~chase.excused
                 PROVE  FALSE
      OBVIOUS
    <2>1. chase.spent = Below(chase.step)  BY <1>1 DEF IndInv, LadderIsSpent
    <2>2. chase.step <= sweep.rung
      BY <1>1 DEF IndInv, RungIsAhead, TouchEnds
    <2>3. chase.step \in Nat /\ sweep.rung \in Nat
      BY <1>1, RungsAssumption DEF IndInv, TypeOK, Chases, Sweeps
    <2> QED  BY <2>1, <2>2, <2>3 DEF Below, RungSet
  <1> QED  BY <1>1, IndInvCorrect, PTL DEF Spec, RungTwiceHasReason
=============================================================================
