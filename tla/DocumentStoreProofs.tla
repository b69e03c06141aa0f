------------------------- MODULE DocumentStoreProofs -------------------------
(***************************************************************************)
(* Theorems about the document layer, for every bound of its two modules.  *)
(*                                                                         *)
(* AtomicFileWrite keeps AtomicFile's promise, for every number of writes  *)
(* and crashes.  The inductive invariant is OneAtATime.                    *)
(*                                                                         *)
(* OptOutList counts on that promise: what a caller was told of an opt-out *)
(* holds of the document a boot reads and of the Map a broadcast asks, for *)
(* any set of numbers and any number of saves, faults and crashes.  The    *)
(* inductive invariant is PromisesCovered.                                 *)
(***************************************************************************)
EXTENDS AtomicFileWrite, OptOutList, TLAPS

USE FileWriteAssumption

LEMMA InitOneAtATime == WriteInit => OneAtATime
BY DEF WriteInit, OneAtATime, WriteTypeOK, Writes, Torn, Stages, NumberedByCall, ChainReachesAll,
  OnlyOverBefore, TailIsLast, TailIsTidied, UntidiedAreSettled, RenamesWholeText, Over,
  Settled

LEMMA CallKeeps ==
  ASSUME OneAtATime, Call
  PROVE  OneAtATime'
<1> USE DEF OneAtATime
<1>1. WriteTypeOK'
  BY DEF Call, WriteTypeOK, Writes, Torn, Stages
<1>2. /\ called \in Nat /\ called + 1 \in Writes
      /\ \A w \in Writes : stage'[w] = IF w = called + 1 THEN "chained" ELSE stage[w]
      /\ \A w \in Writes : previous'[w] = IF w = called + 1 THEN tail ELSE previous[w]
      /\ stage[called + 1] = "unused"
  BY DEF Call, WriteTypeOK, Writes, NumberedByCall
<1>3. NumberedByCall'
  BY <1>2 DEF Call, NumberedByCall, Writes
<1>4. \A v \in Writes : Over(v)' <=> Over(v)
  BY <1>2 DEF Over, Settled
<1>5. ChainReachesAll'
  BY <1>2, <1>4 DEF Call, ChainReachesAll, TailIsLast, NumberedByCall, Writes
<1>6. OnlyOverBefore'
  BY <1>2, <1>4 DEF OnlyOverBefore
<1>7. TailIsLast' /\ TailIsTidied'
  BY <1>2, <1>4 DEF Call, TailIsLast, TailIsTidied, Over, Settled
<1>8. UntidiedAreSettled'
  BY <1>2, <1>4 DEF Call, UntidiedAreSettled, WriteTypeOK, Settled
<1>9. RenamesWholeText'
  BY <1>2 DEF Call, RenamesWholeText
<1> QED BY <1>1, <1>3, <1>5, <1>6, <1>7, <1>8, <1>9

(* A step of a write that leaves the Map alone and changes only its stage  *)
(* among the links: what the invariant says of the chain is kept if the    *)
(* write had only ended ones before it and does not come back to life.     *)
LEMMA ChainKept ==
  ASSUME OneAtATime, NEW w \in Writes, NEW s \in Stages \ {"unused", "chained"},
         stage' = [stage EXCEPT ![w] = s], UNCHANGED <<called, previous, tail>>,
         stage[w] \in Stages \ {"unused", "done", "failed", "lost"},
         \A v \in Writes : v < w => Over(v)
  PROVE  /\ NumberedByCall' /\ ChainReachesAll' /\ OnlyOverBefore' /\ TailIsLast'
         /\ \A v \in Writes : v # w => stage'[v] = stage[v]
         /\ stage'[w] = s
<1>1. /\ stage'[w] = s
      /\ \A v \in Writes : v # w => stage'[v] = stage[v]
      /\ ~Over(w)
  BY DEF OneAtATime, WriteTypeOK, Over, Settled
<1>2. \A v \in Writes : Over(v) => Over(v)'
  BY <1>1 DEF Over, Settled
<1>3. NumberedByCall'
  BY <1>1 DEF OneAtATime, NumberedByCall
<1>4. ChainReachesAll'
  BY <1>1, <1>2 DEF OneAtATime, ChainReachesAll
<1>5. OnlyOverBefore'
  BY <1>1, <1>2 DEF OneAtATime, OnlyOverBefore
<1>6. TailIsLast'
  BY <1>1, <1>2 DEF OneAtATime, TailIsLast
<1> QED BY <1>1, <1>3, <1>4, <1>5, <1>6

LEMMA WriteStepKeeps ==
  ASSUME OneAtATime, NEW w \in Writes, Step(w)
  PROVE  OneAtATime'
<1>t. WriteTypeOK'
  <2> USE DEF OneAtATime, WriteTypeOK, Stages, Torn, Writes
  <2>1. CASE Start(w) BY <2>1 DEF Start
  <2>2. CASE Mkdir(w) BY <2>2 DEF Mkdir, Settle
  <2>3. CASE WriteTemp(w) BY <2>3 DEF WriteTemp
  <2>4. CASE Rename(w) BY <2>4 DEF Rename
  <2>5. CASE RenameFails(w) BY <2>5 DEF RenameFails
  <2>6. CASE CleanUp(w) BY <2>6 DEF CleanUp, Settle
  <2>7. CASE Return(w) BY <2>7 DEF Return, Settle
  <2>8. CASE Tidy(w) BY <2>8 DEF Tidy
  <2> QED BY <2>1, <2>2, <2>3, <2>4, <2>5, <2>6, <2>7, <2>8 DEF Step
<1>0. WriteTypeOK /\ NumberedByCall /\ ChainReachesAll /\ OnlyOverBefore /\ TailIsLast
      /\ TailIsTidied /\ UntidiedAreSettled /\ RenamesWholeText
  BY DEF OneAtATime
<1>1. CASE Start(w)
  <2>1. \A v \in Writes : v < w => Over(v)
    <3> SUFFICES ASSUME NEW v \in Writes, v < w PROVE Over(v)
      OBVIOUS
    <3>1. stage[w] = "chained" /\ LinkSettled(w)
      BY <1>1 DEF Start
    <3>2. CASE previous[w] = 0
      BY <1>0, <3>1, <3>2 DEF ChainReachesAll, Writes
    <3>3. CASE previous[w] # 0
      <4>1. previous[w] \in Writes /\ Settled(previous[w])
        BY <1>0, <3>1, <3>3 DEF LinkSettled, WriteTypeOK, Writes
      <4>2. CASE v <= previous[w]
        BY <1>0, <4>1, <4>2 DEF OnlyOverBefore, Over, Settled, Writes
      <4>3. CASE ~(v <= previous[w])
        BY <1>0, <3>1, <4>3 DEF ChainReachesAll
      <4> QED BY <4>2, <4>3
    <3> QED BY <3>2, <3>3
  <2>2. /\ NumberedByCall' /\ ChainReachesAll' /\ OnlyOverBefore' /\ TailIsLast'
        /\ \A v \in Writes : v # w => stage'[v] = stage[v]
        /\ stage'[w] = "mkdir"
    BY <1>1, <2>1, ChainKept DEF Start, Stages
  <2>3. TailIsTidied' /\ UntidiedAreSettled' /\ RenamesWholeText'
    BY <1>0, <1>1, <2>2 DEF Start, TailIsTidied, UntidiedAreSettled, RenamesWholeText, Over,
      Settled, WriteTypeOK, Writes
  <2> QED BY <1>t, <2>2, <2>3 DEF OneAtATime
<1>2. CASE Mkdir(w) \/ WriteTemp(w) \/ Rename(w) \/ RenameFails(w) \/ CleanUp(w) \/ Return(w)
  <2> DEFINE Does(s) ==
        /\ stage' = [stage EXCEPT ![w] = s]
        /\ untidied' = IF s \in {"done", "failed"} THEN untidied \union {w} ELSE untidied
        /\ s = "renaming" => tmp'[w] = "whole"
        /\ file' # file => (file' = w /\ s = "renamed")
        /\ s = "done" \/ stage[w] # "renamed"
  <2>1. PICK s \in {"writing", "renaming", "renamed", "cleaning", "done", "failed"} : Does(s)
    <3> USE <1>0 DEF WriteTypeOK
    <3>1. CASE Mkdir(w)
      <4>1. Does("writing") \/ Does("failed")
        BY <3>1 DEF Mkdir, Settle
      <4> QED BY <4>1
    <3>2. CASE WriteTemp(w)
      <4>1. Does("renaming") \/ Does("cleaning")
        BY <3>2 DEF WriteTemp
      <4> QED BY <4>1
    <3>3. CASE Rename(w)
      <4>1. Does("renamed")
        BY <3>3 DEF Rename, RenamesWholeText
      <4> QED BY <4>1
    <3>4. CASE RenameFails(w)
      <4>1. Does("cleaning")
        BY <3>4 DEF RenameFails
      <4> QED BY <4>1
    <3>5. CASE CleanUp(w)
      <4>1. Does("failed")
        BY <3>5 DEF CleanUp, Settle
      <4> QED BY <4>1
    <3>6. CASE Return(w)
      <4>1. Does("done")
        BY <3>6 DEF Return, Settle
      <4> QED BY <4>1
    <3> QED BY <1>2, <3>1, <3>2, <3>3, <3>4, <3>5, <3>6
  <2>2. /\ UNCHANGED <<called, previous, tail>>
        /\ stage[w] \in {"mkdir", "writing", "renaming", "renamed", "cleaning"}
    BY <1>2 DEF Mkdir, WriteTemp, Rename, RenameFails, CleanUp, Return
  <2>3. \A v \in Writes : v < w => Over(v)
    BY <1>0, <2>2 DEF OnlyOverBefore
  <2>4. /\ NumberedByCall' /\ ChainReachesAll' /\ OnlyOverBefore' /\ TailIsLast'
        /\ \A v \in Writes : v # w => stage'[v] = stage[v]
        /\ stage'[w] = s
    BY <2>1, <2>2, <2>3, ChainKept DEF Stages
  <2>5. TailIsTidied'
    <3>1. \A v \in Writes : v # w => (Over(v)' <=> Over(v))
      BY <2>4 DEF Over, Settled
    <3>2. s \notin {"done", "failed"} => ~Over(w)'
      BY <2>1, <2>4 DEF Over, Settled
    <3> QED BY <1>0, <2>1, <2>2, <3>1, <3>2 DEF TailIsTidied, WriteTypeOK, Writes
  <2>7. UntidiedAreSettled'
    BY <1>0, <2>1, <2>2, <2>4 DEF UntidiedAreSettled, Settled, WriteTypeOK
  <2>8. \A v \in Writes : v # w => tmp'[v] = tmp[v]
    <3> USE <1>0 DEF WriteTypeOK
    <3>1. CASE Mkdir(w) BY <3>1 DEF Mkdir
    <3>2. CASE WriteTemp(w) BY <3>2 DEF WriteTemp
    <3>3. CASE Rename(w) \/ RenameFails(w) BY <3>3 DEF Rename, RenameFails
    <3>4. CASE CleanUp(w) \/ Return(w) BY <3>4 DEF CleanUp, Return
    <3> QED BY <1>2, <3>1, <3>2, <3>3, <3>4
  <2>9. RenamesWholeText'
    <3>1. \A v \in Writes : stage'[v] = "renaming" => tmp'[v] = "whole"
      BY <1>0, <2>1, <2>4, <2>8 DEF RenamesWholeText
    <3>2. CASE file' # file
      BY <2>1, <2>4, <3>1, <3>2 DEF RenamesWholeText
    <3>3. CASE file' = file
      BY <1>0, <2>1, <2>2, <2>4, <3>1, <3>3 DEF RenamesWholeText
    <3> QED BY <3>2, <3>3
  <2> QED BY <1>t, <2>4, <2>5, <2>7, <2>9 DEF OneAtATime
<1>3. CASE Tidy(w)
  <2>1. UNCHANGED <<called, stage, previous, tmp, file>> /\ Settled(w)
    BY <1>0, <1>3 DEF Tidy, UntidiedAreSettled
  <2>2. \A v \in Writes : Over(v)' <=> Over(v)
    BY <2>1 DEF Over, Settled
  <2>3. NumberedByCall' /\ ChainReachesAll' /\ OnlyOverBefore' /\ RenamesWholeText'
    BY <1>0, <2>1, <2>2 DEF NumberedByCall, ChainReachesAll, OnlyOverBefore, RenamesWholeText
  <2>4. CASE tail = w
    <3>1. \A v \in Writes : v <= called => Over(v)
      BY <1>0, <2>1, <2>4 DEF TailIsLast, OnlyOverBefore, Over, Settled, Writes, WriteTypeOK
    <3>2. TailIsLast' /\ TailIsTidied'
      BY <1>3, <2>1, <2>2, <2>4, <3>1 DEF Tidy, TailIsLast, TailIsTidied
    <3> QED BY <3>2, <1>0, <1>t, <1>3, <2>1, <2>3
         DEF OneAtATime, UntidiedAreSettled, Tidy, Settled
  <2>5. CASE tail # w
    <3>1. TailIsLast' /\ TailIsTidied'
      BY <1>0, <1>3, <2>1, <2>2, <2>5
         DEF Tidy, TailIsLast, TailIsTidied, WriteTypeOK, Writes, Over, Settled
    <3> QED BY <3>1, <1>0, <1>t, <1>3, <2>1, <2>3
         DEF OneAtATime, UntidiedAreSettled, Tidy, Settled
  <2> QED BY <2>4, <2>5
<1> QED BY <1>1, <1>2, <1>3 DEF Step

LEMMA DiesKeeps ==
  ASSUME OneAtATime, Dies
  PROVE  OneAtATime'
<1>1. WriteTypeOK'
  BY DEF OneAtATime, WriteTypeOK, Dies, Stages
<1>2. \A v \in Writes : stage'[v] = "unused" \/ Over(v)'
  BY DEF OneAtATime, WriteTypeOK, Dies, Over, Settled
<1>3. \A v \in Writes : (stage'[v] = "unused") <=> (stage[v] = "unused")
  BY DEF OneAtATime, WriteTypeOK, Dies, Stages
<1>4. NumberedByCall' /\ TailIsLast'
  BY <1>2, <1>3 DEF OneAtATime, NumberedByCall, TailIsLast, Dies, WriteTypeOK, Writes
<1>5. ChainReachesAll' /\ OnlyOverBefore'
  BY <1>2, <1>3 DEF OneAtATime, ChainReachesAll, OnlyOverBefore, NumberedByCall, Dies,
    Over, Settled, WriteTypeOK, Writes
<1>6. TailIsTidied' /\ UntidiedAreSettled' /\ RenamesWholeText'
  BY <1>2 DEF OneAtATime, TailIsTidied, UntidiedAreSettled, RenamesWholeText, Dies, WriteTypeOK,
    Over, Settled
<1> QED BY <1>1, <1>4, <1>5, <1>6 DEF OneAtATime

(* OneAtATime, for every number of writes and deaths: the writes of one   *)
(* path run one after the other in the order of the calls, and only whole  *)
(* texts are renamed over the path.                                        *)
THEOREM AlwaysOneAtATime == WriteSpec => []OneAtATime
<1>1. ASSUME OneAtATime, [WriteNext]_writeVars PROVE OneAtATime'
  <2>1. CASE UNCHANGED writeVars
    BY <1>1, <2>1 DEF writeVars, OneAtATime, WriteTypeOK, NumberedByCall, ChainReachesAll,
      OnlyOverBefore, TailIsLast, TailIsTidied, UntidiedAreSettled, RenamesWholeText, Over,
      Settled
  <2> QED BY <1>1, <2>1, CallKeeps, WriteStepKeeps, DiesKeeps DEF WriteNext
<1> QED BY <1>1, InitOneAtATime, PTL DEF WriteSpec

(* QuietMapIsEmpty follows: atomicWriteChains keeps no entry of a path     *)
(* that nobody writes.                                                     *)
THEOREM AlwaysQuietMapIsEmpty == WriteSpec => []QuietMapIsEmpty
<1>1. OneAtATime => QuietMapIsEmpty
  <2> SUFFICES ASSUME OneAtATime, untidied = {}, tail # 0,
                      \A w \in Writes : stage[w] = "unused" \/ Over(w)
               PROVE  FALSE
    BY DEF QuietMapIsEmpty
  <2>1. tail \in Writes /\ tail = called
    BY DEF OneAtATime, WriteTypeOK, Writes, TailIsLast
  <2>2. stage[tail] # "unused"
    BY <2>1 DEF OneAtATime, NumberedByCall, Writes
  <2> QED BY <2>1, <2>2 DEF OneAtATime, TailIsTidied
<1> QED BY <1>1, AlwaysOneAtATime, PTL

-----------------------------------------------------------------------------
Bar == [w \in Writes |-> Outcome(stage[w])]

LEMMA BarInit == WriteInit => Abstract!Init
BY DEF WriteInit, Abstract!Init, Abstract!Writes, Writes, Outcome

(* What a write's step does to the promise it maps to.                     *)
LEMMA BarExcept ==
  ASSUME WriteTypeOK, NEW w \in Writes, NEW s \in Stages, stage' = [stage EXCEPT ![w] = s]
  PROVE  Bar' = [Bar EXCEPT ![w] = Outcome(s)]
BY DEF WriteTypeOK, Bar

LEMMA BarStages ==
  ASSUME WriteTypeOK, NEW v \in Writes
  PROVE  /\ Bar[v] = Outcome(stage[v])
         /\ Over(v) => Bar[v] \in {"done", "failed", "lost"}
         /\ stage[v] # "unused" => Bar[v] # "unused"
BY DEF WriteTypeOK, Stages, Bar, Over, Settled, Outcome

LEMMA BarCall ==
  ASSUME OneAtATime, Call
  PROVE  Abstract!Next
<1>1. /\ called + 1 \in Writes /\ stage[called + 1] = "unused" /\ WriteTypeOK
      /\ \A v \in Writes : v < called + 1 => stage[v] # "unused"
  BY DEF OneAtATime, WriteTypeOK, NumberedByCall, Call, Writes
<1>2. Bar' = [Bar EXCEPT ![called + 1] = "waiting"]
  BY <1>1, BarExcept DEF Call, Outcome, Stages
<1>3. Abstract!Call(called + 1)
  BY <1>1, <1>2, BarStages DEF Abstract!Call, Abstract!Writes, Writes, Bar, Call, Outcome
<1> QED BY <1>1, <1>3 DEF Abstract!Next, Abstract!Writes, Writes

LEMMA BarStep ==
  ASSUME OneAtATime, NEW w \in Writes, Step(w)
  PROVE  [Abstract!Next]_(Abstract!vars)
<1>0. WriteTypeOK /\ Writes = Abstract!Writes
  BY DEF OneAtATime, Writes, Abstract!Writes
<1>1. ASSUME stage[w] \in {"chained", "mkdir", "writing", "renaming", "cleaning"},
             NEW s \in {"mkdir", "writing", "renaming", "cleaning"},
             stage' = [stage EXCEPT ![w] = s], file' = file
      PROVE  UNCHANGED Abstract!vars
  <2>1. Bar' = [Bar EXCEPT ![w] = "waiting"] /\ Bar[w] = "waiting"
    BY <1>0, <1>1, BarExcept, BarStages DEF Outcome, Stages
  <2>2. Bar' = Bar
    BY <2>1 DEF Bar
  <2> QED BY <1>1, <2>2 DEF Abstract!vars, Bar
<1>2. stage[w] \in {"mkdir", "writing", "renaming", "cleaning"} => Abstract!Turn(w)
  <2> HAVE stage[w] \in {"mkdir", "writing", "renaming", "cleaning"}
  <2>1. \A v \in Writes : v < w => Over(v)
    BY DEF OneAtATime, OnlyOverBefore
  <2>2. Bar[w] = "waiting"
    BY <1>0, BarStages DEF Outcome
  <2> QED BY <1>0, <2>1, <2>2, BarStages DEF Abstract!Turn, Abstract!Settled, Bar
<1>3. ASSUME stage[w] \in {"mkdir", "cleaning"}, stage' = [stage EXCEPT ![w] = "failed"],
             file' = file
      PROVE  Abstract!Next
  <2>1. Bar' = [Bar EXCEPT ![w] = "failed"]
    BY <1>0, <1>3, BarExcept DEF Outcome, Stages
  <2>2. Abstract!Fail(w)
    BY <1>2, <1>3, <2>1 DEF Abstract!Fail, Bar
  <2> QED BY <1>0, <2>2 DEF Abstract!Next
<1>4. CASE Start(w)
  BY <1>1, <1>4 DEF Start
<1>5. CASE Mkdir(w)
  <2>1. CASE stage' = [stage EXCEPT ![w] = "writing"]
    BY <1>1, <1>5, <2>1 DEF Mkdir
  <2>2. CASE stage' = [stage EXCEPT ![w] = "failed"]
    BY <1>3, <1>5, <2>2 DEF Mkdir
  <2> QED BY <1>5, <2>1, <2>2 DEF Mkdir, Settle
<1>6. CASE WriteTemp(w)
  BY <1>1, <1>6 DEF WriteTemp
<1>7. CASE Rename(w)
  <2>1. Bar' = [Bar EXCEPT ![w] = "written"]
    BY <1>0, <1>7, BarExcept DEF Rename, Outcome, Stages
  <2>2. file' = w
    BY <1>7 DEF Rename, OneAtATime, RenamesWholeText
  <2>3. Abstract!Publish(w)
    BY <1>2, <1>7, <2>1, <2>2 DEF Rename, Abstract!Publish, Bar
  <2> QED BY <1>0, <2>3 DEF Abstract!Next
<1>8. CASE RenameFails(w)
  BY <1>1, <1>8 DEF RenameFails
<1>9. CASE CleanUp(w)
  BY <1>3, <1>9 DEF CleanUp, Settle
<1>10. CASE Return(w)
  <2>1. Bar' = [Bar EXCEPT ![w] = "done"]
    BY <1>0, <1>10, BarExcept DEF Return, Settle, Outcome, Stages
  <2>2. Bar[w] = "written"
    BY <1>0, <1>10, BarStages DEF Return, Outcome
  <2>3. Abstract!Answer(w)
    BY <1>10, <2>1, <2>2 DEF Return, Abstract!Answer, Bar
  <2> QED BY <1>0, <2>3 DEF Abstract!Next
<1>11. CASE Tidy(w)
  BY <1>11 DEF Tidy, Abstract!vars
<1> QED BY <1>4, <1>5, <1>6, <1>7, <1>8, <1>9, <1>10, <1>11 DEF Step

LEMMA BarDies ==
  ASSUME OneAtATime, Dies
  PROVE  Abstract!Next
<1>1. \A v \in Writes : Outcome(stage'[v]) =
        IF Outcome(stage[v]) \in {"waiting", "written"} THEN "lost" ELSE Outcome(stage[v])
  BY DEF OneAtATime, WriteTypeOK, Stages, Dies, Outcome
<1>2. Abstract!Crash
  BY <1>1 DEF Dies, Abstract!Crash, Abstract!Writes, Writes
<1> QED BY <1>2 DEF Abstract!Next

(* The safety part of KeepsPromise: every step of the chained writes is a  *)
(* step of AtomicFile or none, so the file only ever holds whole texts, in *)
(* the order of the calls.                                                 *)
THEOREM ImplementsAtomicFile == WriteSpec => Abstract!Safety
<1>1. ASSUME OneAtATime, [WriteNext]_writeVars PROVE [Abstract!Next]_(Abstract!vars)
  <2>1. CASE UNCHANGED writeVars
    BY <2>1 DEF writeVars, Abstract!vars
  <2> QED BY <1>1, <2>1, BarCall, BarStep, BarDies DEF WriteNext
<1> QED BY <1>1, BarInit, AlwaysOneAtATime, PTL DEF WriteSpec, Abstract!Safety

(* What a store may count on: when writeFileTextAtomic has returned, the   *)
(* file holds that text or the text of a later call, whatever failed and   *)
(* whatever crashed in between.                                            *)
THEOREM AlwaysDoneIsVisible == WriteSpec => []Abstract!DoneIsVisible
<1> DEFINE Inv == OneAtATime /\ Abstract!DoneIsVisible
<1>1. WriteInit => Inv
  BY InitOneAtATime DEF WriteInit, Abstract!DoneIsVisible, Abstract!Writes, Writes, Outcome
<1>2. ASSUME OneAtATime, Abstract!DoneIsVisible, [Abstract!Next]_(Abstract!vars)
      PROVE  Abstract!DoneIsVisible'
  <2>0. WriteTypeOK /\ Writes = Abstract!Writes /\ file \in Nat
    BY <1>2 DEF OneAtATime, WriteTypeOK, Torn, Writes, Abstract!Writes
  <2>1. \A v \in Writes : Bar[v] \in {"written", "done"} => file >= v
    BY <1>2, <2>0 DEF Abstract!DoneIsVisible, Bar
  <2>2. SUFFICES \A v \in Writes : Bar'[v] \in {"written", "done"} => file' >= v
    BY <2>0 DEF Abstract!DoneIsVisible, Bar
  <2>3. CASE \E w \in Writes : Abstract!Publish(w)
    <3>1. PICK w \in Writes : Abstract!Publish(w)
      BY <2>3
    <3>2. Bar' = [Bar EXCEPT ![w] = "written"] /\ file' = w /\ Bar[w] = "waiting"
      BY <3>1 DEF Abstract!Publish, Abstract!Turn, Bar
    <3>3. ~Over(w)
      BY <2>0, <3>2, BarStages
    <3>4. \A v \in Writes : Bar[v] \in {"written", "done"} => v <= w
      <4> SUFFICES ASSUME NEW v \in Writes, Bar[v] \in {"written", "done"}, w < v
                   PROVE  FALSE
        BY DEF Writes
      <4>1. stage[v] \notin {"unused", "chained"}
        BY <2>0 DEF Bar, Outcome, WriteTypeOK, Stages
      <4> QED BY <1>2, <3>3, <4>1 DEF OneAtATime, OnlyOverBefore
    <3>5. \A v \in Writes : v # w => Bar'[v] = Bar[v]
      BY <3>2 DEF Bar
    <3> QED BY <3>2, <3>4, <3>5 DEF Writes
  <2>4. CASE ~\E w \in Writes : Abstract!Publish(w)
    <3>1. file' = file
      BY <1>2, <2>0, <2>4 DEF Abstract!Next, Abstract!vars, Abstract!Call, Abstract!Answer,
        Abstract!Fail, Abstract!Crash
    <3>2. \A v \in Writes : Bar'[v] \in {"written", "done"} => Bar[v] \in {"written", "done"}
      <4>1. CASE \E w \in Writes : Abstract!Call(w)
        BY <2>0, <4>1 DEF Abstract!Call, Bar
      <4>2. CASE \E w \in Writes : Abstract!Answer(w)
        BY <2>0, <4>2 DEF Abstract!Answer, Bar
      <4>3. CASE \E w \in Writes : Abstract!Fail(w)
        BY <2>0, <4>3 DEF Abstract!Fail, Bar
      <4>4. CASE Abstract!Crash
        BY <2>0, <4>4 DEF Abstract!Crash, Bar
      <4>5. CASE UNCHANGED Abstract!vars
        BY <2>0, <4>5 DEF Abstract!vars, Bar
      <4> QED BY <1>2, <2>0, <2>4, <4>1, <4>2, <4>3, <4>4, <4>5 DEF Abstract!Next
    <3> QED BY <2>1, <3>1, <3>2
  <2> QED BY <2>3, <2>4
<1> QED BY <1>1, <1>2, ImplementsAtomicFile, AlwaysOneAtATime, PTL DEF Abstract!Safety, WriteSpec

HIDE FileWriteAssumption

-----------------------------------------------------------------------------
(* The opt-out list.                                                       *)
USE OptOutAssumption

LEMMA SavesArePositive == /\ Saves \subseteq Nat
                          /\ \A c \in Saves : c >= 1 /\ c <= MaxSaves
BY DEF Saves

LEMMA RecordsKept ==
  ASSUME NEW r \in SaveRecords
  PROVE  /\ [r EXCEPT !.alone = FALSE] \in SaveRecords
         /\ \A x \in {"row", "file", "mirror", "done", "failed", "past"}, k \in Nat :
              /\ [r EXCEPT !.at = x] \in SaveRecords
              /\ [r EXCEPT !.at = x, !.turn = k] \in SaveRecords
              /\ [r EXCEPT !.at = x, !.turn = k, !.fell = TRUE] \in SaveRecords
BY DEF SaveRecords

LEMMA InitCovered == Init => PromisesCovered
<1> SUFFICES ASSUME Init PROVE PromisesCovered
  OBVIOUS
<1> USE SavesArePositive DEF Init
<1>1. TypeOK
  <2>1. Unused \in SaveRecords
    BY DEF Unused, SaveRecords
  <2>2. save \in [Saves -> SaveRecords]
    BY <2>1
  <2>3. disk \in Docs /\ row \in Docs /\ read \in Docs
    BY DEF Docs, Doc, NoDoc
  <2>4. load \in {"row", "file", "read", "over"}
    BY DEF FirstRead
  <2>5. told \in [Numbers -> {"in", "out", "either"}] /\ exposed \subseteq Numbers
    BY DEF AllInDoubt
  <2>6. /\ backend \in Backends /\ snapshot \in BOOLEAN
        /\ entries \subseteq Numbers /\ todo \subseteq Numbers /\ marked \subseteq Numbers
        /\ texting \in Numbers \union {Nobody}
    OBVIOUS
  <2>7. saves \in 0..MaxSaves /\ calls \in Nat /\ faults \in Nat /\ crashes \in Nat
    OBVIOUS
  <2> QED BY <2>2, <2>3, <2>4, <2>5, <2>6, <2>7 DEF TypeOK
<1>2. SavesAreNumbered
  BY DEF SavesAreNumbered, Unused, Open
<1>3. OptOutsAreDurable /\ PendingTextsAgree /\ MemoryAgrees
  BY DEF OptOutsAreDurable, PendingTextsAgree, MemoryAgrees, Agrees, AllInDoubt, Pending,
         Unused, Open, FirstRead, kept
<1>4. LaterTextsAgree /\ MirrorsFollowFile /\ AloneIsAlone
  BY DEF LaterTextsAgree, MirrorsFollowFile, AloneIsAlone, Unused, Open
<1> QED BY <1>1, <1>2, <1>3, <1>4 DEF PromisesCovered

-----------------------------------------------------------------------------
(* A number that is in doubt agrees with every list.                       *)
LEMMA DoubtAgrees == (kept = AllInDoubt) => \A s : \A n \in Numbers : Agrees(n, s)
BY DEF AllInDoubt, Agrees

(* A step that does not touch what was told touches nothing that is kept,  *)
(* and when every number is exposed nothing is.                            *)
LEMMA KeptStays ==
  /\ UNCHANGED toldVars => kept' = kept
  /\ exposed' = Numbers => kept' = AllInDoubt
  /\ AllInDoubt' = AllInDoubt
BY DEF kept, toldVars, AllInDoubt

(* The call of saveToDisk came before the load was over.                   *)
Early(c) == save[c].early

(* A save begins with a text that agrees with what was told, off the       *)
(* number it is for.                                                       *)
LEMMA StartKeeps ==
  ASSUME PromisesCovered, NEW text \in SUBSET Numbers, NEW number \in Numbers \union {Nobody},
         StartSave(text, number), UNCHANGED <<fixedVars, storeVars>>,
         NEW c, c = saves + 1
  PROVE  /\ c \in Saves /\ save' \in [Saves -> SaveRecords] /\ saves' \in 0..MaxSaves
         /\ calls' \in Nat
         /\ save'[c].text = text /\ save'[c].number = number
         /\ (Early(c)' <=> load # "over") /\ Open(c)'
         /\ \A d \in Saves : d # c =>
              /\ save'[d].at = save[d].at /\ save'[d].text = save[d].text
              /\ save'[d].number = save[d].number /\ Early(d)' = Early(d)
              /\ Open(d)' = Open(d) /\ Pending(d)' = Pending(d)
         /\ ~Open(c)
         /\ SavesAreNumbered' /\ MirrorsFollowFile' /\ AloneIsAlone'
<1>0. TypeOK /\ SavesAreNumbered /\ MirrorsFollowFile
  BY DEF PromisesCovered
<1>p. saves \in Nat /\ MaxSaves \in Nat /\ \A d \in Saves : d \in Nat /\ d >= 1 /\ d <= MaxSaves
  BY <1>0, SavesArePositive DEF TypeOK
<1>1. c \in Saves /\ saves' = c /\ saves' \in 0..MaxSaves
  BY <1>0, <1>p DEF StartSave, TypeOK, Saves
<1>2. /\ save'[c].text = text /\ save'[c].number = number
      /\ save'[c].early = (load # "over")
      /\ save'[c].at = IF backend = "postgres" THEN "row" ELSE "file"
      /\ save'[c].turn = IF backend = "postgres" THEN 0 ELSE calls + 1
      /\ save'[c].alone = \A d \in Saves : ~Open(d)
  BY <1>1 DEF StartSave
<1>3. ASSUME NEW d \in Saves, d # c
      PROVE  /\ save'[d].at = save[d].at /\ save'[d].text = save[d].text
             /\ save'[d].number = save[d].number /\ Early(d)' = Early(d)
             /\ save'[d].turn = save[d].turn
             /\ Open(d) => ~save'[d].alone
  <2>1. save[d] \in SaveRecords
    BY <1>0 DEF TypeOK
  <2>2. save'[d] = IF Open(d) THEN [save[d] EXCEPT !.alone = FALSE] ELSE save[d]
    BY <1>1, <1>3 DEF StartSave
  <2> QED BY <2>1, <2>2 DEF SaveRecords, Early
<1>4. \A d \in Saves : d # c => Open(d)' = Open(d) /\ Pending(d)' = Pending(d)
  BY <1>3 DEF Open, Pending, fixedVars
<1>5. ~Open(c) /\ Open(c)'
  <2>1. c > saves
    BY <1>p
  <2>2. save[c].at = "unused"
    BY <1>0, <1>1, <2>1 DEF SavesAreNumbered
  <2>3. save'[c].at \in {"row", "file"}
    BY <1>2
  <2> QED BY <2>2, <2>3 DEF Open
<1>6. save' \in [Saves -> SaveRecords]
  <2>1. \A d \in Saves : save[d] \in SaveRecords
    BY <1>0 DEF TypeOK
  <2>2. calls \in Nat
    BY <1>0 DEF TypeOK
  <2>3. ASSUME NEW d \in Saves PROVE save'[d] \in SaveRecords
    <3>1. CASE d = c
      <4>1. save'[c] = [at |-> IF backend = "postgres" THEN "row" ELSE "file", text |-> text,
                        number |-> number,
                        turn |-> IF backend = "postgres" THEN 0 ELSE calls + 1,
                        alone |-> \A e \in Saves : ~Open(e), early |-> load # "over",
                        fell |-> FALSE]
        BY <1>1, <3>1 DEF StartSave
      <4> QED BY <2>2, <3>1, <4>1 DEF SaveRecords
    <3>2. CASE d # c
      <4>1. save'[d] = IF Open(d) THEN [save[d] EXCEPT !.alone = FALSE] ELSE save[d]
        BY <1>1, <3>2 DEF StartSave
      <4>2. [save[d] EXCEPT !.alone = FALSE] \in SaveRecords
        BY <2>1, RecordsKept
      <4>3. CASE Open(d)
        BY <4>1, <4>2, <4>3
      <4>4. CASE ~Open(d)
        BY <2>1, <4>1, <4>4
      <4> QED BY <4>3, <4>4
    <3> QED BY <3>1, <3>2
  <2>4. save' = [d \in Saves |-> save'[d]]
    BY DEF StartSave
  <2> QED BY <2>3, <2>4
<1>7. calls' \in Nat
  BY <1>0 DEF StartSave, TypeOK
<1>8. SavesAreNumbered'
  <2>1. ASSUME NEW d \in Saves PROVE (save'[d].at = "unused") <=> (d > saves')
    <3>1. CASE d = c
      BY <1>p, <1>1, <1>2, <3>1
    <3>2. CASE d # c
      <4>1. (save[d].at = "unused") <=> (d > saves)
        BY <1>0 DEF SavesAreNumbered
      <4>2. (d > saves) <=> (d > saves')
        BY <1>p, <1>1, <3>2
      <4> QED BY <1>3, <3>2, <4>1, <4>2
    <3> QED BY <3>1, <3>2
  <2>2. backend' # "postgres" =>
          /\ calls' = saves'
          /\ \A d \in Saves : Open(d)' => save'[d].turn = d /\ save'[d].at # "row"
    BY <1>0, <1>p, <1>1, <1>2, <1>3, <1>4 DEF SavesAreNumbered, StartSave, fixedVars, TypeOK
  <2>3. backend' # "dual_write" => \A d \in Saves : save'[d].at # "mirror"
    BY <1>0, <1>1, <1>2, <1>3 DEF SavesAreNumbered, fixedVars
  <2> QED BY <2>1, <2>2, <2>3 DEF SavesAreNumbered
<1>9. MirrorsFollowFile'
  <2> SUFFICES ASSUME NEW d \in Saves, save'[d].at = "mirror"
               PROVE  /\ \E e \in Saves : d <= e /\ e <= saves' /\ disk' = Doc(save'[e].text)
                      /\ \A e \in Saves : e < d => save'[e].at # "file"
    BY DEF MirrorsFollowFile, Doc
  <2>1. d # c /\ save[d].at = "mirror" /\ d <= saves
    BY <1>0, <1>p, <1>1, <1>2, <1>3 DEF SavesAreNumbered
  <2>2. PICK e \in Saves : d <= e /\ e <= saves /\ disk = Doc(save[e].text)
    BY <1>0, <2>1 DEF MirrorsFollowFile
  <2>3. e # c
    BY <1>p, <1>1, <2>2
  <2>4. disk' = disk
    BY DEF storeVars
  <2>5. ASSUME NEW f \in Saves, f < d PROVE save'[f].at # "file"
    <3>1. f # c
      <4>1. f \in Nat /\ d \in Nat /\ c \in Nat /\ saves \in Nat /\ f < d /\ d <= saves /\ c > saves
        BY <1>p, <1>1, <2>1, <2>5
      <4> QED BY <4>1
    <3>2. save[f].at # "file"
      BY <1>0, <2>1, <2>5 DEF MirrorsFollowFile
    <3> QED BY <1>3, <3>1, <3>2
  <2>6. save'[e].text = save[e].text
    BY <1>3, <2>3
  <2>7. d <= e /\ e <= saves'
    BY <1>p, <1>1, <2>2
  <2>8. disk' = Doc(save'[e].text)
    BY <2>2, <2>4, <2>6
  <2>9. \E f \in Saves : d <= f /\ f <= saves' /\ disk' = Doc(save'[f].text)
    BY <2>7, <2>8
  <2> QED BY <2>5, <2>9
<1>10. AloneIsAlone'
  <2> SUFFICES ASSUME NEW d \in Saves, NEW e \in Saves, Open(d)', save'[d].alone, e # d
               PROVE  (e < d /\ ~Open(e)') \/ e > saves'
    BY DEF AloneIsAlone
  <2>1. d = c
    BY <1>3, <1>4
  <2>2. ~Open(e)
    BY <1>2, <2>1
  <2>3. ~Open(e)'
    BY <1>4, <2>1, <2>2
  <2> QED BY <1>p, <1>1, <2>1, <2>3
<1>11. (Early(c)' <=> load # "over") /\ \A d \in Saves : d # c => Early(d)' = Early(d)
  BY <1>2, <1>3 DEF Early
<1> QED BY <1>1, <1>2, <1>3, <1>4, <1>5, <1>6, <1>7, <1>8, <1>9, <1>10, <1>11

LEMMA ChangeKeeps ==
  ASSUME PromisesCovered, NEW n \in Numbers, AddSuppression(n) \/ RemoveSuppression(n)
  PROVE  PromisesCovered'
<1>0. /\ TypeOK /\ SavesAreNumbered /\ OptOutsAreDurable /\ PendingTextsAgree
      /\ MemoryAgrees /\ LaterTextsAgree
  BY DEF PromisesCovered
<1>1. PICK text \in SUBSET Numbers :
        /\ Change(n, text)
        /\ \A m \in Numbers : m # n => (m \in text <=> m \in entries)
  <2>1. entries \subseteq Numbers
    BY <1>0 DEF TypeOK
  <2> QED BY <2>1 DEF AddSuppression, RemoveSuppression
<1>2. /\ entries' = text /\ StartSave(text, n) /\ load' = load /\ read' = read
      /\ backend' = backend /\ row' = row /\ disk' = disk
      /\ UNCHANGED <<fixedVars, storeVars>>
  BY <1>1 DEF Change, storeVars, fixedVars
<1>3. PICK c : c = saves + 1
  OBVIOUS
<1>4. /\ c \in Saves /\ save' \in [Saves -> SaveRecords] /\ saves' \in 0..MaxSaves
      /\ calls' \in Nat
      /\ save'[c].text = text /\ save'[c].number = n
      /\ (Early(c)' <=> load # "over") /\ Open(c)'
      /\ \A d \in Saves : d # c =>
           /\ save'[d].at = save[d].at /\ save'[d].text = save[d].text
           /\ save'[d].number = save[d].number /\ Early(d)' = Early(d)
           /\ Open(d)' = Open(d) /\ Pending(d)' = Pending(d)
      /\ SavesAreNumbered' /\ MirrorsFollowFile' /\ AloneIsAlone'
  BY <1>2, <1>3, StartKeeps
<1>5. kept' = IF load = "over" THEN [kept EXCEPT ![n] = "either"] ELSE AllInDoubt
  <2>1. told' = [told EXCEPT ![n] = "either"]
        /\ exposed' = IF load = "over" THEN exposed \ {n} ELSE Numbers
    BY <1>1 DEF Change
  <2>2. CASE load = "over"
    <3>1. \A m \in Numbers : m # n => kept'[m] = kept[m]
      BY <1>0, <2>1, <2>2 DEF kept, TypeOK
    <3>2. kept'[n] = "either"
      BY <1>0, <2>1, <2>2 DEF kept, TypeOK
    <3>3. kept' = [m \in Numbers |-> kept'[m]] /\ kept = [m \in Numbers |-> kept[m]]
      BY DEF kept
    <3> QED BY <2>2, <3>1, <3>2, <3>3
  <2>3. CASE load # "over"
    BY <2>1, <2>3, KeptStays
  <2> QED BY <2>2, <2>3
<1>6. \A m \in Numbers : \/ kept'[m] = "either"
                         \/ load = "over" /\ m # n /\ kept'[m] = kept[m]
  BY <1>0, <1>5 DEF kept, AllInDoubt
<1>7. \A s : \A m \in Numbers : Agrees(m, s) => Agrees(m, s)'
  BY <1>6 DEF Agrees
<1>8. \A m \in Numbers : Agrees(m, text)'
  BY <1>0, <1>1, <1>6 DEF MemoryAgrees, Agrees
<1>9. TypeOK'
  <2>1. told' \in [Numbers -> {"in", "out", "either"}] /\ exposed' \subseteq Numbers
    BY <1>0, <1>1 DEF Change, TypeOK
  <2> QED BY <1>0, <1>1, <1>2, <1>4, <2>1 DEF Change, TypeOK, fixedVars, blastVars
<1>10. OptOutsAreDurable'
  <2>1. Recover' = Recover
    BY <1>2 DEF Recover
  <2> QED BY <1>0, <1>7, <2>1 DEF OptOutsAreDurable
<1>11. PendingTextsAgree'
  <2> SUFFICES ASSUME NEW d \in Saves, NEW m \in Numbers, Pending(d)'
               PROVE  Agrees(m, save[d].text)'
    BY DEF PendingTextsAgree
  <2>1. CASE d = c
    BY <1>4, <1>8, <2>1 DEF Agrees
  <2>2. CASE d # c
    <3>1. Agrees(m, save[d].text)
      BY <1>0, <1>4, <2>2 DEF PendingTextsAgree
    <3> QED BY <1>4, <1>6, <2>2, <3>1 DEF Agrees
  <2> QED BY <2>1, <2>2
<1>12. MemoryAgrees'
  <2>1. load = "over" => \A m \in Numbers : Agrees(m, entries)'
    BY <1>2, <1>8 DEF Agrees
  <2>2. load # "over" => kept' = AllInDoubt /\ \A m \in Numbers : kept'[m] = "either"
    BY <1>5 DEF AllInDoubt
  <2>3. load = "read" => \A m \in Numbers : Agrees(m, read.set)'
    BY <2>2 DEF Agrees
  <2>4. load # "over" => \A d \in Saves : Open(d)' => save'[d].early
    BY <1>0, <1>4 DEF MemoryAgrees, Early
  <2>5. kept = AllInDoubt => kept' = AllInDoubt
    <3>1. [AllInDoubt EXCEPT ![n] = "either"] = AllInDoubt
      BY DEF AllInDoubt
    <3> QED BY <1>5, <3>1
  <2>6. (backend = "postgres" /\ ~row.there) => kept' = AllInDoubt
    BY <1>0, <2>5 DEF MemoryAgrees
  <2>7. AllInDoubt' = AllInDoubt
    BY DEF AllInDoubt
  <2>8. (load = "row" => backend = "postgres")
    BY <1>0 DEF MemoryAgrees
  <2> QED BY <1>2, <2>1, <2>2, <2>3, <2>4, <2>6, <2>7, <2>8 DEF MemoryAgrees
<1>13. LaterTextsAgree'
  <2> SUFFICES ASSUME NEW d \in Saves, Open(d)', ~save'[d].early, save'[d].number # Nobody,
                      LastOfItsNumber(d)'
               PROVE  /\ (save'[d].number \in save'[d].text) <=> (save'[d].number \in entries')
                      /\ \A e \in Saves : (d <= e /\ e <= saves') =>
                           ((save'[d].number \in save'[d].text)
                              <=> (save'[d].number \in save'[e].text))
    BY DEF LaterTextsAgree
  <2>0. saves \in Nat /\ saves' = c /\ \A e \in Saves : e \in Nat
    BY <1>0, <1>2, <1>3, SavesArePositive DEF TypeOK, StartSave
  <2>1. CASE d = c
    <3>1. \A e \in Saves : (d <= e /\ e <= saves') => e = c
      BY <2>0, <2>1
    <3> QED BY <1>2, <1>4, <2>1, <3>1
  <2>2. CASE d # c
    <3>1. Open(d) /\ ~save[d].early /\ save[d].number # Nobody /\ d <= saves
      <4>1. d <= saves
        BY <1>0, <1>4, <2>0, <2>2 DEF SavesAreNumbered, Open
      <4> QED BY <1>4, <2>2, <4>1 DEF Early
    <3>2. save[d].number # n
      <4>1. c <= saves' /\ d < c
        BY <1>3, <2>0, <3>1
      <4>2. save'[c].number # save'[d].number
        BY <1>4, <4>1 DEF LastOfItsNumber
      <4> QED BY <1>4, <2>2, <4>2
    <3>3. LastOfItsNumber(d)
      <4> SUFFICES ASSUME NEW e \in Saves, d < e, e <= saves
                   PROVE  save[e].number # save[d].number
        BY DEF LastOfItsNumber
      <4>1. e # c /\ e <= saves'
        BY <1>3, <2>0
      <4>2. save'[e].number # save'[d].number
        BY <4>1 DEF LastOfItsNumber
      <4> QED BY <1>4, <2>2, <4>1, <4>2
    <3>4. save[d].number \in Numbers
      BY <1>0, <3>1 DEF TypeOK, SaveRecords
    <3>5. /\ (save[d].number \in save[d].text) <=> (save[d].number \in entries)
          /\ \A e \in Saves : (d <= e /\ e <= saves) =>
               ((save[d].number \in save[d].text) <=> (save[d].number \in save[e].text))
      BY <1>0, <3>1, <3>3 DEF LaterTextsAgree
    <3>6. (save[d].number \in text) <=> (save[d].number \in entries)
      BY <1>1, <3>2, <3>4
    <3>7. \A e \in Saves : e <= saves' => e = c \/ e <= saves
      BY <1>3, <2>0
    <3>8. ASSUME NEW e \in Saves, d <= e, e <= saves'
          PROVE  (save[d].number \in save[d].text) <=> (save[d].number \in save'[e].text)
      <4>1. CASE e = c
        BY <1>4, <3>5, <3>6, <4>1
      <4>2. CASE e # c
        BY <1>4, <3>5, <3>7, <3>8, <4>2
      <4> QED BY <4>1, <4>2
    <3>9. save'[d].number = save[d].number /\ save'[d].text = save[d].text
      BY <1>4, <2>2
    <3> QED BY <1>2, <3>5, <3>6, <3>8, <3>9
  <2> QED BY <2>1, <2>2
<1> QED BY <1>4, <1>9, <1>10, <1>11, <1>12, <1>13 DEF PromisesCovered

-----------------------------------------------------------------------------
(* The ways in which a save goes on to another stage.                      *)
MovesTo(c, x, k) ==
  \/ save' = [save EXCEPT ![c].at = x]
  \/ save' = [save EXCEPT ![c].at = x, ![c].turn = k]
  \/ save' = [save EXCEPT ![c].at = x, ![c].turn = k, ![c].fell = TRUE]

(* A save goes on or ends: its text stays, and no save opens by it.        *)
LEMMA MoveKeeps ==
  ASSUME PromisesCovered, NEW c \in Saves, Open(c),
         NEW x \in {"file", "mirror", "done", "failed"}, NEW k \in Nat,
         MovesTo(c, x, k), saves' = saves, entries' = entries
  PROVE  /\ save' \in [Saves -> SaveRecords]
         /\ save'[c].at = x
         /\ \A d \in Saves : /\ save'[d].text = save[d].text
                             /\ save'[d].number = save[d].number
                             /\ save'[d].early = save[d].early
                             /\ d # c => save'[d].at = save[d].at /\ save'[d].turn = save[d].turn
                             /\ Open(d)' => Open(d)
         /\ c <= saves
         /\ LaterTextsAgree' /\ AloneIsAlone'
<1>0. TypeOK /\ SavesAreNumbered /\ LaterTextsAgree /\ AloneIsAlone
  BY DEF PromisesCovered
<1>1. \A d \in Saves : save[d] \in SaveRecords
  BY <1>0 DEF TypeOK
<1>2. save'[c] \in {[save[c] EXCEPT !.at = x], [save[c] EXCEPT !.at = x, !.turn = k],
                   [save[c] EXCEPT !.at = x, !.turn = k, !.fell = TRUE]}
  BY <1>0 DEF TypeOK, MovesTo
<1>3. \A d \in Saves : d # c => save'[d] = save[d]
  BY <1>0 DEF TypeOK, MovesTo
<1>4. save'[c].at = x /\ save'[c].text = save[c].text /\ save'[c].number = save[c].number
      /\ save'[c].early = save[c].early /\ save'[c].alone = save[c].alone
  <2>1. save[c] \in SaveRecords
    BY <1>1
  <2>2. CASE save'[c] = [save[c] EXCEPT !.at = x]
    BY <2>1, <2>2 DEF SaveRecords
  <2>3. CASE save'[c] = [save[c] EXCEPT !.at = x, !.turn = k]
    BY <2>1, <2>3 DEF SaveRecords
  <2>4. CASE save'[c] = [save[c] EXCEPT !.at = x, !.turn = k, !.fell = TRUE]
    BY <2>1, <2>4 DEF SaveRecords
  <2> QED BY <1>2, <2>2, <2>3, <2>4
<1>5. save' \in [Saves -> SaveRecords]
  <2>1. save'[c] \in SaveRecords
    <3>1. /\ [save[c] EXCEPT !.at = x] \in SaveRecords
          /\ [save[c] EXCEPT !.at = x, !.turn = k] \in SaveRecords
          /\ [save[c] EXCEPT !.at = x, !.turn = k, !.fell = TRUE] \in SaveRecords
      <4>1. save[c] \in SaveRecords
        BY <1>1
      <4>2. x \in {"row", "file", "mirror", "done", "failed", "past"}
        OBVIOUS
      <4> QED BY <4>1, <4>2, RecordsKept
    <3> QED BY <1>2, <3>1
  <2>2. \A d \in Saves : save'[d] \in SaveRecords
    BY <1>1, <1>3, <2>1
  <2>3. save' = [d \in Saves |-> save'[d]]
    BY <1>0 DEF TypeOK, MovesTo
  <2> QED BY <2>2, <2>3
<1>6. ASSUME NEW d \in Saves
      PROVE  /\ save'[d].text = save[d].text /\ save'[d].number = save[d].number
             /\ save'[d].early = save[d].early /\ save'[d].alone = save[d].alone
             /\ d # c => save'[d].at = save[d].at /\ save'[d].turn = save[d].turn
             /\ Open(d)' => Open(d)
  <2>1. CASE d = c
    BY <1>4, <2>1
  <2>2. CASE d # c
    BY <1>3, <2>2 DEF Open
  <2> QED BY <2>1, <2>2
<1>7. c <= saves
  <2>1. ~(c > saves)
    BY <1>0 DEF SavesAreNumbered, Open
  <2> QED BY <1>0, <2>1, SavesArePositive DEF TypeOK
<1>8. LaterTextsAgree'
  <2> SUFFICES ASSUME NEW d \in Saves, Open(d)', ~save'[d].early, save'[d].number # Nobody,
                      LastOfItsNumber(d)'
               PROVE  /\ (save'[d].number \in save'[d].text) <=> (save'[d].number \in entries')
                      /\ \A e \in Saves : (d <= e /\ e <= saves') =>
                           ((save'[d].number \in save'[d].text)
                              <=> (save'[d].number \in save'[e].text))
    BY DEF LaterTextsAgree
  <2>1. LastOfItsNumber(d)
    BY <1>6 DEF LastOfItsNumber
  <2>2. Open(d) /\ ~save[d].early /\ save[d].number # Nobody
    BY <1>6
  <2>3. /\ (save[d].number \in save[d].text) <=> (save[d].number \in entries)
        /\ \A e \in Saves : (d <= e /\ e <= saves) =>
             ((save[d].number \in save[d].text) <=> (save[d].number \in save[e].text))
    BY <1>0, <2>1, <2>2 DEF LaterTextsAgree
  <2> QED BY <1>6, <2>3
<1>9. AloneIsAlone'
  <2> SUFFICES ASSUME NEW d \in Saves, NEW e \in Saves, Open(d)', save'[d].alone, e # d
               PROVE  (e < d /\ ~Open(e)') \/ e > saves'
    BY DEF AloneIsAlone
  <2>1. (e < d /\ ~Open(e)) \/ e > saves
    BY <1>0, <1>6 DEF AloneIsAlone
  <2> QED BY <1>6, <2>1
<1> QED BY <1>4, <1>5, <1>6, <1>7, <1>8, <1>9

(* What a caller is told when its save is through, and is kept, holds of   *)
(* the Map and of every text from its own on.                              *)
LEMMA PromiseIsTrue ==
  ASSUME PromisesCovered, NEW c \in Saves, Open(c), UNCHANGED toldVars \/ Promise(c)
  PROVE  /\ told' \in [Numbers -> {"in", "out", "either"}] /\ exposed' \subseteq Numbers
         /\ (load # "over" \/ ~Sure(c)) /\ kept = AllInDoubt => kept' = AllInDoubt
         /\ \A m \in Numbers :
              \/ kept'[m] \in {kept[m], "either"}
              \/ /\ Sure(c) /\ load = "over" /\ Promise(c)
                 /\ kept'[m] = "in" => m \in entries
                 /\ kept'[m] = "out" => m \notin entries
                 /\ \A d \in Saves : (c <= d /\ d <= saves) =>
                      /\ kept'[m] = "in" => m \in save[d].text
                      /\ kept'[m] = "out" => m \notin save[d].text
<1>0. TypeOK /\ SavesAreNumbered /\ LaterTextsAgree /\ MemoryAgrees
  BY DEF PromisesCovered
<1>1. CASE UNCHANGED toldVars
  BY <1>0, <1>1, KeptStays DEF TypeOK, toldVars
<1> DEFINE m == save[c].number
<1>2. CASE Promise(c) /\ ~Latest(c)
  BY <1>0, <1>2, KeptStays DEF TypeOK, Promise, toldVars
<1>3. CASE Promise(c) /\ Latest(c)
  <2>1. m \in Numbers
    BY <1>0, <1>3 DEF Latest, TypeOK, SaveRecords
  <2>2. /\ told' = [told EXCEPT ![m] = IF m \in save[c].text THEN "in" ELSE "out"]
        /\ exposed' = IF Sure(c) THEN exposed \ {m} ELSE exposed \union {m}
    BY <1>3 DEF Promise
  <2>3. told' \in [Numbers -> {"in", "out", "either"}] /\ exposed' \subseteq Numbers
    BY <1>0, <2>1, <2>2 DEF TypeOK
  <2>4. \A n \in Numbers : n # m => kept'[n] = kept[n]
    BY <1>0, <2>1, <2>2 DEF TypeOK, kept
  <2>5. CASE ~Sure(c)
    <3>1. kept'[m] = "either"
      BY <2>1, <2>2, <2>5 DEF kept
    <3>2. kept = AllInDoubt => kept' = AllInDoubt
      <4> SUFFICES ASSUME kept = AllInDoubt PROVE kept' = AllInDoubt
        OBVIOUS
      <4>1. \A n \in Numbers : kept'[n] = "either"
        BY <2>4, <3>1 DEF AllInDoubt
      <4> QED BY <4>1 DEF kept, AllInDoubt
    <3> QED BY <2>3, <2>4, <2>5, <3>1, <3>2
  <2>6. CASE Sure(c)
    <3>1. load = "over"
      BY <1>0, <2>6 DEF MemoryAgrees, Sure
    <3>2. LastOfItsNumber(c)
      BY <1>3 DEF Latest, LastOfItsNumber
    <3>3. /\ (m \in save[c].text) <=> (m \in entries)
          /\ \A d \in Saves : (c <= d /\ d <= saves) =>
               ((m \in save[c].text) <=> (m \in save[d].text))
      BY <1>0, <1>3, <2>6, <3>2 DEF LaterTextsAgree, Sure, Latest
    <3>4. kept'[m] = IF m \in save[c].text THEN "in" ELSE "out"
      BY <1>0, <2>1, <2>2, <2>6 DEF TypeOK, kept
    <3>5. \A n \in Numbers :
            \/ kept'[n] \in {kept[n], "either"}
            \/ /\ kept'[n] = "in" => n \in entries
               /\ kept'[n] = "out" => n \notin entries
               /\ \A d \in Saves : (c <= d /\ d <= saves) =>
                    /\ kept'[n] = "in" => n \in save[d].text
                    /\ kept'[n] = "out" => n \notin save[d].text
      <4> SUFFICES ASSUME NEW n \in Numbers, n = m
                   PROVE  /\ kept'[n] = "in" => n \in entries
                          /\ kept'[n] = "out" => n \notin entries
                          /\ \A d \in Saves : (c <= d /\ d <= saves) =>
                               /\ kept'[n] = "in" => n \in save[d].text
                               /\ kept'[n] = "out" => n \notin save[d].text
        BY <2>4
      <4> QED BY <3>3, <3>4
    <3> QED BY <1>3, <2>3, <2>6, <3>1, <3>5
  <2> QED BY <2>5, <2>6
<1> QED BY <1>1, <1>2, <1>3

(* The Map and the boot's document are not written by a save's step.       *)
LEMMA MemoryKept ==
  ASSUME PromisesCovered, NEW c \in Saves, Open(c), UNCHANGED toldVars \/ Promise(c),
         UNCHANGED <<backend, load, read, entries>>,
         \A d \in Saves : (Open(d)' => Open(d)) /\ save'[d].early = save[d].early,
         (backend = "postgres" /\ ~row'.there) =>
           ~row.there /\ (UNCHANGED toldVars \/ ~Sure(c))
  PROVE  MemoryAgrees'
<1>0. MemoryAgrees
  BY DEF PromisesCovered
<1>1. /\ (load # "over" \/ ~Sure(c) \/ UNCHANGED toldVars) /\ kept = AllInDoubt =>
           kept' = AllInDoubt
      /\ \A m \in Numbers :
           \/ kept'[m] \in {kept[m], "either"}
           \/ /\ kept'[m] = "in" => m \in entries
              /\ kept'[m] = "out" => m \notin entries
      /\ load # "over" => \A m \in Numbers : kept'[m] \in {kept[m], "either"}
  BY PromiseIsTrue, KeptStays
<1>2. \A n \in Numbers : load = "over" => Agrees(n, entries)'
  BY <1>0, <1>1 DEF MemoryAgrees, Agrees
<1>3. \A n \in Numbers : load = "read" => Agrees(n, read.set)'
  BY <1>0, <1>1 DEF MemoryAgrees, Agrees
<1>4. AllInDoubt' = AllInDoubt
  BY DEF AllInDoubt
<1>5. load # "over" => /\ entries = {} \/ kept' = AllInDoubt
                       /\ \A d \in Saves : Open(d)' => save'[d].early
  BY <1>0, <1>1 DEF MemoryAgrees
<1>6. /\ load = "row" => backend = "postgres"
      /\ (load = "file" /\ backend = "postgres") => kept' = AllInDoubt
      /\ (backend = "postgres" /\ ~row'.there) => kept' = AllInDoubt
  BY <1>0, <1>1 DEF MemoryAgrees
<1> QED BY <1>2, <1>3, <1>4, <1>5, <1>6 DEF MemoryAgrees

-----------------------------------------------------------------------------
LEMMA FileStepKeeps ==
  ASSUME PromisesCovered, NEW c \in Saves, FileWritten(c) \/ FileFails(c)
  PROVE  PromisesCovered'
<1>0. /\ TypeOK /\ SavesAreNumbered /\ OptOutsAreDurable /\ PendingTextsAgree
      /\ MemoryAgrees /\ MirrorsFollowFile
  BY DEF PromisesCovered
<1>1. /\ save[c].at = "file" /\ Open(c) /\ saves' = saves /\ entries' = entries
      /\ calls' = calls /\ row' = row
      /\ \A d \in Saves : save[d].at = "file" => save[c].turn <= save[d].turn
      /\ UNCHANGED <<fixedVars, listVars>>
      /\ UNCHANGED toldVars \/ Promise(c)
  BY DEF FileWritten, FileFails, FileTurn, Open, listVars, fixedVars, storeVars
<1>2. PICK x \in {"file", "mirror", "done", "failed"} :
        /\ save' = [save EXCEPT ![c].at = x]
        /\ x = "mirror" <=> (FileWritten(c) /\ backend = "dual_write")
        /\ x # "file"
  BY DEF FileWritten, FileFails, Moves
<1>3. /\ save' \in [Saves -> SaveRecords] /\ save'[c].at = x
      /\ \A d \in Saves : /\ save'[d].text = save[d].text
                          /\ save'[d].number = save[d].number
                          /\ save'[d].early = save[d].early
                          /\ d # c => save'[d].at = save[d].at /\ save'[d].turn = save[d].turn
                          /\ Open(d)' => Open(d)
      /\ c <= saves
      /\ LaterTextsAgree' /\ AloneIsAlone'
  <2>1. 0 \in Nat /\ MovesTo(c, x, 0)
    BY <1>2 DEF MovesTo
  <2>2. Open(c) /\ saves' = saves /\ entries' = entries
    BY <1>1
  <2> QED BY <2>1, <2>2, MoveKeeps
<1>4. backend # "postgres" => \A d \in Saves : save[d].at = "file" => c <= d
  BY <1>0, <1>1 DEF SavesAreNumbered, Open
<1>5. /\ told' \in [Numbers -> {"in", "out", "either"}] /\ exposed' \subseteq Numbers
      /\ \A m \in Numbers :
           \/ kept'[m] \in {kept[m], "either"}
           \/ \A d \in Saves : (c <= d /\ d <= saves) =>
                /\ kept'[m] = "in" => m \in save[d].text
                /\ kept'[m] = "out" => m \notin save[d].text
  BY <1>1, PromiseIsTrue
<1>6. \/ \A m \in Numbers : kept'[m] \in {kept[m], "either"}
      \/ backend = "file" /\ FileWritten(c)
  <2>1. \/ UNCHANGED toldVars
        \/ save[c].fell /\ Promise(c)
        \/ backend = "file" /\ FileWritten(c)
    BY DEF FileWritten, FileFails
  <2> QED BY <1>1, <2>1, KeptStays, PromiseIsTrue DEF Sure
<1>7. TypeOK'
  <2>1. disk' \in Docs
    <3>1. save[c].text \in SUBSET Numbers
      BY <1>0 DEF TypeOK, SaveRecords
    <3> QED BY <1>0, <3>1 DEF FileWritten, FileFails, TypeOK, Docs, storeVars
  <2>2. faults' \in Nat
    BY <1>0 DEF FileWritten, FileFails, Fault, TypeOK
  <2>3. UNCHANGED <<blastVars, crashes>>
    BY DEF FileWritten, FileFails
  <2> QED BY <1>0, <1>1, <1>3, <1>5, <2>1, <2>2, <2>3 DEF TypeOK, fixedVars, listVars, blastVars
<1>8. SavesAreNumbered'
  <2>1. \A d \in Saves : save'[d].at = "unused" <=> save[d].at = "unused"
    BY <1>1, <1>2, <1>3
  <2>2. backend # "postgres" => x # "row" /\ save'[c].turn = save[c].turn
    <3>1. save[c] \in SaveRecords
      BY <1>0 DEF TypeOK
    <3>2. save'[c] = [save[c] EXCEPT !.at = x]
      BY <1>0, <1>2 DEF TypeOK
    <3> QED BY <3>1, <3>2 DEF SaveRecords
  <2>3. backend # "postgres" =>
          \A d \in Saves : Open(d)' => save'[d].turn = d /\ save'[d].at # "row"
    BY <1>0, <1>1, <1>3, <2>2 DEF SavesAreNumbered
  <2>4. backend # "dual_write" => \A d \in Saves : save'[d].at # "mirror"
    BY <1>0, <1>2, <1>3 DEF SavesAreNumbered
  <2> QED BY <1>0, <1>1, <2>1, <2>3, <2>4 DEF SavesAreNumbered, fixedVars
<1>9. PendingTextsAgree'
  <2> SUFFICES ASSUME NEW d \in Saves, NEW m \in Numbers, Pending(d)'
               PROVE  Agrees(m, save[d].text)'
    BY DEF PendingTextsAgree
  <2>1. d # c
    BY <1>2, <1>3, <1>1 DEF Pending, fixedVars
  <2>2. Pending(d)
    BY <1>1, <1>3, <2>1 DEF Pending, fixedVars
  <2>3. Agrees(m, save[d].text)
    BY <1>0, <2>2 DEF PendingTextsAgree
  <2>4. d <= saves
    <3>1. ~(d > saves)
      BY <1>0, <2>2 DEF SavesAreNumbered, Pending
    <3> QED BY <1>0, <3>1, SavesArePositive DEF TypeOK
  <2>5. CASE kept'[m] \in {kept[m], "either"}
    BY <1>3, <2>3, <2>5 DEF Agrees
  <2>6. CASE kept'[m] \notin {kept[m], "either"}
    <3>1. save[d].at = "file" /\ c <= d
      BY <1>4, <1>6, <2>2, <2>6 DEF Pending
    <3> QED BY <1>3, <1>5, <2>3, <2>4, <3>1 DEF Agrees
  <2> QED BY <2>5, <2>6
<1>10. OptOutsAreDurable'
  <2> SUFFICES ASSUME NEW m \in Numbers PROVE Agrees(m, Recover.set)'
    BY DEF OptOutsAreDurable
  <2>1. Agrees(m, Recover.set)
    BY <1>0 DEF OptOutsAreDurable
  <2>2. CASE FileFails(c)
    <3>1. disk' = disk /\ kept' = kept
      BY <2>2, KeptStays DEF FileFails, storeVars
    <3>2. Recover' = Recover
      BY <1>1, <3>1 DEF Recover, fixedVars
    <3> QED BY <2>1, <3>1, <3>2 DEF Agrees
  <2>3. CASE FileWritten(c) /\ backend = "postgres"
    <3>1. kept'[m] \in {kept[m], "either"}
      BY <1>6, <2>3
    <3>2. CASE row.there
      BY <1>1, <2>1, <2>3, <3>1, <3>2 DEF Recover, fixedVars, Agrees
    <3>3. CASE ~row.there
      <4>1. kept[m] = "either"
        BY <1>0, <2>3, <3>3 DEF MemoryAgrees, AllInDoubt
      <4> QED BY <3>1, <4>1 DEF Agrees
    <3> QED BY <3>2, <3>3
  <2>4. CASE FileWritten(c) /\ backend # "postgres"
    <3>1. Recover'.set = save[c].text
      BY <1>1, <2>4 DEF Recover, FileWritten, Doc, fixedVars
    <3>2. Agrees(m, save[c].text)
      BY <1>0, <1>1, <2>4 DEF PendingTextsAgree, Pending
    <3>3. c <= c
      BY SavesArePositive
    <3> QED BY <1>3, <1>5, <3>1, <3>2, <3>3 DEF Agrees
  <2> QED BY <2>2, <2>3, <2>4
<1>11. MemoryAgrees'
  <2>1. (backend = "postgres" /\ ~row'.there) =>
          ~row.there /\ (UNCHANGED toldVars \/ ~Sure(c))
    BY <1>1 DEF FileWritten, FileFails, Sure
  <2> QED BY <1>1, <1>3, <2>1, MemoryKept DEF fixedVars, listVars
<1>12. MirrorsFollowFile'
  <2>1. CASE ~FileWritten(c)
    <3>1. disk' = disk
      BY <2>1 DEF FileFails, storeVars
    <3>2. x # "mirror"
      BY <1>2, <2>1
    <3> QED BY <1>0, <1>1, <1>2, <1>3, <3>1, <3>2 DEF MirrorsFollowFile, Doc
  <2>2. CASE FileWritten(c) /\ backend # "dual_write"
    BY <1>1, <1>8, <2>2 DEF SavesAreNumbered, MirrorsFollowFile, fixedVars
  <2>3. CASE FileWritten(c) /\ backend = "dual_write"
    <3> SUFFICES ASSUME NEW d \in Saves, save'[d].at = "mirror"
                 PROVE  /\ \E e \in Saves : d <= e /\ e <= saves' /\ disk' = Doc(save'[e].text)
                        /\ \A e \in Saves : e < d => save'[e].at # "file"
      BY DEF MirrorsFollowFile, Doc
    <3>1. disk' = Doc(save[c].text)
      BY <2>3 DEF FileWritten
    <3>2. d <= c
      <4>1. CASE d = c
        BY <4>1, SavesArePositive
      <4>2. CASE d # c
        <5>1. save[d].at = "mirror"
          BY <1>3, <4>2
        <5>2. ~(c < d)
          BY <1>0, <1>1, <5>1 DEF MirrorsFollowFile
        <5> QED BY <5>2, SavesArePositive
      <4> QED BY <4>1, <4>2
    <3>3. \A e \in Saves : e < c => save[e].at # "file"
      <4> SUFFICES ASSUME NEW e \in Saves, e < c PROVE save[e].at # "file"
        OBVIOUS
      <4>1. ~(c <= e)
        BY SavesArePositive
      <4> QED BY <1>4, <2>3, <4>1
    <3>4. \A e \in Saves : e < d => e < c /\ e # c
      BY <3>2, SavesArePositive
    <3>5. \A e \in Saves : e < d => save'[e].at # "file"
      BY <1>3, <3>3, <3>4
    <3> QED BY <1>1, <1>3, <3>1, <3>2, <3>5
  <2> QED BY <2>1, <2>2, <2>3
<1> QED BY <1>3, <1>7, <1>8, <1>9, <1>10, <1>11, <1>12 DEF PromisesCovered

LEMMA MirrorKeeps ==
  ASSUME PromisesCovered, NEW c \in Saves, Mirror(c)
  PROVE  PromisesCovered'
<1>0. /\ TypeOK /\ SavesAreNumbered /\ OptOutsAreDurable /\ PendingTextsAgree
      /\ MemoryAgrees /\ MirrorsFollowFile
  BY DEF PromisesCovered
<1>1. /\ save[c].at = "mirror" /\ Open(c) /\ saves' = saves /\ entries' = entries
      /\ calls' = calls /\ disk' = disk
      /\ save' = [save EXCEPT ![c].at = "done"]
      /\ UNCHANGED <<fixedVars, listVars>>
      /\ Promise(c)
  BY DEF Mirror, Moves, Open, listVars, fixedVars
<1>2. backend = "dual_write"
  BY <1>0, <1>1 DEF SavesAreNumbered
<1>3. /\ save' \in [Saves -> SaveRecords] /\ save'[c].at = "done"
      /\ \A d \in Saves : /\ save'[d].text = save[d].text
                          /\ save'[d].number = save[d].number
                          /\ save'[d].early = save[d].early
                          /\ d # c => save'[d].at = save[d].at /\ save'[d].turn = save[d].turn
                          /\ Open(d)' => Open(d)
      /\ c <= saves
      /\ LaterTextsAgree' /\ AloneIsAlone'
  <2>1. 0 \in Nat /\ "done" \in {"file", "mirror", "done", "failed"} /\ MovesTo(c, "done", 0)
    BY <1>1 DEF MovesTo
  <2>2. Open(c) /\ saves' = saves /\ entries' = entries
    BY <1>1
  <2> QED BY <2>1, <2>2, MoveKeeps
<1>4. /\ told' \in [Numbers -> {"in", "out", "either"}] /\ exposed' \subseteq Numbers
      /\ \A m \in Numbers :
           \/ kept'[m] \in {kept[m], "either"}
           \/ \A d \in Saves : (c <= d /\ d <= saves) =>
                /\ kept'[m] = "in" => m \in save[d].text
                /\ kept'[m] = "out" => m \notin save[d].text
  BY <1>1, PromiseIsTrue
<1>5. PICK f \in Saves : c <= f /\ f <= saves /\ disk = Doc(save[f].text)
  BY <1>0, <1>1 DEF MirrorsFollowFile
<1>6. \A d \in Saves : save[d].at = "file" => c <= d /\ d <= saves
  <2> SUFFICES ASSUME NEW d \in Saves, save[d].at = "file" PROVE c <= d /\ d <= saves
    OBVIOUS
  <2>1. ~(d < c)
    BY <1>0, <1>1 DEF MirrorsFollowFile
  <2>2. ~(d > saves)
    BY <1>0 DEF SavesAreNumbered
  <2> QED BY <1>0, <2>1, <2>2, SavesArePositive DEF TypeOK
<1>7. TypeOK'
  <2>1. row' \in Docs
    <3>1. save[c].text \in SUBSET Numbers
      BY <1>0 DEF TypeOK, SaveRecords
    <3> QED BY <1>0, <3>1 DEF Mirror, TypeOK, Docs
  <2>2. faults' \in Nat
    BY <1>0 DEF Mirror, Fault, TypeOK
  <2>3. UNCHANGED <<blastVars, crashes>>
    BY DEF Mirror
  <2> QED BY <1>0, <1>1, <1>3, <1>4, <2>1, <2>2, <2>3 DEF TypeOK, fixedVars, listVars, blastVars
<1>8. SavesAreNumbered'
  <2>1. \A d \in Saves : save'[d].at = "unused" <=> save[d].at = "unused"
    BY <1>1, <1>3
  <2>2. \A d \in Saves : Open(d)' => d # c
    BY <1>3 DEF Open
  <2>3. \A d \in Saves : Open(d)' => save'[d].turn = d /\ save'[d].at # "row"
    BY <1>0, <1>2, <1>3, <2>2 DEF SavesAreNumbered
  <2> QED BY <1>0, <1>1, <1>2, <2>1, <2>3 DEF SavesAreNumbered, fixedVars
<1>9. PendingTextsAgree'
  <2> SUFFICES ASSUME NEW d \in Saves, NEW m \in Numbers, Pending(d)'
               PROVE  Agrees(m, save[d].text)'
    BY DEF PendingTextsAgree
  <2>1. d # c /\ save[d].at = "file"
    BY <1>1, <1>2, <1>3 DEF Pending, fixedVars
  <2>2. Agrees(m, save[d].text)
    BY <1>0, <1>2, <2>1 DEF PendingTextsAgree, Pending
  <2> QED BY <1>3, <1>4, <1>6, <2>1, <2>2 DEF Agrees
<1>10. OptOutsAreDurable'
  <2> SUFFICES ASSUME NEW m \in Numbers PROVE Agrees(m, Recover.set)'
    BY DEF OptOutsAreDurable
  <2>1. Recover' = disk /\ Recover = disk /\ disk.set = save[f].text
    BY <1>1, <1>2, <1>5 DEF Recover, fixedVars, Doc
  <2>2. Agrees(m, disk.set)
    BY <1>0, <2>1 DEF OptOutsAreDurable
  <2> QED BY <1>4, <1>5, <2>1, <2>2 DEF Agrees
<1>11. MemoryAgrees'
  BY <1>1, <1>2, <1>3, MemoryKept DEF fixedVars, listVars
<1>12. MirrorsFollowFile'
  BY <1>0, <1>1, <1>3 DEF MirrorsFollowFile, Doc
<1> QED BY <1>3, <1>7, <1>8, <1>9, <1>10, <1>11, <1>12 DEF PromisesCovered

LEMMA RowStepKeeps ==
  ASSUME PromisesCovered, NEW c \in Saves, RowWritten(c) \/ RowFails(c)
  PROVE  PromisesCovered'
<1>0. /\ TypeOK /\ SavesAreNumbered /\ OptOutsAreDurable /\ PendingTextsAgree
      /\ MemoryAgrees /\ AloneIsAlone
  BY DEF PromisesCovered
<1>1. /\ save[c].at = "row" /\ Open(c) /\ saves' = saves /\ entries' = entries
      /\ disk' = disk /\ UNCHANGED <<fixedVars, listVars>>
      /\ UNCHANGED toldVars \/ (Promise(c) /\ row' = Doc(save[c].text))
      /\ row' \in {row, Doc(save[c].text)}
  BY DEF RowWritten, RowFails, Open, listVars, fixedVars
<1>2. backend = "postgres"
  BY <1>0, <1>1 DEF SavesAreNumbered
<1>3. PICK x \in {"file", "mirror", "done", "failed"} :
        /\ \/ save' = [save EXCEPT ![c].at = x]
           \/ save' = [save EXCEPT ![c].at = x, ![c].turn = calls + 1]
           \/ save' = [save EXCEPT ![c].at = x, ![c].turn = calls + 1, ![c].fell = TRUE]
        /\ x \in {"file", "done"}
  BY DEF RowWritten, RowFails, Moves
<1>4. /\ save' \in [Saves -> SaveRecords] /\ save'[c].at = x
      /\ \A d \in Saves : /\ save'[d].text = save[d].text
                          /\ save'[d].number = save[d].number
                          /\ save'[d].early = save[d].early
                          /\ d # c => save'[d].at = save[d].at /\ save'[d].turn = save[d].turn
                          /\ Open(d)' => Open(d)
      /\ c <= saves
      /\ LaterTextsAgree' /\ AloneIsAlone'
  <2>1. calls + 1 \in Nat
    BY <1>0 DEF TypeOK
  <2>2. MovesTo(c, x, calls + 1)
    BY <1>3 DEF MovesTo
  <2>3. Open(c) /\ saves' = saves /\ entries' = entries
    BY <1>1
  <2> QED BY <2>1, <2>2, <2>3, MoveKeeps
<1>5. /\ told' \in [Numbers -> {"in", "out", "either"}] /\ exposed' \subseteq Numbers
      /\ \A m \in Numbers :
           \/ kept'[m] \in {kept[m], "either"}
           \/ /\ Sure(c)
              /\ \A d \in Saves : (c <= d /\ d <= saves) =>
                   /\ kept'[m] = "in" => m \in save[d].text
                   /\ kept'[m] = "out" => m \notin save[d].text
  BY <1>1, PromiseIsTrue
<1>6. \A d \in Saves, m \in Numbers : Pending(d) => Agrees(m, save[d].text)
  BY <1>0 DEF PendingTextsAgree
<1>7. TypeOK'
  <2>1. row' \in Docs
    <3>1. save[c].text \in SUBSET Numbers
      BY <1>0 DEF TypeOK, SaveRecords
    <3> QED BY <1>0, <1>1, <3>1 DEF TypeOK, Docs
  <2>2. faults' \in Nat /\ calls' \in Nat
    BY <1>0 DEF RowWritten, RowFails, Fault, TypeOK
  <2>3. UNCHANGED <<blastVars, crashes>>
    BY DEF RowWritten, RowFails
  <2> QED BY <1>0, <1>1, <1>4, <1>5, <2>1, <2>2, <2>3 DEF TypeOK, fixedVars, listVars, blastVars
<1>8. SavesAreNumbered'
  <2>1. \A d \in Saves : save'[d].at = "unused" <=> save[d].at = "unused"
    BY <1>1, <1>3, <1>4
  <2>2. \A d \in Saves : save'[d].at # "mirror"
    BY <1>0, <1>2, <1>3, <1>4 DEF SavesAreNumbered
  <2> QED BY <1>0, <1>1, <1>2, <2>1, <2>2 DEF SavesAreNumbered, fixedVars
<1>9. PendingTextsAgree'
  <2> SUFFICES ASSUME NEW d \in Saves, NEW m \in Numbers, Pending(d)'
               PROVE  Agrees(m, save[d].text)'
    BY DEF PendingTextsAgree
  <2>1. d # c /\ Pending(d) /\ Open(d)
    BY <1>1, <1>2, <1>3, <1>4 DEF Pending, fixedVars, Open
  <2>2. Agrees(m, save[d].text)
    BY <1>6, <2>1
  <2>3. ~Sure(c)
    <3>1. ~(d > saves)
      BY <1>0, <2>1 DEF SavesAreNumbered, Open
    <3>2. ~save[c].alone
      BY <1>0, <1>1, <2>1, <3>1 DEF AloneIsAlone
    <3> QED BY <1>2, <3>2 DEF Sure
  <2> QED BY <1>4, <1>5, <2>2, <2>3 DEF Agrees
<1>10. OptOutsAreDurable'
  <2> SUFFICES ASSUME NEW m \in Numbers PROVE Agrees(m, Recover.set)'
    BY DEF OptOutsAreDurable
  <2>1. CASE row' = Doc(save[c].text)
    <3>1. Recover'.set = save[c].text
      BY <1>1, <1>2, <2>1 DEF Recover, Doc, fixedVars
    <3>2. Agrees(m, save[c].text)
      BY <1>1, <1>2, <1>6 DEF Pending
    <3>3. c <= c
      BY SavesArePositive
    <3> QED BY <1>4, <1>5, <3>1, <3>2, <3>3 DEF Agrees
  <2>2. CASE row' # Doc(save[c].text)
    <3>1. row' = row /\ kept' = kept
      BY <1>1, <2>2, KeptStays
    <3>2. Recover' = Recover
      BY <1>1, <3>1 DEF Recover, fixedVars
    <3>3. Agrees(m, Recover.set)
      BY <1>0 DEF OptOutsAreDurable
    <3> QED BY <3>1, <3>2, <3>3 DEF Agrees
  <2> QED BY <2>1, <2>2
<1>11. MemoryAgrees'
  <2>1. (backend = "postgres" /\ ~row'.there) => ~row.there /\ UNCHANGED toldVars
    BY <1>1 DEF Doc
  <2> QED BY <1>1, <1>4, <2>1, MemoryKept DEF fixedVars, listVars
<1>12. MirrorsFollowFile'
  BY <1>1, <1>2, <1>8 DEF SavesAreNumbered, MirrorsFollowFile, fixedVars
<1> QED BY <1>4, <1>7, <1>8, <1>9, <1>10, <1>11, <1>12 DEF PromisesCovered

-----------------------------------------------------------------------------
(* Reading the document fills no Map yet; a read that fails leaves every   *)
(* number in doubt.                                                        *)
LEMMA ReadKeeps ==
  ASSUME PromisesCovered, ReadRow \/ RowUnreadable \/ ReadFile \/ LoadFails
  PROVE  PromisesCovered'
<1>0. /\ TypeOK /\ SavesAreNumbered /\ OptOutsAreDurable /\ PendingTextsAgree
      /\ MemoryAgrees /\ LaterTextsAgree /\ MirrorsFollowFile /\ AloneIsAlone
  BY DEF PromisesCovered
<1>1. /\ UNCHANGED <<fixedVars, entries, savingVars, storeVars, blastVars, crashes>>
      /\ UNCHANGED toldVars \/ (told' = told /\ exposed' = Numbers)
      /\ load # "over"
  BY DEF ReadRow, RowUnreadable, ReadFile, LoadFails
<1>2. /\ backend' = backend /\ snapshot' = snapshot /\ entries' = entries /\ saves' = saves
      /\ save' = save /\ calls' = calls /\ disk' = disk /\ row' = row
      /\ todo' = todo /\ marked' = marked /\ texting' = texting /\ crashes' = crashes
  BY <1>1 DEF fixedVars, savingVars, storeVars, blastVars
<1>k. kept' = kept \/ kept' = AllInDoubt
  BY <1>1, KeptStays
<1>3. \A t : \A n \in Numbers : Agrees(n, t) => (kept'[n] = "in" => n \in t)
                                           /\ (kept'[n] = "out" => n \notin t)
  BY <1>k DEF Agrees, AllInDoubt
<1>4. AllInDoubt' = AllInDoubt
  BY DEF AllInDoubt
<1>5. TypeOK'
  <2>1. faults' \in Nat
    BY <1>0 DEF ReadRow, RowUnreadable, ReadFile, LoadFails, Fault, TypeOK
  <2>2. told' \in [Numbers -> {"in", "out", "either"}] /\ exposed' \subseteq Numbers
    BY <1>0, <1>1 DEF TypeOK, toldVars
  <2>3. load' \in {"row", "file", "read", "over"} /\ read' \in Docs
    BY <1>0 DEF ReadRow, RowUnreadable, ReadFile, LoadFails, TypeOK
  <2> QED BY <1>0, <1>2, <2>1, <2>2, <2>3 DEF TypeOK
<1>6. SavesAreNumbered' /\ LaterTextsAgree' /\ MirrorsFollowFile' /\ AloneIsAlone'
  BY <1>0, <1>2 DEF SavesAreNumbered, LaterTextsAgree, MirrorsFollowFile, AloneIsAlone, Open,
                    LastOfItsNumber, Doc
<1>7. OptOutsAreDurable'
  <2>1. Recover' = Recover
    BY <1>2 DEF Recover
  <2> QED BY <1>0, <1>3, <2>1 DEF OptOutsAreDurable, Agrees
<1>8. PendingTextsAgree'
  BY <1>0, <1>2, <1>3 DEF PendingTextsAgree, Pending, Agrees
<1>9. \A c \in Saves : Open(c)' => save'[c].early
  BY <1>0, <1>1, <1>2 DEF MemoryAgrees, Open
<1>10. /\ entries' = {} \/ kept' = AllInDoubt
       /\ (backend' = "postgres" /\ ~row'.there) => kept' = AllInDoubt
  <2>1. entries = {} \/ kept = AllInDoubt
    BY <1>0, <1>1 DEF MemoryAgrees
  <2>2. (backend = "postgres" /\ ~row.there) => kept = AllInDoubt
    BY <1>0 DEF MemoryAgrees
  <2>3. kept = AllInDoubt => kept' = AllInDoubt
    BY <1>k
  <2>4. backend' = backend /\ row' = row /\ entries' = entries
    BY <1>2
  <2> QED BY <2>1, <2>2, <2>3, <2>4
<1>11. MemoryAgrees'
  <2>1. CASE ReadRow
    <3>1. kept' = kept /\ load = "row" /\ backend = "postgres"
      BY <1>0, <2>1, KeptStays DEF ReadRow, MemoryAgrees
    <3>2. CASE row.there
      <4>1. load' = "read" /\ read' = row /\ Recover = row
        BY <2>1, <3>1, <3>2 DEF ReadRow, Recover
      <4>2. \A n \in Numbers : Agrees(n, read.set)'
        BY <1>0, <3>1, <4>1 DEF OptOutsAreDurable, Agrees
      <4> QED BY <1>9, <1>10, <4>1, <4>2 DEF MemoryAgrees
    <3>3. CASE ~row.there
      <4>1. load' = "file" /\ kept' = AllInDoubt
        BY <1>0, <2>1, <3>1, <3>3, KeptStays DEF ReadRow, MemoryAgrees
      <4> QED BY <1>4, <1>9, <1>10, <4>1 DEF MemoryAgrees
    <3> QED BY <3>2, <3>3
  <2>2. CASE RowUnreadable
    <3>1. load' = "file" /\ kept' = AllInDoubt
      BY <2>2, KeptStays DEF RowUnreadable
    <3> QED BY <1>4, <1>9, <1>10, <3>1 DEF MemoryAgrees
  <2>3. CASE ReadFile
    <3>1. load = "file" /\ load' = "read" /\ read' = disk /\ kept' = kept
      BY <2>3, KeptStays DEF ReadFile
    <3>2. \A n \in Numbers : Agrees(n, disk.set)
      <4>1. CASE backend = "postgres"
        BY <1>0, <3>1, <4>1 DEF MemoryAgrees, AllInDoubt, Agrees
      <4>2. CASE backend # "postgres"
        BY <1>0, <4>2 DEF OptOutsAreDurable, Recover
      <4> QED BY <4>1, <4>2
    <3>3. \A n \in Numbers : Agrees(n, read.set)'
      BY <3>1, <3>2 DEF Agrees
    <3> QED BY <1>9, <1>10, <3>1, <3>3 DEF MemoryAgrees
  <2>4. CASE LoadFails
    <3>1. load' = "over" /\ kept' = AllInDoubt
      BY <2>4, KeptStays DEF LoadFails
    <3>2. \A n \in Numbers : Agrees(n, entries)'
      BY <3>1 DEF AllInDoubt, Agrees
    <3> QED BY <1>10, <3>1, <3>2 DEF MemoryAgrees
  <2> QED BY <2>1, <2>2, <2>3, <2>4
<1> QED BY <1>5, <1>6, <1>7, <1>8, <1>11 DEF PromisesCovered

(* The Map becomes what was read, and every save under way is an early one *)
(* that no promise follows.                                                *)
LEMMA LoadKeeps ==
  ASSUME PromisesCovered, LoadApplies
  PROVE  PromisesCovered'
<1>0. /\ TypeOK /\ SavesAreNumbered /\ OptOutsAreDurable /\ PendingTextsAgree
      /\ MemoryAgrees /\ LaterTextsAgree /\ MirrorsFollowFile /\ AloneIsAlone
  BY DEF PromisesCovered
<1>1. /\ load = "read" /\ load' = "over" /\ read' = NoDoc
      /\ backend' = backend /\ snapshot' = snapshot /\ disk' = disk /\ row' = row
      /\ told' = told /\ exposed' = exposed
      /\ kept' = kept /\ todo' = todo /\ marked' = marked /\ texting' = texting
      /\ faults' = faults /\ crashes' = crashes
      /\ UNCHANGED <<fixedVars, storeVars>>
  BY KeptStays DEF LoadApplies, fixedVars, storeVars, blastVars, toldVars
<1>2. \A n \in Numbers : Agrees(n, read.set)
  BY <1>0, <1>1 DEF MemoryAgrees
<1>3. \A d \in Saves : Open(d) => save[d].early
  BY <1>0, <1>1 DEF MemoryAgrees
<1>4. OptOutsAreDurable'
  <2>1. Recover' = Recover
    BY <1>1 DEF Recover
  <2> QED BY <1>0, <1>1, <2>1 DEF OptOutsAreDurable, Agrees
<1>5. (backend' = "postgres" /\ ~row'.there) => kept' = AllInDoubt'
  BY <1>0, <1>1 DEF MemoryAgrees, AllInDoubt
<1>6. read' \in Docs
  BY <1>1 DEF Docs
<1>7. CASE read.there
  <2>1. entries' = read.set /\ saves' = saves /\ save' = save /\ calls' = calls
    BY <1>7 DEF LoadApplies, savingVars
  <2>2. read.set \in SUBSET Numbers
    BY <1>0 DEF TypeOK, Docs, Doc, NoDoc
  <2>3. TypeOK'
    BY <1>0, <1>1, <1>6, <2>1, <2>2 DEF TypeOK
  <2>4. MemoryAgrees'
    BY <1>1, <1>2, <1>5, <2>1 DEF MemoryAgrees, Agrees
  <2>5. LaterTextsAgree'
    BY <1>3, <2>1 DEF LaterTextsAgree, Open
  <2>6. SavesAreNumbered' /\ MirrorsFollowFile' /\ AloneIsAlone' /\ PendingTextsAgree'
    BY <1>0, <1>1, <2>1 DEF SavesAreNumbered, MirrorsFollowFile, AloneIsAlone, PendingTextsAgree,
                            Pending, Open, Agrees, Doc
  <2> QED BY <1>4, <2>3, <2>4, <2>5, <2>6 DEF PromisesCovered
<1>8. CASE ~read.there
  <2>1. entries' = entries /\ StartSave(entries, Nobody)
    BY <1>8 DEF LoadApplies
  <2>2. PICK c : c = saves + 1
    OBVIOUS
  <2>3. entries \in SUBSET Numbers /\ Nobody \in Numbers \union {Nobody}
    BY <1>0 DEF TypeOK
  <2>4. /\ c \in Saves /\ save' \in [Saves -> SaveRecords] /\ saves' \in 0..MaxSaves
        /\ calls' \in Nat
        /\ save'[c].text = entries /\ save'[c].number = Nobody
        /\ (Early(c)' <=> load # "over") /\ Open(c)'
        /\ \A d \in Saves : d # c =>
             /\ save'[d].at = save[d].at /\ save'[d].text = save[d].text
             /\ save'[d].number = save[d].number /\ Early(d)' = Early(d)
             /\ Open(d)' = Open(d) /\ Pending(d)' = Pending(d)
        /\ SavesAreNumbered' /\ MirrorsFollowFile' /\ AloneIsAlone'
    BY <1>1, <2>1, <2>2, <2>3, StartKeeps
  <2>5. \A n \in Numbers : Agrees(n, entries)
    <3>1. read.set = {}
      BY <1>0, <1>8 DEF TypeOK, Docs, Doc, NoDoc
    <3>2. entries = {} \/ kept = AllInDoubt
      BY <1>0, <1>1 DEF MemoryAgrees
    <3> QED BY <1>2, <3>1, <3>2, DoubtAgrees
  <2>6. TypeOK'
    BY <1>0, <1>1, <1>6, <2>1, <2>4 DEF TypeOK
  <2>7. MemoryAgrees'
    BY <1>1, <1>5, <2>1, <2>5 DEF MemoryAgrees, Agrees
  <2>8. LaterTextsAgree'
    BY <1>3, <2>4 DEF LaterTextsAgree, Early
  <2>9. PendingTextsAgree'
    <3> SUFFICES ASSUME NEW d \in Saves, NEW m \in Numbers, Pending(d)'
                 PROVE  Agrees(m, save[d].text)'
      BY DEF PendingTextsAgree
    <3>1. Agrees(m, save'[d].text)
      <4>1. CASE d = c
        BY <2>4, <2>5, <4>1
      <4>2. CASE d # c
        BY <1>0, <2>4, <4>2 DEF PendingTextsAgree
      <4> QED BY <4>1, <4>2
    <3> QED BY <1>1, <3>1 DEF Agrees
  <2> QED BY <1>4, <2>4, <2>6, <2>7, <2>8, <2>9 DEF PromisesCovered
<1> QED BY <1>7, <1>8

(* What a crash leaves is what a boot would have read, or a text that      *)
(* agrees with every promise.                                              *)
LEMMA CrashKeeps ==
  ASSUME PromisesCovered, Crash
  PROVE  PromisesCovered'
<1>0. TypeOK /\ SavesAreNumbered /\ OptOutsAreDurable /\ PendingTextsAgree /\ MemoryAgrees
  BY DEF PromisesCovered
<1>1. /\ backend' = backend /\ snapshot' = snapshot /\ saves' = saves /\ calls' = calls
      /\ disk' = disk /\ kept' = kept /\ faults' = faults
      /\ told' = told /\ exposed' = exposed
      /\ load' = FirstRead /\ read' = NoDoc /\ entries' = {}
      /\ todo' = {} /\ marked' = {} /\ texting' = Nobody
  BY KeptStays DEF Crash, fixedVars, toldVars
<1>2. save' = [c \in Saves |-> IF c <= saves THEN Past ELSE Unused]
  BY DEF Crash
<1>3. Past \in SaveRecords /\ Unused \in SaveRecords /\ Past.at = "past" /\ Unused.at = "unused"
  BY DEF Past, Unused, SaveRecords
<1>4. \A c \in Saves : save'[c].at = IF c <= saves THEN "past" ELSE "unused"
  BY <1>2, <1>3
<1>5. \A c \in Saves : ~Open(c)' /\ ~Pending(c)' /\ save'[c].at # "mirror"
  BY <1>4 DEF Open, Pending
<1>6. row' = row \/ \E c \in Saves : /\ save[c].at \in {"row", "mirror"}
                                     /\ row' = Doc(save[c].text)
  BY DEF Crash
<1>7. TypeOK'
  <2>1. row' \in Docs
    <3>1. \A c \in Saves : save[c].text \in SUBSET Numbers
      BY <1>0 DEF TypeOK, SaveRecords
    <3> QED BY <1>0, <1>6, <3>1 DEF TypeOK, Docs
  <2>2. save' \in [Saves -> SaveRecords]
    BY <1>2, <1>3
  <2>3. load' \in {"row", "file", "read", "over"}
    BY <1>1 DEF FirstRead
  <2>4. crashes' \in Nat
    BY <1>0 DEF Crash, TypeOK
  <2>5. read' \in Docs
    BY <1>1 DEF Docs
  <2> QED BY <1>0, <1>1, <2>1, <2>2, <2>3, <2>4, <2>5 DEF TypeOK
<1>8. SavesAreNumbered'
  <2>1. \A c \in Saves : (save'[c].at = "unused") <=> (c > saves')
    <3>1. saves \in Nat /\ saves' = saves /\ \A c \in Saves : c \in Nat
      BY <1>0, <1>1, SavesArePositive DEF TypeOK
    <3>2. \A c \in Saves : (c > saves) <=> ~(c <= saves)
      BY <3>1
    <3> QED BY <1>4, <3>1, <3>2
  <2> QED BY <1>0, <1>1, <1>5, <2>1 DEF SavesAreNumbered
<1>9. OptOutsAreDurable'
  <2> SUFFICES ASSUME NEW n \in Numbers PROVE Agrees(n, Recover'.set)
    BY <1>1 DEF OptOutsAreDurable, Agrees
  <2>1. Agrees(n, Recover.set)
    BY <1>0 DEF OptOutsAreDurable
  <2>2. CASE backend # "postgres" \/ row' = row
    BY <1>1, <2>1, <2>2 DEF Recover
  <2>3. CASE backend = "postgres" /\ row' # row
    <3>1. PICK c \in Saves : save[c].at \in {"row", "mirror"} /\ row' = Doc(save[c].text)
      BY <1>6, <2>3
    <3>2. Pending(c)
      BY <1>0, <2>3, <3>1 DEF Pending, SavesAreNumbered
    <3>3. Recover'.set = save[c].text
      BY <1>1, <2>3, <3>1 DEF Recover, Doc
    <3> QED BY <1>0, <3>2, <3>3 DEF PendingTextsAgree
  <2> QED BY <2>2, <2>3
<1>10. MemoryAgrees'
  <2>1. (backend = "postgres" /\ ~row'.there) => kept = AllInDoubt
    BY <1>0, <1>6 DEF MemoryAgrees, Doc
  <2>2. load' = IF backend = "postgres" THEN "row" ELSE "file"
    BY <1>1 DEF FirstRead
  <2>3. AllInDoubt' = AllInDoubt
    BY DEF AllInDoubt
  <2> QED BY <1>1, <1>5, <2>1, <2>2, <2>3 DEF MemoryAgrees
<1>11. PendingTextsAgree' /\ LaterTextsAgree' /\ MirrorsFollowFile' /\ AloneIsAlone'
  BY <1>5 DEF PendingTextsAgree, LaterTextsAgree, MirrorsFollowFile, AloneIsAlone
<1> QED BY <1>7, <1>8, <1>9, <1>10, <1>11 DEF PromisesCovered

(* A broadcast only reads the list.                                        *)
LEMMA BroadcastKeeps ==
  ASSUME PromisesCovered,
         StartBroadcast \/ (\E n \in Numbers : BroadcastNext(n)) \/ TextSettles \/ UNCHANGED vars
  PROVE  PromisesCovered'
<1>0. /\ TypeOK /\ SavesAreNumbered /\ OptOutsAreDurable /\ PendingTextsAgree
      /\ MemoryAgrees /\ LaterTextsAgree /\ MirrorsFollowFile /\ AloneIsAlone
  BY DEF PromisesCovered
<1>1. /\ backend' = backend /\ snapshot' = snapshot
      /\ load' = load /\ read' = read /\ entries' = entries
      /\ saves' = saves /\ save' = save /\ calls' = calls
      /\ disk' = disk /\ row' = row /\ kept' = kept /\ faults' = faults /\ crashes' = crashes
      /\ told' = told /\ exposed' = exposed
  BY KeptStays DEF StartBroadcast, BroadcastNext, TextSettles, vars, fixedVars, listVars,
         savingVars, storeVars, toldVars
<1>2. todo' \subseteq Numbers /\ marked' \subseteq Numbers /\ texting' \in Numbers \union {Nobody}
  BY <1>0 DEF StartBroadcast, BroadcastNext, TextSettles, TypeOK, vars, blastVars
<1>3. TypeOK'
  BY <1>0, <1>1, <1>2 DEF TypeOK
<1>4. OptOutsAreDurable' /\ PendingTextsAgree' /\ MemoryAgrees'
  BY <1>0, <1>1 DEF OptOutsAreDurable, Recover, PendingTextsAgree, Pending, MemoryAgrees, Agrees,
                    Open, AllInDoubt
<1>5. SavesAreNumbered' /\ LaterTextsAgree' /\ MirrorsFollowFile' /\ AloneIsAlone'
  BY <1>0, <1>1 DEF SavesAreNumbered, LaterTextsAgree, MirrorsFollowFile, AloneIsAlone, Open,
                    LastOfItsNumber, Doc
<1> QED BY <1>3, <1>4, <1>5 DEF PromisesCovered

-----------------------------------------------------------------------------
LEMMA StepKeeps == PromisesCovered /\ [Next]_vars => PromisesCovered'
<1> SUFFICES ASSUME PromisesCovered, [Next]_vars PROVE PromisesCovered'
  OBVIOUS
<1>1. CASE \E n \in Numbers : AddSuppression(n) \/ RemoveSuppression(n)
  BY <1>1, ChangeKeeps
<1>2. CASE \E c \in Saves : FileWritten(c) \/ FileFails(c)
  BY <1>2, FileStepKeeps
<1>3. CASE \E c \in Saves : Mirror(c)
  BY <1>3, MirrorKeeps
<1>4. CASE \E c \in Saves : RowWritten(c) \/ RowFails(c)
  BY <1>4, RowStepKeeps
<1>5. CASE ReadRow \/ RowUnreadable \/ ReadFile \/ LoadFails
  BY <1>5, ReadKeeps
<1>6. CASE LoadApplies
  BY <1>6, LoadKeeps
<1>7. CASE Crash
  BY <1>7, CrashKeeps
<1>8. CASE StartBroadcast \/ (\E n \in Numbers : BroadcastNext(n)) \/ TextSettles
           \/ UNCHANGED vars
  BY <1>8, BroadcastKeeps
<1> QED BY <1>1, <1>2, <1>3, <1>4, <1>5, <1>6, <1>7, <1>8 DEF Next

(* No text on its way to the document takes back what a caller of          *)
(* addSuppression or removeSuppression was told, and the Map of a loaded   *)
(* list says the same as the callers were told.                            *)
THEOREM AlwaysPromisesCovered == Spec => []PromisesCovered
<1>1. Init => PromisesCovered
  BY InitCovered
<1>2. PromisesCovered /\ [Next]_vars => PromisesCovered'
  BY StepKeeps
<1> QED BY <1>1, <1>2, PTL DEF Spec

(* On every backend, what a caller was told of a number, opted out or back *)
(* in, is in the document that the next boot reads.  The exceptions are    *)
(* the numbers in `exposed`: a change made before the load was over, a     *)
(* boot that could not read, and in Postgres a save that overlapped        *)
(* another or went to the file because its row could not be written.       *)
THEOREM AlwaysOptOutsAreDurable == Spec => []OptOutsAreDurable
<1>1. PromisesCovered => OptOutsAreDurable
  BY DEF PromisesCovered
<1> QED BY <1>1, AlwaysPromisesCovered, PTL

(* The recipient a broadcast goes on to is not in the Map, and the Map of  *)
(* a loaded list has every number whose opt-out was acknowledged.          *)
LEMMA NextIsNotOptedOut ==
  ASSUME PromisesCovered, [Next]_vars, texting' # Nobody, texting' # texting, load = "over"
  PROVE  kept[texting'] # "in"
<1>1. PICK n \in Numbers : BroadcastNext(n)
  BY DEF Next, AddSuppression, RemoveSuppression, Change, FileWritten, FileFails, Mirror,
         RowWritten, RowFails, ReadRow, RowUnreadable, ReadFile, LoadFails, LoadApplies,
         StartBroadcast, TextSettles, Crash, vars, blastVars
<1>2. texting' = n /\ n \notin entries
  BY <1>1 DEF BroadcastNext, Sendable
<1>3. kept[n] = "in" => n \in entries
  BY DEF PromisesCovered, MemoryAgrees, Agrees
<1> QED BY <1>2, <1>3

(* Once the list is loaded, no broadcast begins a text to a number whose   *)
(* opt-out was acknowledged and is not exposed, however saves, faults and  *)
(* crashes went.                                                           *)
THEOREM AlwaysNoTextAfterStop == Spec => NoTextAfterStop
<1>1. PromisesCovered /\ [Next]_vars =>
        [(texting' # Nobody /\ texting' # texting /\ load = "over") => kept[texting'] # "in"]_vars
  BY NextIsNotOptedOut
<1> QED BY <1>1, AlwaysPromisesCovered, PTL DEF Spec, NoTextAfterStop
=============================================================================
