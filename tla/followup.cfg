SPECIFICATION Spec
CONSTANT Rungs = 2
INVARIANTS AtMostOneLateTouch LadderIsSpent OwnerSequenceHasSale
PROPERTY RungTwiceHasReason
VIEW Counted
