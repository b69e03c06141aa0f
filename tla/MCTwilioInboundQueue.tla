------------------------ MODULE MCTwilioInboundQueue ------------------------
(* Instances of TwilioInboundQueue for TLC: interchangeable texts.         *)
EXTENDS TwilioInboundQueue, TLC

SidSymmetry == Permutations(Sids)
=============================================================================
