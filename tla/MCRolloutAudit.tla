-------------------------- MODULE MCRolloutAudit --------------------------
EXTENDS RolloutAudit

CONSTANTS alice, bob

TwoCharacters == <<alice, bob>>

\* Prompt, completion and padding, and each of them with one thing wrong.
EightTokens ==
  {[active |-> 1, mask |-> 0, logprob |-> 0, version |-> -1],
   [active |-> 1, mask |-> 1, logprob |-> -1, version |-> 0],
   [active |-> 0, mask |-> 0, logprob |-> 0, version |-> -1],
   [active |-> 0, mask |-> 1, logprob |-> 0, version |-> -1],
   [active |-> 1, mask |-> 2, logprob |-> -1, version |-> 0],
   [active |-> 1, mask |-> 1, logprob |-> 77, version |-> 0],
   [active |-> 1, mask |-> 1, logprob |-> -1, version |-> -1],
   [active |-> 1, mask |-> 0, logprob |-> -1, version |-> -1]}

FiveFaults ==
  {[tensor |-> "mask", position |-> 1], [tensor |-> "logprob", position |-> 2],
   [tensor |-> "advantage", position |-> 3], [tensor |-> "total", position |-> 1],
   [tensor |-> "kl", position |-> 2]}
=============================================================================
