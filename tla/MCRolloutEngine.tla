-------------------------- MODULE MCRolloutEngine --------------------------
EXTENDS RolloutEngine

CONSTANTS s1, s2, a, b, narrator

TwoSamples == {s1, s2}
ThreeNames == {a, b, narrator}
=============================================================================
