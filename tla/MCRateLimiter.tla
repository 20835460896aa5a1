---------------------------- MODULE MCRateLimiter ----------------------------
\* A small instance of RateLimiter for TLC.
EXTENDS RateProperties, TLC

WorkerSymmetry == Permutations(Workers)
=============================================================================
