---------------------------- MODULE MCRateLimiter ----------------------------
(***************************************************************************)
(* Rate limit configurations; memory is counted in small units.            *)
(***************************************************************************)
EXTENDS RateLimiter

\* A minimum and a maximum, and memory for more than the maximum.
Limited == [decay |-> 2, minLimit |-> 1, maxLimit |-> 2,
            maxAvailable |-> 0, minMemory |-> 1, headroom |-> 1]

\* No maximum, and a cap on the total memory that leaves two slots.
Slotted == [Limited EXCEPT !.maxLimit = 0, !.maxAvailable = 4, !.minMemory = 2]

\* No minimum limit.
NoMinimum == [Limited EXCEPT !.minLimit = 0, !.maxLimit = 1]

\* A minimum above the maximum.
Inverted == [Limited EXCEPT !.minLimit = 2, !.maxLimit = 1]

\* The minimum of memory per browser disabled.
NoMinimumMemory == [Limited EXCEPT !.minMemory = 0]

\* Memory for no more than the minimum, and an average that forgets everything
\* but the last browser: the limiter may lock up.
Tight == [Limited EXCEPT !.decay = 1, !.maxLimit = 0, !.minMemory = 6]

AllLimiterConfigs == {Limited, Slotted, NoMinimum, Inverted, Tight}
LimitedOnly == {Limited}
NoMinimumMemoryOnly == {NoMinimumMemory}

=============================================================================
