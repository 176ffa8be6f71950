------------------------------ MODULE CommandLog ------------------------------
(***************************************************************************)
(* What the regional single writer promises to its callers and to the live *)
(* map, without calls, revisions, receipts, hashes or retries: per region   *)
(* one log of commands that only grows, in which no command occurs twice,   *)
(* stamped with times that never run behind the world; and a view that only *)
(* ever shows prefixes of these logs. RegionalWriter implements it.         *)
(***************************************************************************)
EXTENDS Naturals, Sequences

CONSTANTS Regions, Commands

VARIABLES
    world,          \* the regions that exist
    log,            \* per region the commands that took effect, in order
    time,           \* per region the simulation time reached
    view            \* per region the part of the log that is shown, <<>> if none

vars == <<world, log, time, view>>

Distinct(s) == \A i, k \in DOMAIN s : s[i] = s[k] => i = k

\* t continues s.
Continues(t, s) == Len(s) <= Len(t) /\ \A i \in 1 .. Len(s) : t[i] = s[i]

\* Only region r changes, and its new time is not behind any region of the world.
Stamps(r) ==
    /\ time'[r] \in Nat
    /\ time' = [time EXCEPT ![r] = time'[r]]
    /\ \A q \in world : time[q] <= time'[r]

Init ==
    /\ world = {}
    /\ log = [r \in Regions |-> <<>>]
    /\ time = [r \in Regions |-> 0]
    /\ view = [r \in Regions |-> <<>>]

\* A region comes into being, with an empty log.
Found(r) ==
    /\ r \notin world
    /\ world' = world \cup {r}
    /\ Stamps(r)
    /\ UNCHANGED <<log, view>>

\* One or more commands take effect in region r, none of them for the second time.
Extend(r) ==
    /\ r \in world
    /\ log'[r] \in Seq(Commands)
    /\ log' = [log EXCEPT ![r] = log'[r]]
    /\ Len(log'[r]) > Len(log[r])
    /\ Continues(log'[r], log[r])
    /\ Distinct(log'[r])
    /\ Stamps(r)
    /\ UNCHANGED <<world, view>>

\* The view changes, to anything that really happened.
Show ==
    /\ view' \in [Regions -> Seq(Commands)]
    /\ \A r \in Regions : Continues(log[r], view'[r])
    /\ UNCHANGED <<world, log, time>>

Next ==
    \/ \E r \in Regions : Found(r) \/ Extend(r)
    \/ Show

Spec == Init /\ [][Next]_vars
=============================================================================
