------------------------------- MODULE WallClock -------------------------------
(***************************************************************************)
(* The wall clock (SystemTime, grants.rs now_millis) and the durations     *)
(* that grants, decisions and denials are given by it.  One unit stands    *)
(* for any number of milliseconds.                                         *)
(***************************************************************************)
EXTENDS Integers

CONSTANTS MaxTime,         \* bound: last value the clock takes
          MaxGrant,        \* MAX_GRANT_SECONDS
          DefaultGrant,    \* DEFAULT_GRANT_SECONDS
          GrantExtension,  \* GRANT_EXTENSION_SECONDS
          ClockMayStepBack \* may the clock be set back?

ASSUME DurationAssumption ==
    /\ MaxTime \in Nat
    /\ MaxGrant \in Nat \ {0}
    /\ DefaultGrant \in 1..MaxGrant
    /\ GrantExtension \in 1..MaxGrant
    /\ ClockMayStepBack \in BOOLEAN

VARIABLE now

\* The durations validated_grant_seconds() and add() accept.
ValidSeconds == 1..MaxGrant

\* Variant of ExtendedExpiry without the cap of min().
UncappedExpiry(expires) == expires + GrantExtension

\* Both kinds of grant are extended the same way: by one extension, but never
\* to more than a maximal grant from now.
ExtendedExpiry(expires) ==
    IF expires + GrantExtension < now + MaxGrant
      THEN expires + GrantExtension
      ELSE now + MaxGrant

\* The clock moves on, or is set back by the user or by a time server.
TimePasses ==
    \E t \in 0..MaxTime :
       /\ t > now \/ ClockMayStepBack
       /\ now' = t
=============================================================================
