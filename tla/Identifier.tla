----------------------------- MODULE Identifier -----------------------------
(***************************************************************************)
(* packages/ravens/src/id/id.ts: ids that sort by the time they were drawn *)
(* - messages and parts ascending, sessions descending - and what          *)
(* packages/ravens/src/tool/truncate.ts reads out of them: the age of the  *)
(* files it keeps for a week.                                              *)
(*                                                                         *)
(* An id is the milliseconds times 4096 plus a counter, cut to 48 bits     *)
(* (Ticks * PerTick = 2^48); random digits after them are left out.  The   *)
(* counter starts again whenever the time is not the one of the last id,   *)
(* be it later or earlier.                                                 *)
(***************************************************************************)
EXTENDS Integers, Sequences

CONSTANTS
    PerTick,      \* 0x1000
    Ticks,        \* milliseconds until the 48 bits are used up: 2^36
    Retention,    \* of a file
    MaxClock,     \* bound on the clock
    MaxDraws,     \* bound on the ids
    MaxRestarts   \* bound on what sets the last timestamp back

ASSUME IdAssumption ==
    /\ PerTick \in Nat \ {0} /\ Ticks \in Nat \ {0}
    /\ {Retention, MaxClock, MaxDraws, MaxRestarts} \subseteq Nat

VARIABLES
    clock,           \* Date.now(), or when the process started
    lastTimestamp,
    counter,
    drawn,           \* the ids, in the order of drawing
    stored,          \* the places of those that are files
    restarts         \* how often the last timestamp went back

idVars == <<clock, lastTimestamp, counter, drawn, stored, restarts>>

Directions == {"ascending", "descending"}
Cut(n)     == n % (Ticks * PerTick)

IdTypeOK ==
    /\ clock \in Nat
    /\ lastTimestamp \in Nat
    /\ counter \in Nat
    /\ drawn \in Seq([bits : Nat, ms : Nat, count : Nat, way : Directions, restarts : Nat])
    /\ stored \subseteq DOMAIN drawn
    /\ restarts \in Nat

IdInit ==
    /\ clock \in Retention .. MaxClock
    /\ lastTimestamp = 0
    /\ counter = 0
    /\ drawn = <<>>
    /\ stored = {}
    /\ restarts = 0

-----------------------------------------------------------------------------
\* Variant: the counter is always started again.
CountsNothing(ms) ==
    /\ counter' = 1
    /\ lastTimestamp' = ms
    /\ restarts' = IF ms < lastTimestamp THEN restarts + 1 ELSE restarts

\* The counter of an id for time ms.
Counts(ms) ==
    /\ counter' = IF ms = lastTimestamp THEN counter + 1 ELSE 1
    /\ lastTimestamp' = ms
    /\ restarts' = IF ms < lastTimestamp THEN restarts + 1 ELSE restarts

\* The first twelve digits of an id; ~n of a BigInt is -n - 1.
Bits(ms, count, way) ==
    LET now == ms * PerTick + count
    IN  Cut(IF way = "descending" THEN -now - 1 ELSE now)

\* timestamp(id)
TimestampOf(bits) == bits \div PerTick

\* create: an id of now; the ascending ones of tools may be the name of a file.
Draw(way, file) ==
    /\ Len(drawn) < MaxDraws
    /\ file => way = "ascending"
    /\ Counts(clock)
    /\ drawn' = Append(drawn, [bits |-> Bits(clock, counter', way), ms |-> clock, count |-> counter',
                               way |-> way, restarts |-> restarts'])
    /\ stored' = IF file THEN stored \cup {Len(drawn')} ELSE stored
    /\ UNCHANGED clock

\* Variant: what was made at the time of the cutoff goes, too.
CleanupWithCutoff ==
    /\ clock >= Retention
    /\ Counts(clock - Retention)
    /\ LET cutoff == TimestampOf(Bits(clock - Retention, counter', "ascending"))
       IN  stored' = {i \in stored : TimestampOf(drawn[i].bits) > cutoff}
    /\ UNCHANGED <<clock, drawn>>

\* Truncate.cleanup, every hour: the cutoff is read out of an id that is made for
\* a week ago - by the same counter.
Cleanup ==
    /\ clock >= Retention
    /\ Counts(clock - Retention)
    /\ LET cutoff == TimestampOf(Bits(clock - Retention, counter', "ascending"))
       IN  stored' = {i \in stored : TimestampOf(drawn[i].bits) >= cutoff}
    /\ UNCHANGED <<clock, drawn>>

Tick ==
    /\ clock < MaxClock
    /\ clock' = clock + 1
    /\ UNCHANGED <<lastTimestamp, counter, drawn, stored, restarts>>

\* The clock of the machine is set back.
StepBack ==
    /\ clock > Retention
    /\ clock' = clock - 1
    /\ UNCHANGED <<lastTimestamp, counter, drawn, stored, restarts>>

\* Another process goes on with the database and the files.
RestartProcess ==
    /\ counter > 0
    /\ lastTimestamp' = 0
    /\ counter' = 0
    /\ restarts' = restarts + 1
    /\ UNCHANGED <<clock, drawn, stored>>

\* The bounds of the instance: a counter may get one too large.
InBounds == restarts' <= MaxRestarts /\ counter' <= PerTick

IdNext ==
  /\ \/ \E way \in Directions, file \in BOOLEAN : Draw(way, file)
     \/ Cleanup \/ Tick \/ StepBack \/ RestartProcess
  /\ InBounds

IdSpec == IdInit /\ [][IdNext]_idVars

-----------------------------------------------------------------------------
\* a was drawn before b and has to sort before it: the clock has gone on, or it is
\* the same millisecond and the counter was not set back in between - by a clock
\* that went back and forth, by a new process, or by the cutoff of a cleanup.
\* Not more ids than the counter has room for, and the 48 bits have not wrapped.
Ordered(a, b) ==
    /\ a.ms < b.ms \/ (a.ms = b.ms /\ a.restarts = b.restarts)
    /\ a.count < PerTick /\ b.count < PerTick
    /\ a.ms \div Ticks = b.ms \div Ticks

\* Ids of one kind sort in the order they were drawn.
IdsFollowTime ==
    \A i, j \in DOMAIN drawn :
        i < j /\ Ordered(drawn[i], drawn[j]) /\ drawn[i].way = drawn[j].way =>
            IF drawn[i].way = "ascending"
            THEN drawn[i].bits < drawn[j].bits
            ELSE drawn[i].bits > drawn[j].bits

\* Ids fit their bits and sort by time, whatever the clock, the counter and the process did.
IdContract == IdTypeOK /\ IdsFollowTime

\* A cleanup removes the files that are older than the retention and no others,
\* unless the 48 bits wrapped between a file and the cutoff.
OnlyOldFilesGo ==
    [][Cleanup /\ counter' < PerTick =>
         \A i \in stored :
            /\ drawn[i].count < PerTick
            /\ drawn[i].ms \div Ticks = (clock - Retention) \div Ticks
            => (i \notin stored' <=> drawn[i].ms < clock - Retention)]_idVars
=============================================================================
