----------------------------- MODULE DupeChecker -----------------------------
(***************************************************************************)
(* The duplicate check an envelope passes before its transport sends it    *)
(* (src/custom_components/supernotify/common.py), and the cache of bounded *)
(* size and age, cachetools' TTLCache, that it keeps what it checked in.   *)
(*                                                                         *)
(* A message here is all an envelope's hash tells apart: its text without  *)
(* digits and punctuation, its title, its delivery and its targets.  An    *)
(* envelope sent with force_resend is not checked and leaves no trace.     *)
(***************************************************************************)
EXTENDS Integers, FiniteSets

CONSTANTS
    Messages,             \* what the hashes of envelopes tell apart
    Ranks,                \* the ranks of priorities, higher for more urgent
    Policy,               \* the configured dupe_policy
    Size,                 \* the configured size of the cache
    Ttl,                  \* the configured time to live
    MaxClock,             \* bound on the clock
    MaxChecks             \* bound on the number of checks

\* A cache of size 0, which the configuration allows, makes every write to it raise.
ASSUME DupeCheckerAssumption ==
    /\ Ranks \subseteq Nat
    /\ Policy \in {"none", "same_or_lower_priority", "same"}
    /\ Size \in Nat \ {0}
    /\ Ttl \in Nat
    /\ MaxClock \in Nat
    /\ MaxChecks \in Nat

VARIABLES
    clock,                \* the clock the cache ages by
    cache,                \* the entries of the cache
    checked               \* every check made so far and what it found

cacheVars == <<clock, cache, checked>>

Entries == [message : Messages, rank : Ranks, turn : Nat, expires : Nat]
Checks == [message : Messages, rank : Ranks, turn : Nat, at : Nat, dupe : BOOLEAN]

SameEntry(x, y) == x.message = y.message /\ x.rank = y.rank

\* Whether an earlier message x makes one of this rank a duplicate.
Suppresses(x, message, rank) ==
    x.message = message /\ (Policy = "same" \/ x.rank >= rank)

-----------------------------------------------------------------------------
(* TTLCache.                                                               *)

Live == {e \in cache : clock < e.expires}

\* The entry written longest ago, which is the one evicted.
Oldest(S) == {e \in S : \A f \in S : e.turn <= f.turn}

\* Mutant: the cache has no bound on its size.
WriteUnbounded(e) == {f \in Live : ~SameEntry(e, f)} \cup {e}

\* Mutant: a full cache forgets the entry written last.
WriteForgettingNewest(e) ==
    LET others == {f \in Live : ~SameEntry(e, f)}
        full   == others = Live /\ Cardinality(Live) >= Size
        newest == {f \in others : \A g \in others : f.turn >= g.turn}
    IN  (IF full THEN others \ newest ELSE others) \cup {e}

\* Setting an entry expires the old ones, replaces the one of the same key, and,
\* if there is none, makes room for a new one.
Write(e) ==
    LET others == {f \in Live : ~SameEntry(e, f)}
        full   == others = Live /\ Cardinality(Live) >= Size
    IN  (IF full THEN others \ Oldest(others) ELSE others) \cup {e}

-----------------------------------------------------------------------------
CacheInit ==
    /\ clock = 0
    /\ cache = {}
    /\ checked = {}

Turn == Cardinality(checked) + 1

\* Mutant: expired entries still make duplicates until something is written.
IsDupeOfExpired(message, rank) ==
    Policy # "none" /\ \E e \in cache : Suppresses(e, message, rank)

\* The cache is searched for any entry of the same hash, of whatever rank.
IsDupe(message, rank) ==
    Policy # "none" /\ \E e \in Live : Suppresses(e, message, rank)

\* DupeChecker.check: what is found, the message is written to the cache.
Check(message, rank) ==
    /\ Cardinality(checked) < MaxChecks
    /\ checked' = checked \cup
            {[message |-> message, rank |-> rank, turn |-> Turn, at |-> clock,
              dupe |-> IsDupe(message, rank)]}
    /\ cache' = IF Policy = "none" THEN cache
                ELSE Write([message |-> message, rank |-> rank, turn |-> Turn,
                            expires |-> clock + Ttl])
    /\ UNCHANGED clock

CacheAges ==
    /\ clock < MaxClock
    /\ clock' = clock + 1
    /\ UNCHANGED <<cache, checked>>

\* The notifications have all been checked.
Over ==
    /\ clock = MaxClock
    /\ Cardinality(checked) = MaxChecks
    /\ UNCHANGED cacheVars

CacheNext ==
    \/ \E message \in Messages, rank \in Ranks : Check(message, rank)
    \/ CacheAges
    \/ Over

CacheSpec == CacheInit /\ [][CacheNext]_cacheVars

-----------------------------------------------------------------------------
(* Correctness.                                                            *)

\* The variables keep to their sets, and the cache never outgrows its size
\* (TTLCache of DupeChecker).
CacheTyped ==
    /\ clock \in Nat
    /\ cache \subseteq Entries
    /\ checked \subseteq Checks
    /\ IsFiniteSet(cache) /\ Cardinality(cache) <= Size

\* The checks within the time to live before y that make y a duplicate.
Reasons(y) ==
    {x \in checked : /\ x.turn < y.turn
                     /\ Suppresses(x, y.message, y.rank)
                     /\ y.at < x.at + Ttl}

\* A message is held back only when the same one was checked within the time to
\* live before it, at the same priority or a higher one unless the policy ignores
\* priorities: an escalated message always gets through (DupeChecker.check).
DupeHasReason == \A y \in checked : y.dupe => Reasons(y) # {}

\* A message that was checked within the time to live is let through again only
\* when so many other messages were checked in between that the cache is too small.
RepeatOnlyWhenCrowded ==
    \A y \in checked : Policy # "none" /\ ~y.dupe =>
        \A x \in Reasons(y) :
            LET between == {z \in checked : x.turn < z.turn /\ z.turn < y.turn
                                            /\ ~SameEntry(x, z)}
            IN  Cardinality({<<z.message, z.rank>> : z \in between}) >= Size

=============================================================================
