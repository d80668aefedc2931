-------------------------- MODULE SuppressionProofs --------------------------
(***************************************************************************)
(* What keeps a message from being sent.  Snoozer and SnoozedNotification, *)
(* for any people, devices, deliveries and names: purging is never         *)
(* noticed, commands keep to what they are of and to their giver, and      *)
(* targets are generated from the unsnoozed only.  DupeChecker, for every  *)
(* policy, size and time to live: whatever is held back as a duplicate     *)
(* repeats something checked within the time to live, the cache never      *)
(* outgrows its size, and nothing is repeated unless it was crowded.       *)
(***************************************************************************)
EXTENDS SnoozedNotification, DupeChecker,
        FiniteSetTheorems, FunctionTheorems, WellFoundedInduction, TLAPS

(***************************************************************************)
(* Snoozer.                                                                *)
(***************************************************************************)

\* A mobile action that can be read gives a whole number of minutes, and a target.
LEMMA ActionRead ==
    ASSUME NEW a \in Actions, ~Malformed(a)
    PROVE  /\ a.type \in GlobalTargetTypes \cup QualifiedTargetTypes
           /\ a.recipient \in People \cup {Everyone}
           /\ ActionTarget(a) \in Targets
           /\ ActionDuration(a) \in Nat
<1>1. PICK type \in SnoozableTypes :
        a \in [cmd : Commands, recipient : People \cup {Everyone}, type : {type},
               name : NamesOf(type), minutes : Minutes \cup {Forever}]
  BY DEF Actions
<1>2. a.type \in GlobalTargetTypes \cup QualifiedTargetTypes
  BY <1>1, SnoozerAssumption
<1>3. a.type \in QualifiedTargetTypes => a.name \in Names
  BY <1>1 DEF NamesOf, QualifiedTargetTypes, Names
<1>4. ActionTarget(a) \in Targets
  BY <1>2, <1>3 DEF ActionTarget, Targets
<1>5. ActionDuration(a) \in Nat
  <2>1. a.minutes = Forever \/ a.minutes \in Nat
    BY <1>1, SnoozerAssumption
  <2>2. QED
    BY <2>1, SnoozerAssumption DEF ActionDuration, Malformed, MinutesGiven
<1>6. QED
  BY <1>1, <1>2, <1>4, <1>5

\* What register_snooze makes is a snooze.
LEMMA RegisterTyped ==
    ASSUME NEW S \in SUBSET Snoozes, NEW cmd, NEW duration \in Nat, now \in Nat,
           NEW type \in GlobalTargetTypes \cup QualifiedTargetTypes,
           NEW target \in Targets, NEW recipient \in People \cup {Everyone}
    PROVE  Register(S, cmd, type, target, recipient, duration) \in SUBSET Snoozes
<1>1. Until(cmd, duration) \in Nat \cup {Forever}
  BY DEF Until
<1>2. [type |-> type, target |-> target, recipient |-> recipient,
       until |-> Until(cmd, duration)] \in Snoozes
  BY <1>1 DEF Snoozes
<1>3. QED
  BY <1>2 DEF Register

\* The clock and the snoozes have the shape SnoozesTyped says.
THEOREM SnoozerTypeCorrect == SnoozerSpec => []SnoozesTyped
<1>1. SnoozerInit => SnoozesTyped
  BY SnoozerAssumption DEF SnoozerInit, SnoozesTyped
<1>2. SnoozesTyped /\ [SnoozerNext]_snoozerVars => SnoozesTyped'
  <2>. SUFFICES ASSUME SnoozesTyped, [SnoozerNext]_snoozerVars
                PROVE  SnoozesTyped'
    OBVIOUS
  <2>. USE DEF SnoozesTyped
  <2>1. ASSUME NEW a \in Actions, OnMobileAction(a)
        PROVE  SnoozesTyped'
    <3>1. snoozes' \in SUBSET Snoozes
      BY <2>1, ActionRead, RegisterTyped, SnoozerAssumption DEF OnMobileAction
    <3>2. QED
      BY <2>1, <3>1 DEF OnMobileAction
  <2>2. ASSUME NEW device \in Devices, DeviceFailed(device)
        PROVE  SnoozesTyped'
    <3>1. device \in Targets /\ OwnersOf[device] \subseteq People /\ now + OneDay \in Nat
      BY SnoozerAssumption DEF Targets, Names
    <3>2. [type : {"MOBILE"}, target : {device}, recipient : OwnersOf[device],
           until : {now + OneDay}] \subseteq Snoozes
      BY <3>1 DEF Snoozes, QualifiedTargetTypes
    <3>3. QED
      BY <2>2, <3>2 DEF DeviceFailed
  <2>3. CASE ClearSnoozes \/ PurgeSnoozes
    BY <2>3 DEF ClearSnoozes, PurgeSnoozes
  <2>4. CASE Tick
    BY <2>4, SnoozerAssumption DEF Tick
  <2>5. CASE UNCHANGED snoozerVars
    BY <2>5 DEF snoozerVars
  <2>6. QED
    BY <2>1, <2>2, <2>3, <2>4, <2>5 DEF SnoozerNext, Snoozing
<1>3. QED
  BY <1>1, <1>2, PTL DEF SnoozerSpec

\* Purging the snoozes, whenever it is done, changes no answer of the snoozer.
THEOREM PurgingUnnoticed == SnoozerSpec => PurgeUnnoticed
<1>1. PurgeSnoozes => InScope' = InScope
  <2>. SUFFICES ASSUME PurgeSnoozes
                PROVE  InScope' = InScope
    OBVIOUS
  <2>1. now' = now /\ snoozes' = {s \in snoozes : Active(s)}
    BY DEF PurgeSnoozes
  <2>2. \A p \in Priorities : IsGlobalSnooze(p)' = IsGlobalSnooze(p)
    BY <2>1 DEF IsGlobalSnooze, Silences, Active
  <2>3. \A p \in Priorities, d \in Deliveries : CurrentSnoozes(p, d)' = CurrentSnoozes(p, d)
    BY <2>1 DEF CurrentSnoozes, Active
  <2>4. QED
    BY <2>2, <2>3 DEF InScope
<1>2. QED
  BY <1>1, PTL DEF PurgeUnnoticed

\* A command makes, replaces or deletes a snooze of its own recipient, which is of the
\* same thing, or global as the command is.
LEMMA CommandMoves ==
    ASSUME NEW a \in Actions, OnMobileAction(a), NEW s,
           ~(s \in snoozes <=> s \in snoozes')
    PROVE  /\ s.recipient = a.recipient
           /\ \/ s.type \in GlobalTargetTypes /\ a.type \in GlobalTargetTypes
              \/ s.type = a.type /\ s.target = ActionTarget(a)
<1> DEFINE new == [type |-> a.type, target |-> ActionTarget(a), recipient |-> a.recipient,
                   until |-> Until(a.cmd, ActionDuration(a))]
<1>1. SameKey(s, new) \/ s = new
  BY DEF OnMobileAction, Register
<1>2. CASE SameKey(s, new)
  BY <1>2 DEF SameKey
<1>3. CASE s = new
  BY <1>3
<1>4. QED
  BY <1>1, <1>2, <1>3

\* What a command takes out of a delivery, or lets in, is within its reach.
LEMMA ChangedWithinReach ==
    ASSUME NEW p \in Priorities, NEW d \in Deliveries, NEW a \in Actions, OnMobileAction(a),
           NEW x, ~(x \in Snoozed(p, d) <=> x \in Snoozed(p, d)')
    PROVE  x \in Reach(a, p, d)
<1> DEFINE Own(s) ==
        /\ s.recipient # Everyone
        /\ \/ s.type \notin {"MOBILE", "CAMERA"} /\ s.recipient = x
           \/ s.type = "MOBILE" /\ s.target = x
<1>1. /\ x \in Snoozed(p, d) <=> \E s \in CurrentSnoozes(p, d) : Own(s)
      /\ x \in Snoozed(p, d)' <=> \E s \in CurrentSnoozes(p, d)' : Own(s)
  BY DEF Snoozed
<1> HIDE DEF Own
<1>2. PICK s : Own(s) /\ ~(s \in CurrentSnoozes(p, d) <=> s \in CurrentSnoozes(p, d)')
  BY <1>1
<1>3. now' = now
  BY DEF OnMobileAction
<1>4. ~(s \in snoozes <=> s \in snoozes')
  BY <1>2, <1>3 DEF CurrentSnoozes, Active
<1>5. /\ s.recipient = a.recipient
      /\ \/ s.type \in GlobalTargetTypes /\ a.type \in GlobalTargetTypes
         \/ s.type = a.type /\ s.target = ActionTarget(a)
  BY <1>4, CommandMoves
<1>6. \/ s.type \in {"EVERYTHING", "NONCRITICAL", "MOBILE", "CAMERA"}
      \/ s.type = "DELIVERY" /\ s.target = d
      \/ s.type = "PRIORITY" /\ s.target = p
      \/ s.type = "TRANSPORT" /\ s.target = TransportOf[d]
  BY <1>2 DEF CurrentSnoozes
<1>7. CASE s.type \in GlobalTargetTypes /\ a.type \in GlobalTargetTypes
  BY <1>2, <1>5, <1>7 DEF Own, Reach, GlobalTargetTypes
<1>8. CASE s.type = a.type /\ s.target = ActionTarget(a)
  BY <1>2, <1>5, <1>6, <1>8 DEF Own, Reach
<1>9. QED
  BY <1>5, <1>7, <1>8

\* Only a global command changes whether notifications are suppressed, and only when
\* nobody else's snooze suppresses them.
LEMMA SilenceWithinReach ==
    ASSUME NEW p \in Priorities, NEW a \in Actions, OnMobileAction(a),
           ~(IsGlobalSnooze(p)' <=> IsGlobalSnooze(p))
    PROVE  /\ a.type \in GlobalTargetTypes
           /\ \A s \in snoozes : Silences(s, p) => s.recipient = a.recipient
<1>1. now' = now
  BY DEF OnMobileAction
<1>2. \A s : Silences(s, p)' <=> Silences(s, p)
  BY <1>1 DEF Silences, Active
<1>3. PICK s : Silences(s, p) /\ ~(s \in snoozes <=> s \in snoozes')
  BY <1>2 DEF IsGlobalSnooze
<1>4. a.type \in GlobalTargetTypes
  <2>1. s.type \in GlobalTargetTypes
    BY <1>3 DEF Silences, GlobalTargetTypes
  <2>2. QED
    BY <1>3, <2>1, CommandMoves
<1>5. ASSUME NEW t \in snoozes, Silences(t, p)
      PROVE  t.recipient = a.recipient
  <2>1. t \notin snoozes'
    BY <1>2, <1>5 DEF IsGlobalSnooze
  <2>2. QED
    BY <1>5, <2>1, CommandMoves
<1>6. QED
  BY <1>4, <1>5

\* Commands, whatever names they give, change what is within their reach, and no more.
THEOREM CommandsAreBounded == SnoozerSpec => CommandsKeepToReach
<1>1. ASSUME NEW p \in Priorities, NEW d \in Deliveries, NEW a \in Actions, OnMobileAction(a)
      PROVE  (Snoozed(p, d)' \ Snoozed(p, d)) \cup (Snoozed(p, d) \ Snoozed(p, d)')
                \subseteq Reach(a, p, d)
  BY <1>1, ChangedWithinReach
<1>2. (\A p \in Priorities, d \in Deliveries :
            LET changed == (Snoozed(p, d)' \ Snoozed(p, d)) \cup (Snoozed(p, d) \ Snoozed(p, d)')
            IN  changed # {} =>
                    \A a \in Actions : OnMobileAction(a) => changed \subseteq Reach(a, p, d))
  BY <1>1
<1>3. (\A p \in Priorities :
            ~(IsGlobalSnooze(p)' <=> IsGlobalSnooze(p)) =>
                \A a \in Actions : OnMobileAction(a) =>
                    /\ a.type \in GlobalTargetTypes
                    /\ \A s \in snoozes : Silences(s, p) => s.recipient = a.recipient)
  BY SilenceWithinReach
<1>4. QED
  BY <1>2, <1>3, PTL DEF CommandsKeepToReach

(***************************************************************************)
(* SnoozedNotification.                                                    *)
(***************************************************************************)

\* Whatever notifications do, the snoozes change by Snoozer's steps.
THEOREM ImplementsSnoozer == Spec => SnoozesKept
<1>1. Init => SnoozerInit
  BY DEF Init
<1>2. [Next]_vars => [SnoozerNext]_snoozerVars
  BY DEF Next, vars, Initialize, CallTransport, Send, Finish, SnoozerNext, snoozerVars
<1>3. QED
  BY <1>1, <1>2, PTL DEF Spec, SnoozesKept, SnoozerSpec

\* The addresses a delivery may take up for a call, and why.
Justified(c, d) ==
    LET snoozed == Snoozed(c.priority, d)
        people  == ((Named(c, d) \cup c.scenario) \cap People) \ snoozed
    IN  (Named(c, d) \ snoozed) \cup (UNION {AddressesOf[p] : p \in people})
        \cup c.scenario \cup Resolve(c.override[d])

\* One round lets through what it was given and is not snoozed, what that resolves
\* to, and what scenarios add.
LEMMA NarrowLetsThrough ==
    ASSUME NEW T, NEW c, NEW d, NEW x \in Narrow(T, c, d)
    PROVE  \/ x \in T \ Snoozed(c.priority, d)
           \/ \E p \in (T \cap People) \ Snoozed(c.priority, d) : x \in AddressesOf[p]
           \/ x \in c.scenario
  BY DEF Narrow, Resolve, FilterRecipients

\* Both rounds together generate only what is justified.
LEMMA GeneratedJustified ==
    ASSUME NEW c \in CallType, NEW d \in Deliveries
    PROVE  GenerateTargets(c, d) \subseteq Justified(c, d)
<1> DEFINE snoozed == Snoozed(c.priority, d)
           people  == ((Named(c, d) \cup c.scenario) \cap People) \ snoozed
           start   == StartingTargets(c, d)
           primary == Narrow(start, c, d)
           default == IF UsesDefault(c, d, primary) THEN DefaultTarget[d] ELSE {}
           merged  == primary \cup default
           final   == IF merged = primary THEN primary ELSE Narrow(merged, c, d)
<1>1. start \subseteq Named(c, d) /\ default \subseteq Named(c, d)
  BY DEF StartingTargets, Named
<1>2. \A p \in People : AddressesOf[p] \cap People = {}
  BY SnoozedNotificationAssumption
<1>3. GenerateTargets(c, d) \subseteq final \cup Resolve(c.override[d])
  BY DEF GenerateTargets
<1>4. /\ Named(c, d) \ snoozed \subseteq Justified(c, d)
      /\ \A p \in people : AddressesOf[p] \subseteq Justified(c, d)
      /\ c.scenario \subseteq Justified(c, d)
      /\ Resolve(c.override[d]) \subseteq Justified(c, d)
  BY DEF Justified
<1> HIDE DEF start, default, snoozed
<1>5. ASSUME NEW x \in primary
      PROVE  \/ x \in Named(c, d) \ snoozed
             \/ \E p \in people : x \in AddressesOf[p]
             \/ x \in c.scenario
  <2>1. \/ x \in start \ snoozed
        \/ \E p \in (start \cap People) \ snoozed : x \in AddressesOf[p]
        \/ x \in c.scenario
    BY NarrowLetsThrough DEF snoozed
  <2>2. QED
    BY <1>1, <2>1
<1> HIDE DEF primary
<1>6. ASSUME NEW x \in Narrow(merged, c, d)
      PROVE  x \in Justified(c, d)
  <2>1. CASE x \in merged \ snoozed
    <3>1. CASE x \in primary
      BY <1>4, <1>5, <3>1
    <3>2. CASE x \in default
      BY <1>1, <1>4, <2>1, <3>2
    <3>3. QED
      BY <2>1, <3>1, <3>2
  <2>2. ASSUME NEW p \in (merged \cap People) \ snoozed, x \in AddressesOf[p]
        PROVE  x \in Justified(c, d)
    <3>1. p \in people
      BY <1>1, <1>2, <1>5
    <3>2. QED
      BY <1>4, <2>2, <3>1
  <2>3. CASE x \in c.scenario
    BY <1>4, <2>3
  <2> HIDE DEF merged, people
  <2>4. QED
    BY <2>1, <2>2, <2>3, NarrowLetsThrough DEF snoozed
<1>7. final \subseteq Justified(c, d)
  <2>1. primary \subseteq Justified(c, d)
    BY <1>4, <1>5
  <2>2. QED
    BY <1>6, <2>1
<1> HIDE DEF final
<1>8. QED
  BY <1>3, <1>4, <1>7

\* The notification modules' variables keep their types.
THEOREM SnoozedNotificationTypeCorrect == Spec => []TypeOK
<1>1. Init => TypeOK
  <2>1. Init => SnoozesTyped
    BY SnoozerAssumption DEF Init, SnoozerInit, SnoozesTyped
  <2>2. Init => todo = {} /\ outbox = {} /\ call = NoCall /\ suppressed = FALSE
    BY DEF Init
  <2>3. QED
    BY <2>1, <2>2 DEF TypeOK
<1>2. ASSUME NEW c \in CallType, NEW d \in Deliveries
      PROVE  GenerateTargets(c, d) \subseteq Addresses
  <2>1. Accepts[d] \subseteq Recipients /\ DefaultTarget[d] \subseteq Recipients
    BY SnoozedNotificationAssumption
  <2>2. \A T : Narrow(T, c, d) \subseteq Recipients
    BY <2>1 DEF Narrow
  <2>3. GenerateTargets(c, d) \subseteq Recipients
    <3> DEFINE primary == Narrow(StartingTargets(c, d), c, d)
               merged  == primary \cup IF UsesDefault(c, d, primary) THEN DefaultTarget[d] ELSE {}
               final   == IF merged = primary THEN primary ELSE Narrow(merged, c, d)
    <3>1. final \subseteq Recipients
      BY <2>2
    <3>2. Resolve(c.override[d]) \cap Accepts[d] \subseteq Recipients
      BY <2>1
    <3>3. GenerateTargets(c, d)
            = (IF c.override[d] # {} THEN Resolve(c.override[d]) \cap Accepts[d] ELSE final)
              \ People
      BY DEF GenerateTargets
    <3> HIDE DEF final
    <3>4. QED
      BY <3>1, <3>2, <3>3
  <2>4. GenerateTargets(c, d) \cap People = {}
    BY DEF GenerateTargets
  <2>5. QED
    BY <2>3, <2>4 DEF Recipients
<1>3. TypeOK /\ SnoozesTyped' /\ [Next]_vars => TypeOK'
  <2>. SUFFICES ASSUME TypeOK, SnoozesTyped', [Next]_vars
                PROVE  TypeOK'
    OBVIOUS
  <2>. USE DEF TypeOK, snoozerVars
  <2>1. ASSUME NEW c \in Calls, NEW S \in SUBSET Deliveries, Initialize(c, S)
        PROVE  TypeOK'
    <3>1. IsGlobalSnooze(c.priority) \in BOOLEAN
      BY DEF IsGlobalSnooze
    <3>2. QED
      BY <2>1, <3>1, SnoozedNotificationAssumption DEF Initialize
  <2>2. ASSUME NEW d \in Deliveries, CallTransport(d)
        PROVE  TypeOK'
    <3>1. call \in Calls /\ call \in CallType
      BY <2>2, SnoozedNotificationAssumption DEF CallTransport
    <3>2. GenerateTargets(call, d) \subseteq Addresses
      BY <1>2, <3>1
    <3>3. QED
      BY <2>2, <3>1, <3>2, SnoozedNotificationAssumption DEF CallTransport
  <2>3. ASSUME NEW d \in Deliveries, NEW a \in Addresses, Send(d, a)
        PROVE  TypeOK'
    BY <2>3 DEF Send
  <2>4. CASE Finish
    BY <2>4 DEF Finish
  <2>5. CASE UNCHANGED callVars
    BY <2>5 DEF callVars
  <2>6. QED
    BY <2>1, <2>2, <2>3, <2>4, <2>5 DEF Next, vars, callVars
<1>4. QED
  BY <1>1, <1>3, ImplementsSnoozer, SnoozerTypeCorrect, PTL DEF Spec, SnoozesKept

\* No delivery takes up an address that only a snooze keeps from it.
THEOREM OnlyUnsnoozedTakenUp == Spec => OnlyUnsnoozedReached
<1>1. ASSUME TypeOK, Next, NEW d \in todo \ todo'
      PROVE  {a \in Addresses : <<d, a>> \in outbox' \ outbox} \subseteq Justified(call, d)
  <2>1. d \in Deliveries /\ call \in CallType
    BY <1>1, SnoozedNotificationAssumption DEF TypeOK
  <2>2. CallTransport(d)
    BY <1>1 DEF Next, Initialize, CallTransport, Send, Finish, callVars, TypeOK
  <2>3. \A a : <<d, a>> \in outbox' \ outbox => a \in GenerateTargets(call, d)
    BY <2>2 DEF CallTransport
  <2>4. QED
    BY <2>1, <2>3, GeneratedJustified
<1>2. TypeOK /\ [Next]_vars =>
        [\A d \in todo \ todo' :
            {a \in Addresses : <<d, a>> \in outbox' \ outbox} \subseteq Justified(call, d)]_vars
  BY <1>1
<1>3. QED
  BY <1>2, SnoozedNotificationTypeCorrect, PTL DEF Spec, OnlyUnsnoozedReached, Justified

(***************************************************************************)
(* DupeChecker.                                                            *)
(***************************************************************************)

\* Every entry of the cache, the expired ones included, stands for a check.
EntriesChecked ==
    \A e \in cache :
        \E x \in checked : SameEntry(x, e) /\ x.turn = e.turn /\ e.expires = x.at + Ttl

IInv ==
    /\ clock \in Nat
    /\ cache \subseteq Entries
    /\ checked \subseteq Checks
    /\ IsFiniteSet(checked)
    /\ \A x \in checked : x.turn < Turn
    /\ EntriesChecked
    /\ DupeHasReason

\* Writing to the cache adds nothing but what is written.
LEMMA WriteAdds == \A e : Write(e) \subseteq Live \cup {e}
  BY DEF Write

\* Entries of the cache stand for checks, and duplicates have their reasons, in every
\* state that is reached.
THEOREM ChecksInvariant == CacheSpec => []IInv
<1>1. CacheInit => IInv
  BY FS_EmptySet DEF CacheInit, IInv, EntriesChecked, DupeHasReason
<1>2. IInv /\ [CacheNext]_cacheVars => IInv'
  <2>. SUFFICES ASSUME IInv, [CacheNext]_cacheVars
                PROVE  IInv'
    OBVIOUS
  <2>1. ASSUME NEW m \in Messages, NEW r \in Ranks, Check(m, r)
        PROVE  IInv'
    <3>1. Turn \in Nat /\ clock \in Nat /\ Ttl \in Nat
      BY FS_CardinalityType, DupeCheckerAssumption DEF IInv, Turn
    <3>2. PICK y \in Checks : y = [message |-> m, rank |-> r, turn |-> Turn, at |-> clock,
                                   dupe |-> IsDupe(m, r)]
      <4>1. IsDupe(m, r) \in BOOLEAN
        BY DEF IsDupe
      <4>2. [message |-> m, rank |-> r, turn |-> Turn, at |-> clock, dupe |-> IsDupe(m, r)]
              \in Checks
        BY <3>1, <4>1 DEF Checks
      <4>3. QED
        BY <4>2, Zenon
    <3>3. PICK e \in Entries : e = [message |-> m, rank |-> r, turn |-> Turn,
                                    expires |-> clock + Ttl]
      <4>1. [message |-> m, rank |-> r, turn |-> Turn, expires |-> clock + Ttl] \in Entries
        BY <3>1 DEF Entries
      <4>2. QED
        BY <4>1, Zenon
    <3>4. /\ checked' = checked \cup {y}
          /\ cache' = IF Policy = "none" THEN cache ELSE Write(e)
          /\ clock' = clock
      BY <2>1, <3>2, <3>3 DEF Check
    <3>5. y \notin checked
      BY <3>1, <3>2 DEF IInv
    <3>6. IsFiniteSet(checked') /\ Turn' = Turn + 1
      BY <3>4, <3>5, FS_AddElement DEF IInv, Turn
    <3>7. \A x \in checked' : x.turn < Turn'
      <4>1. \A x \in checked : x.turn \in Nat /\ x.turn < Turn
        BY DEF IInv, Checks
      <4>2. QED
        BY <3>1, <3>2, <3>4, <3>6, <4>1
    <3>8. cache' \subseteq cache \cup {e}
      BY <3>4, WriteAdds DEF Live
    <3>9. EntriesChecked'
      <4>1. SameEntry(y, e) /\ y.turn = e.turn /\ e.expires = y.at + Ttl
        BY <3>2, <3>3 DEF SameEntry
      <4>2. QED
        BY <3>4, <3>8, <4>1 DEF IInv, EntriesChecked
    <3>10. DupeHasReason'
      <4>1. ASSUME NEW x \in checked, x.dupe
            PROVE  Reasons(x)' # {}
        BY <3>4, <4>1 DEF IInv, DupeHasReason, Reasons
      <4>2. ASSUME y.dupe
            PROVE  Reasons(y)' # {}
        <5>1. PICK f \in Live : Suppresses(f, m, r)
          BY <3>2, <4>2 DEF IsDupe
        <5>2. f \in cache /\ clock < f.expires
          BY <5>1 DEF Live
        <5>3. PICK x \in checked :
                SameEntry(x, f) /\ x.turn = f.turn /\ f.expires = x.at + Ttl
          BY <5>2 DEF IInv, EntriesChecked
        <5>4. Suppresses(x, y.message, y.rank)
          BY <3>2, <5>1, <5>3 DEF Suppresses, SameEntry
        <5>5. x.turn < y.turn /\ y.at < x.at + Ttl
          BY <3>2, <5>2, <5>3 DEF IInv
        <5>6. x \in Reasons(y)'
          BY <3>4, <5>4, <5>5 DEF Reasons
        <5>7. QED
          BY <5>6
      <4>3. QED
        BY <3>4, <4>1, <4>2 DEF DupeHasReason
    <3>11. QED
      BY <3>1, <3>4, <3>6, <3>7, <3>8, <3>9, <3>10 DEF IInv
  <2>2. CASE CacheAges
    <3>1. Turn' = Turn
      BY <2>2 DEF CacheAges, Turn
    <3>2. clock' \in Nat /\ cache' = cache /\ checked' = checked
      BY <2>2 DEF CacheAges, IInv
    <3>3. EntriesChecked' /\ DupeHasReason'
      BY <3>2 DEF IInv, EntriesChecked, DupeHasReason, Reasons
    <3>4. QED
      BY <3>1, <3>2, <3>3 DEF IInv
  <2>3. CASE UNCHANGED cacheVars
    BY <2>3 DEF cacheVars, IInv, Turn, EntriesChecked, DupeHasReason, Reasons
  <2>4. QED
    BY <2>1, <2>2, <2>3 DEF CacheNext, Over
<1>3. QED
  BY <1>1, <1>2, PTL DEF CacheSpec

\* A suppressed message repeats one that was checked within the time to live, at
\* its own priority or a higher one.
THEOREM NoUnfoundedDupe == CacheSpec => []DupeHasReason
<1>1. IInv => DupeHasReason
  BY DEF IInv
<1>2. QED
  BY <1>1, ChecksInvariant, PTL

-----------------------------------------------------------------------------
(* The size of the cache.                                                  *)

\* There is something to evict from a cache that is not empty.
LEMMA SomethingOldest ==
    ASSUME NEW S, S \subseteq Entries, S # {}
    PROVE  Oldest(S) # {}
<1> DEFINE T == {e.turn : e \in S}
<1>1. T \subseteq Nat /\ T # {}
  BY DEF Entries
<1>2. PICK n \in T : \A m \in T : ~(<<m, n>> \in OpToRel(<, Nat))
  BY <1>1, NatLessThanWellFounded, WFMin
<1>3. \A m \in T : ~(m < n)
  BY <1>1, <1>2 DEF OpToRel
<1>4. PICK e \in S : e.turn = n
  OBVIOUS
<1>5. \A f \in S : e.turn <= f.turn
  BY <1>1, <1>3, <1>4
<1>6. e \in Oldest(S)
  BY <1>4, <1>5 DEF Oldest
<1>7. QED
  BY <1>6

\* Writing makes room first.
LEMMA WriteMakesRoom ==
    ASSUME cache \subseteq Entries, IsFiniteSet(cache), Cardinality(cache) <= Size, NEW e
    PROVE  IsFiniteSet(Write(e)) /\ Cardinality(Write(e)) <= Size
<1> DEFINE others == {f \in Live : ~SameEntry(e, f)}
           full   == others = Live /\ Cardinality(Live) >= Size
           kept   == IF full THEN others \ Oldest(others) ELSE others
<1>1. Write(e) = kept \cup {e}
  BY DEF Write
<1>2. /\ IsFiniteSet(Live) /\ Cardinality(Live) \in Nat /\ Live \subseteq Entries
      /\ Cardinality(Live) <= Size
  <2>1. Live \in SUBSET cache
    BY DEF Live
  <2>2. IsFiniteSet(Live) /\ Cardinality(Live) <= Cardinality(cache)
    BY <2>1, FS_Subset
  <2>3. Cardinality(Live) \in Nat /\ Cardinality(cache) \in Nat /\ Size \in Nat
    BY <2>2, FS_CardinalityType, DupeCheckerAssumption
  <2>4. QED
    BY <2>1, <2>2, <2>3
<1>3. kept \subseteq Live /\ (kept = Live => Cardinality(Live) < Size)
  <2>1. CASE full
    <3>1. Live # {}
      BY <1>2, <2>1, FS_EmptySet, DupeCheckerAssumption
    <3>2. Oldest(others) # {} /\ Oldest(others) \subseteq Live
      BY <1>2, <2>1, <3>1, SomethingOldest DEF Oldest
    <3>3. QED
      BY <2>1, <3>2
  <2>2. CASE ~full
    BY <1>2, <2>2, DupeCheckerAssumption
  <2>3. QED
    BY <2>1, <2>2
<1>4. IsFiniteSet(kept) /\ Cardinality(kept) \in Nat /\ Cardinality(kept) < Size
  <2> HIDE DEF kept
  <2>1. /\ IsFiniteSet(kept) /\ Cardinality(kept) <= Cardinality(Live)
        /\ Cardinality(Live) = Cardinality(kept) => kept = Live
    BY <1>2, <1>3, FS_Subset
  <2>2. Cardinality(kept) \in Nat /\ Size \in Nat
    BY <2>1, FS_CardinalityType, DupeCheckerAssumption
  <2>3. QED
    BY <1>2, <1>3, <2>1, <2>2
<1>5. /\ IsFiniteSet(kept \cup {e})
      /\ Cardinality(kept \cup {e}) <= Cardinality(kept) + 1
  <2> HIDE DEF kept
  <2>1. /\ IsFiniteSet(kept \cup {e})
        /\ Cardinality(kept \cup {e}) = IF e \in kept THEN Cardinality(kept) ELSE Cardinality(kept) + 1
    BY <1>4, FS_AddElement
  <2>2. QED
    BY <1>4, <2>1
<1>6. Cardinality(kept \cup {e}) \in Nat /\ Size \in Nat
  BY <1>5, FS_CardinalityType, DupeCheckerAssumption
<1>7. QED
  <2> HIDE DEF kept
  <2>1. QED
    BY <1>1, <1>4, <1>5, <1>6

\* The variables keep to their sets, and however many messages are checked, the cache
\* keeps to its size.
THEOREM CacheTypeCorrect == CacheSpec => []CacheTyped
<1> DEFINE Bounded == IsFiniteSet(cache) /\ Cardinality(cache) <= Size
<1>1. CacheInit => Bounded
  BY FS_EmptySet, DupeCheckerAssumption DEF CacheInit
<1>2. IInv /\ Bounded /\ [CacheNext]_cacheVars => Bounded'
  <2>. SUFFICES ASSUME IInv, Bounded, [CacheNext]_cacheVars
                PROVE  Bounded'
    OBVIOUS
  <2>1. CASE cache' = cache
    BY <2>1
  <2>2. ASSUME NEW m \in Messages, NEW r \in Ranks, Check(m, r)
        PROVE  Bounded'
    <3>1. PICK e : cache' = IF Policy = "none" THEN cache ELSE Write(e)
      BY <2>2 DEF Check
    <3>2. IsFiniteSet(Write(e)) /\ Cardinality(Write(e)) <= Size
      BY WriteMakesRoom DEF IInv
    <3>3. QED
      BY <3>1, <3>2
  <2>3. QED
    BY <2>1, <2>2 DEF CacheNext, CacheAges, Over, cacheVars
<1>3. IInv /\ Bounded => CacheTyped
  BY DEF IInv, CacheTyped
<1>4. QED
  BY <1>1, <1>2, <1>3, ChecksInvariant, PTL DEF CacheSpec

-----------------------------------------------------------------------------
(* What the cache forgets.                                                 *)

\* The keys the cache has for checks or entries.
Keys(S) == {<<z.message, z.rank>> : z \in S}

\* The checks after x of anything else.
Since(x) == {z \in checked : x.turn < z.turn /\ ~SameEntry(x, z)}

\* An entry of the cache that is as good as one x would have left.
KeptFor(x) == {e \in cache : SameEntry(e, x) /\ e.turn >= x.turn /\ e.expires >= x.at + Ttl}

\* Until its time to live is over, a check is remembered, or it has been crowded out
\* by checks of as many other keys as the cache has room for.
Remembered ==
    Policy # "none" => \A x \in checked :
        clock < x.at + Ttl => KeptFor(x) # {} \/ Cardinality(Keys(Since(x))) >= Size

\* The cache has one entry for a key, and one for a turn.
EntriesDistinct ==
    \A e, f \in cache : SameEntry(e, f) \/ e.turn = f.turn => e = f

MInv ==
    /\ \A x \in checked : x.at <= clock
    /\ EntriesDistinct
    /\ Remembered
    /\ RepeatOnlyWhenCrowded

\* There are no more keys than there are checks or entries, and as many if no two
\* share one.
LEMMA KeysCounted ==
    ASSUME NEW S, IsFiniteSet(S)
    PROVE  /\ IsFiniteSet(Keys(S))
           /\ (\A e, f \in S : SameEntry(e, f) => e = f) => Cardinality(Keys(S)) = Cardinality(S)
<1> DEFINE key == [z \in S |-> <<z.message, z.rank>>]
<1>1. key \in Surjection(S, Keys(S))
  <2>1. key \in [S -> Keys(S)] /\ \A k \in Keys(S) : \E z \in S : key[z] = k
    BY DEF Keys
  <2>2. QED
    BY <2>1, Fun_IsSurj
<1>2. /\ IsFiniteSet(Keys(S))
      /\ Cardinality(Keys(S)) = Cardinality(S) <=> key \in Injection(S, Keys(S))
  BY <1>1, FS_Surjection
<1>3. ASSUME \A e, f \in S : SameEntry(e, f) => e = f
      PROVE  key \in Injection(S, Keys(S))
  <2>1. key \in [S -> Keys(S)] /\ \A e, f \in S : key[e] = key[f] => e = f
    BY <1>3 DEF Keys, SameEntry
  <2>2. QED
    BY <2>1, Fun_IsInj
<1>4. QED
  BY <1>2, <1>3

\* More checks have no fewer keys.
LEMMA KeysGrow ==
    ASSUME NEW S, NEW T, IsFiniteSet(T), Keys(S) \subseteq Keys(T)
    PROVE  /\ Cardinality(Keys(S)) \in Nat
           /\ Cardinality(Keys(T)) \in Nat
           /\ Cardinality(Keys(S)) <= Cardinality(Keys(T))
<1>1. IsFiniteSet(Keys(T)) /\ Keys(S) \in SUBSET Keys(T)
  BY KeysCounted
<1>2. IsFiniteSet(Keys(S)) /\ Cardinality(Keys(S)) <= Cardinality(Keys(T))
  BY <1>1, FS_Subset
<1>3. QED
  BY <1>1, <1>2, FS_CardinalityType

\* An entry is evicted only by as many other keys, all written later, as the cache has
\* room for.
LEMMA EvictedWhenCrowded ==
    ASSUME IInv, EntriesDistinct, IsFiniteSet(cache),
           NEW n \in Entries, n.turn = Turn,
           NEW e \in Live, ~SameEntry(n, e), e \notin Write(n)
    PROVE  /\ IsFiniteSet(Keys((Live \ {e}) \cup {n}))
           /\ Cardinality(Keys((Live \ {e}) \cup {n})) >= Size
           /\ \A f \in Live \ {e} : e.turn < f.turn /\ ~SameEntry(f, e)
<1> DEFINE others == {f \in Live : ~SameEntry(n, f)}
           later  == Live \ {e}
<1>1. /\ others = Live /\ Cardinality(Live) >= Size
      /\ e \in Oldest(Live)
  BY DEF Write
<1>2. Live \subseteq cache /\ Live \subseteq Entries
  BY DEF Live, IInv
<1>3. \A f \in later : e.turn < f.turn /\ ~SameEntry(f, e)
  <2>1. \A f \in Live : e.turn <= f.turn /\ f.turn \in Nat
    BY <1>1, <1>2 DEF Oldest, Entries
  <2>2. \A f \in later : ~SameEntry(f, e) /\ f.turn # e.turn
    BY <1>2 DEF EntriesDistinct
  <2>3. e.turn \in Nat
    BY <1>2 DEF Entries
  <2>4. QED
    BY <2>1, <2>2, <2>3
<1>4. /\ IsFiniteSet(Live)
      /\ IsFiniteSet(later) /\ Cardinality(later) = Cardinality(Live) - 1
      /\ Cardinality(Live) \in Nat
  BY <1>2, FS_Subset, FS_RemoveElement, FS_CardinalityType
<1>5. n \notin later
  BY <1>1 DEF SameEntry
<1>6. IsFiniteSet(later \cup {n}) /\ Cardinality(later \cup {n}) = Cardinality(Live)
  <2> HIDE DEF later
  <2>1. /\ IsFiniteSet(later \cup {n})
        /\ Cardinality(later \cup {n}) = IF n \in later THEN Cardinality(later)
                                         ELSE Cardinality(later) + 1
    BY <1>4, FS_AddElement
  <2>2. QED
    BY <1>4, <1>5, <2>1
<1>7. \A f, g \in later \cup {n} : SameEntry(f, g) => f = g
  BY <1>1, <1>2 DEF EntriesDistinct, SameEntry
<1>8. IsFiniteSet(Keys(later \cup {n})) /\ Cardinality(Keys(later \cup {n})) >= Size
  BY <1>1, <1>6, <1>7, KeysCounted
<1>9. QED
  BY <1>3, <1>8

\* A check that no entry stands for has been crowded out, and stays so.
LEMMA CheckRemembers ==
    ASSUME IInv, MInv, IsFiniteSet(cache), NEW m \in Messages, NEW r \in Ranks, Check(m, r)
    PROVE  MInv'
<1>1. Turn \in Nat /\ clock \in Nat /\ Ttl \in Nat /\ Size \in Nat \ {0}
  BY FS_CardinalityType, DupeCheckerAssumption DEF IInv, Turn
<1>2. PICK y : y = [message |-> m, rank |-> r, turn |-> Turn, at |-> clock,
                    dupe |-> IsDupe(m, r)]
  OBVIOUS
<1>3. PICK n : n = [message |-> m, rank |-> r, turn |-> Turn, expires |-> clock + Ttl]
  OBVIOUS
<1>4. /\ checked' = checked \cup {y}
      /\ cache' = IF Policy = "none" THEN cache ELSE Write(n)
      /\ clock' = clock
  BY <1>2, <1>3 DEF Check
<1>5. /\ y.message = m /\ y.rank = r /\ y.turn = Turn /\ y.at = clock /\ y.dupe = IsDupe(m, r)
      /\ n.message = m /\ n.rank = r /\ n.turn = Turn /\ n.expires = clock + Ttl
      /\ n \in Entries
  BY <1>1, <1>2, <1>3 DEF Entries
<1>6. /\ \A x \in checked : x.turn \in Nat /\ x.turn < Turn /\ x.at \in Nat /\ x.at <= clock
      /\ \A e \in cache : e.turn \in Nat /\ e.turn < Turn /\ e.expires \in Nat
  <2>1. \A x \in checked : x.turn \in Nat /\ x.turn < Turn /\ x.at \in Nat /\ x.at <= clock
    BY DEF IInv, MInv, Checks
  <2>2. QED
    BY <2>1 DEF IInv, EntriesChecked, Entries
<1>7. IsFiniteSet(checked) /\ IsFiniteSet(checked')
  BY <1>4, FS_AddElement DEF IInv
<1>8. \A x \in checked' : x.at <= clock'
  BY <1>1, <1>4, <1>5, <1>6
<1>9. EntriesDistinct'
  <2>1. CASE Policy = "none"
    BY <1>4, <2>1 DEF MInv, EntriesDistinct
  <2>2. CASE Policy # "none"
    <3>1. \A e \in Write(n) \ {n} : e \in cache /\ ~SameEntry(n, e) /\ n.turn # e.turn
      BY <1>1, <1>5, <1>6 DEF Write, Live
    <3>2. QED
      BY <1>4, <2>2, <3>1 DEF MInv, EntriesDistinct, SameEntry
  <2>3. QED
    BY <2>1, <2>2
<1>10. ASSUME Policy # "none"
       PROVE  Remembered'
  <2>1. n \in cache'
    BY <1>4, <1>10 DEF Write
  <2>2. ASSUME NEW x \in checked, clock < x.at + Ttl
        PROVE  KeptFor(x)' # {} \/ Cardinality(Keys(Since(x)))' >= Size
    <3>1. /\ IsFiniteSet(Since(x)') /\ Since(x) \subseteq Since(x)'
          /\ ~SameEntry(n, x) => y \in Since(x)'
      <4>1. Since(x)' \in SUBSET checked' /\ Since(x) \subseteq Since(x)'
        BY <1>4 DEF Since
      <4>2. ~SameEntry(n, x) => y \in Since(x)'
        BY <1>4, <1>5, <1>6 DEF Since, SameEntry
      <4>3. QED
        BY <1>7, <4>1, <4>2, FS_Subset
    <3>2. CASE Cardinality(Keys(Since(x))) >= Size
      <4>1. Keys(Since(x)) \subseteq Keys(Since(x)')
        BY <3>1 DEF Keys
      <4>2. /\ Cardinality(Keys(Since(x))) \in Nat
            /\ Cardinality(Keys(Since(x)')) \in Nat
            /\ Cardinality(Keys(Since(x))) <= Cardinality(Keys(Since(x)'))
        BY <3>1, <4>1, KeysGrow
      <4>3. Keys(Since(x))' = Keys(Since(x)')
        BY DEF Keys
      <4>4. QED
        BY <1>1, <3>2, <4>2, <4>3
    <3>3. CASE KeptFor(x) # {}
      <4>1. PICK e \in cache : SameEntry(e, x) /\ e.turn >= x.turn /\ e.expires >= x.at + Ttl
        BY <3>3 DEF KeptFor
      <4>2. e \in Live
        BY <1>1, <1>6, <2>2, <4>1 DEF Live
      <4>3. CASE SameEntry(n, e)
        <5>1. SameEntry(n, x) /\ n.turn >= x.turn /\ n.expires >= x.at + Ttl
          BY <1>1, <1>5, <1>6, <4>1, <4>3 DEF SameEntry
        <5>2. QED
          BY <2>1, <5>1 DEF KeptFor
      <4>4. CASE e \in Write(n)
        BY <1>4, <1>10, <4>1, <4>4 DEF KeptFor
      <4>5. CASE ~SameEntry(n, e) /\ e \notin Write(n)
        <5>1. /\ Cardinality(Keys((Live \ {e}) \cup {n})) >= Size
              /\ \A f \in Live \ {e} : e.turn < f.turn /\ ~SameEntry(f, e)
          BY <1>5, <4>2, <4>5, EvictedWhenCrowded DEF MInv
        <5>2. ASSUME NEW f \in Live \ {e}
              PROVE  \E z \in Since(x) : SameEntry(z, f)
          <6>1. PICK z \in checked : SameEntry(z, f) /\ z.turn = f.turn
            BY DEF IInv, EntriesChecked, Live
          <6>2. x.turn < z.turn /\ ~SameEntry(x, z)
            <7>1. f \in cache
              BY DEF Live
            <7>2. QED
              BY <1>6, <4>1, <5>1, <6>1, <7>1 DEF SameEntry
          <6>3. QED
            BY <6>1, <6>2 DEF Since
        <5>3. y \in Since(x)' /\ SameEntry(y, n)
          BY <1>5, <3>1, <4>1, <4>5 DEF SameEntry
        <5>4. Keys((Live \ {e}) \cup {n}) \subseteq Keys(Since(x)')
          BY <3>1, <5>2, <5>3 DEF Keys, SameEntry
        <5>5. /\ Cardinality(Keys((Live \ {e}) \cup {n})) \in Nat
              /\ Cardinality(Keys(Since(x)')) \in Nat
              /\ Cardinality(Keys((Live \ {e}) \cup {n})) <= Cardinality(Keys(Since(x)'))
          BY <3>1, <5>4, KeysGrow
        <5>6. Keys(Since(x))' = Keys(Since(x)')
          BY DEF Keys
        <5>7. QED
          BY <1>1, <5>1, <5>5, <5>6
      <4>6. QED
        BY <4>3, <4>4, <4>5
    <3>4. QED
      BY <1>10, <2>2, <3>2, <3>3 DEF MInv, Remembered
  <2>3. KeptFor(y)' # {}
    <3>1. n \in KeptFor(y)'
      BY <1>1, <1>5, <2>1 DEF KeptFor, SameEntry
    <3>2. QED
      BY <3>1
  <2>4. QED
    BY <1>4, <2>2, <2>3 DEF Remembered
<1>11. ASSUME Policy # "none"
       PROVE  RepeatOnlyWhenCrowded'
  <2> DEFINE between(x, z) == {c \in checked : x.turn < c.turn /\ c.turn < z.turn
                                               /\ ~SameEntry(x, c)}
             Crowded(x, z) == Cardinality({<<c.message, c.rank>> : c \in between(x, z)}) >= Size
  <2>1. ASSUME NEW z \in checked, ~z.dupe, NEW x \in Reasons(z)'
        PROVE  Crowded(x, z)'
    <3>1. x \in Reasons(z)
      BY <1>1, <1>4, <1>5, <1>6 DEF Reasons
    <3>2. between(x, z)' = between(x, z)
      BY <1>1, <1>4, <1>5, <1>6
    <3>3. Crowded(x, z)
      BY <1>11, <2>1, <3>1 DEF MInv, RepeatOnlyWhenCrowded
    <3>4. QED
      BY <3>2, <3>3
  <2>2. ASSUME ~y.dupe, NEW x \in Reasons(y)'
        PROVE  Crowded(x, y)'
    <3>1. x \in checked /\ Suppresses(x, m, r) /\ clock < x.at + Ttl
      BY <1>1, <1>4, <1>5 DEF Reasons
    <3>2. KeptFor(x) = {}
      <4>1. SUFFICES ASSUME NEW e \in KeptFor(x)
                     PROVE  FALSE
        OBVIOUS
      <4>2. e \in Live
        BY <1>1, <1>6, <3>1 DEF KeptFor, Live
      <4>3. Suppresses(e, m, r)
        BY <3>1 DEF KeptFor, SameEntry, Suppresses
      <4>4. QED
        BY <1>5, <1>11, <2>2, <4>2, <4>3 DEF IsDupe
    <3>3. Cardinality(Keys(Since(x))) >= Size
      BY <1>11, <3>1, <3>2 DEF MInv, Remembered
    <3>4. between(x, y)' = Since(x)
      BY <1>1, <1>4, <1>5, <1>6 DEF Since
    <3>5. QED
      BY <3>3, <3>4 DEF Keys
  <2>3. QED
    BY <1>4, <2>1, <2>2 DEF RepeatOnlyWhenCrowded
<1>12. QED
  BY <1>8, <1>9, <1>10, <1>11 DEF MInv, Remembered, RepeatOnlyWhenCrowded

\* A message is let through again within the time to live only when as many other
\* messages as the cache has room for were checked in between.
THEOREM RepeatsCrowdedOut == CacheSpec => []RepeatOnlyWhenCrowded
<1>1. CacheInit => MInv
  BY DEF CacheInit, MInv, EntriesDistinct, Remembered, RepeatOnlyWhenCrowded
<1>2. IInv /\ CacheTyped /\ MInv /\ [CacheNext]_cacheVars => MInv'
  <2>. SUFFICES ASSUME IInv, CacheTyped, MInv, [CacheNext]_cacheVars
                PROVE  MInv'
    OBVIOUS
  <2>1. ASSUME NEW m \in Messages, NEW r \in Ranks, Check(m, r)
        PROVE  MInv'
    BY <2>1, CheckRemembers DEF CacheTyped
  <2>2. CASE CacheAges \/ UNCHANGED cacheVars
    <3>1. /\ clock' \in {clock, clock + 1} /\ clock \in Nat /\ Ttl \in Nat
          /\ cache' = cache /\ checked' = checked
      BY <2>2, DupeCheckerAssumption DEF CacheAges, cacheVars, IInv
    <3>2. \A x \in checked : x.at \in Nat
      BY DEF IInv, Checks
    <3>3. \A x \in checked' : x.at <= clock' /\ (clock' < x.at + Ttl => clock < x.at + Ttl)
      BY <3>1, <3>2 DEF MInv
    <3>4. Remembered'
      BY <3>1, <3>3 DEF MInv, Remembered, KeptFor, Since, Keys
    <3>5. EntriesDistinct' /\ RepeatOnlyWhenCrowded'
      BY <3>1 DEF MInv, EntriesDistinct, RepeatOnlyWhenCrowded, Reasons
    <3>6. QED
      BY <3>3, <3>4, <3>5 DEF MInv
  <2>3. QED
    BY <2>1, <2>2 DEF CacheNext, Over
<1>3. MInv => RepeatOnlyWhenCrowded
  BY DEF MInv
<1>4. QED
  BY <1>1, <1>2, <1>3, ChecksInvariant, CacheTypeCorrect, PTL DEF CacheSpec

=============================================================================
