------------------------- MODULE TransportCallsProofs -------------------------
(***************************************************************************)
(* Proofs about TransportCalls: who is snoozed, and what becomes of an     *)
(* envelope, for any configuration, envelopes and outcomes of calls.       *)
(***************************************************************************)
EXTENDS TransportCalls, FoldLemmas, SequenceTheorems, TLAPS

-----------------------------------------------------------------------------
(* The log.                                                                *)

\* What was called is a sequence of calls with data and an outcome.
LogOf(s) == \E X, Y : s \in Seq([call : X, data : Y, outcome : Outcomes])

Logged ==
    /\ DOMAIN log = Tasks
    /\ \A t \in Tasks : LogOf(log[t])

\* Starting a call adds to the log.
LEMMA LogGrows ==
    ASSUME NEW s, LogOf(s), NEW c, NEW data,
           NEW r, r = [call |-> c, data |-> data, outcome |-> "waiting"]
    PROVE  /\ LogOf(Append(s, r))
           /\ Len(Append(s, r)) = Len(s) + 1 /\ Len(s) \in Nat
           /\ DOMAIN s = 1 .. Len(s) /\ DOMAIN Append(s, r) = 1 .. Len(s) + 1
           /\ \A i \in DOMAIN s : Append(s, r)[i] = s[i]
           /\ Append(s, r)[Len(s) + 1] = r
<1>1. PICK X, Y : s \in Seq([call : X, data : Y, outcome : Outcomes])
    BY DEF LogOf
<1> DEFINE Z == [call : X \cup {c}, data : Y \cup {data}, outcome : Outcomes]
<1>2. s \in Seq(Z)
  <2>1. [call : X, data : Y, outcome : Outcomes] \subseteq Z
    OBVIOUS
  <2>. QED  BY <1>1, <2>1, SeqMonotonic
<1>3. r \in Z
    BY DEF Outcomes
<1> HIDE DEF Z
<1>4. /\ Append(s, r) \in Seq(Z) /\ Len(s) \in Nat /\ DOMAIN s = 1 .. Len(s)
      /\ Len(Append(s, r)) = Len(s) + 1
      /\ \A i \in 1 .. Len(s) : Append(s, r)[i] = s[i]
      /\ Append(s, r)[Len(s) + 1] = r
    BY <1>2, <1>3, AppendProperties, LenProperties
<1>5. DOMAIN Append(s, r) = 1 .. Len(s) + 1
    BY <1>4, LenProperties
<1>6. LogOf(Append(s, r))
    BY <1>4 DEF LogOf, Z
<1>. QED  BY <1>4, <1>5, <1>6

\* The end of a call gives its entry, the last, an outcome and changes no other.
LEMMA LogEnds ==
    ASSUME NEW s, LogOf(s), s # <<>>, NEW outcome \in Outcomes,
           NEW u, u = [s EXCEPT ![Len(s)] = [@ EXCEPT !.outcome = outcome]]
    PROVE  /\ LogOf(u) /\ Len(s) \in DOMAIN s /\ DOMAIN s = 1 .. Len(s) /\ Len(s) \in Nat
           /\ DOMAIN u = DOMAIN s /\ Len(u) = Len(s)
           /\ \A i \in DOMAIN s : i # Len(s) => u[i] = s[i]
           /\ u[Len(s)].outcome = outcome
           /\ u[Len(s)].call = s[Len(s)].call /\ u[Len(s)].data = s[Len(s)].data
<1>1. PICK X, Y : s \in Seq([call : X, data : Y, outcome : Outcomes])
    BY DEF LogOf
<1>2. /\ Len(s) \in Nat \ {0} /\ DOMAIN s = 1 .. Len(s)
      /\ s \in [1 .. Len(s) -> [call : X, data : Y, outcome : Outcomes]]
    BY <1>1, EmptySeq, LenProperties
<1>3. s[Len(s)] \in [call : X, data : Y, outcome : Outcomes]
    BY <1>2
<1>4. /\ [s[Len(s)] EXCEPT !.outcome = outcome] \in [call : X, data : Y, outcome : Outcomes]
      /\ [s[Len(s)] EXCEPT !.outcome = outcome].outcome = outcome
      /\ [s[Len(s)] EXCEPT !.outcome = outcome].call = s[Len(s)].call
      /\ [s[Len(s)] EXCEPT !.outcome = outcome].data = s[Len(s)].data
    BY <1>3
<1>5. u \in Seq([call : X, data : Y, outcome : Outcomes]) /\ Len(u) = Len(s)
    BY <1>1, <1>2, <1>4, ExceptSeq
<1>6. \A i \in 1 .. Len(s) : u[i] = IF i = Len(s) THEN [s[Len(s)] EXCEPT !.outcome = outcome] ELSE s[i]
    BY <1>1, <1>2, <1>4, ExceptSeq
<1>7. LogOf(u)
    BY <1>5 DEF LogOf
<1>8. DOMAIN u = 1 .. Len(s)
    BY <1>5, LenProperties
<1>. QED  BY <1>2, <1>4, <1>5, <1>6, <1>7, <1>8

\* A call that is started is the only change of the log, at its end.
LEMMA StartLogs ==
    ASSUME Logged, NEW t \in Tasks, NEW c, StartCall(t, c)
    PROVE  /\ Logged'
           /\ \A u \in Tasks : u # t => log'[u] = log[u]
           /\ Len(log[t]) \in Nat /\ Len(log'[t]) = Len(log[t]) + 1
           /\ DOMAIN log[t] = 1 .. Len(log[t]) /\ DOMAIN log'[t] = 1 .. Len(log[t]) + 1
           /\ \A i \in DOMAIN log[t] : log'[t][i] = log[t][i]
           /\ log'[t][Len(log[t]) + 1].outcome = "waiting"
           /\ log'[t][Len(log[t]) + 1].call = c /\ log'[t][Len(log[t]) + 1].data = DataOf(t, c)
<1> DEFINE r == [call |-> c, data |-> DataOf(t, c), outcome |-> "waiting"]
<1>1. log' = [log EXCEPT ![t] = Append(log[t], r)]
    BY DEF StartCall
<1>2. log'[t] = Append(log[t], r) /\ DOMAIN log' = Tasks /\ \A u \in Tasks : u # t => log'[u] = log[u]
    BY <1>1 DEF Logged
<1>3. LogOf(log[t]) /\ r.outcome = "waiting" /\ r.call = c /\ r.data = DataOf(t, c)
    BY DEF Logged
<1>4. /\ LogOf(Append(log[t], r))
      /\ Len(Append(log[t], r)) = Len(log[t]) + 1 /\ Len(log[t]) \in Nat
      /\ DOMAIN log[t] = 1 .. Len(log[t]) /\ DOMAIN Append(log[t], r) = 1 .. Len(log[t]) + 1
      /\ \A i \in DOMAIN log[t] : Append(log[t], r)[i] = log[t][i]
      /\ Append(log[t], r)[Len(log[t]) + 1] = r
    BY <1>3, LogGrows
<1> HIDE DEF r
<1>5. Logged'
  <2>1. SUFFICES ASSUME NEW u \in Tasks PROVE LogOf(log'[u])
    BY <1>2 DEF Logged, LogOf
  <2>2. CASE u = t
    BY <1>2, <1>4, <2>2
  <2>3. CASE u # t
    BY <1>2, <2>3 DEF Logged
  <2>. QED  BY <2>2, <2>3
<1>. QED  BY <1>2, <1>3, <1>4, <1>5

\* The end of a call is the only change of the log, in the last entry.
LEMMA EndLogs ==
    ASSUME Logged, NEW t \in Tasks, NEW outcome \in {"worked", "accepted", "failed"},
           EndCall(t, outcome)
    PROVE  /\ Logged'
           /\ \A u \in Tasks : u # t => log'[u] = log[u]
           /\ Len(log[t]) \in DOMAIN log[t] /\ DOMAIN log[t] = 1 .. Len(log[t]) /\ Len(log[t]) \in Nat
           /\ DOMAIN log'[t] = DOMAIN log[t] /\ Len(log'[t]) = Len(log[t])
           /\ \A i \in DOMAIN log[t] : i # Len(log[t]) => log'[t][i] = log[t][i]
           /\ log[t][Len(log[t])].outcome = "waiting"
           /\ log'[t][Len(log[t])].outcome = outcome
           /\ log'[t][Len(log[t])].call = log[t][Len(log[t])].call
           /\ log'[t][Len(log[t])].data = log[t][Len(log[t])].data
<1> DEFINE u == [log[t] EXCEPT ![Len(log[t])] = [@ EXCEPT !.outcome = outcome]]
<1>1. log' = [log EXCEPT ![t] = u]
    BY DEF EndCall
<1>2. log'[t] = u /\ DOMAIN log' = Tasks /\ \A v \in Tasks : v # t => log'[v] = log[v]
    BY <1>1 DEF Logged
<1>3. LogOf(log[t]) /\ log[t] # <<>> /\ outcome \in Outcomes /\ log[t][Len(log[t])].outcome = "waiting"
    BY DEF Logged, EndCall, Waiting, Last, Outcomes
<1>4. /\ LogOf(u) /\ Len(log[t]) \in DOMAIN log[t] /\ DOMAIN log[t] = 1 .. Len(log[t])
      /\ Len(log[t]) \in Nat /\ DOMAIN u = DOMAIN log[t] /\ Len(u) = Len(log[t])
      /\ \A i \in DOMAIN log[t] : i # Len(log[t]) => u[i] = log[t][i]
      /\ u[Len(log[t])].outcome = outcome
      /\ u[Len(log[t])].call = log[t][Len(log[t])].call /\ u[Len(log[t])].data = log[t][Len(log[t])].data
    BY <1>3, LogEnds
<1> HIDE DEF u
<1>5. Logged'
  <2>1. SUFFICES ASSUME NEW v \in Tasks PROVE LogOf(log'[v])
    BY <1>2 DEF Logged, LogOf
  <2>2. CASE v = t
    BY <1>2, <1>4, <2>2
  <2>3. CASE v # t
    BY <1>2, <2>3 DEF Logged
  <2>. QED  BY <2>2, <2>3
<1>. QED  BY <1>2, <1>3, <1>4, <1>5

\* The log is of calls.
THEOREM LogIsOfCalls == Spec => []Logged
<1>1. Init => Logged
  <2> SUFFICES ASSUME Init PROVE Logged
    OBVIOUS
  <2>1. <<>> \in Seq([call : {}, data : {}, outcome : Outcomes])
    OBVIOUS
  <2>2. LogOf(<<>>)
    BY <2>1 DEF LogOf
  <2>. QED  BY <2>2 DEF Init, Logged
<1>2. Logged /\ [Next]_vars => Logged'
  <2> SUFFICES ASSUME Logged, [Next]_vars PROVE Logged'
    OBVIOUS
  <2>1. ASSUME log' = log PROVE Logged'
    BY <2>1 DEF Logged, LogOf
  <2>2. ASSUME NEW t \in Tasks, NEW e \in Envelopes, Deliver(t, e) PROVE Logged'
    BY <2>1, <2>2 DEF Deliver
  <2>3. ASSUME NEW t \in Tasks, NEW c \in Range(left[t]), SkipCall(t, c) PROVE Logged'
    BY <2>1, <2>3 DEF SkipCall
  <2>4. ASSUME NEW t \in Tasks, NEW c \in Range(left[t]), BreakCall(t, c) PROVE Logged'
    BY <2>1, <2>4 DEF BreakCall
  <2>5. ASSUME NEW t \in Tasks, NEW c \in Range(left[t]), StartCall(t, c) PROVE Logged'
    BY <2>5, StartLogs
  <2>6. ASSUME NEW t \in Tasks, NEW o \in {"worked", "accepted", "failed"}, EndCall(t, o) PROVE Logged'
    BY <2>6, EndLogs
  <2>7. CASE UNCHANGED vars
    BY <2>1, <2>7 DEF vars
  <2>. QED  BY <2>2, <2>3, <2>4, <2>5, <2>6, <2>7 DEF Next
<1>. QED  BY <1>1, <1>2, PTL DEF Spec

-----------------------------------------------------------------------------
(* Who is snoozed.                                                         *)

\* The devices whose push failed: in one log, and in all.
FailedIn(s) ==
    {a \in DOMAIN OwnersOf :
        \E i \in DOMAIN s : s[i].outcome = "failed" /\ s[i].call.via = "push" /\ a \in s[i].call.to}

FailedPushes == UNION {FailedIn(log[t]) : t \in Tasks}

SnoozedFor(devices) == UNION {OwnersOf[a] \X {a} : a \in devices}

\* One that a call pushes to.
PushedBy(c) == {a \in DOMAIN OwnersOf : c.via = "push" /\ a \in c.to}

\* The property, in these terms.
LEMMA SnoozedInTerms ==
    ASSUME Logged
    PROVE  SnoozedExactlyFailed <=> snoozed = SnoozedFor(FailedPushes)
<1>1. FailedPushes = {a \in DOMAIN OwnersOf : \E t \in Tasks : \E i \in DOMAIN log[t] :
            log[t][i].outcome = "failed" /\ log[t][i].call.via = "push" /\ a \in log[t][i].call.to}
    BY DEF FailedPushes, FailedIn
<1>. QED  BY <1>1 DEF SnoozedExactlyFailed, SnoozedFor

\* A device is snoozed for every recipient that has it, and nothing else is.
LEMMA CoolDownOfOne ==
    ASSUME NEW c
    PROVE  CoolDown(c) = SnoozedFor(PushedBy(c))
<1>1. \A a \in DOMAIN OwnersOf : OwnersOf[a] \subseteq UNION Range(OwnersOf)
    BY DEF Range
<1>2. CoolDown(c) \subseteq SnoozedFor(PushedBy(c))
  <2>1. SUFFICES ASSUME NEW r \in CoolDown(c) PROVE r \in SnoozedFor(PushedBy(c))
    OBVIOUS
  <2>2. /\ r \in (UNION Range(OwnersOf)) \X DOMAIN OwnersOf
        /\ c.via = "push" /\ r[2] \in c.to /\ r[1] \in OwnersOf[r[2]]
    BY <2>1 DEF CoolDown
  <2>3. r[2] \in PushedBy(c) /\ r \in OwnersOf[r[2]] \X {r[2]}
    BY <2>2 DEF PushedBy
  <2>. QED  BY <2>3 DEF SnoozedFor
<1>3. SnoozedFor(PushedBy(c)) \subseteq CoolDown(c)
  <2>1. SUFFICES ASSUME NEW a \in PushedBy(c), NEW r \in OwnersOf[a] \X {a} PROVE r \in CoolDown(c)
    BY DEF SnoozedFor
  <2>2. r[1] \in OwnersOf[a] /\ r[2] = a /\ r = <<r[1], a>>
    BY <2>1
  <2>3. a \in DOMAIN OwnersOf /\ c.via = "push" /\ a \in c.to
    BY <2>1 DEF PushedBy
  <2>4. r[1] \in UNION Range(OwnersOf)
    BY <1>1, <2>2, <2>3
  <2>. QED  BY <2>2, <2>3, <2>4 DEF CoolDown
<1>. QED  BY <1>2, <1>3

\* What a step adds to the failed pushes is what it snoozes.
LEMMA SnoozedForBoth ==
    ASSUME NEW A, NEW B
    PROVE  SnoozedFor(A \cup B) = SnoozedFor(A) \cup SnoozedFor(B)
BY DEF SnoozedFor

\* Only an end of a call that failed is a new failure.
LEMMA FailuresOfEnd ==
    ASSUME Logged, NEW t \in Tasks, NEW outcome \in {"worked", "accepted", "failed"},
           EndCall(t, outcome)
    PROVE  FailedPushes' = FailedPushes \cup
                (IF outcome = "failed" THEN PushedBy(log[t][Len(log[t])].call) ELSE {})
<1>1. /\ \A u \in Tasks : u # t => log'[u] = log[u]
      /\ Len(log[t]) \in DOMAIN log[t] /\ DOMAIN log'[t] = DOMAIN log[t]
      /\ \A i \in DOMAIN log[t] : i # Len(log[t]) => log'[t][i] = log[t][i]
      /\ log[t][Len(log[t])].outcome = "waiting"
      /\ log'[t][Len(log[t])].outcome = outcome
      /\ log'[t][Len(log[t])].call = log[t][Len(log[t])].call
    BY EndLogs
<1>2. FailedIn(log'[t]) = FailedIn(log[t]) \cup
                (IF outcome = "failed" THEN PushedBy(log[t][Len(log[t])].call) ELSE {})
  <2>1. CASE outcome = "failed"
    BY <1>1, <2>1 DEF FailedIn, PushedBy
  <2>2. CASE outcome # "failed"
    BY <1>1, <2>2 DEF FailedIn
  <2>. QED  BY <2>1, <2>2
<1>. QED  BY <1>1, <1>2 DEF FailedPushes

\* The start of a call is none.
LEMMA FailuresOfStart ==
    ASSUME Logged, NEW t \in Tasks, NEW c, StartCall(t, c)
    PROVE  FailedPushes' = FailedPushes
<1>1. /\ \A u \in Tasks : u # t => log'[u] = log[u]
      /\ Len(log[t]) \in Nat
      /\ DOMAIN log[t] = 1 .. Len(log[t]) /\ DOMAIN log'[t] = 1 .. Len(log[t]) + 1
      /\ \A i \in DOMAIN log[t] : log'[t][i] = log[t][i]
      /\ log'[t][Len(log[t]) + 1].outcome = "waiting"
    BY StartLogs
<1>2. FailedIn(log'[t]) = FailedIn(log[t])
    BY <1>1 DEF FailedIn
<1>. QED  BY <1>1, <1>2 DEF FailedPushes

\* The devices that are snoozed for a day are those whose push failed, for all who have
\* them, however the calls of envelopes follow each other.
THEOREM SnoozedAreTheFailed == Spec => []SnoozedExactlyFailed
<1> DEFINE Inv == snoozed = SnoozedFor(FailedPushes)
<1>1. Init => Inv
    BY DEF Init, FailedPushes, FailedIn, SnoozedFor
<1>2. Logged /\ Inv /\ [Next]_vars => Inv'
  <2> SUFFICES ASSUME Logged, Inv, [Next]_vars PROVE Inv'
    OBVIOUS
  <2>0. \A A : SnoozedFor(A)' = SnoozedFor(A)
    BY DEF SnoozedFor
  <2>1. ASSUME log' = log, snoozed' = snoozed PROVE Inv'
    BY <2>0, <2>1 DEF FailedPushes, FailedIn, SnoozedFor
  <2>2. ASSUME NEW t \in Tasks, NEW e \in Envelopes, Deliver(t, e) PROVE Inv'
    BY <2>1, <2>2 DEF Deliver
  <2>3. ASSUME NEW t \in Tasks, NEW c \in Range(left[t]), SkipCall(t, c) PROVE Inv'
    BY <2>1, <2>3 DEF SkipCall
  <2>4. ASSUME NEW t \in Tasks, NEW c \in Range(left[t]), BreakCall(t, c) PROVE Inv'
    BY <2>1, <2>4 DEF BreakCall
  <2>5. ASSUME NEW t \in Tasks, NEW c \in Range(left[t]), StartCall(t, c) PROVE Inv'
    <3>1. snoozed' = snoozed
      BY <2>5 DEF StartCall
    <3>2. FailedPushes' = FailedPushes
      BY <2>5, FailuresOfStart
    <3>. QED  BY <3>1, <3>2 DEF SnoozedFor
  <2>6. ASSUME NEW t \in Tasks, NEW o \in {"worked", "accepted", "failed"}, EndCall(t, o) PROVE Inv'
    <3> DEFINE c == log[t][Len(log[t])].call
    <3>1. FailedPushes' = FailedPushes \cup (IF o = "failed" THEN PushedBy(c) ELSE {})
      BY <2>6, FailuresOfEnd
    <3>2. snoozed' = IF o = "failed" THEN snoozed \cup CoolDown(c) ELSE snoozed
      BY <2>6 DEF EndCall, Last
    <3>3. CASE o = "failed"
      <4>1. snoozed' = SnoozedFor(FailedPushes) \cup SnoozedFor(PushedBy(c))
        BY <3>2, <3>3, CoolDownOfOne
      <4>2. snoozed' = SnoozedFor(FailedPushes \cup PushedBy(c))
        BY <4>1, SnoozedForBoth
      <4>. QED  BY <3>1, <3>3, <4>2 DEF SnoozedFor
    <3>4. CASE o # "failed"
      BY <3>1, <3>2, <3>4 DEF SnoozedFor
    <3>. QED  BY <3>3, <3>4
  <2>7. CASE UNCHANGED vars
    BY <2>1, <2>7 DEF vars
  <2>. QED  BY <2>2, <2>3, <2>4, <2>5, <2>6, <2>7 DEF Next
<1>3. Logged /\ Inv => SnoozedExactlyFailed
    BY SnoozedInTerms
<1>. QED  BY <1>1, <1>2, <1>3, LogIsOfCalls, PTL DEF Spec

-----------------------------------------------------------------------------
(* What becomes of an envelope.                                            *)

\* What the counters of a task say of its log, wherever it is with its calls.
Tallied(t) ==
    /\ counts[t] \in [delivered : {0, 1}, error_count : Nat, skipped : {0, 1}]
    /\ \A i \in DOMAIN log[t] : log[t][i].outcome \in Outcomes
    /\ \A i \in DOMAIN log[t] : log[t][i].outcome = "waiting" => i = Len(log[t])
    /\ counts[t].delivered = 1 => \E i \in DOMAIN log[t] : log[t][i].outcome \in {"worked", "accepted"}
    /\ counts[t].delivered = 0 => \A i \in DOMAIN log[t] : log[t][i].outcome \in {"waiting", "failed"}
    /\ counts[t].error_count = 0 => \A i \in DOMAIN log[t] : log[t][i].outcome # "failed"
    /\ \A i \in DOMAIN log[t] : log[t][i].outcome = "accepted" => ~Waited(t, log[t][i].call)
    /\ stage[t] = "idle" => log[t] = <<>>
    /\ stage[t] = "raised" => ~Waiting(t)

TallyInv ==
    /\ DOMAIN counts = Tasks /\ DOMAIN stage = Tasks /\ DOMAIN envelope = Tasks
    /\ \A t \in Tasks : Tallied(t)

\* It is the same for a task of which nothing changed.
LEMMA TallyOfOthers ==
    ASSUME NEW t \in Tasks, Tallied(t), log'[t] = log[t], counts'[t] = counts[t],
           stage'[t] = stage[t], envelope'[t] = envelope[t]
    PROVE  Tallied(t)'
BY DEF Tallied, Waiting, Waited, Conf1, C

\* When a delivery is over, its counters say what its calls came to.
LEMMA TallyTells ==
    ASSUME Logged, TallyInv
    PROVE  OutcomeTellsTheTruth
<1>1. SUFFICES ASSUME NEW t \in Tasks, Ended(t)
               PROVE  CASE counts[t].delivered = 1 ->
                            \E i \in DOMAIN log[t] :
                                \/ log[t][i].outcome = "worked"
                                \/ /\ log[t][i].outcome = "accepted" /\ ~Conf1(t).debug
                                   /\ log[t][i].call.action \notin Responding
                        [] counts[t].delivered = 0 /\ counts[t].error_count > 0 -> Results(t) \subseteq {"failed"}
                        [] OTHER -> log[t] = <<>>
    BY DEF OutcomeTellsTheTruth
<1>2. Tallied(t) /\ LogOf(log[t])
    BY DEF TallyInv, Logged
<1>3. ~Waiting(t)
    BY <1>1, <1>2 DEF Ended, Tallied
<1>4. /\ DOMAIN log[t] = 1 .. Len(log[t]) /\ Len(log[t]) \in Nat
      /\ log[t] # <<>> => Len(log[t]) \in DOMAIN log[t]
      /\ log[t] = <<>> <=> DOMAIN log[t] = {}
    <2>1. PICK X, Y : log[t] \in Seq([call : X, data : Y, outcome : Outcomes])
      BY <1>2 DEF LogOf
    <2>2. DOMAIN log[t] = 1 .. Len(log[t]) /\ Len(log[t]) \in Nat
      BY <2>1, LenProperties
    <2>3. CASE log[t] = <<>>
      BY <2>2, <2>3, EmptySeq
    <2>4. CASE log[t] # <<>>
      <3>1. Len(log[t]) \in Nat \ {0}
        BY <2>1, <2>4, EmptySeq
      <3>. QED  BY <2>2, <2>4, <3>1
    <2>. QED  BY <2>3, <2>4
<1>5. \A i \in DOMAIN log[t] : log[t][i].outcome # "waiting"
    BY <1>2, <1>3, <1>4 DEF Tallied, Waiting, Last
<1>6. CASE counts[t].delivered = 1
    BY <1>2, <1>6 DEF Tallied, Waited
<1>7. CASE counts[t].delivered = 0 /\ counts[t].error_count > 0
  <2>1. Results(t) \subseteq {"failed"}
    BY <1>2, <1>5, <1>7 DEF Tallied, Results
  <2>. QED  BY <1>7, <2>1
<1>8. CASE counts[t].delivered = 0 /\ ~(counts[t].error_count > 0)
  <2>1. counts[t].error_count = 0
    BY <1>2, <1>8 DEF Tallied
  <2>2. log[t] = <<>>
    BY <1>2, <1>4, <1>5, <1>8, <2>1 DEF Tallied
  <2>. QED  BY <1>8, <2>2
<1>9. counts[t].delivered \in {0, 1}
    BY <1>2 DEF Tallied
<1>. QED  BY <1>6, <1>7, <1>8, <1>9

\* deliver() counts an error if it raises before its first call.
LEMMA TallyOfDeliver ==
    ASSUME Logged, TallyInv, NEW t \in Tasks, NEW e \in Envelopes, Deliver(t, e)
    PROVE  TallyInv'
<1>1. log' = log /\ log[t] = <<>> /\ stage[t] = "idle" /\ Tallied(t)
    BY DEF Deliver, TallyInv, Tallied
<1>2. /\ DOMAIN counts' = Tasks /\ DOMAIN stage' = Tasks /\ DOMAIN envelope' = Tasks
      /\ \A u \in Tasks : u # t =>
            counts'[u] = counts[u] /\ stage'[u] = stage[u] /\ envelope'[u] = envelope[u]
      /\ stage'[t] \in {"sending", "raised"}
      /\ \/ counts'[t] = counts[t]
         \/ counts'[t] = [counts[t] EXCEPT !.error_count = @ + 1]
    BY DEF Deliver, Raise, TallyInv
<1>3. counts'[t] \in [delivered : {0, 1}, error_count : Nat, skipped : {0, 1}]
      /\ counts'[t].delivered = counts[t].delivered
    BY <1>1, <1>2 DEF Tallied
<1>4. counts[t].delivered = 0
    BY <1>1 DEF Tallied
<1>5. Tallied(t)'
    BY <1>1, <1>2, <1>3, <1>4 DEF Tallied, Waiting
<1>. QED  BY <1>1, <1>2, <1>5, TallyOfOthers DEF TallyInv

\* Nothing of the log changes when a call is skipped or breaks.
LEMMA TallyOfSkip ==
    ASSUME TallyInv, NEW t \in Tasks, NEW c, SkipCall(t, c)
    PROVE  TallyInv'
<1>1. /\ log' = log /\ stage' = stage /\ envelope' = envelope /\ Tallied(t)
      /\ counts' = [counts EXCEPT ![t] = [counts[t] EXCEPT !.skipped = 1]]
    BY DEF SkipCall, TallyInv
<1>2. /\ counts'[t] \in [delivered : {0, 1}, error_count : Nat, skipped : {0, 1}]
      /\ counts'[t].delivered = counts[t].delivered /\ counts'[t].error_count = counts[t].error_count
      /\ DOMAIN counts' = Tasks /\ \A u \in Tasks : u # t => counts'[u] = counts[u]
    BY <1>1 DEF Tallied, TallyInv
<1>3. Tallied(t)'
    BY <1>1, <1>2 DEF Tallied, Waiting, Waited, Conf1, C
<1>. QED  BY <1>1, <1>2, <1>3, TallyOfOthers DEF TallyInv

LEMMA TallyOfBreak ==
    ASSUME TallyInv, NEW t \in Tasks, NEW c, BreakCall(t, c)
    PROVE  TallyInv'
<1>1. /\ log' = log /\ envelope' = envelope /\ Tallied(t) /\ ~Waiting(t)
      /\ stage' = [stage EXCEPT ![t] = "raised"]
      /\ counts' = [counts EXCEPT ![t] = [counts[t] EXCEPT !.error_count = @ + 1]]
    BY DEF BreakCall, Raise, NextCall, TallyInv
<1>2. /\ counts'[t] \in [delivered : {0, 1}, error_count : Nat, skipped : {0, 1}]
      /\ counts'[t].delivered = counts[t].delivered
      /\ counts'[t].error_count = counts[t].error_count + 1 /\ counts[t].error_count \in Nat
      /\ DOMAIN counts' = Tasks /\ \A u \in Tasks : u # t => counts'[u] = counts[u]
      /\ DOMAIN stage' = Tasks /\ \A u \in Tasks : u # t => stage'[u] = stage[u]
      /\ stage'[t] = "raised"
    BY <1>1 DEF Tallied, TallyInv
<1>3. Tallied(t)'
    BY <1>1, <1>2 DEF Tallied, Waiting, Waited, Conf1, C
<1>. QED  BY <1>1, <1>2, <1>3, TallyOfOthers DEF TallyInv

\* A call is started when none is waited for.
LEMMA TallyOfStart ==
    ASSUME Logged, TallyInv, NEW t \in Tasks, NEW c, StartCall(t, c)
    PROVE  TallyInv'
<1>1. /\ \A u \in Tasks : u # t => log'[u] = log[u]
      /\ Len(log[t]) \in Nat /\ Len(log'[t]) = Len(log[t]) + 1
      /\ DOMAIN log[t] = 1 .. Len(log[t]) /\ DOMAIN log'[t] = 1 .. Len(log[t]) + 1
      /\ \A i \in DOMAIN log[t] : log'[t][i] = log[t][i]
      /\ log'[t][Len(log[t]) + 1].outcome = "waiting"
    BY StartLogs
<1>2. /\ stage' = stage /\ envelope' = envelope /\ counts' = counts
      /\ stage[t] = "sending" /\ ~Waiting(t) /\ Tallied(t)
    BY DEF StartCall, NextCall, TallyInv
<1>3. \A i \in DOMAIN log[t] : log[t][i].outcome # "waiting"
  <2>1. SUFFICES ASSUME NEW i \in DOMAIN log[t], log[t][i].outcome = "waiting" PROVE FALSE
    OBVIOUS
  <2>2. i = Len(log[t]) /\ log[t] # <<>>
    BY <1>2, <2>1 DEF Tallied
  <2>. QED  BY <1>2, <2>1, <2>2 DEF Waiting, Last
<1>4. \A i \in DOMAIN log'[t] : i \in DOMAIN log[t] \/ i = Len(log[t]) + 1
    BY <1>1
<1>5. \A i \in DOMAIN log[t] : i \in DOMAIN log'[t]
    BY <1>1
<1>6. Tallied(t)'
  <2>1. \A i \in DOMAIN log'[t] : log'[t][i].outcome \in Outcomes
    BY <1>1, <1>2, <1>4 DEF Tallied, Outcomes
  <2>2. \A i \in DOMAIN log'[t] : log'[t][i].outcome = "waiting" => i = Len(log'[t])
    BY <1>1, <1>3, <1>4
  <2>3. counts[t].delivered = 1 => \E i \in DOMAIN log'[t] : log'[t][i].outcome \in {"worked", "accepted"}
    BY <1>1, <1>2, <1>5 DEF Tallied
  <2>4. counts[t].delivered = 0 => \A i \in DOMAIN log'[t] : log'[t][i].outcome \in {"waiting", "failed"}
    BY <1>1, <1>2, <1>4 DEF Tallied
  <2>5. counts[t].error_count = 0 => \A i \in DOMAIN log'[t] : log'[t][i].outcome # "failed"
    BY <1>1, <1>2, <1>4 DEF Tallied
  <2>6. \A i \in DOMAIN log'[t] : log'[t][i].outcome = "accepted" => ~Waited(t, log'[t][i].call)
    BY <1>1, <1>2, <1>4 DEF Tallied
  <2>7. \A x : Waited(t, x)' = Waited(t, x)
    BY <1>2 DEF Waited, Conf1, C
  <2>. QED  BY <1>2, <2>1, <2>2, <2>3, <2>4, <2>5, <2>6, <2>7 DEF Tallied
<1>. QED  BY <1>1, <1>2, <1>6, TallyOfOthers DEF TallyInv

\* The end of a call is counted.
LEMMA TallyOfEnd ==
    ASSUME Logged, TallyInv, NEW t \in Tasks, NEW outcome \in {"worked", "accepted", "failed"},
           EndCall(t, outcome)
    PROVE  TallyInv'
<1>1. /\ \A u \in Tasks : u # t => log'[u] = log[u]
      /\ Len(log[t]) \in DOMAIN log[t] /\ DOMAIN log'[t] = DOMAIN log[t] /\ Len(log'[t]) = Len(log[t])
      /\ \A i \in DOMAIN log[t] : i # Len(log[t]) => log'[t][i] = log[t][i]
      /\ log'[t][Len(log[t])].outcome = outcome
      /\ log'[t][Len(log[t])].call = log[t][Len(log[t])].call
    BY EndLogs
<1>2. /\ stage' = stage /\ envelope' = envelope /\ Tallied(t)
      /\ counts' = [counts EXCEPT ![t] = Counted(counts[t], outcome)]
      /\ outcome = "accepted" => ~Waited(t, log[t][Len(log[t])].call)
    BY DEF EndCall, TallyInv, OutcomesOf, Last
<1>3. /\ counts'[t] \in [delivered : {0, 1}, error_count : Nat, skipped : {0, 1}]
      /\ outcome = "failed" => /\ counts'[t].delivered = counts[t].delivered
                               /\ counts'[t].error_count = counts[t].error_count + 1
                               /\ counts[t].error_count \in Nat
      /\ outcome # "failed" => /\ counts'[t].delivered = 1
                               /\ counts'[t].error_count = counts[t].error_count
      /\ DOMAIN counts' = Tasks /\ \A u \in Tasks : u # t => counts'[u] = counts[u]
    BY <1>2 DEF Tallied, TallyInv, Counted
<1>4. Tallied(t)'
  <2>1. \A i \in DOMAIN log'[t] : log'[t][i].outcome \in Outcomes
    BY <1>1, <1>2 DEF Tallied, Outcomes
  <2>2. \A i \in DOMAIN log'[t] : log'[t][i].outcome = "waiting" => i = Len(log'[t])
    BY <1>1, <1>2 DEF Tallied
  <2>3. counts'[t].delivered = 1 => \E i \in DOMAIN log'[t] : log'[t][i].outcome \in {"worked", "accepted"}
    <3>1. CASE outcome # "failed"
      BY <1>1, <3>1
    <3>2. CASE outcome = "failed"
      <4>1. SUFFICES ASSUME counts[t].delivered = 1
                     PROVE \E i \in DOMAIN log'[t] : log'[t][i].outcome \in {"worked", "accepted"}
        BY <1>3, <3>2
      <4>2. PICK i \in DOMAIN log[t] : log[t][i].outcome \in {"worked", "accepted"}
        BY <1>2, <4>1 DEF Tallied
      <4>3. i # Len(log[t])
        BY <4>2, EndLogs
      <4>. QED  BY <1>1, <4>2, <4>3
    <3>. QED  BY <3>1, <3>2
  <2>4. counts'[t].delivered = 0 => \A i \in DOMAIN log'[t] : log'[t][i].outcome \in {"waiting", "failed"}
    BY <1>1, <1>2, <1>3 DEF Tallied
  <2>5. counts'[t].error_count = 0 => \A i \in DOMAIN log'[t] : log'[t][i].outcome # "failed"
    BY <1>1, <1>2, <1>3 DEF Tallied
  <2>6. \A i \in DOMAIN log'[t] : log'[t][i].outcome = "accepted" => ~Waited(t, log'[t][i].call)
    BY <1>1, <1>2 DEF Tallied
  <2>7. \A x : Waited(t, x)' = Waited(t, x)
    BY <1>2 DEF Waited, Conf1, C
  <2>8. stage[t] # "idle" /\ stage[t] # "raised"
    BY <1>2 DEF Tallied, EndCall, Waiting
  <2>. QED  BY <1>2, <1>3, <2>1, <2>2, <2>3, <2>4, <2>5, <2>6, <2>7, <2>8 DEF Tallied
<1>. QED  BY <1>1, <1>2, <1>3, <1>4, TallyOfOthers DEF TallyInv

\* The counters of each task are true of its log.
THEOREM CountersTallied == Spec => []TallyInv
<1>1. Init => TallyInv
    BY DEF Init, TallyInv, Tallied, NewCounts, Waiting
<1>2. Logged /\ TallyInv /\ [Next]_vars => TallyInv'
  <2> SUFFICES ASSUME Logged, TallyInv, [Next]_vars PROVE TallyInv'
    OBVIOUS
  <2>1. ASSUME NEW t \in Tasks, NEW e \in Envelopes, Deliver(t, e) PROVE TallyInv'
    BY <2>1, TallyOfDeliver
  <2>2. ASSUME NEW t \in Tasks, NEW c \in Range(left[t]), SkipCall(t, c) PROVE TallyInv'
    BY <2>2, TallyOfSkip
  <2>3. ASSUME NEW t \in Tasks, NEW c \in Range(left[t]), BreakCall(t, c) PROVE TallyInv'
    BY <2>3, TallyOfBreak
  <2>4. ASSUME NEW t \in Tasks, NEW c \in Range(left[t]), StartCall(t, c) PROVE TallyInv'
    BY <2>4, TallyOfStart
  <2>5. ASSUME NEW t \in Tasks, NEW o \in {"worked", "accepted", "failed"}, EndCall(t, o) PROVE TallyInv'
    BY <2>5, TallyOfEnd
  <2>6. CASE UNCHANGED vars
    BY <2>6, TallyOfOthers DEF vars, TallyInv
  <2>. QED  BY <2>1, <2>2, <2>3, <2>4, <2>5, <2>6 DEF Next
<1>. QED  BY <1>1, <1>2, LogIsOfCalls, PTL DEF Spec

\* An envelope counts as delivered, failed or suppressed as its calls came out, for any
\* transports and however many calls it takes.
THEOREM OutcomesAreTrue == Spec => []OutcomeTellsTheTruth
<1>1. Logged /\ TallyInv => OutcomeTellsTheTruth
    BY TallyTells
<1>. QED  BY <1>1, LogIsOfCalls, CountersTallied, PTL

-----------------------------------------------------------------------------
(* What is called.                                                         *)

\* Chimes: an entity or device, and the entry of the alias it is for, if any.
Chimes == [name : Names, entry : DOMAIN Entries \cup {NoEntry}]
NamesIn(chimes) == {chimes[i].name : i \in DOMAIN chimes}

\* A chime that is put into a dictionary has its name there once more or anew.
LEMMA PutProperties ==
    ASSUME NEW s \in Seq(Chimes), NEW c \in Chimes
    PROVE  Put(s, c) \in Seq(Chimes) /\ NamesIn(Put(s, c)) = NamesIn(s) \cup {c.name}
<1>1. Len(s) \in Nat /\ DOMAIN s = 1 .. Len(s) /\ \A i \in 1 .. Len(s) : s[i] \in Chimes
  OBVIOUS
<1>2. CASE \E i \in DOMAIN s : s[i].name = c.name
  <2> DEFINE u == [i \in DOMAIN s |-> IF s[i].name = c.name THEN c ELSE s[i]]
  <2>1. Put(s, c) = u
    BY <1>2 DEF Put
  <2>2. u \in [1 .. Len(s) -> Chimes]
    BY <1>1
  <2>3. u \in Seq(Chimes)
    BY <1>1, <2>2, SeqDef
  <2>4. DOMAIN u = DOMAIN s /\ \A i \in DOMAIN s : u[i].name = s[i].name
    OBVIOUS
  <2>5. NamesIn(u) = NamesIn(s)
    <3> HIDE DEF u
    <3>. QED  BY <2>4 DEF NamesIn
  <2>6. c.name \in NamesIn(s)
    BY <1>2 DEF NamesIn
  <2>. QED  BY <2>1, <2>3, <2>5, <2>6
<1>3. CASE ~\E i \in DOMAIN s : s[i].name = c.name
  <2>1. Put(s, c) = Append(s, c)
    BY <1>3 DEF Put
  <2>2. /\ Append(s, c) \in Seq(Chimes)
        /\ DOMAIN Append(s, c) = 1 .. (Len(s) + 1)
        /\ \A i \in 1 .. Len(s) : Append(s, c)[i] = s[i]
        /\ Append(s, c)[Len(s) + 1] = c
    BY AppendProperties, <1>1
  <2>3. 1 .. (Len(s) + 1) = (1 .. Len(s)) \cup {Len(s) + 1}
    BY <1>1
  <2>4. NamesIn(Append(s, c)) = NamesIn(s) \cup {c.name}
    BY <1>1, <2>2, <2>3 DEF NamesIn
  <2>. QED  BY <2>1, <2>2, <2>4
<1>. QED  BY <1>2, <1>3

\* As have those of a dictionary that are put into another.
LEMMA PutAllProperties ==
    ASSUME NEW s \in Seq(Chimes), NEW more \in Seq(Chimes)
    PROVE  /\ PutAll(s, more) \in Seq(Chimes)
           /\ NamesIn(PutAll(s, more)) = NamesIn(s) \cup NamesIn(more)
<1> DEFINE N == Len(more)
           T == Seq(Chimes)
           Nexts(f) == [i \in 0 .. N |-> IF i = 0 THEN s ELSE Put(f[i - 1], more[i])]
           put == CHOOSE f : f = Nexts(f)
           step == [i \in 1 .. N |-> [x \in T |-> Put(x, more[i])]]
           Upto(n) == {more[i].name : i \in 1 .. n}
           G == {n \in 0 .. N : put[n] \in T /\ NamesIn(put[n]) = NamesIn(s) \cup Upto(n)}
<1>1. N \in Nat /\ DOMAIN more = 1 .. N /\ \A i \in 1 .. N : more[i] \in Chimes
  OBVIOUS
<1>2. PutAll(s, more) = put[N]
  BY DEF PutAll
<1>3. put = Nexts(put)
  <2>1. step \in [1 .. N -> [T -> T]] /\ s \in T
    BY <1>1, PutProperties
  <2>2. \A i \in 1 .. N, x \in T : step[i][x] = Put(x, more[i])
    OBVIOUS
  <2> HIDE DEF N, T, step
  <2>3. PICK f \in [0 .. N -> T] : IsRun(f, N, s, step)
    BY <1>1, <2>1, RecursionExists
  <2>4. ASSUME NEW i \in 0 .. N PROVE f[i] = IF i = 0 THEN s ELSE Put(f[i - 1], more[i])
    <3>1. CASE i = 0
      BY <2>3, <3>1 DEF IsRun
    <3>2. CASE i # 0
      <4>1. i \in 1 .. N /\ i - 1 \in 0 .. N
        BY <1>1, <3>2
      <4>. QED  BY <2>2, <2>3, <3>2, <4>1 DEF IsRun
    <3>. QED  BY <3>1, <3>2
  <2>5. f = Nexts(f)
    BY <2>4
  <2>. QED  BY <2>5
<1> HIDE DEF put, T, N, step
<1>4. \A i \in 0 .. N : put[i] = IF i = 0 THEN s ELSE Put(put[i - 1], more[i])
  BY <1>3
<1>5. 0 \in G
  <2>1. Upto(0) = {} /\ put[0] = s /\ 0 \in 0 .. N
    BY <1>1, <1>4
  <2> HIDE DEF Upto
  <2>. QED  BY <2>1 DEF T
<1>6. ASSUME NEW n \in 1 .. N, n - 1 \in G PROVE n \in G
  <2>1. put[n - 1] \in T /\ NamesIn(put[n - 1]) = NamesIn(s) \cup Upto(n - 1)
    BY <1>6
  <2>2. put[n] = Put(put[n - 1], more[n]) /\ more[n] \in Chimes /\ n \in 0 .. N
    BY <1>1, <1>4
  <2>3. put[n] \in T /\ NamesIn(put[n]) = NamesIn(put[n - 1]) \cup {more[n].name}
    BY <2>1, <2>2, PutProperties DEF T
  <2>4. Upto(n) = Upto(n - 1) \cup {more[n].name}
    <3>1. n \in Nat /\ 1 .. n = (1 .. (n - 1)) \cup {n}
      BY <1>1
    <3>. QED  BY <3>1
  <2> HIDE DEF Upto
  <2>. QED  BY <2>1, <2>2, <2>3, <2>4
<1>7. N \in G
  <2> HIDE DEF G
  <2>1. \A n \in 0 .. N : n \in G
    BY <1>1, <1>5, <1>6, UptoInducts
  <2>. QED  BY <1>1, <2>1
<1>8. Upto(N) = NamesIn(more)
  BY <1>1 DEF NamesIn
<1> HIDE DEF Upto
<1>. QED  BY <1>2, <1>7, <1>8 DEF T

\* A function on 1 .. n is a sequence.
LEMMA MappedIsSeq ==
    ASSUME NEW X, NEW s \in Seq(X), NEW Y, NEW f \in [DOMAIN s -> Y]
    PROVE  f \in Seq(Y) /\ DOMAIN f = DOMAIN s /\ Len(f) = Len(s)
<1>1. DOMAIN s = 1 .. Len(s) /\ Len(s) \in Nat
  OBVIOUS
<1>2. f \in Seq(Y)
  BY <1>1, SeqDef
<1>3. DOMAIN f = 1 .. Len(s)
  BY <1>1
<1>. QED  BY <1>1, <1>2, <1>3, LenProperties

\* Chimes for the names of a list.
LEMMA ChimeProperties ==
    ASSUME NEW names \in Seq(Names), NEW a \in DOMAIN Entries \cup {NoEntry}
    PROVE  Chime(names, a) \in Seq(Chimes) /\ NamesIn(Chime(names, a)) = Range(names)
<1>1. \A i \in DOMAIN names : names[i] \in Names
  OBVIOUS
<1>2. Chime(names, a) \in [DOMAIN names -> Chimes]
  BY <1>1 DEF Chime, Chimes
<1>3. Chime(names, a) \in Seq(Chimes)
  BY <1>2, MappedIsSeq
<1>4. DOMAIN Chime(names, a) = DOMAIN names /\ \A i \in DOMAIN names : Chime(names, a)[i].name = names[i]
  BY DEF Chime
<1>. QED  BY <1>3, <1>4 DEF NamesIn, Range

\* The lists of targets of an envelope.
LEMMA TargetsTyped ==
    ASSUME NEW e \in Envelopes
    PROVE  /\ e.to.entity_id \in Seq(Names) /\ e.to.device_id \in Seq(Names)
           /\ e.to.email \in Seq(Names) /\ e.to.phone \in Seq(Names)
           /\ e.to.mobile_app_id \in Seq(Names)
<1>1. /\ DOMAIN Categories = 1 .. 5
      /\ Categories[1] = "entity_id" /\ Categories[2] = "device_id" /\ Categories[3] = "email"
      /\ Categories[4] = "phone" /\ Categories[5] = "mobile_app_id"
  BY DEF Categories
<1>2. \A i \in 1 .. 5 : e.to[Categories[i]] \in Seq(Names)
  BY <1>1, TransportCallsAssumption
<1>. QED  BY <1>1, <1>2

\* What is left of a list of names when some are left out.
LEMMA KeptNames ==
    ASSUME NEW names \in Seq(Names), NEW S
    PROVE  /\ Keep(names, S) \in Seq(Names)
           /\ Range(Keep(names, S)) = Range(names) \cap S
           /\ Range(names) \subseteq Names
<1>1. Keep(names, S) \in Seq(Names) /\ Range(Keep(names, S)) = Range(names) \cap S
  BY KeepProperties
<1>2. Range(names) \subseteq Names
  BY DEF Range
<1>. QED  BY <1>1, <1>2

\* An entry adds chimes to those of the entries before it.
LEMMA AddEntryTyped ==
    ASSUME NEW e \in Envelopes, NEW s \in Seq(Chimes), NEW a \in DOMAIN Entries
    PROVE  AddEntry(e, s, a) \in Seq(Chimes)
<1>1. EntryTargets(e, a) \in Seq(Names)
  <2>1. Entries[a].at \in Seq(Names)
    BY ServiceCallsAssumption
  <2>2. OfDomain(e.to.entity_id, Entries[a].domain) \in Seq(Names)
    BY TargetsTyped, KeptNames DEF OfDomain
  <2>. QED  BY <2>1, <2>2, TargetsTyped DEF EntryTargets
<1>2. \A S : Chime(Keep(EntryTargets(e, a), S), a) \in Seq(Chimes)
  BY <1>1, KeptNames, ChimeProperties
<1>. QED  BY <1>2, PutAllProperties DEF AddEntry

\* What the aliases of a tune come to is a dictionary of chimes.
LEMMA ResolveTyped ==
    ASSUME NEW e \in Envelopes
    PROVE  ResolveTune(e) \in Seq(Chimes)
<1> DEFINE entries == EntriesOf(e)
           N == Len(entries)
           T == Seq(Chimes)
           Nexts(f) == [i \in 0 .. N |-> IF i = 0 THEN <<>> ELSE AddEntry(e, f[i - 1], entries[i])]
           resolved == CHOOSE f : f = Nexts(f)
           step == [i \in 1 .. N |-> [x \in T |-> AddEntry(e, x, entries[i])]]
           none == <<>>
           G == {n \in 0 .. N : resolved[n] \in T}
<1>1. N \in Nat /\ \A i \in 1 .. N : entries[i] \in DOMAIN Entries
  BY TransportCallsAssumption
<1>2. ResolveTune(e) = resolved[N]
  BY DEF ResolveTune
<1>3. resolved = Nexts(resolved)
  <2>1. step \in [1 .. N -> [T -> T]] /\ none \in T
    BY <1>1, AddEntryTyped, EmptySeq
  <2>2. \A i \in 1 .. N, x \in T : step[i][x] = AddEntry(e, x, entries[i])
    OBVIOUS
  <2> HIDE DEF N, T, step, none, entries
  <2>3. PICK f \in [0 .. N -> T] : IsRun(f, N, none, step)
    BY <1>1, <2>1, RecursionExists
  <2>4. ASSUME NEW i \in 0 .. N PROVE f[i] = IF i = 0 THEN <<>> ELSE AddEntry(e, f[i - 1], entries[i])
    <3>1. CASE i = 0
      BY <2>3, <3>1 DEF IsRun, none
    <3>2. CASE i # 0
      <4>1. i \in 1 .. N /\ i - 1 \in 0 .. N
        BY <1>1, <3>2
      <4>. QED  BY <2>2, <2>3, <3>2, <4>1 DEF IsRun
    <3>. QED  BY <3>1, <3>2
  <2>5. f = Nexts(f)
    BY <2>4
  <2>. QED  BY <2>5
<1> HIDE DEF resolved, T, N, step, entries
<1>4. \A i \in 0 .. N : resolved[i] = IF i = 0 THEN <<>> ELSE AddEntry(e, resolved[i - 1], entries[i])
  BY <1>3
<1>5. 0 \in G
  <2>1. 0 \in 0 .. N
    BY <1>1
  <2>2. resolved[0] = none
    BY <1>4, <2>1
  <2>3. none \in T
    BY EmptySeq DEF T
  <2>. QED  BY <2>1, <2>2, <2>3
<1>6. ASSUME NEW n \in 1 .. N, n - 1 \in G PROVE n \in G
  <2>1. resolved[n] = AddEntry(e, resolved[n - 1], entries[n]) /\ n \in 0 .. N
    BY <1>1, <1>4
  <2>. QED  BY <1>1, <1>6, <2>1, AddEntryTyped DEF T
<1>7. \A n \in 0 .. N : n \in G
  <2> HIDE DEF G
  <2>. QED  BY <1>1, <1>5, <1>6, UptoInducts
<1>8. N \in 0 .. N
  BY <1>1
<1>. QED  BY <1>2, <1>7, <1>8 DEF T

\* Chimes are for the members of the entities, for the devices that are not left out, and
\* for what the aliases name.
LEMMA ExpandedProperties ==
    ASSUME NEW e \in Envelopes
    PROVE  /\ ExpandedTargets(e) \in Seq(Chimes)
           /\ (UNION {Range(Members[x]) : x \in Range(e.to.entity_id)})
                \cup (Range(e.to.device_id) \ Filtered[e.delivery]) \subseteq NamesIn(ExpandedTargets(e))
<1> DEFINE groups == Each(e.to.entity_id, LAMBDA n : Members[n])
           entities == FlattenSeq(groups)
           devices == Keep(e.to.device_id, Names \ Filtered[e.delivery])
           plain == PutAll(<<>>, Chime(entities \o devices, NoEntry))
<1>1. /\ groups \in [DOMAIN e.to.entity_id -> Seq(Names)]
      /\ \A i \in DOMAIN e.to.entity_id : groups[i] = Members[e.to.entity_id[i]]
  <2>1. \A i \in DOMAIN e.to.entity_id : e.to.entity_id[i] \in DOMAIN Members
    BY TransportCallsAssumption DEF Range
  <2>. QED  BY <2>1, ServiceCallsAssumption DEF Each
<1>2. groups \in Seq(Seq(Names)) /\ DOMAIN groups = DOMAIN e.to.entity_id
  BY <1>1, TargetsTyped, MappedIsSeq
<1>3. /\ entities \in Seq(Names)
      /\ Range(entities) = UNION {Range(groups[i]) : i \in DOMAIN groups}
  <2> HIDE DEF groups
  <2>. QED  BY <1>2, FlattenProperties
<1>4. UNION {Range(groups[i]) : i \in DOMAIN groups} = UNION {Range(Members[x]) : x \in Range(e.to.entity_id)}
  <2> DEFINE ids == e.to.entity_id
  <2>1. {Range(groups[i]) : i \in DOMAIN groups} = {Range(Members[ids[i]]) : i \in DOMAIN ids}
    BY <1>1, <1>2
  <2>2. {Range(Members[ids[i]]) : i \in DOMAIN ids} = {Range(Members[x]) : x \in Range(ids)}
    <3> HIDE DEF ids
    <3>1. Range(ids) = {ids[i] : i \in DOMAIN ids}
      BY DEF Range
    <3>. QED  BY <3>1
  <2>. QED  BY <2>1, <2>2
<1>5. /\ devices \in Seq(Names)
      /\ Range(devices) = Range(e.to.device_id) \ Filtered[e.delivery]
  BY TargetsTyped, KeptNames
<1> HIDE DEF entities, devices
<1>6. entities \o devices \in Seq(Names) /\ Range(entities \o devices) = Range(entities) \cup Range(devices)
  <2>1. entities \in Seq(Names) /\ devices \in Seq(Names)
    BY <1>3, <1>5
  <2>. QED  BY <2>1, ConcatRange
<1>7. /\ Chime(entities \o devices, NoEntry) \in Seq(Chimes)
      /\ NamesIn(Chime(entities \o devices, NoEntry)) = Range(entities) \cup Range(devices)
  BY <1>6, ChimeProperties
<1>8. plain \in Seq(Chimes) /\ Range(entities) \cup Range(devices) \subseteq NamesIn(plain)
  <2> DEFINE none == <<>>
             base == Chime(entities \o devices, NoEntry)
  <2>1. none \in Seq(Chimes)
    BY EmptySeq
  <2>2. base \in Seq(Chimes) /\ NamesIn(base) = Range(entities) \cup Range(devices)
    BY <1>7
  <2>3. plain = PutAll(none, base)
    OBVIOUS
  <2> HIDE DEF none, base, plain
  <2>. QED  BY <2>1, <2>2, <2>3, PutAllProperties
<1>9. ExpandedTargets(e) = PutAll(plain, ResolveTune(e))
  BY DEF ExpandedTargets, entities, devices
<1> HIDE DEF plain
<1>10. /\ ExpandedTargets(e) \in Seq(Chimes)
       /\ NamesIn(plain) \subseteq NamesIn(ExpandedTargets(e))
  BY <1>8, <1>9, ResolveTyped, PutAllProperties
<1>. QED  BY <1>3, <1>4, <1>5, <1>8, <1>10

\* A call that a transport plans, and the calls it plans: any but the first is well formed.
Planned(c) ==
    /\ IsCall(c) /\ c.entry \in DOMAIN Entries \cup {NoEntry}
    /\ c.via = "push" => c.to # {}

IsPlan(s) ==
    /\ s \in Seq(Range(s))
    /\ \A i \in DOMAIN s : Planned(s[i]) /\ (i # 1 => ~Malformed(s[i]))

To(s) == UNION {s[i].to : i \in DOMAIN s}

\* Calls are records of the same kind.
LEMMA AskPlanned ==
    ASSUME NEW action, NEW to, NEW targeted
    PROVE  /\ Planned(Ask(action, to, targeted))
           /\ Ask(action, to, targeted).to = to /\ Ask(action, to, targeted).action = action
BY DEF Ask, Planned, IsCall

\* A call by itself is a plan.
LEMMA OneIsPlan ==
    ASSUME NEW c, Planned(c)
    PROVE  IsPlan(<<c>>) /\ To(<<c>>) = c.to
<1>1. DOMAIN <<c>> = {1} /\ <<c>>[1] = c
  OBVIOUS
<1>2. Range(<<c>>) = {c}
  BY <1>1 DEF Range
<1>3. <<c>> \in Seq({c})
  OBVIOUS
<1>. QED  BY <1>1, <1>2, <1>3 DEF IsPlan, To

\* As is a call for names.
LEMMA AskIsPlan ==
    ASSUME NEW action, NEW to, NEW targeted
    PROVE  IsPlan(<<Ask(action, to, targeted)>>) /\ To(<<Ask(action, to, targeted)>>) = to
<1> DEFINE c == Ask(action, to, targeted)
<1>1. Planned(c) /\ c.to = to
  BY AskPlanned
<1> HIDE DEF c
<1>2. IsPlan(<<c>>) /\ To(<<c>>) = to
  BY <1>1, OneIsPlan
<1>. QED  BY <1>2 DEF c

\* As is none.
LEMMA NoneIsPlan == IsPlan(<<>>)
<1>1. DOMAIN <<>> = {}
  OBVIOUS
<1>. QED  BY <1>1, EmptySeq DEF IsPlan

\* As is a call for each of several names, if all are well formed.
LEMMA EachIsPlan ==
    ASSUME NEW X, NEW names \in Seq(X), NEW f, f = [i \in DOMAIN names |-> f[i]],
           \A i \in DOMAIN names : Planned(f[i]) /\ ~Malformed(f[i])
    PROVE  IsPlan(f) /\ To(f) = UNION {f[i].to : i \in DOMAIN names}
                     /\ \A i \in DOMAIN f : ~Malformed(f[i])
<1>1. DOMAIN f = DOMAIN names
  OBVIOUS
<1>2. f \in [DOMAIN names -> Range(f)]
  BY <1>1 DEF Range
<1>3. f \in Seq(Range(f))
  BY <1>2, MappedIsSeq
<1>. QED  BY <1>1, <1>3 DEF IsPlan, To

\* As are two plans after one another.
LEMMA BothArePlan ==
    ASSUME NEW s, IsPlan(s), NEW u, IsPlan(u), \A i \in DOMAIN u : ~Malformed(u[i])
    PROVE  IsPlan(s \o u) /\ To(s \o u) = To(s) \cup To(u)
<1> DEFINE X == Range(s) \cup Range(u)
<1>1. s \in Seq(X) /\ u \in Seq(X)
  BY SeqMonotonic DEF IsPlan
<1>2. /\ Len(s) \in Nat /\ Len(u) \in Nat /\ DOMAIN s = 1 .. Len(s) /\ DOMAIN u = 1 .. Len(u)
      /\ s \o u \in Seq(X) /\ DOMAIN (s \o u) = 1 .. (Len(s) + Len(u))
      /\ \A i \in 1 .. (Len(s) + Len(u)) : (s \o u)[i] = IF i <= Len(s) THEN s[i] ELSE u[i - Len(s)]
  <2> HIDE DEF X
  <2>. QED  BY <1>1, ConcatProperties, LenProperties
<1>3. Range(s \o u) = X
  <2>1. Range(s \o u) = Range(s) \cup Range(u)
    BY <1>1, ConcatRange
  <2>. QED  BY <2>1
<1>4. ASSUME NEW i \in DOMAIN (s \o u) PROVE Planned((s \o u)[i]) /\ (i # 1 => ~Malformed((s \o u)[i]))
  <2>1. CASE i <= Len(s)
    <3>1. i \in DOMAIN s /\ (s \o u)[i] = s[i]
      BY <1>2, <1>4, <2>1
    <3>. QED  BY <3>1 DEF IsPlan
  <2>2. CASE ~(i <= Len(s))
    <3>1. i - Len(s) \in DOMAIN u /\ (s \o u)[i] = u[i - Len(s)]
      BY <1>2, <1>4, <2>2
    <3>. QED  BY <3>1 DEF IsPlan
  <2>. QED  BY <2>1, <2>2
<1>5. To(s) \cup To(u) = To(s \o u)
  <2>1. \A i \in DOMAIN s : i \in DOMAIN (s \o u) /\ (s \o u)[i] = s[i]
    BY <1>2
  <2>2. \A i \in DOMAIN u : i + Len(s) \in DOMAIN (s \o u) /\ (s \o u)[i + Len(s)] = u[i]
    BY <1>2
  <2>3. \A i \in DOMAIN (s \o u) : \/ i \in DOMAIN s /\ (s \o u)[i] = s[i]
                                  \/ \E j \in DOMAIN u : (s \o u)[i] = u[j]
    <3>1. SUFFICES ASSUME NEW i \in DOMAIN (s \o u), ~(i <= Len(s))
                   PROVE  \E j \in DOMAIN u : (s \o u)[i] = u[j]
      BY <1>2
    <3>2. i - Len(s) \in DOMAIN u /\ (s \o u)[i] = u[i - Len(s)]
      BY <1>2, <3>1
    <3>. QED  BY <3>2
  <2>4. To(s \o u) \subseteq To(s) \cup To(u)
    BY <2>3 DEF To
  <2>5. To(s) \cup To(u) \subseteq To(s \o u)
    BY <2>1, <2>2 DEF To
  <2>. QED  BY <2>4, <2>5
<1>. QED  BY <1>2, <1>3, <1>4, <1>5 DEF IsPlan

\* Each mobile app that is not left out has a push of its own.
LEMMA PushPlan ==
    ASSUME NEW e \in Envelopes
    PROVE  /\ IsPlan(PushCalls(e))
           /\ Range(e.to.mobile_app_id) \ Filtered[e.delivery] \subseteq To(PushCalls(e))
<1> DEFINE apps == Keep(e.to.mobile_app_id, Names \ (Known \cap Filtered[e.delivery]))
           calls == Each(apps, LAMBDA a : DeviceCall("push", a))
<1>1. /\ apps \in Seq(Names)
      /\ Range(e.to.mobile_app_id) \ Filtered[e.delivery] \subseteq Range(apps)
  BY TargetsTyped, KeptNames
<1>2. PushCalls(e) = calls
  BY DEF PushCalls
<1> HIDE DEF apps
<1>3. calls = [i \in DOMAIN apps |-> calls[i]] /\ \A i \in DOMAIN apps : calls[i] = DeviceCall("push", apps[i])
  BY DEF Each
<1>4. \A a : Planned(DeviceCall("push", a)) /\ ~Malformed(DeviceCall("push", a)) /\ DeviceCall("push", a).to = {a}
  BY DEF DeviceCall, Ask, Planned, IsCall, Malformed
<1> HIDE DEF calls
<1>5. IsPlan(calls) /\ To(calls) = UNION {calls[i].to : i \in DOMAIN apps}
  BY <1>1, <1>3, <1>4, EachIsPlan
<1>6. Range(apps) \subseteq To(calls)
  BY <1>3, <1>4, <1>5 DEF Range
<1>. QED  BY <1>1, <1>2, <1>5, <1>6

\* Speech has a call for all players and one for each known app that is not left out.
LEMMA TtsPlan ==
    ASSUME NEW e \in Envelopes
    PROVE  /\ IsPlan(TtsCalls(e))
           /\ (Range(e.to.entity_id) \cup (Range(e.to.mobile_app_id) \cap Known)) \ Filtered[e.delivery]
                \subseteq To(TtsCalls(e))
<1> DEFINE apps == Keep(e.to.mobile_app_id, Known \ Filtered[e.delivery])
           calls == Each(apps, LAMBDA a : DeviceCall("tts", a))
<1>1. /\ apps \in Seq(Names)
      /\ Range(apps) = Range(e.to.mobile_app_id) \cap (Known \ Filtered[e.delivery])
  BY TargetsTyped, KeptNames
<1>2. SpeakOnMobiles(e) = calls
  BY DEF SpeakOnMobiles
<1> HIDE DEF apps
<1>3. calls = [i \in DOMAIN apps |-> calls[i]] /\ \A i \in DOMAIN apps : calls[i] = DeviceCall("tts", apps[i])
  BY DEF Each
<1>4. \A a : Planned(DeviceCall("tts", a)) /\ ~Malformed(DeviceCall("tts", a)) /\ DeviceCall("tts", a).to = {a}
  BY DEF DeviceCall, Ask, Planned, IsCall, Malformed
<1> HIDE DEF calls
<1>5. /\ IsPlan(calls) /\ To(calls) = UNION {calls[i].to : i \in DOMAIN apps}
      /\ \A i \in DOMAIN calls : ~Malformed(calls[i])
  BY <1>1, <1>3, <1>4, EachIsPlan
<1>6. Range(apps) \subseteq To(calls)
  BY <1>3, <1>4, <1>5 DEF Range
<1>7. IsPlan(SpeakOnPlayers(e)) /\ Range(e.to.entity_id) \subseteq To(SpeakOnPlayers(e))
  <2>1. CASE e.to.entity_id = <<>>
    <3>1. Range(e.to.entity_id) = {}
      BY <2>1 DEF Range
    <3>. QED  BY <2>1, <3>1, NoneIsPlan DEF SpeakOnPlayers
  <2>2. CASE e.to.entity_id # <<>>
    BY <2>2, AskIsPlan DEF SpeakOnPlayers
  <2>. QED  BY <2>1, <2>2
<1>8. /\ IsPlan(TtsCalls(e))
      /\ To(TtsCalls(e)) = To(SpeakOnPlayers(e)) \cup To(calls)
  BY <1>2, <1>5, <1>7, BothArePlan DEF TtsCalls
<1>. QED  BY <1>1, <1>6, <1>7, <1>8

\* Each chime of a domain that has a mini transport has a call of its own.
LEMMA ChimePlan ==
    ASSUME NEW e \in Envelopes
    PROVE  /\ IsPlan(ChimeCalls(e))
           /\ {n \in (UNION {Range(Members[x]) : x \in Range(e.to.entity_id)}) \cup Range(e.to.device_id) :
                    Domain[n] \in ChimeDomains} \ Filtered[e.delivery] \subseteq To(ChimeCalls(e))
<1> DEFINE chimes == ExpandedTargets(e)
           sounding == Keep(chimes, {c \in Range(chimes) : ChimeDomain(c) \in ChimeDomains})
           calls == Each(sounding, ChimeCall)
           named == (UNION {Range(Members[x]) : x \in Range(e.to.entity_id)})
                        \cup (Range(e.to.device_id) \ Filtered[e.delivery])
<1>1. chimes \in Seq(Chimes) /\ named \subseteq NamesIn(chimes)
  BY ExpandedProperties
<1>2. ChimeCalls(e) = calls
  BY DEF ChimeCalls
<1> HIDE DEF chimes
<1>3. /\ sounding \in Seq(Chimes)
      /\ Range(sounding) = {c \in Range(chimes) : ChimeDomain(c) \in ChimeDomains}
  BY <1>1, KeepProperties
<1> HIDE DEF sounding
<1>4. calls = [i \in DOMAIN sounding |-> calls[i]] /\ \A i \in DOMAIN sounding : calls[i] = ChimeCall(sounding[i])
  BY DEF Each
<1>5. ASSUME NEW c \in Chimes
      PROVE  Planned(ChimeCall(c)) /\ ~Malformed(ChimeCall(c)) /\ ChimeCall(c).to = {c.name}
  <2>1. c.entry \in DOMAIN Entries \cup {NoEntry}
    BY DEF Chimes
  <2>. QED  BY <2>1 DEF ChimeCall, Planned, IsCall, Malformed
<1>6. \A i \in DOMAIN sounding : sounding[i] \in Chimes
  BY <1>3
<1> HIDE DEF calls
<1>7. IsPlan(calls) /\ To(calls) = UNION {calls[i].to : i \in DOMAIN sounding}
  BY <1>3, <1>4, <1>5, <1>6, EachIsPlan
<1>8. ASSUME NEW n \in named, Domain[n] \in ChimeDomains PROVE n \in To(calls)
  <2>1. PICK i \in DOMAIN chimes : chimes[i].name = n
    BY <1>1 DEF NamesIn
  <2>2. ChimeDomain(chimes[i]) \in ChimeDomains
    BY <1>8, <2>1 DEF ChimeDomain, ChimeDomains
  <2>3. chimes[i] \in Range(sounding)
    BY <1>3, <2>2 DEF Range
  <2>4. PICK j \in DOMAIN sounding : sounding[j] = chimes[i]
    BY <2>3 DEF Range
  <2>5. n \in calls[j].to
    BY <1>4, <1>5, <1>6, <2>1, <2>4
  <2>. QED  BY <1>7, <2>5
<1>. QED  BY <1>2, <1>7, <1>8

\* A topic is published for each address and number, and the entities of the envelope.
LEMMA NtfyPlan ==
    ASSUME NEW e \in Envelopes, Publishes(e)
    PROVE  /\ IsPlan(GenericNtfyCalls(e))
           /\ {n \in Range(e.to.entity_id) : Domain[n] = "notify"}
                \cup (IF "email" \in DOMAIN e.options THEN {} ELSE Range(e.to.email))
                \cup (IF "call" \in DOMAIN e.options THEN {} ELSE Range(e.to.phone))
                    \subseteq To(GenericNtfyCalls(e))
<1> DEFINE mails    == IF "email" \in DOMAIN e.options THEN <<>> ELSE [i \in DOMAIN e.to.email |-> {e.to.email[i]}]
           phones   == IF "call" \in DOMAIN e.options THEN <<>> ELSE [i \in DOMAIN e.to.phone |-> {e.to.phone[i]}]
           people   == IF Len(mails) = 1 /\ Len(phones) = 1 THEN <<mails[1] \cup phones[1]>>
                       ELSE mails \o phones
           entities == Range(OfDomain(e.to.entity_id, "notify"))
           results  == CASE people # <<>> /\ entities = {} -> people
                         [] Len(people) = 1 /\ entities # {} -> <<people[1] \cup entities>>
                         [] OTHER -> Append(people, entities)
           last     == people = <<>> \/ entities # {}
           calls    == [i \in DOMAIN results |-> Ask(C(e).action, results[i], last /\ i = Len(results))]
           Lists    == Seq(SUBSET Names)
           All(s)   == UNION Range(s)
<1>1. GenericNtfyCalls(e) = calls
  BY DEF GenericNtfyCalls
<1>2. entities \subseteq Names /\ {n \in Range(e.to.entity_id) : Domain[n] = "notify"} = entities
  BY TargetsTyped, KeptNames DEF OfDomain
<1>3. mails \in Lists /\ (IF "email" \in DOMAIN e.options THEN {} ELSE Range(e.to.email)) = All(mails)
  <2>1. CASE "email" \in DOMAIN e.options
    <3>1. Range(<<>>) = {}
      BY DEF Range
    <3>. QED  BY <2>1, <3>1, EmptySeq
  <2>2. CASE "email" \notin DOMAIN e.options
    <3> DEFINE s == e.to.email
               f == [i \in DOMAIN s |-> {s[i]}]
    <3>1. s \in Seq(Names)
      BY TargetsTyped
    <3> HIDE DEF s
    <3>2. f \in [DOMAIN s -> SUBSET Names] /\ DOMAIN f = DOMAIN s /\ \A i \in DOMAIN s : f[i] = {s[i]}
      BY <3>1
    <3> HIDE DEF f
    <3>3. f \in Seq(SUBSET Names)
      BY <3>1, <3>2, MappedIsSeq
    <3>4. UNION Range(f) = Range(s)
      BY <3>2 DEF Range
    <3>. QED  BY <2>2, <3>3, <3>4 DEF f, s
  <2>. QED  BY <2>1, <2>2
<1>4. phones \in Lists /\ (IF "call" \in DOMAIN e.options THEN {} ELSE Range(e.to.phone)) = All(phones)
  <2>1. CASE "call" \in DOMAIN e.options
    <3>1. Range(<<>>) = {}
      BY DEF Range
    <3>. QED  BY <2>1, <3>1, EmptySeq
  <2>2. CASE "call" \notin DOMAIN e.options
    <3> DEFINE s == e.to.phone
               f == [i \in DOMAIN s |-> {s[i]}]
    <3>1. s \in Seq(Names)
      BY TargetsTyped
    <3> HIDE DEF s
    <3>2. f \in [DOMAIN s -> SUBSET Names] /\ DOMAIN f = DOMAIN s /\ \A i \in DOMAIN s : f[i] = {s[i]}
      BY <3>1
    <3> HIDE DEF f
    <3>3. f \in Seq(SUBSET Names)
      BY <3>1, <3>2, MappedIsSeq
    <3>4. UNION Range(f) = Range(s)
      BY <3>2 DEF Range
    <3>. QED  BY <2>2, <3>3, <3>4 DEF f, s
  <2>. QED  BY <2>1, <2>2
<1> HIDE DEF mails, phones, entities
<1>5. people \in Lists /\ All(people) = All(mails) \cup All(phones)
  <2>1. CASE Len(mails) = 1 /\ Len(phones) = 1
    <3>1. /\ DOMAIN mails = {1} /\ DOMAIN phones = {1}
          /\ mails[1] \in SUBSET Names /\ phones[1] \in SUBSET Names
      BY <1>3, <1>4, <2>1
    <3>2. /\ people = <<mails[1] \cup phones[1]>> /\ people \in Lists
          /\ DOMAIN people = {1} /\ people[1] = mails[1] \cup phones[1]
      BY <2>1, <3>1
    <3> HIDE DEF people
    <3>. QED  BY <3>1, <3>2 DEF Range
  <2>2. CASE ~(Len(mails) = 1 /\ Len(phones) = 1)
    <3>1. people = mails \o phones
      BY <2>2
    <3>2. mails \in Lists /\ phones \in Lists
      BY <1>3, <1>4
    <3>3. mails \o phones \in Lists /\ Range(mails \o phones) = Range(mails) \cup Range(phones)
      BY <3>2, ConcatRange
    <3> HIDE DEF people
    <3>. QED  BY <3>1, <3>3
  <2>. QED  BY <2>1, <2>2
<1> HIDE DEF people
<1>6. results \in Lists /\ All(people) \cup entities \subseteq All(results)
  <2>1. CASE people # <<>> /\ entities = {}
    BY <1>5, <2>1
  <2>2. CASE Len(people) = 1 /\ entities # {}
    <3>1. DOMAIN people = {1} /\ people[1] \in SUBSET Names
      BY <1>5, <2>2
    <3>2. /\ results = <<people[1] \cup entities>> /\ results \in Lists
          /\ DOMAIN results = {1} /\ results[1] = people[1] \cup entities
      BY <1>2, <2>2, <3>1
    <3> HIDE DEF results
    <3>. QED  BY <3>1, <3>2 DEF Range
  <2>3. CASE ~(people # <<>> /\ entities = {}) /\ ~(Len(people) = 1 /\ entities # {})
    <3>1. results = Append(people, entities)
      BY <2>3
    <3>2. people \in Seq(SUBSET Names) /\ entities \in SUBSET Names
      BY <1>2, <1>5
    <3> HIDE DEF results
    <3>3. Append(people, entities) \in Seq(SUBSET Names) /\ Range(Append(people, entities)) = Range(people) \cup {entities}
      BY <3>2, AppendRange, AppendProperties
    <3>. QED  BY <3>1, <3>3
  <2>. QED  BY <2>1, <2>2, <2>3
<1> HIDE DEF results, last
<1>7. \A i \in DOMAIN results : Planned(calls[i]) /\ ~Malformed(calls[i]) /\ calls[i].to = results[i]
  <2>1. Len(C(e).action) = 2
    BY DEF Publishes
  <2>. QED  BY <2>1, AskPlanned DEF Malformed
<1>8. results \in Seq(SUBSET Names) /\ calls = [i \in DOMAIN results |-> calls[i]]
  BY <1>6
<1> HIDE DEF calls
<1>9. IsPlan(calls) /\ To(calls) = UNION {calls[i].to : i \in DOMAIN results}
  BY <1>7, <1>8, EachIsPlan
<1>10. To(calls) = All(results)
  BY <1>7, <1>9 DEF Range
<1>. QED  BY <1>1, <1>2, <1>3, <1>4, <1>5, <1>6, <1>9, <1>10

\* Transports that make one call at most: whom it is for.
LEMMA SinglePlans ==
    ASSUME NEW e
    PROVE  /\ IsPlan(PersistentCalls(e)) /\ IsPlan(GotifyCalls(e)) /\ IsPlan(PushoverCalls(e))
           /\ IsPlan(MqttCalls(e)) /\ IsPlan(LaMetricCalls(e)) /\ IsPlan(NtfyCalls(e))
           /\ IsPlan(TelegramCalls(e))
           /\ IsPlan(SmsCalls(e))
           /\ SmsCalls(e) # <<>> => Range(e.to.phone) \subseteq To(SmsCalls(e))
           /\ IsPlan(EmailCalls(e)) /\ Range(e.to.email) \subseteq To(EmailCalls(e))
           /\ IsPlan(AlexaDevicesCalls(e))
           /\ AlexaDevicesCalls(e) # <<>> => Range(e.to.entity_id) \subseteq To(AlexaDevicesCalls(e))
           /\ IsPlan(NotifyEntityCalls(e))
           /\ NotifyEntityCalls(e) # <<>> => Range(e.to.entity_id) \subseteq To(NotifyEntityCalls(e))
           /\ IsPlan(MediaPlayerCalls(e))
           /\ MediaPlayerCalls(e) # <<>> => Range(e.to.entity_id) \subseteq To(MediaPlayerCalls(e))
<1> USE AskIsPlan, NoneIsPlan DEF Addressed, Targeted
<1>1. IsPlan(PersistentCalls(e)) /\ IsPlan(GotifyCalls(e)) /\ IsPlan(PushoverCalls(e))
  BY DEF PersistentCalls, GotifyCalls, PushoverCalls
<1>2. IsPlan(MqttCalls(e))
  BY DEF MqttCalls
<1>3. IsPlan(LaMetricCalls(e))
  BY DEF LaMetricCalls
<1>4. IsPlan(NtfyCalls(e))
  BY DEF NtfyCalls
<1>5. IsPlan(TelegramCalls(e))
  BY DEF TelegramCalls
<1>6. /\ IsPlan(SmsCalls(e))
      /\ SmsCalls(e) # <<>> => Range(e.to.phone) \subseteq To(SmsCalls(e))
  BY DEF SmsCalls
<1>7. IsPlan(EmailCalls(e)) /\ Range(e.to.email) \subseteq To(EmailCalls(e))
  BY DEF EmailCalls
<1>8. /\ IsPlan(AlexaDevicesCalls(e))
      /\ AlexaDevicesCalls(e) # <<>> => Range(e.to.entity_id) \subseteq To(AlexaDevicesCalls(e))
  BY DEF AlexaDevicesCalls
<1>9. /\ IsPlan(NotifyEntityCalls(e))
      /\ NotifyEntityCalls(e) # <<>> => Range(e.to.entity_id) \subseteq To(NotifyEntityCalls(e))
  BY DEF NotifyEntityCalls
<1>10. /\ IsPlan(MediaPlayerCalls(e))
       /\ MediaPlayerCalls(e) # <<>> => Range(e.to.entity_id) \subseteq To(MediaPlayerCalls(e))
  BY DEF MediaPlayerCalls
<1>. QED  BY <1>1, <1>2, <1>3, <1>4, <1>5, <1>6, <1>7, <1>8, <1>9, <1>10

\* The generic transport makes one call, unless it publishes to topics.
LEMMA GenericPlan ==
    ASSUME NEW e
    PROVE  \/ Publishes(e) /\ GenericCalls(e) = GenericNtfyCalls(e)
           \/ ~Publishes(e) /\ IsPlan(GenericCalls(e))
<1>1. CASE Publishes(e)
  BY <1>1 DEF GenericCalls, Publishes
<1>2. CASE ~Publishes(e)
  <2>1. IsPlan(NotifyEventsCalls(e)) /\ IsPlan(GenericScriptCalls(e))
    BY AskIsPlan DEF NotifyEventsCalls, GenericScriptCalls, Targeted
  <2>2. \A action, names : IsPlan(<<Addressed(action, names)>>) /\ IsPlan(<<Targeted(action, names)>>)
    BY AskIsPlan DEF Addressed, Targeted
  <2>3. \A action : IsPlan(<<Ask(action, {}, FALSE)>>)
    BY AskIsPlan
  <2>4. CASE C(e).raw
    BY <1>2, <2>2, <2>4 DEF GenericCalls
  <2>5. CASE ~C(e).raw
    BY <1>2, <2>1, <2>2, <2>3, <2>5 DEF GenericCalls
  <2>. QED  BY <2>4, <2>5
<1>. QED  BY <1>1, <1>2

\* What a transport calls is a plan for all that it takes of the targets, unless it does
\* not call anything.
LEMMA CallsArePlan ==
    ASSUME NEW e \in Envelopes
    PROVE  /\ IsPlan(CallsOf(e))
           /\ CallsOf(e) # <<>> => Taken(e) \ Filtered[e.delivery] \subseteq To(CallsOf(e))
<1> DEFINE x == C(e).transport
<1>1. CASE x \in {"sms", "email", "alexa_devices", "notify_entity", "media"}
  <2>1. CASE x = "sms"
    <3>1. CallsOf(e) = SmsCalls(e) /\ Taken(e) = Range(e.to.phone)
      BY <2>1 DEF CallsOf, Taken
    <3>2. /\ IsPlan(SmsCalls(e))
          /\ SmsCalls(e) # <<>> => Range(e.to.phone) \subseteq To(SmsCalls(e))
      BY SinglePlans
    <3>. QED  BY <3>1, <3>2
  <2>2. CASE x = "email"
    <3>1. CallsOf(e) = EmailCalls(e) /\ Taken(e) = Range(e.to.email)
      BY <2>2 DEF CallsOf, Taken
    <3>2. /\ IsPlan(EmailCalls(e))
          /\ EmailCalls(e) # <<>> => Range(e.to.email) \subseteq To(EmailCalls(e))
      BY SinglePlans
    <3>. QED  BY <3>1, <3>2
  <2>3. CASE x = "alexa_devices"
    <3>1. CallsOf(e) = AlexaDevicesCalls(e) /\ Taken(e) = Range(e.to.entity_id)
      BY <2>3 DEF CallsOf, Taken
    <3>2. /\ IsPlan(AlexaDevicesCalls(e))
          /\ AlexaDevicesCalls(e) # <<>> => Range(e.to.entity_id) \subseteq To(AlexaDevicesCalls(e))
      BY SinglePlans
    <3>. QED  BY <3>1, <3>2
  <2>4. CASE x = "notify_entity"
    <3>1. CallsOf(e) = NotifyEntityCalls(e) /\ Taken(e) = Range(e.to.entity_id)
      BY <2>4 DEF CallsOf, Taken
    <3>2. /\ IsPlan(NotifyEntityCalls(e))
          /\ NotifyEntityCalls(e) # <<>> => Range(e.to.entity_id) \subseteq To(NotifyEntityCalls(e))
      BY SinglePlans
    <3>. QED  BY <3>1, <3>2
  <2>5. CASE x = "media"
    <3>1. CallsOf(e) = MediaPlayerCalls(e) /\ Taken(e) = Range(e.to.entity_id)
      BY <2>5 DEF CallsOf, Taken
    <3>2. /\ IsPlan(MediaPlayerCalls(e))
          /\ MediaPlayerCalls(e) # <<>> => Range(e.to.entity_id) \subseteq To(MediaPlayerCalls(e))
      BY SinglePlans
    <3>. QED  BY <3>1, <3>2
  <2>. QED  BY <1>1, <2>1, <2>2, <2>3, <2>4, <2>5
<1>2. CASE x \in {"mqtt", "lametric", "ntfy", "telegram", "gotify", "pushover"}
  <2>1. Taken(e) = {}
    BY <1>2 DEF Taken
  <2>. QED  BY <1>2, <2>1, SinglePlans DEF CallsOf
<1>3. CASE x = "generic"
  <2>1. CallsOf(e) = GenericCalls(e)
    BY <1>3 DEF CallsOf
  <2>2. CASE Publishes(e)
    BY <1>3, <2>1, <2>2, GenericPlan, NtfyPlan DEF Taken
  <2>3. CASE ~Publishes(e)
    <3>1. Taken(e) = {}
      BY <1>3, <2>3 DEF Taken
    <3>. QED  BY <2>1, <2>3, <3>1, GenericPlan
  <2>. QED  BY <2>2, <2>3
<1>4. CASE x = "mobile_push"
  BY <1>4, PushPlan DEF CallsOf, Taken
<1>5. CASE x = "tts"
  BY <1>5, TtsPlan DEF CallsOf, Taken
<1>6. CASE x = "chime"
  BY <1>6, ChimePlan DEF CallsOf, Taken
<1>7. CASE x \notin {"sms", "email", "alexa_devices", "notify_entity", "media", "mqtt", "lametric", "ntfy",
                    "telegram", "gotify", "pushover", "generic", "mobile_push", "tts", "chime"}
  <2>1. Taken(e) = {} /\ CallsOf(e) = PersistentCalls(e)
    BY <1>7 DEF Taken, CallsOf
  <2>. QED  BY <2>1, SinglePlans
<1>. QED  BY <1>1, <1>2, <1>3, <1>4, <1>5, <1>6, <1>7

-----------------------------------------------------------------------------
(* What has been called, and what still will be.                           *)

Called(t) == UNION {log[t][i].call.to : i \in DOMAIN log[t]}

\* The calls that a task has still to make are the rest of its plan, and well formed once
\* it has called; those that it made and those that it has still to make are for all that
\* it takes of the targets; and once it has called only a lack of data makes it raise.
InProgress(t) ==
    /\ IsPlan(left[t])
    /\ \A i \in DOMAIN log[t] : Planned(log[t][i].call)
    /\ log[t] # <<>> => \A i \in DOMAIN left[t] : ~Malformed(left[t][i])
    /\ stage[t] \in {"idle", "sending", "raised"}
    /\ stage[t] = "idle" => log[t] = <<>> /\ left[t] = <<>> /\ envelope[t] = NoEnvelope
    /\ stage[t] # "idle" => envelope[t] \in Envelopes
    /\ stage[t] = "raised" => left[t] = <<>> /\ (log[t] = <<>> \/ Conf1(t).drops)
    /\ stage[t] = "sending" /\ counts[t].skipped = 0 /\ (log[t] # <<>> \/ left[t] # <<>>) =>
            Taken(envelope[t]) \ Filtered[envelope[t].delivery] \subseteq To(left[t]) \cup Called(t)

ProgressInv ==
    /\ DOMAIN counts = Tasks /\ DOMAIN stage = Tasks /\ DOMAIN envelope = Tasks /\ DOMAIN left = Tasks
    /\ \A t \in Tasks : InProgress(t)

\* Data: what there is of it, and where it is from.
DataTyped ==
    /\ DOMAIN push = Tasks /\ \A t \in Tasks : IsData(push[t])
    /\ DOMAIN shared = DOMAIN Entries /\ \A a \in DOMAIN Entries : IsData(shared[a])
    /\ \A t \in Tasks : \A i \in DOMAIN log[t] : IsData(log[t][i].data)
    /\ errors \in [Transports -> Nat]
    /\ snoozed \subseteq (UNION Range(OwnersOf)) \X DOMAIN OwnersOf

\* The data of pushes is the envelope's own, or for a platform that has been pushed to.
PushAccounted ==
    \A t \in Tasks : \A k \in DOMAIN push[t] :
        \/ push[t][k] = t
        \/ /\ push[t][k] \in Platforms
           /\ \E j \in DOMAIN log[t] : \E a \in log[t][j].call.to : push[t][k] \in PlatformsOf(a)

\* What there is in an entry that is not configured was left by a chime of it.
LeftBy(calls, source, a) ==
    /\ source \in Tasks /\ a # NoEntry /\ Entries[a].data # {}
    /\ \E j \in DOMAIN calls[source] : calls[source][j].call.entry = a

SharedAccounted ==
    \A a \in DOMAIN Entries : \A k \in DOMAIN shared[a] : shared[a][k] = "config" \/ LeftBy(log, shared[a][k], a)

\* What is left of a plan after its first call.
LEMMA RestOfPlan ==
    ASSUME NEW s, IsPlan(s), s # <<>>
    PROVE  /\ IsPlan(Tail(s)) /\ Planned(Head(s)) /\ \A i \in DOMAIN Tail(s) : ~Malformed(Tail(s)[i])
           /\ To(s) = Head(s).to \cup To(Tail(s))
<1>1. s \in Seq(Range(s)) /\ Len(s) \in Nat \ {0} /\ DOMAIN s = 1 .. Len(s)
  <2>1. s \in Seq(Range(s))
    BY DEF IsPlan
  <2>. QED  BY <2>1, EmptySeq, LenProperties
<1>2. /\ Tail(s) \in Seq(Range(s)) /\ Len(Tail(s)) = Len(s) - 1
      /\ DOMAIN Tail(s) = 1 .. Len(s) - 1
      /\ \A i \in 1 .. Len(s) - 1 : Tail(s)[i] = s[i + 1]
      /\ Head(s) = s[1]
  <2>1. /\ Tail(s) \in Seq(Range(s)) /\ Len(Tail(s)) = Len(s) - 1
        /\ \A i \in 1 .. Len(Tail(s)) : Tail(s)[i] = s[i + 1]
        /\ Head(s) = s[1]
    BY <1>1, HeadTailProperties
  <2>2. DOMAIN Tail(s) = 1 .. Len(Tail(s))
    BY <2>1, LenProperties
  <2>. QED  BY <2>1, <2>2
<1>3. Tail(s) \in Seq(Range(Tail(s)))
  <2>1. Tail(s) \in [1 .. Len(s) - 1 -> Range(Tail(s))]
    <3>1. Tail(s) = [i \in 1 .. Len(s) - 1 |-> Tail(s)[i]]
      BY <1>1, <1>2, LenProperties
    <3>. QED  BY <1>2, <3>1 DEF Range
  <2>2. Len(s) - 1 \in Nat
    BY <1>1
  <2>. QED  BY <2>1, <2>2, SeqDef
<1>4. 1 \in DOMAIN s /\ \A i \in 1 .. Len(s) - 1 : i + 1 \in DOMAIN s /\ i + 1 # 1
  BY <1>1
<1>5. \A i \in DOMAIN Tail(s) : Planned(Tail(s)[i]) /\ ~Malformed(Tail(s)[i])
  BY <1>2, <1>4 DEF IsPlan
<1>6. Planned(Head(s))
  BY <1>2, <1>4 DEF IsPlan
<1>7. To(s) = Head(s).to \cup To(Tail(s))
  <2>1. \A i \in DOMAIN s : i = 1 \/ (i - 1 \in DOMAIN Tail(s) /\ Tail(s)[i - 1] = s[i])
    BY <1>1, <1>2
  <2>2. To(s) \subseteq Head(s).to \cup To(Tail(s))
    BY <1>2, <2>1 DEF To
  <2>3. Head(s).to \cup To(Tail(s)) \subseteq To(s)
    BY <1>2, <1>4 DEF To
  <2>. QED  BY <2>2, <2>3
<1>. QED  BY <1>3, <1>5, <1>6, <1>7 DEF IsPlan


\* It is the same for a task of which nothing but what a call came to has changed.
LEMMA ProgressOfOthers ==
    ASSUME NEW t \in Tasks, InProgress(t), left'[t] = left[t], envelope'[t] = envelope[t],
           stage'[t] = stage[t], counts'[t].skipped = counts[t].skipped,
           DOMAIN log'[t] = DOMAIN log[t], log[t] = <<>> <=> log'[t] = <<>>,
           \A i \in DOMAIN log[t] : log'[t][i].call = log[t][i].call
    PROVE  InProgress(t)'
<1>1. Called(t)' = Called(t)
  BY DEF Called
<1>. QED  BY <1>1 DEF InProgress, Conf1, C, Taken

\* What deliver() plans is in progress, if it does not raise at once.
LEMMA ProgressOfDeliver ==
    ASSUME Logged, ProgressInv, NEW t \in Tasks, NEW e \in Envelopes, Deliver(t, e)
    PROVE  ProgressInv'
<1>1. InProgress(t) /\ stage[t] = "idle" /\ log[t] = <<>> /\ log' = log /\ left[t] = <<>>
  BY DEF Deliver, ProgressInv, InProgress
<1>2. /\ DOMAIN counts' = Tasks /\ DOMAIN stage' = Tasks /\ DOMAIN envelope' = Tasks /\ DOMAIN left' = Tasks
      /\ \A u \in Tasks : u # t => /\ counts'[u] = counts[u] /\ stage'[u] = stage[u]
                                   /\ envelope'[u] = envelope[u] /\ left'[u] = left[u]
      /\ envelope'[t] = e
      /\ \/ stage'[t] = "raised" /\ left'[t] = <<>>
         \/ stage'[t] = "sending" /\ left'[t] = CallsOf(e)
  <2>1. CASE RaisesFirst(e)
    BY <2>1 DEF Deliver, Raise, ProgressInv
  <2>2. CASE ~RaisesFirst(e)
    BY <2>2 DEF Deliver, ProgressInv
  <2>. QED  BY <2>1, <2>2
<1>3. IsPlan(<<>>) /\ DOMAIN <<>> = {}
  BY NoneIsPlan
<1>4. /\ IsPlan(CallsOf(e))
      /\ CallsOf(e) # <<>> => Taken(e) \ Filtered[e.delivery] \subseteq To(CallsOf(e))
  BY CallsArePlan
<1>5. InProgress(t)'
  <2>1. CASE stage'[t] = "raised" /\ left'[t] = <<>>
    BY <1>1, <1>2, <1>3, <2>1 DEF InProgress
  <2>2. CASE stage'[t] = "sending" /\ left'[t] = CallsOf(e)
    BY <1>1, <1>2, <1>3, <1>4, <2>2 DEF InProgress
  <2>. QED  BY <1>2, <2>1, <2>2
<1>6. ASSUME NEW u \in Tasks, u # t PROVE InProgress(u)'
  <2>1. InProgress(u)
    BY DEF ProgressInv
  <2>. QED  BY <1>1, <1>2, <1>6, <2>1, ProgressOfOthers
<1>. QED  BY <1>2, <1>5, <1>6 DEF ProgressInv

\* A call that is skipped is one less to make.
LEMMA ProgressOfSkip ==
    ASSUME TallyInv, ProgressInv, NEW t \in Tasks, NEW c, SkipCall(t, c)
    PROVE  ProgressInv'
<1>1. /\ InProgress(t) /\ stage[t] = "sending" /\ left[t] # <<>> /\ log' = log
      /\ stage' = stage /\ envelope' = envelope
      /\ left' = [left EXCEPT ![t] = Tail(left[t])]
      /\ counts' = [counts EXCEPT ![t] = [counts[t] EXCEPT !.skipped = 1]]
      /\ counts[t] \in [delivered : {0, 1}, error_count : Nat, skipped : {0, 1}]
  BY DEF SkipCall, NextCall, ProgressInv, TallyInv, Tallied
<1>2. /\ DOMAIN counts' = Tasks /\ DOMAIN left' = Tasks /\ left'[t] = Tail(left[t])
      /\ counts'[t].skipped = 1
      /\ \A u \in Tasks : u # t => left'[u] = left[u] /\ counts'[u] = counts[u]
  BY <1>1 DEF ProgressInv
<1>3. IsPlan(Tail(left[t])) /\ \A i \in DOMAIN Tail(left[t]) : ~Malformed(Tail(left[t])[i])
  BY <1>1, RestOfPlan DEF InProgress
<1>4. InProgress(t)'
  BY <1>1, <1>2, <1>3 DEF InProgress
<1>5. ASSUME NEW u \in Tasks, u # t PROVE InProgress(u)'
  <2>1. InProgress(u)
    BY DEF ProgressInv
  <2>. QED  BY <1>1, <1>2, <1>5, <2>1, ProgressOfOthers
<1>. QED  BY <1>1, <1>2, <1>4, <1>5 DEF ProgressInv

\* A call can break only if it is the first or is short of its data.
LEMMA ProgressOfBreak ==
    ASSUME Logged, ProgressInv, NEW t \in Tasks, NEW c \in Range(left[t]), BreakCall(t, c)
    PROVE  ProgressInv'
<1>1. /\ InProgress(t) /\ stage[t] = "sending" /\ left[t] # <<>> /\ c = Head(left[t])
      /\ log' = log /\ envelope' = envelope
      /\ stage' = [stage EXCEPT ![t] = "raised"] /\ left' = [left EXCEPT ![t] = <<>>]
      /\ PushDataGone(t, c) \/ Malformed(c)
  BY DEF BreakCall, NextCall, Raise, ProgressInv
<1>2. /\ DOMAIN counts' = Tasks /\ DOMAIN left' = Tasks /\ left'[t] = <<>>
      /\ DOMAIN stage' = Tasks /\ stage'[t] = "raised"
      /\ \A u \in Tasks : u # t =>
            left'[u] = left[u] /\ stage'[u] = stage[u] /\ counts'[u] = counts[u]
  BY <1>1 DEF ProgressInv, BreakCall, Raise
<1>3. log[t] = <<>> \/ Conf1(t).drops
  <2>1. PICK i \in DOMAIN left[t] : left[t][i] = c
    BY DEF Range
  <2>. QED  BY <1>1, <2>1 DEF PushDataGone, InProgress
<1>4. IsPlan(<<>>) /\ DOMAIN <<>> = {}
  BY NoneIsPlan
<1>5. Conf1(t)' = Conf1(t)
  BY <1>1 DEF Conf1, C
<1>6. InProgress(t)'
  BY <1>1, <1>2, <1>3, <1>4, <1>5 DEF InProgress
<1>7. ASSUME NEW u \in Tasks, u # t PROVE InProgress(u)'
  <2>1. InProgress(u)
    BY DEF ProgressInv
  <2>. QED  BY <1>1, <1>2, <1>7, <2>1, ProgressOfOthers
<1>. QED  BY <1>1, <1>2, <1>6, <1>7 DEF ProgressInv

\* One that is started is called and no longer left.
LEMMA ProgressOfStart ==
    ASSUME Logged, ProgressInv, NEW t \in Tasks, NEW c, StartCall(t, c)
    PROVE  ProgressInv'
<1>1. /\ InProgress(t) /\ stage[t] = "sending" /\ left[t] # <<>> /\ c = Head(left[t])
      /\ envelope' = envelope /\ stage' = stage /\ counts' = counts
      /\ left' = [left EXCEPT ![t] = Tail(left[t])]
  BY DEF StartCall, NextCall, ProgressInv
<1>2. /\ DOMAIN left' = Tasks /\ left'[t] = Tail(left[t]) /\ \A u \in Tasks : u # t => left'[u] = left[u]
  BY <1>1 DEF ProgressInv
<1>3. /\ IsPlan(Tail(left[t])) /\ Planned(c)
      /\ \A i \in DOMAIN Tail(left[t]) : ~Malformed(Tail(left[t])[i])
      /\ To(left[t]) = c.to \cup To(Tail(left[t]))
  BY <1>1, RestOfPlan DEF InProgress
<1>4. /\ \A u \in Tasks : u # t => log'[u] = log[u]
      /\ DOMAIN log[t] = 1 .. Len(log[t]) /\ DOMAIN log'[t] = 1 .. Len(log[t]) + 1 /\ Len(log[t]) \in Nat
      /\ \A i \in DOMAIN log[t] : log'[t][i] = log[t][i]
      /\ log'[t][Len(log[t]) + 1].call = c
  BY StartLogs
<1>5. \A i \in DOMAIN log'[t] : (i \in DOMAIN log[t] /\ log'[t][i] = log[t][i]) \/ log'[t][i].call = c
  BY <1>4
<1>6. Called(t)' = Called(t) \cup c.to
  <2>1. Called(t)' \subseteq Called(t) \cup c.to
    BY <1>5 DEF Called
  <2>2. Len(log[t]) + 1 \in DOMAIN log'[t] /\ \A i \in DOMAIN log[t] : i \in DOMAIN log'[t]
    BY <1>4
  <2>3. Called(t) \cup c.to \subseteq Called(t)'
    BY <1>4, <2>2 DEF Called
  <2>. QED  BY <2>1, <2>3
<1>7. InProgress(t)'
  <2>1. \A i \in DOMAIN log'[t] : Planned(log'[t][i].call)
    BY <1>1, <1>3, <1>5 DEF InProgress
  <2>2. stage'[t] = "sending" /\ counts'[t].skipped = 0 =>
            Taken(envelope'[t]) \ Filtered[envelope'[t].delivery] \subseteq To(left'[t]) \cup Called(t)'
    BY <1>1, <1>2, <1>3, <1>6 DEF InProgress
  <2>3. stage'[t] = "sending" /\ envelope'[t] \in Envelopes
    BY <1>1 DEF InProgress
  <2>4. IsPlan(left'[t]) /\ \A i \in DOMAIN left'[t] : ~Malformed(left'[t][i])
    BY <1>2, <1>3
  <2>. QED  BY <2>1, <2>2, <2>3, <2>4 DEF InProgress
<1>8. ASSUME NEW u \in Tasks, u # t PROVE InProgress(u)'
  <2>1. InProgress(u)
    BY DEF ProgressInv
  <2>. QED  BY <1>1, <1>2, <1>4, <1>8, <2>1, ProgressOfOthers
<1>. QED  BY <1>1, <1>2, <1>7, <1>8 DEF ProgressInv

\* What a call has come to changes nothing of the plan.
LEMMA ProgressOfEnd ==
    ASSUME Logged, TallyInv, ProgressInv, NEW t \in Tasks,
           NEW outcome \in {"worked", "accepted", "failed"}, EndCall(t, outcome)
    PROVE  ProgressInv'
<1>1. /\ \A u \in Tasks : u # t => log'[u] = log[u]
      /\ Len(log[t]) \in DOMAIN log[t] /\ DOMAIN log'[t] = DOMAIN log[t]
      /\ \A i \in DOMAIN log[t] : i # Len(log[t]) => log'[t][i] = log[t][i]
      /\ log'[t][Len(log[t])].call = log[t][Len(log[t])].call
  BY EndLogs
<1>2. log[t] # <<>> /\ log'[t] # <<>>
  <2>1. DOMAIN <<>> = {}
    OBVIOUS
  <2>. QED  BY <1>1, <2>1
<1>3. /\ envelope' = envelope /\ stage' = stage /\ left' = left
      /\ counts' = [counts EXCEPT ![t] = Counted(counts[t], outcome)]
      /\ counts[t] \in [delivered : {0, 1}, error_count : Nat, skipped : {0, 1}]
  BY DEF EndCall, TallyInv, Tallied
<1>4. /\ DOMAIN counts' = Tasks /\ \A u \in Tasks : u # t => counts'[u] = counts[u]
      /\ counts'[t].skipped = counts[t].skipped
  BY <1>3 DEF Counted, ProgressInv
<1>5. ASSUME NEW u \in Tasks PROVE InProgress(u)'
  <2>1. InProgress(u)
    BY DEF ProgressInv
  <2>2. CASE u = t
    BY <1>1, <1>2, <1>3, <1>4, <2>1, <2>2, ProgressOfOthers
  <2>3. CASE u # t
    BY <1>1, <1>3, <1>4, <2>1, <2>3, ProgressOfOthers
  <2>. QED  BY <2>2, <2>3
<1>. QED  BY <1>3, <1>4, <1>5 DEF ProgressInv

\* Nor does a step of something else.
LEMMA ProgressOfNothing ==
    ASSUME ProgressInv, UNCHANGED vars
    PROVE  ProgressInv'
<1>1. ASSUME NEW t \in Tasks PROVE InProgress(t)'
  <2>1. InProgress(t)
    BY DEF ProgressInv
  <2>. QED  BY <2>1, ProgressOfOthers DEF vars
<1>. QED  BY <1>1 DEF ProgressInv, vars

\* What a task has called and what it will call is all of its plan.
THEOREM PlansAreFollowed == Spec => []ProgressInv
<1>1. Init => ProgressInv
  <2>1. IsPlan(<<>>) /\ DOMAIN <<>> = {}
    BY NoneIsPlan
  <2>. QED  BY <2>1 DEF Init, ProgressInv, InProgress
<1>2. Logged /\ TallyInv /\ ProgressInv /\ [Next]_vars => ProgressInv'
  <2> SUFFICES ASSUME Logged, TallyInv, ProgressInv, [Next]_vars PROVE ProgressInv'
    OBVIOUS
  <2>1. ASSUME NEW t \in Tasks, NEW e \in Envelopes, Deliver(t, e) PROVE ProgressInv'
    BY <2>1, ProgressOfDeliver
  <2>2. ASSUME NEW t \in Tasks, NEW c \in Range(left[t]), SkipCall(t, c) PROVE ProgressInv'
    BY <2>2, ProgressOfSkip
  <2>3. ASSUME NEW t \in Tasks, NEW c \in Range(left[t]), BreakCall(t, c) PROVE ProgressInv'
    BY <2>3, ProgressOfBreak
  <2>4. ASSUME NEW t \in Tasks, NEW c \in Range(left[t]), StartCall(t, c) PROVE ProgressInv'
    BY <2>4, ProgressOfStart
  <2>5. ASSUME NEW t \in Tasks, NEW o \in {"worked", "accepted", "failed"}, EndCall(t, o) PROVE ProgressInv'
    BY <2>5, ProgressOfEnd
  <2>6. CASE UNCHANGED vars
    BY <2>6, ProgressOfNothing
  <2>. QED  BY <2>1, <2>2, <2>3, <2>4, <2>5, <2>6 DEF Next
<1>. QED  BY <1>1, <1>2, LogIsOfCalls, CountersTallied, PTL DEF Spec

\* Whatever comes of a call, the others of its delivery are made: when one that called is
\* over, each target that its transport takes was in a call, unless a call was skipped or
\* its data was filtered.
THEOREM FailuresStopNothing == Spec => []OneFailureStopsNoOther
<1>1. ProgressInv => OneFailureStopsNoOther
  <2> SUFFICES ASSUME ProgressInv, NEW t \in Tasks, Ended(t), log[t] # <<>>, ~Conf1(t).drops,
                      counts[t].skipped = 0
               PROVE  Taken(envelope[t]) \ Filtered[envelope[t].delivery] \subseteq Called(t)
    BY DEF OneFailureStopsNoOther, Called
  <2>1. InProgress(t)
    BY DEF ProgressInv
  <2>2. stage[t] = "sending" /\ left[t] = <<>>
    BY <2>1 DEF InProgress, Ended
  <2>3. To(<<>>) = {}
    BY DEF To
  <2>. QED  BY <2>1, <2>2, <2>3 DEF InProgress
<1>. QED  BY <1>1, PlansAreFollowed, PTL

-----------------------------------------------------------------------------
(* What the calls carry.                                                   *)

\* Data that is updated has what there was and what is new, where they are from.
LEMMA UpdateProperties ==
    ASSUME NEW data, NEW more
    PROVE  /\ DOMAIN Update(data, more) = DOMAIN data \cup DOMAIN more
           /\ \A k \in DOMAIN Update(data, more) :
                \/ k \in DOMAIN data /\ Update(data, more)[k] = data[k]
                \/ k \in DOMAIN more /\ Update(data, more)[k] = more[k]
BY DEF Update

\* What data is, key by key.
LEMMA DataByKey ==
    ASSUME NEW data
    PROVE  IsData(data) <=> DOMAIN data \subseteq Keys /\ \A k \in DOMAIN data : data[k] \in Sources
BY DEF IsData, Range

\* Updated data is data if both are.
LEMMA UpdateTyped ==
    ASSUME NEW data, IsData(data), NEW more, IsData(more)
    PROVE  IsData(Update(data, more))
<1>1. /\ DOMAIN data \subseteq Keys /\ \A k \in DOMAIN data : data[k] \in Sources
      /\ DOMAIN more \subseteq Keys /\ \A k \in DOMAIN more : more[k] \in Sources
  BY DataByKey
<1> DEFINE both == Update(data, more)
<1>2. /\ DOMAIN both = DOMAIN data \cup DOMAIN more
      /\ \A k \in DOMAIN both : \/ k \in DOMAIN data /\ both[k] = data[k]
                                \/ k \in DOMAIN more /\ both[k] = more[k]
  BY UpdateProperties
<1> HIDE DEF both
<1>3. DOMAIN both \subseteq Keys /\ \A k \in DOMAIN both : both[k] \in Sources
  BY <1>1, <1>2
<1>4. IsData(both)
  BY <1>3, DataByKey
<1>. QED  BY <1>4 DEF both

\* As is what is from one source.
LEMMA FromTyped ==
    ASSUME NEW source \in Sources, NEW keys \in SUBSET Keys
    PROVE  IsData(From(source, keys))
BY DataByKey DEF From

\* What there is in an entry after a call for it is the task's or was there before.
LEMMA EntryComes ==
    ASSUME NEW t \in Tasks, NEW c, NEW k \in DOMAIN EntryDataAfter(t, c)
    PROVE  \/ EntryDataAfter(t, c)[k] = t
           \/ /\ KeepsData(c.entry) /\ k \in DOMAIN shared[c.entry]
              /\ EntryDataAfter(t, c)[k] = shared[c.entry][k]
<1> DEFINE old == EntryData(c.entry)
           new == EntryDataAfter(t, c)
<1>1. \/ new = old
      \/ \E keys : new = Update(old, From(t, keys))
  <2>1. CASE c.via = "script"
    BY <2>1 DEF EntryDataAfter
  <2>2. CASE c.via = "media_player"
    BY <2>2 DEF EntryDataAfter, OwnData
  <2>3. CASE c.via \notin {"script", "media_player"}
    BY <2>3 DEF EntryDataAfter
  <2>. QED  BY <2>1, <2>2, <2>3
<1>2. new[k] = t \/ (k \in DOMAIN old /\ new[k] = old[k])
  <2>1. CASE new = old
    BY <2>1
  <2>2. ASSUME NEW keys, new = Update(old, From(t, keys))
        PROVE  new[k] = t \/ (k \in DOMAIN old /\ new[k] = old[k])
    <3> DEFINE more == From(t, keys)
    <3>1. \A i \in DOMAIN more : more[i] = t
      BY DEF From
    <3>2. k \in DOMAIN Update(old, more) /\ new[k] = Update(old, more)[k]
      BY <2>2
    <3> HIDE DEF old, new, more
    <3>3. Update(old, more)[k] = t \/ (k \in DOMAIN old /\ Update(old, more)[k] = old[k])
      BY <3>1, <3>2 DEF Update
    <3>. QED  BY <3>2, <3>3
  <2>. QED  BY <1>1, <2>1, <2>2
<1>3. k \in DOMAIN old => KeepsData(c.entry) /\ old = shared[c.entry]
  BY DEF EntryData, NoData
<1>. QED  BY <1>2, <1>3

\* And it is data.
LEMMA EntryTyped ==
    ASSUME DataTyped, NEW t \in Tasks, envelope[t] \in Envelopes, NEW c, Planned(c)
    PROVE  IsData(EntryDataAfter(t, c))
<1>1. IsData(EntryData(c.entry))
  <2>1. CASE KeepsData(c.entry)
    BY <2>1 DEF EntryData, KeepsData, Planned, DataTyped
  <2>2. CASE ~KeepsData(c.entry)
    BY <2>2, DataByKey DEF EntryData, NoData
  <2>. QED  BY <2>1, <2>2
<1>2. t \in Sources /\ envelope[t].keys \in SUBSET Keys /\ ScriptKeys \cap Keys \in SUBSET Keys
  BY TransportCallsAssumption DEF Sources
<1>3. IsData(From(t, ScriptKeys \cap Keys)) /\ IsData(OwnData(t, envelope[t]))
  BY <1>2, FromTyped DEF OwnData
<1>. QED  BY <1>1, <1>3, UpdateTyped DEF EntryDataAfter

\* What there is in the data of pushes after one is for its platform or was there before.
LEMMA PushComes ==
    ASSUME NEW t \in Tasks, NEW c, Planned(c), NEW k \in DOMAIN PushAfter(t, c)
    PROVE  \/ k \in DOMAIN push[t] /\ PushAfter(t, c)[k] = push[t][k]
           \/ /\ PushAfter(t, c)[k] \in Platforms
              /\ \E a \in c.to : PushAfter(t, c)[k] \in PlatformsOf(a)
<1>1. CASE c.via = "push"
  <2> DEFINE a == CHOOSE x \in c.to : TRUE
             new == PlatformData(a)
  <2>1. a \in c.to
    BY <1>1 DEF Planned
  <2>2. PushAfter(t, c) = Update(push[t], new)
    BY <1>1 DEF PushAfter
  <2>3. \A i \in DOMAIN new : new[i] \in Platforms /\ new[i] \in PlatformsOf(a)
    <3> HIDE DEF a
    <3>. QED  BY DEF PlatformData, Platforms
  <2>4. k \in DOMAIN Update(push[t], new) /\ PushAfter(t, c)[k] = Update(push[t], new)[k]
    BY <2>2
  <2> HIDE DEF a, new
  <2>5. \/ k \in DOMAIN push[t] /\ Update(push[t], new)[k] = push[t][k]
        \/ k \in DOMAIN new /\ Update(push[t], new)[k] = new[k]
    BY <2>4 DEF Update
  <2>. QED  BY <2>1, <2>3, <2>4, <2>5
<1>2. CASE c.via # "push"
  BY <1>2 DEF PushAfter
<1>. QED  BY <1>1, <1>2

\* And it is data.
LEMMA PushTyped ==
    ASSUME DataTyped, NEW t \in Tasks, NEW c
    PROVE  IsData(PushAfter(t, c))
<1>1. IsData(push[t])
  BY DEF DataTyped
<1>2. \A a : IsData(PlatformData(a))
  <2>1. SUFFICES ASSUME NEW a PROVE IsData(PlatformData(a))
    OBVIOUS
  <2>2. DOMAIN PlatformData(a) \subseteq Keys /\ \A k \in DOMAIN PlatformData(a) : PlatformData(a)[k] \in Sources
    BY DEF PlatformData, Sources, Platforms
  <2>. QED  BY <2>2, DataByKey
<1>. QED  BY <1>1, <1>2, UpdateTyped DEF PushAfter

\* What a call carries is of the envelope, of the entry, or of the pushes.
LEMMA CallComes ==
    ASSUME NEW t \in Tasks, NEW c, NEW k \in DOMAIN DataOf(t, c)
    PROVE  \/ DataOf(t, c)[k] = t /\ k \in envelope[t].keys
           \/ k \in DOMAIN EntryDataAfter(t, c) /\ DataOf(t, c)[k] = EntryDataAfter(t, c)[k]
           \/ k \in DOMAIN PushAfter(t, c) /\ DataOf(t, c)[k] = PushAfter(t, c)[k]
<1>1. CASE c.via \in {"script", "rest_command"}
  BY <1>1 DEF DataOf
<1>2. CASE c.via = "media_player"
  BY <1>2 DEF DataOf
<1>3. CASE c.via = "push"
  BY <1>3 DEF DataOf, NoData
<1>4. CASE c.via = "once"
  BY <1>4 DEF DataOf, OwnData, From
<1>5. CASE c.via \notin {"script", "rest_command", "media_player", "push", "once"}
  BY <1>5 DEF DataOf, NoData
<1>. QED  BY <1>1, <1>2, <1>3, <1>4, <1>5

\* And it is data.
LEMMA CallTyped ==
    ASSUME DataTyped, NEW t \in Tasks, envelope[t] \in Envelopes, NEW c, Planned(c)
    PROVE  IsData(DataOf(t, c))
<1>1. IsData(EntryDataAfter(t, c)) /\ IsData(PushAfter(t, c))
  BY EntryTyped, PushTyped
<1>2. /\ DOMAIN EntryDataAfter(t, c) \subseteq Keys
      /\ \A k \in DOMAIN EntryDataAfter(t, c) : EntryDataAfter(t, c)[k] \in Sources
      /\ DOMAIN PushAfter(t, c) \subseteq Keys
      /\ \A k \in DOMAIN PushAfter(t, c) : PushAfter(t, c)[k] \in Sources
  BY <1>1, DataByKey
<1>3. t \in Sources /\ envelope[t].keys \subseteq Keys
  BY TransportCallsAssumption DEF Sources
<1>4. DOMAIN DataOf(t, c) \subseteq Keys /\ \A k \in DOMAIN DataOf(t, c) : DataOf(t, c)[k] \in Sources
  BY <1>2, <1>3, CallComes
<1>. QED  BY <1>4, DataByKey

\* A call that is started is planned, and for an envelope.
LEMMA StartedIsPlanned ==
    ASSUME ProgressInv, NEW t \in Tasks, NEW c, StartCall(t, c)
    PROVE  Planned(c) /\ envelope[t] \in Envelopes
<1>1. InProgress(t) /\ stage[t] = "sending" /\ left[t] # <<>> /\ c = Head(left[t])
  BY DEF ProgressInv, StartCall, NextCall
<1>. QED  BY <1>1, RestOfPlan DEF InProgress

\* What raises is counted for its transport.
LEMMA RaiseCounts ==
    ASSUME errors \in [Transports -> Nat], NEW t, NEW n \in {0, 1}, Raise(t, n)
    PROVE  errors' \in [Transports -> Nat]
<1>1. PICK x : errors' = [errors EXCEPT ![x] = @ + 1 + n]
  BY DEF Raise
<1>2. ASSUME NEW y \in Transports PROVE errors'[y] \in Nat
  BY <1>1
<1>3. errors' = [y \in Transports |-> errors'[y]]
  BY <1>1
<1>. QED  BY <1>2, <1>3

\* Where data is from when a delivery begins: all of it is the envelope's own.
LEMMA TypedByDeliver ==
    ASSUME DataTyped, NEW t \in Tasks, NEW e \in Envelopes, Deliver(t, e)
    PROVE  DataTyped'
<1>1. /\ push' = [push EXCEPT ![t] = OwnData(t, e)] /\ log' = log /\ shared' = shared /\ snoozed' = snoozed
  BY DEF Deliver
<1>2. IsData(OwnData(t, e))
  <2>1. t \in Sources /\ e.keys \in SUBSET Keys
    BY TransportCallsAssumption DEF Sources
  <2>. QED  BY <2>1, FromTyped DEF OwnData
<1>3. DOMAIN push' = Tasks /\ \A u \in Tasks : IsData(push'[u])
  BY <1>1, <1>2 DEF DataTyped
<1>4. errors' \in [Transports -> Nat]
  <2>1. CASE RaisesFirst(e)
    BY <2>1, RaiseCounts DEF Deliver, DataTyped
  <2>2. CASE ~RaisesFirst(e)
    BY <2>2 DEF Deliver, DataTyped
  <2>. QED  BY <2>1, <2>2
<1>. QED  BY <1>1, <1>3, <1>4 DEF DataTyped

\* A call that is skipped, or breaks, leaves the data alone.
LEMMA TypedByOthers ==
    ASSUME DataTyped, log' = log, push' = push, shared' = shared, snoozed' = snoozed,
           errors' \in [Transports -> Nat]
    PROVE  DataTyped'
BY DEF DataTyped

\* One that is started carries data, and leaves data.
LEMMA TypedByStart ==
    ASSUME Logged, ProgressInv, DataTyped, NEW t \in Tasks, NEW c, StartCall(t, c)
    PROVE  DataTyped'
<1>1. /\ push' = [push EXCEPT ![t] = PushAfter(t, c)]
      /\ shared' = IF KeepsData(c.entry) THEN [shared EXCEPT ![c.entry] = EntryDataAfter(t, c)] ELSE shared
      /\ errors' = errors /\ snoozed' = snoozed
  BY DEF StartCall
<1>2. Planned(c) /\ envelope[t] \in Envelopes
  BY StartedIsPlanned
<1>3. IsData(DataOf(t, c)) /\ IsData(EntryDataAfter(t, c)) /\ IsData(PushAfter(t, c))
  BY <1>2, CallTyped, EntryTyped, PushTyped
<1>4. DOMAIN push' = Tasks /\ \A u \in Tasks : IsData(push'[u])
  BY <1>1, <1>3 DEF DataTyped
<1>5. DOMAIN shared' = DOMAIN Entries /\ \A a \in DOMAIN Entries : IsData(shared'[a])
  BY <1>1, <1>3 DEF DataTyped
<1>6. /\ \A u \in Tasks : u # t => log'[u] = log[u]
      /\ \A i \in DOMAIN log'[t] : (i \in DOMAIN log[t] /\ log'[t][i] = log[t][i])
                                   \/ log'[t][i].data = DataOf(t, c)
  BY StartLogs
<1>7. \A u \in Tasks : \A i \in DOMAIN log'[u] : IsData(log'[u][i].data)
  BY <1>3, <1>6 DEF DataTyped
<1>. QED  BY <1>1, <1>4, <1>5, <1>7 DEF DataTyped

\* One that has ended has an outcome besides, and may have a device snoozed.
LEMMA TypedByEnd ==
    ASSUME Logged, DataTyped, NEW t \in Tasks, NEW outcome \in {"worked", "accepted", "failed"},
           EndCall(t, outcome)
    PROVE  DataTyped'
<1>1. push' = push /\ shared' = shared
  BY DEF EndCall
<1>2. errors' \in [Transports -> Nat]
  <2>1. errors \in [Transports -> Nat]
    BY DEF DataTyped
  <2>2. CASE errors' = errors
    BY <2>1, <2>2
  <2>3. ASSUME NEW x, errors' = [errors EXCEPT ![x] = @ + 1] PROVE errors' \in [Transports -> Nat]
    <3>1. \A y \in Transports : errors'[y] \in Nat
      BY <2>1, <2>3
    <3>2. errors' = [y \in Transports |-> errors'[y]]
      BY <2>1, <2>3
    <3>. QED  BY <3>1, <3>2
  <2>. QED  BY <2>2, <2>3 DEF EndCall
<1>3. snoozed' \subseteq (UNION Range(OwnersOf)) \X DOMAIN OwnersOf
  BY DEF EndCall, DataTyped, CoolDown
<1>4. /\ \A u \in Tasks : u # t => log'[u] = log[u]
      /\ DOMAIN log'[t] = DOMAIN log[t] /\ \A i \in DOMAIN log[t] : log'[t][i].data = log[t][i].data
  BY EndLogs
<1>5. \A u \in Tasks : \A i \in DOMAIN log'[u] : IsData(log'[u][i].data)
  BY <1>4 DEF DataTyped
<1>. QED  BY <1>1, <1>2, <1>3, <1>5 DEF DataTyped

\* All data is from a task, the configuration, or a platform.
THEOREM DataIsTyped == Spec => []DataTyped
<1>1. Init => DataTyped
  <2> SUFFICES ASSUME Init PROVE DataTyped
    OBVIOUS
  <2>1. IsData(NoData)
    BY DataByKey DEF NoData
  <2>2. \A a \in DOMAIN Entries : IsData(From("config", Entries[a].data))
    <3>1. "config" \in Sources /\ \A a \in DOMAIN Entries : Entries[a].data \in SUBSET Keys
      BY TransportCallsAssumption DEF Sources
    <3>. QED  BY <3>1, FromTyped
  <2>. QED  BY <2>1, <2>2 DEF Init, DataTyped
<1>2. Logged /\ ProgressInv /\ DataTyped /\ [Next]_vars => DataTyped'
  <2> SUFFICES ASSUME Logged, ProgressInv, DataTyped, [Next]_vars PROVE DataTyped'
    OBVIOUS
  <2>1. ASSUME NEW t \in Tasks, NEW e \in Envelopes, Deliver(t, e) PROVE DataTyped'
    BY <2>1, TypedByDeliver
  <2>2. ASSUME NEW t \in Tasks, NEW c \in Range(left[t]), SkipCall(t, c) PROVE DataTyped'
    BY <2>2, TypedByOthers DEF SkipCall, DataTyped
  <2>3. ASSUME NEW t \in Tasks, NEW c \in Range(left[t]), BreakCall(t, c) PROVE DataTyped'
    <3>1. errors' \in [Transports -> Nat]
      BY <2>3, RaiseCounts DEF BreakCall, DataTyped
    <3>. QED  BY <2>3, <3>1, TypedByOthers DEF BreakCall
  <2>4. ASSUME NEW t \in Tasks, NEW c \in Range(left[t]), StartCall(t, c) PROVE DataTyped'
    BY <2>4, TypedByStart
  <2>5. ASSUME NEW t \in Tasks, NEW o \in {"worked", "accepted", "failed"}, EndCall(t, o) PROVE DataTyped'
    BY <2>5, TypedByEnd
  <2>6. CASE UNCHANGED vars
    BY <2>6, TypedByOthers DEF vars, DataTyped
  <2>. QED  BY <2>1, <2>2, <2>3, <2>4, <2>5, <2>6 DEF Next
<1>. QED  BY <1>1, <1>2, LogIsOfCalls, PlansAreFollowed, PTL DEF Spec

\* What each task has and where it is with it.
StagesTyped ==
    /\ envelope \in [Tasks -> Envelopes \cup {NoEnvelope}]
    /\ stage \in [Tasks -> {"idle", "sending", "raised"}]
    /\ counts \in [Tasks -> [delivered : {0, 1}, error_count : Nat, skipped : {0, 1}]]

\* Counters are counters after one is counted.
LEMMA CountTyped ==
    ASSUME NEW n \in [delivered : {0, 1}, error_count : Nat, skipped : {0, 1}], NEW outcome
    PROVE  /\ [n EXCEPT !.error_count = n.error_count + 1]
                \in [delivered : {0, 1}, error_count : Nat, skipped : {0, 1}]
           /\ Counted(n, outcome) \in [delivered : {0, 1}, error_count : Nat, skipped : {0, 1}]
BY DEF Counted

\* The variables keep to their sets, for any plans of calls and any outcomes, and only the
\* last call of a task is waited for.
THEOREM TypesAreKept == Spec => []TypeOK
<1>1. Init => StagesTyped
  BY DEF Init, StagesTyped, NewCounts
<1>2. StagesTyped /\ [Next]_vars => StagesTyped'
  <2> SUFFICES ASSUME StagesTyped, [Next]_vars PROVE StagesTyped'
    OBVIOUS
  <2>1. ASSUME NEW t \in Tasks, NEW e \in Envelopes, Deliver(t, e) PROVE StagesTyped'
    <3>1. counts' = counts \/ counts' = [counts EXCEPT ![t] = [counts[t] EXCEPT !.error_count = counts[t].error_count + 1]]
      BY <2>1 DEF Deliver, Raise, StagesTyped
    <3>2. counts' \in [Tasks -> [delivered : {0, 1}, error_count : Nat, skipped : {0, 1}]]
      BY <3>1, CountTyped DEF StagesTyped
    <3>3. stage' = [stage EXCEPT ![t] = "raised"] \/ stage' = [stage EXCEPT ![t] = "sending"]
      BY <2>1 DEF Deliver, Raise
    <3>. QED  BY <2>1, <3>2, <3>3 DEF Deliver, StagesTyped
  <2>2. ASSUME NEW t \in Tasks, NEW c \in Range(left[t]), SkipCall(t, c) PROVE StagesTyped'
    BY <2>2 DEF SkipCall, StagesTyped
  <2>3. ASSUME NEW t \in Tasks, NEW c \in Range(left[t]), BreakCall(t, c) PROVE StagesTyped'
    <3>1. counts' = [counts EXCEPT ![t] = [counts[t] EXCEPT !.error_count = counts[t].error_count + 1]]
      BY <2>3 DEF BreakCall, Raise, StagesTyped
    <3>2. counts' \in [Tasks -> [delivered : {0, 1}, error_count : Nat, skipped : {0, 1}]]
      BY <3>1, CountTyped DEF StagesTyped
    <3>. QED  BY <2>3, <3>2 DEF BreakCall, Raise, StagesTyped
  <2>4. ASSUME NEW t \in Tasks, NEW c \in Range(left[t]), StartCall(t, c) PROVE StagesTyped'
    BY <2>4 DEF StartCall, StagesTyped
  <2>5. ASSUME NEW t \in Tasks, NEW o \in {"worked", "accepted", "failed"}, EndCall(t, o) PROVE StagesTyped'
    <3>1. counts' = [counts EXCEPT ![t] = Counted(counts[t], o)]
      BY <2>5 DEF EndCall, StagesTyped
    <3>2. counts' \in [Tasks -> [delivered : {0, 1}, error_count : Nat, skipped : {0, 1}]]
      BY <3>1, CountTyped DEF StagesTyped
    <3>. QED  BY <2>5, <3>2 DEF EndCall, StagesTyped
  <2>6. CASE UNCHANGED vars
    BY <2>6 DEF vars, StagesTyped
  <2>. QED  BY <2>1, <2>2, <2>3, <2>4, <2>5, <2>6 DEF Next
<1>3. StagesTyped /\ TallyInv /\ ProgressInv /\ DataTyped => TypeOK
  <2> SUFFICES ASSUME StagesTyped, TallyInv, ProgressInv, DataTyped PROVE TypeOK
    OBVIOUS
  <2>1. \A t \in Tasks :
            /\ \A i \in DOMAIN left[t] : IsCall(left[t][i])
            /\ \A i \in DOMAIN log[t] :
                /\ IsCall(log[t][i].call) /\ IsData(log[t][i].data)
                /\ log[t][i].outcome \in Outcomes
                /\ log[t][i].outcome = "waiting" => i = Len(log[t])
    BY DEF TallyInv, Tallied, ProgressInv, InProgress, IsPlan, Planned, DataTyped
  <2>. QED  BY <2>1 DEF TypeOK, StagesTyped, DataTyped
<1>. QED  BY <1>1, <1>2, <1>3, CountersTallied, PlansAreFollowed, DataIsTyped, PTL DEF Spec

-----------------------------------------------------------------------------
(* Where the data of calls comes from.                                     *)

\* That a call of a task carries data of a source is accounted for by the calls made.
Accounted(calls, t, i, source) ==
    \/ source \in {t, "config"}
    \/ /\ source \in Platforms
       /\ \E j \in 1 .. i : \E a \in calls[t][j].call.to : source \in PlatformsOf(a)
    \/ LeftBy(calls, source, calls[t][i].call.entry)

CallsAccounted ==
    \A t \in Tasks : \A i \in DOMAIN log[t] : \A k \in DOMAIN log[t][i].data :
        Accounted(log, t, i, log[t][i].data[k])

ForeignInv == PushAccounted /\ SharedAccounted /\ CallsAccounted

\* The calls of a log and their data stay, whatever is added.
Kept(before, after) ==
    \A t \in Tasks :
        /\ \E n \in Nat : DOMAIN before[t] = 1 .. n
        /\ \A i \in DOMAIN before[t] :
            /\ i \in DOMAIN after[t]
            /\ after[t][i].call = before[t][i].call /\ after[t][i].data = before[t][i].data

LEMMA LogIsKept ==
    ASSUME Logged, \A t \in Tasks : \A i \in DOMAIN log[t] :
                /\ i \in DOMAIN log'[t]
                /\ log'[t][i].call = log[t][i].call /\ log'[t][i].data = log[t][i].data
    PROVE  Kept(log, log')
<1>1. ASSUME NEW t \in Tasks PROVE \E n \in Nat : DOMAIN log[t] = 1 .. n
  <2>1. PICK X, Y : log[t] \in Seq([call : X, data : Y, outcome : Outcomes])
    BY DEF Logged, LogOf
  <2>. QED  BY <2>1, LenProperties
<1>. QED  BY <1>1 DEF Kept

\* What was accounted for stays so.
LEMMA LeftByStays ==
    ASSUME NEW before, NEW after, Kept(before, after), NEW source, NEW a, LeftBy(before, source, a)
    PROVE  LeftBy(after, source, a)
BY DEF LeftBy, Kept

LEMMA AccountedStays ==
    ASSUME NEW before, NEW after, Kept(before, after),
           NEW t \in Tasks, NEW i \in DOMAIN before[t], NEW source, Accounted(before, t, i, source)
    PROVE  Accounted(after, t, i, source)
<1>1. PICK n \in Nat : DOMAIN before[t] = 1 .. n
  BY DEF Kept
<1>2. \A j \in 1 .. i : after[t][j].call = before[t][j].call
  <2>1. \A j \in 1 .. i : j \in DOMAIN before[t]
    BY <1>1
  <2>. QED  BY <2>1 DEF Kept
<1>3. after[t][i].call = before[t][i].call
  BY DEF Kept
<1>4. LeftBy(before, source, before[t][i].call.entry) => LeftBy(after, source, after[t][i].call.entry)
  BY <1>3, LeftByStays
<1>. QED  BY <1>2, <1>4 DEF Accounted

\* A step that starts no call leaves nothing to account for, but the envelope's own data.
LEMMA ForeignByOthers ==
    ASSUME ForeignInv, Kept(log, log'), shared' = shared,
           \A t \in Tasks : DOMAIN log'[t] = DOMAIN log[t],
           \A t \in Tasks : push'[t] = push[t] \/ \A k \in DOMAIN push'[t] : push'[t][k] = t
    PROVE  ForeignInv'
<1>1. PushAccounted'
  <2>1. SUFFICES ASSUME NEW t \in Tasks, NEW k \in DOMAIN push'[t], push'[t][k] # t
                 PROVE  /\ push'[t][k] \in Platforms
                        /\ \E j \in DOMAIN log'[t] : \E a \in log'[t][j].call.to : push'[t][k] \in PlatformsOf(a)
    BY DEF PushAccounted, PlatformsOf
  <2>2. push'[t] = push[t]
    BY <2>1
  <2>3. /\ push[t][k] \in Platforms
        /\ \E j \in DOMAIN log[t] : \E a \in log[t][j].call.to : push[t][k] \in PlatformsOf(a)
    BY <2>1, <2>2 DEF ForeignInv, PushAccounted
  <2>. QED  BY <2>2, <2>3 DEF Kept
<1>2. SharedAccounted'
  <2>1. SUFFICES ASSUME NEW a \in DOMAIN Entries, NEW k \in DOMAIN shared'[a], shared'[a][k] # "config"
                 PROVE  LeftBy(log', shared'[a][k], a)
    BY DEF SharedAccounted, LeftBy
  <2>2. LeftBy(log, shared[a][k], a)
    BY <2>1 DEF ForeignInv, SharedAccounted
  <2>. QED  BY <2>2, LeftByStays
<1>3. CallsAccounted'
  <2>1. SUFFICES ASSUME NEW t \in Tasks, NEW i \in DOMAIN log'[t], NEW k \in DOMAIN log'[t][i].data
                 PROVE  Accounted(log', t, i, log'[t][i].data[k])
    BY DEF CallsAccounted
  <2>2. i \in DOMAIN log[t] /\ log'[t][i].data = log[t][i].data
    BY DEF Kept
  <2>3. Accounted(log, t, i, log[t][i].data[k])
    BY <2>2 DEF ForeignInv, CallsAccounted
  <2>. QED  BY <2>2, <2>3, AccountedStays
<1>. QED  BY <1>1, <1>2, <1>3 DEF ForeignInv

\* A call that is started finds what earlier calls left, and leaves what the next will find.
LEMMA ForeignByStart ==
    ASSUME Logged, ProgressInv, DataTyped, ForeignInv, NEW t \in Tasks, NEW c, StartCall(t, c)
    PROVE  ForeignInv'
<1> DEFINE n == Len(log[t]) + 1
<1>1. Planned(c)
  BY StartedIsPlanned
<1>2. /\ \A u \in Tasks : u # t => log'[u] = log[u]
      /\ Len(log[t]) \in Nat /\ DOMAIN log[t] = 1 .. Len(log[t]) /\ DOMAIN log'[t] = 1 .. n
      /\ \A i \in DOMAIN log[t] : log'[t][i] = log[t][i]
      /\ log'[t][n].call = c /\ log'[t][n].data = DataOf(t, c)
  BY StartLogs
<1>3. /\ n \in DOMAIN log'[t] /\ \A i \in DOMAIN log[t] : i \in 1 .. n /\ i \in DOMAIN log'[t]
      /\ \A i \in DOMAIN log'[t] : i = n \/ i \in DOMAIN log[t]
  BY <1>2
<1> HIDE DEF n
<1>4. Kept(log, log')
  BY <1>2, <1>3, LogIsKept
<1>5. push' = [push EXCEPT ![t] = PushAfter(t, c)] /\ DOMAIN push = Tasks
  BY DEF StartCall, DataTyped
<1>6. shared' = IF KeepsData(c.entry) THEN [shared EXCEPT ![c.entry] = EntryDataAfter(t, c)] ELSE shared
  BY DEF StartCall
<1>7. ASSUME NEW k \in DOMAIN PushAfter(t, c), PushAfter(t, c)[k] # t
      PROVE  /\ PushAfter(t, c)[k] \in Platforms
             /\ \E j \in 1 .. n : \E a \in log'[t][j].call.to : PushAfter(t, c)[k] \in PlatformsOf(a)
  <2>1. CASE k \in DOMAIN push[t] /\ PushAfter(t, c)[k] = push[t][k]
    <3>1. /\ push[t][k] \in Platforms
          /\ \E j \in DOMAIN log[t] : \E a \in log[t][j].call.to : push[t][k] \in PlatformsOf(a)
      BY <1>7, <2>1 DEF ForeignInv, PushAccounted
    <3>. QED  BY <1>2, <1>3, <2>1, <3>1
  <2>2. CASE /\ PushAfter(t, c)[k] \in Platforms
             /\ \E a \in c.to : PushAfter(t, c)[k] \in PlatformsOf(a)
    <3>1. n \in 1 .. n
      BY <1>2, <1>3
    <3>. QED  BY <1>2, <2>2, <3>1
  <2>. QED  BY <1>1, <2>1, <2>2, PushComes
<1>8. ASSUME NEW k \in DOMAIN EntryDataAfter(t, c), EntryDataAfter(t, c)[k] # t
      PROVE  \/ EntryDataAfter(t, c)[k] = "config"
             \/ LeftBy(log', EntryDataAfter(t, c)[k], c.entry)
  <2>1. /\ KeepsData(c.entry) /\ k \in DOMAIN shared[c.entry]
        /\ EntryDataAfter(t, c)[k] = shared[c.entry][k]
    BY <1>8, EntryComes
  <2>2. c.entry \in DOMAIN Entries
    BY <1>1, <2>1 DEF KeepsData, Planned
  <2>3. shared[c.entry][k] = "config" \/ LeftBy(log, shared[c.entry][k], c.entry)
    BY <2>1, <2>2 DEF ForeignInv, SharedAccounted
  <2>. QED  BY <1>4, <2>1, <2>3, LeftByStays
<1>9. PushAccounted'
  <2>1. SUFFICES ASSUME NEW u \in Tasks, NEW k \in DOMAIN push'[u], push'[u][k] # u
                 PROVE  /\ push'[u][k] \in Platforms
                        /\ \E j \in DOMAIN log'[u] : \E a \in log'[u][j].call.to : push'[u][k] \in PlatformsOf(a)
    BY DEF PushAccounted, PlatformsOf
  <2>2. CASE u = t
    BY <1>2, <1>5, <1>7, <2>1, <2>2
  <2>3. CASE u # t
    BY <1>2, <1>5, <2>1, <2>3 DEF ForeignInv, PushAccounted
  <2>. QED  BY <2>2, <2>3
<1>10. SharedAccounted'
  <2>1. SUFFICES ASSUME NEW a \in DOMAIN Entries, NEW k \in DOMAIN shared'[a], shared'[a][k] # "config"
                 PROVE  LeftBy(log', shared'[a][k], a)
    BY DEF SharedAccounted, LeftBy
  <2>2. CASE shared'[a] = shared[a]
    <3>1. LeftBy(log, shared[a][k], a)
      BY <2>1, <2>2 DEF ForeignInv, SharedAccounted
    <3>. QED  BY <1>4, <2>2, <3>1, LeftByStays
  <2>3. CASE KeepsData(c.entry) /\ a = c.entry /\ shared'[a] = EntryDataAfter(t, c)
    <3>1. CASE EntryDataAfter(t, c)[k] = t
      BY <1>2, <1>3, <2>3, <3>1 DEF LeftBy, KeepsData
    <3>2. CASE EntryDataAfter(t, c)[k] # t
      BY <1>8, <2>1, <2>3, <3>2
    <3>. QED  BY <3>1, <3>2
  <2>4. DOMAIN shared = DOMAIN Entries
    BY DEF DataTyped
  <2>. QED  BY <1>6, <2>2, <2>3, <2>4
<1>11. CallsAccounted'
  <2>1. SUFFICES ASSUME NEW u \in Tasks, NEW i \in DOMAIN log'[u], NEW k \in DOMAIN log'[u][i].data
                 PROVE  Accounted(log', u, i, log'[u][i].data[k])
    BY DEF CallsAccounted
  <2>2. CASE u # t \/ i \in DOMAIN log[t]
    <3>1. i \in DOMAIN log[u] /\ log'[u][i] = log[u][i]
      BY <1>2, <2>2
    <3>2. Accounted(log, u, i, log[u][i].data[k])
      BY <3>1 DEF ForeignInv, CallsAccounted
    <3>. QED  BY <1>4, <3>1, <3>2, AccountedStays
  <2>3. CASE u = t /\ i = n
    <3> DEFINE source == log'[u][i].data[k]
    <3>1. k \in DOMAIN DataOf(t, c) /\ source = DataOf(t, c)[k] /\ log'[t][i].call = c
      BY <1>2, <2>3
    <3> HIDE DEF source
    <3>2. CASE source = t
      BY <2>3, <3>2 DEF Accounted, source
    <3>3. CASE source # t /\ k \in DOMAIN EntryDataAfter(t, c) /\ source = EntryDataAfter(t, c)[k]
      <4>1. source = "config" \/ LeftBy(log', source, log'[t][i].call.entry)
        BY <1>8, <3>1, <3>3
      <4>. QED  BY <2>3, <4>1 DEF Accounted, source
    <3>4. CASE source # t /\ k \in DOMAIN PushAfter(t, c) /\ source = PushAfter(t, c)[k]
      <4>1. source \in Platforms /\ \E j \in 1 .. i : \E a \in log'[t][j].call.to : source \in PlatformsOf(a)
        BY <1>7, <2>3, <3>4
      <4>. QED  BY <2>3, <4>1 DEF Accounted, source
    <3>. QED  BY <3>1, <3>2, <3>3, <3>4, CallComes
  <2>. QED  BY <1>3, <2>2, <2>3
<1>. QED  BY <1>9, <1>10, <1>11 DEF ForeignInv

\* Data that a call carries of another envelope or another device was left there by an
\* earlier chime of the same entry of an alias, or by an earlier push of the same envelope,
\* for any aliases, envelopes and interleaving of their calls.
THEOREM ForeignDataIsExplained == Spec => []ForeignDataAccountedFor
<1>1. Init => ForeignInv
  BY DEF Init, ForeignInv, PushAccounted, SharedAccounted, CallsAccounted, NoData, From
<1>2. Logged /\ ProgressInv /\ DataTyped /\ ForeignInv /\ [Next]_vars => ForeignInv'
  <2> SUFFICES ASSUME Logged, ProgressInv, DataTyped, ForeignInv, [Next]_vars PROVE ForeignInv'
    OBVIOUS
  <2>1. ASSUME log' = log, shared' = shared,
               \A t \in Tasks : push'[t] = push[t] \/ \A k \in DOMAIN push'[t] : push'[t][k] = t
        PROVE  ForeignInv'
    <3>1. Kept(log, log')
      BY <2>1, LogIsKept
    <3>. QED  BY <2>1, <3>1, ForeignByOthers
  <2>2. ASSUME NEW t \in Tasks, NEW e \in Envelopes, Deliver(t, e) PROVE ForeignInv'
    <3>1. /\ log' = log /\ shared' = shared /\ DOMAIN push = Tasks
          /\ push' = [push EXCEPT ![t] = OwnData(t, e)]
      BY <2>2 DEF Deliver, DataTyped
    <3>2. \A u \in Tasks : push'[u] = push[u] \/ \A k \in DOMAIN push'[u] : push'[u][k] = u
      BY <3>1 DEF OwnData, From
    <3>. QED  BY <2>1, <3>1, <3>2
  <2>3. ASSUME NEW t \in Tasks, NEW c \in Range(left[t]), SkipCall(t, c) PROVE ForeignInv'
    BY <2>1, <2>3 DEF SkipCall
  <2>4. ASSUME NEW t \in Tasks, NEW c \in Range(left[t]), BreakCall(t, c) PROVE ForeignInv'
    BY <2>1, <2>4 DEF BreakCall
  <2>5. ASSUME NEW t \in Tasks, NEW c \in Range(left[t]), StartCall(t, c) PROVE ForeignInv'
    BY <2>5, ForeignByStart
  <2>6. ASSUME NEW t \in Tasks, NEW o \in {"worked", "accepted", "failed"}, EndCall(t, o) PROVE ForeignInv'
    <3>1. /\ \A u \in Tasks : u # t => log'[u] = log[u]
          /\ DOMAIN log'[t] = DOMAIN log[t]
          /\ \A i \in DOMAIN log[t] : log'[t][i].call = log[t][i].call /\ log'[t][i].data = log[t][i].data
      BY <2>6, EndLogs
    <3>2. Kept(log, log')
      BY <3>1, LogIsKept
    <3>3. push' = push /\ shared' = shared
      BY <2>6 DEF EndCall
    <3>. QED  BY <3>1, <3>2, <3>3, ForeignByOthers
  <2>7. CASE UNCHANGED vars
    BY <2>1, <2>7 DEF vars
  <2>. QED  BY <2>2, <2>3, <2>4, <2>5, <2>6, <2>7 DEF Next
<1>3. ForeignInv => ForeignDataAccountedFor
  BY DEF ForeignInv, CallsAccounted, Accounted, LeftBy, ForeignDataAccountedFor
<1>. QED  BY <1>1, <1>2, <1>3, LogIsOfCalls, PlansAreFollowed, DataIsTyped, PTL DEF Spec

=============================================================================
