------------------------- MODULE NotificationProofs -------------------------
(***************************************************************************)
(* Notification, for every set of deliveries and transports and any number *)
(* of envelopes: it is type correct, its fallbacks wait for silence and    *)
(* leave no one out, it leaves nothing running, its counters add up, and   *)
(* it implements DeliveryContract.                                         *)
(***************************************************************************)
EXTENDS Notification, FoldLemmas, FiniteSetTheorems, TLAPS

(***************************************************************************)
(* The ledger: what its three operations keep.                             *)
(***************************************************************************)

\* The counters do not understate what is recorded delivery by delivery.
LedgerAgrees(L) ==
    /\ L.delivered = 0 => \A d \in Deliveries : L.deliveries[d]["SUCCESS"] = 0
    /\ L.failed = 0 => \A d \in Deliveries : L.deliveries[d]["ERROR"] = 0

\* The entries of every delivery outside a set are the same in two ledgers.
SameOutside(S, L, M) ==
    /\ \A d \in Deliveries \ S : M.deliveries[d] = L.deliveries[d]
    /\ M.fallback = L.fallback

\* record_result for an envelope keeps a ledger well formed and in agreement, and
\* touches the entries of its own delivery only.
LEMMA AddEnvelopeKeeps ==
    ASSUME NEW L \in Ledgers, NEW d \in Deliveries, NEW e \in EnvelopeResults
    PROVE  /\ AddEnvelope(L, d, e) \in Ledgers
           /\ SameOutside({d}, L, AddEnvelope(L, d, e))
           /\ LedgerAgrees(L) => LedgerAgrees(AddEnvelope(L, d, e))
<1>0. e.delivered \in {0, 1} /\ e.error_count \in Nat
  BY NotificationAssumption DEF EnvelopeResults
<1>1. OutcomeOf(e) \in EnvelopeOutcomes
  BY DEF OutcomeOf, EnvelopeOutcomes
<1>2. AddEnvelope(L, d, e) \in Ledgers
  <2>1. L.deliveries \in [Deliveries -> [EnvelopeOutcomes -> Nat]]
    BY DEF Ledgers
  <2>2. [L.deliveries EXCEPT ![d][OutcomeOf(e)] = @ + 1]
          \in [Deliveries -> [EnvelopeOutcomes -> Nat]]
    BY <1>1, <2>1
  <2>3. QED
    BY <1>0, <2>2 DEF AddEnvelope, Count, Ledgers
<1>3. SameOutside({d}, L, AddEnvelope(L, d, e))
  BY DEF AddEnvelope, Count, Ledgers, SameOutside
<1>4. LedgerAgrees(L) => LedgerAgrees(AddEnvelope(L, d, e))
  BY <1>0, <1>1 DEF AddEnvelope, Count, Ledgers, LedgerAgrees, OutcomeOf, EnvelopeOutcomes
<1>5. QED
  BY <1>2, <1>3, <1>4

\* So does record_result for the envelopes held back as duplicates, which records
\* no success and no failure.
LEMMA AddDupesKeeps ==
    ASSUME NEW L \in Ledgers, NEW d \in Deliveries, NEW k \in Nat
    PROVE  /\ AddDupes(L, d, k) \in Ledgers
           /\ SameOutside({d}, L, AddDupes(L, d, k))
           /\ LedgerAgrees(L) => LedgerAgrees(AddDupes(L, d, k))
           /\ \A c \in Deliveries, o \in {"SUCCESS", "ERROR"} :
                AddDupes(L, d, k).deliveries[c][o] = L.deliveries[c][o]
<1>1. AddDupes(L, d, k) \in Ledgers
  <2>1. L.deliveries \in [Deliveries -> [EnvelopeOutcomes -> Nat]]
    BY DEF Ledgers
  <2>2. [L.deliveries EXCEPT ![d]["SUPPRESSED"] = @ + k]
          \in [Deliveries -> [EnvelopeOutcomes -> Nat]]
    BY <2>1 DEF EnvelopeOutcomes
  <2>3. (L.dupe \/ k > 0) \in BOOLEAN
    OBVIOUS
  <2>4. QED
    BY <2>2, <2>3 DEF AddDupes, Ledgers
<1>2. SameOutside({d}, L, AddDupes(L, d, k))
  BY DEF AddDupes, Ledgers, SameOutside
<1>3. LedgerAgrees(L) => LedgerAgrees(AddDupes(L, d, k))
  BY DEF AddDupes, Ledgers, LedgerAgrees, EnvelopeOutcomes
<1>4. \A c \in Deliveries, o \in {"SUCCESS", "ERROR"} :
        AddDupes(L, d, k).deliveries[c][o] = L.deliveries[c][o]
  BY DEF AddDupes, Ledgers, EnvelopeOutcomes
<1>5. QED
  BY <1>1, <1>2, <1>3, <1>4

\* And record_result for deliveries that were skipped.
LEMMA AddSkipsKeeps ==
    ASSUME NEW L \in Ledgers, NEW S \in SUBSET Deliveries
    PROVE  /\ AddSkips(L, S) \in Ledgers
           /\ SameOutside(S, L, AddSkips(L, S))
           /\ LedgerAgrees(L) => LedgerAgrees(AddSkips(L, S))
           /\ \A c \in Deliveries, o \in {"SUCCESS", "ERROR"} :
                AddSkips(L, S).deliveries[c][o] = L.deliveries[c][o]
<1>1. Cardinality(S) \in Nat
  BY NotificationAssumption, FS_Subset, FS_CardinalityType
<1>2. AddSkips(L, S) \in Ledgers
  <2>1. ASSUME NEW c \in Deliveries
        PROVE  AddSkips(L, S).deliveries[c] \in [EnvelopeOutcomes -> Nat]
    BY DEF AddSkips, Ledgers
  <2>2. AddSkips(L, S).deliveries \in [Deliveries -> [EnvelopeOutcomes -> Nat]]
    BY <2>1 DEF AddSkips, Ledgers
  <2>3. QED
    BY <1>1, <2>2 DEF AddSkips, Ledgers
<1>3. SameOutside(S, L, AddSkips(L, S))
  BY DEF AddSkips, Ledgers, SameOutside
<1>4. \A c \in Deliveries, o \in {"SUCCESS", "ERROR"} :
        AddSkips(L, S).deliveries[c][o] = L.deliveries[c][o]
  BY DEF AddSkips, Ledgers, EnvelopeOutcomes
<1>5. LedgerAgrees(L) => LedgerAgrees(AddSkips(L, S))
  <2>1. AddSkips(L, S).delivered = L.delivered /\ AddSkips(L, S).failed = L.failed
    BY DEF AddSkips, Ledgers
  <2>2. QED
    BY <1>4, <2>1 DEF LedgerAgrees
<1>6. QED
  BY <1>2, <1>3, <1>4, <1>5

(***************************************************************************)
(* Type correctness.                                                       *)
(***************************************************************************)

\* The steps of one call keep the ledger and the call's own bookkeeping well formed.
LEMMA CallTransportType ==
    ASSUME TypeOK, NEW d \in Deliveries, CallTransport(d)
    PROVE  TypeOK'
<1>. USE DEF TypeOK, TaskStates, registries
<1>1. CASE SkipCall(d)
  <2>1. ledger' \in Ledgers
    BY <1>1, AddSkipsKeeps DEF SkipCall
  <2>2. QED
    BY <1>1, <2>1 DEF SkipCall
<1>2. CASE RaiseInCall(d)
  BY <1>2 DEF RaiseInCall
<1>3. ASSUME NEW n \in Nat, NEW k \in 0..n, ContinueWith(d, n, k)
      PROVE  left' \in [Deliveries -> Nat] /\ task' \in [Deliveries -> TaskStates]
  BY <1>3 DEF ContinueWith
<1>4. CASE StartCall(d)
  <2>1. PICK n \in 1..MaxEnvelopes : \E k \in 0..n :
            ContinueWith(d, n, k) /\ ledger' = AddDupes(ledger, d, k)
    BY <1>4 DEF StartCall
  <2>2. PICK k \in 0..n : ContinueWith(d, n, k) /\ ledger' = AddDupes(ledger, d, k)
    BY <2>1
  <2>3. n \in Nat /\ k \in Nat
    BY NotificationAssumption
  <2>4. ledger' \in Ledgers
    BY <2>2, <2>3, AddDupesKeeps
  <2>5. QED
    BY <1>3, <1>4, <2>2, <2>3, <2>4 DEF StartCall
<1>5. CASE EnvelopeSent(d)
  <2>1. PICK e \in EnvelopeResults, k \in 0..(left[d] - 1) :
            /\ ContinueWith(d, left[d] - 1, k)
            /\ ledger' = AddDupes(AddEnvelope(ledger, d, e), d, k)
    BY <1>5 DEF EnvelopeSent
  <2>2. left[d] - 1 \in Nat /\ k \in Nat
    OBVIOUS
  <2>3. ledger' \in Ledgers
    BY <2>1, <2>2, AddEnvelopeKeeps, AddDupesKeeps
  <2>4. QED
    BY <1>3, <1>5, <2>1, <2>2, <2>3 DEF EnvelopeSent
<1>6. QED
  BY <1>1, <1>2, <1>4, <1>5 DEF CallTransport, BeginCall

\* Every state of the module has the shape TypeOK says.
THEOREM TypeCorrect == Spec => []TypeOK
<1>1. Init => TypeOK
  <2>1. NewLedger \in Ledgers
    BY DEF NewLedger, Ledgers
  <2>2. QED
    BY <2>1 DEF Init, TypeOK, Phases, TaskStates, ImageStates
<1>2. TypeOK /\ [Next]_vars => TypeOK'
  <2>. SUFFICES ASSUME TypeOK, [Next]_vars
                PROVE  TypeOK'
    OBVIOUS
  <2>. USE DEF registries
  <2>1. CASE DeliverSuppressed
    <3>1. request.selected \in SUBSET Deliveries
      BY DEF TypeOK, Requests
    <3>2. ledger' \in Ledgers
      BY <2>1, <3>1, AddSkipsKeeps DEF DeliverSuppressed, TypeOK
    <3>3. QED
      BY <2>1, <3>2 DEF DeliverSuppressed, TypeOK, Phases
  <2>2. CASE DeliverImmediate
    BY <2>2 DEF DeliverImmediate, TypeOK, Phases, ImageStates, TaskStates
  <2>3. ASSUME NEW d \in Deliveries, CallTransport(d)
        PROVE  TypeOK'
    BY <2>3, CallTransportType
  <2>4. CASE GrabEnds \/ GrabTimesOut
    BY <2>4 DEF GrabEnds, GrabTimesOut, TypeOK, ImageStates
  <2>5. CASE WaitForImage
    BY <2>5 DEF WaitForImage, TypeOK, Phases
  <2>6. CASE DeliverDeferred
    BY <2>6 DEF DeliverDeferred, TypeOK, Phases, TaskStates
  <2>7. ASSUME NEW next \in Phases, NEW S \in SUBSET Deliveries, Turn(next, S)
        PROVE  TypeOK'
    BY <2>7 DEF Turn, TypeOK
  <2>8. CASE TurnToDefault \/ TurnToOnError \/ DefaultFailed \/ Return
    <3>1. /\ Fallbacks(FallbackDefault) \in SUBSET Deliveries
          /\ Fallbacks(FallbackOnError) \in SUBSET Deliveries
          /\ {} \in SUBSET Deliveries
      BY NotificationAssumption DEF Fallbacks, TypeOK
    <3>2. QED
      BY <2>7, <2>8, <3>1 DEF TurnToDefault, TurnToOnError, DefaultFailed, Return, Phases
  <2>9. ASSUME NEW d \in Deliveries, CallFallback(d)
        PROVE  TypeOK'
    BY <2>9 DEF CallFallback, TypeOK, TaskStates
  <2>10. CASE FallbackReturns
    <3>1. [ledger EXCEPT !.fallback = @ + 1] \in Ledgers
      BY DEF TypeOK, Ledgers
    <3>2. QED
      BY <2>10, <3>1 DEF FallbackReturns, TypeOK
  <2>11. CASE FallbackRaises
    BY <2>11 DEF FallbackRaises, TypeOK, Phases
  <2>12. CASE Switches
    BY <2>12 DEF Switches, SwitchDelivery, SwitchTransport, TypeOK
  <2>13. CASE UNCHANGED vars
    BY <2>13 DEF vars, TypeOK
  <2>14. QED
    BY <2>1, <2>2, <2>3, <2>4, <2>5, <2>6, <2>8, <2>9, <2>10, <2>11, <2>12, <2>13
       DEF Next, Coroutine, Over
<1>3. QED
  BY <1>1, <1>2, PTL DEF Spec

(***************************************************************************)
(* The inductive invariant: what the coroutines may be doing while         *)
(* deliver() stands in each phase.                                         *)
(***************************************************************************)

Idle(S) == \A d \in S : task[d] \notin {"ready", "sending"}
Unstarted(S) == \A d \in S : task[d] = "none"

TasksFollowPhase ==
    /\ phase = "initialized" => Unstarted(Deliveries)
    /\ phase = "immediate" => Unstarted(Deliveries \ Immediate)
    /\ phase = "image" => Settled(Immediate) /\ Unstarted(Deliveries \ Immediate)
    /\ phase = "deferred" =>
          Settled(Immediate) /\ Unstarted(Deliveries \ request.selected)
    /\ phase \in FallbackPhases => Idle(Deliveries \ {current})
    /\ Ended => Idle(Deliveries)
    /\ phase \in {"immediate", "image", "deferred"} => request.suppression = "NONE"

ImageFollowsPhase ==
    /\ phase = "initialized" => image = "none"
    /\ phase \in {"immediate", "image"} /\ image = "none" => Deferred = {}
    /\ phase = "image" => Deferred # {}
    /\ Deferred = {} => image = "none"
    /\ phase \notin {"immediate", "image"} => image # "running"

FallbacksFollowPhase ==
    /\ phase \notin FallbackPhases \cup {"raised"} => pending = {} /\ current = NoDelivery
    /\ ledger.fallback > 0 => phase \in FallbackPhases \cup {"finished", "raised"}

OthersFallBack == request.selected \cap (pending \cup {current}) = {}

IInv ==
    /\ LedgerAgrees(ledger)
    /\ TasksFollowPhase
    /\ ImageFollowsPhase
    /\ FallbacksFollowPhase
    /\ FallbackAfterSilence
    /\ OthersFallBack
    /\ DeferredAfterImage

\* What a step of one call changes: its own task, from running to running or ended,
\* and the ledger's entries of its own delivery.
LEMMA CallTransportEffect ==
    ASSUME TypeOK, NEW d \in Deliveries, CallTransport(d)
    PROVE  /\ task[d] \in {"ready", "sending"}
           /\ task'[d] \in {"sending", "done", "raised"}
           /\ \A c \in Deliveries \ {d} : task'[c] = task[c]
           /\ SameOutside({d}, ledger, ledger')
           /\ LedgerAgrees(ledger) => LedgerAgrees(ledger')
           /\ UNCHANGED <<request, phase, image, pending, current>>
<1>. USE DEF registries
<1>0. ledger \in Ledgers /\ task \in [Deliveries -> TaskStates]
  BY DEF TypeOK
<1>1. CASE SkipCall(d)
  BY <1>0, <1>1, AddSkipsKeeps DEF SkipCall
<1>2. CASE RaiseInCall(d)
  BY <1>0, <1>2 DEF RaiseInCall, SameOutside
<1>3. CASE StartCall(d)
  <2>1. PICK n \in 1..MaxEnvelopes : \E k \in 0..n :
            ContinueWith(d, n, k) /\ ledger' = AddDupes(ledger, d, k)
    BY <1>3 DEF StartCall
  <2>2. PICK k \in 0..n : ContinueWith(d, n, k) /\ ledger' = AddDupes(ledger, d, k)
    BY <2>1
  <2>3. k \in Nat
    BY NotificationAssumption
  <2>4. /\ SameOutside({d}, ledger, ledger')
        /\ LedgerAgrees(ledger) => LedgerAgrees(ledger')
    BY <1>0, <2>2, <2>3, AddDupesKeeps
  <2>5. QED
    BY <1>0, <1>3, <2>2, <2>4 DEF StartCall, ContinueWith
<1>4. CASE EnvelopeSent(d)
  <2>1. PICK e \in EnvelopeResults, k \in 0..(left[d] - 1) :
            /\ ContinueWith(d, left[d] - 1, k)
            /\ ledger' = AddDupes(AddEnvelope(ledger, d, e), d, k)
    BY <1>4 DEF EnvelopeSent
  <2> DEFINE M == AddEnvelope(ledger, d, e)
  <2>2. k \in Nat
    BY DEF TypeOK
  <2>3. /\ M \in Ledgers
        /\ SameOutside({d}, ledger, M)
        /\ LedgerAgrees(ledger) => LedgerAgrees(M)
    BY <1>0, AddEnvelopeKeeps
  <2>4. /\ SameOutside({d}, M, ledger')
        /\ LedgerAgrees(M) => LedgerAgrees(ledger')
    BY <2>1, <2>2, <2>3, AddDupesKeeps
  <2> HIDE DEF M
  <2>5. SameOutside({d}, ledger, ledger')
    BY <2>3, <2>4 DEF SameOutside
  <2>6. QED
    BY <1>0, <1>4, <2>1, <2>3, <2>4, <2>5 DEF EnvelopeSent, ContinueWith
<1>5. QED
  BY <1>1, <1>2, <1>3, <1>4 DEF CallTransport, BeginCall

\* In every phase the running calls are the ones it may have started.
LEMMA CallTransportKeeps ==
    ASSUME TypeOK, IInv, NEW d \in Deliveries, CallTransport(d)
    PROVE  IInv'
<1>1. /\ task[d] \in {"ready", "sending"}
      /\ task'[d] \in {"sending", "done", "raised"}
      /\ \A c \in Deliveries \ {d} : task'[c] = task[c]
      /\ SameOutside({d}, ledger, ledger')
      /\ LedgerAgrees(ledger')
      /\ UNCHANGED <<request, phase, image, pending, current>>
  BY CallTransportEffect DEF IInv
<1>2. Deferred' = Deferred /\ Immediate' = Immediate
  BY <1>1 DEF Deferred, Immediate
<1>3. \/ phase = "immediate" /\ d \in Immediate
      \/ phase = "deferred" /\ d \in request.selected \ Immediate
      \/ phase \in FallbackPhases /\ d = current /\ d \notin request.selected
  BY <1>1 DEF IInv, TasksFollowPhase, OthersFallBack, Unstarted, Idle, Settled,
              TypeOK, Phases, FallbackPhases, Ended
<1>4. Immediate \subseteq request.selected /\ request.selected \subseteq Deliveries
  BY DEF Immediate, TypeOK, Requests
<1>5. TasksFollowPhase'
  BY <1>1, <1>2, <1>3, <1>4
     DEF IInv, TasksFollowPhase, Unstarted, Idle, Settled, FallbackPhases, Ended
<1>6. ImageFollowsPhase' /\ FallbacksFollowPhase' /\ OthersFallBack'
  BY <1>1, <1>2 DEF IInv, ImageFollowsPhase, FallbacksFollowPhase, OthersFallBack,
                    SameOutside
<1>7. FallbackAfterSilence'
  BY <1>1, <1>3, <1>4 DEF IInv, FallbackAfterSilence, FallbacksFollowPhase, SameOutside,
        Settled, Reached, Recorded, FallbackPhases
<1>8. DeferredAfterImage'
  BY <1>1, <1>2, <1>3, <1>4 DEF IInv, DeferredAfterImage, ImageFollowsPhase,
        TasksFollowPhase, Unstarted, Settled, Deferred, FallbackPhases
<1>9. QED
  BY <1>1, <1>5, <1>6, <1>7, <1>8 DEF IInv

\* The control invariant is inductive.
THEOREM ControlInvariant == Spec => []IInv
<1>. USE DEF FallbackPhases, Ended
<1>1. Init => IInv
  <2>. SUFFICES ASSUME Init
                PROVE  IInv
    OBVIOUS
  <2>1. LedgerAgrees(ledger) /\ ledger.fallback = 0
    BY DEF Init, NewLedger, LedgerAgrees, EnvelopeOutcomes
  <2>2. request.selected \subseteq Deliveries /\ Deferred \subseteq Deliveries
    BY DEF Init, Requests, Deferred
  <2>3. phase = "initialized" /\ image = "none" /\ pending = {} /\ current = NoDelivery
    BY DEF Init
  <2>4. Unstarted(Deliveries)
    BY DEF Init, Unstarted
  <2>5. QED
    BY <2>1, <2>2, <2>3, <2>4, NotificationAssumption
       DEF IInv, TasksFollowPhase, ImageFollowsPhase, FallbacksFollowPhase,
           FallbackAfterSilence, OthersFallBack, DeferredAfterImage, Unstarted
<1>2. TypeOK /\ IInv /\ [Next]_vars => IInv'
  <2>. SUFFICES ASSUME TypeOK, IInv, [Next]_vars
                PROVE  IInv'
    OBVIOUS
  <2>1. ASSUME NEW d \in Deliveries, CallTransport(d)
        PROVE  IInv'
    BY <2>1, CallTransportKeeps
  <2>. USE DEF registries, IInv, TasksFollowPhase, ImageFollowsPhase, FallbacksFollowPhase,
               FallbackAfterSilence, OthersFallBack, DeferredAfterImage,
               Unstarted, Idle, Settled, Reached, Recorded
  <2>2. request' = request => Deferred' = Deferred /\ Immediate' = Immediate
    BY DEF Deferred, Immediate
  <2>3. Immediate \subseteq request.selected /\ request.selected \subseteq Deliveries
    BY DEF Immediate, TypeOK, Requests
  <2>4. Deferred = request.selected \ Immediate
    BY DEF Deferred, Immediate
  <2>5. CASE DeliverSuppressed
    <3>1. LedgerAgrees(ledger') /\ SameOutside(request.selected, ledger, ledger')
      BY <2>3, <2>5, AddSkipsKeeps DEF DeliverSuppressed, TypeOK
    <3>2. QED
      BY <2>2, <2>3, <2>4, <2>5, <3>1 DEF DeliverSuppressed, SameOutside
  <2>6. CASE DeliverImmediate
    BY <2>2, <2>3, <2>4, <2>6 DEF DeliverImmediate
  <2>7. CASE GrabEnds \/ GrabTimesOut
    BY <2>2, <2>7 DEF GrabEnds, GrabTimesOut
  <2>8. CASE WaitForImage
    BY <2>2, <2>8 DEF WaitForImage
  <2>9. CASE DeliverDeferred
    BY <2>2, <2>3, <2>4, <2>9 DEF DeliverDeferred
  <2>10. SelectedSettled => /\ phase \notin FallbackPhases
                            /\ current = NoDelivery
                            /\ Settled(request.selected)
                            /\ image # "running"
                            /\ Idle(Deliveries)
    <3>1. CASE phase = "immediate" /\ Settled(Immediate) /\ Deferred = {}
      <4>1. Immediate = request.selected
        BY <2>3, <2>4, <3>1
      <4>2. QED
        BY <3>1, <4>1
    <3>2. CASE phase = "deferred" /\ Settled(Deferred)
      BY <2>3, <2>4, <3>2
    <3>3. QED
      BY <3>1, <3>2 DEF SelectedSettled
  <2>11. CASE TurnToDefault \/ TurnToOnError
    <3>1. SelectedSettled /\ ledger.delivered = 0
      BY <2>11 DEF TurnToDefault, TurnToOnError, NothingSaid, OnlyFailed
    <3>2. Reached = {}
      BY <3>1 DEF LedgerAgrees
    <3>3. phase' = "default" => \A d \in Deliveries : ~Recorded(d, "ERROR")
      BY <2>11 DEF TurnToDefault, TurnToOnError, Turn, NothingSaid, LedgerAgrees
    <3>4. request.suppression = "NONE"
      BY <3>1 DEF SelectedSettled
    <3>5. request.selected \cap pending' = {}
      BY <2>11 DEF TurnToDefault, TurnToOnError, Turn, Fallbacks
    <3>6. QED
      BY <2>2, <2>3, <2>10, <2>11, <3>1, <3>2, <3>3, <3>4, <3>5
         DEF TurnToDefault, TurnToOnError, Turn, LedgerAgrees
  <2>12. CASE DefaultFailed
    BY <2>2, <2>3, <2>12 DEF DefaultFailed, LoopOver, Turn, Fallbacks
  <2>13. CASE Return
    <3>1. CASE SelectedSettled
      BY <2>2, <2>3, <2>10, <2>13, <3>1 DEF Return, Turn
    <3>2. CASE LoopOver
      BY <2>2, <2>3, <2>13, <3>2, NotificationAssumption DEF Return, LoopOver, Turn
    <3>3. QED
      BY <2>13, <3>1, <3>2 DEF Return
  <2>14. ASSUME NEW d \in Deliveries, CallFallback(d)
         PROVE  IInv'
    <3>1. d \in pending /\ d \notin request.selected
      BY <2>14 DEF CallFallback
    <3>2. /\ \A c \in Deliveries \ {d} : task'[c] = task[c]
          /\ phase' = phase /\ image' = image /\ ledger' = ledger /\ request' = request
          /\ current' = d /\ pending' \subseteq pending
          /\ phase \in FallbackPhases /\ current = NoDelivery
      BY <2>14 DEF CallFallback, TypeOK
    <3>3. QED
      BY <2>2, <2>3, <2>4, <3>1, <3>2, NotificationAssumption
  <2>15. CASE FallbackReturns
    <3>1. /\ ledger'.delivered = ledger.delivered /\ ledger'.failed = ledger.failed
          /\ ledger'.deliveries = ledger.deliveries
      BY <2>15 DEF FallbackReturns, TypeOK, Ledgers
    <3>2. current \in Deliveries /\ task[current] = "done" /\ phase \in FallbackPhases
      BY <2>15 DEF FallbackReturns, TypeOK
    <3>3. LedgerAgrees(ledger')
      BY <3>1 DEF LedgerAgrees
    <3>4. /\ UNCHANGED <<request, phase, image, task, pending>>
          /\ current' = NoDelivery /\ NoDelivery \notin Deliveries
      BY <2>15, NotificationAssumption DEF FallbackReturns
    <3>5. TasksFollowPhase'
      BY <2>2, <2>3, <3>2, <3>4
    <3>6. ImageFollowsPhase' /\ DeferredAfterImage'
      BY <2>2, <3>4
    <3>7. FallbacksFollowPhase' /\ OthersFallBack'
      BY <2>3, <3>2, <3>4
    <3>8. FallbackAfterSilence'
      BY <3>1, <3>2, <3>4
    <3>9. QED
      BY <3>3, <3>5, <3>6, <3>7, <3>8
  <2>16. CASE FallbackRaises
    BY <2>2, <2>16 DEF FallbackRaises
  <2>17. CASE Switches \/ UNCHANGED vars
    BY <2>2, <2>17 DEF Switches, SwitchDelivery, SwitchTransport, vars
  <2>18. QED
    BY <2>1, <2>5, <2>6, <2>7, <2>8, <2>9, <2>11, <2>12, <2>13, <2>14, <2>15, <2>16, <2>17
       DEF Next, Coroutine, Over
<1>3. QED
  BY <1>1, <1>2, TypeCorrect, PTL DEF Spec

\* Fallbacks wait until everything selected has ended without reaching anyone.
THEOREM FallbacksWait == Spec => []FallbackAfterSilence
<1>1. IInv => FallbackAfterSilence
  BY DEF IInv
<1>2. QED
  BY <1>1, ControlInvariant, PTL

\* The snapshot's deliveries wait for the grab and for all the other deliveries.
THEOREM SnapshotsWait == Spec => []DeferredAfterImage
<1>1. IInv => DeferredAfterImage
  BY DEF IInv
<1>2. QED
  BY <1>1, ControlInvariant, PTL

\* When deliver() is over no task of it runs on.
THEOREM NothingRunsOn == Spec => []QuietAtEnd
<1>1. IInv => QuietAtEnd
  BY DEF IInv, TasksFollowPhase, ImageFollowsPhase, QuietAtEnd, Idle, Ended
<1>2. QED
  BY <1>1, ControlInvariant, PTL

(***************************************************************************)
(* Notification implements DeliveryContract.                               *)
(***************************************************************************)

\* A call takes back no success and no failure that was recorded.
LEMMA RecordsStay ==
    ASSUME TypeOK, NEW d \in Deliveries, CallTransport(d),
           NEW c \in Deliveries, NEW o \in {"SUCCESS", "ERROR"}, Recorded(c, o)
    PROVE  Recorded(c, o)'
<1>. USE DEF Recorded
<1>1. ledger \in Ledgers /\ \A p \in EnvelopeOutcomes : ledger.deliveries[c][p] \in Nat
  BY DEF TypeOK, Ledgers
<1>2. CASE SkipCall(d) \/ RaiseInCall(d)
  BY <1>1, <1>2, AddSkipsKeeps DEF SkipCall, RaiseInCall
<1>3. CASE StartCall(d)
  <2>1. PICK k \in Nat : ledger' = AddDupes(ledger, d, k)
    BY <1>3, NotificationAssumption DEF StartCall
  <2>2. QED
    BY <1>1, <2>1, AddDupesKeeps
<1>4. CASE EnvelopeSent(d)
  <2>1. PICK e \in EnvelopeResults, k \in 0..(left[d] - 1) :
            ledger' = AddDupes(AddEnvelope(ledger, d, e), d, k)
    BY <1>4 DEF EnvelopeSent
  <2>2. k \in Nat
    BY DEF TypeOK
  <2> DEFINE M == AddEnvelope(ledger, d, e)
  <2>3. M \in Ledgers
    BY <1>1, AddEnvelopeKeeps
  <2>4. M.deliveries[c][o] >= ledger.deliveries[c][o]
    BY <1>1 DEF AddEnvelope, OutcomeOf, EnvelopeOutcomes, Ledgers
  <2>5. ledger'.deliveries[c][o] = M.deliveries[c][o]
    BY <2>1, <2>2, <2>3, AddDupesKeeps
  <2>6. M.deliveries[c][o] \in Nat
    BY <2>3 DEF Ledgers, EnvelopeOutcomes
  <2> HIDE DEF M
  <2>7. QED
    BY <1>1, <2>4, <2>5, <2>6 DEF EnvelopeOutcomes
<1>5. QED
  BY <1>2, <1>3, <1>4 DEF CallTransport, BeginCall

\* A call reaches someone, if at all, by its own delivery.
LEMMA CallReaches ==
    ASSUME TypeOK, NEW d \in Deliveries, CallTransport(d)
    PROVE  Reached' = Reached \/ Reached' = Reached \cup {d}
<1>1. ASSUME NEW c \in Deliveries \ {d}
      PROVE  ledger'.deliveries[c] = ledger.deliveries[c]
  BY CallTransportEffect DEF SameOutside
<1>2. Recorded(d, "SUCCESS") => Recorded(d, "SUCCESS")'
  BY RecordsStay
<1>3. QED
  BY <1>1, <1>2 DEF Reached, Recorded

\* Every behaviour of Notification is one of the contract: nothing is tried as a
\* fallback before the selected deliveries have failed to reach anyone, no selected
\* delivery reaches anyone after that, and nothing is sent once it is closed.
THEOREM ImplementsContract == Spec => KeepsContract
<1>. USE DEF FallbackPhases, Ended
<1>1. Init => Contract!Init
  BY DEF Init, Contract!Init, Requests, Reached, Recorded, NewLedger, EnvelopeOutcomes
<1>2. TypeOK /\ IInv /\ [Next]_vars => [Contract!Next]_(Contract!vars)
  <2>. SUFFICES ASSUME TypeOK, IInv, [Next]_vars
                PROVE  [Contract!Next]_(Contract!vars)
    OBVIOUS
  <2>. DEFINE stage == IF phase \in {"finished", "raised"} THEN "closed"
                       ELSE IF phase \in {"default", "on_error"} THEN "fallback"
                       ELSE "selected"
  <2>. USE DEF registries
  <2>1. ASSUME UNCHANGED <<request, ledger>>, stage' = stage
        PROVE  UNCHANGED Contract!vars
    BY <2>1 DEF Contract!vars, Reached, Recorded
  <2>2. CASE DeliverSuppressed
    <3>1. Reached' = Reached
      BY <2>2, AddSkipsKeeps DEF DeliverSuppressed, TypeOK, Requests, Reached, Recorded
    <3>2. QED
      BY <2>2, <3>1 DEF DeliverSuppressed, Contract!Next, Contract!Close
  <2>3. CASE \/ DeliverImmediate \/ GrabEnds \/ GrabTimesOut \/ WaitForImage
             \/ DeliverDeferred \/ DefaultFailed \/ Switches \/ UNCHANGED vars
             \/ \E d \in Deliveries : CallFallback(d)
    BY <2>1, <2>3 DEF DeliverImmediate, GrabEnds, GrabTimesOut, WaitForImage,
        DeliverDeferred, DefaultFailed, LoopOver, Turn, Switches, SwitchDelivery,
        SwitchTransport, CallFallback, vars
  <2>4. ASSUME NEW d \in Deliveries, CallTransport(d)
        PROVE  [Contract!Next]_(Contract!vars)
    <3>1. UNCHANGED <<request, phase>> /\ task[d] \in {"ready", "sending"}
      BY <2>4, CallTransportEffect
    <3>2. Reached' = Reached \/ Reached' = Reached \cup {d}
      BY <2>4, CallReaches
    <3>3. \/ stage = "selected" /\ d \in request.selected
          \/ stage = "fallback" /\ d \in Deliveries \ request.selected
      BY <3>1 DEF IInv, TasksFollowPhase, OthersFallBack, Unstarted, Idle, Settled,
                  TypeOK, Phases, Immediate
    <3>4. QED
      BY <3>1, <3>2, <3>3
         DEF Contract!Next, Contract!ReachSelected, Contract!ReachFallback, Contract!vars
  <2>5. CASE TurnToDefault \/ TurnToOnError
    <3>1. Reached = {} /\ Reached' = {}
      BY <2>5 DEF TurnToDefault, TurnToOnError, Turn, NothingSaid, OnlyFailed, IInv,
                  LedgerAgrees, Reached, Recorded
    <3>2. QED
      BY <2>5, <3>1 DEF TurnToDefault, TurnToOnError, Turn, SelectedSettled,
                        Contract!Next, Contract!FallBack
  <2>6. CASE Return \/ FallbackRaises
    <3>1. Reached' = Reached
      BY <2>6 DEF Return, FallbackRaises, Turn, Reached, Recorded
    <3>2. QED
      BY <2>6, <3>1 DEF Return, FallbackRaises, Turn, SelectedSettled, LoopOver,
                        Contract!Next, Contract!Close
  <2>7. CASE FallbackReturns
    <3>1. ledger'.deliveries = ledger.deliveries
      BY <2>7 DEF FallbackReturns, TypeOK, Ledgers
    <3>2. Reached' = Reached
      BY <3>1 DEF Reached, Recorded
    <3>3. QED
      BY <2>7, <3>2 DEF FallbackReturns, Contract!vars
  <2>8. QED
    BY <2>2, <2>3, <2>4, <2>5, <2>6, <2>7 DEF Next, Coroutine, Over
<1>3. QED
  BY <1>1, <1>2, TypeCorrect, ControlInvariant, PTL DEF Spec, KeepsContract, Contract!Spec

(***************************************************************************)
(* The counters of the ledger and what is recorded delivery by delivery.   *)
(***************************************************************************)

Entries(L, o) == [d \in Deliveries |-> L.deliveries[d][o]]
Total(L, o) == Sum(Entries(L, o), Deliveries)

\* The counters are the sums of the entries.
Balanced(L) ==
    /\ L.delivered = Total(L, "SUCCESS")
    /\ L.failed = Total(L, "ERROR")
    /\ L.suppressed = Total(L, "SUPPRESSED")
    /\ L.skipped >= Total(L, "SKIPPED")
    /\ L.error_count >= L.failed

\* The entries of a ledger are numbers, and so is their sum.
LEMMA EntriesType ==
    ASSUME NEW L \in Ledgers, NEW o \in EnvelopeOutcomes
    PROVE  Entries(L, o) \in [Deliveries -> Int] /\ Total(L, o) \in Int
<1>1. Entries(L, o) \in [Deliveries -> Int]
  BY DEF Entries, Ledgers
<1>2. IsFiniteSet(Deliveries)
  BY NotificationAssumption
<1>3. Sum(Entries(L, o), Deliveries) \in Int
  BY <1>1, <1>2, SumType
<1>4. QED
  BY <1>1, <1>3 DEF Total

\* Recording something of one delivery changes one total, by as much.
LEMMA TotalUpdated ==
    ASSUME NEW L \in Ledgers, NEW M \in Ledgers, NEW d \in Deliveries,
           NEW o \in EnvelopeOutcomes, NEW k \in Nat,
           M.deliveries = [L.deliveries EXCEPT ![d][o] = @ + k]
    PROVE  /\ Total(M, o) = Total(L, o) + k
           /\ \A p \in EnvelopeOutcomes \ {o} : Total(M, p) = Total(L, p)
<1>1. L.deliveries \in [Deliveries -> [EnvelopeOutcomes -> Nat]]
  BY DEF Ledgers
<1>2. Total(M, o) = Total(L, o) + k
  <2>1. /\ \A c \in Deliveries \ {d} : Entries(M, o)[c] = Entries(L, o)[c]
        /\ Entries(M, o)[d] = Entries(L, o)[d] + k
        /\ Entries(L, o)[d] \in Int
    BY <1>1 DEF Entries
  <2>2. Total(M, o) = Total(L, o) + (Entries(M, o)[d] - Entries(L, o)[d])
    BY <2>1, EntriesType, SumUpdated, NotificationAssumption DEF Total
  <2>3. Total(L, o) \in Int
    BY EntriesType
  <2>4. QED
    BY <2>1, <2>2, <2>3
<1>3. ASSUME NEW p \in EnvelopeOutcomes \ {o}
      PROVE  Total(M, p) = Total(L, p)
  <2>1. Entries(M, p) = Entries(L, p)
    BY <1>1 DEF Entries
  <2>2. QED
    BY <2>1 DEF Total
<1>4. QED
  BY <1>2, <1>3

\* record_result for an envelope keeps the counters and the entries together.
LEMMA AddEnvelopeBalances ==
    ASSUME NEW L \in Ledgers, NEW d \in Deliveries, NEW e \in EnvelopeResults
    PROVE  Balanced(L) => Balanced(AddEnvelope(L, d, e))
<1> DEFINE M == AddEnvelope(L, d, e)
<1>1. e.delivered \in {0, 1} /\ e.error_count \in Nat
  BY NotificationAssumption DEF EnvelopeResults
<1>2. OutcomeOf(e) \in EnvelopeOutcomes /\ M \in Ledgers
  BY AddEnvelopeKeeps DEF OutcomeOf, EnvelopeOutcomes
<1>3. /\ M.deliveries = [L.deliveries EXCEPT ![d][OutcomeOf(e)] = @ + 1]
      /\ M.delivered = L.delivered + e.delivered
      /\ M.error_count = L.error_count + e.error_count
      /\ M.failed = L.failed + Count(OutcomeOf(e) = "ERROR")
      /\ M.suppressed = L.suppressed + Count(OutcomeOf(e) = "SUPPRESSED")
      /\ M.skipped = L.skipped /\ M.dupe = L.dupe
  BY DEF AddEnvelope
<1>4. /\ L.deliveries \in [Deliveries -> [EnvelopeOutcomes -> Nat]]
      /\ L.delivered \in Nat /\ L.error_count \in Nat /\ L.failed \in Nat
      /\ L.suppressed \in Nat /\ L.skipped \in Nat
  BY DEF Ledgers
<1> HIDE DEF M
<1>5. ASSUME Balanced(L)
      PROVE  Balanced(M)
  <2>1. /\ Total(M, OutcomeOf(e)) = Total(L, OutcomeOf(e)) + 1
        /\ \A p \in EnvelopeOutcomes \ {OutcomeOf(e)} : Total(M, p) = Total(L, p)
    BY <1>2, <1>3, TotalUpdated
  <2>2. \A p \in EnvelopeOutcomes : Total(L, p) \in Int
    BY EntriesType
  <2>3. CASE e.delivered = 1
    BY <1>1, <1>3, <1>4, <1>5, <2>1, <2>2, <2>3 DEF Balanced, OutcomeOf, Count, EnvelopeOutcomes
  <2>4. CASE e.delivered = 0 /\ e.error_count > 0
    BY <1>1, <1>3, <1>4, <1>5, <2>1, <2>2, <2>4 DEF Balanced, OutcomeOf, Count, EnvelopeOutcomes
  <2>5. CASE e.delivered = 0 /\ e.error_count = 0
    BY <1>1, <1>3, <1>4, <1>5, <2>1, <2>2, <2>5 DEF Balanced, OutcomeOf, Count, EnvelopeOutcomes
  <2>6. QED
    BY <1>1, <2>3, <2>4, <2>5
<1>6. QED
  BY <1>5 DEF M

\* So does record_result for the envelopes held back as duplicates.
LEMMA AddDupesBalances ==
    ASSUME NEW L \in Ledgers, NEW d \in Deliveries, NEW k \in Nat
    PROVE  Balanced(L) => Balanced(AddDupes(L, d, k))
<1> DEFINE M == AddDupes(L, d, k)
<1>1. M \in Ledgers /\ "SUPPRESSED" \in EnvelopeOutcomes
  BY AddDupesKeeps DEF EnvelopeOutcomes
<1>2. /\ M.deliveries = [L.deliveries EXCEPT ![d]["SUPPRESSED"] = @ + k]
      /\ M.delivered = L.delivered /\ M.error_count = L.error_count
      /\ M.failed = L.failed /\ M.skipped = L.skipped
      /\ M.suppressed = L.suppressed + k /\ M.dupe = (L.dupe \/ k > 0)
  BY DEF AddDupes
<1>3. /\ L.deliveries \in [Deliveries -> [EnvelopeOutcomes -> Nat]]
      /\ L.suppressed \in Nat
  BY DEF Ledgers
<1> HIDE DEF M
<1>4. ASSUME Balanced(L)
      PROVE  Balanced(M)
  <2>1. /\ Total(M, "SUPPRESSED") = Total(L, "SUPPRESSED") + k
        /\ \A p \in EnvelopeOutcomes \ {"SUPPRESSED"} : Total(M, p) = Total(L, p)
    BY <1>1, <1>2, TotalUpdated
  <2>2. QED
    BY <1>2, <1>4, <2>1 DEF Balanced, EnvelopeOutcomes
<1>5. QED
  BY <1>4 DEF M

\* And record_result for deliveries that were skipped.
LEMMA AddSkipsBalances ==
    ASSUME NEW L \in Ledgers, NEW S \in SUBSET Deliveries
    PROVE  Balanced(L) => Balanced(AddSkips(L, S))
<1> DEFINE M == AddSkips(L, S)
<1>1. M \in Ledgers
  BY AddSkipsKeeps
<1>2. /\ M.delivered = L.delivered /\ M.error_count = L.error_count
      /\ M.failed = L.failed /\ M.skipped = L.skipped + Cardinality(S)
      /\ M.suppressed = L.suppressed /\ M.dupe = L.dupe
      /\ \A c \in Deliveries, o \in EnvelopeOutcomes :
            M.deliveries[c][o] = IF c \in S /\ o = "SKIPPED" THEN 1 ELSE L.deliveries[c][o]
  BY DEF AddSkips
<1>3. IsFiniteSet(S) /\ Cardinality(S) \in Nat /\ (Cardinality(S) = 0 <=> S = {})
  BY NotificationAssumption, FS_Subset, FS_CardinalityType, FS_EmptySet
<1>4. /\ \A c \in Deliveries, o \in EnvelopeOutcomes : L.deliveries[c][o] \in Nat
      /\ L.skipped \in Nat
  BY DEF Ledgers
<1> HIDE DEF M
<1>5. ASSUME Balanced(L)
      PROVE  Balanced(M)
  <2>1. ASSUME NEW o \in EnvelopeOutcomes \ {"SKIPPED"}
        PROVE  Total(M, o) = Total(L, o)
    <3>1. Entries(M, o) = Entries(L, o)
      BY <1>2 DEF Entries
    <3>2. QED
      BY <3>1 DEF Total
  <2>2. Total(M, "SKIPPED") <= Total(L, "SKIPPED") + Cardinality(S)
    <3>1. "SKIPPED" \in EnvelopeOutcomes
      BY DEF EnvelopeOutcomes
    <3>2. \A c \in Deliveries :
            Entries(M, "SKIPPED")[c] <= Entries(L, "SKIPPED")[c] + (IF c \in S THEN 1 ELSE 0)
      BY <1>2, <1>4, <3>1 DEF Entries
    <3>3. QED
      BY <1>1, <3>1, <3>2, EntriesType, SumBounded, NotificationAssumption DEF Total
  <2>3. Total(M, "SKIPPED") \in Int /\ Total(L, "SKIPPED") \in Int
    BY <1>1, EntriesType DEF EnvelopeOutcomes
  <2>4. M.skipped >= Total(M, "SKIPPED")
    BY <1>2, <1>3, <1>4, <1>5, <2>2, <2>3 DEF Balanced
  <2>5. QED
    BY <1>2, <1>5, <2>1, <2>4 DEF Balanced, EnvelopeOutcomes
<1>6. QED
  BY <1>5 DEF M

\* A counter that is not zero has a delivery to show for it.
LEMMA CountersShow ==
    ASSUME NEW L \in Ledgers, Balanced(L)
    PROVE  /\ L.delivered > 0 => \E d \in Deliveries : L.deliveries[d]["SUCCESS"] > 0
           /\ L.failed > 0 => \E d \in Deliveries : L.deliveries[d]["ERROR"] > 0
<1>1. ASSUME NEW o \in EnvelopeOutcomes, \A d \in Deliveries : ~(L.deliveries[d][o] > 0)
      PROVE  Total(L, o) = 0
  <2>1. /\ Entries(L, o) \in [Deliveries -> Int]
        /\ \A d \in Deliveries : Entries(L, o)[d] = 0
    BY <1>1 DEF Entries, Ledgers
  <2>2. QED
    BY <2>1, SumOfZeros, NotificationAssumption DEF Total
<1>2. QED
  BY <1>1 DEF Balanced, EnvelopeOutcomes

\* Nothing is recorded of a delivery that was neither selected nor called.
RecordsFollowTasks ==
    \A d \in Deliveries \ request.selected :
        task[d] = "none" => \A o \in EnvelopeOutcomes : ledger.deliveries[d][o] = 0

\* What ties the counters to the entries, and the entries to the calls.
OInv ==
    /\ Balanced(ledger)
    /\ RecordsFollowTasks

\* A step of one call keeps the counters and the entries together.
LEMMA CallTransportBalances ==
    ASSUME TypeOK, NEW d \in Deliveries, CallTransport(d)
    PROVE  Balanced(ledger) => Balanced(ledger')
<1>0. ledger \in Ledgers
  BY DEF TypeOK
<1>1. CASE SkipCall(d)
  BY <1>0, <1>1, AddSkipsBalances DEF SkipCall
<1>2. CASE RaiseInCall(d)
  BY <1>2 DEF RaiseInCall
<1>3. CASE StartCall(d)
  <2>1. PICK k \in Nat : ledger' = AddDupes(ledger, d, k)
    BY <1>3, NotificationAssumption DEF StartCall
  <2>2. QED
    BY <1>0, <2>1, AddDupesBalances
<1>4. CASE EnvelopeSent(d)
  <2>1. PICK e \in EnvelopeResults, k \in 0..(left[d] - 1) :
            ledger' = AddDupes(AddEnvelope(ledger, d, e), d, k)
    BY <1>4 DEF EnvelopeSent
  <2>2. k \in Nat
    BY DEF TypeOK
  <2>3. AddEnvelope(ledger, d, e) \in Ledgers
    BY <1>0, AddEnvelopeKeeps
  <2>4. QED
    BY <1>0, <2>1, <2>2, <2>3, AddEnvelopeBalances, AddDupesBalances
<1>5. QED
  BY <1>1, <1>2, <1>3, <1>4 DEF CallTransport, BeginCall

\* Counters and entries stay together in every state that is reached.
THEOREM RecordsInvariant == Spec => []OInv
<1>1. Init => OInv
  <2>. SUFFICES ASSUME Init
                PROVE  OInv
    OBVIOUS
  <2>1. ledger = NewLedger
    BY DEF Init
  <2>2. ASSUME NEW o \in EnvelopeOutcomes
        PROVE  Total(ledger, o) = 0
    <3>1. /\ Entries(ledger, o) \in [Deliveries -> Int]
          /\ \A d \in Deliveries : Entries(ledger, o)[d] = 0
      BY <2>1 DEF NewLedger, Entries
    <3>2. IsFiniteSet(Deliveries)
      BY NotificationAssumption
    <3>3. QED
      BY <3>1, <3>2, SumOfZeros DEF Total
  <2>3. Balanced(ledger)
    BY <2>1, <2>2 DEF Balanced, NewLedger, EnvelopeOutcomes
  <2>4. RecordsFollowTasks
    BY <2>1 DEF RecordsFollowTasks, NewLedger
  <2>5. QED
    BY <2>3, <2>4 DEF OInv
<1>2. TypeOK /\ OInv /\ [Next]_vars => OInv'
  <2>. SUFFICES ASSUME TypeOK, OInv, [Next]_vars
                PROVE  OInv'
    OBVIOUS
  <2>. USE DEF registries
  <2>0. request.selected \subseteq Deliveries /\ ledger \in Ledgers
    BY DEF TypeOK, Requests
  <2>1. CASE DeliverSuppressed
    <3>1. /\ ledger' = AddSkips(ledger, request.selected)
          /\ request' = request /\ task' = task
      BY <2>1 DEF DeliverSuppressed
    <3>2. Balanced(ledger')
      BY <2>0, <3>1, AddSkipsBalances DEF OInv
    <3>3. SameOutside(request.selected, ledger, ledger')
      BY <2>0, <3>1, AddSkipsKeeps
    <3>4. RecordsFollowTasks'
      BY <3>1, <3>3 DEF OInv, RecordsFollowTasks, SameOutside
    <3>5. QED
      BY <3>2, <3>4 DEF OInv, Balanced, Total, Entries
  <2>2. ASSUME NEW d \in Deliveries, CallTransport(d)
        PROVE  OInv'
    <3>1. /\ task'[d] \in {"sending", "done", "raised"}
          /\ \A c \in Deliveries \ {d} : task'[c] = task[c]
          /\ SameOutside({d}, ledger, ledger')
          /\ request' = request
      BY <2>2, CallTransportEffect
    <3>2. Balanced(ledger')
      BY <2>2, CallTransportBalances DEF OInv
    <3>3. RecordsFollowTasks'
      BY <3>1 DEF OInv, RecordsFollowTasks, SameOutside
    <3>4. QED
      BY <3>2, <3>3 DEF OInv, Balanced, Total, Entries
  <2>3. ASSUME request' = request,
               \A d \in Deliveries : task'[d] = "none" => task[d] = "none",
               \/ ledger' = ledger
               \/ ledger' = [ledger EXCEPT !.fallback = @ + 1]
        PROVE  OInv'
    <3>1. /\ ledger'.deliveries = ledger.deliveries /\ ledger'.delivered = ledger.delivered
          /\ ledger'.failed = ledger.failed /\ ledger'.suppressed = ledger.suppressed
          /\ ledger'.skipped = ledger.skipped /\ ledger'.error_count = ledger.error_count
      BY <2>0, <2>3 DEF Ledgers
    <3>2. QED
      BY <2>3, <3>1 DEF OInv, RecordsFollowTasks, Balanced, Total, Entries
  <2>4. CASE \/ DeliverImmediate \/ GrabEnds \/ GrabTimesOut \/ WaitForImage
             \/ DeliverDeferred \/ Switches \/ UNCHANGED vars
             \/ FallbackRaises \/ FallbackReturns \/ \E d \in Deliveries : CallFallback(d)
    BY <2>3, <2>4
       DEF DeliverImmediate, GrabEnds, GrabTimesOut, WaitForImage, DeliverDeferred, Switches,
           SwitchDelivery, SwitchTransport, FallbackRaises, FallbackReturns, CallFallback,
           vars, TypeOK
  <2>5. CASE TurnToDefault \/ TurnToOnError \/ DefaultFailed \/ Return
    BY <2>3, <2>5 DEF TurnToDefault, TurnToOnError, DefaultFailed, Return, Turn
  <2>6. QED
    BY <2>1, <2>2, <2>4, <2>5 DEF Next, Coroutine, Over
<1>3. QED
  BY <1>1, <1>2, TypeCorrect, PTL DEF Spec

\* The counters are the sums of what was recorded, however the tasks interleaved.
THEOREM CountersAdd == Spec => []Accounting
<1>1. OInv => Accounting
  <2>1. ASSUME NEW o \in EnvelopeOutcomes
        PROVE  MapThenSumSet(LAMBDA d : ledger.deliveries[d][o], Deliveries) = Total(ledger, o)
    BY DEF Total, Entries, Sum, MapThenSumSet, MapThenFoldSet
  <2>2. QED
    BY <2>1 DEF OInv, Balanced, Accounting, EnvelopeOutcomes
<1>2. QED
  BY <1>1, RecordsInvariant, PTL
(***************************************************************************)
(* Which fallbacks are tried, and which are tried again.                   *)
(***************************************************************************)

Failed(S) == \E d \in S : Recorded(d, "ERROR")

\* Those of a list that nothing can keep from being tried.
Certain(S) == S \ (request.selected \cup Switchable)
Tried(S) == \A d \in Certain(S) : task[d] # "none"
Covered(S) == \A d \in Certain(S) : task[d] # "none" \/ d \in pending

DefaultLoop ==
    phase = "default" =>
        /\ pending \subseteq FallbackDefault \ request.selected
        /\ Unstarted(pending)
        /\ Unstarted(Deliveries \ (request.selected \cup FallbackDefault))
        /\ Covered(FallbackDefault)

\* The loop over the fallbacks on error begins after something selected has failed, and
\* nothing else was called, or after the loop over the default ones, one of which failed.
ErrorLoop ==
    phase = "on_error" =>
        /\ pending \subseteq FallbackOnError \ request.selected
        /\ Covered(FallbackOnError)
        /\ Tried(FallbackDefault) \/ Failed(request.selected)
        /\ \A d \in pending : task[d] # "none" =>
              d \in FallbackDefault /\ Failed(FallbackDefault \ request.selected)

FInv ==
    /\ Deliveries \ Switchable \subseteq enabled
    /\ DefaultLoop
    /\ ErrorLoop
    /\ SilenceTriesAll

\* What has been recorded when the last of the selected deliveries has ended is of these.
LEMMA OnlySelectedRecorded ==
    ASSUME TypeOK, IInv, OInv, SelectedSettled
    PROVE  /\ Unstarted(Deliveries \ request.selected)
           /\ pending = {} /\ request.suppression = "NONE"
           /\ ledger.delivered > 0 => Reached \cap request.selected # {}
           /\ ledger.failed > 0 => Failed(request.selected)
           /\ ledger.failed = 0 => ~Failed(Deliveries)
<1>1. request.selected \subseteq Deliveries /\ ledger \in Ledgers
  BY DEF TypeOK, Requests
<1>2. Unstarted(Deliveries \ request.selected)
  BY DEF SelectedSettled, IInv, TasksFollowPhase, Unstarted, Deferred, Immediate
<1>3. \A d \in Deliveries \ request.selected, o \in EnvelopeOutcomes :
        ledger.deliveries[d][o] = 0
  BY <1>2 DEF OInv, RecordsFollowTasks, Unstarted
<1>4. /\ ledger.delivered > 0 => \E d \in Deliveries : Recorded(d, "SUCCESS")
      /\ ledger.failed > 0 => \E d \in Deliveries : Recorded(d, "ERROR")
  BY <1>1, CountersShow DEF OInv, Recorded
<1>5. pending = {} /\ request.suppression = "NONE"
  BY DEF SelectedSettled, IInv, TasksFollowPhase, FallbacksFollowPhase, FallbackPhases
<1>6. ledger.failed = 0 => ~Failed(Deliveries)
  BY DEF IInv, LedgerAgrees, Failed, Recorded
<1>7. QED
  BY <1>1, <1>2, <1>3, <1>4, <1>5, <1>6 DEF Reached, Failed, Recorded, EnvelopeOutcomes

\* What is recorded when the loop over the default fallbacks runs, and of what.
LEMMA OnlyDefaultsFailed ==
    ASSUME TypeOK, IInv, OInv, FInv, phase = "default"
    PROVE  /\ Reached \cap request.selected = {}
           /\ ledger.failed > 0 => Failed(FallbackDefault \ request.selected)
           /\ ledger.failed = 0 => ~Failed(Deliveries)
<1>1. ledger \in Ledgers /\ FallbackDefault \subseteq Deliveries
  BY NotificationAssumption DEF TypeOK
<1>2. /\ Reached \cap request.selected = {}
      /\ \A d \in request.selected : ~Recorded(d, "ERROR")
  BY DEF IInv, FallbackAfterSilence, FallbackPhases
<1>3. \A d \in Deliveries \ (request.selected \cup FallbackDefault) : ~Recorded(d, "ERROR")
  BY DEF FInv, DefaultLoop, OInv, RecordsFollowTasks, Unstarted, Recorded, EnvelopeOutcomes
<1>4. ledger.failed > 0 => \E d \in Deliveries : Recorded(d, "ERROR")
  BY <1>1, CountersShow DEF OInv, Recorded
<1>5. ledger.failed = 0 => ~Failed(Deliveries)
  BY DEF IInv, LedgerAgrees, Failed, Recorded
<1>6. QED
  BY <1>1, <1>2, <1>3, <1>4, <1>5 DEF Failed

\* The step of a call takes nothing back, and begins no loop.
LEMMA CallTransportTries ==
    ASSUME TypeOK, IInv, FInv, NEW d \in Deliveries, CallTransport(d), enabled' = enabled
    PROVE  FInv'
<1>1. /\ task[d] \in {"ready", "sending"}
      /\ task'[d] \in {"sending", "done", "raised"}
      /\ \A c \in Deliveries \ {d} : task'[c] = task[c]
      /\ UNCHANGED <<request, phase, pending, current>>
  BY CallTransportEffect
<1>2. \A c \in Deliveries : Recorded(c, "ERROR") => Recorded(c, "ERROR")'
  BY RecordsStay
<1>3. phase \notin {"finished", "raised"}
  BY <1>1 DEF IInv, TasksFollowPhase, Ended, Idle
<1>4. /\ request.selected \subseteq Deliveries /\ pending \subseteq Deliveries
      /\ FallbackDefault \subseteq Deliveries /\ FallbackOnError \subseteq Deliveries
  BY NotificationAssumption DEF TypeOK, Requests
<1>5. \A c \in Deliveries : task'[c] = "none" <=> task[c] = "none"
  BY <1>1
<1>6. DefaultLoop'
  BY <1>1, <1>4, <1>5 DEF FInv, DefaultLoop, Unstarted, Covered, Certain
<1>7. ErrorLoop'
  BY <1>1, <1>2, <1>4, <1>5 DEF FInv, ErrorLoop, Tried, Covered, Certain, Failed
<1>8. SilenceTriesAll'
  BY <1>1, <1>3 DEF SilenceTriesAll
<1>9. QED
  BY <1>6, <1>7, <1>8 DEF FInv

\* The invariant of the fallbacks holds in every state that is reached.
THEOREM FallbacksInvariant == Spec => []FInv
<1>1. Init => FInv
  BY DEF Init, FInv, DefaultLoop, ErrorLoop, SilenceTriesAll
<1>2. TypeOK /\ IInv /\ OInv /\ FInv /\ [Next]_vars => FInv'
  <2>. SUFFICES ASSUME TypeOK, IInv, OInv, FInv, [Next]_vars
                PROVE  FInv'
    OBVIOUS
  <2>. USE DEF registries
  <2>0. /\ request.selected \subseteq Deliveries /\ pending \subseteq Deliveries
        /\ FallbackDefault \subseteq Deliveries /\ FallbackOnError \subseteq Deliveries
        /\ ledger \in Ledgers
    BY NotificationAssumption DEF TypeOK, Requests
  <2>1. ASSUME NEW d \in Deliveries, CallTransport(d)
        PROVE  FInv'
    BY <2>1, CallTransportTries
       DEF CallTransport, BeginCall, SkipCall, RaiseInCall, StartCall, EnvelopeSent
  <2>2. ASSUME phase' \notin {"default", "on_error", "finished"}, enabled' = enabled
        PROVE  FInv'
    BY <2>2 DEF FInv, DefaultLoop, ErrorLoop, SilenceTriesAll
  <2>3. CASE DeliverImmediate \/ WaitForImage \/ DeliverDeferred \/ FallbackRaises
    BY <2>2, <2>3 DEF DeliverImmediate, WaitForImage, DeliverDeferred, FallbackRaises
  <2>4. CASE DeliverSuppressed
    BY <2>4 DEF DeliverSuppressed, FInv, DefaultLoop, ErrorLoop, SilenceTriesAll
  <2>5. ASSUME UNCHANGED <<request, phase, task, pending>>,
               ledger'.deliveries = ledger.deliveries, ledger'.dupe = ledger.dupe,
               Deliveries \ Switchable \subseteq enabled'
        PROVE  FInv'
    BY <2>5 DEF FInv, DefaultLoop, ErrorLoop, SilenceTriesAll, Unstarted, Covered, Tried,
                Certain, Failed, Reached, Recorded
  <2>6. CASE GrabEnds \/ GrabTimesOut \/ UNCHANGED vars
    BY <2>5, <2>6 DEF GrabEnds, GrabTimesOut, vars, FInv
  <2>7. CASE FallbackReturns
    BY <2>0, <2>5, <2>7 DEF FallbackReturns, FInv, Ledgers
  <2>8. CASE Switches
    BY <2>5, <2>8 DEF Switches, SwitchDelivery, SwitchTransport, FInv
  <2>9. \A S \in SUBSET Deliveries : Certain(S) \subseteq Fallbacks(S)
    BY DEF FInv, Certain, Fallbacks
  <2>10. CASE TurnToDefault
    <3>1. /\ phase' = "default" /\ pending' = Fallbacks(FallbackDefault)
          /\ UNCHANGED <<request, task, enabled>>
      BY <2>10 DEF TurnToDefault, Turn
    <3>2. Unstarted(Deliveries \ request.selected)
      BY <2>10, OnlySelectedRecorded DEF TurnToDefault
    <3>3. pending' \subseteq FallbackDefault \ request.selected
      BY <3>1 DEF Fallbacks
    <3>4. DefaultLoop'
      BY <2>0, <2>9, <3>1, <3>2, <3>3 DEF DefaultLoop, Unstarted, Covered, Certain
    <3>5. QED
      BY <3>1, <3>4 DEF FInv, ErrorLoop, SilenceTriesAll
  <2>11. CASE TurnToOnError
    <3>1. /\ phase' = "on_error" /\ pending' = Fallbacks(FallbackOnError)
          /\ UNCHANGED <<request, task, enabled, ledger>> /\ ledger.failed > 0
      BY <2>11 DEF TurnToOnError, Turn, OnlyFailed
    <3>2. Unstarted(Deliveries \ request.selected) /\ Failed(request.selected)
      BY <2>11, <3>1, OnlySelectedRecorded DEF TurnToOnError
    <3>3. pending' \subseteq FallbackOnError \ request.selected
      BY <3>1 DEF Fallbacks
    <3>4. \A d \in pending' : task'[d] = "none"
      BY <2>0, <3>1, <3>2, <3>3 DEF Unstarted
    <3>5. Failed(request.selected)'
      BY <3>1, <3>2 DEF Failed, Recorded
    <3>6. Covered(FallbackOnError)'
      BY <2>0, <2>9, <3>1 DEF Covered, Certain
    <3>7. ErrorLoop'
      BY <3>1, <3>3, <3>4, <3>5, <3>6 DEF ErrorLoop
    <3>8. QED
      BY <3>1, <3>7 DEF FInv, DefaultLoop, SilenceTriesAll
  <2>12. CASE DefaultFailed
    <3>1. /\ phase = "default" /\ pending = {} /\ ledger.failed > 0
          /\ phase' = "on_error" /\ pending' = Fallbacks(FallbackOnError)
          /\ UNCHANGED <<request, task, enabled, ledger>>
      BY <2>12 DEF DefaultFailed, LoopOver, Turn
    <3>2. Failed(FallbackDefault \ request.selected)
      BY <3>1, OnlyDefaultsFailed
    <3>3. Failed(FallbackDefault \ request.selected)'
      BY <3>1, <3>2 DEF Failed, Recorded
    <3>4. Tried(FallbackDefault)'
      BY <3>1 DEF FInv, DefaultLoop, Covered, Tried, Certain
    <3>5. pending' \subseteq FallbackOnError \ request.selected
      BY <3>1 DEF Fallbacks
    <3>6. \A d \in pending' : task'[d] # "none" => d \in FallbackDefault
      BY <2>0, <3>1, <3>5 DEF FInv, DefaultLoop, Unstarted
    <3>7. Covered(FallbackOnError)'
      BY <2>0, <2>9, <3>1 DEF Covered, Certain
    <3>8. ErrorLoop'
      BY <3>1, <3>3, <3>4, <3>5, <3>6, <3>7 DEF ErrorLoop
    <3>9. QED
      BY <3>1, <3>8 DEF FInv, DefaultLoop, SilenceTriesAll
  <2>13. CASE Return
    <3>1. phase' = "finished" /\ UNCHANGED <<request, task, enabled, ledger>>
      BY <2>13 DEF Return, Turn
    <3>2. SilenceTriesAll
          <=> (phase = "finished" /\ request.suppression = "NONE"
                  /\ Reached \cap request.selected = {} =>
                /\ ~ledger.dupe /\ ~Failed(request.selected) => Tried(FallbackDefault)
                /\ Failed(Deliveries) => Tried(FallbackOnError))
      BY DEF SilenceTriesAll, Failed, Tried, Certain
    <3>3. Reached \cap request.selected = {} =>
            /\ ~ledger.dupe /\ ~Failed(request.selected) => Tried(FallbackDefault)
            /\ Failed(Deliveries) => Tried(FallbackOnError)
      <4>1. CASE SelectedSettled /\ ~NothingSaid(ledger) /\ ~OnlyFailed(ledger)
        <5>1. ledger.delivered \in Nat /\ ledger.failed \in Nat
          BY <2>0 DEF Ledgers
        <5>2. ledger.delivered > 0 \/ (ledger.failed = 0 /\ ledger.dupe)
          BY <4>1, <5>1 DEF NothingSaid, OnlyFailed
        <5>3. QED
          BY <4>1, <5>2, OnlySelectedRecorded
      <4>2. CASE LoopOver /\ phase = "default" /\ ledger.failed = 0
        <5>1. Tried(FallbackDefault)
          BY <4>2 DEF LoopOver, FInv, DefaultLoop, Covered, Tried
        <5>2. ~Failed(Deliveries)
          BY <4>2, OnlyDefaultsFailed
        <5>3. QED
          BY <5>1, <5>2
      <4>3. CASE LoopOver /\ phase = "on_error"
        BY <4>3 DEF LoopOver, FInv, ErrorLoop, Covered, Tried
      <4>4. QED
        BY <2>13, <4>1, <4>2, <4>3 DEF Return, LoopOver, FallbackPhases
    <3>4. SilenceTriesAll'
      BY <3>1, <3>3 DEF SilenceTriesAll, Failed, Tried, Certain, Reached, Recorded
    <3>5. QED
      BY <3>1, <3>4 DEF FInv, DefaultLoop, ErrorLoop
  <2>14. ASSUME NEW d \in Deliveries, CallFallback(d)
         PROVE  FInv'
    <3>1. /\ d \in pending /\ pending' = pending \ {d}
          /\ task' = [task EXCEPT ![d] = "ready"]
          /\ task'[d] = "ready" /\ \A c \in Deliveries \ {d} : task'[c] = task[c]
          /\ phase \in {"default", "on_error"}
          /\ UNCHANGED <<request, phase, enabled, ledger>>
      BY <2>14 DEF CallFallback, TypeOK, FallbackPhases
    <3>2. phase = "default" => d \in FallbackDefault
      BY <3>1 DEF FInv, DefaultLoop
    <3>3. DefaultLoop'
      BY <2>0, <3>1, <3>2 DEF FInv, DefaultLoop, Unstarted, Covered, Certain
    <3>4. ErrorLoop'
      BY <2>0, <3>1 DEF FInv, ErrorLoop, Covered, Tried, Certain, Failed, Recorded
    <3>5. QED
      BY <3>1, <3>3, <3>4 DEF FInv, SilenceTriesAll
  <2>15. QED
    BY <2>1, <2>3, <2>4, <2>6, <2>7, <2>8, <2>10, <2>11, <2>12, <2>13, <2>14
       DEF Next, Coroutine, Over
<1>3. QED
  BY <1>1, <1>2, TypeCorrect, ControlInvariant, RecordsInvariant, PTL DEF Spec

\* After silence every fallback is tried that the rules provide and no one can switch off.
THEOREM SilenceIsAnswered == Spec => []SilenceTriesAll
<1>1. FInv => SilenceTriesAll
  BY DEF FInv
<1>2. QED
  BY <1>1, FallbacksInvariant, PTL

\* What has ended is called again only by the second loop, after the first has failed.
THEOREM CalledTwiceOnError == Spec => CalledAgainOnlyOnError
<1>1. TypeOK /\ IInv /\ FInv /\ [Next]_vars =>
        [\A d \in Deliveries :
            task[d] \in {"done", "raised"} /\ task'[d] = "ready" =>
                /\ d \in (FallbackDefault \cap FallbackOnError) \ request.selected
                /\ \E f \in FallbackDefault \ request.selected : Recorded(f, "ERROR")
                /\ Reached \cap request.selected = {}]_vars
  <2>. SUFFICES ASSUME TypeOK, IInv, FInv, Next, NEW d \in Deliveries,
                       task[d] \in {"done", "raised"}, task'[d] = "ready"
                PROVE  /\ d \in (FallbackDefault \cap FallbackOnError) \ request.selected
                       /\ \E f \in FallbackDefault \ request.selected : Recorded(f, "ERROR")
                       /\ Reached \cap request.selected = {}
    OBVIOUS
  <2>. USE DEF registries
  <2>1. ASSUME NEW c \in Deliveries, CallTransport(c)
        PROVE  FALSE
    BY <2>1, CallTransportEffect
  <2>2. ~DeliverImmediate
    BY DEF DeliverImmediate, IInv, TasksFollowPhase, Unstarted
  <2>3. ~DeliverDeferred
    BY DEF DeliverDeferred, IInv, TasksFollowPhase, Unstarted, Deferred, Immediate
  <2>4. ~(\/ DeliverSuppressed \/ WaitForImage \/ TurnToDefault \/ TurnToOnError
          \/ FallbackReturns \/ FallbackRaises \/ DefaultFailed \/ Return
          \/ GrabEnds \/ GrabTimesOut \/ Switches \/ Over)
    BY DEF DeliverSuppressed, WaitForImage, TurnToDefault, TurnToOnError, Turn, FallbackReturns,
           FallbackRaises, DefaultFailed, Return, GrabEnds, GrabTimesOut, Switches,
           SwitchDelivery, SwitchTransport, Over, vars
  <2>5. CallFallback(d)
    <3>1. PICK c \in Deliveries : CallFallback(c)
      BY <2>1, <2>2, <2>3, <2>4 DEF Next, Coroutine
    <3>2. c = d
      BY <3>1 DEF CallFallback, TypeOK
    <3>3. QED
      BY <3>1, <3>2
  <2>6. d \in pending /\ phase \in {"default", "on_error"}
    BY <2>5 DEF CallFallback, FallbackPhases
  <2>7. phase = "on_error"
    BY <2>6 DEF FInv, DefaultLoop, Unstarted
  <2>8. Reached \cap request.selected = {}
    BY <2>7 DEF IInv, FallbackAfterSilence, FallbackPhases
  <2>9. QED
    BY <2>6, <2>7, <2>8 DEF FInv, ErrorLoop, Failed
<1>2. QED
  BY <1>1, TypeCorrect, ControlInvariant, FallbacksInvariant, PTL
     DEF Spec, CalledAgainOnlyOnError


=============================================================================
