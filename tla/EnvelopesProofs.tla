--------------------------- MODULE EnvelopesProofs ---------------------------
(***************************************************************************)
(* Proofs about Envelopes, for any people, configuration, calls and        *)
(* snoozes: what deliveries leave for each other is kept apart, targets    *)
(* that are taken apart lose and double nothing, addresses are chosen,     *)
(* data stays with its owner, and nobody is left out.                      *)
(***************************************************************************)
EXTENDS Envelopes, FoldLemmas, TLAPS

\* What was sent is remembered; what is still to do has sent nothing.
SentRemembered ==
    /\ DOMAIN sent = Deliveries
    /\ \A d \in Deliveries : \A i \in DOMAIN sent[d] : sent[d][i].to \subseteq already
    /\ \A d \in Deliveries : d \in todo => sent[d] = <<>>

-----------------------------------------------------------------------------
(* Targets and envelopes.                                                  *)

\* An envelope goes to the addresses of one of the targets.
LEMMA EnvelopeOfTarget ==
    ASSUME NEW d, NEW targets, NEW i \in DOMAIN GenerateEnvelopes(d, targets)
    PROVE  i \in DOMAIN targets /\ GenerateEnvelopes(d, targets)[i].to = targets[i].at
BY DEF GenerateEnvelopes, MakeEnvelope

\* Without required targets there are no addresses.
LEMMA NoneRequired ==
    ASSUME NEW d, Conf[d].required = "never", NEW i \in DOMAIN GenerateTargets(d)
    PROVE  GenerateTargets(d)[i].at = {}
BY DEF GenerateTargets, DataTarget

\* Unique targets are none that were selected already.
LEMMA UniqueAreNew ==
    ASSUME NEW d, Conf[d].unique, NEW i \in DOMAIN GenerateTargets(d)
    PROVE  GenerateTargets(d)[i].at \cap already = {}
<1>1. CASE Conf[d].required = "never"
    BY <1>1, NoneRequired
<1>2. CASE Conf[d].required # "never"
  <2>1. PICK parts : GenerateTargets(d) = Finally(d, parts)
    BY <1>2 DEF GenerateTargets
  <2>2. GenerateTargets(d)[i] = Minus(DirectPart(parts[i]), PlainTarget(already))
    BY <2>1 DEF Finally
  <2>. QED  BY <2>2 DEF Minus, PlainTarget, DataTarget
<1>. QED  BY <1>1, <1>2

\* What the envelopes of a delivery go to is remembered once it was called.
LEMMA SentIsRemembered ==
    ASSUME NEW d, Remember(d, GenerateTargets(d)),
           NEW i \in DOMAIN GenerateEnvelopes(d, GenerateTargets(d))
    PROVE  GenerateEnvelopes(d, GenerateTargets(d))[i].to \subseteq already'
<1>1. i \in DOMAIN GenerateTargets(d)
      /\ GenerateEnvelopes(d, GenerateTargets(d))[i].to = GenerateTargets(d)[i].at
    BY EnvelopeOfTarget
<1>2. CASE Conf[d].required = "never"
    BY <1>1, <1>2, NoneRequired
<1>3. CASE Conf[d].required # "never"
    BY <1>1, <1>3 DEF Remember
<1>. QED  BY <1>2, <1>3

-----------------------------------------------------------------------------
(* Unique targets.                                                         *)

\* Calling a delivery keeps what is remembered, and has unique targets to itself.
LEMMA CallRemembers ==
    ASSUME SentRemembered, NEW c \in Deliveries, CallTransport(c)
    PROVE  /\ SentRemembered'
           /\ todo' = todo \ {c}
           /\ \A e \in Deliveries : e # c => sent'[e] = sent[e]
           /\ Conf[c].unique => \A i \in DOMAIN sent'[c] : sent'[c][i].to \cap already = {}
<1> DEFINE envelopes == GenerateEnvelopes(c, GenerateTargets(c))
<1>1. /\ Remember(c, GenerateTargets(c)) /\ c \in todo
      /\ todo' = todo \ {c}
      /\ sent' = IF Fails(c, envelopes) THEN sent ELSE [sent EXCEPT ![c] = envelopes]
    BY DEF CallTransport, CallWith, Send
<1>2. already \subseteq already'
    BY <1>1 DEF Remember
<1>3. /\ DOMAIN sent' = Deliveries
      /\ \A e \in Deliveries : e # c => sent'[e] = sent[e]
      /\ sent'[c] \in {<<>>, envelopes}
    BY <1>1 DEF SentRemembered
<1>4. \A i \in DOMAIN sent'[c] : sent'[c][i].to \subseteq already'
  <2>1. CASE sent'[c] = <<>>
    BY <2>1
  <2>2. CASE sent'[c] = envelopes
    BY <1>1, <2>2, SentIsRemembered
  <2>. QED  BY <1>3, <2>1, <2>2
<1>5. ASSUME Conf[c].unique PROVE \A i \in DOMAIN sent'[c] : sent'[c][i].to \cap already = {}
  <2>1. CASE sent'[c] = <<>>
    BY <2>1
  <2>2. CASE sent'[c] = envelopes
    <3>1. SUFFICES ASSUME NEW i \in DOMAIN envelopes PROVE envelopes[i].to \cap already = {}
      BY <2>2
    <3>2. i \in DOMAIN GenerateTargets(c) /\ envelopes[i].to = GenerateTargets(c)[i].at
      BY EnvelopeOfTarget
    <3>. QED  BY <1>5, <3>2, UniqueAreNew
  <2>. QED  BY <1>3, <2>1, <2>2
<1>6. SentRemembered'
    BY <1>1, <1>2, <1>3, <1>4 DEF SentRemembered
<1>. QED  BY <1>1, <1>3, <1>5, <1>6

\* In whichever order deliveries are called, one with unique targets sends to no address
\* that an earlier one sent to.
THEOREM UniqueKeptApart == Spec => UniqueTargetsKeptApart
<1> DEFINE Apart ==
        \A d, e \in Deliveries :
            (d # e /\ d \in todo \ todo' /\ Conf[d].unique /\ e \notin todo) =>
                \A x \in Range(sent'[d]), y \in Range(sent[e]) : x.to \cap y.to = {}
<1>1. Init => SentRemembered
    BY DEF Init, SentRemembered
<1>2. SentRemembered /\ [Next]_vars => SentRemembered' /\ [Apart]_vars
  <2> SUFFICES ASSUME SentRemembered, [Next]_vars PROVE SentRemembered' /\ Apart
    OBVIOUS
  <2>1. ASSUME NEW c \in Deliveries, CallTransport(c) PROVE SentRemembered' /\ Apart
    <3>1. /\ SentRemembered'
          /\ todo' = todo \ {c}
          /\ \A e \in Deliveries : e # c => sent'[e] = sent[e]
          /\ Conf[c].unique => \A i \in DOMAIN sent'[c] : sent'[c][i].to \cap already = {}
      BY <2>1, CallRemembers
    <3>2. SUFFICES ASSUME NEW d \in Deliveries, NEW e \in Deliveries,
                          d # e, d \in todo \ todo', Conf[d].unique, e \notin todo,
                          NEW x \in Range(sent'[d]), NEW y \in Range(sent[e])
                   PROVE  x.to \cap y.to = {}
      BY <3>1
    <3>3. d = c
      BY <3>1, <3>2
    <3>4. PICK i \in DOMAIN sent'[d] : x = sent'[d][i]
      BY <3>2 DEF Range
    <3>5. PICK j \in DOMAIN sent[e] : y = sent[e][j]
      BY <3>2 DEF Range
    <3>6. y.to \subseteq already
      BY <3>5 DEF SentRemembered
    <3>. QED  BY <3>1, <3>2, <3>3, <3>4, <3>6
  <2>2. ASSUME UNCHANGED <<todo, already, sent>> PROVE SentRemembered' /\ Apart
    BY <2>2 DEF SentRemembered
  <2>3. ASSUME NEW p \in People, Move(p) PROVE SentRemembered' /\ Apart
    BY <2>2, <2>3 DEF Move
  <2>4. CASE ChangeSnoozes
    BY <2>2, <2>4 DEF ChangeSnoozes
  <2>5. CASE UNCHANGED vars
    BY <2>2, <2>5 DEF vars
  <2>. QED  BY <2>1, <2>3, <2>4, <2>5 DEF Next
<1>. QED  BY <1>1, <1>2, PTL DEF Spec, UniqueTargetsKeptApart

-----------------------------------------------------------------------------
(* Data and targets.                                                       *)

\* No data is data.
LEMMA NoDataIsData == NoData \in Data
<1>1. NoData \in [{} -> DataValues]
  BY DEF NoData
<1>. QED  BY <1>1 DEF Data

\* A dictionary that is updated has what it had or what it was updated with.
LEMMA UpdateGives ==
    ASSUME NEW data \in Data, NEW more \in Data
    PROVE  /\ Update(data, more) \in Data
           /\ \A k \in DOMAIN Update(data, more) :
                \/ Gives(data, k, Update(data, more)[k])
                \/ Gives(more, k, Update(data, more)[k])
<1>1. PICK K \in SUBSET DataKeys : data \in [K -> DataValues]
  BY DEF Data
<1>2. PICK M \in SUBSET DataKeys : more \in [M -> DataValues]
  BY DEF Data
<1>3. Update(data, more) \in [K \cup M -> DataValues]
  BY <1>1, <1>2 DEF Update
<1>4. Update(data, more) \in Data
  BY <1>3 DEF Data
<1>5. \A k \in DOMAIN Update(data, more) :
        Update(data, more)[k] = IF k \in DOMAIN more THEN more[k] ELSE data[k]
  BY DEF Update
<1>. QED  BY <1>4, <1>5 DEF Update, Gives

Entry == [to : Addresses, data : Data]

\* A target has data of its own for an address once.
Proper(t) ==
    /\ t \in Target
    /\ \A i, j \in DOMAIN t.own : t.own[i].to = t.own[j].to => i = j

\* What a target is made of.
LEMMA ProperParts ==
    ASSUME NEW t, Proper(t)
    PROVE  /\ t.at \in SUBSET Addresses /\ t.data \in Data /\ t.own \in Seq(Entry)
           /\ Len(t.own) \in Nat /\ DOMAIN t.own = 1 .. Len(t.own)
           /\ \A i \in DOMAIN t.own : t.own[i] \in Entry
           /\ t = [at |-> t.at, data |-> t.data, own |-> t.own]
<1>1. /\ t.at \in SUBSET Addresses /\ t.data \in Data /\ t.own \in Seq(Entry)
      /\ t = [at |-> t.at, data |-> t.data, own |-> t.own]
  BY DEF Proper, Target, Entry
<1>. QED  BY <1>1

\* What a target has for some addresses is in the order in which it has it.
LEMMA OwnForProper ==
    ASSUME NEW t, Proper(t), NEW at
    PROVE  /\ OwnFor(t, at) \in Seq(Entry)
           /\ Range(OwnFor(t, at)) = {e \in Range(t.own) : e.to \in at}
           /\ \A i, j \in DOMAIN OwnFor(t, at) : OwnFor(t, at)[i].to = OwnFor(t, at)[j].to => i = j
<1> DEFINE S == {e \in Range(t.own) : e.to \in at}
           r == Keep(t.own, S)
<1>1. t.own \in Seq(Entry) /\ Len(t.own) \in Nat /\ DOMAIN t.own = 1 .. Len(t.own)
  BY ProperParts
<1>2. r = OwnFor(t, at)
  BY DEF OwnFor
<1> HIDE DEF r
<1>3. r \in Seq(Entry) /\ Range(r) = Range(t.own) \cap S
  <2> HIDE DEF S
  <2>. QED  BY <1>1, KeepProperties DEF r
<1>4. PICK pos : Picks(r, t.own, Len(t.own), pos)
  <2> HIDE DEF S
  <2>. QED  BY <1>1, KeepPicks DEF r
<1>5. ASSUME NEW i \in DOMAIN r, NEW j \in DOMAIN r, r[i].to = r[j].to PROVE i = j
  <2>1. /\ pos[i] \in DOMAIN t.own /\ pos[j] \in DOMAIN t.own
        /\ r[i] = t.own[pos[i]] /\ r[j] = t.own[pos[j]]
        /\ (i < j => pos[i] < pos[j]) /\ (j < i => pos[j] < pos[i])
    BY <1>1, <1>4 DEF Picks
  <2>2. pos[i] = pos[j] /\ pos[i] \in Nat
    BY <1>1, <1>5, <2>1 DEF Proper
  <2>3. i \in Nat /\ j \in Nat
    BY <1>3
  <2>. QED  BY <2>1, <2>2, <2>3
<1>. QED  BY <1>2, <1>3, <1>5

\* The sum of two targets has what each of them has, and for an address that both have
\* data for, the data of one of them.
LEMMA PlusProper ==
    ASSUME NEW s, NEW t, Proper(s), Proper(t)
    PROVE  /\ Proper(Plus(s, t))
           /\ Plus(s, t).at = s.at \cup t.at
           /\ Plus(s, t).data = Update(s.data, t.data)
           /\ Range(Plus(s, t).own) \subseteq Range(s.own) \cup Range(t.own)
<1> DEFINE front == [i \in DOMAIN s.own |->
                        IF s.own[i].to \in HasOwn(t) THEN t.own[OwnOf(t, s.own[i].to)] ELSE s.own[i]]
           back  == OwnFor(t, HasOwn(t) \ HasOwn(s))
           own   == front \o back
<1>1. /\ s.own \in Seq(Entry) /\ Len(s.own) \in Nat /\ DOMAIN s.own = 1 .. Len(s.own)
      /\ \A i \in DOMAIN s.own : s.own[i] \in Entry
      /\ s.at \in SUBSET Addresses /\ s.data \in Data
  BY ProperParts
<1>2. /\ t.own \in Seq(Entry) /\ DOMAIN t.own = 1 .. Len(t.own)
      /\ \A i \in DOMAIN t.own : t.own[i] \in Entry
      /\ t.at \in SUBSET Addresses /\ t.data \in Data
  BY ProperParts
<1>3. ASSUME NEW a \in HasOwn(t) PROVE OwnOf(t, a) \in DOMAIN t.own /\ t.own[OwnOf(t, a)].to = a
  <2>1. \E i \in DOMAIN t.own : t.own[i].to = a
    BY DEF HasOwn
  <2>. QED  BY <2>1 DEF OwnOf
<1>4. ASSUME NEW i \in DOMAIN s.own
      PROVE  /\ front[i] \in Entry /\ front[i].to = s.own[i].to
             /\ front[i] \in Range(s.own) \cup Range(t.own)
  <2>1. CASE s.own[i].to \in HasOwn(t)
    <3>1. front[i] = t.own[OwnOf(t, s.own[i].to)]
      BY <2>1
    <3> HIDE DEF front
    <3>. QED  BY <1>2, <1>3, <2>1, <3>1 DEF Range
  <2>2. CASE s.own[i].to \notin HasOwn(t)
    <3>1. front[i] = s.own[i]
      BY <2>2
    <3> HIDE DEF front
    <3>. QED  BY <1>1, <3>1 DEF Range
  <2>. QED  BY <2>1, <2>2
<1>5. front \in Seq(Entry) /\ Len(front) = Len(s.own) /\ DOMAIN front = DOMAIN s.own
  <2>1. front \in [1 .. Len(s.own) -> Entry]
    BY <1>1, <1>4
  <2>2. front \in Seq(Entry) /\ Len(front) = Len(s.own) /\ DOMAIN front = 1 .. Len(s.own)
    <3> HIDE DEF front
    <3>. QED  BY <1>1, <2>1
  <2>. QED  BY <1>1, <2>2
<1> HIDE DEF front
<1>6. /\ back \in Seq(Entry)
      /\ Range(back) = {e \in Range(t.own) : e.to \in HasOwn(t) \ HasOwn(s)}
      /\ \A i, j \in DOMAIN back : back[i].to = back[j].to => i = j
  BY OwnForProper
<1> HIDE DEF back
<1>7. /\ own \in Seq(Entry) /\ Range(own) = Range(front) \cup Range(back)
      /\ Len(own) = Len(front) + Len(back) /\ Len(front) \in Nat /\ Len(back) \in Nat
      /\ DOMAIN own = 1 .. Len(own)
      /\ DOMAIN front = 1 .. Len(front) /\ DOMAIN back = 1 .. Len(back)
      /\ \A i \in 1 .. Len(own) : own[i] = IF i <= Len(front) THEN front[i] ELSE back[i - Len(front)]
  <2>1. own \in Seq(Entry) /\ Range(own) = Range(front) \cup Range(back)
    BY <1>5, <1>6, ConcatRange
  <2>2. /\ Len(own) = Len(front) + Len(back)
        /\ \A i \in 1 .. Len(own) :
              own[i] = IF i <= Len(front) THEN front[i] ELSE back[i - Len(front)]
    <3>1. front \in Seq(Entry) /\ back \in Seq(Entry)
      BY <1>5, <1>6
    <3>. QED  BY <3>1
  <2> HIDE DEF own
  <2>3. \A u \in Seq(Entry) : Len(u) \in Nat /\ DOMAIN u = 1 .. Len(u)
    OBVIOUS
  <2>. QED  BY <1>5, <1>6, <2>1, <2>2, <2>3
<1> HIDE DEF own
<1>8. Range(own) \subseteq Range(s.own) \cup Range(t.own)
  <2>1. Range(front) \subseteq Range(s.own) \cup Range(t.own)
    BY <1>4, <1>5 DEF Range
  <2>2. Range(back) \subseteq Range(t.own)
    BY <1>6
  <2>. QED  BY <1>7, <2>1, <2>2
<1>9. ASSUME NEW i \in DOMAIN front, NEW j \in DOMAIN back PROVE front[i].to # back[j].to
  <2>1. front[i].to \in HasOwn(s)
    BY <1>4, <1>5 DEF HasOwn
  <2>2. back[j].to \notin HasOwn(s)
    BY <1>6 DEF Range
  <2>. QED  BY <2>1, <2>2
<1>10. \A i, j \in DOMAIN front : front[i].to = front[j].to => i = j
  BY <1>4, <1>5 DEF Proper
<1>11. ASSUME NEW i \in DOMAIN own, NEW j \in DOMAIN own, own[i].to = own[j].to PROVE i = j
  <2>1. \A k \in DOMAIN own : \/ k \in DOMAIN front /\ own[k] = front[k]
                              \/ k - Len(front) \in DOMAIN back /\ own[k] = back[k - Len(front)]
    BY <1>7
  <2>2. i \in Nat /\ j \in Nat
    BY <1>7
  <2>. QED  BY <1>6, <1>7, <1>9, <1>10, <1>11, <2>1, <2>2
<1>12. Update(s.data, t.data) \in Data
  BY <1>1, <1>2, UpdateGives
<1>13. Plus(s, t) = [at |-> s.at \cup t.at, data |-> Update(s.data, t.data), own |-> own]
  BY DEF Plus, own, front, back
<1>14. Plus(s, t) \in Target
  BY <1>1, <1>2, <1>7, <1>12, <1>13 DEF Target, Entry
<1>. QED  BY <1>8, <1>11, <1>13, <1>14 DEF Proper

\* A target with no data of its own.
LEMMA DataTargetProper ==
    ASSUME NEW at \in SUBSET Addresses, NEW data \in Data
    PROVE  /\ Proper(DataTarget(at, data))
           /\ DataTarget(at, data).at = at /\ DataTarget(at, data).data = data
           /\ DataTarget(at, data).own = <<>> /\ Range(DataTarget(at, data).own) = {}
<1>1. <<>> \in Seq(Entry) /\ DOMAIN <<>> = {}
  BY EmptySeq
<1>. QED  BY <1>1 DEF DataTarget, Proper, Target, Entry, Range

\* A target whose data is all its own.
LEMMA OwnTargetProper ==
    ASSUME NEW addresses \in Seq(Addresses), IsInjective(addresses), NEW data \in Data
    PROVE  /\ Proper(OwnTarget(addresses, data))
           /\ OwnTarget(addresses, data).at = Range(addresses)
           /\ OwnTarget(addresses, data).data = NoData
<1> DEFINE own == IF data = NoData THEN <<>>
                  ELSE [i \in DOMAIN addresses |-> [to |-> addresses[i], data |-> data]]
<1>1. Len(addresses) \in Nat /\ DOMAIN addresses = 1 .. Len(addresses)
      /\ \A i \in DOMAIN addresses : addresses[i] \in Addresses
  OBVIOUS
<1>2. OwnTarget(addresses, data) = [at |-> Range(addresses), data |-> NoData, own |-> own]
  BY DEF OwnTarget, PlainTarget, DataTarget
<1>3. own \in Seq(Entry) /\ \A i, j \in DOMAIN own : own[i].to = own[j].to => i = j
  <2>1. CASE data = NoData
    BY <2>1, EmptySeq
  <2>2. CASE data # NoData
    <3>1. own = [i \in 1 .. Len(addresses) |-> [to |-> addresses[i], data |-> data]]
      BY <1>1, <2>2
    <3>2. own \in [1 .. Len(addresses) -> Entry]
      BY <1>1, <3>1 DEF Entry
    <3>3. own \in Seq(Entry)
      BY <1>1, <3>2
    <3>. QED  BY <1>1, <3>1, <3>3 DEF IsInjective
  <2>. QED  BY <2>1, <2>2
<1> HIDE DEF own
<1>4. Range(addresses) \in SUBSET Addresses
  BY <1>1 DEF Range
<1>. QED  BY <1>2, <1>3, <1>4, NoDataIsData DEF Proper, Target, Entry


-----------------------------------------------------------------------------
(* What is known of a target while it is computed for a delivery.          *)

\* The entries people have for their personal targets of a delivery, and the data that may
\* go with any address.
PersonalOwn(d) == UNION {Range(RecipientTarget(p, d).own) : p \in People}
Shared(d) == {Conf[d].data, call.scenario[d].data} \cup {Recipient(p).data : p \in People}

\* Data of its own is somebody's, and all of the rest is shared.
Known(t, d) ==
    /\ Proper(t)
    /\ Range(t.own) \subseteq PersonalOwn(d)
    /\ \A k \in DOMAIN t.data : \E data \in Shared(d) : Gives(data, k, t.data[k])

\* A target that only has addresses is known.
LEMMA PlainKnown ==
    ASSUME NEW d, NEW at \in SUBSET Addresses
    PROVE  Known(PlainTarget(at), d) /\ PlainTarget(at).at = at
<1>1. /\ Proper(PlainTarget(at)) /\ PlainTarget(at).data = NoData
      /\ Range(PlainTarget(at).own) = {} /\ PlainTarget(at).at = at
  BY NoDataIsData, DataTargetProper DEF PlainTarget
<1>2. DOMAIN NoData = {}
  BY DEF NoData
<1>. QED  BY <1>1, <1>2 DEF Known

\* So is one with data that is shared.
LEMMA DataKnown ==
    ASSUME NEW d, NEW at \in SUBSET Addresses, NEW data \in Data \cap Shared(d)
    PROVE  Known(DataTarget(at, data), d) /\ DataTarget(at, data).at = at
<1>1. /\ Proper(DataTarget(at, data)) /\ DataTarget(at, data).data = data
      /\ Range(DataTarget(at, data).own) = {} /\ DataTarget(at, data).at = at
  BY DataTargetProper
<1>2. \A k \in DOMAIN data : Gives(data, k, data[k])
  BY DEF Gives
<1>. QED  BY <1>1, <1>2 DEF Known

\* The sum of known targets is known.
LEMMA PlusKnown ==
    ASSUME NEW d, NEW s, NEW t, Known(s, d), Known(t, d)
    PROVE  Known(Plus(s, t), d) /\ Plus(s, t).at = s.at \cup t.at
<1>1. Proper(s) /\ Proper(t) /\ s.data \in Data /\ t.data \in Data
  BY ProperParts DEF Known
<1>2. /\ Proper(Plus(s, t)) /\ Plus(s, t).at = s.at \cup t.at
      /\ Plus(s, t).data = Update(s.data, t.data)
      /\ Range(Plus(s, t).own) \subseteq Range(s.own) \cup Range(t.own)
  BY <1>1, PlusProper
<1>3. Range(Plus(s, t).own) \subseteq PersonalOwn(d)
  BY <1>2 DEF Known
<1>4. ASSUME NEW k \in DOMAIN Update(s.data, t.data)
      PROVE  \E data \in Shared(d) : Gives(data, k, Update(s.data, t.data)[k])
  <2>1. \/ Gives(s.data, k, Update(s.data, t.data)[k])
        \/ Gives(t.data, k, Update(s.data, t.data)[k])
    BY <1>1, UpdateGives
  <2>. QED  BY <2>1 DEF Known, Gives
<1>. QED  BY <1>2, <1>3, <1>4 DEF Known

\* So is a known target with other addresses.
LEMMA ReplacedKnown ==
    ASSUME NEW d, NEW t, Known(t, d), NEW at \in SUBSET Addresses
    PROVE  /\ Known([t EXCEPT !.at = at], d)
           /\ [t EXCEPT !.at = at].at = at
<1> DEFINE u == [t EXCEPT !.at = at]
<1>1. t = [at |-> t.at, data |-> t.data, own |-> t.own] /\ t \in Target
  BY ProperParts DEF Known, Proper
<1>2. u = [at |-> at, data |-> t.data, own |-> t.own]
  BY <1>1
<1>3. u \in Target /\ u.at = at /\ u.data = t.data /\ u.own = t.own
  BY <1>1, <1>2 DEF Target
<1> HIDE DEF u
<1>4. Known(u, d)
  BY <1>3 DEF Known, Proper
<1>. QED  BY <1>3, <1>4 DEF u

\* A person's target for a delivery has all that the person has, and is known.
LEMMA RecipientKnown ==
    ASSUME NEW d, NEW p \in People
    PROVE  /\ Known(RecipientTarget(p, d), d)
           /\ BaseTarget(p).at \subseteq RecipientTarget(p, d).at
<1> DEFINE at == FromMapping(Recipient(p).target) \cup Recipient(p).contacts
                 \cup {<<"person_id", p>>} \cup {<<"mobile_app_id", m>> : m \in EnabledDevices(p)}
           base == BaseTarget(p)
           own == OwnTarget(Personal[p][d].at, Personal[p][d].data)
<1>1. /\ People \subseteq Names
      /\ "person_id" \in Indirect /\ "mobile_app_id" \in Range(Direct)
  BY PeopleAssumption, TargetsAssumption DEF Indirect, Direct, AutoCategories, Range
<1>2. EnabledDevices(p) \subseteq Names
  BY PeopleAssumption, RecipientsAssumption DEF EnabledDevices
<1>3. at \in SUBSET Addresses
  BY <1>1, <1>2, RecipientsAssumption DEF Addresses, FromMapping
<1>4. Recipient(p).data \in Data \cap Shared(d)
  BY RecipientsAssumption DEF Shared
<1>5. Known(base, d)
  <2> HIDE DEF at
  <2>1. base = DataTarget(at, Recipient(p).data)
    BY DEF BaseTarget, at
  <2>. QED  BY <1>3, <1>4, <2>1, DataKnown
<1>6. CASE d \in DOMAIN Personal[p] /\ Personal[p][d].enabled
  <2>1. RecipientTarget(p, d) = Plus(base, own)
    BY <1>6 DEF RecipientTarget
  <2>2. Proper(own) /\ own.data = NoData
    BY <1>6, PeopleAssumption, OwnTargetProper
  <2>3. Proper(base) /\ base.data \in Data
    BY <1>5, ProperParts DEF Known
  <2> HIDE DEF base, own
  <2>4. /\ Proper(Plus(base, own)) /\ Plus(base, own).at = base.at \cup own.at
        /\ Plus(base, own).data = Update(base.data, NoData)
    BY <2>2, <2>3, PlusProper
  <2>5. ASSUME NEW k \in DOMAIN Update(base.data, NoData)
        PROVE  \E data \in Shared(d) : Gives(data, k, Update(base.data, NoData)[k])
    <3>1. \/ Gives(base.data, k, Update(base.data, NoData)[k])
          \/ Gives(NoData, k, Update(base.data, NoData)[k])
      BY <2>3, NoDataIsData, UpdateGives
    <3>2. ~ Gives(NoData, k, Update(base.data, NoData)[k])
      BY DEF Gives, NoData
    <3>. QED  BY <1>5, <3>1, <3>2 DEF Known, Gives
  <2>6. Range(Plus(base, own).own) \subseteq PersonalOwn(d)
    BY <2>1 DEF PersonalOwn
  <2>. QED  BY <2>1, <2>4, <2>5, <2>6 DEF Known, base
<1>7. CASE ~ (d \in DOMAIN Personal[p] /\ Personal[p][d].enabled)
  <2>1. RecipientTarget(p, d) = base
    BY <1>7 DEF RecipientTarget
  <2>. QED  BY <1>5, <2>1
<1>. QED  BY <1>6, <1>7

\* One person after the other is added to what there is.
AddNext(t, people, d, sum, i) ==
    IF i = 0 THEN t ELSE Plus(sum[i - 1], RecipientTarget(people[i], d))
IsPlusAll(t, people, d, sum) == sum = [i \in 0 .. Len(people) |-> AddNext(t, people, d, sum, i)]

LEMMA PlusAllExists ==
    ASSUME NEW d, NEW t, Known(t, d), NEW people \in Seq(People)
    PROVE  \E sum : /\ \A i \in 0 .. Len(people) : Known(sum[i], d)
                    /\ IsPlusAll(t, people, d, sum)
<1> DEFINE X == {u \in Target : Known(u, d)}
           N == Len(people)
           step == [i \in 1 .. N |-> [u \in X |-> Plus(u, RecipientTarget(people[i], d))]]
<1>1. N \in Nat /\ \A i \in 1 .. N : people[i] \in People
  OBVIOUS
<1>2. t \in X
  BY DEF Known, Proper
<1>3. ASSUME NEW i \in 1 .. N, NEW u \in X PROVE Plus(u, RecipientTarget(people[i], d)) \in X
  <2>1. Known(Plus(u, RecipientTarget(people[i], d)), d)
    BY <1>1, RecipientKnown, PlusKnown
  <2>. QED  BY <2>1 DEF Known, Proper
<1>4. step \in [1 .. N -> [X -> X]]
  BY <1>3
<1>5. \A i \in 1 .. N, u \in X : step[i][u] = Plus(u, RecipientTarget(people[i], d))
  OBVIOUS
<1>6. \A u \in X : Known(u, d)
  OBVIOUS
<1> HIDE DEF X, step
<1>7. PICK f \in [0 .. N -> X] : IsRun(f, N, t, step)
  <2> HIDE DEF N
  <2>. QED  BY <1>1, <1>2, <1>4, RecursionExists
<1> DEFINE sum == [i \in 0 .. N |-> f[i]]
<1>8. ASSUME NEW i \in 0 .. N PROVE sum[i] = AddNext(t, people, d, sum, i)
  <2>1. CASE i = 0
    BY <1>1, <1>7, <2>1 DEF AddNext, IsRun
  <2>2. CASE i # 0
    <3>1. i \in 1 .. N /\ i - 1 \in 0 .. N
      BY <1>1, <2>2
    <3>2. sum[i] = step[i][f[i - 1]] /\ sum[i - 1] = f[i - 1] /\ f[i - 1] \in X
      BY <1>7, <3>1 DEF IsRun
    <3> HIDE DEF sum
    <3>. QED  BY <1>5, <2>2, <3>1, <3>2 DEF AddNext
  <2>. QED  BY <2>1, <2>2
<1>9. sum = [i \in 0 .. N |-> AddNext(t, people, d, sum, i)]
  BY <1>8
<1>10. \A i \in 0 .. N : Known(sum[i], d)
  BY <1>6, <1>7
<1>. QED  BY <1>9, <1>10 DEF IsPlusAll

\* Adding everyone of a list adds what each of them has.
LEMMA PlusAllKnown ==
    ASSUME NEW d, NEW t, Known(t, d), NEW people \in Seq(People)
    PROVE  /\ Known(PlusAll(t, people, d), d)
           /\ PlusAll(t, people, d).at
                = t.at \cup UNION {RecipientTarget(p, d).at : p \in Range(people)}
<1> DEFINE sum == CHOOSE s : IsPlusAll(t, people, d, s)
           Of(n) == t.at \cup UNION {RecipientTarget(people[i], d).at : i \in 1 .. n}
           G == {n \in Nat : n <= Len(people) => Known(sum[n], d) /\ sum[n].at = Of(n)}
<1>0. Len(people) \in Nat /\ DOMAIN people = 1 .. Len(people)
      /\ \A i \in 1 .. Len(people) : people[i] \in People
  OBVIOUS
<1>1. PlusAll(t, people, d) = sum[Len(people)]
  BY DEF PlusAll, IsPlusAll, AddNext
<1>2. IsPlusAll(t, people, d, sum)
  BY PlusAllExists
<1> HIDE DEF sum
<1>3. \A i \in 0 .. Len(people) : sum[i] = AddNext(t, people, d, sum, i)
  BY <1>2 DEF IsPlusAll
<1>4. 0 \in G
  <2>1. sum[0] = t
    BY <1>0, <1>3 DEF AddNext
  <2>. QED  BY <2>1
<1>5. ASSUME NEW n \in 1 .. Len(people), n - 1 \in G PROVE n \in G
  <2>1. n \in 0 .. Len(people) /\ n # 0 /\ n - 1 \in Nat /\ n - 1 <= Len(people) /\ n \in Nat
    BY <1>0
  <2>2. Known(sum[n - 1], d) /\ sum[n - 1].at = Of(n - 1)
    BY <1>5, <2>1
  <2>3. sum[n] = Plus(sum[n - 1], RecipientTarget(people[n], d))
    BY <1>3, <2>1 DEF AddNext
  <2>4. Known(RecipientTarget(people[n], d), d)
    BY <1>0, RecipientKnown
  <2>5. Known(sum[n], d) /\ sum[n].at = Of(n - 1) \cup RecipientTarget(people[n], d).at
    BY <2>2, <2>3, <2>4, PlusKnown
  <2>6. 1 .. n = (1 .. (n - 1)) \cup {n}
    BY <2>1
  <2>7. Of(n) = Of(n - 1) \cup RecipientTarget(people[n], d).at
    BY <2>6
  <2> HIDE DEF Of
  <2>. QED  BY <2>1, <2>5, <2>7
<1>6. Len(people) \in G
  <2> HIDE DEF G
  <2>1. \A n \in 0 .. Len(people) : n \in G
    BY <1>0, <1>4, <1>5, UptoInducts
  <2>. QED  BY <1>0, <2>1
<1>7. UNION {RecipientTarget(people[i], d).at : i \in 1 .. Len(people)}
        = UNION {RecipientTarget(p, d).at : p \in Range(people)}
  BY <1>0 DEF Range
<1>8. Known(sum[Len(people)], d) /\ sum[Len(people)].at = Of(Len(people))
  <2>1. Len(people) <= Len(people)
    BY <1>0
  <2>. QED  BY <1>6, <2>1
<1>. QED  BY <1>1, <1>7, <1>8

Named(t) == {p \in Enabled : <<"person_id", p>> \in t.at}

\* People are resolved to all they have for the delivery, and so to what they have.
LEMMA ResolveKnown ==
    ASSUME NEW d, NEW t, Known(t, d)
    PROVE  /\ Known(ResolveIndirect(t, d), d)
           /\ t.at \subseteq ResolveIndirect(t, d).at
           /\ \A p \in Named(t) : BaseTarget(p).at \subseteq ResolveIndirect(t, d).at
<1> DEFINE special == {p \in Named(t) : RecipientTarget(p, d).own # <<>>}
           others  == Named(t) \ special
           order   == SetToSeq(others) \o SetToSeq(special)
<1>1. Named(t) \subseteq People
  BY DEF Named, Enabled
<1>2. IsFiniteSet(special) /\ IsFiniteSet(others)
  <2>1. IsFiniteSet(People)
    BY PeopleAssumption
  <2>. QED  BY <1>1, <2>1, FS_Subset
<1>3. ResolveIndirect(t, d) = PlusAll(t, order, d)
  BY DEF ResolveIndirect, Named
<1>4. special \subseteq People /\ others \subseteq People /\ special \cup others = Named(t)
  BY <1>1
<1>5. order \in Seq(People) /\ Range(order) = Named(t)
  <2> HIDE DEF special, others
  <2>1. /\ SetToSeq(others) \in Seq(others) /\ Range(SetToSeq(others)) = others
        /\ SetToSeq(special) \in Seq(special) /\ Range(SetToSeq(special)) = special
    BY <1>2, SequenceOfSet
  <2>2. SetToSeq(others) \in Seq(People) /\ SetToSeq(special) \in Seq(People)
    BY <1>4, <2>1
  <2>3. /\ order \in Seq(People)
        /\ Range(order) = Range(SetToSeq(others)) \cup Range(SetToSeq(special))
    BY <2>2, ConcatRange
  <2>. QED  BY <1>4, <2>1, <2>3
<1> HIDE DEF order
<1>6. /\ Known(PlusAll(t, order, d), d)
      /\ PlusAll(t, order, d).at
            = t.at \cup UNION {RecipientTarget(p, d).at : p \in Named(t)}
  BY <1>5, PlusAllKnown
<1>7. \A p \in Named(t) : BaseTarget(p).at \subseteq RecipientTarget(p, d).at
  BY <1>1, RecipientKnown
<1>. QED  BY <1>3, <1>6, <1>7

-----------------------------------------------------------------------------
(* The target of a delivery.                                               *)

Automatic == {"entity_id", "device_id", "email", "phone", "mobile_app_id", "person_id"}

\* The categories that names of a list may go to.
LEMMA CategoriesTyped ==
    AutoCategories \in Seq(Automatic) /\ Range(AutoCategories) \subseteq Range(Direct) \cup Indirect
<1>1. Direct \in Seq(Automatic)
  <2>1. Len(Direct) = 5 /\ DOMAIN Direct = 1 .. 5
    BY DEF Direct
  <2>2. \A i \in 1 .. 5 : Direct[i] \in Automatic
    BY DEF Direct, Automatic
  <2>. QED  BY <2>1, <2>2 DEF Direct, Automatic
<1>2. <<"person_id">> \in Seq(Automatic) /\ Range(<<"person_id">>) = {"person_id"}
  BY DEF Automatic, Range
<1>3. /\ AutoCategories \in Seq(Automatic)
      /\ Range(AutoCategories) = Range(Direct) \cup Range(<<"person_id">>)
  BY <1>1, <1>2, ConcatRange DEF AutoCategories
<1>. QED  BY <1>2, <1>3 DEF Indirect

\* A name goes to one of the categories there are.
LEMMA ListedAddresses ==
    ASSUME NEW names \in SUBSET Names
    PROVE  FromList(names) \in SUBSET Addresses
<1>1. Range(AutoCategories) \subseteq Range(Direct) \cup Indirect
  BY CategoriesTyped
<1>2. ASSUME NEW n PROVE CategoryOf(n) \in Range(Direct) \cup Indirect \cup {UnknownCategory}
  <2> DEFINE accepting == {i \in DOMAIN AutoCategories : n \in Validates[AutoCategories[i]]}
             i == CHOOSE i \in accepting : \A j \in accepting : i <= j
  <2>1. CASE accepting = {}
    BY <2>1 DEF CategoryOf
  <2>2. CASE accepting # {}
    <3>1. AutoCategories \in Seq(Automatic)
      BY CategoriesTyped
    <3>2. accepting \subseteq Nat
      BY <3>1
    <3>3. \E j \in accepting : \A k \in accepting : j <= k
      <4> HIDE DEF accepting
      <4>1. PICK j \in accepting : \A k \in accepting : ~ (<<k, j>> \in OpToRel(<, Nat))
        BY <2>2, <3>2, NatLessThanWellFounded, WFMin
      <4>2. \A k \in accepting : ~ (k < j)
        BY <3>2, <4>1 DEF OpToRel
      <4>. QED  BY <3>2, <4>2
    <3>4. i \in accepting
      <4> HIDE DEF accepting
      <4>. QED  BY <3>3
    <3>5. CategoryOf(n) = AutoCategories[i]
      BY <2>2 DEF CategoryOf
    <3>6. AutoCategories[i] \in Range(AutoCategories)
      BY <3>4 DEF Range
    <3>. QED  BY <1>1, <3>5, <3>6
  <2>. QED  BY <2>1, <2>2
<1>. QED  BY <1>2 DEF FromList, Addresses

\* Where the computing starts is known.
LEMMA StartKnown ==
    ASSUME call \in Calls, NEW d \in Deliveries
    PROVE  Known(StartingTarget(d), d)
<1>0. /\ Conf[d].target \in SUBSET Addresses /\ Conf[d].data \in Data
      /\ call.target \in SUBSET Addresses /\ call.personal[d] \in SUBSET Names
  BY ConfAssumption, CallsAssumption
<1>1. CASE Conf[d].usage = "fixed" /\ Conf[d].target # {}
  <2>1. StartingTarget(d) = PlainTarget(Conf[d].target)
    BY <1>1 DEF StartingTarget, PlainTarget
  <2>. QED  BY <1>0, <2>1, PlainKnown
<1>2. CASE Conf[d].usage = "fixed" /\ Conf[d].target = {}
  <2>1. StartingTarget(d) = DataTarget({}, Conf[d].data)
    BY <1>2 DEF StartingTarget
  <2>2. Conf[d].data \in Data \cap Shared(d)
    BY <1>0 DEF Shared
  <2>. QED  BY <2>1, <2>2, DataKnown
<1>3. CASE Conf[d].usage # "fixed"
  <2> DEFINE present == {<<"person_id", p>> : p \in PresentFor(d) \cap call.recipients}
  <2>1. \E at \in {FromList(call.personal[d]), present, call.target} :
            StartingTarget(d) = PlainTarget(at)
    BY <1>3 DEF StartingTarget
  <2>2. present \in SUBSET Addresses
    <3>1. PresentFor(d) \subseteq People
      BY DEF PresentFor, Enabled
    <3>2. People \subseteq Names /\ "person_id" \in Indirect
      BY PeopleAssumption, TargetsAssumption DEF Indirect, AutoCategories, Direct, Range
    <3>. QED  BY <3>1, <3>2 DEF Addresses
  <2>3. FromList(call.personal[d]) \in SUBSET Addresses
    BY <1>0, ListedAddresses
  <2> HIDE DEF present
  <2>. QED  BY <1>0, <2>1, <2>2, <2>3, PlainKnown
<1>. QED  BY <1>1, <1>2, <1>3

\* What scenarios add is known.
LEMMA ScenarioKnown ==
    ASSUME call \in Calls, NEW d \in Deliveries
    PROVE  Known(ScenarioTarget(d), d)
<1>0. call.scenario[d].at \in SUBSET Addresses /\ call.scenario[d].data \in Data
  BY CallsAssumption
<1>1. CASE call.scenario[d].at = {}
  <2>1. ScenarioTarget(d) = PlainTarget({})
    BY <1>1 DEF ScenarioTarget, PlainTarget
  <2>. QED  BY <2>1, PlainKnown
<1>2. CASE call.scenario[d].at # {}
  <2>1. ScenarioTarget(d) = DataTarget(call.scenario[d].at, call.scenario[d].data)
    BY <1>2 DEF ScenarioTarget
  <2>2. call.scenario[d].data \in Data \cap Shared(d)
    BY <1>0 DEF Shared
  <2>. QED  BY <1>0, <2>1, <2>2, DataKnown
<1>. QED  BY <1>1, <1>2

Valid(a) == a[1] \in Range(AutoCategories) => a[2] \in Validates[a[1]]

\* A delivery chooses the addresses that are valid and that it takes.
LEMMA SelectedKnown ==
    ASSUME NEW d, NEW t, Known(t, d)
    PROVE  /\ Known(SelectTargets(d, t), d)
           /\ SelectTargets(d, t).at = {a \in t.at : Valid(a) /\ Passes(d, a)}
<1> DEFINE at == {a \in FromMapping(t.at) : Passes(d, a)}
<1>1. at = {a \in t.at : Valid(a) /\ Passes(d, a)}
  BY DEF FromMapping, Valid
<1>2. t.at \in SUBSET Addresses
  BY ProperParts DEF Known
<1>3. at \in SUBSET Addresses
  BY <1>1, <1>2
<1> DEFINE own == OwnFor(t, t.at)
           u == SelectTargets(d, t)
<1>4. u = [at |-> at, data |-> t.data, own |-> own]
  <2>1. t = [at |-> t.at, data |-> t.data, own |-> t.own]
    BY ProperParts DEF Known
  <2>2. u = [t EXCEPT !.at = at, !.own = own]
    BY DEF SelectTargets
  <2> HIDE DEF at, own, u
  <2>. QED  BY <2>1, <2>2
<1>5. /\ own \in Seq(Entry) /\ Range(own) \subseteq Range(t.own)
      /\ \A i, j \in DOMAIN own : own[i].to = own[j].to => i = j
  <2>1. Proper(t)
    BY DEF Known
  <2>. QED  BY <2>1, OwnForProper
<1> HIDE DEF at, own, u
<1>6. u.at = at /\ u.data = t.data /\ u.own = own
  BY <1>4
<1>7. Proper(u)
  <2>1. t.data \in Data
    BY ProperParts DEF Known
  <2>2. own \in Seq(Entry)
    BY <1>5
  <2>3. u \in Target
    BY <1>3, <1>4, <2>1, <2>2 DEF Target, Entry
  <2>. QED  BY <1>5, <1>6, <2>3 DEF Proper
<1>8. Known(u, d)
  BY <1>5, <1>6, <1>7 DEF Known
<1>. QED  BY <1>1, <1>6, <1>8 DEF u

\* A round leaves what the delivery takes of what was there, and of all the addresses of
\* the people who were there, but for what is snoozed.
LEMMA NarrowKnown ==
    ASSUME call \in Calls, NEW d \in Deliveries, NEW t, Known(t, d)
    PROVE  /\ Known(Narrow(t, d), d)
           /\ \A a \in Narrow(t, d).at : Passes(d, a)
           /\ \A a \in t.at \ snoozed : Valid(a) /\ Passes(d, a) => a \in Narrow(t, d).at
           /\ \A p \in Enabled : <<"person_id", p>> \in t.at \ snoozed =>
                \A a \in BaseTarget(p).at : Valid(a) /\ Passes(d, a) => a \in Narrow(t, d).at
<1> DEFINE awake == WithoutSnoozed(t)
           resolved == ResolveIndirect(awake, d)
           all == Plus(resolved, ScenarioTarget(d))
<1>1. Known(awake, d) /\ awake.at = t.at \ snoozed
  <2>1. t.at \in SUBSET Addresses /\ t = [at |-> t.at, data |-> t.data, own |-> t.own]
    BY ProperParts DEF Known
  <2>2. awake = [t EXCEPT !.at = t.at \ snoozed]
    BY <2>1 DEF WithoutSnoozed
  <2>3. t.at \ snoozed \in SUBSET Addresses
    BY <2>1
  <2>. QED  BY <2>2, <2>3, ReplacedKnown
<1> HIDE DEF awake
<1>2. /\ Known(resolved, d) /\ awake.at \subseteq resolved.at
      /\ \A p \in Named(awake) : BaseTarget(p).at \subseteq resolved.at
  BY <1>1, ResolveKnown
<1> HIDE DEF resolved
<1>3. Known(all, d) /\ all.at = resolved.at \cup ScenarioTarget(d).at
  <2>1. Known(ScenarioTarget(d), d)
    BY ScenarioKnown
  <2>2. Known(resolved, d)
    BY <1>2
  <2>. QED  BY <2>1, <2>2, PlusKnown
<1> HIDE DEF all
<1>4. Narrow(t, d) = SelectTargets(d, all)
  BY DEF Narrow, all, resolved, awake
<1>5. /\ Known(SelectTargets(d, all), d)
      /\ SelectTargets(d, all).at = {a \in all.at : Valid(a) /\ Passes(d, a)}
  BY <1>3, SelectedKnown
<1>6. \A p \in Enabled : <<"person_id", p>> \in t.at \ snoozed => p \in Named(awake)
  BY <1>1 DEF Named
<1>. QED  BY <1>1, <1>2, <1>3, <1>4, <1>5, <1>6

\* The delivery's own target adds to what there is, and always if it is always merged.
LEMMA MergedKnown ==
    ASSUME NEW d \in Deliveries, NEW first, Known(first, d)
    PROVE  /\ Known(Merged(d, first), d)
           /\ first.at \subseteq Merged(d, first).at
           /\ Conf[d].usage = "merge_always" => Merged(d, first).at = first.at \cup Conf[d].target
<1> DEFINE default == PlainTarget(Conf[d].target)
<1>1. Known(default, d) /\ default.at = Conf[d].target
  BY ConfAssumption, PlainKnown
<1> HIDE DEF default
<1>2. Known(Plus(first, default), d) /\ Plus(first, default).at = first.at \cup default.at
  BY <1>1, PlusKnown
<1>3. Merged(d, first) = IF UsesDefault(d, first) THEN Plus(first, default) ELSE first
  BY DEF Merged, default
<1>4. Conf[d].usage = "merge_always" => UsesDefault(d, first)
  BY DEF UsesDefault
<1>. QED  BY <1>1, <1>2, <1>3, <1>4

\* Both rounds leave what the delivery takes.
LEMMA RoundsKnown ==
    ASSUME call \in Calls, NEW d \in Deliveries, NEW first, Known(first, d),
           \A a \in first.at : Passes(d, a)
    PROVE  Known(BothRounds(d, first), d) /\ \A a \in BothRounds(d, first).at : Passes(d, a)
<1> DEFINE merged == Merged(d, first)
<1>1. Known(merged, d)
  BY MergedKnown
<1> HIDE DEF merged
<1>2. BothRounds(d, first) = IF merged.at = first.at THEN merged ELSE Narrow(merged, d)
  BY DEF BothRounds, SecondRound, merged
<1>3. CASE merged.at = first.at
  BY <1>1, <1>2, <1>3
<1>4. CASE merged.at # first.at
  BY <1>1, <1>2, <1>4, NarrowKnown
<1>. QED  BY <1>3, <1>4

\* So does an override.
LEMMA ComputedKnown ==
    ASSUME call \in Calls, NEW d \in Deliveries
    PROVE  Known(ComputedTarget(d), d) /\ \A a \in ComputedTarget(d).at : Passes(d, a)
<1> DEFINE first == Narrow(StartingTarget(d), d)
           both == BothRounds(d, first)
           at == UNION {call.overrides[k].at : k \in KeysFor(d)}
<1>1. Known(first, d) /\ \A a \in first.at : Passes(d, a)
  BY StartKnown, NarrowKnown
<1> HIDE DEF first
<1>2. Known(both, d) /\ \A a \in both.at : Passes(d, a)
  BY <1>1, RoundsKnown
<1> HIDE DEF both
<1>3. ComputedTarget(d) =
        IF at # {} THEN SelectTargets(d, ResolveIndirect(PlainTarget(at), d)) ELSE both
  BY DEF ComputedTarget, Overriding, both, first
<1>4. at \in SUBSET Addresses
  <2>1. KeysFor(d) \subseteq DOMAIN call.overrides
    BY DEF KeysFor
  <2>. QED  BY <2>1, CallsAssumption
<1> HIDE DEF at
<1>5. Known(ResolveIndirect(PlainTarget(at), d), d)
  BY <1>4, PlainKnown, ResolveKnown
<1>6. CASE at # {}
  BY <1>3, <1>5, <1>6, SelectedKnown
<1>7. CASE at = {}
  BY <1>2, <1>3, <1>7
<1>. QED  BY <1>6, <1>7

-----------------------------------------------------------------------------
(* The parts of a target.                                                  *)

\* What is collected in one run has the same data.
LEMMA RunsAlike ==
    ASSUME NEW own \in Seq(Entry), NEW i \in Begins(own), NEW j \in Run(own, i)
    PROVE  own[j].data = own[i].data
<1> DEFINE G == {n \in Nat : n \in i .. j => own[n].data = own[i].data}
<1>1. /\ i \in 1 .. Len(own) /\ j \in 1 .. Len(own) /\ Len(own) \in Nat /\ i <= j
      /\ DOMAIN own = 1 .. Len(own)
      /\ \A k \in Begins(own) : k <= j => k <= i
  BY DEF Begins, Run
<1>2. 0 \in G
  BY <1>1
<1>3. ASSUME NEW n \in Nat, n \in G PROVE n + 1 \in G
  <2>1. SUFFICES ASSUME n + 1 \in i .. j PROVE own[n + 1].data = own[i].data
    OBVIOUS
  <2>2. CASE n + 1 = i
    BY <2>2
  <2>3. CASE n + 1 # i
    <3>1. n \in i .. j /\ n + 1 \in DOMAIN own /\ n + 1 # 1 /\ ~ (n + 1 <= i) /\ n + 1 <= j
      BY <1>1, <2>1, <2>3
    <3>2. n + 1 \notin Begins(own)
      BY <1>1, <3>1
    <3>3. own[n + 1].data = own[(n + 1) - 1].data /\ (n + 1) - 1 = n
      BY <3>1, <3>2 DEF Begins
    <3>4. own[n].data = own[i].data
      BY <1>3, <3>1
    <3>. QED  BY <3>3, <3>4
  <2>. QED  BY <2>2, <2>3
<1>4. Nat \subseteq G
  <2> HIDE DEF G
  <2>. QED  BY <1>2, <1>3, NatInducts
<1>. QED  BY <1>1, <1>4

\* Runs that begin differently have nothing in common.
LEMMA RunsDisjoint ==
    ASSUME NEW own \in Seq(Entry), NEW i \in Begins(own), NEW k \in Begins(own), i # k
    PROVE  Run(own, i) \cap Run(own, k) = {}
<1>1. i \in Nat /\ k \in Nat
  BY DEF Begins
<1>2. SUFFICES ASSUME NEW j \in Run(own, i), j \in Run(own, k) PROVE FALSE
  OBVIOUS
<1>3. i <= j /\ k <= j /\ (k <= j => k <= i) /\ (i <= j => i <= k)
  BY <1>2 DEF Run
<1>. QED  BY <1>1, <1>3

\* Each of the targets made of what has data of its own begins somewhere else.
LEMMA RunTargetsBegin ==
    ASSUME NEW own \in Seq(Entry)
    PROVE  \E begin :
            /\ RunTargets(own) \in Seq(Range(RunTargets(own)))
            /\ \A k \in DOMAIN RunTargets(own) :
                begin[k] \in Begins(own) /\ RunTargets(own)[k] = RunTarget(own, begin[k])
            /\ \A j, k \in DOMAIN RunTargets(own) : j # k => begin[j] # begin[k]
<1> DEFINE s == [i \in DOMAIN own |-> i]
           begin == Keep(s, Begins(own))
           targets == [k \in DOMAIN begin |-> RunTarget(own, begin[k])]
<1>1. DOMAIN own = 1 .. Len(own) /\ Len(own) \in Nat
  OBVIOUS
<1>2. s \in Seq(Nat) /\ Len(s) = Len(own) /\ \A i \in 1 .. Len(own) : s[i] = i
  <2>1. s = [i \in 1 .. Len(own) |-> i]
    BY <1>1
  <2> HIDE DEF s
  <2>. QED  BY <1>1, <2>1
<1> HIDE DEF s
<1>3. begin \in Seq(Nat) /\ Range(begin) = Range(s) \cap Begins(own)
  BY <1>2, KeepProperties
<1>4. PICK pos : Picks(begin, s, Len(s), pos)
  BY <1>2, KeepPicks
<1>5. RunTargets(own) = targets
  BY DEF RunTargets, begin, s
<1> HIDE DEF begin
<1>6. \A k \in DOMAIN begin : begin[k] \in Begins(own)
  BY <1>3 DEF Range
<1>7. DOMAIN begin = 1 .. Len(begin) /\ Len(begin) \in Nat
  BY <1>3
<1>8. ASSUME NEW j \in DOMAIN begin, NEW k \in DOMAIN begin, j # k PROVE begin[j] # begin[k]
  <2>1. /\ pos[j] \in 1 .. Len(own) /\ pos[k] \in 1 .. Len(own)
        /\ begin[j] = s[pos[j]] /\ begin[k] = s[pos[k]]
        /\ (j < k => pos[j] < pos[k]) /\ (k < j => pos[k] < pos[j])
    BY <1>2, <1>4 DEF Picks
  <2>2. begin[j] = pos[j] /\ begin[k] = pos[k]
    BY <1>2, <2>1
  <2>3. j < k \/ k < j
    BY <1>7, <1>8
  <2>. QED  BY <1>1, <2>1, <2>2, <2>3
<1>9. /\ DOMAIN targets = 1 .. Len(begin)
      /\ \A k \in DOMAIN begin : targets[k] = RunTarget(own, begin[k])
  BY <1>7
<1> HIDE DEF targets
<1>10. targets \in Seq(Range(targets))
  <2>1. targets = [k \in 1 .. Len(begin) |-> RunTarget(own, begin[k])]
    BY <1>7 DEF targets
  <2>2. \A k \in 1 .. Len(begin) : RunTarget(own, begin[k]) \in Range(targets)
    BY <1>7, <1>9 DEF Range
  <2>3. targets \in [1 .. Len(begin) -> Range(targets)]
    BY <2>1, <2>2
  <2>. QED  BY <1>7, <2>3
<1>. QED  BY <1>5, <1>6, <1>7, <1>8, <1>9, <1>10

\* Data that is not shared is what somebody has for each of the addresses.
Owned(t, d) ==
    \A k \in DOMAIN t.data :
        \/ \E data \in Shared(d) : Gives(data, k, t.data[k])
        \/ \A a \in t.at : \E e \in PersonalOwn(d) : e.to = a /\ Gives(e.data, k, t.data[k])

\* A target of addresses the delivery takes or somebody has for it, and their data.
Sound(t, d) ==
    /\ t.at \in SUBSET Addresses /\ t.data \in Data
    /\ \A a \in t.at : Passes(d, a) \/ \E e \in PersonalOwn(d) : e.to = a
    /\ Owned(t, d)

\* A target for what has the same data of its own is sound.
LEMMA RunTargetSound ==
    ASSUME NEW d, NEW t, Known(t, d), NEW i \in Begins(t.own)
    PROVE  /\ Sound(RunTarget(t.own, i), d)
           /\ RunTarget(t.own, i).at \subseteq {t.own[j].to : j \in Run(t.own, i)}
<1> DEFINE at == FromMapping({t.own[j].to : j \in Run(t.own, i)})
           u  == RunTarget(t.own, i)
<1>1. /\ t.own \in Seq(Entry) /\ Range(t.own) \subseteq PersonalOwn(d)
      /\ \A j \in DOMAIN t.own : t.own[j] \in Entry /\ t.own[j] \in PersonalOwn(d)
  <2>1. Proper(t) /\ Range(t.own) \subseteq PersonalOwn(d)
    BY DEF Known
  <2>. QED  BY <2>1, ProperParts DEF Range
<1>2. i \in DOMAIN t.own /\ Run(t.own, i) \subseteq DOMAIN t.own
  BY DEF Begins, Run
<1>3. at \subseteq {t.own[j].to : j \in Run(t.own, i)}
  BY DEF FromMapping
<1>4. u.at = at /\ u.data = t.own[i].data
  BY DEF RunTarget, DataTarget
<1>5. ASSUME NEW a \in at PROVE \E e \in PersonalOwn(d) : e.to = a /\ e.data = u.data
  <2>1. PICK j \in Run(t.own, i) : a = t.own[j].to
    BY <1>3
  <2>2. t.own[j].data = t.own[i].data
    BY <1>1, RunsAlike
  <2>. QED  BY <1>1, <1>2, <1>4, <2>1, <2>2
<1> HIDE DEF u
<1>6. at \in SUBSET Addresses /\ u.data \in Data
  BY <1>1, <1>2, <1>3, <1>4 DEF Entry
<1> HIDE DEF at
<1>7. Owned(u, d)
  BY <1>4, <1>5 DEF Owned, Gives
<1>8. Sound(u, d)
  BY <1>4, <1>5, <1>6, <1>7 DEF Sound
<1>. QED  BY <1>3, <1>4, <1>8 DEF u

Apart(targets) ==
    \A j, k \in DOMAIN targets : j # k => targets[j].at \cap targets[k].at = {}

\* A target taken apart: its parts are sound, have no address in common, and leave none out.
LEMMA SplitSound ==
    ASSUME NEW d, NEW t, Known(t, d), \A a \in t.at : Passes(d, a)
    PROVE  /\ \A i \in DOMAIN SplitByTargetData(t) : Sound(SplitByTargetData(t)[i], d)
           /\ Apart(SplitByTargetData(t))
           /\ \A a \in t.at : \E i \in DOMAIN SplitByTargetData(t) :
                a \in SplitByTargetData(t)[i].at
<1> DEFINE runs  == RunTargets(t.own)
           taken == UNION {runs[k].at : k \in DOMAIN runs}
           rest  == [t EXCEPT !.at = @ \ taken, !.own = <<>>]
           parts == SplitByTargetData(t)
<1>1. /\ Proper(t) /\ t.own \in Seq(Entry) /\ t.at \in SUBSET Addresses /\ t.data \in Data
      /\ t = [at |-> t.at, data |-> t.data, own |-> t.own]
  BY ProperParts DEF Known
<1>2. PICK begin :
        /\ runs \in Seq(Range(runs))
        /\ \A k \in DOMAIN runs : begin[k] \in Begins(t.own) /\ runs[k] = RunTarget(t.own, begin[k])
        /\ \A j, k \in DOMAIN runs : j # k => begin[j] # begin[k]
  BY <1>1, RunTargetsBegin
<1>3. parts = IF t.own = <<>> \/ rest.at # {} THEN Append(runs, rest) ELSE runs
  BY DEF SplitByTargetData, WithRest
<1>4. rest.at = t.at \ taken /\ rest.data = t.data
  BY <1>1
<1>5. \A k \in DOMAIN runs : runs[k].at \subseteq taken
  OBVIOUS
<1> HIDE DEF runs, rest, parts
<1>6. ASSUME NEW k \in DOMAIN runs
      PROVE  Sound(runs[k], d) /\ runs[k].at \subseteq {t.own[i].to : i \in Run(t.own, begin[k])}
  <2>1. begin[k] \in Begins(t.own) /\ runs[k] = RunTarget(t.own, begin[k])
    BY <1>2
  <2>. QED  BY <2>1, RunTargetSound
<1>7. ASSUME NEW j \in DOMAIN runs, NEW k \in DOMAIN runs, j # k
      PROVE  runs[j].at \cap runs[k].at = {}
  <2>1. Run(t.own, begin[j]) \cap Run(t.own, begin[k]) = {}
    BY <1>1, <1>2, <1>7, RunsDisjoint
  <2>2. SUFFICES ASSUME NEW a \in runs[j].at, a \in runs[k].at PROVE FALSE
    OBVIOUS
  <2>3. PICK i \in Run(t.own, begin[j]) : a = t.own[i].to
    BY <1>6, <2>2
  <2>4. PICK l \in Run(t.own, begin[k]) : a = t.own[l].to
    BY <1>6, <2>2
  <2>5. i \in DOMAIN t.own /\ l \in DOMAIN t.own
    BY DEF Run
  <2>6. i = l
    BY <1>1, <2>3, <2>4, <2>5 DEF Proper
  <2>. QED  BY <2>1, <2>3, <2>4, <2>6
<1>8. Sound(rest, d)
  <2>1. Owned(rest, d)
    BY <1>4 DEF Owned, Known
  <2>2. rest.at \in SUBSET Addresses
    BY <1>1, <1>4
  <2>3. \A a \in rest.at : Passes(d, a)
    BY <1>4
  <2>. QED  BY <1>1, <1>4, <2>1, <2>2, <2>3 DEF Sound
<1>9. CASE parts = runs
  <2>1. ASSUME NEW a \in t.at PROVE \E i \in DOMAIN runs : a \in runs[i].at
    <3>1. a \in taken
      <4>1. CASE t.own = <<>> \/ rest.at # {}
        <5>1. Len(Append(runs, rest)) = Len(runs) + 1 /\ Len(runs) \in Nat
          <6>1. runs \in Seq(Range(runs) \cup {rest}) /\ rest \in Range(runs) \cup {rest}
            BY <1>2
          <6>. QED  BY <6>1, AppendProperties
        <5>. QED  BY <1>3, <1>9, <4>1, <5>1
      <4>2. CASE ~ (t.own = <<>> \/ rest.at # {})
        BY <1>4, <4>2
      <4>. QED  BY <4>1, <4>2
    <3>. QED  BY <3>1
  <2>. QED  BY <1>6, <1>7, <1>9, <2>1 DEF parts, Apart
<1>10. CASE parts = Append(runs, rest)
  <2> DEFINE n == Len(runs) + 1
  <2>1. /\ DOMAIN runs = 1 .. Len(runs) /\ Len(runs) \in Nat
        /\ DOMAIN parts = 1 .. n /\ parts[n] = rest
        /\ \A i \in DOMAIN runs : parts[i] = runs[i]
    <3>1. runs \in Seq(Range(runs) \cup {rest}) /\ rest \in Range(runs) \cup {rest}
      BY <1>2
    <3>2. /\ Append(runs, rest) \in Seq(Range(runs) \cup {rest})
          /\ Len(Append(runs, rest)) = Len(runs) + 1
          /\ \A i \in 1 .. Len(runs) : Append(runs, rest)[i] = runs[i]
          /\ Append(runs, rest)[Len(runs) + 1] = rest
      BY <3>1, AppendProperties
    <3>. QED  BY <1>10, <3>1, <3>2
  <2>2. \A i \in DOMAIN parts : i = n \/ i \in DOMAIN runs
    BY <2>1
  <2>3. \A i \in DOMAIN runs : i \in DOMAIN parts
    BY <2>1
  <2>4. n \in DOMAIN parts
    BY <2>1
  <2> HIDE DEF n
  <2>5. \A i \in DOMAIN parts : Sound(parts[i], d)
    BY <1>6, <1>8, <2>1, <2>2
  <2>6. Apart(parts)
    BY <1>4, <1>5, <1>7, <2>1, <2>2 DEF Apart
  <2>7. \A a \in t.at : \E i \in DOMAIN parts : a \in parts[i].at
    BY <1>4, <2>1, <2>3, <2>4
  <2>. QED  BY <2>5, <2>6, <2>7 DEF parts
<1>. QED  BY <1>3, <1>9, <1>10

-----------------------------------------------------------------------------
(* What a delivery generates.                                              *)

\* With fewer addresses, a target stays sound.
LEMMA LessIsSound ==
    ASSUME NEW d, NEW t, Sound(t, d), NEW u, u.at \subseteq t.at, u.data = t.data
    PROVE  Sound(u, d)
<1>1. u.at \in SUBSET Addresses /\ u.data \in Data
      /\ \A a \in u.at : Passes(d, a) \/ \E e \in PersonalOwn(d) : e.to = a
  BY DEF Sound
<1>2. Owned(u, d)
  <2>1. Owned(t, d)
    BY DEF Sound
  <2>. QED  BY <2>1 DEF Owned
<1>. QED  BY <1>1, <1>2 DEF Sound

\* The targets of a delivery are sound and have no address in common, and what was
\* computed is in one of them, if it can be sent to and the delivery keeps it.
LEMMA TargetsSound ==
    ASSUME call \in Calls, NEW d \in Deliveries
    PROVE  /\ \A i \in DOMAIN GenerateTargets(d) : Sound(GenerateTargets(d)[i], d)
           /\ Apart(GenerateTargets(d))
           /\ Conf[d].required # "never" /\ ~ Conf[d].unique =>
                \A a \in ComputedTarget(d).at : Valid(a) /\ a[1] \notin Indirect =>
                    \E i \in DOMAIN GenerateTargets(d) : a \in GenerateTargets(d)[i].at
<1>1. CASE Conf[d].required = "never"
  <2>1. GenerateTargets(d) = <<DataTarget({}, Conf[d].data)>>
    BY <1>1 DEF GenerateTargets
  <2>2. DOMAIN <<DataTarget({}, Conf[d].data)>> = {1}
        /\ <<DataTarget({}, Conf[d].data)>>[1] = DataTarget({}, Conf[d].data)
    OBVIOUS
  <2>3. /\ DataTarget({}, Conf[d].data).at = {}
        /\ DataTarget({}, Conf[d].data).data = Conf[d].data
        /\ Conf[d].data \in Data \cap Shared(d)
    BY ConfAssumption DEF DataTarget, Shared
  <2>4. Sound(DataTarget({}, Conf[d].data), d)
    BY <2>3 DEF Sound, Owned, Gives
  <2>. QED  BY <1>1, <2>1, <2>2, <2>4 DEF Apart
<1>2. CASE Conf[d].required # "never"
  <2> DEFINE t == ComputedTarget(d)
             parts == SplitByTargetData(t)
             final(i) == IF Conf[d].unique THEN Minus(DirectPart(parts[i]), PlainTarget(already))
                         ELSE DirectPart(parts[i])
  <2>1. Known(t, d) /\ \A a \in t.at : Passes(d, a)
    BY ComputedKnown
  <2>2. /\ \A i \in DOMAIN parts : Sound(parts[i], d)
        /\ Apart(parts)
        /\ \A a \in t.at : \E i \in DOMAIN parts : a \in parts[i].at
    BY <2>1, SplitSound
  <2>3. GenerateTargets(d) = [i \in DOMAIN parts |-> final(i)]
    BY <1>2 DEF GenerateTargets, Finally
  <2> HIDE DEF parts
  <2>4. \A i \in DOMAIN parts :
            /\ final(i).at \subseteq parts[i].at /\ final(i).data = parts[i].data
            /\ ~ Conf[d].unique => final(i).at = {a \in parts[i].at : Valid(a) /\ a[1] \notin Indirect}
    BY DEF Minus, DirectPart, FromMapping, Valid
  <2> HIDE DEF final
  <2>5. ASSUME NEW i \in DOMAIN parts PROVE Sound(final(i), d)
    BY <2>2, <2>4, LessIsSound
  <2>6. Apart(GenerateTargets(d))
    BY <2>2, <2>3, <2>4 DEF Apart
  <2>7. ASSUME ~ Conf[d].unique, NEW a \in t.at, Valid(a), a[1] \notin Indirect
        PROVE  \E i \in DOMAIN GenerateTargets(d) : a \in GenerateTargets(d)[i].at
    <3>1. PICK i \in DOMAIN parts : a \in parts[i].at
      BY <2>2
    <3>2. a \in final(i).at
      BY <2>4, <2>7, <3>1
    <3>. QED  BY <2>3, <3>1, <3>2
  <2>. QED  BY <2>3, <2>5, <2>6, <2>7
<1>. QED  BY <1>1, <1>2

\* An envelope as the invariants want it.
Good(e, d) ==
    /\ e.to \in SUBSET Addresses /\ e.data \in Data
    /\ Range(e.message) \cup Range(e.title) \subseteq Pieces
    /\ e.given \in {"override", "call"}
    /\ \A a \in e.to : Passes(d, a) \/ \E p \in People : a \in HasOwn(RecipientTarget(p, d))
    /\ \A k \in DOMAIN e.data :
        \/ \E data \in {Conf[d].data, call.scenario[d].data, call.data, OverrideData(d)}
                      \cup {Recipient(p).data : p \in People} : Gives(data, k, e.data[k])
        \/ \A a \in e.to : \E p \in People : \E i \in DOMAIN RecipientTarget(p, d).own :
                /\ RecipientTarget(p, d).own[i].to = a
                /\ Gives(RecipientTarget(p, d).own[i].data, k, e.data[k])

\* Of text there are only pieces.
LEMMA TextTyped ==
    ASSUME NEW d, NEW first \in BOOLEAN
    PROVE  /\ Range(MessageOf(d, first)) \cup Range(TitleOf(d, FALSE)) \subseteq Pieces
           /\ GivenMessage(d, first) \in {"override", "call"}
<1>1. ASSUME NEW ignoreUsage PROVE TitleOf(d, ignoreUsage) \in Seq(Pieces)
  <2> DEFINE title == IF Conf[d].message_usage # "STANDARD" /\ ~ignoreUsage THEN <<>>
                      ELSE IF Conf[d].title \/ call.title THEN <<"title">> ELSE <<>>
  <2>1. title \in {<<>>, <<"title">>}
    OBVIOUS
  <2>2. <<>> \in Seq(Pieces)
    BY EmptySeq
  <2>3. <<"title">> \in Seq(Pieces) /\ "template" \in Pieces
    BY DEF Pieces
  <2>4. TitleOf(d, ignoreUsage) \in {title, Append(title, "template")}
    BY DEF TitleOf
  <2> HIDE DEF title
  <2>5. title \in Seq(Pieces)
    BY <2>1, <2>2, <2>3
  <2>6. Append(title, "template") \in Seq(Pieces)
    BY <2>3, <2>5, AppendProperties
  <2>. QED  BY <2>4, <2>5, <2>6
<1>2. GivenMessage(d, first) \in {"override", "call"}
  BY DEF GivenMessage
<1>3. MessageOf(d, first) \in Seq(Pieces)
  <2> DEFINE title   == TitleOf(d, TRUE)
             base    == BaseMessage(d, first)
             message == CASE Conf[d].message_usage = "USE_TITLE" /\ title # <<>> -> title
                          [] Conf[d].message_usage = "COMBINE_TITLE" -> Append(title, base)
                          [] OTHER -> <<base>>
  <2>1. base \in Pieces /\ "template" \in Pieces
    BY <1>2 DEF BaseMessage, Pieces
  <2>2. title \in Seq(Pieces)
    BY <1>1
  <2>3. MessageOf(d, first) \in {message, Append(message, "template")}
    BY DEF MessageOf
  <2> HIDE DEF title, base
  <2>4. message \in {title, Append(title, base), <<base>>}
    OBVIOUS
  <2>5. Append(title, base) \in Seq(Pieces)
    BY <2>1, <2>2, AppendProperties
  <2>6. <<base>> \in Seq(Pieces)
    BY <2>1
  <2> HIDE DEF message
  <2>7. message \in Seq(Pieces)
    BY <2>2, <2>4, <2>5, <2>6
  <2>8. Append(message, "template") \in Seq(Pieces)
    BY <2>1, <2>7, AppendProperties
  <2>. QED  BY <2>3, <2>7, <2>8
<1>4. ASSUME NEW s \in Seq(Pieces) PROVE Range(s) \subseteq Pieces
  BY DEF Range
<1>5. TitleOf(d, FALSE) \in Seq(Pieces)
  BY <1>1
<1>. QED  BY <1>2, <1>3, <1>4, <1>5

\* The data of an envelope is that of its target, the delivery, the call, scenarios or
\* overrides.
LEMMA EnvelopeDataGiven ==
    ASSUME call \in Calls, NEW d \in Deliveries, NEW t, t.data \in Data
    PROVE  /\ Update(EnvelopeData(d, t), OverrideData(d)) \in Data
           /\ \A k \in DOMAIN Update(EnvelopeData(d, t), OverrideData(d)) :
                \E data \in {Conf[d].data, t.data, call.scenario[d].data, call.data, OverrideData(d)} :
                    Gives(data, k, Update(EnvelopeData(d, t), OverrideData(d))[k])
<1> DEFINE conf     == Conf[d].data
           scenario == call.scenario[d].data
           said     == call.data
           override == OverrideData(d)
           target   == t.data
           one   == Update(conf, target)
           two   == Update(one, scenario)
           three == Update(two, said)
           four  == Update(three, override)
<1>1. conf \in Data /\ scenario \in Data /\ said \in Data /\ target \in Data
  BY ConfAssumption, CallsAssumption
<1>2. override \in Data
  <2>1. CASE KeysFor(d) = {}
    BY <2>1, NoDataIsData DEF OverrideData
  <2>2. CASE KeysFor(d) # {}
    <3>1. PICK k \in KeysFor(d) : OverrideData(d) = call.overrides[k].data
      BY <2>2 DEF OverrideData
    <3>2. k \in DOMAIN call.overrides
      BY <3>1 DEF KeysFor
    <3>. QED  BY <3>1, <3>2, CallsAssumption
  <2>. QED  BY <2>1, <2>2
<1>3. four = Update(EnvelopeData(d, t), OverrideData(d))
  BY DEF EnvelopeData
<1> HIDE DEF conf, scenario, said, override, target
<1>4. one \in Data /\ \A k \in DOMAIN one : Gives(conf, k, one[k]) \/ Gives(target, k, one[k])
  BY <1>1, UpdateGives
<1> HIDE DEF one
<1>5. two \in Data /\ \A k \in DOMAIN two : Gives(one, k, two[k]) \/ Gives(scenario, k, two[k])
  BY <1>1, <1>4, UpdateGives
<1> HIDE DEF two
<1>6. three \in Data /\ \A k \in DOMAIN three : Gives(two, k, three[k]) \/ Gives(said, k, three[k])
  BY <1>1, <1>5, UpdateGives
<1> HIDE DEF three
<1>7. four \in Data /\ \A k \in DOMAIN four : Gives(three, k, four[k]) \/ Gives(override, k, four[k])
  BY <1>2, <1>6, UpdateGives
<1> HIDE DEF four
<1>8. ASSUME NEW k \in DOMAIN four
      PROVE  \E data \in {conf, target, scenario, said, override} : Gives(data, k, four[k])
  BY <1>4, <1>5, <1>6, <1>7 DEF Gives
<1>. QED  BY <1>3, <1>7, <1>8 DEF conf, scenario, said, override, target

\* Envelopes are as the invariants want them.
LEMMA EnvelopesGood ==
    ASSUME call \in Calls, NEW d \in Deliveries,
           NEW i \in DOMAIN GenerateEnvelopes(d, GenerateTargets(d))
    PROVE  Good(GenerateEnvelopes(d, GenerateTargets(d))[i], d)
<1> DEFINE targets == GenerateTargets(d)
           worth == {j \in DOMAIN targets : HasResolved(targets[j]) \/ Conf[d].required # "always"}
           first == \A j \in worth : i <= j
           t == targets[i]
           e == GenerateEnvelopes(d, targets)[i]
<1>1. i \in DOMAIN targets /\ e = MakeEnvelope(d, t, first)
  BY DEF GenerateEnvelopes
<1>2. Sound(t, d)
  BY <1>1, TargetsSound
<1> HIDE DEF targets, t, e
<1>3. first \in BOOLEAN
  OBVIOUS
<1> HIDE DEF first
<1>4. /\ e.to = t.at /\ e.data = Update(EnvelopeData(d, t), OverrideData(d))
      /\ e.message = MessageOf(d, first) /\ e.title = TitleOf(d, FALSE)
      /\ e.given = GivenMessage(d, first)
  BY <1>1 DEF MakeEnvelope
<1>5. /\ Range(e.message) \cup Range(e.title) \subseteq Pieces
      /\ e.given \in {"override", "call"}
  BY <1>3, <1>4, TextTyped
<1>6. /\ e.data \in Data
      /\ \A k \in DOMAIN e.data :
            \E data \in {Conf[d].data, t.data, call.scenario[d].data, call.data, OverrideData(d)} :
                Gives(data, k, e.data[k])
  <2>1. t.data \in Data
    BY <1>2 DEF Sound
  <2>. QED  BY <1>4, <2>1, EnvelopeDataGiven
<1>7. ASSUME NEW a, \E x \in PersonalOwn(d) : x.to = a
      PROVE  \E p \in People : a \in HasOwn(RecipientTarget(p, d))
  BY <1>7 DEF PersonalOwn, HasOwn, Range
<1>8. \A a \in e.to : Passes(d, a) \/ \E p \in People : a \in HasOwn(RecipientTarget(p, d))
  BY <1>2, <1>4, <1>7 DEF Sound
<1>9. ASSUME NEW k \in DOMAIN e.data
      PROVE  \/ \E data \in {Conf[d].data, call.scenario[d].data, call.data, OverrideData(d)}
                            \cup {Recipient(p).data : p \in People} : Gives(data, k, e.data[k])
             \/ \A a \in e.to : \E p \in People : \E j \in DOMAIN RecipientTarget(p, d).own :
                    /\ RecipientTarget(p, d).own[j].to = a
                    /\ Gives(RecipientTarget(p, d).own[j].data, k, e.data[k])
  <2>1. CASE Gives(t.data, k, e.data[k])
    <3>1. k \in DOMAIN t.data /\ t.data[k] = e.data[k]
      BY <2>1 DEF Gives
    <3>2. CASE \E data \in Shared(d) : Gives(data, k, e.data[k])
      BY <3>2 DEF Shared
    <3>3. CASE \A a \in t.at : \E x \in PersonalOwn(d) : x.to = a /\ Gives(x.data, k, e.data[k])
      <4>1. SUFFICES ASSUME NEW a \in e.to
                     PROVE  \E p \in People : \E j \in DOMAIN RecipientTarget(p, d).own :
                                /\ RecipientTarget(p, d).own[j].to = a
                                /\ Gives(RecipientTarget(p, d).own[j].data, k, e.data[k])
        OBVIOUS
      <4>2. PICK x \in PersonalOwn(d) : x.to = a /\ Gives(x.data, k, e.data[k])
        BY <1>4, <3>3
      <4>3. PICK p \in People : x \in Range(RecipientTarget(p, d).own)
        BY DEF PersonalOwn
      <4>4. PICK j \in DOMAIN RecipientTarget(p, d).own : x = RecipientTarget(p, d).own[j]
        BY <4>3 DEF Range
      <4>. QED  BY <4>2, <4>4
    <3>. QED  BY <1>2, <3>1, <3>2, <3>3 DEF Sound, Owned
  <2>2. CASE ~ Gives(t.data, k, e.data[k])
    BY <1>6, <2>2
  <2>. QED  BY <2>1, <2>2
<1>10. e.to \in SUBSET Addresses
  BY <1>2, <1>4 DEF Sound
<1>11. Good(e, d)
  BY <1>5, <1>6, <1>8, <1>9, <1>10 DEF Good
<1>. QED  BY <1>11 DEF e, targets

-----------------------------------------------------------------------------
(* What was sent.                                                          *)

\* The variables that are not about envelopes keep to their sets.
ControlTyped ==
    /\ call \in Calls
    /\ snoozed \in SnoozedSets
    /\ whereabouts \in [People -> {"home", "not_home", "missing"}]
    /\ todo \in SUBSET call.selected
    /\ overrides \in SUBSET DOMAIN call.overrides
    /\ already \in SUBSET Addresses
    /\ raised \in SUBSET (call.selected \ todo)

\* Everything sent is as the invariants want it, each address in one envelope.
SentGood ==
    /\ DOMAIN sent = Deliveries
    /\ \A d \in Deliveries : \A i \in DOMAIN sent[d] : Good(sent[d][i], d)
    /\ OnePlaceEach

\* The inductive invariant of which the others are part.
EnvelopesInv == ControlTyped /\ SentGood

\* It holds before any delivery is called.
LEMMA EnvelopesInvInit == Init => EnvelopesInv
<1> SUFFICES ASSUME Init PROVE EnvelopesInv
  OBVIOUS
<1>1. ControlTyped
  BY CallsAssumption DEF Init, ControlTyped
<1>2. SentGood
  BY DEF Init, SentGood, OnePlaceEach
<1>. QED  BY <1>1, <1>2 DEF EnvelopesInv

\* An envelope that is as it should be stays so, as the call stays the same.
LEMMA GoodStays ==
    ASSUME call' = call, NEW e, NEW d, Good(e, d)
    PROVE  Good(e, d)'
BY DEF Good, OverrideData, KeysFor

\* A call of a delivery keeps it.
LEMMA EnvelopesInvCall ==
    ASSUME EnvelopesInv, NEW c \in Deliveries, CallTransport(c)
    PROVE  EnvelopesInv'
<1> DEFINE targets == GenerateTargets(c)
           envelopes == GenerateEnvelopes(c, targets)
<1>1. /\ Remember(c, targets) /\ c \in todo
      /\ todo' = todo \ {c}
      /\ overrides' = IF envelopes = <<>> THEN overrides ELSE overrides \ KeysFor(c)
      /\ sent' = IF Fails(c, envelopes) THEN sent ELSE [sent EXCEPT ![c] = envelopes]
      /\ raised' = IF Fails(c, envelopes) THEN raised \cup {c} ELSE raised
      /\ call' = call /\ snoozed' = snoozed /\ whereabouts' = whereabouts
  BY DEF CallTransport, CallWith, Send
<1>2. call \in Calls /\ ControlTyped /\ SentGood
  BY DEF EnvelopesInv, ControlTyped
<1>3. /\ \A i \in DOMAIN targets : Sound(targets[i], c)
      /\ Apart(targets)
  BY <1>2, TargetsSound
<1>4. \A i \in DOMAIN envelopes : i \in DOMAIN targets /\ envelopes[i].to = targets[i].at
  BY EnvelopeOfTarget
<1>5. \A i \in DOMAIN envelopes : Good(envelopes[i], c)
  BY <1>2, EnvelopesGood
<1> HIDE DEF targets, envelopes
<1>6. \A i \in DOMAIN targets : targets[i].at \subseteq Addresses
  BY <1>3 DEF Sound
<1>7. already' \in SUBSET Addresses
  BY <1>1, <1>2, <1>6 DEF Remember, ControlTyped
<1>8. ControlTyped'
  <2>1. todo' \in SUBSET call.selected /\ raised' \in SUBSET (call.selected \ todo')
        /\ overrides' \in SUBSET DOMAIN call.overrides
    BY <1>1, <1>2 DEF ControlTyped
  <2>. QED  BY <1>1, <1>2, <1>7, <2>1 DEF ControlTyped
<1>9. /\ DOMAIN sent' = Deliveries
      /\ \A d \in Deliveries : d # c => sent'[d] = sent[d]
      /\ sent'[c] \in {sent[c], envelopes}
  BY <1>1, <1>2 DEF SentGood
<1>10. ASSUME NEW d \in Deliveries, NEW i \in DOMAIN sent'[d] PROVE Good(sent'[d][i], d)
  <2>1. CASE sent'[d] = sent[d]
    BY <1>2, <1>10, <2>1 DEF SentGood
  <2>2. CASE d = c /\ sent'[d] = envelopes
    BY <1>5, <1>10, <2>2
  <2>. QED  BY <1>9, <2>1, <2>2
<1>11. ASSUME NEW d \in Deliveries, NEW i \in DOMAIN sent'[d] PROVE Good(sent[d][i], d)'
  <2>1. SUFFICES ASSUME NEW e, e = sent'[d][i] PROVE Good(e, d)'
    OBVIOUS
  <2>2. Good(e, d)
    BY <1>10, <1>11, <2>1
  <2>. QED  BY <1>1, <2>2, GoodStays
<1>12. OnePlaceEach'
  <2>1. SUFFICES ASSUME NEW d \in Deliveries,
                        NEW i \in DOMAIN sent'[d], NEW j \in DOMAIN sent'[d], i # j
                 PROVE  sent'[d][i].to \cap sent'[d][j].to = {}
    BY DEF OnePlaceEach
  <2>2. CASE sent'[d] = sent[d]
    BY <1>2, <2>1, <2>2 DEF SentGood, OnePlaceEach
  <2>3. CASE d = c /\ sent'[d] = envelopes
    BY <1>3, <1>4, <2>1, <2>3 DEF Apart
  <2>. QED  BY <1>9, <2>2, <2>3
<1>13. SentGood'
  BY <1>9, <1>11, <1>12 DEF SentGood
<1>. QED  BY <1>8, <1>13 DEF EnvelopesInv

\* Every step keeps it.
LEMMA EnvelopesInvNext == EnvelopesInv /\ [Next]_vars => EnvelopesInv'
<1> SUFFICES ASSUME EnvelopesInv, [Next]_vars PROVE EnvelopesInv'
  OBVIOUS
<1>1. ASSUME call' = call, sent' = sent PROVE SentGood'
  <2>1. SentGood
    BY DEF EnvelopesInv
  <2>2. ASSUME NEW d \in Deliveries, NEW i \in DOMAIN sent'[d] PROVE Good(sent[d][i], d)'
    <3>1. SUFFICES ASSUME NEW e, e = sent'[d][i] PROVE Good(e, d)'
      OBVIOUS
    <3>2. Good(e, d)
      BY <1>1, <2>1, <2>2, <3>1 DEF SentGood
    <3>. QED  BY <1>1, <3>2, GoodStays
  <2>. QED  BY <1>1, <2>1, <2>2 DEF SentGood, OnePlaceEach
<1>2. ASSUME NEW d \in Deliveries, CallTransport(d) PROVE EnvelopesInv'
  BY <1>2, EnvelopesInvCall
<1>3. ASSUME NEW p \in People, Move(p) PROVE EnvelopesInv'
  <2>1. ControlTyped'
    BY <1>3 DEF Move, EnvelopesInv, ControlTyped
  <2>. QED  BY <1>1, <1>3, <2>1 DEF Move, EnvelopesInv
<1>4. CASE ChangeSnoozes
  <2>1. ControlTyped'
    BY <1>4 DEF ChangeSnoozes, EnvelopesInv, ControlTyped
  <2>. QED  BY <1>1, <1>4, <2>1 DEF ChangeSnoozes, EnvelopesInv
<1>5. CASE UNCHANGED vars
  <2>1. ControlTyped'
    BY <1>5 DEF vars, EnvelopesInv, ControlTyped
  <2>. QED  BY <1>1, <1>5, <2>1 DEF vars, EnvelopesInv
<1>. QED  BY <1>2, <1>3, <1>4, <1>5 DEF Next

\* What is sent is good, for any people, configuration, calls and snoozes.
THEOREM SentIsGood == Spec => []EnvelopesInv
<1>. QED  BY EnvelopesInvInit, EnvelopesInvNext, PTL DEF Spec

\* The variables keep to their sets.
THEOREM TypesAreKept == Spec => []TypeOK
<1>1. EnvelopesInv => TypeOK
  <2> SUFFICES ASSUME EnvelopesInv PROVE TypeOK
    OBVIOUS
  <2>1. ASSUME NEW d \in Deliveries, NEW e \in Envelopes(d)
        PROVE  /\ e.to \in SUBSET Addresses /\ e.data \in Data
               /\ Range(e.message) \cup Range(e.title) \subseteq Pieces
               /\ e.given \in {"override", "call"}
    BY DEF EnvelopesInv, SentGood, Envelopes, Good
  <2>. QED  BY <2>1 DEF EnvelopesInv, ControlTyped, SentGood, TypeOK
<1>. QED  BY <1>1, SentIsGood, PTL

\* A target that is taken apart puts each address into one envelope of its delivery.
THEOREM AddressesInOnePlace == Spec => []OnePlaceEach
<1>1. EnvelopesInv => OnePlaceEach
  BY DEF EnvelopesInv, SentGood
<1>. QED  BY <1>1, SentIsGood, PTL

\* An address is one the delivery chooses from, or a personal target for it.
THEOREM AddressesAreChosen == Spec => []OnlyChosenAddresses
<1>1. EnvelopesInv => OnlyChosenAddresses
  BY DEF EnvelopesInv, SentGood, Envelopes, OnlyChosenAddresses, Good
<1>. QED  BY <1>1, SentIsGood, PTL

\* Data of personal targets reaches those targets only.
THEOREM DataStaysWithItsOwner == Spec => []OwnDataStaysOwn
<1>1. EnvelopesInv => OwnDataStaysOwn
  <2> SUFFICES ASSUME EnvelopesInv, NEW d \in Deliveries, NEW e \in Envelopes(d)
               PROVE  Good(e, d)
    BY DEF OwnDataStaysOwn, Good
  <2>. QED  BY DEF EnvelopesInv, SentGood, Envelopes
<1>. QED  BY <1>1, SentIsGood, PTL

-----------------------------------------------------------------------------
(* Nobody is left out.                                                     *)

\* What is owed is computed: people asked for are resolved in the first round, those of the
\* delivery's own target in the second, which leaves what the first has found.
LEMMA OwedIsComputed ==
    ASSUME call \in Calls, NEW d \in Deliveries, Usual(d), NEW a \in Owed(d)
    PROVE  a \in ComputedTarget(d).at
<1> DEFINE start  == StartingTarget(d)
           first  == Narrow(start, d)
           merged == Merged(d, first)
           at     == UNION {call.overrides[k].at : k \in KeysFor(d)}
<1>1. PICK p \in Asked(d) \cup ByDefault(d) :
        /\ p \in Enabled /\ <<"person_id", p>> \notin snoozed
        /\ a \in BaseTarget(p).at /\ Valid(a)
  BY DEF Owed, FromMapping, Valid
<1>2. Passes(d, a) /\ a \notin snoozed
  BY DEF Owed
<1>3. Known(start, d)
  BY StartKnown
<1>4. p \in Asked(d) => <<"person_id", p>> \in start.at
  BY DEF Asked, StartingTarget, Usual, PlainTarget, DataTarget
<1> HIDE DEF start
<1>5. Known(first, d)
  BY <1>3, NarrowKnown
<1>6. p \in Asked(d) => a \in first.at
  <2>1. \A q \in Enabled : <<"person_id", q>> \in start.at \ snoozed =>
            \A b \in BaseTarget(q).at : Valid(b) /\ Passes(d, b) => b \in first.at
    BY <1>3, NarrowKnown
  <2> HIDE DEF first
  <2>. QED  BY <1>1, <1>2, <1>4, <2>1
<1> HIDE DEF first
<1>7. /\ Known(merged, d) /\ first.at \subseteq merged.at
      /\ Conf[d].usage = "merge_always" => merged.at = first.at \cup Conf[d].target
  BY <1>5, MergedKnown
<1> HIDE DEF merged
<1>8. ComputedTarget(d) = IF merged.at = first.at THEN merged ELSE Narrow(merged, d)
  <2>1. at = {}
    BY DEF Usual
  <2>2. ComputedTarget(d) = BothRounds(d, first)
    BY <2>1 DEF ComputedTarget, Overriding, first, start
  <2>. QED  BY <2>2 DEF BothRounds, SecondRound, merged
<1>9. CASE p \in Asked(d)
  <2>1. a \in merged.at
    BY <1>6, <1>7, <1>9
  <2>2. a \in Narrow(merged, d).at
    BY <1>1, <1>2, <1>7, <2>1, NarrowKnown
  <2>. QED  BY <1>8, <2>1, <2>2
<1>10. CASE p \in ByDefault(d)
  <2>1. Conf[d].usage = "merge_always" /\ ~ (Conf[d].target \subseteq first.at)
        /\ <<"person_id", p>> \in Conf[d].target
    BY <1>10 DEF ByDefault, Adds, first, start
  <2>2. merged.at = first.at \cup Conf[d].target
    BY <1>7, <2>1
  <2>3. merged.at # first.at /\ <<"person_id", p>> \in merged.at \ snoozed
    BY <1>1, <2>1, <2>2
  <2>4. a \in Narrow(merged, d).at
    BY <1>1, <1>2, <1>7, <2>3, NarrowKnown
  <2>. QED  BY <1>8, <2>3, <2>4
<1>. QED  BY <1>1, <1>9, <1>10

\* A call of a delivery that does not raise reaches what is owed.
LEMMA OwedIsSent ==
    ASSUME EnvelopesInv, NEW d \in Deliveries, CallTransport(d), d \notin raised', Usual(d)
    PROVE  Owed(d) \subseteq UNION {e.to : e \in Range(sent'[d])}
<1> DEFINE targets == GenerateTargets(d)
           envelopes == GenerateEnvelopes(d, targets)
<1>1. call \in Calls /\ DOMAIN sent = Deliveries
  BY DEF EnvelopesInv, ControlTyped, SentGood
<1>2. sent'[d] = envelopes
  <2>1. /\ sent' = IF Fails(d, envelopes) THEN sent ELSE [sent EXCEPT ![d] = envelopes]
        /\ raised' = IF Fails(d, envelopes) THEN raised \cup {d} ELSE raised
    BY DEF CallTransport, CallWith, Send
  <2>. QED  BY <1>1, <2>1
<1>3. SUFFICES ASSUME NEW a \in Owed(d) PROVE \E i \in DOMAIN envelopes : a \in envelopes[i].to
  BY <1>2 DEF Range
<1>4. a \in ComputedTarget(d).at
  BY <1>1, OwedIsComputed
<1>5. Valid(a) /\ a[1] \notin Indirect
  BY DEF Owed, FromMapping, Valid
<1>6. Conf[d].required # "never" /\ ~ Conf[d].unique
  BY DEF Usual
<1>7. PICK i \in DOMAIN targets : a \in targets[i].at
  BY <1>1, <1>4, <1>5, <1>6, TargetsSound
<1>8. HasResolved(targets[i])
  BY <1>5, <1>7 DEF HasResolved
<1>9. i \in DOMAIN envelopes
  BY <1>7, <1>8 DEF GenerateEnvelopes
<1>10. envelopes[i].to = targets[i].at
  BY <1>9, EnvelopeOfTarget
<1>. QED  BY <1>7, <1>9, <1>10

\* Whoever a call is for is reached at each address that a delivery takes of them, as are
\* those whom the delivery's own target adds.
THEOREM EveryoneIsReached == Spec => NobodyLeftOut
<1> DEFINE Reached == \A d \in todo \ (todo' \cup raised') :
                        Usual(d) => Owed(d) \subseteq UNION {e.to : e \in Range(sent'[d])}
<1>1. ASSUME EnvelopesInv, [Next]_vars PROVE [Reached]_vars
  <2>1. todo \subseteq Deliveries
    BY <1>1, CallsAssumption DEF EnvelopesInv, ControlTyped
  <2>2. ASSUME NEW c \in Deliveries, CallTransport(c) PROVE Reached
    <3>1. SUFFICES ASSUME NEW d \in todo \ (todo' \cup raised'), Usual(d)
                   PROVE  Owed(d) \subseteq UNION {e.to : e \in Range(sent'[d])}
      OBVIOUS
    <3>2. d = c
      BY <2>2, <3>1 DEF CallTransport, CallWith, Send
    <3>. QED  BY <1>1, <2>2, <3>1, <3>2, OwedIsSent
  <2>3. ASSUME todo' = todo PROVE Reached
    BY <2>3
  <2>4. ASSUME NEW p \in People, Move(p) PROVE Reached
    BY <2>3, <2>4 DEF Move
  <2>5. CASE ChangeSnoozes
    BY <2>3, <2>5 DEF ChangeSnoozes
  <2> HIDE DEF Reached
  <2>. QED  BY <1>1, <2>2, <2>4, <2>5 DEF Next
<1>2. EnvelopesInv /\ [Next]_vars => [Reached]_vars
  BY <1>1
<1>. QED  BY <1>2, SentIsGood, PTL DEF Spec, NobodyLeftOut


=============================================================================
