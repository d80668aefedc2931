------------------------------- MODULE Targets -------------------------------
(***************************************************************************)
(* The targets of notifications, deliveries, scenarios and people: what an *)
(* address is taken for, and how targets are added, taken apart and cut    *)
(* down (src/custom_components/supernotify/model.py).                      *)
(*                                                                         *)
(* An address is a pair of a category and a name.  A target has a set of   *)
(* them, the data that goes with all of them, and, for some, data of their *)
(* own, in the order in which it was added.  Data is a function on the     *)
(* keys that are present.                                                  *)
(***************************************************************************)
EXTENDS Keeping, FiniteSets, SequencesExt

CONSTANTS
    Names,                \* what may be given as a target
    Validates,            \* the names that the validator of a category accepts
    OtherCategories,      \* categories that are the user's own
    DataKeys, DataValues  \* what a dictionary of data may hold

Direct == <<"entity_id", "device_id", "email", "phone", "mobile_app_id">>
Indirect == {"person_id", "area_id", "floor_id", "label_id"}
AutoCategories == Direct \o <<"person_id">>
UnknownCategory == "_UNKNOWN_"

ASSUME TargetsAssumption ==
    /\ Validates \in [Range(AutoCategories) -> SUBSET Names]
    /\ OtherCategories \cap (Range(Direct) \cup Indirect) = {}

Addresses == (Range(Direct) \cup Indirect \cup OtherCategories \cup {UnknownCategory}) \X Names
NoData == <<>>
Data == UNION {[K -> DataValues] : K \in SUBSET DataKeys}
Target == [at : SUBSET Addresses, data : Data, own : Seq([to : Addresses, data : Data])]

\* dict.update and |=
Update(data, more) ==
    [k \in DOMAIN data \cup DOMAIN more |-> IF k \in DOMAIN more THEN more[k] ELSE data[k]]

-----------------------------------------------------------------------------
(* What names are taken for.                                               *)

\* A name of a list goes to the first category whose validator accepts it.
CategoryOf(n) ==
    LET accepting == {i \in DOMAIN AutoCategories : n \in Validates[AutoCategories[i]]}
    IN  IF accepting = {} THEN UnknownCategory
        ELSE AutoCategories[CHOOSE i \in accepting : \A j \in accepting : i <= j]

FromList(names) == {<<CategoryOf(n), n>> : n \in names}

\* What a mapping names is checked where there is a validator, and then left out.
FromMapping(pairs) ==
    {a \in pairs : a[1] \in Range(AutoCategories) => a[2] \in Validates[a[1]]}

\* The data of a target goes with all it is added to...
DataTarget(at, data) == [at |-> at, data |-> data, own |-> <<>>]

PlainTarget(at) == DataTarget(at, NoData)

\* ...or, where it is specific, is for its addresses only.
OwnTarget(addresses, data) ==
    [PlainTarget(Range(addresses)) EXCEPT
        !.own = IF data = NoData THEN <<>>
                ELSE [i \in DOMAIN addresses |-> [to |-> addresses[i], data |-> data]]]

-----------------------------------------------------------------------------
(* What is done with targets.                                              *)

HasOwn(t) == {t.own[i].to : i \in DOMAIN t.own}
OwnOf(t, a) == (CHOOSE i \in DOMAIN t.own : t.own[i].to = a)
OwnFor(t, at) == Keep(t.own, {e \in Range(t.own) : e.to \in at})

\* Target.__add__
Plus(s, t) ==
    [at   |-> s.at \cup t.at,
     data |-> Update(s.data, t.data),
     own  |-> [i \in DOMAIN s.own |->
                    IF s.own[i].to \in HasOwn(t) THEN t.own[OwnOf(t, s.own[i].to)] ELSE s.own[i]]
              \o OwnFor(t, HasOwn(t) \ HasOwn(s))]

\* Target.__sub__
Minus(s, t) ==
    [at   |-> s.at \ t.at,
     data |-> s.data,
     own  |-> OwnFor(s, HasOwn(s) \ t.at)]

\* Target.direct: what is left can be sent to as it is.
DirectPart(t) ==
    [at   |-> {a \in FromMapping(t.at) : a[1] \notin Indirect},
     data |-> t.data,
     own  |-> OwnFor(t, {a \in HasOwn(t) : a[1] \notin Indirect})]

\* Where data differs from the data before it, a new target is begun.
Begins(own) == {i \in DOMAIN own : i = 1 \/ own[i].data # own[i - 1].data}

Run(own, i) == {j \in DOMAIN own : i <= j /\ \A k \in Begins(own) : k <= j => k <= i}

\* Mutant: the addresses collected for one run are not forgotten for the next.
RunTargetCollecting(own, i) ==
    DataTarget({own[j].to : j \in {j \in DOMAIN own : j <= i} \cup Run(own, i)}, own[i].data)

RunTarget(own, i) ==
    DataTarget(FromMapping({own[j].to : j \in Run(own, i)}), own[i].data)

RunTargets(own) ==
    LET runs == Keep([i \in DOMAIN own |-> i], Begins(own))
    IN  [k \in DOMAIN runs |-> RunTarget(own, runs[k])]

\* Mutant: what has data of its own also stays with the rest.
WithAll(t, apart) ==
    IF t.own = <<>> \/ t.at # {} THEN Append(apart, [t EXCEPT !.own = <<>>]) ELSE apart

WithRest(t, apart) ==
    LET rest == [t EXCEPT !.at = @ \ UNION {apart[k].at : k \in DOMAIN apart}, !.own = <<>>]
    IN  IF t.own = <<>> \/ rest.at # {} THEN Append(apart, rest) ELSE apart

\* Target.split_by_target_data: a target for each run of addresses that have the same
\* data of their own, which is then all the data they have, and one for the rest.
SplitByTargetData(t) == WithRest(t, RunTargets(t.own))

HasResolved(t) == \E a \in t.at : a[1] \notin Indirect
=============================================================================
