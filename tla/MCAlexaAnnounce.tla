--------------------------- MODULE MCAlexaAnnounce ---------------------------
(***************************************************************************)
(* An instance of AlexaAnnounce for TLC: announcements that differ in what *)
(* they ask for, on one player, on two, on one that is not there.          *)
(***************************************************************************)
EXTENDS AlexaAnnounce, TLC

Symmetry == Permutations(Tasks)

Plain(players, level) ==
    [players |-> players, volume |-> level, restore |-> TRUE, pause |-> TRUE, message |-> TRUE,
     wait |-> FALSE, malformed |-> FALSE]

MCRequests ==
    {Plain(<<"kitchen", "gone", "attic">>, NoLevel),
     Plain(<<"kitchen">>, "loud"),
     [Plain(<<"attic">>, "bad") EXCEPT !.pause = FALSE, !.wait = TRUE],
     [Plain(<<"kitchen">>, "loud") EXCEPT !.restore = FALSE, !.pause = FALSE],
     [Plain(<<"attic">>, "loud") EXCEPT !.message = FALSE],
     [Plain(<<"kitchen">>, "loud") EXCEPT !.malformed = TRUE],
     Plain(<<>>, "loud")}
=============================================================================
