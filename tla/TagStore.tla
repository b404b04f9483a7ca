------------------------------- MODULE TagStore -------------------------------
(***************************************************************************)
(* What META promises to the actions that use it: a map from keys to       *)
(* values in which the value of one key is replaced in one atomic step and *)
(* every other key is left alone (talosmeta/README.md:45), but for a power *)
(* loss in the middle of an update.                                        *)
(***************************************************************************)
CONSTANTS
    Keys,       \* META keys
    NetKey,     \* the key the actions write, 0x0a
    Values,     \* what can be stored under it
    None        \* no value

VARIABLES
    tags,
    lost    \* power was lost with an update not yet stored

TagMaps == [Keys -> Values \cup {None}]

Init == tags \in TagMaps /\ lost = FALSE

Replace(v) == tags' = [tags EXCEPT ![NetKey] = v] /\ lost' = lost

(* Nothing is promised of what a power loss leaves of an unfinished update. *)
Lose == tags' \in TagMaps /\ lost' = TRUE

(* The next update that succeeds makes the store good again. *)
Recover ==
    /\ lost /\ lost' = FALSE
    /\ tags' \in {t \in TagMaps : t[NetKey] \in Values}

Next == Lose \/ Recover \/ \E v \in Values : Replace(v)

Spec == Init /\ [][Next]_<<tags, lost>>
===============================================================================
