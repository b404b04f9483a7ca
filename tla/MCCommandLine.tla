----------------------------- MODULE MCCommandLine -----------------------------
(***************************************************************************)
(* CommandLine as TLC checks it: net.ifnames with both its values, another *)
(* key, and a flag of that key's name; all lines of at most two of these,  *)
(* or a few chosen ones.                                                   *)
(***************************************************************************)
EXTENDS CommandLine

CONSTANTS ifnames, console

MCIfnames == <<ifnames, 0>>

MCArguments == {<<ifnames, 0>>, <<ifnames, 1>>, <<console, 0>>, <<console, Bare>>}

OneOrTwo == SeqOf(MCArguments, 2)

AtMostOne == SeqOf(MCArguments, 1)

(* Two repeated keys, and a value among flags. *)
Repeats ==
    AtMostOne \cup {<< <<ifnames, 0>>, <<ifnames, 1>> >>,
                    << <<console, 0>>, <<console, Bare>>, <<console, 1>> >>}
===============================================================================
