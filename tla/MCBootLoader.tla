---------------------------- MODULE MCBootLoader ----------------------------
(***************************************************************************)
(* Instances of BootLoader for TLC.                                        *)
(***************************************************************************)
EXTENDS BootLoader

Plain(elf) == [kernel |-> TRUE, other |-> FALSE, long |-> FALSE, apps |-> TRUE, elf |-> elf]
Empty      == [Plain("none") EXCEPT !.kernel = FALSE]
Backup     == [Plain("none") EXCEPT !.kernel = FALSE, !.other = TRUE, !.apps = FALSE]
NoApps     == [Plain("good") EXCEPT !.apps = FALSE]
LongName   == [Plain("good") EXCEPT !.long = TRUE]
Volumes    == {Plain("none"), Plain("bad"), Plain("stripped"), Plain("good"),
               Empty, Backup, NoApps, LongName}

\* The .bss is neither the first section nor the last: the names follow it.
KernelSections == <<"other", ".bss", "other">>

\* One or two volumes.
SmallDisks == {<<v>> : v \in Volumes} \union (Volumes \X Volumes)
OneDisk == {<<Plain("good")>>}

TwoAps == {1, 2}

SmallSizes == [kernel |-> 5, app1 |-> 4, app2 |-> 3, app3 |-> 3]

\* One segment and a note, as the loader expects it, and as GNU ld's defaults give:
\* segments for text, read-only data (with the text before 2.31) and data, and the
\* stack's flags.
OneSegment    == <<[load |-> TRUE, at |-> 0, len |-> 4], [load |-> FALSE, at |-> 0, len |-> 1]>>
ThreeSegments == <<[load |-> TRUE, at |-> 0, len |-> 3], [load |-> TRUE, at |-> 3, len |-> 2],
                   [load |-> TRUE, at |-> 5, len |-> 1], [load |-> FALSE, at |-> 0, len |-> 0]>>
=============================================================================
