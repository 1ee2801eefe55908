----------------------------- MODULE MCMerging -----------------------------
(* The instances of Merging that TLC checks: who asks for which name. *)
EXTENDS Merging, TLC

CONSTANTS d1, d2, d3

\* d1 and d2 ask for the file name 0, d3 for the first candidate of d1.
MCRequested == d1 :> <<0>> @@ d2 :> <<0>> @@ d3 :> <<0, 1>>

\* One of each kind.
MCPolicy == d1 :> "unique" @@ d2 :> "refuse" @@ d3 :> "overwrite"

\* Two downloads that ask for the same name and spare existing files.
SameNames == d1 :> <<0>> @@ d2 :> <<0>>
BothUnique == d1 :> "unique" @@ d2 :> "unique"

\* The name 0 was taken before.
MCExisting == {<<0>>}
=============================================================================
