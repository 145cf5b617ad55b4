------------------------------- MODULE Corefile -------------------------------
(***************************************************************************)
(* The block that ConfigurePrivateDNSStep keeps in a cluster's Corefile.   *)
(* A Corefile is a sequence of lines: the two markers, a zone of the       *)
(* block, or anything else.                                                *)
(***************************************************************************)
EXTENDS Naturals, Sequences

Lines == STRING \cup {"begin", "zone", "end"}
Files == Seq(Lines)

\* Line i lies in a block: a begin marker at or above it, and no end marker
\* from there to the line before it.  A block without an end runs to the end
\* of the file, and a begin marker inside a block is part of it.
InBlock(file, i) ==
  \E b \in 1 .. i : file[b] = "begin" /\ \A j \in b .. i - 1 : file[j] # "end"

Marked(file) == {i \in DOMAIN file : InBlock(file, i)}

\* The lines at the positions in keep, in their order.
Pick(file, keep) ==
  LET taken[n \in 0 .. Len(file)] ==
        IF n = 0 THEN << >>
        ELSE IF n \in keep THEN Append(taken[n - 1], file[n]) ELSE taken[n - 1]
  IN  taken[Len(file)]

\* stripPrivateDNSBlock
Strip(file) == Pick(file, DOMAIN file \ Marked(file))

PrivateBlock(zones) == <<"begin">> \o [z \in 1 .. zones |-> "zone"] \o <<"end">>

\* Mutant of WithPrivateZones: the block is added to what is there.
AddPrivateZones(file, zones) == file \o PrivateBlock(zones)

\* applyPrivateDNSToCorefile
WithPrivateZones(file, zones) ==
  IF zones = 0 THEN Strip(file) ELSE Strip(file) \o PrivateBlock(zones)

\* Exactly one block, at the end, with these zones.
HasOneBlock(file, zones) ==
  LET n == Len(file) - zones - 2
  IN  /\ n >= 0 /\ SubSeq(file, n + 1, Len(file)) = PrivateBlock(zones)
      /\ \A i \in 1 .. n : file[i] # "begin"

\* Whether a block is open after line n, reading from the top.
Open(file) ==
  LET open[n \in 0 .. Len(file)] ==
        IF n = 0 \/ file[n] = "end" THEN FALSE
        ELSE open[n - 1] \/ file[n] = "begin"
  IN  open

Foreign(line) == line \notin {"begin", "end", "zone"}

Others(file) == Pick(file, {i \in DOMAIN file : Foreign(file[i])})

\* What others wrote outside a block is there, in its order.
KeepsOthers(before, after) ==
  Others(after) = Pick(before, {i \in DOMAIN before : Foreign(before[i]) /\ ~Open(before)[i]})
=============================================================================
