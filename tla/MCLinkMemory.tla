---------------------------- MODULE MCLinkMemory ----------------------------
(***************************************************************************)
(* What the applications at the two sides of a link do.  Blocks have size  *)
(* 1 or 2 in the primary buffer, one block of each; buffers of size 4 are  *)
(* made when needed.                                                       *)
(***************************************************************************)
EXTENDS LinkMemory

Put(s, size, objects, subparcels) ==
  [kind |-> "Put", s |-> s, size |-> size, objects |-> objects,
   subparcels |-> subparcels, elsewhere |-> FALSE]
PutBestEffort(s, size) == [Put(s, size, 0, <<>>) EXCEPT !.kind = "PutBestEffort"]
PutElsewhere(s, size) == [Put(s, size, 0, <<>>) EXCEPT !.elsewhere = TRUE]
Link(s, l) == [kind |-> "Link", s |-> s, link |-> l]
Stable(s, l) == [kind |-> "MarkSideStable", s |-> s, link |-> l]
Drop(s, l) == [kind |-> "Drop", s |-> s, link |-> l]
Activation(s) == [kind |-> "SetNodeLink", s |-> s]

Script(setup, calls) ==
  [setup |-> setup, calls |-> calls, attached |-> TRUE, relay |-> FALSE,
   delegate |-> FALSE, scarce |-> FALSE, expand |-> TRUE, mem_v2 |-> FALSE]

\* Over a link that relays driver objects, with a delegate for allocation, with
\* memory that may be refused, and with ids that are not shared.
Variants(x) ==
  {x, [x EXCEPT !.relay = TRUE], [x EXCEPT !.delegate = TRUE, !.mem_v2 = TRUE]}

\* Links made while the only block for a link state is taken, from both sides,
\* marked stable and dropped as soon as they are there.
LinkScripts ==
  {[Script(1, <<Link(1, 1), Link(1, 2), Link(2, 3)>>) EXCEPT !.relay = relay, !.mem_v2 = ~relay]
     : relay \in BOOLEAN}
  \cup Variants(Script(1, <<Link(1, 1), Link(1, 2), Stable(2, 2), Drop(1, 2), Drop(2, 2)>>))
  \cup {[Script(1, <<Link(1, 1), Link(1, 2), Link(1, 3)>>) EXCEPT !.scarce = TRUE],
        [Script(1, <<Link(1, 1), Link(1, 2), Link(1, 3)>>) EXCEPT !.delegate = TRUE],
        Script(1, <<Link(1, 1), Drop(1, 1), Drop(2, 1), Link(2, 2)>>)}

\* Parcels whose data does not fit into the primary buffer, with driver objects
\* and subparcels.
ParcelScripts ==
  Variants(Script(1, <<Put(1, 2, 0, <<>>), Put(1, 2, 1, <<>>), Put(2, 2, 0, <<>>)>>))
  \cup {[Script(0, <<Put(1, 2, 1, <<0, 0>>), PutBestEffort(2, 4)>>) EXCEPT !.relay = relay]
          : relay \in BOOLEAN}
  \cup {[Script(0, <<Put(1, 2, 0, <<1>>), Put(1, 2, 0, <<>>)>>)
           EXCEPT !.relay = TRUE, !.expand = FALSE],
        Script(0, <<PutElsewhere(1, 2), Put(2, 8, 0, <<>>), PutBestEffort(1, 8)>>),
        [Script(2, <<Activation(1), Activation(2), Put(1, 4, 0, <<>>), Put(1, 4, 0, <<>>)>>)
           EXCEPT !.attached = FALSE]}

MCScenarios == LinkScripts \cup ParcelScripts

MCPrimaryBlocks == (1 :> 1) @@ (2 :> 1)
=============================================================================
