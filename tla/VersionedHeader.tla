-------------------------- MODULE VersionedHeader ---------------------------
(***************************************************************************)
(* What the LUKS2 metadata store promises: one header with a sequence id.  *)
(* An update replaces the header at once by one with the next sequence id, *)
(* built on the header it replaces, so nothing that was committed is ever  *)
(* lost; a crash, a torn write or a recovery is not visible.               *)
(***************************************************************************)
EXTENDS Naturals

CONSTANT Update         \* the changes contexts make to the metadata

VARIABLES
    cur,                \* the header: [seqid, body], body the changes in it
    acked               \* changes whose writer was told of success

Init == cur.seqid = 1 /\ cur.body = {} /\ acked = {}

Commit ==
    /\ cur'.seqid = cur.seqid + 1
    /\ cur'.body \in SUBSET Update
    /\ cur.body \subseteq cur'.body
    /\ acked' = acked

Ack ==
    /\ \E S \in SUBSET cur.body : acked' = acked \cup S
    /\ cur' = cur

Next == Commit \/ Ack

Spec == Init /\ [][Next]_<<cur, acked>>
=============================================================================
